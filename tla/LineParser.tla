---------------------------- MODULE LineParser ----------------------------
(***************************************************************************)
(* The line parser and the ParseLines adapter that drives it: chunks cut   *)
(* anywhere in the text go in, lines come out, at most max_line_length     *)
(* bytes long; a gap in the delivery discards the line it fell into.       *)
(*                                                                         *)
(* A step is one turn of the loop in next_line.  A byte is known by its    *)
(* place in the text; the text also records the newlines and the gaps.     *)
(* The text is ASCII, which the lossy decoding of a line leaves alone; the *)
(* capacities of the two buffers are left out.                             *)
(*                                                                         *)
(* Visitors gives the parser a driver and a visitor.                       *)
(***************************************************************************)
EXTENDS Integers, Sequences

CONSTANTS
  MaxLineLengths,  \* the values of max_line_length; 0, which next_line takes
                   \* for no limit, also stands for the adapter's NumBytes::MAX
  MaxChunk,        \* bound: bytes of a chunk
  MaxText          \* bound: bytes and gaps of the text

ASSUME OptionsAssumption ==
  /\ MaxLineLengths \subseteq Nat
  /\ MaxChunk \in Nat \ {0} /\ MaxText \in Nat

VARIABLES
  options,         \* LineParsingOptions of the adapter, which never change
  line_buffer,     \* the line in progress
  mode,            \* LineParserMode
  chunk,           \* what is left of the chunk being parsed
  lines,           \* lines given to the visitor
  state,           \* of the consumer: "open", "broke" (the visitor returned
                   \* Break), "ended", or another end of its driver
  text             \* history: everything that was delivered

parser == <<options, line_buffer, mode, chunk, lines, state, text>>

MaxLineLength == options.max_line_length

\* overflow_behavior: "drop" (DropAdditionalData) or "emit" (EmitAdditionalAsNewLines).
Overflow == options.overflow_behavior

Newline == 0
Gap == -1

ParserInit ==
  /\ options \in [max_line_length : MaxLineLengths, overflow_behavior : {"drop", "emit"}]
  /\ line_buffer = <<>> /\ mode = "ReadingLine" /\ chunk = <<>>
  /\ lines = <<>> /\ state = "open" /\ text = <<>>

-----------------------------------------------------------------------------
(* The parser *)

Has(s, b) == \E i \in 1..Len(s) : s[i] = b

\* The number of elements before the first b of s, if it has one.
Before(s, b) == (CHOOSE i \in 1..Len(s) : s[i] = b /\ \A j \in 1..(i - 1) : s[j] # b) - 1

\* memchr.
BeforeNewline(s) == Before(s, Newline)

HasNewline(s) == Has(s, Newline)

\* The line goes to the visitor, which may break off.
Emit(line) ==
  /\ lines' = Append(lines, line)
  /\ state' \in {"open", "broke"}

\* DiscardUntilNewline.
Discard ==
  /\ mode = "DiscardUntilNewline"
  /\ IF HasNewline(chunk)
     THEN /\ mode' = "ReadingLine"
          /\ chunk' = SubSeq(chunk, BeforeNewline(chunk) + 2, Len(chunk))
     ELSE chunk' = <<>> /\ UNCHANGED mode
  /\ UNCHANGED <<options, line_buffer, lines, state, text>>

\* Mutant: the newline after a full piece is taken for an empty line.
SkipDelimiter_Never ==
  /\ mode = "PendingLimitDelimiter"
  /\ mode' = "ReadingLine"
  /\ UNCHANGED <<options, chunk, line_buffer, lines, state, text>>

\* Mutant: the mode is left only when the newline is there.
SkipDelimiter_StaysPending ==
  /\ mode = "PendingLimitDelimiter"
  /\ mode' = IF Head(chunk) = Newline THEN "ReadingLine" ELSE mode
  /\ chunk' = IF Head(chunk) = Newline THEN Tail(chunk) ELSE chunk
  /\ UNCHANGED <<options, line_buffer, lines, state, text>>

\* PendingLimitDelimiter: a newline right after a full piece belongs to it.
SkipDelimiter ==
  /\ mode = "PendingLimitDelimiter"
  /\ mode' = "ReadingLine"
  /\ chunk' = IF Head(chunk) = Newline THEN Tail(chunk) ELSE chunk
  /\ UNCHANGED <<options, line_buffer, lines, state, text>>

Full(buffer) == MaxLineLength # 0 /\ Len(buffer) = MaxLineLength

\* The buffer is full and there is more.
EmitFull ==
  /\ mode = "ReadingLine" /\ Full(line_buffer)
  /\ mode' = IF Overflow = "drop" THEN "DiscardUntilNewline" ELSE "PendingLimitDelimiter"
  /\ line_buffer' = <<>>
  /\ Emit(line_buffer)
  /\ UNCHANGED <<options, chunk, text>>

\* scan_len: as much of the chunk as the line may still take.
ScanLength ==
  LET remaining == MaxLineLength - Len(line_buffer)
  IN  IF MaxLineLength = 0 \/ remaining > Len(chunk) THEN Len(chunk) ELSE remaining

\* Read up to the newline, or to the limit; with "emit" a full piece goes out.
Scan ==
  /\ mode = "ReadingLine" /\ ~Full(line_buffer)
  /\ LET scan == SubSeq(chunk, 1, ScanLength)
         pos == BeforeNewline(scan)
         buffer == line_buffer \o scan
     IN  \/ /\ HasNewline(scan)
            /\ Emit(line_buffer \o SubSeq(scan, 1, pos))
            /\ line_buffer' = <<>>
            /\ chunk' = SubSeq(chunk, pos + 2, Len(chunk))
            /\ UNCHANGED mode
         \/ /\ ~HasNewline(scan) /\ chunk' = SubSeq(chunk, ScanLength + 1, Len(chunk))
            /\ IF Full(buffer) /\ Overflow = "emit"
               THEN mode' = "PendingLimitDelimiter" /\ line_buffer' = <<>> /\ Emit(buffer)
               ELSE line_buffer' = buffer /\ UNCHANGED <<mode, lines, state>>
  /\ UNCHANGED <<options, text>>

\* next_line, called by on_chunk until the chunk is exhausted.
NextLine ==
  /\ state = "open" /\ chunk # <<>>
  /\ Discard \/ SkipDelimiter \/ EmitFull \/ Scan

-----------------------------------------------------------------------------
(* The adapter *)

\* The chunks of length n: each byte is a newline or not.
Chunks(n) == {[i \in 1..n |-> IF i \in N THEN Newline ELSE Len(text) + i] : N \in SUBSET (1..n)}

OnChunk(n) ==
  /\ state = "open" /\ chunk = <<>> /\ Len(text) + n <= MaxText
  /\ \E c \in Chunks(n) : chunk' = c /\ text' = text \o c
  /\ UNCHANGED <<options, line_buffer, mode, lines, state>>

\* Mutant: the rest of the line the gap fell into counts as a line.
OnGap_KeepsMode ==
  /\ state = "open" /\ chunk = <<>> /\ Len(text) < MaxText
  /\ line_buffer' = <<>>
  /\ text' = Append(text, Gap)
  /\ UNCHANGED <<options, mode, chunk, lines, state>>

\* A gap drops the line in progress and the rest of the line it fell into.
OnGap ==
  /\ state = "open" /\ chunk = <<>> /\ Len(text) < MaxText
  /\ line_buffer' = <<>> /\ mode' = "DiscardUntilNewline"
  /\ text' = Append(text, Gap)
  /\ UNCHANGED <<options, chunk, lines, state>>

\* on_eof: finish flushes an unterminated line.
OnEof ==
  /\ state = "open" /\ chunk = <<>>
  /\ state' = "ended"
  /\ IF mode = "DiscardUntilNewline" \/ line_buffer = <<>>
     THEN UNCHANGED <<lines, line_buffer>>
     ELSE lines' = Append(lines, line_buffer) /\ line_buffer' = <<>>
  /\ UNCHANGED <<options, mode, chunk, text>>

-----------------------------------------------------------------------------
(* The reference: the text alone, without chunks, buffers or modes *)

\* The sequences of ss, one after another.
Flatten(ss) ==
  LET flat[n \in 0..Len(ss)] == IF n = 0 THEN <<>> ELSE flat[n - 1] \o ss[n]
  IN  flat[Len(ss)]

\* Where the line that place i of t belongs to begins: after the last newline before i.
Start(t, i) ==
  LET within == {p \in 1..i : \A j \in p..(i - 1) : t[j] # Newline}
  IN  CHOOSE p \in within : \A q \in within : p <= q

\* The pieces of the greatest length that s is cut into: one ends at every multiple.
FullPieces(s) ==
  Flatten([i \in 1..Len(s) |->
             IF i % MaxLineLength = 0 THEN <<SubSeq(s, i - MaxLineLength + 1, i)>> ELSE <<>>])

\* What the pieces leave over.
Rest(s) == SubSeq(s, Len(s) - (Len(s) % MaxLineLength) + 1, Len(s))

\* The lines of the text s between two newlines, or between the last one and the end.
Whole(s) ==
  IF MaxLineLength = 0 \/ Len(s) <= MaxLineLength THEN <<s>>
  ELSE IF Overflow = "drop" THEN <<SubSeq(s, 1, MaxLineLength)>>
  ELSE IF Rest(s) = <<>> THEN FullPieces(s) ELSE Append(FullPieces(s), Rest(s))

\* Those of them that are out before anything terminates s.
Early(s) ==
  IF MaxLineLength = 0 THEN <<>>
  ELSE IF Overflow = "emit" THEN FullPieces(s)
  ELSE IF Len(s) > MaxLineLength THEN <<SubSeq(s, 1, MaxLineLength)>> ELSE <<>>

\* A gap takes with it what follows up to the newline, and of what precedes it
\* all that is not out yet.
LinesOf(s, terminated) ==
  IF Has(s, Gap) THEN Early(SubSeq(s, 1, Before(s, Gap)))
  ELSE IF terminated THEN Whole(s) ELSE Early(s)

\* The lines that the newlines of t terminate.
Terminated(t) ==
  Flatten([i \in 1..Len(t) |->
             IF t[i] = Newline THEN LinesOf(SubSeq(t, Start(t, i), i - 1), TRUE) ELSE <<>>])

\* What follows the last newline of t.
Unterminated(t) == SubSeq(t, Start(t, Len(t) + 1), Len(t))

Reference(t, ended) ==
  Terminated(t) \o LinesOf(Unterminated(t), ended /\ Unterminated(t) # <<>>)
=============================================================================
