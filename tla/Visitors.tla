----------------------------- MODULE Visitors -----------------------------
(***************************************************************************)
(* A consumer seen from its visitor: the driver takes the events of a      *)
(* subscription and calls a built-in visitor, for every chunk or, through  *)
(* the line parser, for every line.  The visitors inspect, collect into a  *)
(* bounded sink, write to an asynchronous writer, or wait for a line.      *)
(*                                                                         *)
(* The synchronous and the asynchronous kind of a visitor differ in when   *)
(* the task may be aborted, which is the subject of Consumer; here they    *)
(* are one.  A mapper is the identity.                                     *)
(***************************************************************************)
EXTENDS LineParser

CONSTANTS
  Visitors,        \* the visitors and options to try
  MaxVisited,      \* bound: bytes and gaps given to any other than inspect_lines
  MaxFailures      \* bound: writes that fail

VARIABLES
  visitor,         \* the visitor, which never changes
  sink             \* what it has to show, see Init

vars == <<parser, visitor, sink>>

Kinds ==
  {"inspect_lines", "collect_lines", "write_lines", "wait_for_line",
   "inspect_chunks", "collect_chunks", "write_chunks"}

\* The options of a visitor are of their types; a collector without bounds has none.
ASSUME VisitorsAssumption ==
  /\ \A v \in Visitors :
       /\ v.kind \in Kinds
       /\ v.kind \in {"collect_lines", "collect_chunks"} =>
            \/ v.overflow = "unbounded"
            \/ /\ v.overflow \in {"additional", "oldest"} /\ v.max_bytes \in Nat
               /\ v.kind = "collect_lines" => v.max_lines \in Nat
       /\ v.kind \in {"write_lines", "write_chunks"} =>
            /\ v.options \in {"fail_fast", "log_and_continue", "with_error_handler"}
            /\ v.kind = "write_lines" => v.mode \in {"AsIs", "AppendLf"}
  /\ MaxVisited \in Nat /\ MaxFailures \in Nat

\* Whether the visitor sits behind ParseLines.
LineLevel == visitor.kind \in {"inspect_lines", "collect_lines", "write_lines", "wait_for_line"}

Init ==
  /\ ParserInit
  /\ visitor \in Visitors
  /\ ~LineLevel =>
       options = CHOOSE o \in [max_line_length : MaxLineLengths, overflow_behavior : {"drop"}] : TRUE
  /\ sink = [lines |-> <<>>, bytes |-> <<>>, retained_bytes |-> 0, truncated |-> FALSE,
             panicked |-> FALSE,                               \* collected
             written |-> <<>>, failures |-> 0, error |-> "none",   \* written
             matched |-> FALSE]                                \* waited for

\* saturating_sub.
Minus(m, n) == IF m > n THEN m - n ELSE 0

-----------------------------------------------------------------------------
(* inspect *)

\* The closure may break off at any call.
Inspect(next) == next \in {"Continue", "Break"} /\ UNCHANGED sink

-----------------------------------------------------------------------------
(* collect.  overflow: "unbounded", or of CollectionOverflowBehavior          *)
(* "additional" (DropAdditionalData) or "oldest" (DropOldestData)             *)

Keep(bytes, truncated) ==
  sink' = [sink EXCEPT !.bytes = bytes, !.truncated = @ \/ truncated]

PushChunk(c) ==
  LET size == Len(sink.bytes) + Len(c)
  IN  CASE visitor.overflow = "unbounded" -> Keep(sink.bytes \o c, FALSE)
        [] visitor.overflow = "additional" ->
             LET remaining == Minus(visitor.max_bytes, Len(sink.bytes))
                 taken == IF remaining < Len(c) THEN remaining ELSE Len(c)
             IN  Keep(sink.bytes \o SubSeq(c, 1, taken), Len(c) > remaining)
        [] visitor.overflow = "oldest" ->
             IF Len(c) > visitor.max_bytes
             THEN Keep(SubSeq(c, Len(c) - visitor.max_bytes + 1, Len(c)), TRUE)
             ELSE IF size > visitor.max_bytes
             THEN Keep(SubSeq(sink.bytes, size - visitor.max_bytes + 1, Len(sink.bytes)) \o c, TRUE)
             ELSE Keep(sink.bytes \o c, FALSE)

\* The bytes of the lines ls.
ByteCount(ls) == Len(Flatten(ls))

\* Mutant: evicted lines go on counting.
RetainedAfter_NotCountedDown(k) == sink.retained_bytes

\* retained_bytes once pop_front has taken the first k lines.
RetainedAfter(k) == sink.retained_bytes - ByteCount(SubSeq(sink.lines, 1, k))

\* push_back, after k lines have made room.
PushBack(line, k) ==
  sink' = [sink EXCEPT !.lines = Append(SubSeq(@, k + 1, Len(@)), line),
                       !.retained_bytes = RetainedAfter(k) + Len(line),
                       !.truncated = @ \/ k > 0]

\* There is room for the line once k have been evicted.
RoomAfter(line, k) ==
  /\ Len(sink.lines) - k < visitor.max_lines
  /\ Len(line) <= Minus(visitor.max_bytes, RetainedAfter(k))

\* Evict from the front until there is room; to run out of lines is a panic.
EvictAndPush(line) ==
  LET enough == {k \in 0..Len(sink.lines) : RoomAfter(line, k)}
  IN  IF enough = {}
      THEN sink' = [sink EXCEPT !.panicked = TRUE]
      ELSE PushBack(line, CHOOSE k \in enough : \A j \in enough : k <= j)

PushLine(line) ==
  CASE visitor.overflow = "unbounded" -> PushBack(line, 0)
    [] visitor.overflow = "additional" /\ RoomAfter(line, 0) -> PushBack(line, 0)
    [] visitor.overflow = "oldest" /\ visitor.max_lines > 0 /\ Len(line) <= visitor.max_bytes ->
         EvictAndPush(line)
    [] OTHER -> sink' = [sink EXCEPT !.truncated = TRUE]

CollectLine(line, next) == next = "Continue" /\ PushLine(line)

CollectChunk(c, next) == next = "Continue" /\ PushChunk(c)

-----------------------------------------------------------------------------
(* write.  mode: "AsIs" or "AppendLf"; options: see HandlerActions            *)

\* write_all to w: a failure may leave a part behind, and nothing fails to be
\* written in full if there is nothing to write.
WriteAll(w, bytes) ==
  {[ok |-> TRUE, written |-> w \o bytes]} \cup
  {[ok |-> FALSE, written |-> w \o SubSeq(bytes, 1, n)] : n \in 0..(Len(bytes) - 1)}

\* What the error handler may answer.
HandlerActions ==
  CASE visitor.options = "fail_fast" -> {"Stop"}
    [] visitor.options = "log_and_continue" -> {"Continue"}
    [] visitor.options = "with_error_handler" -> {"Stop", "Continue"}

\* handle_write_result: what becomes of a write by the visitor.
HandleWriteResult(r) == IF r.ok THEN {"written"} ELSE HandlerActions

Failed(n) == sink.failures + n <= MaxFailures

\* Mutant: the error is kept and the visitor carries on.
StopOn_CarriesOn(outcome) == "Continue"

StopOn(outcome) == IF outcome = "Stop" THEN "Break" ELSE "Continue"

\* The sink after a write, the last one of this call.
Wrote(r, outcome, operation) ==
  sink' = [sink EXCEPT !.written = r.written,
                       !.failures = IF r.ok THEN @ ELSE @ + 1,
                       !.error = IF outcome = "Stop" THEN operation ELSE @]

WriteChunk(c, next) ==
  \E r \in WriteAll(sink.written, c) : \E outcome \in HandleWriteResult(r) :
    /\ r.ok \/ Failed(1)
    /\ next = StopOn(outcome)
    /\ Wrote(r, outcome, "Chunk")

\* write_line: the line, and its delimiter unless the line failed.
WriteLine(line, next) ==
  \E r \in WriteAll(sink.written, line) : \E outcome \in HandleWriteResult(r) :
    /\ r.ok \/ Failed(1)
    /\ IF outcome # "written" \/ visitor.mode = "AsIs"
       THEN next = StopOn(outcome) /\ Wrote(r, outcome, "Line")
       ELSE \E d \in WriteAll(r.written, <<Newline>>) : \E answer \in HandleWriteResult(d) :
              /\ d.ok \/ Failed(1)
              /\ next = StopOn(answer) /\ Wrote(d, answer, "LineDelimiter")

-----------------------------------------------------------------------------
(* wait_for_line *)

\* The caller's predicate; to tell lines apart by their length is enough.
Predicate(line) == Len(line) = visitor.target

WaitForLine(line, next) ==
  /\ next = IF Predicate(line) THEN "Break" ELSE "Continue"
  /\ sink' = [sink EXCEPT !.matched = @ \/ Predicate(line)]

-----------------------------------------------------------------------------
(* The driver *)

\* on_line of the visitor behind ParseLines.
OnLine(line, next) ==
  CASE visitor.kind = "inspect_lines" -> Inspect(next)
    [] visitor.kind = "collect_lines" -> CollectLine(line, next)
    [] visitor.kind = "write_lines" -> WriteLine(line, next)
    [] visitor.kind = "wait_for_line" -> WaitForLine(line, next)

\* One turn of next_line; a line that comes out goes to the visitor.
ParseStep ==
  /\ LineLevel /\ NextLine
  /\ IF lines' = lines
     THEN UNCHANGED sink
     ELSE \E next \in {"Continue", "Break"} :
            OnLine(lines'[Len(lines')], next) /\ (state' = "broke") = (next = "Break")
  /\ UNCHANGED visitor

\* on_chunk of a visitor that takes chunks whole.
VisitChunk ==
  /\ ~LineLevel /\ state = "open" /\ chunk # <<>>
  /\ \E next \in {"Continue", "Break"} :
       /\ CASE visitor.kind = "inspect_chunks" -> Inspect(next)
            [] visitor.kind = "collect_chunks" -> CollectChunk(chunk, next)
            [] visitor.kind = "write_chunks" -> WriteChunk(chunk, next)
       /\ state' = IF next = "Break" THEN "broke" ELSE "open"
  /\ chunk' = <<>>
  /\ UNCHANGED <<options, line_buffer, mode, lines, text, visitor>>

Deliverable(n) == Len(text) + n <= (IF visitor.kind = "inspect_lines" THEN MaxText ELSE MaxVisited)

\* StreamEvent::Chunk.
EventChunk(n) == Deliverable(n) /\ OnChunk(n) /\ UNCHANGED <<visitor, sink>>

\* StreamEvent::Gap; a visitor of chunks does not override on_gap.
EventGap ==
  /\ Deliverable(1)
  /\ IF LineLevel
     THEN OnGap
     ELSE /\ state = "open" /\ chunk = <<>>
          /\ text' = Append(text, Gap)
          /\ UNCHANGED <<options, line_buffer, mode, chunk, lines, state>>
  /\ UNCHANGED <<visitor, sink>>

\* StreamEvent::Eof or None: the rest goes to the visitor, whose answer no longer
\* matters.
EventEof ==
  /\ OnEof
  /\ IF lines' = lines
     THEN UNCHANGED sink
     ELSE \E next \in {"Continue", "Break"} : OnLine(lines'[Len(lines')], next)
  /\ UNCHANGED visitor

StopsAs(end) ==
  /\ state = "open" /\ chunk = <<>>
  /\ state' = end
  /\ UNCHANGED <<options, line_buffer, mode, chunk, lines, text, visitor, sink>>

\* StreamEvent::ReadError: the visitor is lost.
EventReadError == StopsAs("failed")

\* The termination signal.  wait_for_line holds its sender and never fires it.
TermSignal == visitor.kind # "wait_for_line" /\ StopsAs("cancelled")

\* wait_for_line runs the driver under a time-out.
TimeoutElapses == visitor.kind = "wait_for_line" /\ StopsAs("timeout")

Finished == state # "open" /\ UNCHANGED vars

Next ==
  \/ ParseStep \/ VisitChunk
  \/ (\E n \in 1..MaxChunk : EventChunk(n)) \/ EventGap \/ EventEof \/ EventReadError
  \/ TermSignal \/ TimeoutElapses
  \/ Finished

Spec == Init /\ [][Next]_vars

\* on_chunk loops until next_line returns None.
FairSpec == Spec /\ WF_vars(ParseStep \/ VisitChunk)

\* What wait_for_line returns.
WaitForLineResult ==
  CASE state = "timeout" -> "Timeout"
    [] state = "failed" -> "Err"
    [] state = "open" -> "pending"
    [] OTHER -> IF sink.matched THEN "Matched" ELSE "StreamClosed"

-----------------------------------------------------------------------------
(* Properties *)

\* Wherever the chunks were cut, the visitor has been given exactly the lines of
\* the text: when the chunk is exhausted, and after the end of the stream.  One
\* that breaks off has been given the first of them.
LinesAreThoseOfText ==
  LineLevel =>
    IF state = "broke"
    THEN \E n \in 0..Len(Reference(text, TRUE)) : lines = SubSeq(Reference(text, TRUE), 1, n)
    ELSE chunk = <<>> => lines = Reference(text, state = "ended")

\* Every chunk is parsed to its end, unless the visitor breaks off: no turn of
\* the parsing loop leaves everything as it was.
ChunkExhausted == (chunk # <<>>) ~> (chunk = <<>> \/ state = "broke")

\* The elements of s at the places in K, in their order.
Only(s, K) == Flatten([i \in 1..Len(s) |-> IF i \in K THEN <<s[i]>> ELSE <<>>])

Fits(ls) == Len(ls) <= visitor.max_lines /\ ByteCount(ls) <= visitor.max_bytes

\* DropOldestData: of the lines that can be kept at all, the longest run of last ones
\* within both limits.
Newest(kept, all) ==
  LET able == Only(all, {i \in 1..Len(all) : Len(all[i]) <= visitor.max_bytes})
      last(n) == SubSeq(able, Len(able) - n + 1, Len(able))
  IN  \E n \in 0..Len(able) :
        /\ kept = last(n) /\ Fits(last(n))
        /\ \A m \in 0..Len(able) : Fits(last(m)) => m <= n

\* DropAdditionalData: a line is kept if it fits in with those kept before it.
AsFarAsTheyFit(kept, all) ==
  \E K \in SUBSET (1..Len(all)) :
    /\ kept = Only(all, K)
    /\ \A i \in 1..Len(all) :
         i \in K <=> Fits(Append(Only(all, {j \in K : j < i}), all[i]))

\* What a reader of the limits expects of the lines kept.
Expected(kept, all) ==
  CASE visitor.overflow = "unbounded" -> kept = all
    [] visitor.overflow = "additional" -> AsFarAsTheyFit(kept, all)
    [] visitor.overflow = "oldest" -> Newest(kept, all)

Delivered == Only(text, {i \in 1..Len(text) : text[i] # Gap})

\* A bounded collector holds what its limits ask for, and says that it dropped
\* something if and only if it did.  Of lines, it counts the bytes it holds and never
\* runs out of lines to evict (the expect in push_line).  Of bytes, it holds the first
\* or the last max_bytes of what was delivered, however that was cut into chunks.
CollectedExact ==
  /\ visitor.kind = "collect_lines" =>
       /\ ~sink.panicked
       /\ Expected(sink.lines, lines)
       /\ sink.truncated = (Len(sink.lines) < Len(lines))
       /\ sink.retained_bytes = ByteCount(sink.lines)
  /\ visitor.kind = "collect_chunks" /\ chunk = <<>> =>
       LET size == Len(Delivered)
           held == IF visitor.overflow = "unbounded" \/ size < visitor.max_bytes
                   THEN size ELSE visitor.max_bytes
       IN  /\ sink.bytes = IF visitor.overflow = "oldest"
                           THEN SubSeq(Delivered, size - held + 1, size)
                           ELSE SubSeq(Delivered, 1, held)
           /\ sink.truncated = (held < size)

\* As long as the writer takes everything, it has been given the text: its bytes,
\* or its lines, each with a delimiter again if that was asked for.  An error that is
\* to stop the visitor has stopped it: nothing is written after it.
WriterGetsText ==
  visitor.kind \in {"write_chunks", "write_lines"} =>
    LET delimiter == IF visitor.kind = "write_lines" /\ visitor.mode = "AppendLf"
                     THEN <<Newline>> ELSE <<>>
        forwarded == Reference(text, state = "ended")
    IN  /\ sink.failures = 0 /\ chunk = <<>> =>
             sink.written =
               IF visitor.kind = "write_chunks" THEN Delivered
               ELSE Flatten([i \in 1..Len(forwarded) |-> forwarded[i] \o delimiter])
        /\ sink.error # "none" => state \in {"broke", "ended"}

\* wait_for_line is right about the text: a match is a line of it, also an
\* unterminated last one, a closed stream had none, and no match is passed over
\* while the wait goes on.
WaitIsRight ==
  visitor.kind = "wait_for_line" =>
    LET among(ls) == \E i \in 1..Len(ls) : Predicate(ls[i])
    IN  /\ WaitForLineResult = "Matched" => among(Reference(text, TRUE))
        /\ WaitForLineResult = "StreamClosed" => ~among(Reference(text, TRUE))
        /\ WaitForLineResult = "pending" /\ chunk = <<>> => ~among(Reference(text, FALSE))
=============================================================================
