--------------------------- MODULE CollectorProofs ---------------------------
(***************************************************************************)
(* The collectors of chunks and of lines for every text and every limit:   *)
(* what they hold is what their options ask for.                           *)
(***************************************************************************)
EXTENDS VisitorsFacts

-----------------------------------------------------------------------------
(* What the parser gives to a collector *)

\* The inductive invariant: the line in progress never exceeds the limit, without which
\* next_line would scan a negative length.
BufferInv ==
  /\ Typed
  /\ MaxLineLength # 0 => Len(line_buffer) <= MaxLineLength

\* Nothing has been delivered.
LEMMA BufferInvInit ==
  ASSUME Init
  PROVE  BufferInv
<1>1. /\ options \in [max_line_length : MaxLineLengths, overflow_behavior : {"drop", "emit"}]
      /\ line_buffer = <<>> /\ chunk = <<>> /\ lines = <<>> /\ text = <<>>
  BY Zenon DEF Init, ParserInit
<1>2. MaxLineLength \in Nat /\ Overflow \in Behaviours
  <2>1. options.max_line_length \in MaxLineLengths /\ options.overflow_behavior \in {"drop", "emit"}
    BY <1>1
  <2> QED
    BY Zenon, <2>1, OptionsAssumption DEF MaxLineLength, Overflow, Behaviours
<1>3. <<>> \in Text /\ <<>> \in Lines
  BY Zenon, EmptySeq DEF Text, Lines
<1>4. ~Has(<<>>, Gap)
  BY Zenon, <1>2, NothingEarly
<1>5. Len(<<>>) <= MaxLineLength
  BY <1>2
<1> QED
  BY Zenon, <1>1, <1>2, <1>3, <1>4, <1>5 DEF BufferInv, Typed, ParserTypes

\* How BufferInv is shown after a step.
LEMMA BufferKept ==
  ASSUME BufferInv, options' = options, visitor' = visitor, text' \in Text, chunk' \in Text,
         ~Has(chunk', Gap), lines' \in Lines,
         \/ line_buffer' = line_buffer
         \/ line_buffer' = <<>>
         \/ /\ LineLevel /\ line_buffer' \in Text
            /\ MaxLineLength # 0 => Len(line_buffer') <= MaxLineLength
  PROVE  BufferInv'
<1>1. MaxLineLength' = MaxLineLength /\ Overflow' = Overflow /\ (LineLevel' <=> LineLevel)
  BY Zenon, SameOptions
<1>2. /\ MaxLineLength \in Nat /\ Overflow \in Behaviours /\ line_buffer \in Text
      /\ ~LineLevel => line_buffer = <<>>
      /\ MaxLineLength # 0 => Len(line_buffer) <= MaxLineLength
  BY Zenon DEF BufferInv, Typed, ParserTypes
<1>3. Len(<<>>) <= MaxLineLength
  BY <1>2
<1>4. <<>> \in Text
  BY Zenon, EmptySeq DEF Text
<1>5. line_buffer' \in Text /\ (~LineLevel => line_buffer' = <<>>)
  BY Zenon, <1>2, <1>4
<1>6. MaxLineLength # 0 => Len(line_buffer') <= MaxLineLength
  BY Zenon, <1>2, <1>3
<1>7. Typed'
  BY Zenon, <1>1, <1>2, <1>5 DEF Typed, ParserTypes
<1> QED
  BY Zenon, <1>1, <1>6, <1>7 DEF BufferInv

\* What follows a place of the chunk.
LEMMA ChunkAfter ==
  ASSUME NEW c \in Text, ~Has(c, Gap), NEW k \in Nat
  PROVE  SubSeq(c, k + 1, Len(c)) \in Text /\ ~Has(SubSeq(c, k + 1, Len(c)), Gap)
<1>1. k + 1 \in Nat \ {0} /\ Len(c) \in 0..Len(c)
  BY DEF Text
<1> QED
  BY Zenon, <1>1, PartHas

\* The turn of next_line that reads.
LEMMA ScanKeepsBuffer ==
  ASSUME BufferInv, LineLevel, Scan, visitor' = visitor
  PROVE  BufferInv'
<1>1. /\ MaxLineLength \in Nat /\ text \in Text /\ chunk \in Text /\ ~Has(chunk, Gap)
      /\ line_buffer \in Text /\ lines \in Lines
      /\ MaxLineLength # 0 => Len(line_buffer) <= MaxLineLength
  BY Zenon DEF BufferInv, Typed, ParserTypes
<1>2. ~Full(line_buffer) /\ options' = options /\ text' = text
  BY Zenon DEF Scan
<1>3. PICK L : L = ScanLength
  BY Zenon
<1>4. PICK m \in Nat, a \in Nat, k \in Nat : m = MaxLineLength /\ a = Len(line_buffer) /\ k = Len(chunk)
  BY Zenon, <1>1, LenProperties DEF Text
<1>5. L \in 0..k /\ (m # 0 => a + L <= m)
  <2>1. m # 0 => a <= m
    BY Zenon, <1>1, <1>4
  <2>2. L = IF m = 0 \/ m - a > k THEN k ELSE m - a
    BY Zenon, <1>3, <1>4 DEF ScanLength
  <2> QED
    BY SMTT(20), <2>1, <2>2
<1>6. PICK scan : scan = SubSeq(chunk, 1, L)
  BY Zenon
<1>7. scan \in Text /\ Len(scan) = L
  BY Zenon, <1>1, <1>4, <1>5, <1>6, Split DEF Text
<1>8. CASE HasNewline(scan)
  <2>1. PICK n : n = BeforeNewline(scan)
    BY Zenon
  <2>2. FirstAfter(SubSeq(chunk, 1, L), Newline, n)
    BY Zenon, <1>6, <1>7, <1>8, <2>1, BeforeIsFirst DEF HasNewline, BeforeNewline
  <2>3. n \in Nat /\ n < L /\ SubSeq(scan, 1, n) = SubSeq(chunk, 1, n)
    BY Zenon, <1>1, <1>4, <1>5, <1>6, <2>2, ScanFindsFirst
  <2>4. n \in 0..k /\ n + 1 \in Nat /\ (n + 1) + 1 = n + 2
    BY SMTT(20), <1>5, <2>3
  <2>5. PICK u : u = SubSeq(chunk, 1, n)
    BY Zenon
  <2>6. u \in Text
    BY Zenon, <1>1, <1>4, <2>4, <2>5, Split DEF Text
  <2>7. line_buffer \o u \in Text
    BY Zenon, <1>1, <2>6, TextConcat
  <2>8. /\ lines' = Append(lines, line_buffer \o u) /\ line_buffer' = <<>>
        /\ chunk' = SubSeq(chunk, n + 2, Len(chunk))
    BY Zenon, <1>3, <1>6, <1>8, <2>1, <2>3, <2>5 DEF Scan, Emit
  <2>9. lines' \in Lines
    BY Zenon, <1>1, <2>7, <2>8, LeadsAppended
  <2>10. chunk' \in Text /\ ~Has(chunk', Gap)
    BY Zenon, <1>1, <2>4, <2>8, ChunkAfter
  <2> QED
    BY Zenon, <1>1, <1>2, <2>8, <2>9, <2>10, BufferKept
<1>9. CASE ~HasNewline(scan)
  <2>1. chunk' = SubSeq(chunk, L + 1, Len(chunk))
    BY Zenon, <1>3, <1>6, <1>9 DEF Scan
  <2>2. L \in Nat
    BY SMTT(20), <1>5
  <2>3. chunk' \in Text /\ ~Has(chunk', Gap)
    BY Zenon, <1>1, <2>1, <2>2, ChunkAfter
  <2>4. PICK buffer : buffer = line_buffer \o scan
    BY Zenon
  <2>5. buffer \in Text /\ Len(buffer) = Len(line_buffer) + Len(scan)
    BY Zenon, <1>1, <1>7, <2>4, TextConcat
  <2>6. \/ line_buffer' = <<>> /\ lines' = Append(lines, buffer)
        \/ line_buffer' = buffer /\ lines' = lines
    BY Zenon, <1>3, <1>6, <1>9, <2>4 DEF Scan, Emit
  <2>7. lines' \in Lines
    BY Zenon, <1>1, <2>5, <2>6, LeadsAppended
  <2>8. MaxLineLength # 0 => Len(buffer) <= MaxLineLength
    BY Zenon, <1>4, <1>5, <1>7, <2>5
  <2> QED
    BY Zenon, <1>1, <1>2, <2>3, <2>5, <2>6, <2>7, <2>8, BufferKept
<1> QED
  BY Zenon, <1>8, <1>9

\* A turn of next_line.
LEMMA NextLineKeepsBuffer ==
  ASSUME BufferInv, LineLevel, NextLine, visitor' = visitor
  PROVE  BufferInv'
<1>1. /\ MaxLineLength \in Nat /\ text \in Text /\ chunk \in Text /\ ~Has(chunk, Gap)
      /\ line_buffer \in Text /\ lines \in Lines
  BY Zenon DEF BufferInv, Typed, ParserTypes
<1>2. <<>> \in Text /\ ~Has(<<>>, Gap)
  BY Zenon, <1>1, EmptySeq, NothingEarly DEF Text
<1>3. CASE Discard
  <2>1. /\ options' = options /\ line_buffer' = line_buffer /\ lines' = lines /\ text' = text
    BY Zenon, <1>3 DEF Discard
  <2>2. CASE HasNewline(chunk)
    <3>1. PICK n : n = BeforeNewline(chunk)
      BY Zenon
    <3>2. FirstAfter(chunk, Newline, n)
      BY Zenon, <1>1, <2>2, <3>1, BeforeIsFirst DEF HasNewline, BeforeNewline
    <3>3. n \in 0..(Len(chunk) - 1)
      BY Zenon, <3>2 DEF FirstAfter
    <3>4. n + 1 \in Nat /\ (n + 1) + 1 = n + 2
      BY SMTT(20), <3>3
    <3>5. chunk' = SubSeq(chunk, n + 2, Len(chunk))
      BY Zenon, <1>3, <2>2, <3>1 DEF Discard
    <3>6. chunk' \in Text /\ ~Has(chunk', Gap)
      BY Zenon, <1>1, <3>4, <3>5, ChunkAfter
    <3> QED
      BY Zenon, <1>1, <2>1, <3>6, BufferKept
  <2>3. CASE ~HasNewline(chunk)
    <3>1. chunk' = <<>>
      BY Zenon, <1>3, <2>3 DEF Discard
    <3> QED
      BY Zenon, <1>1, <1>2, <2>1, <3>1, BufferKept
  <2> QED
    BY Zenon, <2>2, <2>3
<1>4. CASE SkipDelimiter
  <2>1. /\ options' = options /\ line_buffer' = line_buffer /\ lines' = lines /\ text' = text
        /\ chunk' = Tail(chunk) \/ chunk' = chunk
    BY Zenon, <1>4 DEF SkipDelimiter
  <2>2. chunk # <<>>
    BY Zenon DEF NextLine
  <2>3. Tail(chunk) = SubSeq(chunk, 1 + 1, Len(chunk)) /\ 1 \in Nat
    BY Zenon, <1>1, <2>2, FirstByte
  <2>4. chunk' \in Text /\ ~Has(chunk', Gap)
    BY Zenon, <1>1, <2>1, <2>3, ChunkAfter
  <2> QED
    BY Zenon, <1>1, <2>1, <2>4, BufferKept
<1>5. CASE EmitFull
  <2>1. /\ options' = options /\ line_buffer' = <<>> /\ lines' = Append(lines, line_buffer)
        /\ chunk' = chunk /\ text' = text
    BY Zenon, <1>5 DEF EmitFull, Emit
  <2>2. lines' \in Lines
    BY Zenon, <1>1, <2>1, LeadsAppended
  <2> QED
    BY Zenon, <1>1, <2>1, <2>2, BufferKept
<1> QED
  BY Zenon, <1>3, <1>4, <1>5, ScanKeepsBuffer DEF NextLine

\* BufferInv is inductive.
LEMMA BufferInvNext ==
  ASSUME BufferInv, [Next]_vars
  PROVE  BufferInv'
<1>1. /\ MaxLineLength \in Nat /\ text \in Text /\ chunk \in Text /\ ~Has(chunk, Gap)
      /\ line_buffer \in Text /\ lines \in Lines
  BY Zenon DEF BufferInv, Typed, ParserTypes
<1>2. <<>> \in Text /\ ~Has(<<>>, Gap)
  BY Zenon, <1>1, EmptySeq, NothingEarly DEF Text
<1>3. CASE ParseStep
  BY Zenon, <1>3, NextLineKeepsBuffer DEF ParseStep
<1>4. CASE VisitChunk
  <2>1. /\ chunk' = <<>> /\ options' = options /\ visitor' = visitor
        /\ line_buffer' = line_buffer /\ lines' = lines /\ text' = text
    BY Zenon, <1>4 DEF VisitChunk
  <2> QED
    BY Zenon, <1>1, <1>2, <2>1, BufferKept
<1>5. ASSUME NEW n \in 1..MaxChunk, EventChunk(n) PROVE BufferInv'
  <2>1. n \in Nat
    BY OptionsAssumption
  <2>2. /\ options' = options /\ visitor' = visitor /\ line_buffer' = line_buffer
        /\ lines' = lines
    BY Zenon, <1>5 DEF EventChunk, OnChunk
  <2>3. PICK c \in Chunks(n) : chunk' = c /\ text' = text \o c
    BY Zenon, <1>5 DEF EventChunk, OnChunk
  <2>4. chunk' \in Text /\ ~Has(chunk', Gap) /\ text' \in Text
    BY Zenon, <1>1, <2>1, <2>3, ChunksTyped
  <2> QED
    BY Zenon, <1>1, <2>2, <2>4, BufferKept
<1>6. CASE EventGap
  <2>1. /\ options' = options /\ visitor' = visitor /\ lines' = lines /\ chunk' = chunk
        /\ text' = Append(text, Gap) /\ (line_buffer' = <<>> \/ line_buffer' = line_buffer)
    BY Zenon, <1>6 DEF EventGap, OnGap
  <2>2. text' \in Text
    BY Zenon, <1>1, <2>1, GapTyped
  <2> QED
    BY Zenon, <1>1, <2>1, <2>2, BufferKept
<1>7. CASE EventEof
  <2>1. /\ options' = options /\ visitor' = visitor /\ chunk' = chunk /\ text' = text
        /\ \/ line_buffer' = line_buffer /\ lines' = lines
           \/ line_buffer' = <<>> /\ lines' = Append(lines, line_buffer)
    BY Zenon, <1>7 DEF EventEof, OnEof
  <2>2. lines' \in Lines
    BY Zenon, <1>1, <2>1, LeadsAppended
  <2> QED
    BY Zenon, <1>1, <2>1, <2>2, BufferKept
<1>8. CASE EventReadError \/ TermSignal \/ TimeoutElapses
  <2>1. /\ options' = options /\ line_buffer' = line_buffer /\ chunk' = chunk
        /\ lines' = lines /\ text' = text /\ visitor' = visitor
    BY Zenon, <1>8 DEF EventReadError, TermSignal, TimeoutElapses, StopsAs
  <2> QED
    BY Zenon, <1>1, <2>1, BufferKept
<1>9. CASE Finished \/ UNCHANGED vars
  <2>1. /\ options' = options /\ line_buffer' = line_buffer /\ chunk' = chunk
        /\ lines' = lines /\ text' = text /\ visitor' = visitor
    BY Zenon, <1>9 DEF Finished, vars, parser
  <2> QED
    BY Zenon, <1>1, <2>1, BufferKept
<1> QED
  BY Zenon, <1>3, <1>4, <1>5, <1>6, <1>7, <1>8, <1>9 DEF Next

-----------------------------------------------------------------------------
(* Flatten and Only, an element at a time *)

\* The element after the sequences of ss comes after what they hold.
LEMMA FlattenAppend ==
  ASSUME NEW S, NEW ss \in Seq(Seq(S)), NEW x \in Seq(S)
  PROVE  Flatten(Append(ss, x)) = Flatten(ss) \o x
<1>0. PICK n \in Nat : n = Len(ss)
  BY Zenon, LenProperties
<1>1. PICK uu : uu = Append(ss, x) /\ n = Len(ss)
  BY Zenon, <1>0
<1>2. /\ Append(ss, x) \in Seq(Seq(S)) /\ Len(Append(ss, x)) = Len(ss) + 1
      /\ Append(ss, x)[Len(ss) + 1] = x /\ \A i \in 1..Len(ss) : Append(ss, x)[i] = ss[i]
  BY AppendProperties
<1>3. uu \in Seq(Seq(S)) /\ Len(uu) = n + 1 /\ uu[n + 1] = x /\ \A i \in 1..n : uu[i] = ss[i]
  BY Zenon, <1>1, <1>2
<1>4. Len(ss) < Len(uu) /\ \A i \in (Len(ss) + 1)..(Len(uu) - 1) : uu[i] = <<>>
  BY <1>1, <1>3
<1>5. Flatten(uu) = Flatten(ss) \o uu[Len(uu)]
  BY Zenon, <1>1, <1>3, <1>4, FlattenLast
<1> QED
  BY Zenon, <1>1, <1>3, <1>5

-----------------------------------------------------------------------------
(* The last elements of a sequence *)

Last(s, n) == SubSeq(s, Len(s) - n + 1, Len(s))

\* Concatenation is associative.
LEMMA SeqRegroup ==
  ASSUME NEW S, NEW a \in Seq(S), NEW b \in Seq(S), NEW c \in Seq(S)
  PROVE  Regroups(a, b, c)
  BY SMTT(20) DEF Regroups

\* What comes last.
LEMMA LastOfConcat ==
  ASSUME NEW S, NEW a \in Seq(S), NEW b \in Seq(S)
  PROVE  Last(a \o b, Len(b)) = b
<1>1. PICK m \in Nat, n \in Nat : m = Len(a) /\ n = Len(b)
  BY Zenon, LenProperties
<1>2. PICK s \in Seq(S) : s = a \o b
  BY Zenon, ConcatProperties
<1>3. Len(s) = m + n /\ \A i \in 1..n : s[m + i] = b[i]
  BY SMTT(20), <1>1, <1>2
<1>4. PICK t : t = SubSeq(s, m + 1, m + n)
  BY Zenon
<1>5. t \in Seq(S) /\ Len(t) = n /\ \A i \in 1..n : t[i] = s[m + i]
  <2>1. m + 1 \in Int /\ m + n \in Int /\ \A i \in (m + 1)..(m + n) : i \in 1..Len(s)
    BY <1>3
  <2>2. \A i \in (m + 1)..(m + n) : s[i] \in S
    BY Zenon, <2>1, ElementOfSeq
  <2>3. /\ SubSeq(s, m + 1, m + n) \in Seq(S)
        /\ Len(SubSeq(s, m + 1, m + n)) = IF m + 1 <= m + n THEN m + n - (m + 1) + 1 ELSE 0
        /\ \A i \in 1..(m + n - (m + 1) + 1) : SubSeq(s, m + 1, m + n)[i] = s[m + 1 + i - 1]
    BY SMTT(20), <2>1, <2>2, SubSeqProperties
  <2>4. /\ (IF m + 1 <= m + n THEN m + n - (m + 1) + 1 ELSE 0) = n /\ m + n - (m + 1) + 1 = n
        /\ \A i \in 1..n : m + 1 + i - 1 = m + i
    OBVIOUS
  <2> QED
    BY Zenon, <1>4, <2>3, <2>4
<1>6. t = b
  <2>1. \A i \in 1..Len(t) : t[i] = b[i]
    BY Zenon, <1>3, <1>5
  <2> QED
    BY Zenon, <1>1, <1>5, <2>1, SeqEqual
<1>7. Len(s) - n + 1 = m + 1
  BY <1>3
<1> QED
  BY Zenon, <1>1, <1>2, <1>3, <1>4, <1>6, <1>7 DEF Last

\* A sequence ends with its last elements.
LEMMA LastSplits ==
  ASSUME NEW S, NEW s \in Seq(S), NEW n \in 0..Len(s)
  PROVE  /\ Last(s, n) \in Seq(S) /\ Len(Last(s, n)) = n
         /\ SubSeq(s, 1, Len(s) - n) \in Seq(S)
         /\ SubSeq(s, 1, Len(s) - n) \o Last(s, n) = s
<1>1. PICK m \in Nat : m = Len(s)
  BY Zenon, LenProperties
<1>2. PICK k \in 0..Len(s) : k = Len(s) - n
  BY <1>1
<1>3. /\ SubSeq(s, 1, k) \in Seq(S)
      /\ SubSeq(s, k + 1, Len(s)) \in Seq(S) /\ Len(SubSeq(s, k + 1, Len(s))) = Len(s) - k
      /\ SubSeq(s, 1, k) \o SubSeq(s, k + 1, Len(s)) = s
  BY Zenon, Split
<1>4. Len(s) - k = n /\ k + 1 = Len(s) - n + 1
  BY SMTT(20), <1>1, <1>2
<1> QED
  BY Zenon, <1>2, <1>3, <1>4 DEF Last

\* The last of two sequences are the last of the second, while it has so many.
LEMMA LastInSecond ==
  ASSUME NEW S, NEW a \in Seq(S), NEW b \in Seq(S), NEW n \in 0..Len(b)
  PROVE  Last(a \o b, n) = Last(b, n)
<1>0. /\ Last(b, n) \in Seq(S) /\ Len(Last(b, n)) = n
      /\ SubSeq(b, 1, Len(b) - n) \in Seq(S)
      /\ SubSeq(b, 1, Len(b) - n) \o Last(b, n) = b
  BY Zenon, LastSplits
<1>1. PICK x \in Seq(S), y \in Seq(S) : y = Last(b, n) /\ Len(y) = n /\ x \o y = b
  BY Zenon, <1>0
<1>2. Regroups(a, x, y)
  BY Zenon, SeqRegroup
<1>3. a \o x \in Seq(S)
  BY Zenon, ConcatProperties
<1>4. Last((a \o x) \o y, Len(y)) = y
  BY Zenon, <1>3, LastOfConcat
<1> QED
  BY Zenon, <1>1, <1>2, <1>4 DEF Regroups

\* They reach into the first one when it has not.
LEMMA LastInBoth ==
  ASSUME NEW S, NEW a \in Seq(S), NEW b \in Seq(S), NEW n \in 0..Len(a)
  PROVE  Last(a \o b, n + Len(b)) = Last(a, n) \o b
<1>0. /\ Last(a, n) \in Seq(S) /\ Len(Last(a, n)) = n
      /\ SubSeq(a, 1, Len(a) - n) \in Seq(S)
      /\ SubSeq(a, 1, Len(a) - n) \o Last(a, n) = a
  BY Zenon, LastSplits
<1>1. PICK x \in Seq(S), y \in Seq(S) : y = Last(a, n) /\ Len(y) = n /\ x \o y = a
  BY Zenon, <1>0
<1>2. Regroups(x, y, b)
  BY Zenon, SeqRegroup
<1>3. y \o b \in Seq(S) /\ Len(y \o b) = n + Len(b)
  BY Zenon, <1>1, ConcatProperties
<1>4. Last(x \o (y \o b), Len(y \o b)) = y \o b
  BY Zenon, <1>3, LastOfConcat
<1> QED
  BY Zenon, <1>1, <1>2, <1>3, <1>4 DEF Regroups

\* The last of the last.
LEMMA LastOfLast ==
  ASSUME NEW S, NEW s \in Seq(S), NEW n \in 0..Len(s), NEW m \in 0..n
  PROVE  Last(Last(s, n), m) = Last(s, m)
<1>0. /\ Last(s, n) \in Seq(S) /\ Len(Last(s, n)) = n
      /\ SubSeq(s, 1, Len(s) - n) \in Seq(S)
      /\ SubSeq(s, 1, Len(s) - n) \o Last(s, n) = s
  BY Zenon, LastSplits
<1>1. PICK x \in Seq(S), y \in Seq(S) : y = Last(s, n) /\ Len(y) = n /\ x \o y = s
  BY Zenon, <1>0
<1>2. m \in 0..Len(y)
  BY Zenon, <1>1
<1>3. Last(x \o y, m) = Last(y, m)
  BY Zenon, <1>2, LastInSecond
<1> QED
  BY Zenon, <1>1, <1>3

\* All, or none.
LEMMA LastAll ==
  ASSUME NEW S, NEW s \in Seq(S)
  PROVE  Last(s, Len(s)) = s /\ Last(s, 0) = <<>>
<1>1. PICK m \in Nat : m = Len(s)
  BY Zenon, LenProperties
<1>2. m \in Int /\ m + 1 \in Int /\ m < m + 1 /\ m - m + 1 = 1 /\ m - 0 + 1 = m + 1
  OBVIOUS
<1>3. SubSeq(s, 1, Len(s)) = s
  BY Zenon, SubSeqFull
<1>4. SubSeq(s, m + 1, m) = <<>>
  BY Zenon, <1>2, SubSeqEmpty
<1> QED
  BY Zenon, <1>1, <1>2, <1>3, <1>4 DEF Last

-----------------------------------------------------------------------------
(* collect_chunks *)

HeldSize(v, size) ==
  IF v.overflow = "unbounded" \/ size < v.max_bytes THEN size ELSE v.max_bytes

\* Of the bytes D the collector holds the first or the last, and says whether there are more.
Held(v, D, bytes, truncated) ==
  /\ bytes = IF v.overflow = "oldest" THEN Last(D, HeldSize(v, Len(D)))
             ELSE SubSeq(D, 1, HeldSize(v, Len(D)))
  /\ truncated \in BOOLEAN /\ (truncated <=> HeldSize(v, Len(D)) < Len(D))

BytesTypes ==
  visitor.kind = "collect_chunks" /\ visitor \in Visitors /\ {"bytes", "truncated"} \subseteq DOMAIN sink

\* The two fields that Keep changes.
LEMMA KeepIs ==
  ASSUME BytesTypes, sink.truncated \in BOOLEAN, NEW bytes, NEW truncated \in BOOLEAN,
         Keep(bytes, truncated)
  PROVE  /\ DOMAIN sink' = DOMAIN sink /\ sink'.bytes = bytes
         /\ sink'.truncated \in BOOLEAN /\ (sink'.truncated <=> sink.truncated \/ truncated)
<1>1. "bytes" \in DOMAIN sink /\ "truncated" \in DOMAIN sink
  BY Zenon DEF BytesTypes
<1>2. PICK t \in BOOLEAN : t <=> sink.truncated \/ truncated
  BY Zenon
<1>3. sink' = [sink EXCEPT !.bytes = bytes, !.truncated = sink.truncated \/ truncated]
  BY Zenon DEF Keep
<1>4. DOMAIN sink' = DOMAIN sink /\ sink'.bytes = bytes
  BY Zenon, <1>1, <1>3
<1>5. sink'.truncated = (sink.truncated \/ truncated)
  BY Zenon, <1>1, <1>3
<1>6. (sink.truncated \/ truncated) \in BOOLEAN
  BY Zenon
<1> QED
  BY Zenon, <1>4, <1>5, <1>6

\* No limit.
LEMMA PushUnbounded ==
  ASSUME BytesTypes, NEW D \in Text, NEW c \in Text, visitor.overflow = "unbounded",
         Held(visitor, D, sink.bytes, sink.truncated), PushChunk(c)
  PROVE  Held(visitor, D \o c, sink'.bytes, sink'.truncated)
<1>0. PICK n \in Nat, k \in Nat : n = Len(D) /\ k = Len(c)
  BY Zenon, LenProperties DEF Text
<1>1. PICK E \in Text : n = Len(D) /\ k = Len(c) /\ E = D \o c /\ Len(E) = n + k
  BY Zenon, <1>0, TextConcat
<1>2. \E tr \in BOOLEAN : ~tr /\ Keep(sink.bytes \o c, tr)
  <2>1. Keep(sink.bytes \o c, FALSE)
    BY Zenon DEF PushChunk
  <2> WITNESS FALSE \in BOOLEAN
  <2> QED
    BY Zenon, <2>1
<1>a. PICK b : b = sink.bytes \o c
  BY Zenon
<1>b. PICK tr \in BOOLEAN : ~tr /\ Keep(b, tr)
  BY Zenon, <1>2, <1>a
<1>3. \A m : HeldSize(visitor, m) = m
  BY Zenon DEF HeldSize
<1>4. SubSeq(D, 1, Len(D)) = D /\ SubSeq(E, 1, Len(E)) = E
  BY Zenon, SubSeqFull DEF Text
<1>5. sink.bytes = D /\ sink.truncated \in BOOLEAN /\ (sink.truncated <=> n < n)
  BY Zenon, <1>1, <1>3, <1>4 DEF Held
<1>6. ~(n < n) /\ ~(n + k < n + k)
  OBVIOUS
<1>7. sink'.bytes = b /\ sink'.truncated \in BOOLEAN /\ (sink'.truncated <=> sink.truncated \/ tr)
  BY Zenon, <1>b, <1>5, KeepIs
<1>8. sink'.bytes = E /\ sink'.truncated \in BOOLEAN /\ (sink'.truncated <=> n + k < n + k)
  BY Zenon, <1>1, <1>a, <1>b, <1>5, <1>6, <1>7
<1> QED
  BY Zenon, <1>1, <1>3, <1>4, <1>7, <1>8 DEF Held

\* DropAdditionalData.
LEMMA PushAdditional ==
  ASSUME BytesTypes, NEW D \in Text, NEW c \in Text, visitor.overflow = "additional",
         visitor.max_bytes \in Nat, Held(visitor, D, sink.bytes, sink.truncated), PushChunk(c)
  PROVE  Held(visitor, D \o c, sink'.bytes, sink'.truncated)
<1>0. PICK n \in Nat, k \in Nat : n = Len(D) /\ k = Len(c)
  BY Zenon, LenProperties DEF Text
<1>1. PICK E \in Text : n = Len(D) /\ k = Len(c) /\ E = D \o c /\ Len(E) = n + k
  BY Zenon, <1>0, TextConcat
<1>2. PICK mb \in Nat : mb = visitor.max_bytes
  BY Zenon
<1>3. \A m : HeldSize(visitor, m) = IF m < mb THEN m ELSE mb
  BY Zenon, <1>2 DEF HeldSize
<1>4. PICK held \in 0..n : held = IF n < mb THEN n ELSE mb
  OBVIOUS
<1>a. HeldSize(visitor, n) = held /\ "additional" # "oldest"
  BY Zenon, <1>3, <1>4
<1>5. sink.bytes = SubSeq(D, 1, held) /\ sink.truncated \in BOOLEAN /\ (sink.truncated <=> held < n)
  BY Zenon, <1>0, <1>a DEF Held
<1>b. D \in Seq(Int) /\ held \in 0..Len(D)
  BY Zenon, <1>0 DEF Text
<1>c. SubSeq(D, 1, held) \in Seq(Int) /\ Len(SubSeq(D, 1, held)) = held
  BY Zenon, <1>b, Split
<1>6. sink.bytes \in Text /\ Len(sink.bytes) = held
  BY Zenon, <1>5, <1>c DEF Text
<1>7. PICK remaining : remaining = Minus(mb, held)
  BY Zenon
<1>8. PICK taken : taken = IF remaining < k THEN remaining ELSE k
  BY Zenon
<1>9. Keep(sink.bytes \o SubSeq(c, 1, taken), k > remaining)
  BY SMTT(20), <1>1, <1>2, <1>6, <1>7, <1>8 DEF PushChunk
<1>d. \E tr \in BOOLEAN : (tr <=> k > remaining) /\ Keep(sink.bytes \o SubSeq(c, 1, taken), tr)
  <2> WITNESS (k > remaining) \in BOOLEAN
  <2> QED
    BY Zenon, <1>9
<1>e. PICK b : b = sink.bytes \o SubSeq(c, 1, taken)
  BY Zenon
<1>f. PICK tr \in BOOLEAN : (tr <=> k > remaining) /\ Keep(b, tr)
  BY Zenon, <1>d, <1>e
<1>g. sink'.bytes = b /\ sink'.truncated \in BOOLEAN /\ (sink'.truncated <=> sink.truncated \/ tr)
  BY Zenon, <1>5, <1>f, KeepIs
<1>10. /\ sink'.bytes = sink.bytes \o SubSeq(c, 1, taken)
       /\ sink'.truncated \in BOOLEAN /\ (sink'.truncated <=> sink.truncated \/ k > remaining)
  BY Zenon, <1>e, <1>f, <1>g
<1>11. /\ remaining = mb - held /\ remaining \in Nat /\ taken \in 0..k
       /\ (IF n + k < mb THEN n + k ELSE mb) = held + taken
       /\ (held + taken < n + k <=> held < n \/ k > remaining)
       /\ held = n \/ (held = mb /\ taken = 0)
  <2>1. remaining = mb - held /\ remaining \in Nat
    BY SMTT(20), <1>4, <1>7 DEF Minus
  <2>2. taken \in 0..k
    BY SMTT(20), <1>8, <2>1
  <2>3. (IF n + k < mb THEN n + k ELSE mb) = held + taken
    BY SMTT(20), <1>4, <1>8, <2>1
  <2>4. held = n \/ (held = mb /\ taken = 0)
    BY SMTT(20), <1>4, <1>8, <2>1
  <2>5. held + taken < n + k <=> held < n \/ k > remaining
    BY SMTT(20), <1>4, <1>8, <2>1
  <2> QED
    BY Zenon, <2>1, <2>2, <2>3, <2>4, <2>5
<1>12. sink'.bytes = SubSeq(E, 1, held + taken)
  <2>1. CASE held = n
    <3>1. SubSeq(D, 1, n) = D
      BY Zenon, <1>1, SubSeqFull DEF Text
    <3>a. c \in Seq(Int) /\ taken \in 0..Len(c)
      BY Zenon, <1>0, <1>11 DEF Text
    <3>b. /\ SubSeq(c, 1, taken) \in Seq(Int) /\ Len(SubSeq(c, 1, taken)) = taken
          /\ SubSeq(c, taken + 1, Len(c)) \in Seq(Int)
          /\ SubSeq(c, 1, taken) \o SubSeq(c, taken + 1, Len(c)) = c
      BY Zenon, <3>a, Split
    <3>2. PICK x \in Text, y \in Text : x = SubSeq(c, 1, taken) /\ Len(x) = taken /\ x \o y = c
      BY Zenon, <3>b DEF Text
    <3>3. Regroups(D, x, y)
      BY Zenon, TextRegroup
    <3>c. D \o x \in Text /\ Len(D \o x) = Len(D) + Len(x)
      BY Zenon, TextConcat
    <3>4. PICK z \in Text : z = D \o x /\ Len(z) = n + taken
      BY Zenon, <1>0, <3>2, <3>c
    <3>5. E = z \o y
      BY Zenon, <1>1, <3>2, <3>3, <3>4 DEF Regroups
    <3>6. z \in Seq(Int) /\ y \in Seq(Int)
      BY Zenon DEF Text
    <3>7. SubSeq(z \o y, 1, Len(z)) = SubSeq(z, 1, Len(z))
      BY SMTT(20), <3>6, PartOfConcat
    <3>8. SubSeq(z, 1, Len(z)) = z
      BY Zenon, <3>6, SubSeqFull
    <3> QED
      BY Zenon, <1>5, <1>10, <2>1, <3>1, <3>2, <3>4, <3>5, <3>7, <3>8
  <2>2. CASE held = mb /\ taken = 0
    <3>1. SubSeq(c, 1, 0) = <<>> /\ held + 0 = held
      BY DEF Text
    <3>2. sink.bytes \o <<>> = sink.bytes
      BY Zenon, <1>6, ConcatEmptySeq DEF Text
    <3>3. D \in Seq(Int) /\ c \in Seq(Int) /\ 1 \in Nat \ {0} /\ held \in Nat /\ 1 <= held + 1
          /\ held <= Len(D)
      BY SMTT(20), <1>1, <1>4 DEF Text
    <3>4. SubSeq(D \o c, 1, held) = SubSeq(D, 1, held)
      BY SMTT(20), <3>3, PartOfConcat
    <3> QED
      BY Zenon, <1>1, <1>5, <1>10, <2>2, <3>1, <3>2, <3>4
  <2> QED
    BY Zenon, <1>11, <2>1, <2>2
<1>13. sink'.truncated \in BOOLEAN /\ (sink'.truncated <=> held + taken < n + k)
  BY Zenon, <1>5, <1>10, <1>11
<1>14. HeldSize(visitor, Len(E)) = held + taken
  BY Zenon, <1>1, <1>3, <1>11
<1>15. "additional" # "oldest"
  BY Zenon
<1> QED
  BY Zenon, <1>1, <1>12, <1>13, <1>14, <1>15 DEF Held

\* What is written with a flag that is set, and with one that is not.
LEMMA KeepTrue ==
  ASSUME BytesTypes, sink.truncated \in BOOLEAN, NEW bytes, Keep(bytes, TRUE)
  PROVE  sink'.bytes = bytes /\ sink'.truncated = TRUE
<1>1. "bytes" \in DOMAIN sink /\ "truncated" \in DOMAIN sink
  BY Zenon DEF BytesTypes
<1>2. sink' = [sink EXCEPT !.bytes = bytes, !.truncated = sink.truncated \/ TRUE]
  BY Zenon DEF Keep
<1>3. sink'.bytes = bytes /\ sink'.truncated = (sink.truncated \/ TRUE)
  BY Zenon, <1>1, <1>2
<1> QED
  BY Zenon, <1>3

\* The flag stays as it was.
LEMMA KeepFalse ==
  ASSUME BytesTypes, sink.truncated \in BOOLEAN, NEW bytes, Keep(bytes, FALSE)
  PROVE  sink'.bytes = bytes /\ sink'.truncated = sink.truncated
<1>1. "bytes" \in DOMAIN sink /\ "truncated" \in DOMAIN sink
  BY Zenon DEF BytesTypes
<1>2. sink' = [sink EXCEPT !.bytes = bytes, !.truncated = sink.truncated \/ FALSE]
  BY Zenon DEF Keep
<1>3. sink'.bytes = bytes /\ sink'.truncated = (sink.truncated \/ FALSE)
  BY Zenon, <1>1, <1>2
<1> QED
  BY Zenon, <1>3

\* DropOldestData.
LEMMA PushOldest ==
  ASSUME BytesTypes, NEW D \in Text, NEW c \in Text, c # <<>>, visitor.overflow = "oldest",
         visitor.max_bytes \in Nat, Held(visitor, D, sink.bytes, sink.truncated), PushChunk(c)
  PROVE  Held(visitor, D \o c, sink'.bytes, sink'.truncated)
<1>0. PICK n \in Nat, k \in Nat : n = Len(D) /\ k = Len(c)
  BY Zenon, LenProperties DEF Text
<1>1. PICK E \in Text : E = D \o c /\ Len(E) = n + k
  BY Zenon, <1>0, TextConcat
<1>2. PICK mb \in Nat : mb = visitor.max_bytes
  BY Zenon
<1>3. \A m : HeldSize(visitor, m) = IF m < mb THEN m ELSE mb
  BY Zenon, <1>2 DEF HeldSize
<1>4. PICK held \in 0..n : held = IF n < mb THEN n ELSE mb
  OBVIOUS
<1>5. HeldSize(visitor, n) = held
  BY Zenon, <1>3, <1>4
<1>6. sink.bytes = Last(D, held) /\ sink.truncated \in BOOLEAN /\ (sink.truncated <=> held < n)
  BY Zenon, <1>0, <1>5 DEF Held
<1>7. D \in Seq(Int) /\ c \in Seq(Int) /\ held \in 0..Len(D)
  BY Zenon, <1>0 DEF Text
<1>8. Last(D, held) \in Seq(Int) /\ Len(Last(D, held)) = held
  BY Zenon, <1>7, LastSplits
<1>9. PICK B \in Seq(Int) : B = sink.bytes /\ B = Last(D, held) /\ Len(B) = held
  BY Zenon, <1>6, <1>8
<1>10. k # 0
  BY Zenon, <1>0, <1>7, EmptySeq
<1>11. SUFFICES \E h : /\ HeldSize(visitor, n + k) = h /\ sink'.bytes = Last(E, h)
                       /\ sink'.truncated \in BOOLEAN /\ (sink'.truncated <=> h < n + k)
  BY Zenon, <1>1 DEF Held
<1>12. CASE k > mb
  <2>1. Keep(SubSeq(c, k - mb + 1, k), TRUE)
    BY Zenon, <1>0, <1>2, <1>12 DEF PushChunk
  <2>2. SubSeq(c, k - mb + 1, k) = Last(c, mb)
    BY Zenon, <1>0 DEF Last
  <2>3. mb \in 0..Len(c) /\ ~(n + k < mb) /\ mb < n + k
    BY <1>0, <1>12
  <2>4. Last(D \o c, mb) = Last(c, mb)
    BY Zenon, <1>7, <2>3, LastInSecond
  <2>5. PICK x : x = SubSeq(c, k - mb + 1, k)
    BY Zenon
  <2>6. sink'.bytes = x /\ sink'.truncated = TRUE
    BY Zenon, <1>6, <2>1, <2>5, KeepTrue
  <2>7. sink'.bytes = Last(E, mb)
    BY Zenon, <1>1, <2>2, <2>4, <2>5, <2>6
  <2> QED
    BY Zenon, <1>3, <2>3, <2>6, <2>7
<1>13. CASE k <= mb /\ held + k > mb
  <2>0. ~(k > mb) /\ held + k > mb
    BY <1>13
  <2>a. ~(Len(c) > visitor.max_bytes) /\ Len(sink.bytes) + Len(c) > visitor.max_bytes
    BY Zenon, <1>0, <1>2, <1>9, <2>0
  <2>b. PICK p, q : /\ p = (Len(sink.bytes) + Len(c)) - visitor.max_bytes + 1
                    /\ q = Len(sink.bytes)
    BY Zenon
  <2>c. p = (held + k) - mb + 1 /\ q = held
    BY Zenon, <1>0, <1>2, <1>9, <2>b
  <2>d. IF Len(c) > visitor.max_bytes
        THEN Keep(SubSeq(c, Len(c) - visitor.max_bytes + 1, Len(c)), TRUE)
        ELSE IF Len(sink.bytes) + Len(c) > visitor.max_bytes
        THEN Keep(SubSeq(sink.bytes, (Len(sink.bytes) + Len(c)) - visitor.max_bytes + 1, Len(sink.bytes)) \o c,
                  TRUE)
        ELSE Keep(sink.bytes \o c, FALSE)
    BY Zenon DEF PushChunk
  <2>1. Keep(SubSeq(sink.bytes, (Len(sink.bytes) + Len(c)) - visitor.max_bytes + 1, Len(sink.bytes)) \o c,
             TRUE)
    BY Zenon, <2>a, <2>d
  <2>2. PICK r \in 0..held : r = mb - k /\ held - r + 1 = (held + k) - mb + 1
    BY <1>13
  <2>3. SubSeq(sink.bytes, p, q) = Last(B, r)
    BY Zenon, <1>9, <2>2, <2>c DEF Last
  <2>4. Last(Last(D, held), r) = Last(D, r)
    BY Zenon, <1>7, LastOfLast
  <2>5. r \in 0..Len(D)
    BY SMTT(20), <1>0, <2>2
  <2>6. Last(D \o c, r + Len(c)) = Last(D, r) \o c
    BY Zenon, <1>7, <2>5, LastInBoth
  <2>7. r + k = mb /\ ~(n + k < mb) /\ mb < n + k
    BY SMTT(20), <1>13, <2>2
  <2>8. PICK x :
          x = SubSeq(sink.bytes, (Len(sink.bytes) + Len(c)) - visitor.max_bytes + 1, Len(sink.bytes)) \o c
    BY Zenon
  <2>9. sink'.bytes = x /\ sink'.truncated = TRUE
    BY Zenon, <1>6, <2>1, <2>8, KeepTrue
  <2>10. Last(E, mb) = Last(D, r) \o c
    BY Zenon, <1>0, <1>1, <2>6, <2>7
  <2>11. sink'.bytes = Last(E, mb)
    BY Zenon, <1>9, <2>3, <2>4, <2>b, <2>8, <2>9, <2>10
  <2> QED
    BY Zenon, <1>3, <2>7, <2>9, <2>11
<1>14. CASE held + k <= mb
  <2>0. ~(k > mb) /\ ~(held + k > mb)
    BY <1>14
  <2>1. Keep(sink.bytes \o c, FALSE)
    BY Zenon, <1>0, <1>2, <1>9, <2>0 DEF PushChunk
  <2>2. held = n /\ (IF n + k < mb THEN n + k ELSE mb) = n + k /\ ~(n < n) /\ ~(n + k < n + k)
    BY SMTT(20), <1>4, <1>10, <1>14
  <2>3. Last(D, Len(D)) = D
    BY Zenon, <1>7, LastAll
  <2>4. E \in Seq(Int)
    BY Zenon DEF Text
  <2>5. Last(E, Len(E)) = E
    BY Zenon, <2>4, LastAll
  <2>6. PICK x : x = sink.bytes \o c
    BY Zenon
  <2>7. sink'.bytes = x /\ sink'.truncated = sink.truncated
    BY Zenon, <1>6, <2>1, <2>6, KeepFalse
  <2>8. sink'.bytes = Last(E, n + k)
    BY Zenon, <1>0, <1>1, <1>6, <2>2, <2>3, <2>5, <2>6, <2>7
  <2>9. HeldSize(visitor, n + k) = n + k
    BY Zenon, <1>3, <2>2
  <2>10. sink'.truncated \in BOOLEAN /\ (sink'.truncated <=> n + k < n + k)
    BY Zenon, <1>6, <2>2, <2>7
  <2> QED
    BY Zenon, <2>8, <2>9, <2>10
<1> QED
  BY SMTT(20), <1>12, <1>13, <1>14

\* Whatever the behaviour on overflow.
LEMMA PushHolds ==
  ASSUME BytesTypes, NEW D \in Text, NEW c \in Text, c # <<>>,
         Held(visitor, D, sink.bytes, sink.truncated), PushChunk(c)
  PROVE  Held(visitor, D \o c, sink'.bytes, sink'.truncated)
<1>1. \/ visitor.overflow = "unbounded"
      \/ visitor.overflow \in {"additional", "oldest"} /\ visitor.max_bytes \in Nat
  BY Zenon, VisitorsAssumption DEF BytesTypes
<1> QED
  BY Zenon, <1>1, PushUnbounded, PushAdditional, PushOldest

\* The fields stay.
LEMMA PushKeepsFields ==
  ASSUME BytesTypes, NEW c, PushChunk(c)
  PROVE  DOMAIN sink' = DOMAIN sink
<1>1. \E bytes : \E truncated : Keep(bytes, truncated)
  <2>1. \/ visitor.overflow = "unbounded"
        \/ visitor.overflow = "additional"
        \/ visitor.overflow = "oldest"
    BY Zenon, VisitorsAssumption DEF BytesTypes
  <2> QED
    BY Zenon, <2>1 DEF PushChunk
<1> QED
  BY Zenon, <1>1 DEF Keep

\* The inductive invariant of collect_chunks: P is what came before the chunk at hand.
BytesInv ==
  visitor.kind = "collect_chunks" =>
    /\ BytesTypes
    /\ \E P \in Text : text = P \o chunk /\ Held(visitor, Payload(P), sink.bytes, sink.truncated)

\* Nothing is held of nothing.
LEMMA BytesInvInit ==
  ASSUME Init
  PROVE  BytesInv
<1>1. SUFFICES ASSUME visitor.kind = "collect_chunks" PROVE BytesInv
  BY Zenon DEF BytesInv
<1>2. /\ text = <<>> /\ chunk = <<>> /\ visitor \in Visitors
      /\ {"bytes", "truncated"} \subseteq DOMAIN sink
      /\ sink.bytes = <<>> /\ sink.truncated = FALSE
  BY DEF Init, ParserInit
<1>3. <<>> \in Text /\ <<>> \in Seq(Int) /\ Len(<<>>) = 0
  BY Zenon, EmptySeq DEF Text
<1>4. <<>> \o <<>> = <<>>
  BY SMTT(20)
<1>5. Payload(<<>>) = <<>>
  BY Zenon, OnlyEmpty DEF Payload
<1>6. HeldSize(visitor, 0) = 0
  <2>1. CASE visitor.overflow = "unbounded"
    BY Zenon, <2>1 DEF HeldSize
  <2>2. CASE visitor.max_bytes \in Nat
    <3>1. PICK mb \in Nat : mb = visitor.max_bytes
      BY Zenon, <2>2
    <3>2. 0 < mb \/ mb = 0
      OBVIOUS
    <3> QED
      BY Zenon, <3>1, <3>2 DEF HeldSize
  <2> QED
    BY Zenon, <1>1, <1>2, <2>1, <2>2, VisitorsAssumption
<1>7. Last(<<>>, 0) = <<>>
  BY Zenon, <1>3, LastAll
<1>8. SubSeq(<<>>, 1, 0) = <<>> /\ ~(0 < 0)
  OBVIOUS
<1>9. Held(visitor, <<>>, sink.bytes, sink.truncated)
  BY Zenon, <1>2, <1>3, <1>6, <1>7, <1>8 DEF Held
<1>10. BytesTypes
  BY Zenon, <1>1, <1>2 DEF BytesTypes
<1> QED
  BY Zenon, <1>2, <1>3, <1>4, <1>5, <1>9, <1>10 DEF BytesInv

\* BytesInv is inductive.
LEMMA BytesInvNext ==
  ASSUME Typed, Typed', BytesInv, [Next]_vars
  PROVE  BytesInv'
<1>0. visitor' = visitor
  BY Zenon, VisitorSteps
<1>1. SUFFICES ASSUME visitor.kind = "collect_chunks" PROVE BytesInv'
  BY Zenon, <1>0 DEF BytesInv
<1>2. text \in Text /\ chunk \in Text /\ ~Has(chunk, Gap)
  BY Zenon DEF Typed, ParserTypes
<1>3. ~LineLevel
  BY Zenon, <1>1 DEF LineLevel
<1>4. PICK P \in Text : text = P \o chunk /\ Held(visitor, Payload(P), sink.bytes, sink.truncated)
  BY Zenon, <1>1 DEF BytesInv
<1>5. BytesTypes
  BY Zenon, <1>1 DEF BytesInv
<1>6. CASE sink' = sink /\ ~VisitChunk
  <2>1. BytesTypes'
    BY Zenon, <1>0, <1>5, <1>6 DEF BytesTypes
  <2>2. SUFFICES \E Q \in Text : text' = Q \o chunk' /\ Payload(Q) = Payload(P)
    BY Zenon, <1>0, <1>4, <1>6, <2>1 DEF BytesInv
  <2>3. CASE chunk' = chunk /\ text' = text
    BY Zenon, <1>4, <2>3
  <2>4. ASSUME chunk = <<>>
        PROVE  text = P
    BY Zenon, <1>4, <2>4, ConcatEmptySeq DEF Text
  <2>5. CASE chunk = <<>> /\ text' = text \o chunk'
    BY Zenon, <2>4, <2>5
  <2>6. CASE chunk = <<>> /\ chunk' = <<>> /\ text' = Append(text, Gap)
    <3>1. text' \in Text
      BY Zenon, <1>2, <2>6, GapTyped
    <3>2. text' = text' \o chunk'
      BY Zenon, <2>6, <3>1, ConcatEmptySeq DEF Text
    <3>3. Gap \in Int
      BY DEF Gap
    <3>4. Payload(Append(text, Gap)) = Payload(text)
      BY Zenon, <1>2, <3>3, PayloadByte
    <3> QED
      BY Zenon, <2>4, <2>6, <3>1, <3>2, <3>4
  <2> QED
    BY Zenon, <1>3, <1>6, <2>3, <2>5, <2>6, ChunkSteps
<1>7. CASE VisitChunk
  <2>1. PushChunk(chunk) /\ chunk # <<>> /\ chunk' = <<>> /\ text' = text
    BY <1>1, <1>7 DEF VisitChunk, CollectChunk
  <2>2. PICK D \in Text : D = Payload(P)
    BY Zenon, PayloadTyped
  <2>3. Held(visitor, D \o chunk, sink'.bytes, sink'.truncated)
    BY Zenon, <1>2, <1>4, <1>5, <2>1, <2>2, PushHolds
  <2>4. Payload(P \o chunk) = Payload(P) \o chunk
    BY Zenon, <1>2, PayloadChunk
  <2>5. text' = text \o chunk'
    BY Zenon, <1>2, <2>1, ConcatEmptySeq DEF Text
  <2>6. DOMAIN sink' = DOMAIN sink
    BY Zenon, <1>5, <2>1, PushKeepsFields
  <2>7. BytesTypes'
    BY Zenon, <1>0, <1>5, <2>6 DEF BytesTypes
  <2>8. Held(visitor, Payload(text), sink'.bytes, sink'.truncated)
    BY Zenon, <1>4, <2>2, <2>3, <2>4
  <2> QED
    BY Zenon, <1>0, <1>2, <2>5, <2>7, <2>8 DEF BytesInv
<1> QED
  BY Zenon, <1>3, <1>6, <1>7, ChunkSteps

\* What CollectedExact says of bytes.
LEMMA BytesInvGives ==
  ASSUME Typed, BytesInv, visitor.kind = "collect_chunks", chunk = <<>>
  PROVE  LET size == Len(Delivered)
             held == IF visitor.overflow = "unbounded" \/ size < visitor.max_bytes
                     THEN size ELSE visitor.max_bytes
         IN  /\ sink.bytes = IF visitor.overflow = "oldest"
                             THEN SubSeq(Delivered, size - held + 1, size)
                             ELSE SubSeq(Delivered, 1, held)
             /\ sink.truncated = (held < size)
<1>1. PICK P \in Text : text = P \o chunk /\ Held(visitor, Payload(P), sink.bytes, sink.truncated)
  BY Zenon DEF BytesInv
<1>2. text = P
  BY Zenon, <1>1, ConcatEmptySeq DEF Text
<1>3. Held(visitor, Delivered, sink.bytes, sink.truncated)
  BY Zenon, <1>1, <1>2 DEF Delivered, Payload
<1> HIDE DEF Delivered
<1>4. PICK size : size = Len(Delivered)
  BY Zenon
<1>5. PICK held : held = IF visitor.overflow = "unbounded" \/ size < visitor.max_bytes
                         THEN size ELSE visitor.max_bytes
  BY Zenon
<1>6. HeldSize(visitor, Len(Delivered)) = held
  BY Zenon, <1>4, <1>5 DEF HeldSize
<1>7. /\ sink.bytes = IF visitor.overflow = "oldest" THEN Last(Delivered, held)
                      ELSE SubSeq(Delivered, 1, held)
      /\ sink.truncated \in BOOLEAN /\ (sink.truncated <=> held < size)
  BY Zenon, <1>3, <1>4, <1>6 DEF Held
<1>8. sink.truncated = (held < size)
  BY <1>7
<1>9. sink.bytes = IF visitor.overflow = "oldest" THEN SubSeq(Delivered, size - held + 1, size)
                   ELSE SubSeq(Delivered, 1, held)
  BY Zenon, <1>4, <1>7 DEF Last
<1> QED
  BY Zenon, <1>4, <1>5, <1>8, <1>9

-----------------------------------------------------------------------------
(* The bytes of lines, and the last lines *)

\* There is a number of them.
LEMMA BytesTyped ==
  ASSUME NEW ls \in Lines
  PROVE  ByteCount(ls) \in Nat
<1>1. Flatten(ls) \in Seq(Int)
  BY Zenon, FlatsTyped DEF Lines, Text
<1> QED
  BY Zenon, <1>1, LenProperties DEF ByteCount

\* One line more.
LEMMA BytesAppended ==
  ASSUME NEW ls \in Lines, NEW l \in Text
  PROVE  ByteCount(Append(ls, l)) = ByteCount(ls) + Len(l)
<1>1. PICK f \in Text : f = Flatten(ls)
  BY Zenon, FlatsTyped DEF Lines, Text
<1>2. Flatten(Append(ls, l)) = Flatten(ls) \o l
  BY Zenon, FlattenAppend DEF Lines, Text
<1>3. Len(f \o l) = Len(f) + Len(l)
  BY Zenon, TextConcat
<1> QED
  BY Zenon, <1>1, <1>2, <1>3 DEF ByteCount

\* No line, no byte.
LEMMA BytesEmpty ==
  ByteCount(<<>>) = 0
  BY Zenon, FlattenEmpty, EmptySeq DEF ByteCount

\* The bytes of lines and lines.
LEMMA BytesConcat ==
  ASSUME NEW a \in Lines, NEW b \in Lines
  PROVE  ByteCount(a \o b) = ByteCount(a) + ByteCount(b)
<1> DEFINE u(n) == SubSeq(b, 1, n)
           G == {n \in 0..Len(b) : ByteCount(a \o u(n)) = ByteCount(a) + ByteCount(u(n))}
<1>1. b \in Seq(Text) /\ a \in Seq(Text) /\ Len(b) \in Nat /\ ByteCount(a) \in Nat
  BY Zenon, LenProperties, BytesTyped DEF Lines
<1>2. \A n \in 0..Len(b) : u(n) \in Lines
  BY Zenon, <1>1, Split DEF Lines
<1>3. 0 \in G
  <2>1. u(0) = <<>> /\ 0 \in 0..Len(b)
    BY <1>1
  <2>2. a \o <<>> = a
    BY Zenon, <1>1, ConcatEmptySeq
  <2>3. ByteCount(a) = ByteCount(a) + 0
    BY <1>1
  <2> QED
    BY Zenon, <2>1, <2>2, <2>3, BytesEmpty
<1>4. ASSUME NEW n \in 1..Len(b), n - 1 \in G PROVE n \in G
  <2>1. n \in 0..Len(b) /\ n - 1 \in 0..Len(b) /\ 1 \in 1..Len(b) /\ n \in 1..Len(b)
    BY <1>1
  <2>2. PICK v \in Lines, l \in Text : v = u(n - 1) /\ l = b[n]
    BY Zenon, <1>1, <1>2, <2>1, ElementOfSeq
  <2>3. u(n) = v \o <<l>>
    BY Zenon, <1>1, <2>1, <2>2, SubSeqRecursiveSecond
  <2>4. u(n) = Append(v, l)
    BY Zenon, <2>3, AppendIsConcat DEF Lines
  <2>5. a \o v \in Lines
    BY Zenon, LinesConcat
  <2>6. ByteCount(Append(a \o v, l)) = ByteCount(a \o v) + Len(l)
    BY Zenon, <2>5, BytesAppended
  <2>7. ByteCount(a \o v) = ByteCount(a) + ByteCount(v)
    BY Zenon, <1>4, <2>2
  <2>8. ByteCount(Append(v, l)) = ByteCount(v) + Len(l)
    BY Zenon, BytesAppended
  <2>9. Append(a \o v, l) = a \o Append(v, l)
    BY Zenon, AppendToLast
  <2>10. PICK x \in Nat, y \in Nat, z \in Nat : x = ByteCount(a) /\ y = ByteCount(v) /\ z = Len(l)
    BY Zenon, <1>1, BytesTyped, LenProperties DEF Text
  <2>11. (x + y) + z = x + (y + z)
    OBVIOUS
  <2>12. ByteCount(a \o Append(v, l)) = ByteCount(a) + ByteCount(Append(v, l))
    BY Zenon, <2>6, <2>7, <2>8, <2>9, <2>10, <2>11
  <2> QED
    BY Zenon, <2>1, <2>4, <2>12
<1>5. G \in SUBSET (0..Len(b)) /\ Len(b) \in 0..Len(b)
  BY <1>1
<1>6. Len(b) \in G
  <2> HIDE DEF G
  <2> QED
    BY Zenon, <1>1, <1>3, <1>4, <1>5, Climb
<1>7. u(Len(b)) = b
  BY Zenon, <1>1, SubSeqFull
<1> QED
  BY Zenon, <1>6, <1>7

\* The lines ls without the first k of them.
Without(ls, k) == Last(ls, Len(ls) - k)

\* What is left, and its bytes.
LEMMA WithoutIs ==
  ASSUME NEW ls \in Lines, NEW k \in 0..Len(ls)
  PROVE  /\ Without(ls, k) \in Lines /\ Len(Without(ls, k)) = Len(ls) - k
         /\ SubSeq(ls, k + 1, Len(ls)) = Without(ls, k)
         /\ ByteCount(ls) - ByteCount(SubSeq(ls, 1, k)) = ByteCount(Without(ls, k))
         /\ ByteCount(Without(ls, k)) <= ByteCount(ls)
<1>1. PICK n \in Nat : n = Len(ls)
  BY Zenon, LenProperties DEF Lines
<1>2. PICK r \in 0..Len(ls) : r = Len(ls) - k /\ Len(ls) - r = k /\ Len(ls) - r + 1 = k + 1
  BY SMTT(20), <1>1
<1>3. /\ Last(ls, r) \in Seq(Text) /\ Len(Last(ls, r)) = r
      /\ SubSeq(ls, 1, Len(ls) - r) \in Seq(Text)
      /\ SubSeq(ls, 1, Len(ls) - r) \o Last(ls, r) = ls
  BY Zenon, LastSplits DEF Lines
<1>4. PICK x \in Lines, y \in Lines : x = SubSeq(ls, 1, k) /\ y = Last(ls, r)
  BY Zenon, <1>2, <1>3 DEF Lines
<1>5. Without(ls, k) = y /\ x \o y = ls /\ Len(y) = Len(ls) - k
  BY Zenon, <1>2, <1>3, <1>4 DEF Without
<1>6. ByteCount(x \o y) = ByteCount(x) + ByteCount(y)
  BY Zenon, BytesConcat
<1>7. PICK p \in Nat, q \in Nat : p = ByteCount(x) /\ q = ByteCount(y)
  BY Zenon, BytesTyped
<1>8. (p + q) - p = q /\ q <= p + q
  OBVIOUS
<1>9. SubSeq(ls, k + 1, Len(ls)) = y
  BY Zenon, <1>2, <1>4 DEF Last
<1>10. ByteCount(ls) = p + q
  BY Zenon, <1>5, <1>6, <1>7
<1>11. ByteCount(ls) - ByteCount(SubSeq(ls, 1, k)) = ByteCount(y) /\ ByteCount(y) <= ByteCount(ls)
  BY Zenon, <1>4, <1>7, <1>8, <1>10
<1> QED
  BY Zenon, <1>5, <1>9, <1>11

\* The last lines of one line more.
LEMMA LastAppended ==
  ASSUME NEW ls \in Lines, NEW l \in Text, NEW n \in 0..Len(ls)
  PROVE  Last(Append(ls, l), n + 1) = Append(Last(ls, n), l)
<1>0. <<l>> \in Seq(Text) /\ Len(<<l>>) = 1
  <2>1. Len(<<l>>) = 1
    OBVIOUS
  <2> QED
    BY Zenon, <2>1, OneLine DEF Lines
<1>1. PICK u \in Seq(Text) : u = <<l>> /\ Len(u) = 1
  BY Zenon, <1>0
<1>2. ls \in Seq(Text)
  BY Zenon DEF Lines
<1>3. Last(ls, n) \in Seq(Text)
  BY Zenon, <1>2, LastSplits
<1>4. Append(ls, l) = ls \o u /\ Append(Last(ls, n), l) = Last(ls, n) \o u
  BY Zenon, <1>1, <1>2, <1>3, AppendIsConcat
<1>5. Last(ls \o u, n + Len(u)) = Last(ls, n) \o u
  BY Zenon, <1>2, LastInBoth
<1> QED
  BY Zenon, <1>1, <1>4, <1>5

-----------------------------------------------------------------------------
(* What the limits ask for, a line at a time *)

\* Fits, for given limits.
FitsIn(ml, mb, ls) == Len(ls) <= ml /\ ByteCount(ls) <= mb

\* The lines that can be kept at all.
Able(mb, all) == Only(all, {i \in 1..Len(all) : Len(all[i]) <= mb})

\* The last n lines of able are the most that fit.
LongestRun(ml, mb, able, n) ==
  /\ FitsIn(ml, mb, Last(able, n))
  /\ \A m \in 0..Len(able) : FitsIn(ml, mb, Last(able, m)) => m <= n

\* Newest, for given limits.
NewestIn(ml, mb, kept, all) ==
  \E n \in 0..Len(Able(mb, all)) : kept = Last(Able(mb, all), n) /\ LongestRun(ml, mb, Able(mb, all), n)

\* AsFarAsTheyFit, for given limits and with the lines that were kept.
FarIn(ml, mb, K, all) ==
  \A i \in 1..Len(all) : i \in K <=> FitsIn(ml, mb, Append(Only(all, {j \in K : j < i}), all[i]))

\* One line more, if it is not too long.
LEMMA AbleAppended ==
  ASSUME NEW mb, NEW all \in Lines, NEW l \in Text
  PROVE  Able(mb, Append(all, l)) =
           IF Len(l) <= mb THEN Append(Able(mb, all), l) ELSE Able(mb, all)
<1>0. PICK n \in Nat : n = Len(all)
  BY Zenon, LenProperties DEF Lines
<1>1. PICK a : a = Append(all, l)
  BY Zenon
<1>2. Len(a) = n + 1 /\ a[n + 1] = l /\ \A i \in 1..n : a[i] = all[i]
  <2>1. /\ Len(Append(all, l)) = Len(all) + 1 /\ Append(all, l)[Len(all) + 1] = l
        /\ \A i \in 1..Len(all) : Append(all, l)[i] = all[i]
    BY AppendProperties DEF Lines
  <2> QED
    BY Zenon, <1>0, <1>1, <2>1
<1>3. PICK J : J = {i \in 1..Len(a) : Len(a[i]) <= mb}
  BY Zenon
<1>4. PICK K : K = {i \in 1..Len(all) : Len(all[i]) <= mb}
  BY Zenon
<1>5. n + 1 \in 1..(n + 1) /\ \A i \in 1..n : i \in 1..(n + 1)
  OBVIOUS
<1>6. SamePlaces(all, J, K) /\ (n + 1 \in J <=> Len(l) <= mb)
  BY Zenon, <1>0, <1>2, <1>3, <1>4, <1>5 DEF SamePlaces
<1>7. OnlyGrows(all, l, J, K)
  BY Zenon, <1>6, OnlyAppended DEF Lines
<1>8. Able(mb, Append(all, l)) = Only(Append(all, l), J) /\ Able(mb, all) = Only(all, K)
  BY Zenon, <1>1, <1>3, <1>4 DEF Able
<1> QED
  BY Zenon, <1>0, <1>6, <1>7, <1>8 DEF OnlyGrows

\* They are lines.
LEMMA AbleTyped ==
  ASSUME NEW mb, NEW all \in Lines
  PROVE  Able(mb, all) \in Lines
  BY Zenon, PicksTyped DEF Able, Lines

\* What is within the limits with a line more is within them without it.
LEMMA FitsAppended ==
  ASSUME NEW ml \in Nat, NEW mb \in Nat, NEW ls \in Lines, NEW l \in Text
  PROVE  /\ FitsIn(ml, mb, Append(ls, l)) <=> Len(ls) < ml /\ ByteCount(ls) + Len(l) <= mb
         /\ FitsIn(ml, mb, Append(ls, l)) => FitsIn(ml, mb, ls)
<1>1. PICK n \in Nat, b \in Nat, k \in Nat : n = Len(ls) /\ b = ByteCount(ls) /\ k = Len(l)
  BY Zenon, BytesTyped, LenProperties DEF Lines, Text
<1>2. Len(Append(ls, l)) = n + 1 /\ ByteCount(Append(ls, l)) = b + k
  BY Zenon, <1>1, Appended, BytesAppended
<1>3. (n + 1 <= ml <=> n < ml) /\ (n + 1 <= ml => n <= ml) /\ (b + k <= mb => b <= mb)
  OBVIOUS
<1> QED
  BY Zenon, <1>1, <1>2, <1>3 DEF FitsIn

\* The most that fit with a line more are those before it that fit in with it.
LEMMA RunGrows ==
  ASSUME NEW ml \in Nat, NEW mb \in Nat, NEW able \in Lines, NEW l \in Text,
         NEW n \in 0..Len(able), LongestRun(ml, mb, able, n), NEW r \in 0..n,
         FitsIn(ml, mb, Append(Last(able, r), l)),
         \A i \in 0..n : FitsIn(ml, mb, Append(Last(able, i), l)) => i <= r
  PROVE  LongestRun(ml, mb, Append(able, l), r + 1)
<1>0. PICK s \in Nat : s = Len(able)
  BY Zenon, LenProperties DEF Lines
<1>1. Len(Append(able, l)) = s + 1
  BY Zenon, <1>0, Appended
<1>2. r \in 0..Len(able)
  BY <1>0
<1>3. FitsIn(ml, mb, Last(Append(able, l), r + 1))
  BY Zenon, <1>2, LastAppended
<1>4. ASSUME NEW m \in 0..(s + 1), FitsIn(ml, mb, Last(Append(able, l), m))
      PROVE  m <= r + 1
  <2>1. CASE m = 0
    BY SMTT(20), <1>2, <2>1
  <2>2. CASE m # 0
    <3>1. PICK i \in 0..Len(able) : m = i + 1
      BY <1>0, <2>2
    <3>2. Last(able, i) \in Lines
      BY Zenon, LastSplits DEF Lines
    <3>3. FitsIn(ml, mb, Append(Last(able, i), l))
      BY Zenon, <1>4, <3>1, LastAppended
    <3>4. FitsIn(ml, mb, Last(able, i))
      BY Zenon, <3>2, <3>3, FitsAppended
    <3>5. i <= n
      BY Zenon, <3>4 DEF LongestRun
    <3>6. i \in 0..n
      BY SMTT(20), <1>0, <3>5
    <3>7. i <= r
      BY Zenon, <3>3, <3>6
    <3> QED
      BY SMTT(20), <1>0, <3>1, <3>7
  <2> QED
    BY Zenon, <2>1, <2>2
<1> QED
  BY Zenon, <1>1, <1>3, <1>4 DEF LongestRun

\* DropOldestData: a line that can be kept is, with the last ones that it fits in with.
LEMMA NewestGrows ==
  ASSUME NEW ml \in Nat, NEW mb \in Nat, NEW all \in Lines, NEW kept \in Lines, NEW l \in Text,
         NewestIn(ml, mb, kept, all), Len(l) <= mb, NEW k \in 0..Len(kept),
         FitsIn(ml, mb, Append(Without(kept, k), l)),
         \A j \in 0..Len(kept) : FitsIn(ml, mb, Append(Without(kept, j), l)) => k <= j
  PROVE  NewestIn(ml, mb, Append(Without(kept, k), l), Append(all, l))
<1>1. PICK able \in Lines : able = Able(mb, all)
  BY Zenon, AbleTyped
<1>2. PICK n \in 0..Len(able) : kept = Last(able, n) /\ LongestRun(ml, mb, able, n)
  BY Zenon, <1>1 DEF NewestIn
<1>3. PICK s \in Nat : s = Len(able)
  BY Zenon, LenProperties DEF Lines
<1>4. Len(kept) = n
  BY Zenon, <1>2, LastSplits DEF Lines
<1>5. PICK r \in 0..n : r = n - k
  BY <1>4
<1>6. \A i \in 0..n : Last(kept, i) = Last(able, i)
  BY Zenon, <1>2, LastOfLast DEF Lines
<1>7. Without(kept, k) = Last(able, r)
  BY Zenon, <1>4, <1>5, <1>6 DEF Without
<1>8. ASSUME NEW i \in 0..n, FitsIn(ml, mb, Append(Last(able, i), l))
      PROVE  i <= r
  <2>1. PICK j \in 0..n : j = n - i /\ n - j = i
    BY <1>3
  <2>2. Without(kept, j) = Last(able, i)
    BY Zenon, <1>4, <1>6, <2>1 DEF Without
  <2>3. k <= j
    BY Zenon, <1>4, <1>8, <2>1, <2>2
  <2> QED
    BY SMTT(20), <1>3, <1>4, <1>5, <2>1, <2>3
<1>9. FitsIn(ml, mb, Append(Last(able, r), l))
  BY Zenon, <1>7
<1>10. LongestRun(ml, mb, Append(able, l), r + 1)
  BY Zenon, <1>2, <1>8, <1>9, RunGrows
<1>11. Able(mb, Append(all, l)) = Append(able, l)
  BY Zenon, <1>1, AbleAppended
<1>12. r \in 0..Len(able)
  BY <1>3
<1>13. Append(Without(kept, k), l) = Last(Append(able, l), r + 1)
  BY Zenon, <1>7, <1>12, LastAppended
<1>14. Len(Append(able, l)) = s + 1
  BY Zenon, <1>3, Appended
<1>15. r + 1 \in 0..(s + 1)
  BY <1>3
<1> QED
  BY Zenon, <1>10, <1>11, <1>13, <1>14, <1>15 DEF NewestIn

\* DropOldestData: a line that cannot be kept changes nothing.
LEMMA NewestStays ==
  ASSUME NEW ml \in Nat, NEW mb \in Nat, NEW all \in Lines, NEW kept \in Lines, NEW l \in Text,
         NewestIn(ml, mb, kept, all), ml = 0 \/ ~(Len(l) <= mb)
  PROVE  NewestIn(ml, mb, kept, Append(all, l))
<1>1. PICK able \in Lines : able = Able(mb, all)
  BY Zenon, AbleTyped
<1>2. PICK n \in 0..Len(able) : kept = Last(able, n) /\ LongestRun(ml, mb, able, n)
  BY Zenon, <1>1 DEF NewestIn
<1>3. CASE ~(Len(l) <= mb)
  <2>1. Able(mb, Append(all, l)) = able
    BY Zenon, <1>1, <1>3, AbleAppended
  <2> QED
    BY Zenon, <1>2, <2>1 DEF NewestIn
<1>4. CASE ml = 0 /\ Len(l) <= mb
  <2>1. PICK new \in Lines : new = Append(able, l)
    <3>1. Append(able, l) \in Seq(Text)
      BY AppendProperties DEF Lines
    <3> QED
      BY Zenon, <3>1 DEF Lines
  <2>2. Able(mb, Append(all, l)) = new
    BY Zenon, <1>1, <1>4, <2>1, AbleAppended
  <2>3. Len(able) \in Nat /\ Len(new) \in Nat
    BY Zenon, LenProperties DEF Lines
  <2>4. Len(Last(able, n)) = n
    BY Zenon, LastSplits DEF Lines
  <2>5. n <= 0
    BY Zenon, <1>2, <1>4, <2>4 DEF LongestRun, FitsIn
  <2>6. n = 0
    BY SMTT(20), <2>3, <2>5
  <2>7. Last(able, 0) = <<>> /\ Last(new, 0) = <<>>
    BY Zenon, LastAll DEF Lines
  <2>8. FitsIn(ml, mb, Last(new, 0))
    BY Zenon, <1>2, <2>6, <2>7 DEF LongestRun
  <2>9. ASSUME NEW m \in 0..Len(new), FitsIn(ml, mb, Last(new, m))
        PROVE  m <= 0
    <3>1. Len(Last(new, m)) = m
      BY Zenon, LastSplits DEF Lines
    <3> QED
      BY Zenon, <1>4, <2>9, <3>1 DEF FitsIn
  <2>10. 0 \in 0..Len(new)
    BY SMTT(20), <2>3
  <2> QED
    BY Zenon, <1>2, <2>2, <2>6, <2>7, <2>8, <2>9, <2>10 DEF NewestIn, LongestRun
<1> QED
  BY Zenon, <1>3, <1>4

\* DropAdditionalData: K, with the place of the line if it fits in.
LEMMA FarGrows ==
  ASSUME NEW ml, NEW mb, NEW all \in Lines, NEW K \in SUBSET (1..Len(all)), NEW l \in Text,
         FarIn(ml, mb, K, all), NEW J,
         J = IF FitsIn(ml, mb, Append(Only(all, K), l)) THEN K \cup {Len(all) + 1} ELSE K
  PROVE  FarIn(ml, mb, J, Append(all, l))
<1>0. PICK n \in Nat : n = Len(all)
  BY Zenon, LenProperties DEF Lines
<1>1. PICK a : a = Append(all, l)
  BY Zenon
<1>2. Len(a) = n + 1 /\ a[n + 1] = l /\ \A i \in 1..n : a[i] = all[i]
  <2>1. /\ Len(Append(all, l)) = Len(all) + 1 /\ Append(all, l)[Len(all) + 1] = l
        /\ \A i \in 1..Len(all) : Append(all, l)[i] = all[i]
    BY SMTT(20), AppendProperties DEF Lines
  <2> QED
    BY Zenon, <1>0, <1>1, <2>1
<1>3. /\ n + 1 \notin 1..n /\ ~(n + 1 < n + 1) /\ \A i \in 1..n : i < n + 1 /\ ~(n + 1 < i) /\ i # n + 1
      /\ \A i \in 1..(n + 1) : i \in 1..n \/ i = n + 1
  OBVIOUS
<1>4. K \subseteq 1..n
  BY Zenon, <1>0
<1>5. \A i \in 1..n : i \in J <=> i \in K
  BY Zenon, <1>0, <1>3
<1>6. n + 1 \in J <=> FitsIn(ml, mb, Append(Only(all, K), l))
  BY Zenon, <1>0, <1>3, <1>4
<1>7. ASSUME NEW P, NEW Q, SamePlaces(all, P, Q), n + 1 \notin P
      PROVE  Only(a, P) = Only(all, Q)
  <2>1. OnlyGrows(all, l, P, Q)
    BY Zenon, <1>7, OnlyAppended DEF Lines
  <2> QED
    BY Zenon, <1>0, <1>1, <1>7, <2>1 DEF OnlyGrows
<1>8. ASSUME NEW i \in 1..n
      PROVE  i \in J <=> FitsIn(ml, mb, Append(Only(a, {j \in J : j < i}), a[i]))
  <2>1. PICK P : P = {j \in J : j < i}
    BY Zenon
  <2>2. PICK Q : Q = {j \in K : j < i}
    BY Zenon
  <2>3. SamePlaces(all, P, Q) /\ n + 1 \notin P
    BY Zenon, <1>0, <1>3, <1>5, <2>1, <2>2 DEF SamePlaces
  <2>4. Only(a, P) = Only(all, Q)
    BY Zenon, <1>7, <2>3
  <2>5. i \in K <=> FitsIn(ml, mb, Append(Only(all, Q), all[i]))
    BY Zenon, <1>0, <2>2 DEF FarIn
  <2> QED
    BY Zenon, <1>2, <1>5, <2>1, <2>4, <2>5
<1>9. n + 1 \in J <=> FitsIn(ml, mb, Append(Only(a, {j \in J : j < n + 1}), a[n + 1]))
  <2>1. PICK P : P = {j \in J : j < n + 1}
    BY Zenon
  <2>2. SamePlaces(all, P, K) /\ n + 1 \notin P
    BY Zenon, <1>0, <1>3, <1>5, <2>1 DEF SamePlaces
  <2>3. Only(a, P) = Only(all, K)
    BY Zenon, <1>7, <2>2
  <2> QED
    BY Zenon, <1>2, <1>6, <2>1, <2>3
<1>10. ASSUME NEW i \in 1..Len(a)
       PROVE  i \in J <=> FitsIn(ml, mb, Append(Only(a, {j \in J : j < i}), a[i]))
  <2>1. i \in 1..n \/ i = n + 1
    BY Zenon, <1>2, <1>3
  <2>2. CASE i = n + 1
    BY Zenon, <1>9, <2>2
  <2> QED
    BY Zenon, <1>8, <2>1, <2>2
<1>11. FarIn(ml, mb, J, a)
  BY Zenon, <1>10 DEF FarIn
<1> QED
  BY Zenon, <1>1, <1>11

\* The places in J of one line more hold it if it fits in.
FarKept(ml, mb, all, K, l, J) ==
  /\ J \in SUBSET (1..Len(Append(all, l)))
  /\ Only(Append(all, l), J) = IF FitsIn(ml, mb, Append(Only(all, K), l))
                               THEN Append(Only(all, K), l) ELSE Only(all, K)

\* What the places in J then hold.
LEMMA FarKeeps ==
  ASSUME NEW ml, NEW mb, NEW all \in Lines, NEW K \in SUBSET (1..Len(all)), NEW l \in Text, NEW J,
         J = IF FitsIn(ml, mb, Append(Only(all, K), l)) THEN K \cup {Len(all) + 1} ELSE K
  PROVE  FarKept(ml, mb, all, K, l, J)
<1>0. PICK n \in Nat : n = Len(all)
  BY Zenon, LenProperties DEF Lines
<1>1. Len(Append(all, l)) = n + 1
  BY Zenon, <1>0, Appended
<1>2. n + 1 \notin 1..n /\ n + 1 \in 1..(n + 1) /\ \A i \in 1..n : i # n + 1 /\ i \in 1..(n + 1)
  OBVIOUS
<1>3. K \subseteq 1..n
  BY Zenon, <1>0
<1>4. J \subseteq 1..(n + 1)
  BY Zenon, <1>0, <1>2, <1>3
<1>5. n + 1 \in J <=> FitsIn(ml, mb, Append(Only(all, K), l))
  BY Zenon, <1>0, <1>2, <1>3
<1>6. SamePlaces(all, J, K)
  BY Zenon, <1>0, <1>2 DEF SamePlaces
<1>7. OnlyGrows(all, l, J, K)
  BY Zenon, <1>6, OnlyAppended DEF Lines
<1> QED
  BY Zenon, <1>0, <1>1, <1>4, <1>5, <1>7 DEF OnlyGrows, FarKept

-----------------------------------------------------------------------------
(* collect_lines *)

LinesTypes ==
  /\ visitor.kind = "collect_lines" /\ visitor \in Visitors
  /\ {"lines", "retained_bytes", "truncated", "panicked"} \subseteq DOMAIN sink
  /\ sink.lines \in Lines /\ sink.retained_bytes = ByteCount(sink.lines)
  /\ sink.truncated \in BOOLEAN /\ sink.panicked = FALSE

\* The collector keeps ls, with the lines dropped that it says were dropped.
KeepsLines(ls, dropped) ==
  /\ DOMAIN sink' = DOMAIN sink /\ sink'.lines = ls
  /\ sink'.retained_bytes = ByteCount(sink'.lines)
  /\ sink'.truncated \in BOOLEAN /\ (sink'.truncated <=> sink.truncated \/ dropped)
  /\ sink'.panicked = sink.panicked

\* There is room if the line fits in with what is left.
LEMMA RoomIs ==
  ASSUME LinesTypes, NEW ml \in Nat, NEW mb \in Nat, visitor.max_lines = ml, visitor.max_bytes = mb,
         FitsIn(ml, mb, sink.lines), NEW l \in Text, NEW k \in 0..Len(sink.lines)
  PROVE  RoomAfter(l, k) <=> FitsIn(ml, mb, Append(Without(sink.lines, k), l))
<1>1. PICK ls \in Lines : ls = sink.lines
  BY Zenon DEF LinesTypes
<1>2. /\ Without(ls, k) \in Lines /\ Len(Without(ls, k)) = Len(ls) - k
      /\ ByteCount(ls) - ByteCount(SubSeq(ls, 1, k)) = ByteCount(Without(ls, k))
      /\ ByteCount(Without(ls, k)) <= ByteCount(ls)
  BY Zenon, <1>1, WithoutIs
<1>3. PICK b \in Nat, all \in Nat, n \in Nat : b = ByteCount(Without(ls, k)) /\ all = ByteCount(ls) /\ n = Len(l)
  BY Zenon, <1>1, <1>2, BytesTyped, LenProperties DEF Text
<1>4. RetainedAfter(k) = b
  BY Zenon, <1>1, <1>2, <1>3 DEF RetainedAfter, LinesTypes
<1>5. b <= mb
  <2>1. b <= all /\ all <= mb
    BY Zenon, <1>1, <1>2, <1>3 DEF FitsIn
  <2> QED
    BY <2>1
<1>6. n <= Minus(mb, b) <=> b + n <= mb
  BY <1>5 DEF Minus
<1>7. RoomAfter(l, k) <=> Len(ls) - k < ml /\ n <= Minus(mb, b)
  BY Zenon, <1>1, <1>3, <1>4 DEF RoomAfter
<1>8. FitsIn(ml, mb, Append(Without(ls, k), l)) <=> Len(Without(ls, k)) < ml /\ ByteCount(Without(ls, k)) + Len(l) <= mb
  BY Zenon, <1>2, FitsAppended
<1> QED
  BY Zenon, <1>1, <1>2, <1>3, <1>6, <1>7, <1>8

\* push_back after k lines have gone.
LEMMA PushBackIs ==
  ASSUME LinesTypes, NEW l \in Text, NEW k \in 0..Len(sink.lines), PushBack(l, k)
  PROVE  KeepsLines(Append(Without(sink.lines, k), l), k > 0)
<1>1. PICK ls \in Lines : ls = sink.lines
  BY Zenon DEF LinesTypes
<1>2. /\ Without(ls, k) \in Lines /\ SubSeq(ls, k + 1, Len(ls)) = Without(ls, k)
      /\ ByteCount(ls) - ByteCount(SubSeq(ls, 1, k)) = ByteCount(Without(ls, k))
  BY Zenon, <1>1, WithoutIs
<1>3. RetainedAfter(k) = ByteCount(Without(ls, k))
  BY Zenon, <1>1, <1>2 DEF RetainedAfter, LinesTypes
<1>4. ByteCount(Append(Without(ls, k), l)) = ByteCount(Without(ls, k)) + Len(l)
  BY Zenon, <1>2, BytesAppended
<1>5. PICK new, bytes : /\ new = Append(SubSeq(sink.lines, k + 1, Len(sink.lines)), l)
                        /\ bytes = RetainedAfter(k) + Len(l)
  BY Zenon
<1>6. new = Append(Without(ls, k), l) /\ bytes = ByteCount(new)
  BY Zenon, <1>1, <1>2, <1>3, <1>4, <1>5
<1>7. /\ "lines" \in DOMAIN sink /\ "retained_bytes" \in DOMAIN sink
      /\ "truncated" \in DOMAIN sink /\ "panicked" \in DOMAIN sink
  BY Zenon DEF LinesTypes
<1>8. sink' = [sink EXCEPT !.lines = new, !.retained_bytes = bytes, !.truncated = sink.truncated \/ k > 0]
  BY Zenon, <1>5 DEF PushBack
<1>9. DOMAIN sink' = DOMAIN sink
  BY Zenon, <1>8
<1>10. sink'.lines = new
  BY Zenon, <1>7, <1>8
<1>11. sink'.retained_bytes = bytes
  BY Zenon, <1>7, <1>8
<1>12. sink'.panicked = sink.panicked
  BY Zenon, <1>7, <1>8
<1>13. sink'.truncated = (sink.truncated \/ k > 0)
  BY Zenon, <1>7, <1>8
<1>14. (sink.truncated \/ k > 0) \in BOOLEAN
  BY Zenon
<1>15. sink'.truncated \in BOOLEAN /\ (sink'.truncated <=> sink.truncated \/ k > 0)
  BY Zenon, <1>13, <1>14
<1> QED
  BY Zenon, <1>1, <1>6, <1>9, <1>10, <1>11, <1>12, <1>15 DEF KeepsLines

\* A line that is not taken.
LEMMA DropIs ==
  ASSUME LinesTypes, sink' = [sink EXCEPT !.truncated = TRUE]
  PROVE  KeepsLines(sink.lines, TRUE)
<1>1. /\ "lines" \in DOMAIN sink /\ "retained_bytes" \in DOMAIN sink
      /\ "truncated" \in DOMAIN sink /\ "panicked" \in DOMAIN sink
  BY Zenon DEF LinesTypes
<1>2. /\ DOMAIN sink' = DOMAIN sink /\ sink'.lines = sink.lines
      /\ sink'.retained_bytes = sink.retained_bytes /\ sink'.panicked = sink.panicked
  BY Zenon, <1>1
<1>3. sink'.truncated = TRUE
  BY Zenon, <1>1
<1> QED
  BY Zenon, <1>2, <1>3 DEF KeepsLines, LinesTypes

\* The collector then has ls, at most a line more, and knows whether it dropped one.
Outcome(ls) ==
  /\ ls \in Lines /\ Len(ls) <= Len(sink.lines) + 1
  /\ KeepsLines(ls, Len(ls) < Len(sink.lines) + 1)

\* A line that is taken, after k have gone.
LEMMA PushBackOutcome ==
  ASSUME LinesTypes, NEW l \in Text, NEW k \in 0..Len(sink.lines), PushBack(l, k)
  PROVE  Outcome(Append(Without(sink.lines, k), l))
<1>1. PICK ls \in Lines : ls = sink.lines
  BY Zenon DEF LinesTypes
<1>2. PICK n \in Nat : n = Len(sink.lines)
  BY Zenon, <1>1, LenProperties DEF Lines
<1>3. Without(ls, k) \in Lines /\ Len(Without(ls, k)) = Len(ls) - k
  BY Zenon, <1>1, WithoutIs
<1>4. PICK w \in Lines : w = Without(sink.lines, k) /\ Len(w) = n - k
  BY Zenon, <1>1, <1>2, <1>3
<1>5. Append(w, l) \in Lines
  <2>1. Append(w, l) \in Seq(Text)
    BY AppendProperties DEF Lines
  <2> QED
    BY Zenon, <2>1 DEF Lines
<1>6. Len(Append(w, l)) = (n - k) + 1
  BY Zenon, <1>4, Appended
<1>7. (n - k) + 1 <= n + 1 /\ ((n - k) + 1 < n + 1 <=> k > 0)
  BY <1>2
<1>8. KeepsLines(Append(w, l), k > 0)
  BY Zenon, <1>4, PushBackIs
<1>9. KeepsLines(Append(w, l), Len(Append(w, l)) < Len(sink.lines) + 1)
  BY Zenon, <1>2, <1>6, <1>7, <1>8 DEF KeepsLines
<1> QED
  BY Zenon, <1>2, <1>4, <1>5, <1>6, <1>7, <1>9 DEF Outcome

\* A line that is not.
LEMMA DropOutcome ==
  ASSUME LinesTypes, sink' = [sink EXCEPT !.truncated = TRUE]
  PROVE  Outcome(sink.lines)
<1>1. PICK n \in Nat : n = Len(sink.lines)
  BY Zenon, LenProperties DEF Lines, LinesTypes
<1>2. n <= n + 1 /\ n < n + 1
  OBVIOUS
<1>3. KeepsLines(sink.lines, TRUE)
  BY Zenon, DropIs
<1>4. KeepsLines(sink.lines, Len(sink.lines) < Len(sink.lines) + 1)
  BY Zenon, <1>1, <1>2, <1>3 DEF KeepsLines
<1> QED
  BY Zenon, <1>1, <1>2, <1>4 DEF Outcome, LinesTypes

\* Nothing has gone.
LEMMA WithoutNone ==
  ASSUME NEW ls \in Lines
  PROVE  Without(ls, 0) = ls /\ 0 \in 0..Len(ls)
<1>1. PICK n \in Nat : n = Len(ls)
  BY Zenon, LenProperties DEF Lines
<1>2. n - 0 = n /\ 0 \in 0..n
  OBVIOUS
<1>3. Last(ls, Len(ls)) = ls
  BY Zenon, LastAll DEF Lines
<1> QED
  BY Zenon, <1>1, <1>2, <1>3 DEF Without

\* No limit.
LEMMA CollectUnbounded ==
  ASSUME LinesTypes, visitor.overflow = "unbounded", NEW l \in Text, PushLine(l)
  PROVE  Outcome(Append(sink.lines, l))
<1>1. PICK ls \in Lines : ls = sink.lines
  BY Zenon DEF LinesTypes
<1>2. Without(ls, 0) = ls /\ 0 \in 0..Len(ls)
  BY Zenon, WithoutNone
<1>3. PushBack(l, 0)
  BY Zenon DEF PushLine
<1>4. Outcome(Append(Without(sink.lines, 0), l))
  BY Zenon, <1>1, <1>2, <1>3, PushBackOutcome
<1> QED
  BY Zenon, <1>1, <1>2, <1>4

\* DropAdditionalData.
LEMMA CollectAdditional ==
  ASSUME LinesTypes, visitor.overflow = "additional", NEW l \in Text, PushLine(l),
         NEW ml \in Nat, NEW mb \in Nat, visitor.max_lines = ml, visitor.max_bytes = mb,
         FitsIn(ml, mb, sink.lines)
  PROVE  Outcome(IF FitsIn(ml, mb, Append(sink.lines, l)) THEN Append(sink.lines, l) ELSE sink.lines)
<1>1. PICK ls \in Lines : ls = sink.lines
  BY Zenon DEF LinesTypes
<1>2. Without(ls, 0) = ls /\ 0 \in 0..Len(ls)
  BY Zenon, WithoutNone
<1>3. RoomAfter(l, 0) <=> FitsIn(ml, mb, Append(Without(sink.lines, 0), l))
  BY Zenon, <1>1, <1>2, RoomIs
<1>4. CASE FitsIn(ml, mb, Append(sink.lines, l))
  <2>1. RoomAfter(l, 0)
    BY Zenon, <1>1, <1>2, <1>3, <1>4
  <2>2. PushBack(l, 0)
    BY Zenon, <2>1 DEF PushLine
  <2>3. Outcome(Append(Without(sink.lines, 0), l))
    BY Zenon, <1>1, <1>2, <2>2, PushBackOutcome
  <2> QED
    BY Zenon, <1>1, <1>2, <1>4, <2>3
<1>5. CASE ~FitsIn(ml, mb, Append(sink.lines, l))
  <2>1. ~RoomAfter(l, 0)
    BY Zenon, <1>1, <1>2, <1>3, <1>5
  <2>2. sink' = [sink EXCEPT !.truncated = TRUE]
    BY SMTT(20), <2>1 DEF PushLine
  <2>3. Outcome(sink.lines)
    BY Zenon, <2>2, DropOutcome
  <2> QED
    BY Zenon, <1>5, <2>3
<1> QED
  BY Zenon, <1>4, <1>5

\* There are lines enough to evict, and a least number of them.
LEMMA EnoughToEvict ==
  ASSUME LinesTypes, NEW ml \in Nat, NEW mb \in Nat, visitor.max_lines = ml, visitor.max_bytes = mb,
         FitsIn(ml, mb, sink.lines), NEW l \in Text, ml > 0, Len(l) <= mb, EvictAndPush(l)
  PROVE  \E k \in 0..Len(sink.lines) :
           /\ PushBack(l, k) /\ RoomAfter(l, k)
           /\ \A j \in 0..Len(sink.lines) : RoomAfter(l, j) => k <= j
<1>1. PICK ls \in Lines : ls = sink.lines
  BY Zenon DEF LinesTypes
<1>2. PICK n \in Nat : n = Len(ls)
  BY Zenon, LenProperties DEF Lines
<1>3. n \in 0..n /\ n - n = 0 /\ 0 < ml
  OBVIOUS
<1>4. Without(ls, n) = <<>>
  BY Zenon, <1>2, <1>3, LastAll DEF Without, Lines
<1>5. <<>> \in Lines /\ Len(<<>>) = 0
  BY Zenon, EmptySeq DEF Lines
<1>6. PICK b \in Nat : b = Len(l) /\ 0 + b = b
  <2>1. Len(l) \in Nat
    BY Zenon, LenProperties DEF Text
  <2> QED
    BY SMTT(20), <2>1
<1>7. FitsIn(ml, mb, Append(<<>>, l))
  <2>1. FitsIn(ml, mb, Append(<<>>, l)) <=> Len(<<>>) < ml /\ ByteCount(<<>>) + Len(l) <= mb
    BY Zenon, <1>5, FitsAppended
  <2> QED
    BY Zenon, <1>3, <1>5, <1>6, <2>1, BytesEmpty
<1>8. RoomAfter(l, n)
  BY Zenon, <1>1, <1>2, <1>3, <1>4, <1>7, RoomIs
<1>9. PICK enough : enough = {k \in 0..Len(sink.lines) : RoomAfter(l, k)}
  BY Zenon
<1>10. n \in enough /\ enough \in SUBSET Nat
  <2>1. enough \subseteq 0..n
    BY Zenon, <1>1, <1>2, <1>9
  <2>2. 0..n \subseteq Nat
    OBVIOUS
  <2> QED
    BY Zenon, <1>1, <1>2, <1>3, <1>8, <1>9, <2>1, <2>2
<1>11. \E k \in enough : \A j \in enough : k <= j
  BY Zenon, <1>10, LeastNatural
<1>12. PICK k : k = CHOOSE e \in enough : \A j \in enough : e <= j
  BY Zenon
<1>13. k \in enough /\ \A j \in enough : k <= j
  BY Zenon, <1>11, <1>12
<1>14. PushBack(l, k)
  BY Zenon, <1>9, <1>10, <1>12 DEF EvictAndPush
<1> QED
  BY Zenon, <1>9, <1>13, <1>14

\* DropOldestData.
LEMMA CollectOldest ==
  ASSUME LinesTypes, visitor.overflow = "oldest", NEW l \in Text, PushLine(l),
         NEW ml \in Nat, NEW mb \in Nat, visitor.max_lines = ml, visitor.max_bytes = mb,
         NEW all \in Lines, NewestIn(ml, mb, sink.lines, all)
  PROVE  \E ls : Outcome(ls) /\ NewestIn(ml, mb, ls, Append(all, l))
<1>1. PICK kept \in Lines : kept = sink.lines
  BY Zenon DEF LinesTypes
<1>2. FitsIn(ml, mb, kept)
  BY Zenon, <1>1 DEF NewestIn, LongestRun
<1>3. CASE ml > 0 /\ Len(l) <= mb
  <2>1. EvictAndPush(l)
    BY Zenon, <1>3 DEF PushLine
  <2>2. PICK k \in 0..Len(sink.lines) :
          /\ PushBack(l, k) /\ RoomAfter(l, k)
          /\ \A j \in 0..Len(sink.lines) : RoomAfter(l, j) => k <= j
    BY Zenon, <1>1, <1>2, <1>3, <2>1, EnoughToEvict
  <2>3. \A j \in 0..Len(kept) : RoomAfter(l, j) <=> FitsIn(ml, mb, Append(Without(kept, j), l))
    BY Zenon, <1>1, <1>2, RoomIs
  <2>4. /\ k \in 0..Len(kept) /\ FitsIn(ml, mb, Append(Without(kept, k), l))
        /\ \A j \in 0..Len(kept) : FitsIn(ml, mb, Append(Without(kept, j), l)) => k <= j
    BY Zenon, <1>1, <2>2, <2>3
  <2>5. NewestIn(ml, mb, kept, all)
    BY Zenon, <1>1
  <2>6. NewestIn(ml, mb, Append(Without(kept, k), l), Append(all, l))
    BY Zenon, <1>3, <2>4, <2>5, NewestGrows
  <2>7. Outcome(Append(Without(sink.lines, k), l))
    BY Zenon, <2>2, PushBackOutcome
  <2> QED
    BY Zenon, <1>1, <2>6, <2>7
<1>4. CASE ~(ml > 0) \/ ~(Len(l) <= mb)
  <2>1. sink' = [sink EXCEPT !.truncated = TRUE]
    BY SMTT(20), <1>4 DEF PushLine
  <2>2. ml = 0 \/ ~(Len(l) <= mb)
    BY SMTT(20), <1>4
  <2>3. NewestIn(ml, mb, kept, all)
    BY Zenon, <1>1
  <2>4. NewestIn(ml, mb, kept, Append(all, l))
    BY Zenon, <2>2, <2>3, NewestStays
  <2>5. Outcome(sink.lines)
    BY Zenon, <2>1, DropOutcome
  <2> QED
    BY Zenon, <1>1, <2>4, <2>5
<1> QED
  BY Zenon, <1>3, <1>4

\* The lines kept are those that the limits ask for.
Kept(v, kept, all) ==
  /\ v.overflow = "unbounded" => kept = all
  /\ v.overflow = "additional" =>
       /\ FitsIn(v.max_lines, v.max_bytes, kept)
       /\ \E K \in SUBSET (1..Len(all)) : kept = Only(all, K) /\ FarIn(v.max_lines, v.max_bytes, K, all)
  /\ v.overflow = "oldest" => NewestIn(v.max_lines, v.max_bytes, kept, all)

\* The inductive invariant of collect_lines.
CollectInv ==
  visitor.kind = "collect_lines" =>
    /\ LinesTypes /\ Kept(visitor, sink.lines, lines)
    /\ Len(sink.lines) <= Len(lines) /\ (sink.truncated <=> Len(sink.lines) < Len(lines))

\* A line collected.
LEMMA CollectsLine ==
  ASSUME LinesTypes, NEW all \in Lines, NEW l \in Text, PushLine(l), Kept(visitor, sink.lines, all)
  PROVE  \E ls : Outcome(ls) /\ Kept(visitor, ls, Append(all, l))
<1>1. CASE visitor.overflow = "unbounded"
  <2>1. Outcome(Append(sink.lines, l))
    BY Zenon, <1>1, CollectUnbounded
  <2>2. sink.lines = all
    BY Zenon, <1>1 DEF Kept
  <2>3. "unbounded" # "additional" /\ "unbounded" # "oldest"
    BY Zenon
  <2> QED
    BY Zenon, <1>1, <2>1, <2>2, <2>3 DEF Kept
<1>2. CASE visitor.overflow # "unbounded"
  <2>1. PICK ml \in Nat, mb \in Nat : ml = visitor.max_lines /\ mb = visitor.max_bytes
    BY Zenon, <1>2, VisitorsAssumption DEF LinesTypes
  <2>2. CASE visitor.overflow = "oldest"
    <3>1. NewestIn(ml, mb, sink.lines, all)
      BY Zenon, <2>1, <2>2 DEF Kept
    <3>2. PICK ls : Outcome(ls) /\ NewestIn(ml, mb, ls, Append(all, l))
      BY Zenon, <2>1, <2>2, <3>1, CollectOldest
    <3>3. "oldest" # "additional"
      BY Zenon
    <3> QED
      BY Zenon, <1>2, <2>1, <2>2, <3>2, <3>3 DEF Kept
  <2>3. CASE visitor.overflow = "additional"
    <3>1. FitsIn(ml, mb, sink.lines)
      BY Zenon, <2>1, <2>3 DEF Kept
    <3>2. PICK K \in SUBSET (1..Len(all)) : sink.lines = Only(all, K) /\ FarIn(ml, mb, K, all)
      BY Zenon, <2>1, <2>3 DEF Kept
    <3>3. PICK ls : ls = IF FitsIn(ml, mb, Append(sink.lines, l)) THEN Append(sink.lines, l)
                         ELSE sink.lines
      BY Zenon
    <3>4. Outcome(ls)
      BY Zenon, <2>1, <2>3, <3>1, <3>3, CollectAdditional
    <3>5. PICK J : J = IF FitsIn(ml, mb, Append(Only(all, K), l)) THEN K \cup {Len(all) + 1} ELSE K
      BY Zenon
    <3>6. FarIn(ml, mb, J, Append(all, l))
      BY Zenon, <3>2, <3>5, FarGrows
    <3>7. FarKept(ml, mb, all, K, l, J)
      BY Zenon, <3>5, FarKeeps
    <3>8. J \in SUBSET (1..Len(Append(all, l))) /\ Only(Append(all, l), J) = ls
      BY Zenon, <3>2, <3>3, <3>7 DEF FarKept
    <3>9. FitsIn(ml, mb, ls)
      BY Zenon, <3>1, <3>3
    <3>10. "oldest" # "additional"
      BY Zenon
    <3> QED
      BY Zenon, <1>2, <2>1, <2>3, <3>4, <3>6, <3>8, <3>9, <3>10 DEF Kept
  <2> QED
    BY Zenon, <1>2, <2>2, <2>3, VisitorsAssumption DEF LinesTypes
<1> QED
  BY Zenon, <1>1, <1>2

\* Of nothing, nothing is kept.
LEMMA KeptNone ==
  ASSUME NEW v \in Visitors, v.kind = "collect_lines"
  PROVE  Kept(v, <<>>, <<>>)
<1>1. <<>> \in Lines /\ Len(<<>>) = 0 /\ ByteCount(<<>>) = 0
  BY Zenon, EmptySeq, BytesEmpty DEF Lines
<1>2. CASE v.overflow = "unbounded"
  BY Zenon, <1>2 DEF Kept
<1>3. CASE v.overflow # "unbounded"
  <2>1. PICK ml \in Nat, mb \in Nat : ml = v.max_lines /\ mb = v.max_bytes
    BY Zenon, <1>3, VisitorsAssumption
  <2>2. 0 <= ml /\ 0 <= mb /\ 0 \in 0..0 /\ \A m \in 0..0 : m <= 0
    OBVIOUS
  <2>3. FitsIn(ml, mb, <<>>)
    BY Zenon, <1>1, <2>2 DEF FitsIn
  <2>4. Able(mb, <<>>) = <<>>
    BY Zenon, OnlyEmpty DEF Able
  <2>5. Last(<<>>, 0) = <<>>
    BY Zenon, <1>1, LastAll DEF Lines
  <2>6. LongestRun(ml, mb, <<>>, 0)
    BY Zenon, <1>1, <2>2, <2>3, <2>5 DEF LongestRun
  <2>7. NewestIn(ml, mb, <<>>, <<>>)
    BY Zenon, <1>1, <2>2, <2>4, <2>5, <2>6 DEF NewestIn
  <2>8. 1..0 = {}
    OBVIOUS
  <2>9. FarIn(ml, mb, {}, <<>>)
    BY Zenon, <1>1, <2>8 DEF FarIn
  <2>10. Only(<<>>, {}) = <<>>
    BY Zenon, OnlyEmpty
  <2> QED
    BY Zenon, <1>3, <2>1, <2>3, <2>7, <2>9, <2>10 DEF Kept
<1> QED
  BY Zenon, <1>2, <1>3

\* Nothing is collected yet.
LEMMA CollectInvInit ==
  ASSUME Init
  PROVE  CollectInv
<1>1. /\ lines = <<>> /\ visitor \in Visitors
      /\ {"lines", "retained_bytes", "truncated", "panicked"} \subseteq DOMAIN sink
      /\ sink.lines = <<>> /\ sink.retained_bytes = 0 /\ sink.truncated = FALSE
      /\ sink.panicked = FALSE
  BY DEF Init, ParserInit
<1>2. <<>> \in Lines /\ Len(<<>>) = 0 /\ ByteCount(<<>>) = 0
  BY Zenon, EmptySeq, BytesEmpty DEF Lines
<1>3. 0 <= 0 /\ ~(0 < 0)
  OBVIOUS
<1>4. visitor.kind = "collect_lines" => Kept(visitor, <<>>, <<>>)
  BY Zenon, <1>1, KeptNone
<1> QED
  BY Zenon, <1>1, <1>2, <1>3, <1>4 DEF CollectInv, LinesTypes

\* CollectInv is inductive.
LEMMA CollectInvNext ==
  ASSUME Typed, Typed', CollectInv, [Next]_vars
  PROVE  CollectInv'
<1>1. /\ visitor' = visitor
      /\ \/ Quiet
         \/ VisitChunk
         \/ \E l \in Text, next \in {"Continue", "Break"} : Spoken(l, next)
  BY Zenon, VisitorSteps
<1>2. SUFFICES ASSUME visitor.kind = "collect_lines" PROVE CollectInv'
  BY Zenon, <1>1 DEF CollectInv
<1>3. /\ LinesTypes /\ Kept(visitor, sink.lines, lines)
      /\ Len(sink.lines) <= Len(lines) /\ (sink.truncated <=> Len(sink.lines) < Len(lines))
  BY Zenon, <1>2 DEF CollectInv
<1>4. lines \in Lines
  BY Zenon DEF Typed, ParserTypes
<1>5. CASE Quiet
  <2>1. sink' = sink /\ lines' = lines
    BY Zenon, <1>5 DEF Quiet
  <2> QED
    BY Zenon, <1>1, <1>3, <2>1 DEF CollectInv, LinesTypes
<1>6. CASE VisitChunk
  BY Zenon, <1>2, <1>6 DEF VisitChunk, LineLevel
<1>7. ASSUME NEW l \in Text, NEW next, Spoken(l, next)
      PROVE  CollectInv'
  <2>1. lines' = Append(lines, l) /\ OnLine(l, next)
    BY Zenon, <1>7 DEF Spoken
  <2>2. PushLine(l)
    BY SMTT(20), <1>2, <2>1 DEF OnLine, CollectLine
  <2>3. PICK ls : Outcome(ls) /\ Kept(visitor, ls, Append(lines, l))
    BY Zenon, <1>3, <1>4, <2>2, CollectsLine
  <2>4. ls \in Lines /\ Len(ls) <= Len(sink.lines) + 1
    BY Zenon, <2>3 DEF Outcome
  <2>5. /\ DOMAIN sink' = DOMAIN sink /\ sink'.lines = ls
        /\ sink'.retained_bytes = ByteCount(sink'.lines)
        /\ sink'.truncated \in BOOLEAN
        /\ (sink'.truncated <=> sink.truncated \/ Len(ls) < Len(sink.lines) + 1)
        /\ sink'.panicked = sink.panicked
    BY Zenon, <2>3 DEF Outcome, KeepsLines
  <2>6. PICK n \in Nat, m \in Nat, s \in Nat : n = Len(lines) /\ m = Len(sink.lines) /\ s = Len(ls)
    BY Zenon, <1>3, <1>4, <2>4, LenProperties DEF Lines, LinesTypes
  <2>7. Len(lines') = n + 1
    BY Zenon, <1>4, <2>1, <2>6, Appended
  <2>8. m <= n /\ s <= m + 1
    BY Zenon, <1>3, <2>4, <2>6
  <2>9. s <= n + 1 /\ (s < n + 1 <=> m < n \/ s < m + 1)
    BY SMTT(20), <2>8
  <2>10. LinesTypes'
    BY Zenon, <1>1, <1>3, <2>4, <2>5 DEF LinesTypes
  <2>11. sink'.truncated <=> s < n + 1
    BY Zenon, <1>3, <2>5, <2>6, <2>9
  <2>12. Len(sink'.lines) <= Len(lines') /\ (sink'.truncated <=> Len(sink'.lines) < Len(lines'))
    BY Zenon, <2>5, <2>6, <2>7, <2>9, <2>11
  <2>13. Kept(visitor', sink'.lines, lines')
    BY Zenon, <1>1, <2>1, <2>3, <2>5
  <2> QED
    BY Zenon, <2>10, <2>12, <2>13 DEF CollectInv
<1> QED
  BY Zenon, <1>1, <1>5, <1>6, <1>7

\* Kept is what Expected says.
LEMMA KeptIsExpected ==
  ASSUME visitor \in Visitors, visitor.kind = "collect_lines", NEW kept, NEW all,
         Kept(visitor, kept, all)
  PROVE  Expected(kept, all)
<1>1. CASE visitor.overflow = "unbounded"
  BY Zenon, <1>1 DEF Kept, Expected
<1>2. CASE visitor.overflow = "additional"
  <2>1. \E K \in SUBSET (1..Len(all)) :
          kept = Only(all, K) /\ FarIn(visitor.max_lines, visitor.max_bytes, K, all)
    BY Zenon, <1>2 DEF Kept
  <2>2. AsFarAsTheyFit(kept, all)
    BY Zenon, <2>1 DEF AsFarAsTheyFit, FarIn, FitsIn, Fits
  <2> QED
    BY Zenon, <1>2, <2>2 DEF Expected
<1>3. CASE visitor.overflow = "oldest"
  <2>1. NewestIn(visitor.max_lines, visitor.max_bytes, kept, all)
    BY Zenon, <1>3 DEF Kept
  <2>2. PICK able : able = Only(all, {i \in 1..Len(all) : Len(all[i]) <= visitor.max_bytes})
    BY Zenon
  <2>3. PICK n \in 0..Len(able) :
          kept = Last(able, n) /\ LongestRun(visitor.max_lines, visitor.max_bytes, able, n)
    BY Zenon, <2>1, <2>2 DEF NewestIn, Able
  <2>4. Newest(kept, all)
    BY Zenon, <2>2, <2>3 DEF Newest, LongestRun, Last, FitsIn, Fits
  <2> QED
    BY Zenon, <1>3, <2>4 DEF Expected
<1> QED
  BY Zenon, <1>1, <1>2, <1>3, VisitorsAssumption

\* What CollectedExact says of lines and of bytes.
LEMMA CollectInvGives ==
  ASSUME Typed, BytesInv, CollectInv
  PROVE  CollectedExact
<1>1. ASSUME visitor.kind = "collect_lines"
      PROVE  /\ ~sink.panicked /\ Expected(sink.lines, lines)
             /\ sink.truncated = (Len(sink.lines) < Len(lines))
             /\ sink.retained_bytes = ByteCount(sink.lines)
  <2>1. /\ LinesTypes /\ Kept(visitor, sink.lines, lines)
        /\ (sink.truncated <=> Len(sink.lines) < Len(lines))
    BY Zenon, <1>1 DEF CollectInv
  <2>2. /\ visitor \in Visitors /\ sink.truncated \in BOOLEAN /\ ~sink.panicked
        /\ sink.retained_bytes = ByteCount(sink.lines)
    BY Zenon, <2>1 DEF LinesTypes
  <2>3. sink.truncated = (Len(sink.lines) < Len(lines))
    BY SMTT(20), <2>1, <2>2
  <2>4. Expected(sink.lines, lines)
    BY Zenon, <1>1, <2>1, <2>2, KeptIsExpected
  <2> QED
    BY Zenon, <2>2, <2>3, <2>4
<1> HIDE DEF Delivered, Expected
<1> QED
  BY Zenon, <1>1, BytesInvGives DEF CollectedExact

-----------------------------------------------------------------------------
(* The theorems *)

\* The inductive invariant: what the collectors are given is typed, and one invariant
\* for each kind of collector.
CollectorsInv == BufferInv /\ BytesInv /\ CollectInv

\* CollectorsInv holds of every collector: Init establishes it, and every turn of
\* next_line, every event and every end of the driver preserves it.
THEOREM CollectorsInvariant == Spec => []CollectorsInv
<1>1. Init => CollectorsInv
  <2> SUFFICES ASSUME Init PROVE CollectorsInv
    BY Zenon
  <2> QED
    BY Zenon, BufferInvInit, BytesInvInit, CollectInvInit DEF CollectorsInv
<1>2. CollectorsInv /\ [Next]_vars => CollectorsInv'
  <2> SUFFICES ASSUME CollectorsInv, [Next]_vars PROVE CollectorsInv'
    BY Zenon
  <2>1. BufferInv /\ BytesInv /\ CollectInv
    BY Zenon DEF CollectorsInv
  <2>2. BufferInv'
    BY Zenon, <2>1, BufferInvNext
  <2>3. Typed /\ Typed'
    BY Zenon, <2>1, <2>2 DEF BufferInv
  <2>4. BytesInv' /\ CollectInv'
    BY Zenon, <2>1, <2>3, BytesInvNext, CollectInvNext
  <2> QED
    BY Zenon, <2>2, <2>4 DEF CollectorsInv
<1> QED
  BY <1>1, <1>2, PTL DEF Spec

\* Whatever its limits, a collector holds exactly what they ask for of the lines, or of
\* the bytes, says truthfully whether it dropped any, counts what it holds, and the
\* expect in push_line never fails.
THEOREM CollectsExactly == Spec => []CollectedExact
<1>1. CollectorsInv => CollectedExact
  BY Zenon, CollectInvGives DEF CollectorsInv, BufferInv
<1> QED
  BY <1>1, CollectorsInvariant, PTL
=============================================================================
