--------------------------- MODULE VisitorsProofs ---------------------------
(***************************************************************************)
(* The line parser, wait_for_line and the writers for every text, every    *)
(* way to cut it into chunks and every maximal line length: the lines are  *)
(* those of the text, and the visitors make of them what they promise.     *)
(***************************************************************************)
EXTENDS VisitorsFacts

-----------------------------------------------------------------------------
(* The state of the parser when it has parsed P, c is left of the chunk, buf is the *)
(* line in progress and ls are the lines that came out                              *)

\* ReadingLine: the buffer has what is not out yet of the unterminated line; with
\* pieces, a newline does not follow a full one.
Reading(M, w, P, c, buf, ls) ==
  LET s == Unterminated(P)
  IN  /\ ~Has(s, Gap) /\ ls = TerminatedIn(M, w, P) \o EarlyOf(M, w, s)
      /\ IF M # 0 /\ w = "emit"
         THEN buf = RestOf(M, s) /\ (s # <<>> /\ buf = <<>> => c # <<>> /\ c[1] # Newline)
         ELSE buf = s /\ (M # 0 => Len(s) <= M)

\* PendingLimitDelimiter: the unterminated line consists of full pieces.
Pending(M, w, P, buf, ls) ==
  LET s == Unterminated(P)
  IN  /\ M # 0 /\ w = "emit" /\ ~Has(s, Gap) /\ s # <<>> /\ RestOf(M, s) = <<>>
      /\ buf = <<>> /\ ls = TerminatedIn(M, w, P) \o EarlyOf(M, w, s)

\* DiscardUntilNewline: there was a gap in it, or it is too long.
Discarding(M, w, P, c, buf, ls) ==
  LET s == Unterminated(P)
  IN  /\ buf = <<>>
      /\ \/ Has(s, Gap) /\ ls = TerminatedIn(M, w, P) \o LinesIn(M, w, s, FALSE)
         \/ /\ ~Has(s, Gap) /\ M # 0 /\ w = "drop" /\ M <= Len(s)
            /\ ls = Append(TerminatedIn(M, w, P), SubSeq(s, 1, M))
            /\ Len(s) = M => c # <<>>

Parsing(M, w, P, c, m, buf, ls) ==
  \/ m = "ReadingLine" /\ Reading(M, w, P, c, buf, ls)
  \/ m = "PendingLimitDelimiter" /\ Pending(M, w, P, buf, ls)
  \/ m = "DiscardUntilNewline" /\ Discarding(M, w, P, c, buf, ls)

\* Bytes that are neither newlines nor gaps.
Clean(u) == ~Has(u, Newline) /\ ~Has(u, Gap)

\* Clean bytes extend the unterminated line.
Extended(M, w, P, u) ==
  LET s == Unterminated(P)
  IN  /\ P \o u \in Text /\ Unterminated(P \o u) = s \o u
      /\ TerminatedIn(M, w, P \o u) = TerminatedIn(M, w, P)
      /\ Has(s \o u, Gap) <=> Has(s, Gap)
      /\ s \in Text /\ s \o u \in Text /\ TerminatedIn(M, w, P) \in Lines

\* Bytes without a newline only make the unterminated rest longer.
LEMMA MoreBytes ==
  ASSUME NEW M \in Nat, NEW w, NEW P \in Text, NEW u \in Text, Clean(u)
  PROVE  Extended(M, w, P, u)
<1>1. Unterminated(P) \in Text /\ TerminatedIn(M, w, P) \in Lines
  BY Zenon, UnterminatedTyped, TerminatedTyped
<1>2. P \o u \in Text /\ Unterminated(P) \o u \in Text
  BY Zenon, <1>1, TextConcat
<1>3. Unterminated(P \o u) = Unterminated(P) \o u
  BY Zenon, UnterminatedGrows DEF Clean
<1>4. TerminatedIn(M, w, P \o u) = TerminatedIn(M, w, P)
  BY Zenon, TerminatedStays DEF Clean
<1>5. Has(Unterminated(P) \o u, Gap) <=> Has(Unterminated(P), Gap)
  BY Zenon, <1>1, HasInConcat DEF Clean
<1> QED
  BY Zenon, <1>1, <1>2, <1>3, <1>4, <1>5 DEF Extended

\* After a newline the parser starts over.
LEMMA StartsOver ==
  ASSUME NEW M \in Nat, NEW w, NEW Q \in Text, NEW c, NEW ls,
         ls = TerminatedIn(M, w, Q) \o LinesIn(M, w, Unterminated(Q), TRUE)
  PROVE  Reading(M, w, Q \o <<Newline>>, c, <<>>, ls)
<1>1. /\ Unterminated(Q \o <<Newline>>) = <<>> /\ Q \o <<Newline>> \in Text
      /\ TerminatedIn(M, w, Q \o <<Newline>>) = ls
  BY Zenon, AfterNewline
<1>2. ~Has(<<>>, Gap) /\ EarlyOf(M, w, <<>>) = <<>>
  BY Zenon, NothingEarly
<1>3. ls \in Lines
  BY Zenon, <1>1, TerminatedTyped
<1>4. ls \o <<>> = ls
  BY Zenon, <1>3, ConcatEmptySeq DEF Lines
<1>5. M # 0 => RestOf(M, <<>>) = <<>> /\ Len(<<>>) <= M
  <2>1. M # 0 => M \in Nat \ {0} /\ Len(<<>>) <= M
    OBVIOUS
  <2> QED
    BY Zenon, <2>1, NoPieces
<1> QED
  BY Zenon, <1>1, <1>2, <1>4, <1>5 DEF Reading

\* DiscardUntilNewline, up to the newline.
LEMMA DiscardToNewline ==
  ASSUME NEW M \in Nat, NEW w, NEW P \in Text, NEW c, NEW buf, NEW ls,
         Discarding(M, w, P, c, buf, ls), NEW u \in Text, Clean(u), NEW d
  PROVE  Reading(M, w, (P \o u) \o <<Newline>>, d, buf, ls)
<1> DEFINE s == Unterminated(P)
           T == TerminatedIn(M, w, P)
<1>1. /\ P \o u \in Text /\ Unterminated(P \o u) = s \o u
      /\ TerminatedIn(M, w, P \o u) = T /\ (Has(s \o u, Gap) <=> Has(s, Gap))
      /\ s \in Text /\ s \o u \in Text /\ T \in Lines
  <2>1. Extended(M, w, P, u)
    BY Zenon, MoreBytes
  <2> QED
    BY Zenon, <2>1 DEF Extended
<1>2. ls = T \o LinesIn(M, w, s \o u, TRUE)
  <2>1. CASE Has(s, Gap) /\ ls = T \o LinesIn(M, w, s, FALSE)
    <3>1. LinesIn(M, w, s \o u, TRUE) = LinesIn(M, w, s, FALSE)
      BY Zenon, <1>1, <2>1, GapStays, LinesWithGap
    <3> QED
      BY Zenon, <2>1, <3>1
  <2>2. CASE /\ ~Has(s, Gap) /\ M # 0 /\ w = "drop" /\ M <= Len(s)
             /\ ls = Append(T, SubSeq(s, 1, M))
    <3>1. SubSeq(s \o u, 1, M) = SubSeq(s, 1, M)
      <4>1. 1 \in Nat \ {0} /\ 1 <= M + 1 /\ M <= Len(s)
        BY <2>2
      <4>2. s \in Seq(Int) /\ u \in Seq(Int)
        BY Zenon, <1>1 DEF Text
      <4> HIDE DEF s
      <4> QED
        BY <4>1, <4>2, PartOfConcat
    <3>2. WholeOf(M, w, s \o u) = <<SubSeq(s, 1, M)>>
      <4>1. CASE Len(s \o u) <= M
        <5>1. Len(s \o u) = M
          <6> HIDE DEF s
          <6> QED
            BY <1>1, <2>2, <4>1 DEF Text
        <5>2. SubSeq(s \o u, 1, M) = s \o u
          BY Zenon, <1>1, <5>1, SubSeqFull DEF Text
        <5> QED
          BY Zenon, <3>1, <4>1, <5>2 DEF WholeOf
      <4>2. CASE ~(Len(s \o u) <= M)
        BY Zenon, <2>2, <3>1, <4>2 DEF WholeOf
      <4> QED
        BY Zenon, <4>1, <4>2
    <3>3. LinesIn(M, w, s \o u, TRUE) = <<SubSeq(s, 1, M)>>
      BY Zenon, <1>1, <2>2, <3>2 DEF LinesIn
    <3>4. SubSeq(s, 1, M) \in Text
      <4>1. 1 \in Nat \ {0} /\ M \in Int /\ M <= Len(s)
        BY <2>2
      <4> QED
        BY Zenon, <1>1, <4>1, SubText
    <3> QED
      BY Zenon, <1>1, <2>2, <3>3, <3>4, AppendIsConcat DEF Lines
  <2> QED
    BY Zenon, <2>1, <2>2 DEF Discarding
<1>3. buf = <<>>
  BY Zenon DEF Discarding
<1>4. ls = TerminatedIn(M, w, P \o u) \o LinesIn(M, w, Unterminated(P \o u), TRUE)
  BY Zenon, <1>1, <1>2
<1> QED
  BY Zenon, <1>1, <1>3, <1>4, StartsOver

\* DiscardUntilNewline, a chunk without a newline.
LEMMA DiscardAll ==
  ASSUME NEW M \in Nat, NEW w, NEW P \in Text, NEW buf, NEW ls, NEW u \in Text, Clean(u),
         u # <<>>, Discarding(M, w, P, u, buf, ls)
  PROVE  Discarding(M, w, P \o u, <<>>, buf, ls)
<1> DEFINE s == Unterminated(P)
           T == TerminatedIn(M, w, P)
<1>1. /\ P \o u \in Text /\ Unterminated(P \o u) = s \o u
      /\ TerminatedIn(M, w, P \o u) = T /\ (Has(s \o u, Gap) <=> Has(s, Gap))
      /\ s \in Text /\ s \o u \in Text /\ T \in Lines
  <2>1. Extended(M, w, P, u)
    BY Zenon, MoreBytes
  <2> QED
    BY Zenon, <2>1 DEF Extended
<1>2. CASE Has(s, Gap) /\ ls = T \o LinesIn(M, w, s, FALSE)
  <2>1. LinesIn(M, w, s \o u, FALSE) = LinesIn(M, w, s, FALSE)
    BY Zenon, <1>1, <1>2, GapStays, LinesWithGap
  <2> QED
    BY Zenon, <1>1, <1>2, <2>1 DEF Discarding
<1>3. CASE /\ ~Has(s, Gap) /\ M # 0 /\ w = "drop" /\ M <= Len(s)
           /\ ls = Append(T, SubSeq(s, 1, M))
  <2>1. SubSeq(s \o u, 1, M) = SubSeq(s, 1, M)
    <3>1. 1 \in Nat \ {0} /\ 1 <= M + 1 /\ M <= Len(s)
      BY <1>3
    <3>2. s \in Seq(Int) /\ u \in Seq(Int)
      BY Zenon, <1>1 DEF Text
    <3> HIDE DEF s
    <3> QED
      BY <3>1, <3>2, PartOfConcat
  <2>2. M <= Len(s \o u) /\ Len(s \o u) # M
    <3> HIDE DEF s
    <3> QED
      BY <1>1, <1>3 DEF Text
  <2> QED
    BY Zenon, <1>1, <1>3, <2>1, <2>2 DEF Discarding
<1> QED
  BY Zenon, <1>2, <1>3 DEF Discarding

\* With pieces, what is not out early is the rest.
LEMMA EarlyPieces ==
  ASSUME NEW M \in Nat, M # 0, NEW s \in Text
  PROVE  /\ M \in Nat \ {0} /\ EarlyOf(M, "emit", s) = FullOf(M, s)
         /\ FullOf(M, s) \in Lines /\ RestOf(M, s) \in Text
         /\ Len(RestOf(M, s)) \in Nat /\ Len(RestOf(M, s)) < M
<1>1. M \in Nat \ {0}
  OBVIOUS
<1>2. FullOf(M, s) \in Lines /\ RestOf(M, s) \in Text /\ Len(RestOf(M, s)) = Len(s) % M
  BY Zenon, <1>1, FullTyped, RestTyped
<1>3. Len(s) % M \in Nat /\ Len(s) % M < M
  BY <1>1 DEF Text
<1> QED
  BY Zenon, <1>1, <1>2, <1>3 DEF EarlyOf

\* Without pieces, nothing is out of a line within the limit.
LEMMA EarlyWithin ==
  ASSUME NEW M \in Nat, NEW w \in Behaviours, M = 0 \/ w # "emit", NEW s \in Text,
         M # 0 => Len(s) <= M
  PROVE  EarlyOf(M, w, s) = <<>> /\ WholeOf(M, w, s) = <<s>>
<1>1. M # 0 => ~(Len(s) > M)
  BY DEF Text
<1> QED
  BY Zenon, <1>1 DEF EarlyOf, WholeOf

\* PendingLimitDelimiter, the newline.
LEMMA SkipNewline ==
  ASSUME NEW M \in Nat, NEW w, NEW P \in Text, NEW buf, NEW ls, Pending(M, w, P, buf, ls), NEW d
  PROVE  Reading(M, w, P \o <<Newline>>, d, buf, ls)
<1> DEFINE s == Unterminated(P)
           T == TerminatedIn(M, w, P)
<1>1. /\ M # 0 /\ w = "emit" /\ ~Has(s, Gap) /\ s # <<>> /\ RestOf(M, s) = <<>>
      /\ buf = <<>> /\ ls = T \o EarlyOf(M, w, s)
  BY Zenon DEF Pending
<1>2. s \in Text
  BY Zenon, UnterminatedTyped
<1>3. M \in Nat \ {0} /\ EarlyOf(M, "emit", s) = FullOf(M, s)
  BY Zenon, <1>1, <1>2, EarlyPieces
<1>4. WholeOf(M, "emit", s) = FullOf(M, s)
  BY Zenon, <1>1, <1>2, <1>3, WholeIsPieces
<1>5. ls = T \o LinesIn(M, w, s, TRUE)
  BY Zenon, <1>1, <1>3, <1>4 DEF LinesIn
<1> QED
  BY Zenon, <1>1, <1>5, StartsOver

\* PendingLimitDelimiter, any other byte.
LEMMA SkipNothing ==
  ASSUME NEW M \in Nat, NEW w, NEW P \in Text, NEW buf, NEW ls, Pending(M, w, P, buf, ls),
         NEW c, c # <<>>, c[1] # Newline
  PROVE  Reading(M, w, P, c, buf, ls)
  BY Zenon DEF Pending, Reading

\* ReadingLine, a full buffer and more to read.
LEMMA FullLine ==
  ASSUME NEW M \in Nat, NEW w \in Behaviours, NEW P \in Text, NEW c, c # <<>>, NEW buf, NEW ls,
         Reading(M, w, P, c, buf, ls), M # 0, Len(buf) = M
  PROVE  w = "drop" /\ Discarding(M, w, P, c, <<>>, Append(ls, buf))
<1> DEFINE s == Unterminated(P)
           T == TerminatedIn(M, w, P)
<1>1. s \in Text /\ T \in Lines
  BY Zenon, UnterminatedTyped, TerminatedTyped
<1>2. w # "emit"
  <2>1. ASSUME w = "emit" PROVE FALSE
    <3>1. Len(RestOf(M, s)) < M /\ Len(RestOf(M, s)) \in Nat
      BY Zenon, <1>1, EarlyPieces
    <3>2. buf = RestOf(M, s)
      BY Zenon, <2>1 DEF Reading
    <3>3. ~(M < M)
      OBVIOUS
    <3> QED
      BY Zenon, <3>1, <3>2, <3>3
  <2> QED
    BY Zenon, <2>1
<1>3. w = "drop"
  BY Zenon, <1>2 DEF Behaviours
<1>4. ~Has(s, Gap) /\ buf = s /\ ls = T \o EarlyOf(M, w, s) /\ Len(s) <= M
  BY Zenon, <1>2 DEF Reading
<1>5. EarlyOf(M, w, s) = <<>>
  BY Zenon, <1>1, <1>2, <1>4, EarlyWithin
<1>6. ls = T
  BY Zenon, <1>1, <1>4, <1>5, ConcatEmptySeq DEF Lines
<1>7. SubSeq(s, 1, M) = s /\ M <= Len(s)
  <2>1. SubSeq(s, 1, Len(s)) = s
    BY Zenon, <1>1, SubSeqFull DEF Text
  <2>2. M <= M
    OBVIOUS
  <2> QED
    BY Zenon, <1>4, <2>1, <2>2
<1> QED
  BY Zenon, <1>3, <1>4, <1>6, <1>7 DEF Discarding

\* ReadingLine, up to a newline within the limit.
LEMMA ScanToNewline ==
  ASSUME NEW M \in Nat, NEW w \in Behaviours, NEW P \in Text, NEW c, NEW buf, NEW ls,
         Reading(M, w, P, c, buf, ls), NEW u \in Text, Clean(u), NEW d,
         M # 0 => Len(buf) + Len(u) < M, u = <<>> => c[1] = Newline
  PROVE  Reading(M, w, (P \o u) \o <<Newline>>, d, <<>>, Append(ls, buf \o u))
<1>1. PICK s, T : s = Unterminated(P) /\ T = TerminatedIn(M, w, P)
  BY Zenon
<1>2. /\ P \o u \in Text /\ Unterminated(P \o u) = s \o u
      /\ TerminatedIn(M, w, P \o u) = T /\ (Has(s \o u, Gap) <=> Has(s, Gap))
      /\ s \in Text /\ s \o u \in Text /\ T \in Lines
  <2>1. Extended(M, w, P, u)
    BY Zenon, MoreBytes
  <2> QED
    BY Zenon, <1>1, <2>1 DEF Extended
<1>3. ~Has(s, Gap) /\ ls = T \o EarlyOf(M, w, s)
  BY Zenon, <1>1 DEF Reading
<1>4. LinesIn(M, w, s \o u, TRUE) = WholeOf(M, w, s \o u)
  BY Zenon, <1>2, <1>3 DEF LinesIn
<1>5. Append(ls, buf \o u) = T \o WholeOf(M, w, s \o u)
  <2>1. CASE M = 0 \/ w # "emit"
    <3>1. buf = s /\ (M # 0 => Len(s) <= M)
      BY Zenon, <1>1, <2>1 DEF Reading
    <3>2. M # 0 => Len(s \o u) <= M
      BY <1>2, <3>1 DEF Text
    <3>3. EarlyOf(M, w, s) = <<>>
      BY Zenon, <1>2, <2>1, <3>1, EarlyWithin
    <3>4. WholeOf(M, w, s \o u) = <<s \o u>>
      BY Zenon, <1>2, <2>1, <3>2, EarlyWithin
    <3>5. ls = T
      BY Zenon, <1>2, <1>3, <3>3, ConcatEmptySeq DEF Lines
    <3> QED
      BY Zenon, <1>2, <3>1, <3>4, <3>5, AppendIsConcat DEF Lines
  <2>2. CASE M # 0 /\ w = "emit"
    <3>1. buf = RestOf(M, s) /\ (s # <<>> /\ buf = <<>> => c[1] # Newline)
      BY Zenon, <1>1, <2>2 DEF Reading
    <3>2. /\ M \in Nat \ {0} /\ EarlyOf(M, w, s) = FullOf(M, s)
          /\ FullOf(M, s) \in Lines /\ RestOf(M, s) \in Text
      BY Zenon, <1>2, <2>2, EarlyPieces
    <3>3. Len(RestOf(M, s)) + Len(u) < M
      BY Zenon, <2>2, <3>1
    <3>4. FullOf(M, s \o u) = FullOf(M, s) /\ RestOf(M, s \o u) = buf \o u
      BY Zenon, <1>2, <3>1, <3>2, <3>3, FullStays
    <3>5. buf \o u \in Text /\ buf \in Text
      BY Zenon, <3>1, <3>2, TextConcat
    <3>6. Append(T \o FullOf(M, s), buf \o u) = T \o Append(FullOf(M, s), buf \o u)
      BY Zenon, <1>2, <3>2, <3>5, AppendToLast
    <3>7. WholeOf(M, w, s \o u) = Append(FullOf(M, s), buf \o u)
      <4>1. CASE buf \o u # <<>>
        <5>1. s \o u # <<>>
          BY Zenon, <3>2, <3>4, <4>1, NoPieces
        <5> QED
          BY Zenon, <1>2, <2>2, <3>2, <3>4, <4>1, <5>1, WholeIsPieces
      <4>2. CASE buf \o u = <<>>
        <5>1. buf = <<>> /\ u = <<>>
          BY <3>5, <4>2 DEF Text
        <5>2. s = <<>>
          BY Zenon, <3>1, <5>1
        <5>3. <<>> \o <<>> = <<>> /\ Len(<<>>) <= M /\ Append(<<>>, <<>>) = <<(<<>>)>>
          OBVIOUS
        <5>4. WholeOf(M, w, <<>>) = <<(<<>>)>>
          BY Zenon, <5>3 DEF WholeOf
        <5>5. FullOf(M, <<>>) = <<>>
          BY Zenon, <3>2, NoPieces
        <5> QED
          BY Zenon, <5>1, <5>2, <5>3, <5>4, <5>5
      <4> QED
        BY Zenon, <4>1, <4>2
    <3> QED
      BY Zenon, <1>3, <3>2, <3>6, <3>7
  <2> QED
    BY Zenon, <2>1, <2>2
<1>6. Append(ls, buf \o u) = TerminatedIn(M, w, P \o u) \o LinesIn(M, w, Unterminated(P \o u), TRUE)
  BY Zenon, <1>2, <1>4, <1>5
<1> QED
  BY Zenon, <1>2, <1>6, StartsOver

\* ReadingLine, up to the limit, with pieces.
LEMMA ScanToLimit ==
  ASSUME NEW M \in Nat, NEW P \in Text, NEW c, NEW buf, NEW ls, M # 0,
         Reading(M, "emit", P, c, buf, ls), NEW u \in Text, Clean(u), Len(buf \o u) = M
  PROVE  Pending(M, "emit", P \o u, <<>>, Append(ls, buf \o u))
<1>1. PICK s, T : s = Unterminated(P) /\ T = TerminatedIn(M, "emit", P)
  BY Zenon
<1>2. /\ P \o u \in Text /\ Unterminated(P \o u) = s \o u
      /\ TerminatedIn(M, "emit", P \o u) = T /\ (Has(s \o u, Gap) <=> Has(s, Gap))
      /\ s \in Text /\ s \o u \in Text /\ T \in Lines
  <2>1. Extended(M, "emit", P, u)
    BY Zenon, MoreBytes
  <2> QED
    BY Zenon, <1>1, <2>1 DEF Extended
<1>3. ~Has(s, Gap) /\ ls = T \o EarlyOf(M, "emit", s) /\ buf = RestOf(M, s)
  BY Zenon, <1>1 DEF Reading
<1>4. /\ M \in Nat \ {0} /\ EarlyOf(M, "emit", s) = FullOf(M, s)
      /\ FullOf(M, s) \in Lines /\ RestOf(M, s) \in Text
  BY Zenon, <1>2, EarlyPieces
<1>5. buf \o u \in Text /\ Len(buf \o u) = Len(RestOf(M, s)) + Len(u)
  BY Zenon, <1>3, <1>4, TextConcat
<1>6. FullOf(M, s \o u) = Append(FullOf(M, s), buf \o u) /\ RestOf(M, s \o u) = <<>>
  <2>1. Len(RestOf(M, s)) + Len(u) = M
    BY Zenon, <1>5
  <2>2. /\ FullOf(M, s \o u) = Append(FullOf(M, s), RestOf(M, s) \o u)
        /\ RestOf(M, s \o u) = <<>>
    BY Zenon, <1>2, <1>4, <2>1, FullGrows
  <2> QED
    BY Zenon, <1>3, <2>2
<1>7. EarlyOf(M, "emit", s \o u) = FullOf(M, s \o u)
  BY Zenon, <1>2, EarlyPieces
<1>8. Append(ls, buf \o u) = T \o EarlyOf(M, "emit", s \o u)
  <2>1. PICK F \in Lines, x \in Text : F = FullOf(M, s) /\ x = buf \o u
    BY Zenon, <1>4, <1>5
  <2>2. Append(T \o F, x) = T \o Append(F, x)
    BY Zenon, <1>2, AppendToLast
  <2> QED
    BY Zenon, <1>3, <1>4, <1>6, <1>7, <2>1, <2>2
<1>9. s \o u # <<>>
  <2>1. Append(FullOf(M, s), buf \o u) # <<>>
    BY <1>4, <1>5 DEF Lines
  <2> QED
    BY Zenon, <1>4, <1>6, <2>1, NoPieces
<1> QED
  BY Zenon, <1>2, <1>3, <1>6, <1>8, <1>9 DEF Pending

\* ReadingLine, up to the end of the chunk or, without pieces, up to the limit.
LEMMA ScanAll ==
  ASSUME NEW M \in Nat, NEW w \in Behaviours, NEW P \in Text, NEW c, NEW buf, NEW ls,
         Reading(M, w, P, c, buf, ls), NEW u \in Text, Clean(u), u # <<>>, NEW d,
         M # 0 => Len(buf) + Len(u) <= M, M # 0 /\ w = "emit" => Len(buf) + Len(u) < M
  PROVE  Reading(M, w, P \o u, d, buf \o u, ls)
<1>1. PICK s, T : s = Unterminated(P) /\ T = TerminatedIn(M, w, P)
  BY Zenon
<1>2. /\ P \o u \in Text /\ Unterminated(P \o u) = s \o u
      /\ TerminatedIn(M, w, P \o u) = T /\ (Has(s \o u, Gap) <=> Has(s, Gap))
      /\ s \in Text /\ s \o u \in Text /\ T \in Lines
  <2>1. Extended(M, w, P, u)
    BY Zenon, MoreBytes
  <2> QED
    BY Zenon, <1>1, <2>1 DEF Extended
<1>3. ~Has(s, Gap) /\ ls = T \o EarlyOf(M, w, s)
  BY Zenon, <1>1 DEF Reading
<1>4. CASE M = 0 \/ w # "emit"
  <2>1. buf = s /\ (M # 0 => Len(s) <= M)
    BY Zenon, <1>1, <1>4 DEF Reading
  <2>2. M # 0 => Len(s \o u) <= M
    BY <1>2, <2>1 DEF Text
  <2>3. EarlyOf(M, w, s) = <<>>
    BY Zenon, <1>2, <1>4, <2>1, EarlyWithin
  <2>4. EarlyOf(M, w, s \o u) = <<>>
    BY Zenon, <1>2, <1>4, <2>2, EarlyWithin
  <2> QED
    BY Zenon, <1>2, <1>3, <1>4, <2>1, <2>2, <2>3, <2>4 DEF Reading
<1>5. CASE M # 0 /\ w = "emit"
  <2>1. buf = RestOf(M, s)
    BY Zenon, <1>1, <1>5 DEF Reading
  <2>2. /\ M \in Nat \ {0} /\ EarlyOf(M, w, s) = FullOf(M, s)
        /\ FullOf(M, s) \in Lines /\ RestOf(M, s) \in Text
    BY Zenon, <1>2, <1>5, EarlyPieces
  <2>3. Len(RestOf(M, s)) + Len(u) < M
    BY Zenon, <1>5, <2>1
  <2>4. FullOf(M, s \o u) = FullOf(M, s) /\ RestOf(M, s \o u) = buf \o u
    BY Zenon, <1>2, <2>1, <2>2, <2>3, FullStays
  <2>5. EarlyOf(M, w, s \o u) = FullOf(M, s \o u)
    BY Zenon, <1>2, <1>5, EarlyPieces
  <2>6. buf \o u # <<>>
    BY <2>1, <2>2 DEF Text
  <2> QED
    BY Zenon, <1>2, <1>3, <1>5, <2>2, <2>4, <2>5, <2>6 DEF Reading
<1> QED
  BY Zenon, <1>4, <1>5

\* But for a line cut short with more to come, the lines given are those of what was parsed.
LEMMA GivenIsReference ==
  ASSUME NEW M \in Nat, NEW w, NEW P \in Text, NEW c, NEW m, NEW buf, NEW ls,
         Parsing(M, w, P, c, m, buf, ls),
         m = "DiscardUntilNewline" => c = <<>>
  PROVE  ls = ReferenceIn(M, w, P, FALSE)
<1>1. PICK s, T : s = Unterminated(P) /\ T = TerminatedIn(M, w, P)
  BY Zenon
<1>2. s \in Text /\ T \in Lines
  BY Zenon, <1>1, UnterminatedTyped, TerminatedTyped
<1>3. ReferenceIn(M, w, P, FALSE) = T \o LinesIn(M, w, s, FALSE)
  BY Zenon, <1>1, ReferenceOpen
<1>4. CASE ~Has(s, Gap) /\ ls = T \o EarlyOf(M, w, s)
  BY Zenon, <1>3, <1>4 DEF LinesIn
<1>5. CASE Has(s, Gap) /\ ls = T \o LinesIn(M, w, s, FALSE)
  BY Zenon, <1>3, <1>5
<1>6. CASE /\ ~Has(s, Gap) /\ M # 0 /\ w = "drop" /\ M <= Len(s) /\ Len(s) # M
           /\ ls = Append(T, SubSeq(s, 1, M))
  <2>1. Len(s) > M /\ "drop" # "emit"
    BY <1>2, <1>6 DEF Text
  <2>2. EarlyOf(M, w, s) = <<SubSeq(s, 1, M)>>
    BY Zenon, <1>6, <2>1 DEF EarlyOf
  <2>3. SubSeq(s, 1, M) \in Text
    BY <1>2, <1>6 DEF Text
  <2>4. ls = T \o <<SubSeq(s, 1, M)>>
    BY Zenon, <1>2, <1>6, <2>3, AppendIsConcat DEF Lines
  <2> QED
    BY Zenon, <1>3, <1>6, <2>2, <2>4 DEF LinesIn
<1> QED
  BY Zenon, <1>1, <1>4, <1>5, <1>6 DEF Parsing, Reading, Pending, Discarding

\* Before a chunk comes, the parser is ready for any.
LEMMA ReadyForChunk ==
  ASSUME NEW M, NEW w, NEW P, NEW m, NEW buf, NEW ls, Parsing(M, w, P, <<>>, m, buf, ls), NEW c
  PROVE  Parsing(M, w, P, c, m, buf, ls)
  BY Zenon DEF Parsing, Reading, Discarding

\* A gap has the line it fell into discarded.
LEMMA GapDiscards ==
  ASSUME NEW M \in Nat, NEW w, NEW P \in Text, NEW m, NEW buf, NEW ls,
         Parsing(M, w, P, <<>>, m, buf, ls)
  PROVE  Discarding(M, w, P \o <<Gap>>, <<>>, <<>>, ls)
<1>1. PICK s, T : s = Unterminated(P) /\ T = TerminatedIn(M, w, P)
  BY Zenon
<1>2. s \in Text
  BY Zenon, <1>1, UnterminatedTyped
<1>3. ls = T \o LinesIn(M, w, s, FALSE)
  BY Zenon, <1>1, GivenIsReference, ReferenceOpen
<1>4. Gap \in Int /\ Gap # Newline
  BY DEF Gap, Newline
<1>5. <<Gap>> \in Text /\ ~Has(<<Gap>>, Newline)
  BY Zenon, <1>4, OneByte
<1>6. Unterminated(P \o <<Gap>>) = s \o <<Gap>>
  BY Zenon, <1>1, <1>5, UnterminatedGrows
<1>7. TerminatedIn(M, w, P \o <<Gap>>) = T
  BY Zenon, <1>1, <1>5, TerminatedStays
<1>8. Has(s \o <<Gap>>, Gap) /\ LinesIn(M, w, s \o <<Gap>>, FALSE) = LinesIn(M, w, s, FALSE)
  <2>1. CASE Has(s, Gap)
    <3>1. Has(s \o <<Gap>>, Gap) /\ ToGap(s \o <<Gap>>) = ToGap(s)
      BY Zenon, <1>2, <1>5, <2>1, GapStays
    <3> QED
      BY Zenon, <2>1, <3>1, LinesWithGap
  <2>2. CASE ~Has(s, Gap)
    <3>1. Has(s \o <<Gap>>, Gap) /\ ToGap(s \o <<Gap>>) = s
      BY Zenon, <1>2, <2>2, GapCloses
    <3>2. LinesIn(M, w, s \o <<Gap>>, FALSE) = EarlyOf(M, w, s)
      BY Zenon, <3>1, LinesWithGap
    <3> QED
      BY Zenon, <2>2, <3>1, <3>2 DEF LinesIn
  <2> QED
    BY Zenon, <2>1, <2>2
<1> QED
  BY Zenon, <1>3, <1>6, <1>7, <1>8 DEF Discarding

\* The end of the stream, in DiscardUntilNewline.
LEMMA EndDiscarding ==
  ASSUME NEW M \in Nat, NEW w, NEW P \in Text, NEW buf, NEW ls,
         Discarding(M, w, P, <<>>, buf, ls)
  PROVE  ls = ReferenceIn(M, w, P, TRUE)
<1>1. PICK s, T : s = Unterminated(P) /\ T = TerminatedIn(M, w, P)
  BY Zenon
<1>2. s \in Text /\ T \in Lines
  BY Zenon, <1>1, UnterminatedTyped, TerminatedTyped
<1>3. s # <<>> => ReferenceIn(M, w, P, TRUE) = T \o LinesIn(M, w, s, TRUE)
  BY Zenon, <1>1, ReferenceEnded
<1>4. CASE Has(s, Gap) /\ ls = T \o LinesIn(M, w, s, FALSE)
  <2>1. s # <<>>
    BY Zenon, <1>4, NothingEarly
  <2> QED
    BY Zenon, <1>3, <1>4, <2>1, LinesWithGap
<1>5. CASE /\ ~Has(s, Gap) /\ M # 0 /\ w = "drop" /\ M <= Len(s) /\ Len(s) # M
           /\ ls = Append(T, SubSeq(s, 1, M))
  <2>1. ~(Len(s) <= M) /\ s # <<>>
    BY <1>2, <1>5 DEF Text
  <2>2. WholeOf(M, w, s) = <<SubSeq(s, 1, M)>>
    BY Zenon, <1>5, <2>1 DEF WholeOf
  <2>3. SubSeq(s, 1, M) \in Text
    BY <1>2, <1>5 DEF Text
  <2>4. ls = T \o <<SubSeq(s, 1, M)>>
    BY Zenon, <1>2, <1>5, <2>3, AppendIsConcat DEF Lines
  <2>5. LinesIn(M, w, s, TRUE) = WholeOf(M, w, s)
    BY Zenon, <1>5 DEF LinesIn
  <2> QED
    BY Zenon, <1>3, <2>1, <2>2, <2>4, <2>5
<1> QED
  BY Zenon, <1>1, <1>4, <1>5 DEF Discarding

\* The end of the stream, with nothing in the buffer.
LEMMA EndEmpty ==
  ASSUME NEW M \in Nat, NEW w, NEW P \in Text, NEW m, NEW ls,
         Parsing(M, w, P, <<>>, m, <<>>, ls)
  PROVE  ls = ReferenceIn(M, w, P, TRUE)
<1>1. PICK s, T : s = Unterminated(P) /\ T = TerminatedIn(M, w, P)
  BY Zenon
<1>2. s \in Text /\ T \in Lines
  BY Zenon, <1>1, UnterminatedTyped, TerminatedTyped
<1>3. ls = ReferenceIn(M, w, P, FALSE)
  BY Zenon, GivenIsReference
<1>4. CASE Discarding(M, w, P, <<>>, <<>>, ls)
  BY Zenon, <1>4, EndDiscarding
<1>5. CASE s = <<>>
  BY Zenon, <1>1, <1>3, <1>5, ReferenceEnded
<1>6. CASE Pending(M, w, P, <<>>, ls)
  <2>1. /\ M # 0 /\ w = "emit" /\ ~Has(s, Gap) /\ s # <<>> /\ RestOf(M, s) = <<>>
        /\ ls = T \o EarlyOf(M, w, s)
    BY Zenon, <1>1, <1>6 DEF Pending
  <2>2. M \in Nat \ {0} /\ EarlyOf(M, "emit", s) = FullOf(M, s)
    BY Zenon, <1>2, <2>1, EarlyPieces
  <2>3. WholeOf(M, "emit", s) = FullOf(M, s)
    BY Zenon, <1>2, <2>1, <2>2, WholeIsPieces
  <2>4. ls = T \o LinesIn(M, w, s, TRUE)
    BY Zenon, <2>1, <2>2, <2>3 DEF LinesIn
  <2> QED
    BY Zenon, <1>1, <2>1, <2>4, ReferenceEnded
<1> QED
  BY Zenon, <1>1, <1>4, <1>5, <1>6 DEF Parsing, Reading

\* The end of the stream flushes the buffer.
LEMMA EndFlushes ==
  ASSUME NEW M \in Nat, NEW w \in Behaviours, NEW P \in Text, NEW buf, buf # <<>>, NEW ls,
         Reading(M, w, P, <<>>, buf, ls)
  PROVE  Append(ls, buf) = ReferenceIn(M, w, P, TRUE)
<1>1. PICK s, T : s = Unterminated(P) /\ T = TerminatedIn(M, w, P)
  BY Zenon
<1>2. s \in Text /\ T \in Lines
  BY Zenon, <1>1, UnterminatedTyped, TerminatedTyped
<1>3. ~Has(s, Gap) /\ ls = T \o EarlyOf(M, w, s)
  BY Zenon, <1>1 DEF Reading
<1>4. s # <<>> /\ Append(ls, buf) = T \o WholeOf(M, w, s)
  <2>1. CASE M = 0 \/ w # "emit"
    <3>1. buf = s /\ (M # 0 => Len(s) <= M)
      BY Zenon, <1>1, <2>1 DEF Reading
    <3>2. EarlyOf(M, w, s) = <<>> /\ WholeOf(M, w, s) = <<s>>
      BY Zenon, <1>2, <2>1, <3>1, EarlyWithin
    <3>3. ls = T
      BY Zenon, <1>2, <1>3, <3>2, ConcatEmptySeq DEF Lines
    <3> QED
      BY Zenon, <1>2, <3>1, <3>2, <3>3, AppendIsConcat DEF Lines
  <2>2. CASE M # 0 /\ w = "emit"
    <3>1. buf = RestOf(M, s)
      BY Zenon, <1>1, <2>2 DEF Reading
    <3>2. /\ M \in Nat \ {0} /\ EarlyOf(M, w, s) = FullOf(M, s)
          /\ FullOf(M, s) \in Lines /\ RestOf(M, s) \in Text
      BY Zenon, <1>2, <2>2, EarlyPieces
    <3>3. s # <<>>
      BY Zenon, <3>1, <3>2, NoPieces
    <3>4. WholeOf(M, w, s) = Append(FullOf(M, s), buf)
      BY Zenon, <1>2, <2>2, <3>1, <3>2, <3>3, WholeIsPieces
    <3>5. PICK F \in Lines, x \in Text : F = FullOf(M, s) /\ x = buf
      BY Zenon, <3>1, <3>2
    <3>6. Append(T \o F, x) = T \o Append(F, x)
      BY Zenon, <1>2, AppendToLast
    <3> QED
      BY Zenon, <1>3, <3>2, <3>3, <3>4, <3>5, <3>6
  <2> QED
    BY Zenon, <2>1, <2>2
<1>5. LinesIn(M, w, s, TRUE) = WholeOf(M, w, s)
  BY Zenon, <1>3 DEF LinesIn
<1> QED
  BY Zenon, <1>1, <1>4, <1>5, ReferenceEnded

\* At any time the lines given are the first of those of everything delivered.
LEMMA GivenAreFirst ==
  ASSUME NEW M \in Nat, NEW w \in Behaviours, NEW P \in Text, NEW c \in Text, ~Has(c, Gap),
         NEW m, NEW buf, NEW ls, Parsing(M, w, P, c, m, buf, ls)
  PROVE  Leads(ls, ReferenceIn(M, w, P \o c, TRUE))
<1>1. CASE m = "DiscardUntilNewline" => c = <<>>
  <2>1. ls = ReferenceIn(M, w, P, FALSE)
    BY Zenon, <1>1, GivenIsReference
  <2> QED
    BY Zenon, <2>1, ReferenceGrows
<1>2. CASE m = "DiscardUntilNewline" /\ c # <<>>
  <2>1. Discarding(M, w, P, c, buf, ls)
    BY Zenon, <1>2 DEF Parsing
  <2>2. PICK b \in Int, r \in Text : c = <<b>> \o r /\ c[1] = b
    <3>1. /\ c[1] \in Int /\ SubSeq(c, 2, Len(c)) \in Text
          /\ c = <<c[1]>> \o SubSeq(c, 2, Len(c))
      BY <1>2 DEF Text
    <3> QED
      BY Zenon, <3>1
  <2>3. PICK u \in Text, Q \in Text : u = <<b>> /\ Q = P \o u
    BY Zenon, OneByte, TextConcat
  <2>4. u # <<>> /\ \A x : Has(u, x) <=> x = b
    <3>1. <<b>> # <<>>
      OBVIOUS
    <3> QED
      BY Zenon, <2>3, <3>1, OneByte
  <2>5. Discarding(M, w, P, u, buf, ls)
    BY Zenon, <2>1, <2>4 DEF Discarding
  <2>6. ls = ReferenceIn(M, w, Q, FALSE)
    <3>1. CASE b = Newline
      <4>1. PICK e \in Text : e = <<>>
        BY Zenon, EmptySeq DEF Text
      <4>2. Clean(e) /\ P \o e = P
        <5>1. ~Has(e, Newline) /\ ~Has(e, Gap)
          BY <4>1 DEF Has
        <5> QED
          BY Zenon, <4>1, <5>1, ConcatEmptySeq DEF Clean, Text
      <4>3. Reading(M, w, (P \o e) \o <<Newline>>, <<>>, buf, ls)
        BY Zenon, <2>1, <4>2, DiscardToNewline
      <4>4. Reading(M, w, Q, <<>>, buf, ls)
        BY Zenon, <2>3, <3>1, <4>2, <4>3
      <4>5. Parsing(M, w, Q, <<>>, "ReadingLine", buf, ls)
        BY Zenon, <4>4 DEF Parsing
      <4> QED
        BY Zenon, <4>5, GivenIsReference
    <3>2. CASE b # Newline
      <4>1. b # Gap
        BY <1>2, <2>2 DEF Has, Text
      <4>2. Clean(u)
        BY Zenon, <2>4, <3>2, <4>1 DEF Clean
      <4>3. Discarding(M, w, P \o u, <<>>, buf, ls)
        BY Zenon, <2>4, <2>5, <4>2, DiscardAll
      <4>4. Parsing(M, w, Q, <<>>, "DiscardUntilNewline", buf, ls)
        BY Zenon, <2>3, <4>3 DEF Parsing
      <4> QED
        BY Zenon, <4>4, GivenIsReference
    <3> QED
      BY Zenon, <3>1, <3>2
  <2>7. Leads(ls, ReferenceIn(M, w, Q \o r, TRUE))
    BY Zenon, <2>6, ReferenceGrows
  <2>8. Regroups(P, u, r)
    BY Zenon, TextRegroup
  <2> QED
    BY Zenon, <2>2, <2>3, <2>7, <2>8 DEF Regroups
<1> QED
  BY Zenon, <1>1, <1>2

-----------------------------------------------------------------------------
(* How a turn of next_line cuts the chunk *)

\* After P, c continues with u, a newline and r.
CutAtNewline(P, c, u, r) ==
  /\ u \in Text /\ r \in Text /\ Clean(u) /\ ~Has(r, Gap)
  /\ P \o c = ((P \o u) \o <<Newline>>) \o r
  /\ u = <<>> => c[1] = Newline

\* The first newline of a chunk cuts it.
LEMMA FirstNewlineCuts ==
  ASSUME NEW P \in Text, NEW c \in Text, ~Has(c, Gap), NEW n, FirstAfter(c, Newline, n)
  PROVE  CutAtNewline(P, c, SubSeq(c, 1, n), SubSeq(c, n + 2, Len(c)))
<1>1. n \in 0..(Len(c) - 1) /\ c[n + 1] = Newline /\ \A j \in 1..n : c[j] # Newline
  BY Zenon DEF FirstAfter
<1>2. PICK u, r : u = SubSeq(c, 1, n) /\ r = SubSeq(c, n + 2, Len(c))
  BY Zenon
<1>4. 1 \in Nat \ {0} /\ n \in 0..Len(c) /\ n + 2 \in Nat \ {0} /\ Len(c) \in 0..Len(c)
  BY <1>1 DEF Text
<1>3. /\ u \in Text /\ Len(u) = n /\ \A j \in 1..n : u[j] = c[j]
      /\ r \in Text
  <2>1. u \in Text /\ r \in Text
    BY Zenon, <1>2, <1>4, PartHas
  <2>2. c \in Seq(Int)
    BY Zenon DEF Text
  <2>3. Len(u) = n /\ \A j \in 1..n : u[j] = c[j]
    BY <1>2, <1>4, <2>2
  <2> QED
    BY Zenon, <2>1, <2>3
<1>5. Clean(u) /\ ~Has(r, Gap)
  <2>1. ~Has(u, Newline)
    BY Zenon, <1>1, <1>3 DEF Has
  <2>2. ~Has(u, Gap) /\ ~Has(r, Gap)
    BY Zenon, <1>2, <1>4, PartHas
  <2> QED
    BY Zenon, <2>1, <2>2 DEF Clean
<1>6. Newline \in Int /\ <<Newline>> \in Text
  BY DEF Newline, Text
<1>7. c = (u \o <<Newline>>) \o r
  <2>1. SubSeq(c, 1, n) \o SubSeq(c, n + 1, Len(c)) = c
    BY Zenon, <1>4, Split DEF Text
  <2>2. n + 1 \in 1..Len(c) /\ Len(c) \in (n + 1)..Len(c) /\ (n + 1) + 1 = n + 2
    BY <1>1 DEF Text
  <2>3. SubSeq(c, n + 1, Len(c)) = <<c[n + 1]>> \o SubSeq(c, (n + 1) + 1, Len(c))
    BY Zenon, <2>2, SubSeqRecursiveFirst DEF Text
  <2>4. c = u \o (<<Newline>> \o r)
    BY Zenon, <1>1, <1>2, <2>1, <2>2, <2>3
  <2>5. PICK nl \in Text : nl = <<Newline>>
    BY Zenon, <1>6
  <2>6. Regroups(u, nl, r)
    BY Zenon, <1>3, TextRegroup
  <2> QED
    BY Zenon, <2>4, <2>5, <2>6 DEF Regroups
<1>8. P \o c = ((P \o u) \o <<Newline>>) \o r
  <2>1. PICK nl \in Text, v \in Text : nl = <<Newline>> /\ v = u \o nl
    BY Zenon, <1>3, <1>6, TextConcat
  <2>2. u \in Text /\ r \in Text
    BY Zenon, <1>3
  <2>3. Regroups(P, v, r)
    BY Zenon, <2>2, TextRegroup
  <2>4. Regroups(P, u, nl)
    BY Zenon, <2>2, TextRegroup
  <2> QED
    BY Zenon, <1>7, <2>1, <2>3, <2>4 DEF Regroups
<1>9. u = <<>> => c[1] = Newline
  <2>1. ASSUME u = <<>> PROVE c[1] = Newline
    <3>1. n = 0 /\ n + 1 = 1
      BY <1>1, <1>3, <2>1
    <3> QED
      BY Zenon, <1>1, <3>1
  <2> QED
    BY Zenon, <2>1
<1> QED
  BY Zenon, <1>2, <1>3, <1>5, <1>8, <1>9 DEF CutAtNewline

\* After P, c continues with u and r.
Cut(P, c, u, r) ==
  /\ u \in Text /\ r \in Text /\ ~Has(u, Gap) /\ ~Has(r, Gap)
  /\ P \o c = (P \o u) \o r

\* A chunk can be cut anywhere.
LEMMA ScanCuts ==
  ASSUME NEW P \in Text, NEW c \in Text, ~Has(c, Gap), NEW L \in 0..Len(c)
  PROVE  /\ Cut(P, c, SubSeq(c, 1, L), SubSeq(c, L + 1, Len(c)))
         /\ Len(SubSeq(c, 1, L)) = L
<1>1. PICK u, r : u = SubSeq(c, 1, L) /\ r = SubSeq(c, L + 1, Len(c))
  BY Zenon
<1>2. u \in Text /\ Len(u) = L /\ r \in Text /\ c = u \o r
  BY Zenon, <1>1, Split DEF Text
<1>3. 1 \in Nat \ {0} /\ L + 1 \in Nat \ {0} /\ Len(c) \in 0..Len(c)
  BY DEF Text
<1>4. ~Has(u, Gap) /\ ~Has(r, Gap)
  BY Zenon, <1>1, <1>3, PartHas
<1>6. Regroups(P, u, r)
  BY Zenon, <1>2, TextRegroup
<1> QED
  BY Zenon, <1>1, <1>2, <1>4, <1>6 DEF Cut, Regroups

-----------------------------------------------------------------------------
(* The parser's steps *)

\* The parser has parsed the text but for the rest of the chunk.
Parsed ==
  \E P \in Text :
    /\ text = P \o chunk
    /\ Parsing(MaxLineLength, Overflow, P, chunk, mode, line_buffer, lines)

\* How Parsed is shown after a step.
LEMMA NowParsed ==
  ASSUME ParserTypes, options' = options, text' \in Text, chunk' \in Text, ~Has(chunk', Gap),
         line_buffer' \in Text, lines' \in Lines, NEW Q \in Text, text' = Q \o chunk',
         Parsing(MaxLineLength, Overflow, Q, chunk', mode', line_buffer', lines')
  PROVE  ParserTypes' /\ Parsed'
<1>1. MaxLineLength' = MaxLineLength /\ Overflow' = Overflow
  BY Zenon DEF MaxLineLength, Overflow
<1> QED
  BY Zenon, <1>1 DEF ParserTypes, Parsed

\* The turn of next_line in DiscardUntilNewline.
LEMMA DiscardParses ==
  ASSUME ParserTypes, Parsed, chunk # <<>>, Discard
  PROVE  ParserTypes' /\ Parsed'
<1>1. PICK P \in Text :
        text = P \o chunk /\ Parsing(MaxLineLength, Overflow, P, chunk, mode, line_buffer, lines)
  BY Zenon DEF Parsed
<1>2. /\ mode = "DiscardUntilNewline" /\ options' = options /\ line_buffer' = line_buffer
      /\ lines' = lines /\ text' = text
  BY Zenon DEF Discard
<1>3. /\ MaxLineLength \in Nat /\ Overflow \in Behaviours /\ text \in Text /\ chunk \in Text
      /\ ~Has(chunk, Gap) /\ line_buffer \in Text /\ lines \in Lines
  BY Zenon DEF ParserTypes
<1>4. Discarding(MaxLineLength, Overflow, P, chunk, line_buffer, lines)
  BY Zenon, <1>1, <1>2 DEF Parsing
<1>5. CASE HasNewline(chunk)
  <2>1. PICK n : n = BeforeNewline(chunk)
    BY Zenon
  <2>2. FirstAfter(chunk, Newline, n)
    BY Zenon, <1>3, <1>5, <2>1, BeforeIsFirst DEF HasNewline, BeforeNewline
  <2>3. mode' = "ReadingLine" /\ chunk' = SubSeq(chunk, n + 2, Len(chunk))
    BY Zenon, <1>5, <2>1 DEF Discard
  <2>4. PICK u : u = SubSeq(chunk, 1, n)
    BY Zenon
  <2>5. CutAtNewline(P, chunk, u, chunk')
    BY Zenon, <1>3, <2>2, <2>3, <2>4, FirstNewlineCuts
  <2>6. /\ u \in Text /\ chunk' \in Text /\ Clean(u) /\ ~Has(chunk', Gap)
        /\ text = ((P \o u) \o <<Newline>>) \o chunk'
    BY Zenon, <1>1, <2>5 DEF CutAtNewline
  <2>7. Reading(MaxLineLength, Overflow, (P \o u) \o <<Newline>>, chunk', line_buffer, lines)
    BY Zenon, <1>3, <1>4, <2>6, DiscardToNewline
  <2>8. PICK Q \in Text : Q = (P \o u) \o <<Newline>>
    <3>1. Newline \in Int
      BY DEF Newline
    <3>2. PICK nl \in Text : nl = <<Newline>>
      BY Zenon, <3>1, OneByte
    <3> QED
      BY Zenon, <2>6, <3>2, TextConcat
  <2>9. Parsing(MaxLineLength, Overflow, Q, chunk', mode', line_buffer', lines')
    BY Zenon, <1>2, <2>3, <2>7, <2>8 DEF Parsing
  <2> QED
    BY Zenon, <1>2, <1>3, <2>6, <2>8, <2>9, NowParsed
<1>6. CASE ~HasNewline(chunk)
  <2>1. chunk' = <<>> /\ mode' = mode
    BY Zenon, <1>6 DEF Discard
  <2>2. Clean(chunk)
    BY Zenon, <1>3, <1>6 DEF Clean, HasNewline
  <2>3. Discarding(MaxLineLength, Overflow, P \o chunk, <<>>, line_buffer, lines)
    BY Zenon, <1>3, <1>4, <2>2, DiscardAll
  <2>4. Parsing(MaxLineLength, Overflow, text, chunk', mode', line_buffer', lines')
    BY Zenon, <1>1, <1>2, <2>1, <2>3 DEF Parsing
  <2>5. text' = text \o chunk' /\ chunk' \in Text /\ ~Has(chunk', Gap)
    BY <1>2, <1>3, <2>1 DEF Text, Has
  <2> QED
    BY Zenon, <1>2, <1>3, <2>4, <2>5, NowParsed
<1> QED
  BY Zenon, <1>5, <1>6

\* The turn of next_line in PendingLimitDelimiter.
LEMMA SkipParses ==
  ASSUME ParserTypes, Parsed, chunk # <<>>, SkipDelimiter
  PROVE  ParserTypes' /\ Parsed'
<1>1. PICK P \in Text :
        text = P \o chunk /\ Parsing(MaxLineLength, Overflow, P, chunk, mode, line_buffer, lines)
  BY Zenon DEF Parsed
<1>2. /\ mode = "PendingLimitDelimiter" /\ options' = options /\ line_buffer' = line_buffer
      /\ lines' = lines /\ text' = text /\ mode' = "ReadingLine"
      /\ chunk' = IF Head(chunk) = Newline THEN Tail(chunk) ELSE chunk
  BY Zenon DEF SkipDelimiter
<1>3. /\ MaxLineLength \in Nat /\ Overflow \in Behaviours /\ text \in Text /\ chunk \in Text
      /\ ~Has(chunk, Gap) /\ line_buffer \in Text /\ lines \in Lines
  BY Zenon DEF ParserTypes
<1>4. Pending(MaxLineLength, Overflow, P, line_buffer, lines)
  BY Zenon, <1>1, <1>2 DEF Parsing
<1>5. CASE Head(chunk) = Newline
  <2>1. /\ 1 \in 0..Len(chunk) /\ SubSeq(chunk, 1, 1) = <<Head(chunk)>>
        /\ SubSeq(chunk, 1 + 1, Len(chunk)) = Tail(chunk)
    BY Zenon, <1>3, FirstByte
  <2>2. Cut(P, chunk, SubSeq(chunk, 1, 1), SubSeq(chunk, 1 + 1, Len(chunk)))
    BY Zenon, <1>3, <2>1, ScanCuts
  <2>3. /\ <<Newline>> \in Text /\ chunk' \in Text /\ ~Has(chunk', Gap)
        /\ text = (P \o <<Newline>>) \o chunk'
    BY Zenon, <1>1, <1>2, <1>5, <2>1, <2>2 DEF Cut
  <2>4. Reading(MaxLineLength, Overflow, P \o <<Newline>>, chunk', line_buffer, lines)
    BY Zenon, <1>3, <1>4, SkipNewline
  <2>5. PICK Q \in Text : Q = P \o <<Newline>>
    BY Zenon, <2>3, TextConcat
  <2>6. Parsing(MaxLineLength, Overflow, Q, chunk', mode', line_buffer', lines')
    BY Zenon, <1>2, <2>4, <2>5 DEF Parsing
  <2> QED
    BY Zenon, <1>2, <1>3, <2>3, <2>5, <2>6, NowParsed
<1>6. CASE Head(chunk) # Newline
  <2>1. chunk[1] # Newline /\ chunk' = chunk
    BY <1>2, <1>3, <1>6 DEF Text
  <2>2. Reading(MaxLineLength, Overflow, P, chunk, line_buffer, lines)
    BY Zenon, <1>3, <1>4, <2>1, SkipNothing
  <2>3. Parsing(MaxLineLength, Overflow, P, chunk', mode', line_buffer', lines')
    BY Zenon, <1>2, <2>1, <2>2 DEF Parsing
  <2> QED
    BY Zenon, <1>1, <1>2, <1>3, <2>1, <2>3, NowParsed
<1> QED
  BY Zenon, <1>5, <1>6

\* The turn of next_line with a full buffer.
LEMMA EmitFullParses ==
  ASSUME ParserTypes, Parsed, chunk # <<>>, EmitFull
  PROVE  ParserTypes' /\ Parsed'
<1>1. PICK P \in Text :
        text = P \o chunk /\ Parsing(MaxLineLength, Overflow, P, chunk, mode, line_buffer, lines)
  BY Zenon DEF Parsed
<1>2. /\ mode = "ReadingLine" /\ MaxLineLength # 0 /\ Len(line_buffer) = MaxLineLength
      /\ mode' = IF Overflow = "drop" THEN "DiscardUntilNewline" ELSE "PendingLimitDelimiter"
      /\ line_buffer' = <<>> /\ lines' = Append(lines, line_buffer)
      /\ options' = options /\ chunk' = chunk /\ text' = text
  BY Zenon DEF EmitFull, Emit, Full
<1>3. /\ MaxLineLength \in Nat /\ Overflow \in Behaviours /\ text \in Text /\ chunk \in Text
      /\ ~Has(chunk, Gap) /\ line_buffer \in Text /\ lines \in Lines
  BY Zenon DEF ParserTypes
<1>4. Reading(MaxLineLength, Overflow, P, chunk, line_buffer, lines)
  BY Zenon, <1>1, <1>2 DEF Parsing
<1>5. Overflow = "drop" /\ Discarding(MaxLineLength, Overflow, P, chunk, <<>>, lines')
  BY Zenon, <1>2, <1>3, <1>4, FullLine
<1>6. Parsing(MaxLineLength, Overflow, P, chunk', mode', line_buffer', lines')
  BY Zenon, <1>2, <1>5 DEF Parsing
<1>7. line_buffer' \in Text /\ lines' \in Lines
  BY Zenon, <1>2, <1>3, EmptySeq, LeadsAppended DEF Text
<1> QED
  BY Zenon, <1>1, <1>2, <1>3, <1>6, <1>7, NowParsed

\* The buffer never exceeds the limit.
LEMMA ReadingWithin ==
  ASSUME NEW M \in Nat, NEW w, NEW P \in Text, NEW c, NEW buf, NEW ls,
         Reading(M, w, P, c, buf, ls), M # 0
  PROVE  Len(buf) <= M
<1>1. PICK s : s = Unterminated(P)
  BY Zenon
<1>2. s \in Text
  BY Zenon, <1>1, UnterminatedTyped
<1>3. Len(RestOf(M, s)) \in Nat /\ Len(RestOf(M, s)) < M
  BY Zenon, <1>2, EarlyPieces
<1>4. Len(RestOf(M, s)) <= M
  BY <1>3
<1> QED
  BY Zenon, <1>1, <1>4 DEF Reading

\* The turn of next_line that reads.
LEMMA ScanParses ==
  ASSUME ParserTypes, Parsed, chunk # <<>>, Scan
  PROVE  ParserTypes' /\ Parsed'
<1>1. PICK P \in Text :
        text = P \o chunk /\ Parsing(MaxLineLength, Overflow, P, chunk, mode, line_buffer, lines)
  BY Zenon DEF Parsed
<1>2. /\ MaxLineLength \in Nat /\ Overflow \in Behaviours /\ text \in Text /\ chunk \in Text
      /\ ~Has(chunk, Gap) /\ line_buffer \in Text /\ lines \in Lines
  BY Zenon DEF ParserTypes
<1>3. mode = "ReadingLine" /\ ~Full(line_buffer) /\ options' = options /\ text' = text
  BY Zenon DEF Scan
<1>4. Reading(MaxLineLength, Overflow, P, chunk, line_buffer, lines)
  BY Zenon, <1>1, <1>3 DEF Parsing
<1>5. PICK L : L = ScanLength
  BY Zenon
<1>6. L \in 0..Len(chunk) /\ L > 0 /\ (MaxLineLength # 0 => Len(line_buffer) + L <= MaxLineLength)
  <2>1. PICK m \in Nat, a \in Nat, n \in Nat : m = MaxLineLength /\ a = Len(line_buffer) /\ n = Len(chunk)
    BY Zenon, <1>2, LenProperties DEF Text
  <2>2. n > 0
    BY <1>2, <2>1 DEF Text
  <2>3. m # 0 => a <= m
    BY Zenon, <1>2, <1>4, <2>1, ReadingWithin
  <2>4. m # 0 => a # m
    BY Zenon, <1>3, <2>1 DEF Full
  <2>5. L = IF m = 0 \/ m - a > n THEN n ELSE m - a
    BY Zenon, <1>5, <2>1 DEF ScanLength
  <2>6. L \in 0..n /\ L > 0 /\ (m # 0 => a + L <= m)
    BY SMTT(20), <2>2, <2>3, <2>4, <2>5
  <2> QED
    BY Zenon, <2>1, <2>6
<1>7. PICK scan : scan = SubSeq(chunk, 1, L)
  BY Zenon
<1>8. /\ Cut(P, chunk, scan, SubSeq(chunk, L + 1, Len(chunk))) /\ Len(scan) = L
  BY Zenon, <1>2, <1>6, <1>7, ScanCuts
<1>9. scan \in Text /\ ~Has(scan, Gap)
  BY Zenon, <1>8 DEF Cut
<1>10. CASE HasNewline(scan)
  <2>1. PICK n : n = BeforeNewline(scan)
    BY Zenon
  <2>2. FirstAfter(SubSeq(chunk, 1, L), Newline, n)
    BY Zenon, <1>7, <1>9, <1>10, <2>1, BeforeIsFirst DEF HasNewline, BeforeNewline
  <2>3. /\ FirstAfter(chunk, Newline, n) /\ n \in Nat /\ n < L
        /\ SubSeq(scan, 1, n) = SubSeq(chunk, 1, n) /\ Len(SubSeq(chunk, 1, n)) = n
    BY Zenon, <1>2, <1>6, <1>7, <2>2, ScanFindsFirst
  <2>4. PICK u : u = SubSeq(chunk, 1, n)
    BY Zenon
  <2>5. /\ lines' = Append(lines, line_buffer \o u) /\ line_buffer' = <<>>
        /\ chunk' = SubSeq(chunk, n + 2, Len(chunk)) /\ mode' = mode
    BY Zenon, <1>5, <1>7, <1>10, <2>1, <2>3, <2>4 DEF Scan, Emit
  <2>6. CutAtNewline(P, chunk, u, chunk')
    BY Zenon, <1>2, <2>3, <2>4, <2>5, FirstNewlineCuts
  <2>7. /\ u \in Text /\ chunk' \in Text /\ Clean(u) /\ ~Has(chunk', Gap)
        /\ text = ((P \o u) \o <<Newline>>) \o chunk' /\ (u = <<>> => chunk[1] = Newline)
    BY Zenon, <1>1, <2>6 DEF CutAtNewline
  <2>8. MaxLineLength # 0 => Len(line_buffer) + Len(u) < MaxLineLength
    <3>1. PICK m \in Nat, a \in Nat : m = MaxLineLength /\ a = Len(line_buffer)
      BY Zenon, <1>2, LenProperties DEF Text
    <3>2. m # 0 => a + L <= m
      BY Zenon, <1>6, <3>1
    <3>3. m # 0 => a + n < m
      BY SMTT(20), <1>6, <2>3, <3>2
    <3> QED
      BY Zenon, <2>3, <2>4, <3>1, <3>3
  <2>9. PICK Q : Q = (P \o u) \o <<Newline>>
    BY Zenon
  <2>10. Q \in Text
    <3>1. Newline \in Int
      BY DEF Newline
    <3>2. PICK nl \in Text : nl = <<Newline>>
      BY Zenon, <3>1, OneByte
    <3> QED
      BY Zenon, <2>7, <2>9, <3>2, TextConcat
  <2>11. Reading(MaxLineLength, Overflow, Q, chunk', line_buffer', lines')
    BY Zenon, <1>2, <1>4, <2>5, <2>7, <2>8, <2>9, ScanToNewline
  <2>12. Parsing(MaxLineLength, Overflow, Q, chunk', mode', line_buffer', lines')
    BY Zenon, <1>3, <2>5, <2>11 DEF Parsing
  <2>13. line_buffer \o u \in Text /\ <<>> \in Text
    BY Zenon, <1>2, <2>7, TextConcat, EmptySeq DEF Text
  <2>14. line_buffer' \in Text /\ lines' \in Lines
    BY Zenon, <1>2, <2>5, <2>13, LeadsAppended
  <2> QED
    BY Zenon, <1>2, <1>3, <2>7, <2>9, <2>10, <2>12, <2>14, NowParsed
<1>11. CASE ~HasNewline(scan)
  <2>1. Clean(scan)
    BY Zenon, <1>9, <1>11 DEF Clean, HasNewline
  <2>2. chunk' = SubSeq(chunk, L + 1, Len(chunk))
    BY Zenon, <1>5, <1>7, <1>11 DEF Scan
  <2>3. chunk' \in Text /\ ~Has(chunk', Gap) /\ text = (P \o scan) \o chunk'
    BY Zenon, <1>1, <1>8, <2>2 DEF Cut
  <2>4. PICK Q, buffer : Q = P \o scan /\ buffer = line_buffer \o scan
    BY Zenon
  <2>5. Q \in Text /\ buffer \in Text /\ Len(buffer) = Len(line_buffer) + Len(scan)
    BY Zenon, <1>2, <1>9, <2>4, TextConcat
  <2>6. CASE Full(buffer) /\ Overflow = "emit"
    <3>1. /\ mode' = "PendingLimitDelimiter" /\ line_buffer' = <<>>
          /\ lines' = Append(lines, buffer)
      BY Zenon, <1>5, <1>7, <1>11, <2>4, <2>6 DEF Scan, Emit
    <3>2. MaxLineLength # 0 /\ Len(line_buffer \o scan) = MaxLineLength
      BY Zenon, <2>4, <2>6 DEF Full
    <3>3. Reading(MaxLineLength, "emit", P, chunk, line_buffer, lines)
      BY Zenon, <1>4, <2>6
    <3>4. Pending(MaxLineLength, "emit", P \o scan, <<>>, Append(lines, line_buffer \o scan))
      BY Zenon, <1>2, <1>9, <2>1, <3>2, <3>3, ScanToLimit
    <3>5. Parsing(MaxLineLength, Overflow, Q, chunk', mode', line_buffer', lines')
      BY Zenon, <2>4, <2>6, <3>1, <3>4 DEF Parsing
    <3>6. line_buffer' \in Text /\ lines' \in Lines
      BY Zenon, <1>2, <2>5, <3>1, EmptySeq, LeadsAppended DEF Text
    <3> QED
      BY Zenon, <1>2, <1>3, <2>3, <2>4, <2>5, <3>5, <3>6, NowParsed
  <2>7. CASE ~(Full(buffer) /\ Overflow = "emit")
    <3>1. line_buffer' = buffer /\ mode' = mode /\ lines' = lines
      BY Zenon, <1>5, <1>7, <1>11, <2>4, <2>7 DEF Scan
    <3>2. PICK m \in Nat, a \in Nat : m = MaxLineLength /\ a = Len(line_buffer)
      BY Zenon, <1>2, LenProperties DEF Text
    <3>3. m # 0 => a + L <= m
      BY Zenon, <1>6, <3>2
    <3>4. m # 0 /\ Overflow = "emit" => a + L # m
      BY Zenon, <1>8, <2>5, <2>7, <3>2 DEF Full
    <3>5. m # 0 /\ Overflow = "emit" => a + L < m
      BY SMTT(20), <1>6, <3>3, <3>4
    <3>6. scan # <<>>
      BY <1>6, <1>8
    <3>7. /\ MaxLineLength # 0 => Len(line_buffer) + Len(scan) <= MaxLineLength
          /\ MaxLineLength # 0 /\ Overflow = "emit" => Len(line_buffer) + Len(scan) < MaxLineLength
      BY Zenon, <1>8, <3>2, <3>3, <3>5
    <3>8. Reading(MaxLineLength, Overflow, P \o scan, chunk', line_buffer \o scan, lines)
      BY Zenon, <1>2, <1>4, <1>9, <2>1, <3>6, <3>7, ScanAll
    <3>9. Parsing(MaxLineLength, Overflow, Q, chunk', mode', line_buffer', lines')
      BY Zenon, <1>3, <2>4, <3>1, <3>8 DEF Parsing
    <3> QED
      BY Zenon, <1>2, <1>3, <2>3, <2>4, <2>5, <3>1, <3>9, NowParsed
  <2> QED
    BY Zenon, <2>6, <2>7
<1> QED
  BY Zenon, <1>10, <1>11

-----------------------------------------------------------------------------
(* The lines given to the visitor *)

\* The inductive invariant: while the stream goes on the parser is where Parsed has it,
\* at its end every line is out.  A visitor of chunks has no use for the buffer.
LineInv ==
  /\ ParserTypes
  /\ LineLevel =>
       IF state = "ended"
       THEN chunk = <<>> /\ lines = ReferenceIn(MaxLineLength, Overflow, text, TRUE)
       ELSE Parsed
  /\ ~LineLevel => line_buffer = <<>>

\* Nothing has been parsed when nothing has been delivered.
LEMMA LineInvInit ==
  ASSUME Init
  PROVE  LineInv
<1>1. /\ options \in [max_line_length : MaxLineLengths, overflow_behavior : {"drop", "emit"}]
      /\ line_buffer = <<>> /\ mode = "ReadingLine" /\ chunk = <<>>
      /\ lines = <<>> /\ state = "open" /\ text = <<>>
  BY Zenon DEF Init, ParserInit
<1>2. MaxLineLength \in Nat /\ Overflow \in Behaviours
  <2>1. options.max_line_length \in MaxLineLengths /\ options.overflow_behavior \in {"drop", "emit"}
    BY <1>1
  <2> QED
    BY Zenon, <2>1, OptionsAssumption DEF MaxLineLength, Overflow, Behaviours
<1>3. <<>> \in Text /\ <<>> \in Lines
  BY Zenon, EmptySeq DEF Text, Lines
<1>4. ~Has(<<>>, Gap)
  BY Zenon, <1>2, NothingEarly
<1>5. ParserTypes
  BY Zenon, <1>1, <1>2, <1>3, <1>4 DEF ParserTypes
<1>6. PICK M \in Nat, w \in Behaviours : M = MaxLineLength /\ w = Overflow
  BY Zenon, <1>2
<1>7. Len(<<>>) = 0 /\ <<>> \o <<>> = <<>> /\ 0 <= M /\ ~Has(<<>>, Newline)
  BY DEF Has
<1>8. Unterminated(<<>>) = <<>>
  <2>1. Start(<<>>, Len(<<>>) + 1) = 1
    BY DEF Start
  <2> QED
    BY <1>7, <2>1 DEF Unterminated
<1>9. TerminatedIn(M, w, <<>>) = <<>>
  <2>1. Closed(M, w, <<>>) \in Seq(Lines) /\ Len(Closed(M, w, <<>>)) = Len(<<>>)
    BY Zenon, <1>3, ClosedTyped
  <2>2. Closed(M, w, <<>>) = <<>>
    BY Zenon, <1>7, <2>1, EmptySeq
  <2> QED
    BY Zenon, <2>2, FlattenEmpty DEF TerminatedIn
<1>10. EarlyOf(M, w, <<>>) = <<>> /\ (M # 0 => RestOf(M, <<>>) = <<>>)
  <2>1. M # 0 => M \in Nat \ {0}
    OBVIOUS
  <2> QED
    BY Zenon, <2>1, NothingEarly, NoPieces
<1>11. Reading(M, w, <<>>, <<>>, <<>>, <<>>)
  BY Zenon, <1>4, <1>7, <1>8, <1>9, <1>10 DEF Reading
<1>12. Parsed
  BY Zenon, <1>1, <1>3, <1>6, <1>7, <1>11 DEF Parsed, Parsing
<1> QED
  BY Zenon, <1>1, <1>5, <1>12 DEF LineInv

\* A turn of next_line.
LEMMA NextLineParses ==
  ASSUME ParserTypes, Parsed, NextLine
  PROVE  ParserTypes' /\ Parsed' /\ state' # "ended"
<1>1. state = "open" /\ chunk # <<>> /\ (Discard \/ SkipDelimiter \/ EmitFull \/ Scan)
  BY Zenon DEF NextLine
<1>2. state' \in {"open", "broke"}
  BY Zenon, <1>1 DEF Discard, SkipDelimiter, EmitFull, Scan, Emit
<1> QED
  BY Zenon, <1>1, <1>2, DiscardParses, SkipParses, EmitFullParses, ScanParses

\* A step that leaves the parser and the lines alone.
LEMMA ParserRests ==
  ASSUME LineInv, options' = options, line_buffer' = line_buffer, mode' = mode, chunk' = chunk,
         lines' = lines, text' = text, visitor' = visitor,
         state' = "ended" <=> state = "ended"
  PROVE  LineInv'
<1>1. MaxLineLength' = MaxLineLength /\ Overflow' = Overflow /\ (LineLevel' <=> LineLevel)
  BY Zenon, SameOptions
<1> QED
  BY Zenon, <1>1 DEF LineInv, ParserTypes, Parsed

\* The new chunk is what is left to parse.
LEMMA ChunkComes ==
  ASSUME LineInv, NEW n \in Nat, OnChunk(n), visitor' = visitor
  PROVE  LineInv'
<1>1. /\ state = "open" /\ state' = state /\ chunk = <<>> /\ options' = options
      /\ line_buffer' = line_buffer /\ mode' = mode /\ lines' = lines
  BY Zenon DEF OnChunk
<1>2. PICK c \in Chunks(n) : chunk' = c /\ text' = text \o c
  BY Zenon DEF OnChunk
<1>3. ParserTypes
  BY Zenon DEF LineInv
<1>4. text \in Text /\ line_buffer \in Text /\ lines \in Lines
  BY Zenon, <1>3 DEF ParserTypes
<1>5. chunk' \in Text /\ ~Has(chunk', Gap) /\ text' \in Text
  BY Zenon, <1>2, <1>4, ChunksTyped
<1>6. MaxLineLength' = MaxLineLength /\ Overflow' = Overflow /\ (LineLevel' <=> LineLevel)
  BY Zenon, <1>1, SameOptions
<1>7. CASE LineLevel
  <2>1. Parsed /\ "open" # "ended"
    BY Zenon, <1>1, <1>7 DEF LineInv
  <2>2. PICK P \in Text : /\ text = P \o <<>>
                          /\ Parsing(MaxLineLength, Overflow, P, <<>>, mode, line_buffer, lines)
    BY Zenon, <1>1, <2>1 DEF Parsed
  <2>3. text = P
    BY Zenon, <2>2, ConcatEmptySeq DEF Text
  <2>4. Parsing(MaxLineLength, Overflow, text, chunk', mode', line_buffer', lines')
    BY Zenon, <1>1, <2>2, <2>3, ReadyForChunk
  <2>5. ParserTypes' /\ Parsed'
    BY Zenon, <1>1, <1>2, <1>3, <1>4, <1>5, <2>4, NowParsed
  <2> QED
    BY Zenon, <1>1, <1>6, <1>7, <2>1, <2>5 DEF LineInv
<1>8. CASE ~LineLevel
  BY Zenon, <1>1, <1>3, <1>4, <1>5, <1>6, <1>8 DEF LineInv, ParserTypes
<1> QED
  BY Zenon, <1>7, <1>8

\* The gap has the line in progress discarded.
LEMMA GapComes ==
  ASSUME LineInv, EventGap
  PROVE  LineInv'
<1>1. /\ state = "open" /\ state' = state /\ chunk = <<>> /\ chunk' = chunk /\ options' = options
      /\ lines' = lines /\ visitor' = visitor /\ text' = Append(text, Gap)
  BY Zenon DEF EventGap, OnGap
<1>2. ParserTypes
  BY Zenon DEF LineInv
<1>3. text \in Text /\ chunk \in Text /\ ~Has(chunk, Gap) /\ line_buffer \in Text /\ lines \in Lines
      /\ MaxLineLength \in Nat
  BY Zenon, <1>2 DEF ParserTypes
<1>4. text' = text \o <<Gap>> /\ text' \in Text
  BY Zenon, <1>1, <1>3, GapTyped
<1>5. MaxLineLength' = MaxLineLength /\ Overflow' = Overflow /\ (LineLevel' <=> LineLevel)
  BY Zenon, <1>1, SameOptions
<1>6. CASE LineLevel
  <2>1. Parsed /\ "open" # "ended"
    BY Zenon, <1>1, <1>6 DEF LineInv
  <2>2. PICK P \in Text : /\ text = P \o <<>>
                          /\ Parsing(MaxLineLength, Overflow, P, <<>>, mode, line_buffer, lines)
    BY Zenon, <1>1, <2>1 DEF Parsed
  <2>3. text = P
    BY Zenon, <2>2, ConcatEmptySeq DEF Text
  <2>4. Discarding(MaxLineLength, Overflow, text \o <<Gap>>, <<>>, <<>>, lines)
    BY Zenon, <1>3, <2>2, <2>3, GapDiscards
  <2>5. line_buffer' = <<>> /\ mode' = "DiscardUntilNewline"
    BY Zenon, <1>6 DEF EventGap, OnGap
  <2>6. Parsing(MaxLineLength, Overflow, text', chunk', mode', line_buffer', lines')
    BY Zenon, <1>1, <1>4, <2>4, <2>5 DEF Parsing
  <2>7. line_buffer' \in Text /\ text' = text' \o chunk'
    BY Zenon, <1>1, <1>4, <2>5, EmptySeq, ConcatEmptySeq DEF Text
  <2>8. ParserTypes' /\ Parsed'
    BY Zenon, <1>1, <1>2, <1>3, <1>4, <2>6, <2>7, NowParsed
  <2> QED
    BY Zenon, <1>1, <1>5, <1>6, <2>1, <2>8 DEF LineInv
<1>7. CASE ~LineLevel
  <2>1. line_buffer' = line_buffer
    BY Zenon, <1>7 DEF EventGap
  <2> QED
    BY Zenon, <1>1, <1>2, <1>4, <1>5, <1>7, <2>1 DEF LineInv, ParserTypes
<1> QED
  BY Zenon, <1>6, <1>7

\* The end of the stream gives out the rest.
LEMMA EofComes ==
  ASSUME LineInv, OnEof, visitor' = visitor
  PROVE  LineInv'
<1>1. /\ state = "open" /\ state' = "ended" /\ chunk = <<>> /\ chunk' = chunk
      /\ options' = options /\ mode' = mode /\ text' = text
  BY Zenon DEF OnEof
<1>2. /\ MaxLineLength \in Nat /\ Overflow \in Behaviours /\ text \in Text /\ chunk \in Text
      /\ ~Has(chunk, Gap) /\ line_buffer \in Text /\ lines \in Lines
  BY Zenon DEF LineInv, ParserTypes
<1>3. MaxLineLength' = MaxLineLength /\ Overflow' = Overflow /\ (LineLevel' <=> LineLevel)
  BY Zenon, <1>1, SameOptions
<1>4. ParserTypes'
  <2>1. line_buffer' \in Text /\ lines' \in Lines
    BY Zenon, <1>2, EmptySeq, LeadsAppended DEF OnEof, Text
  <2> QED
    BY Zenon, <1>1, <1>2, <1>3, <2>1 DEF ParserTypes
<1>5. ASSUME LineLevel
      PROVE  lines' = ReferenceIn(MaxLineLength, Overflow, text, TRUE)
  <2>1. Parsed /\ "open" # "ended"
    BY Zenon, <1>1, <1>5 DEF LineInv
  <2>2. PICK P \in Text : /\ text = P \o <<>>
                          /\ Parsing(MaxLineLength, Overflow, P, <<>>, mode, line_buffer, lines)
    BY Zenon, <1>1, <2>1 DEF Parsed
  <2>3. text = P
    BY Zenon, <2>2, ConcatEmptySeq DEF Text
  <2>4. PICK M \in Nat, w \in Behaviours : M = MaxLineLength /\ w = Overflow
    BY Zenon, <1>2
  <2>5. Parsing(M, w, text, <<>>, mode, line_buffer, lines)
    BY Zenon, <2>2, <2>3, <2>4
  <2>6. CASE line_buffer = <<>>
    <3>1. lines = ReferenceIn(M, w, text, TRUE)
      BY Zenon, <1>2, <2>5, <2>6, EndEmpty
    <3> QED
      BY Zenon, <2>4, <2>6, <3>1 DEF OnEof
  <2>7. CASE mode = "DiscardUntilNewline"
    <3>1. Discarding(M, w, text, <<>>, line_buffer, lines)
      BY Zenon, <2>5, <2>7 DEF Parsing
    <3>2. lines = ReferenceIn(M, w, text, TRUE)
      BY Zenon, <1>2, <3>1, EndDiscarding
    <3> QED
      BY Zenon, <2>4, <2>7, <3>2 DEF OnEof
  <2>8. CASE ~(mode = "DiscardUntilNewline" \/ line_buffer = <<>>)
    <3>1. Reading(M, w, text, <<>>, line_buffer, lines)
      BY Zenon, <2>5, <2>8 DEF Parsing, Pending
    <3>2. Append(lines, line_buffer) = ReferenceIn(M, w, text, TRUE)
      BY Zenon, <1>2, <2>8, <3>1, EndFlushes
    <3> QED
      BY Zenon, <2>4, <2>8, <3>2 DEF OnEof
  <2> QED
    BY Zenon, <2>6, <2>7, <2>8
<1>6. ~LineLevel => line_buffer' = <<>>
  BY Zenon DEF LineInv, OnEof
<1> QED
  BY Zenon, <1>1, <1>3, <1>4, <1>5, <1>6 DEF LineInv

\* LineInv is inductive.
LEMMA LineInvNext ==
  ASSUME LineInv, [Next]_vars
  PROVE  LineInv'
<1>1. CASE ParseStep
  <2>1. LineLevel /\ NextLine /\ visitor' = visitor
    BY Zenon, <1>1 DEF ParseStep
  <2>2. state = "open" /\ "open" # "ended" /\ options' = options
    BY Zenon, <2>1 DEF NextLine, Discard, SkipDelimiter, EmitFull, Scan
  <2>3. ParserTypes /\ Parsed
    BY Zenon, <2>1, <2>2 DEF LineInv
  <2>4. ParserTypes' /\ Parsed' /\ state' # "ended"
    BY Zenon, <2>1, <2>3, NextLineParses
  <2> QED
    BY Zenon, <2>1, <2>2, <2>4, SameOptions DEF LineInv
<1>2. CASE VisitChunk
  <2>1. /\ ~LineLevel /\ chunk' = <<>> /\ options' = options /\ visitor' = visitor
        /\ line_buffer' = line_buffer /\ lines' = lines /\ text' = text
    BY Zenon, <1>2 DEF VisitChunk
  <2>2. MaxLineLength' = MaxLineLength /\ Overflow' = Overflow /\ (LineLevel' <=> LineLevel)
    BY Zenon, <2>1, SameOptions
  <2>3. <<>> \in Text /\ ~Has(<<>>, Gap)
    BY Zenon, EmptySeq, NothingEarly DEF Text, LineInv, ParserTypes
  <2> QED
    BY Zenon, <2>1, <2>2, <2>3 DEF LineInv, ParserTypes
<1>3. ASSUME NEW n \in 1..MaxChunk, EventChunk(n) PROVE LineInv'
  <2>1. n \in Nat
    BY OptionsAssumption
  <2> QED
    BY Zenon, <1>3, <2>1, ChunkComes DEF EventChunk
<1>4. CASE EventGap
  BY Zenon, <1>4, GapComes
<1>5. CASE EventEof
  BY Zenon, <1>5, EofComes DEF EventEof
<1>6. CASE EventReadError \/ TermSignal \/ TimeoutElapses
  <2>1. /\ options' = options /\ line_buffer' = line_buffer /\ mode' = mode /\ chunk' = chunk
        /\ lines' = lines /\ text' = text /\ visitor' = visitor
        /\ state = "open" /\ state' \in {"failed", "cancelled", "timeout"}
    BY Zenon, <1>6 DEF EventReadError, TermSignal, TimeoutElapses, StopsAs
  <2>2. state # "ended" /\ state' # "ended"
    BY Zenon, <2>1
  <2> QED
    BY Zenon, <2>1, <2>2, ParserRests
<1>7. CASE Finished \/ UNCHANGED vars
  <2>1. /\ options' = options /\ line_buffer' = line_buffer /\ mode' = mode /\ chunk' = chunk
        /\ lines' = lines /\ text' = text /\ visitor' = visitor /\ state' = state
    BY Zenon, <1>7 DEF Finished, vars, parser
  <2> QED
    BY Zenon, <2>1, ParserRests
<1> QED
  BY Zenon, <1>1, <1>2, <1>3, <1>4, <1>5, <1>6, <1>7 DEF Next

\* LineInv says what LinesAreThoseOfText says.
LEMMA LineInvGives ==
  ASSUME LineInv
  PROVE  LinesAreThoseOfText
<1>1. SUFFICES ASSUME LineLevel
               PROVE  IF state = "broke"
                      THEN \E n \in 0..Len(Reference(text, TRUE)) :
                             lines = SubSeq(Reference(text, TRUE), 1, n)
                      ELSE chunk = <<>> => lines = Reference(text, state = "ended")
  BY Zenon DEF LinesAreThoseOfText
<1>2. /\ MaxLineLength \in Nat /\ Overflow \in Behaviours /\ text \in Text /\ chunk \in Text
      /\ ~Has(chunk, Gap) /\ lines \in Lines
  BY Zenon DEF LineInv, ParserTypes
<1>3. CASE state = "ended"
  <2>1. lines = ReferenceIn(MaxLineLength, Overflow, text, TRUE) /\ "ended" # "broke"
    BY Zenon, <1>1, <1>3 DEF LineInv
  <2>2. Reference(text, TRUE) = ReferenceIn(MaxLineLength, Overflow, text, TRUE)
    BY Zenon, ReferenceIsThat
  <2>3. (state = "ended") = TRUE
    BY Zenon, <1>3
  <2> QED
    BY Zenon, <1>3, <2>1, <2>2, <2>3
<1>4. CASE state # "ended"
  <2>1. PICK P \in Text :
          text = P \o chunk /\ Parsing(MaxLineLength, Overflow, P, chunk, mode, line_buffer, lines)
    BY Zenon, <1>1, <1>4 DEF LineInv, Parsed
  <2>2. CASE state = "broke"
    <3>1. Leads(lines, ReferenceIn(MaxLineLength, Overflow, P \o chunk, TRUE))
      BY Zenon, <1>2, <2>1, GivenAreFirst
    <3>2. PICK R : R = Reference(text, TRUE)
      BY Zenon
    <3>3. R \in Lines /\ Leads(lines, R)
      BY Zenon, <1>2, <2>1, <3>1, <3>2, ReferenceIsThat, ReferenceTyped
    <3>4. \E n \in 0..Len(R) : lines = SubSeq(R, 1, n)
      BY Zenon, <1>2, <3>3, LeadsIsPrefix
    <3> QED
      BY Zenon, <2>2, <3>2, <3>4
  <2>3. CASE state # "broke" /\ chunk = <<>>
    <3>1. lines = ReferenceIn(MaxLineLength, Overflow, P, FALSE)
      BY Zenon, <1>2, <2>1, <2>3, GivenIsReference
    <3>2. text = P
      BY Zenon, <2>1, <2>3, ConcatEmptySeq DEF Text
    <3>3. lines = Reference(text, FALSE) /\ (state = "ended") = FALSE
      BY Zenon, <1>4, <3>1, <3>2, ReferenceIsThat
    <3> QED
      BY Zenon, <2>3, <3>3
  <2> QED
    BY Zenon, <2>2, <2>3
<1> QED
  BY Zenon, <1>3, <1>4

-----------------------------------------------------------------------------
(* wait_for_line *)

\* Some line of ls is as long as the predicate asks for.
Matching(ls, target) == \E i \in 1..Len(ls) : Len(ls[i]) = target

\* The inductive invariant: a match is noted with the line, and ends the wait.
WaitInv ==
  visitor.kind = "wait_for_line" =>
    /\ "matched" \in DOMAIN sink
    /\ sink.matched <=> Matching(lines, visitor.target)
    /\ state \in {"open", "broke", "ended", "failed", "timeout"}
    /\ state = "open" => ~sink.matched
    /\ state = "broke" => sink.matched

\* One more line.
LEMMA MatchingAppended ==
  ASSUME NEW ls \in Lines, NEW l, NEW target
  PROVE  Matching(Append(ls, l), target) <=> Matching(ls, target) \/ Len(l) = target
<1>0. PICK n \in Nat : n = Len(ls)
  BY Zenon, LenProperties DEF Lines
<1>1. PICK a : n = Len(ls) /\ a = Append(ls, l)
  BY Zenon, <1>0
<1>2. Len(a) = n + 1 /\ a[n + 1] = l /\ \A i \in 1..n : a[i] = ls[i]
  <2>1. /\ Len(Append(ls, l)) = Len(ls) + 1 /\ Append(ls, l)[Len(Append(ls, l))] = l
        /\ \A i \in 1..Len(ls) : Append(ls, l)[i] = ls[i]
    BY Appended
  <2> QED
    BY Zenon, <1>1, <2>1
<1>3. \A i : i \in 1..(n + 1) <=> i \in 1..n \/ i = n + 1
  BY <1>1
<1> QED
  BY Zenon, <1>1, <1>2, <1>3 DEF Matching

\* Nothing has matched yet.
LEMMA WaitInvInit ==
  ASSUME Init
  PROVE  WaitInv
<1>1. lines = <<>> /\ state = "open" /\ "matched" \in DOMAIN sink /\ sink.matched = FALSE
  BY DEF Init, ParserInit
<1>2. ~Matching(<<>>, visitor.target)
  BY DEF Matching
<1> QED
  BY Zenon, <1>1, <1>2 DEF WaitInv

\* WaitInv is inductive.
LEMMA WaitInvNext ==
  ASSUME LineInv, LineInv', WaitInv, [Next]_vars
  PROVE  WaitInv'
<1>1. /\ visitor' = visitor
      /\ \/ Quiet
         \/ VisitChunk
         \/ \E l \in Text, next \in {"Continue", "Break"} : Spoken(l, next)
  BY Zenon, VisitorSteps DEF LineInv, Typed
<1>2. SUFFICES ASSUME visitor.kind = "wait_for_line"
               PROVE  /\ "matched" \in DOMAIN sink'
                      /\ sink'.matched <=> Matching(lines', visitor.target)
                      /\ state' \in {"open", "broke", "ended", "failed", "timeout"}
                      /\ state' = "open" => ~sink'.matched
                      /\ state' = "broke" => sink'.matched
  BY Zenon, <1>1 DEF WaitInv
<1>3. /\ "matched" \in DOMAIN sink
      /\ sink.matched <=> Matching(lines, visitor.target)
      /\ state \in {"open", "broke", "ended", "failed", "timeout"}
      /\ state = "open" => ~sink.matched
      /\ state = "broke" => sink.matched
  BY Zenon, <1>2 DEF WaitInv
<1>4. CASE Quiet
  <2>1. lines' = lines /\ sink' = sink
    BY Zenon, <1>4 DEF Quiet
  <2>2. CASE state' = state
    BY Zenon, <1>3, <2>1, <2>2
  <2>3. CASE state' # state
    <3>1. state' \in {"ended", "failed", "timeout"}
      BY Zenon, <1>2, <1>4, <2>3 DEF Quiet
    <3> QED
      BY Zenon, <1>3, <2>1, <3>1
  <2> QED
    BY Zenon, <2>2, <2>3
<1>5. CASE VisitChunk
  BY Zenon, <1>2, <1>5 DEF VisitChunk, LineLevel
<1>6. ASSUME NEW l \in Text, NEW next \in {"Continue", "Break"}, Spoken(l, next)
      PROVE  /\ "matched" \in DOMAIN sink'
             /\ sink'.matched <=> Matching(lines', visitor.target)
             /\ state' \in {"open", "broke", "ended", "failed", "timeout"}
             /\ state' = "open" => ~sink'.matched
             /\ state' = "broke" => sink'.matched
  <2>1. /\ state = "open" /\ lines' = Append(lines, l) /\ OnLine(l, next)
        /\ state' \in {"open", "broke", "ended"}
        /\ state' # "ended" => (state' = "broke" <=> next = "Break")
    BY Zenon, <1>6 DEF Spoken
  <2>2. WaitForLine(l, next)
    BY <1>2, <2>1 DEF OnLine
  <2>3. sink' = [sink EXCEPT !.matched = sink.matched \/ Predicate(l)]
    BY Zenon, <2>2 DEF WaitForLine
  <2>4. "matched" \in DOMAIN sink' /\ (sink'.matched <=> sink.matched \/ Predicate(l))
    BY Zenon, <1>3, <2>3
  <2>5. next = "Break" <=> Predicate(l)
    BY Zenon, <2>2 DEF WaitForLine
  <2>6. lines \in Lines
    BY Zenon DEF LineInv, ParserTypes
  <2>7. sink'.matched <=> Matching(lines', visitor.target)
    BY Zenon, <1>3, <2>1, <2>4, <2>6, MatchingAppended DEF Predicate
  <2>8. sink'.matched <=> next = "Break"
    BY Zenon, <1>3, <2>1, <2>4, <2>5
  <2> QED
    BY Zenon, <2>1, <2>4, <2>7, <2>8
<1> QED
  BY Zenon, <1>1, <1>4, <1>5, <1>6

\* The first lines match only if all do.
LEMMA MatchingLeads ==
  ASSUME NEW a \in Lines, NEW b \in Lines, Leads(a, b), NEW target, Matching(a, target)
  PROVE  Matching(b, target)
<1>1. PICK c \in Lines : b = a \o c
  BY Zenon DEF Leads
<1>2. PICK i \in 1..Len(a) : Len(a[i]) = target
  BY Zenon DEF Matching
<1>3. a \in Seq(Text) /\ c \in Seq(Text)
  BY Zenon DEF Lines
<1>4. i \in 1..Len(b) /\ b[i] = a[i]
  BY <1>1, <1>2, <1>3
<1> QED
  BY Zenon, <1>2, <1>4 DEF Matching

\* WaitInv and LineInv say what WaitIsRight says.
LEMMA WaitInvGives ==
  ASSUME LineInv, WaitInv
  PROVE  WaitIsRight
<1>1. SUFFICES ASSUME visitor.kind = "wait_for_line"
               PROVE  /\ WaitForLineResult = "Matched" => Matching(Reference(text, TRUE), visitor.target)
                      /\ WaitForLineResult = "StreamClosed" =>
                           ~Matching(Reference(text, TRUE), visitor.target)
                      /\ WaitForLineResult = "pending" /\ chunk = <<>> =>
                           ~Matching(Reference(text, FALSE), visitor.target)
  BY Zenon DEF WaitIsRight, Matching, Predicate
<1>2. /\ sink.matched <=> Matching(lines, visitor.target)
      /\ state \in {"open", "broke", "ended", "failed", "timeout"}
      /\ state = "open" => ~sink.matched
      /\ state = "broke" => sink.matched
  BY Zenon, <1>1 DEF WaitInv
<1>3. LineLevel
  BY Zenon, <1>1 DEF LineLevel
<1>4. /\ MaxLineLength \in Nat /\ Overflow \in Behaviours /\ text \in Text /\ chunk \in Text
      /\ ~Has(chunk, Gap) /\ lines \in Lines
  BY Zenon DEF LineInv, ParserTypes
<1>5. CASE state = "open"
  <2>1. WaitForLineResult = "pending"
    BY <1>5 DEF WaitForLineResult
  <2>2. chunk = <<>> => lines = Reference(text, FALSE)
    <3>1. LinesAreThoseOfText
      BY Zenon, LineInvGives
    <3>2. (state = "ended") = FALSE /\ state # "broke"
      BY Zenon, <1>5
    <3> QED
      BY Zenon, <1>3, <3>1, <3>2 DEF LinesAreThoseOfText
  <2> QED
    BY Zenon, <1>2, <1>5, <2>1, <2>2
<1>6. CASE state = "broke"
  <2>1. WaitForLineResult = "Matched"
    BY <1>2, <1>6 DEF WaitForLineResult
  <2>2. Parsed
    BY Zenon, <1>3, <1>6 DEF LineInv
  <2>3. PICK P \in Text :
          text = P \o chunk /\ Parsing(MaxLineLength, Overflow, P, chunk, mode, line_buffer, lines)
    BY Zenon, <2>2 DEF Parsed
  <2>4. Leads(lines, ReferenceIn(MaxLineLength, Overflow, P \o chunk, TRUE))
    BY Zenon, <1>4, <2>3, GivenAreFirst
  <2>5. PICK R : R = Reference(text, TRUE)
    BY Zenon
  <2>6. R \in Lines /\ Leads(lines, R)
    BY Zenon, <1>4, <2>3, <2>4, <2>5, ReferenceIsThat, ReferenceTyped
  <2>7. Matching(R, visitor.target)
    BY Zenon, <1>2, <1>4, <1>6, <2>6, MatchingLeads
  <2> QED
    BY Zenon, <2>1, <2>5, <2>7
<1>7. CASE state = "ended"
  <2>1. WaitForLineResult = IF sink.matched THEN "Matched" ELSE "StreamClosed"
    BY <1>7 DEF WaitForLineResult
  <2>2. lines = Reference(text, TRUE)
    BY Zenon, <1>3, <1>7, ReferenceIsThat DEF LineInv
  <2> QED
    BY Zenon, <1>2, <2>1, <2>2
<1>8. CASE state \in {"failed", "timeout"}
  <2>1. WaitForLineResult \in {"Err", "Timeout"}
    BY <1>8 DEF WaitForLineResult
  <2> QED
    BY Zenon, <2>1
<1> QED
  BY Zenon, <1>2, <1>5, <1>6, <1>7, <1>8

-----------------------------------------------------------------------------
(* write_chunks and write_lines *)

Writes == visitor.kind \in {"write_chunks", "write_lines"}

\* What follows a line.
Delimiter(v) == IF v.kind = "write_lines" /\ v.mode = "AppendLf" THEN <<Newline>> ELSE <<>>

Delimited(ls, d) == [i \in 1..Len(ls) |-> ls[i] \o d]

WriterTypes ==
  /\ visitor \in Visitors
  /\ {"written", "failures", "error"} \subseteq DOMAIN sink
  /\ sink.written \in Text /\ sink.failures \in Nat

\* A call that started with w written was to write b, and its answer was next.
Call(w, b, next) ==
  /\ {"written", "failures", "error"} \subseteq DOMAIN sink'
  /\ sink'.written \in Text /\ sink'.failures \in Nat
  /\ sink'.failures = 0 => sink.failures = 0 /\ sink'.written = w \o b
  /\ next = "Break" => sink'.failures # 0
  /\ next # "Break" => sink'.error = sink.error

\* write_all writes everything or fails.
LEMMA WriteAllTyped ==
  ASSUME NEW w \in Text, NEW b \in Text, NEW r \in WriteAll(w, b)
  PROVE  r.ok \in BOOLEAN /\ r.written \in Text /\ (r.ok => r.written = w \o b)
<1>1. CASE r = [ok |-> TRUE, written |-> w \o b]
  <2>1. r.ok = TRUE /\ r.written = w \o b
    BY <1>1
  <2> QED
    BY Zenon, <2>1, TextConcat
<1>2. CASE \E n \in 0..(Len(b) - 1) : r = [ok |-> FALSE, written |-> w \o SubSeq(b, 1, n)]
  <2>1. PICK n \in 0..(Len(b) - 1) : r = [ok |-> FALSE, written |-> w \o SubSeq(b, 1, n)]
    BY Zenon, <1>2
  <2>2. r.ok = FALSE /\ r.written = w \o SubSeq(b, 1, n)
    BY <2>1
  <2>3. SubSeq(b, 1, n) \in Text
    BY DEF Text
  <2> QED
    BY Zenon, <2>2, <2>3, TextConcat
<1> QED
  BY Zenon, <1>1, <1>2 DEF WriteAll

\* The handler stops the visitor or lets it continue.
LEMMA HandlerAnswers ==
  ASSUME Writes, visitor \in Visitors, NEW outcome \in HandlerActions
  PROVE  outcome \in {"Stop", "Continue"}
<1>1. visitor.options \in {"fail_fast", "log_and_continue", "with_error_handler"}
  BY Zenon, VisitorsAssumption DEF Writes
<1> QED
  BY <1>1 DEF HandlerActions

\* The last write of a call.
LEMMA WroteLast ==
  ASSUME Writes, WriterTypes, NEW w \in Text, NEW b \in Text, NEW r \in WriteAll(w, b),
         NEW outcome \in HandleWriteResult(r), NEW operation, Wrote(r, outcome, operation)
  PROVE  Call(w, b, StopOn(outcome))
<1>1. /\ visitor \in Visitors /\ {"written", "failures", "error"} \subseteq DOMAIN sink
      /\ sink.written \in Text /\ sink.failures \in Nat
  BY Zenon DEF WriterTypes
<1>2. r.ok \in BOOLEAN /\ r.written \in Text /\ (r.ok => r.written = w \o b)
  BY Zenon, WriteAllTyped
<1>3. /\ DOMAIN sink' = DOMAIN sink /\ sink'.written = r.written
      /\ sink'.failures = IF r.ok THEN sink.failures ELSE sink.failures + 1
      /\ sink'.error = IF outcome = "Stop" THEN operation ELSE sink.error
  BY <1>1 DEF Wrote
<1>4. outcome = "Stop" => ~r.ok
  BY Zenon DEF HandleWriteResult
<1>5. sink.failures + 1 \in Nat /\ sink.failures + 1 # 0
  BY <1>1
<1>6. StopOn(outcome) = "Break" <=> outcome = "Stop"
  BY Zenon DEF StopOn
<1> QED
  BY Zenon, <1>1, <1>2, <1>3, <1>4, <1>5, <1>6 DEF Call

\* write_chunk.
LEMMA ChunkCall ==
  ASSUME Writes, WriterTypes, NEW c \in Text, NEW next, WriteChunk(c, next)
  PROVE  Call(sink.written, c, next)
<1>1. sink.written \in Text
  BY Zenon DEF WriterTypes
<1>2. PICK r \in WriteAll(sink.written, c) : \E outcome \in HandleWriteResult(r) :
        next = StopOn(outcome) /\ Wrote(r, outcome, "Chunk")
  BY Zenon DEF WriteChunk
<1> QED
  BY Zenon, <1>1, <1>2, WroteLast

\* write_line, with its delimiter.
LEMMA LineCall ==
  ASSUME Writes, WriterTypes, visitor.kind = "write_lines", NEW l \in Text, NEW next,
         WriteLine(l, next)
  PROVE  Call(sink.written, l \o Delimiter(visitor), next)
<1>1. sink.written \in Text /\ visitor \in Visitors
  BY Zenon DEF WriterTypes
<1>2. PICK r \in WriteAll(sink.written, l) :
        \E outcome \in HandleWriteResult(r) :
          IF outcome # "written" \/ visitor.mode = "AsIs"
          THEN next = StopOn(outcome) /\ Wrote(r, outcome, "Line")
          ELSE \E d \in WriteAll(r.written, <<Newline>>) : \E answer \in HandleWriteResult(d) :
                 next = StopOn(answer) /\ Wrote(d, answer, "LineDelimiter")
  BY Zenon DEF WriteLine
<1>3. PICK outcome \in HandleWriteResult(r) :
          IF outcome # "written" \/ visitor.mode = "AsIs"
          THEN next = StopOn(outcome) /\ Wrote(r, outcome, "Line")
          ELSE \E d \in WriteAll(r.written, <<Newline>>) : \E answer \in HandleWriteResult(d) :
                 next = StopOn(answer) /\ Wrote(d, answer, "LineDelimiter")
  BY Zenon, <1>2
<1>4. r.ok \in BOOLEAN /\ r.written \in Text /\ (r.ok => r.written = sink.written \o l)
  BY Zenon, <1>1, WriteAllTyped
<1>5. r.ok <=> outcome = "written"
  <2>1. ~r.ok => outcome \in {"Stop", "Continue"}
    BY Zenon, <1>1, <1>3, HandlerAnswers DEF HandleWriteResult
  <2> QED
    BY Zenon, <1>3, <2>1 DEF HandleWriteResult
<1>6. visitor.mode \in {"AsIs", "AppendLf"}
  BY Zenon, <1>1, VisitorsAssumption
<1>7. Newline \in Int
  BY DEF Newline
<1>8. <<Newline>> \in Text
  BY Zenon, <1>7, OneByte
<1>9. CASE outcome # "written" \/ visitor.mode = "AsIs"
  <2>1. Call(sink.written, l, next)
    BY Zenon, <1>1, <1>3, <1>9, WroteLast
  <2>2. CASE visitor.mode = "AsIs"
    <3>1. l \o <<>> = l
      BY Zenon, ConcatEmptySeq DEF Text
    <3>2. Delimiter(visitor) = <<>>
      BY Zenon, <2>2 DEF Delimiter
    <3> QED
      BY Zenon, <2>1, <3>1, <3>2
  <2>3. CASE outcome # "written"
    <3>1. Wrote(r, outcome, "Line") /\ ~r.ok
      BY Zenon, <1>3, <1>5, <2>3
    <3>2. sink'.failures = sink.failures + 1
      BY <3>1 DEF Wrote, WriterTypes
    <3>3. sink'.failures # 0
      BY <3>2 DEF WriterTypes
    <3> QED
      BY Zenon, <2>1, <3>3 DEF Call
  <2> QED
    BY Zenon, <1>9, <2>2, <2>3
<1>10. CASE outcome = "written" /\ visitor.mode = "AppendLf"
  <2>1. PICK w \in Text, nl \in Text : w = r.written /\ nl = <<Newline>>
    BY Zenon, <1>4, <1>8
  <2>2. "AppendLf" # "AsIs"
    BY Zenon
  <2>3. PICK d \in WriteAll(w, nl) : \E answer \in HandleWriteResult(d) :
          next = StopOn(answer) /\ Wrote(d, answer, "LineDelimiter")
    BY Zenon, <1>3, <1>10, <2>1, <2>2
  <2>4. Call(w, nl, next)
    BY Zenon, <2>3, WroteLast
  <2>5. w = sink.written \o l
    BY Zenon, <1>4, <1>5, <1>10, <2>1
  <2>6. Regroups(sink.written, l, nl)
    BY Zenon, <1>1, TextRegroup
  <2>7. Delimiter(visitor) = nl
    BY Zenon, <1>10, <2>1 DEF Delimiter
  <2>8. w \o nl = sink.written \o (l \o Delimiter(visitor))
    BY Zenon, <2>5, <2>6, <2>7 DEF Regroups
  <2> QED
    BY Zenon, <2>4, <2>8 DEF Call
<1> QED
  BY Zenon, <1>6, <1>9, <1>10

\* A line more.
LEMMA DelimitedAppended ==
  ASSUME NEW ls \in Lines, NEW l \in Text, NEW d \in Text
  PROVE  Flatten(Delimited(Append(ls, l), d)) = Flatten(Delimited(ls, d)) \o (l \o d)
<1>1. PICK n \in Nat : n = Len(ls)
  BY Zenon, LenProperties DEF Lines
<1>2. ls \in Seq(Text)
  BY Zenon DEF Lines
<1>3. /\ Append(ls, l) \in Seq(Text) /\ Len(Append(ls, l)) = Len(ls) + 1
      /\ Append(ls, l)[Len(ls) + 1] = l /\ \A i \in 1..Len(ls) : Append(ls, l)[i] = ls[i]
  BY <1>2, AppendProperties
<1>4. PICK a \in Seq(Text) : a = Append(ls, l)
  BY Zenon, <1>3
<1>5. Len(a) = n + 1 /\ a[n + 1] = l /\ \A i \in 1..n : a[i] = ls[i]
  BY Zenon, <1>1, <1>3, <1>4
<1>6. PICK f, g : f = Delimited(ls, d) /\ g = Delimited(a, d)
  BY Zenon
<1>7. f \in Seq(Seq(Int)) /\ Len(f) = n
  <2>1. DOMAIN f = 1..n /\ f = [i \in 1..n |-> f[i]] /\ \A i \in 1..n : f[i] \in Text
    BY Zenon, <1>1, <1>2, <1>6, ElementOfSeq, TextConcat DEF Delimited
  <2>2. f \in Seq(Text) /\ Len(f) = n
    BY Zenon, <2>1, FunctionIsSeq
  <2> QED
    BY Zenon, <2>2 DEF Text
<1>8. g \in Seq(Seq(Int)) /\ Len(g) = n + 1
  <2>1. n + 1 \in Nat
    OBVIOUS
  <2>2. DOMAIN g = 1..(n + 1) /\ g = [i \in 1..(n + 1) |-> g[i]] /\ \A i \in 1..(n + 1) : g[i] \in Text
    BY Zenon, <1>4, <1>5, <1>6, ElementOfSeq, TextConcat DEF Delimited
  <2>3. g \in Seq(Text) /\ Len(g) = n + 1
    BY Zenon, <2>1, <2>2, FunctionIsSeq
  <2> QED
    BY Zenon, <2>3 DEF Text
<1>9. /\ n + 1 \in 1..(n + 1) /\ \A i \in 1..n : i \in 1..(n + 1)
      /\ Len(f) < Len(g) /\ \A i \in (Len(f) + 1)..(Len(g) - 1) : g[i] = <<>>
  BY <1>7, <1>8
<1>10. g[n + 1] = l \o d /\ \A i \in 1..Len(f) : g[i] = f[i]
  BY Zenon, <1>1, <1>5, <1>6, <1>7, <1>9 DEF Delimited
<1>11. Flatten(g) = Flatten(f) \o g[Len(g)]
  BY Zenon, <1>7, <1>8, <1>9, <1>10, FlattenLast
<1> QED
  BY Zenon, <1>4, <1>6, <1>8, <1>10, <1>11

\* The inductive invariant: without a failure everything handed over is written, an error
\* that stops the visitor has stopped it, and only a failure does.
WriteInv ==
  Writes =>
    /\ WriterTypes
    /\ state = "open" => sink.error = "none"
    /\ state = "broke" => sink.failures # 0
    /\ sink.error # "none" => state \in {"broke", "ended"}
    /\ visitor.kind = "write_lines" /\ sink.failures = 0 =>
         sink.written = Flatten(Delimited(lines, Delimiter(visitor)))
    /\ visitor.kind = "write_chunks" /\ sink.failures = 0 =>
         \E P \in Text : text = P \o chunk /\ sink.written = Payload(P)

\* Nothing has been written yet.
LEMMA WriteInvInit ==
  ASSUME Init
  PROVE  WriteInv
<1>1. /\ lines = <<>> /\ state = "open" /\ text = <<>> /\ chunk = <<>> /\ visitor \in Visitors
      /\ {"written", "failures", "error"} \subseteq DOMAIN sink
      /\ sink.written = <<>> /\ sink.failures = 0 /\ sink.error = "none"
  BY DEF Init, ParserInit
<1>2. <<>> \in Text
  BY Zenon, EmptySeq DEF Text
<1>3. <<>> \o <<>> = <<>> /\ 0 \in Nat /\ \A d : Delimited(<<>>, d) = <<>>
  BY DEF Delimited
<1>4. Payload(<<>>) = <<>>
  BY Zenon, OnlyEmpty DEF Payload
<1> QED
  BY Zenon, <1>1, <1>2, <1>3, <1>4, FlattenEmpty DEF WriteInv, WriterTypes

\* Without a failure the writer has the bytes that were delivered.
LEMMA ChunksWritten ==
  ASSUME LineInv, Writes, WriterTypes, visitor.kind = "write_chunks", [Next]_vars,
         sink.failures = 0 => \E P \in Text : text = P \o chunk /\ sink.written = Payload(P)
  PROVE  sink'.failures = 0 =>
           \E P \in Text : text' = P \o chunk' /\ sink'.written = Payload(P)
<1>1. SUFFICES ASSUME sink'.failures = 0
               PROVE  \E P \in Text : text' = P \o chunk' /\ sink'.written = Payload(P)
  BY Zenon
<1>2. text \in Text /\ chunk \in Text /\ ~Has(chunk, Gap)
  BY Zenon DEF LineInv, ParserTypes
<1>3. ~LineLevel
  BY Zenon DEF LineLevel
<1>4. CASE sink' = sink /\ chunk' = chunk /\ text' = text
  BY Zenon, <1>1, <1>4
<1>5. CASE sink' = sink /\ chunk = <<>> /\ text' = text \o chunk'
  <2>1. PICK P \in Text : text = P \o <<>> /\ sink'.written = Payload(P)
    BY Zenon, <1>1, <1>5
  <2>2. text = P
    BY Zenon, <2>1, ConcatEmptySeq DEF Text
  <2> QED
    BY Zenon, <1>5, <2>1, <2>2
<1>6. CASE sink' = sink /\ chunk = <<>> /\ chunk' = <<>> /\ text' = Append(text, Gap)
  <2>1. PICK P \in Text : text = P \o <<>> /\ sink'.written = Payload(P)
    BY Zenon, <1>1, <1>6
  <2>2. text = P
    BY Zenon, <2>1, ConcatEmptySeq DEF Text
  <2>3. text' \in Text
    BY Zenon, <1>2, <1>6, GapTyped
  <2>4. text' = text' \o chunk'
    BY Zenon, <1>6, <2>3, ConcatEmptySeq DEF Text
  <2>5. Gap \in Int
    BY DEF Gap
  <2>6. Payload(Append(text, Gap)) = Payload(text)
    BY Zenon, <1>2, <2>5, PayloadByte
  <2> QED
    BY Zenon, <1>6, <2>1, <2>2, <2>3, <2>4, <2>6
<1>7. CASE VisitChunk
  <2>1. PICK next : WriteChunk(chunk, next) /\ chunk' = <<>> /\ text' = text
    BY <1>7 DEF VisitChunk
  <2>2. Call(sink.written, chunk, next)
    BY Zenon, <1>2, <2>1, ChunkCall
  <2>3. sink.failures = 0 /\ sink'.written = sink.written \o chunk
    BY Zenon, <1>1, <2>2 DEF Call
  <2>4. PICK P \in Text : text = P \o chunk /\ sink.written = Payload(P)
    BY Zenon, <2>3
  <2>5. Payload(P \o chunk) = Payload(P) \o chunk
    BY Zenon, <1>2, PayloadChunk
  <2>6. text' = text \o chunk'
    BY Zenon, <1>2, <2>1, ConcatEmptySeq DEF Text
  <2> QED
    BY Zenon, <1>2, <2>3, <2>4, <2>5, <2>6
<1> QED
  BY Zenon, <1>3, <1>4, <1>5, <1>6, <1>7, ChunkSteps DEF LineInv, Typed

\* Without a failure the writer has the lines that came out, each with its delimiter.
LEMMA LinesWritten ==
  ASSUME LineInv, LineInv', Writes, WriterTypes, visitor.kind = "write_lines", [Next]_vars,
         sink.failures = 0 => sink.written = Flatten(Delimited(lines, Delimiter(visitor)))
  PROVE  sink'.failures = 0 => sink'.written = Flatten(Delimited(lines', Delimiter(visitor)))
<1>1. SUFFICES ASSUME sink'.failures = 0
               PROVE  sink'.written = Flatten(Delimited(lines', Delimiter(visitor)))
  BY Zenon
<1>2. lines \in Lines
  BY Zenon DEF LineInv, ParserTypes
<1>3. CASE Quiet
  BY Zenon, <1>1, <1>3 DEF Quiet
<1>4. CASE VisitChunk
  BY Zenon, <1>4 DEF VisitChunk, LineLevel
<1>5. ASSUME NEW l \in Text, NEW next, Spoken(l, next)
      PROVE  sink'.written = Flatten(Delimited(lines', Delimiter(visitor)))
  <2>1. lines' = Append(lines, l) /\ OnLine(l, next)
    BY Zenon, <1>5 DEF Spoken
  <2>2. WriteLine(l, next)
    BY <2>1 DEF OnLine
  <2>3. PICK d \in Text : d = Delimiter(visitor)
    <3>1. Newline \in Int
      BY DEF Newline
    <3> QED
      BY Zenon, <3>1, OneByte, EmptySeq DEF Delimiter, Text
  <2>4. Call(sink.written, l \o d, next)
    BY Zenon, <2>2, <2>3, LineCall
  <2>5. sink.failures = 0 /\ sink'.written = sink.written \o (l \o d)
    BY Zenon, <1>1, <2>4 DEF Call
  <2>6. Flatten(Delimited(Append(lines, l), d)) = Flatten(Delimited(lines, d)) \o (l \o d)
    BY Zenon, <1>2, DelimitedAppended
  <2> QED
    BY Zenon, <2>1, <2>3, <2>5, <2>6
<1> QED
  BY Zenon, <1>3, <1>4, <1>5, VisitorSteps DEF LineInv, Typed

\* WriteInv is inductive.
LEMMA WriteInvNext ==
  ASSUME LineInv, LineInv', WriteInv, [Next]_vars
  PROVE  WriteInv'
<1>1. /\ visitor' = visitor
      /\ \/ Quiet
         \/ VisitChunk
         \/ \E l \in Text, next \in {"Continue", "Break"} : Spoken(l, next)
  BY Zenon, VisitorSteps DEF LineInv, Typed
<1>2. CASE ~Writes
  BY Zenon, <1>1, <1>2 DEF WriteInv, Writes
<1>3. CASE Writes
  <2>1. /\ WriterTypes
        /\ state = "open" => sink.error = "none"
        /\ state = "broke" => sink.failures # 0
        /\ sink.error # "none" => state \in {"broke", "ended"}
    BY Zenon, <1>3 DEF WriteInv
  <2>2. /\ visitor.kind = "write_lines" /\ sink'.failures = 0 =>
             sink'.written = Flatten(Delimited(lines', Delimiter(visitor)))
        /\ visitor.kind = "write_chunks" /\ sink'.failures = 0 =>
             \E P \in Text : text' = P \o chunk' /\ sink'.written = Payload(P)
    <3>1. CASE visitor.kind = "write_lines"
      <4>1. sink.failures = 0 => sink.written = Flatten(Delimited(lines, Delimiter(visitor)))
        BY Zenon, <1>3, <3>1 DEF WriteInv
      <4>2. sink'.failures = 0 => sink'.written = Flatten(Delimited(lines', Delimiter(visitor)))
        BY Zenon, <1>3, <2>1, <3>1, <4>1, LinesWritten
      <4> QED
        BY Zenon, <3>1, <4>2
    <3>2. CASE visitor.kind = "write_chunks"
      <4>1. sink.failures = 0 => \E P \in Text : text = P \o chunk /\ sink.written = Payload(P)
        BY Zenon, <1>3, <3>2 DEF WriteInv
      <4>2. sink'.failures = 0 =>
              \E P \in Text : text' = P \o chunk' /\ sink'.written = Payload(P)
        BY Zenon, <1>3, <2>1, <3>2, <4>1, ChunksWritten
      <4> QED
        BY Zenon, <3>2, <4>2
    <3> QED
      BY Zenon, <3>1, <3>2
  <2>3. /\ WriterTypes'
        /\ state' = "open" => sink'.error = "none"
        /\ state' = "broke" => sink'.failures # 0
        /\ sink'.error # "none" => state' \in {"broke", "ended"}
    <3>1. CASE Quiet
      <4>1. WriterTypes'
        BY Zenon, <1>1, <2>1, <3>1 DEF Quiet, WriterTypes
      <4>2. sink' = sink
        BY Zenon, <3>1 DEF Quiet
      <4>3. CASE state' = state
        BY Zenon, <2>1, <4>1, <4>2, <4>3
      <4>4. CASE state' # state
        <5>1. state = "open" /\ state' \in {"ended", "failed", "timeout", "cancelled"}
          BY Zenon, <3>1, <4>4 DEF Quiet
        <5> QED
          BY Zenon, <2>1, <4>1, <4>2, <5>1
      <4> QED
        BY Zenon, <4>3, <4>4
    <3>2. ASSUME ~Quiet
          PROVE  \E b, next :
                   /\ Call(sink.written, b, next)
                   /\ state = "open" /\ state' \in {"open", "broke", "ended"}
                   /\ state' # "ended" => (state' = "broke" <=> next = "Break")
      <4>1. CASE VisitChunk
        <5>1. visitor.kind = "write_chunks"
          BY Zenon, <1>3, <4>1 DEF VisitChunk, LineLevel, Writes
        <5>2. PICK next : /\ WriteChunk(chunk, next) /\ state = "open"
                          /\ state' = IF next = "Break" THEN "broke" ELSE "open"
          BY SMTT(20), <4>1, <5>1 DEF VisitChunk
        <5>3. chunk \in Text
          BY Zenon DEF LineInv, ParserTypes
        <5>4. Call(sink.written, chunk, next)
          BY Zenon, <1>3, <2>1, <5>2, <5>3, ChunkCall
        <5> QED
          BY Zenon, <5>2, <5>4
      <4>2. ASSUME NEW l \in Text, NEW next, Spoken(l, next)
            PROVE  \E b, nxt :
                     /\ Call(sink.written, b, nxt)
                     /\ state = "open" /\ state' \in {"open", "broke", "ended"}
                     /\ state' # "ended" => (state' = "broke" <=> nxt = "Break")
        <5>1. /\ LineLevel /\ OnLine(l, next)
              /\ state = "open" /\ state' \in {"open", "broke", "ended"}
              /\ state' # "ended" => (state' = "broke" <=> next = "Break")
          BY Zenon, <4>2 DEF Spoken
        <5>2. visitor.kind = "write_lines"
          BY Zenon, <1>3, <5>1 DEF LineLevel, Writes
        <5>3. WriteLine(l, next)
          BY SMTT(20), <5>1, <5>2 DEF OnLine
        <5>4. Call(sink.written, l \o Delimiter(visitor), next)
          BY Zenon, <1>3, <2>1, <5>2, <5>3, LineCall
        <5> QED
          BY Zenon, <5>1, <5>4
      <4> QED
        BY Zenon, <1>1, <3>2, <4>1, <4>2
    <3>3. CASE ~Quiet
      <4>1. PICK b, next :
                   /\ Call(sink.written, b, next)
                   /\ state = "open" /\ state' \in {"open", "broke", "ended"}
                   /\ state' # "ended" => (state' = "broke" <=> next = "Break")
        BY Zenon, <3>2, <3>3
      <4>2. /\ {"written", "failures", "error"} \subseteq DOMAIN sink'
            /\ sink'.written \in Text /\ sink'.failures \in Nat
            /\ next = "Break" => sink'.failures # 0
            /\ next # "Break" => sink'.error = sink.error
        BY Zenon, <4>1 DEF Call
      <4>3. WriterTypes'
        BY Zenon, <1>1, <2>1, <4>2 DEF WriterTypes
      <4> QED
        BY Zenon, <2>1, <4>1, <4>2, <4>3
    <3> QED
      BY Zenon, <3>1, <3>3
  <2> QED
    BY Zenon, <1>1, <2>2, <2>3 DEF WriteInv, Writes
<1> QED
  BY Zenon, <1>2, <1>3

\* WriteInv and LineInv say what WriterGetsText says.
LEMMA WriteInvGives ==
  ASSUME LineInv, WriteInv
  PROVE  WriterGetsText
<1>1. PICK forwarded : forwarded = Reference(text, state = "ended")
  BY Zenon
<1>2. SUFFICES ASSUME Writes
               PROVE  /\ sink.failures = 0 /\ chunk = <<>> =>
                           sink.written =
                             IF visitor.kind = "write_chunks" THEN Payload(text)
                             ELSE Flatten(Delimited(forwarded, Delimiter(visitor)))
                      /\ sink.error # "none" => state \in {"broke", "ended"}
  BY Zenon, <1>1 DEF WriterGetsText, Delivered, Payload, Delimited, Delimiter, Writes
<1>3. /\ state = "broke" => sink.failures # 0
      /\ sink.error # "none" => state \in {"broke", "ended"}
      /\ visitor.kind = "write_lines" /\ sink.failures = 0 =>
           sink.written = Flatten(Delimited(lines, Delimiter(visitor)))
      /\ visitor.kind = "write_chunks" /\ sink.failures = 0 =>
           \E P \in Text : text = P \o chunk /\ sink.written = Payload(P)
  BY Zenon, <1>2 DEF WriteInv
<1>4. ASSUME sink.failures = 0, chunk = <<>>, visitor.kind = "write_chunks"
      PROVE  sink.written = Payload(text)
  <2>1. PICK P \in Text : text = P \o <<>> /\ sink.written = Payload(P)
    BY Zenon, <1>3, <1>4
  <2>2. text = P
    BY Zenon, <2>1, ConcatEmptySeq DEF Text
  <2> QED
    BY Zenon, <2>1, <2>2
<1>5. ASSUME sink.failures = 0, chunk = <<>>, visitor.kind = "write_lines"
      PROVE  sink.written = Flatten(Delimited(forwarded, Delimiter(visitor)))
  <2>1. LineLevel /\ state # "broke"
    BY Zenon, <1>3, <1>5 DEF LineLevel
  <2>2. LinesAreThoseOfText
    BY Zenon, LineInvGives
  <2>3. lines = forwarded
    BY Zenon, <1>1, <1>5, <2>1, <2>2 DEF LinesAreThoseOfText
  <2> QED
    BY Zenon, <1>3, <1>5, <2>3
<1> QED
  BY Zenon, <1>2, <1>3, <1>4, <1>5 DEF Writes

-----------------------------------------------------------------------------
(* The theorems *)

\* The inductive invariant: the parser's, and one for each kind of visitor.
VisitorsInv == LineInv /\ WaitInv /\ WriteInv

\* VisitorsInv holds of the parser, its driver and its visitor: Init establishes it,
\* and every turn of next_line, every event and every end of the driver preserves it.
THEOREM VisitorsInvariant == Spec => []VisitorsInv
<1>1. Init => VisitorsInv
  <2> SUFFICES ASSUME Init PROVE VisitorsInv
    BY Zenon
  <2> QED
    BY Zenon, LineInvInit, WaitInvInit, WriteInvInit DEF VisitorsInv
<1>2. VisitorsInv /\ [Next]_vars => VisitorsInv'
  <2> SUFFICES ASSUME VisitorsInv, [Next]_vars PROVE VisitorsInv'
    BY Zenon
  <2>1. LineInv /\ WaitInv /\ WriteInv
    BY Zenon DEF VisitorsInv
  <2>2. LineInv'
    BY Zenon, <2>1, LineInvNext
  <2>3. WaitInv' /\ WriteInv'
    BY Zenon, <2>1, <2>2, WaitInvNext, WriteInvNext
  <2> QED
    BY Zenon, <2>2, <2>3 DEF VisitorsInv
<1> QED
  BY <1>1, <1>2, PTL DEF Spec

\* Wherever the chunks are cut, and for every maximal line length, both overflow
\* behaviours and any gaps, ParseLines gives its visitor exactly the lines of the text.
THEOREM ParsesText == Spec => []LinesAreThoseOfText
<1>1. VisitorsInv => LinesAreThoseOfText
  BY Zenon, LineInvGives DEF VisitorsInv
<1> QED
  BY <1>1, VisitorsInvariant, PTL

\* A writer that takes everything has the text, byte for byte or line for line with its
\* delimiters, and after an error that stops the visitor nothing more is written.
THEOREM WritesText == Spec => []WriterGetsText
<1>1. VisitorsInv => WriterGetsText
  BY Zenon, WriteInvGives DEF VisitorsInv
<1> QED
  BY <1>1, VisitorsInvariant, PTL

\* wait_for_line says Matched only of a text with such a line, StreamClosed only of one
\* without, and waits only as long as there is none.
THEOREM WaitsRightly == Spec => []WaitIsRight
<1>1. VisitorsInv => WaitIsRight
  BY Zenon, WaitInvGives DEF VisitorsInv
<1> QED
  BY <1>1, VisitorsInvariant, PTL
=============================================================================
