---------------------------- MODULE VisitorsFacts ----------------------------
(***************************************************************************)
(* What the proofs about the line parser and those about its visitors both *)
(* rest on: facts about sequences, the reference for every text, and what  *)
(* a step of the model can do to a visitor.                                *)
(***************************************************************************)
EXTENDS Visitors, SequenceTheorems, WellFoundedInduction, TLAPS

-----------------------------------------------------------------------------
(* Induction and remainders *)

\* A set of naturals has a least element: induction, for sets.
LEMMA LeastNatural ==
  ASSUME NEW T \in SUBSET Nat, T # {}
  PROVE  \E x \in T : \A y \in T : x <= y
<1>1. \E x \in T : \A y \in T : ~(<<y, x>> \in OpToRel(<, Nat))
  BY Zenon, NatLessThanWellFounded, WFMin
<1>2. \A x, y \in Nat : x < y => <<x, y>> \in OpToRel(<, Nat)
  BY Zenon DEF OpToRel
<1>3. \A x, y \in Nat : ~(y < x) => x <= y
  OBVIOUS
<1> QED
  BY Zenon, <1>1, <1>2, <1>3

\* What is so up to 0, and at each step from one number to the next, is so up to m.
LEMMA Climb ==
  ASSUME NEW m \in Nat, NEW G \in SUBSET (0..m), 0 \in G,
         \A n \in 1..m : n - 1 \in G => n \in G
  PROVE  \A n \in 0..m : n \in G
<1> DEFINE T == (0..m) \ G
<1>1. ASSUME T # {} PROVE FALSE
  <2>1. T \in SUBSET Nat
    OBVIOUS
  <2>2. PICK x \in T : \A y \in T : x <= y
    BY Zenon, <1>1, <2>1, LeastNatural
  <2>3. x # 0 /\ x \in 0..m
    BY Zenon, <2>2
  <2>4. x \in 1..m /\ x - 1 \in 0..m /\ ~(x <= x - 1)
    BY <2>3
  <2> QED
    BY Zenon, <2>2, <2>4
<1> QED
  BY Zenon, <1>1

\* Division leaves a remainder.
LEMMA Division ==
  ASSUME NEW M \in Nat \ {0}, NEW a \in Nat
  PROVE  \E r \in 0..(M - 1), q \in Int : r = a % M /\ a = M * q + r
<1>1. a % M \in 0..(M - 1) /\ a \div M \in Int
  OBVIOUS
<1>2. a % M = a - M * (a \div M)
  <2>1. M \in Int /\ a \in Int /\ M > 0
    OBVIOUS
  <2>2. \A m, b \in Int : m > 0 => b % m = b - m * (b \div m)
    OBVIOUS
  <2> QED
    BY Zenon, <2>1, <2>2
<1>3. PICK r \in 0..(M - 1), q \in Int : r = a % M /\ q = a \div M
  BY Zenon, <1>1
<1>4. PICK z : z = M * q
  BY Zenon
<1>5. z \in Int
  BY <1>4
<1>6. r = a - z
  BY Zenon, <1>2, <1>3, <1>4
<1>7. a = z + r
  BY <1>5, <1>6
<1> QED
  BY Zenon, <1>3, <1>4, <1>7

\* There is one only.
LEMMA Remainder ==
  ASSUME NEW M \in Nat \ {0}, NEW q \in Int, NEW r \in 0..(M - 1)
  PROVE  (M * q + r) % M = r
  OBVIOUS

\* A remainder that stays below M grows with the number.
LEMMA RemainderGrows ==
  ASSUME NEW M \in Nat \ {0}, NEW a \in Nat, NEW k \in Nat, (a % M) + k < M
  PROVE  (a + k) % M = (a % M) + k
<1>1. PICK r \in 0..(M - 1), q \in Int : r = a % M /\ a = M * q + r
  BY Zenon, Division
<1>2. r + k < M
  BY Zenon, <1>1
<1>3. r + k \in 0..(M - 1)
  BY <1>2
<1>4. a + k = M * q + (r + k)
  <2>1. PICK z : z = M * q
    BY Zenon
  <2>2. z \in Int
    BY <2>1
  <2>3. a = z + r
    BY Zenon, <1>1, <2>1
  <2>4. a + k = z + (r + k)
    BY <2>2, <2>3
  <2> QED
    BY Zenon, <2>1, <2>4
<1> QED
  BY Zenon, <1>1, <1>3, <1>4, Remainder

\* One that reaches M starts over.
LEMMA RemainderStartsOver ==
  ASSUME NEW M \in Nat \ {0}, NEW a \in Nat, NEW k \in Nat, (a % M) + k = M
  PROVE  (a + k) % M = 0
<1>1. PICK r \in 0..(M - 1), q \in Int : r = a % M /\ a = M * q + r
  BY Zenon, Division
<1>2. r + k = M
  BY Zenon, <1>1
<1>3. 0 \in 0..(M - 1) /\ q + 1 \in Int
  OBVIOUS
<1>4. a + k = M * (q + 1) + 0
  <2>1. PICK z : z = M * q
    BY Zenon
  <2>2. z \in Int /\ M * (q + 1) = z + M
    BY <2>1
  <2>3. a = z + r
    BY Zenon, <1>1, <2>1
  <2>4. a + k = (z + M) + 0
    BY <1>2, <2>2, <2>3
  <2> QED
    BY Zenon, <2>2, <2>4
<1> QED
  BY Zenon, <1>3, <1>4, Remainder

-----------------------------------------------------------------------------
(* Sequences *)

\* A function on 1..n is a sequence.
LEMMA FunctionIsSeq ==
  ASSUME NEW S, NEW n \in Nat, NEW f, DOMAIN f = 1..n, f = [i \in 1..n |-> f[i]],
         \A i \in 1..n : f[i] \in S
  PROVE  f \in Seq(S) /\ Len(f) = n
<1>1. f \in [1..n -> S]
  BY Zenon
<1>2. f \in Seq(S)
  BY Zenon, <1>1, SeqDef
<1> QED
  BY <1>2

\* The stages that Flatten runs through.
IsFlat(flat, ss, m) == flat = [n \in 0..m |-> IF n = 0 THEN <<>> ELSE flat[n - 1] \o ss[n]]

\* Its recursion has a result.
LEMMA FlatExists ==
  ASSUME NEW ss, NEW m \in Nat
  PROVE  \E flat : IsFlat(flat, ss, m)
<1> DEFINE G == {n \in 0..m : \E flat : IsFlat(flat, ss, n)}
<1>1. 0 \in G
  <2>1. IsFlat([n \in 0..0 |-> <<>>], ss, 0)
    BY DEF IsFlat
  <2> QED
    BY <2>1
<1>2. ASSUME NEW x \in 1..m, x - 1 \in G PROVE x \in G
  <2>1. PICK flat : IsFlat(flat, ss, x - 1)
    BY Zenon, <1>2
  <2> DEFINE g == [n \in 0..x |-> IF n = x THEN flat[x - 1] \o ss[x] ELSE flat[n]]
  <2>2. \A n \in 0..(x - 1) : flat[n] = IF n = 0 THEN <<>> ELSE flat[n - 1] \o ss[n]
    BY Zenon, <2>1 DEF IsFlat
  <2>3. ASSUME NEW n \in 0..x PROVE g[n] = IF n = 0 THEN <<>> ELSE g[n - 1] \o ss[n]
    <3>1. CASE n = x
      <4>1. n # 0 /\ n - 1 \in 0..x /\ n - 1 # x /\ n - 1 = x - 1
        BY <3>1
      <4>2. g[n] = flat[x - 1] \o ss[x] /\ g[n - 1] = flat[n - 1]
        BY Zenon, <3>1, <4>1
      <4> QED
        BY Zenon, <3>1, <4>1, <4>2
    <3>2. CASE n # x
      <4>1. n \in 0..(x - 1) /\ (n # 0 => n - 1 \in 0..x /\ n - 1 # x)
        BY <3>2
      <4>2. g[n] = flat[n] /\ (n # 0 => g[n - 1] = flat[n - 1])
        BY Zenon, <3>2, <4>1
      <4> QED
        BY Zenon, <2>2, <4>1, <4>2
    <3> QED
      BY Zenon, <3>1, <3>2
  <2>4. IsFlat(g, ss, x)
    BY Zenon, <2>3 DEF IsFlat
  <2>5. x \in 0..m
    OBVIOUS
  <2> QED
    BY Zenon, <2>4, <2>5
<1>3. m \in G
  <2>1. G \in SUBSET (0..m) /\ m \in 0..m
    OBVIOUS
  <2> HIDE DEF G
  <2> QED
    BY Zenon, <1>1, <1>2, <2>1, Climb
<1> QED
  BY Zenon, <1>3

\* The stages of ss.
Flats(ss) == CHOOSE flat : IsFlat(flat, ss, Len(ss))

\* Flatten is the last of them, and each adds its sequence.
LEMMA FlattenByStages ==
  ASSUME NEW ss, Len(ss) \in Nat
  PROVE  /\ Flatten(ss) = Flats(ss)[Len(ss)]
         /\ Flats(ss)[0] = <<>>
         /\ \A n \in 1..Len(ss) : Flats(ss)[n] = Flats(ss)[n - 1] \o ss[n]
<1> DEFINE S == Flats(ss)
<1>1. IsFlat(S, ss, Len(ss))
  BY Zenon, FlatExists DEF Flats
<1>2. Flatten(ss) = S[Len(ss)]
  BY Zenon DEF Flatten, Flats, IsFlat
<1>3. \A n \in 0..Len(ss) : S[n] = IF n = 0 THEN <<>> ELSE S[n - 1] \o ss[n]
  BY Zenon, <1>1 DEF IsFlat
<1> HIDE DEF S
<1>4. 0 \in 0..Len(ss) /\ \A n \in 1..Len(ss) : n \in 0..Len(ss) /\ n # 0
  OBVIOUS
<1>5. S[0] = <<>> /\ \A n \in 1..Len(ss) : S[n] = S[n - 1] \o ss[n]
  BY Zenon, <1>3, <1>4
<1> QED
  BY Zenon, <1>2, <1>5 DEF S

\* They are sequences of the same kind.
LEMMA FlatsTyped ==
  ASSUME NEW S, NEW ss \in Seq(Seq(S))
  PROVE  Flatten(ss) \in Seq(S) /\ \A n \in 0..Len(ss) : Flats(ss)[n] \in Seq(S)
<1> DEFINE F == Flats(ss)
           G == {n \in 0..Len(ss) : F[n] \in Seq(S)}
<1>1. Len(ss) \in Nat /\ \A n \in 1..Len(ss) : ss[n] \in Seq(S)
  OBVIOUS
<1>2. /\ Flatten(ss) = F[Len(ss)] /\ F[0] = <<>>
      /\ \A n \in 1..Len(ss) : F[n] = F[n - 1] \o ss[n]
  BY Zenon, <1>1, FlattenByStages
<1> HIDE DEF F
<1>3. 0 \in 0..Len(ss) /\ Len(ss) \in 0..Len(ss) /\ \A n \in 1..Len(ss) : n \in 0..Len(ss)
  BY <1>1
<1>4. 0 \in G
  BY Zenon, <1>2, <1>3, EmptySeq
<1>5. ASSUME NEW n \in 1..Len(ss), n - 1 \in G PROVE n \in G
  <2>1. F[n - 1] \in Seq(S) /\ ss[n] \in Seq(S) /\ F[n] = F[n - 1] \o ss[n] /\ n \in 0..Len(ss)
    BY Zenon, <1>1, <1>2, <1>3, <1>5
  <2>2. F[n - 1] \o ss[n] \in Seq(S)
    BY Zenon, <2>1, ConcatProperties
  <2> QED
    BY Zenon, <2>1, <2>2
<1>6. G \in SUBSET (0..Len(ss))
  BY Zenon
<1> HIDE DEF G
<1>7. \A n \in 0..Len(ss) : n \in G
  BY Zenon, <1>1, <1>4, <1>5, <1>6, Climb
<1> QED
  BY Zenon, <1>2, <1>3, <1>7 DEF G, F

\* The stages depend on the sequences so far, and empty ones add nothing.
LEMMA FlatsAgree ==
  ASSUME NEW S, NEW ss \in Seq(Seq(S)), NEW uu \in Seq(Seq(S)), NEW k \in 0..Len(uu),
         Len(ss) <= k, \A i \in 1..Len(ss) : uu[i] = ss[i],
         \A i \in (Len(ss) + 1)..k : uu[i] = <<>>
  PROVE  Flats(uu)[k] = Flatten(ss)
<1> DEFINE F == Flats(ss)
           H == Flats(uu)
           G == {n \in 0..k : H[n] = IF n <= Len(ss) THEN F[n] ELSE F[Len(ss)]}
<1>1. Len(ss) \in Nat /\ Len(uu) \in Nat /\ k \in Nat /\ k <= Len(uu)
  OBVIOUS
<1>2. /\ Flatten(ss) = F[Len(ss)] /\ F[0] = <<>>
      /\ \A n \in 1..Len(ss) : F[n] = F[n - 1] \o ss[n]
  BY Zenon, <1>1, FlattenByStages
<1>3. H[0] = <<>> /\ \A n \in 1..Len(uu) : H[n] = H[n - 1] \o uu[n]
  BY Zenon, <1>1, FlattenByStages
<1>4. F[Len(ss)] \in Seq(S)
  BY Zenon, <1>2, FlatsTyped
<1> HIDE DEF F, H
<1>5. 0 \in G
  BY <1>1, <1>2, <1>3
<1>6. ASSUME NEW n \in 1..k, n - 1 \in G PROVE n \in G
  <2>1. n \in 1..Len(uu) /\ n \in 0..k
    BY <1>1
  <2>2. H[n] = H[n - 1] \o uu[n]
    BY Zenon, <1>3, <2>1
  <2>3. CASE n <= Len(ss)
    <3>1. n \in 1..Len(ss) /\ n - 1 <= Len(ss)
      BY <1>1, <2>3
    <3>2. H[n - 1] = F[n - 1] /\ uu[n] = ss[n] /\ F[n] = F[n - 1] \o ss[n]
      BY Zenon, <1>2, <1>6, <3>1
    <3> QED
      BY Zenon, <2>1, <2>2, <2>3, <3>2
  <2>4. CASE ~(n <= Len(ss))
    <3>1. n \in (Len(ss) + 1)..k /\ (n - 1 <= Len(ss) => n - 1 = Len(ss))
      BY <1>1, <2>4
    <3>2. H[n - 1] = F[Len(ss)] /\ uu[n] = <<>>
      BY Zenon, <1>6, <3>1
    <3>3. F[Len(ss)] \o <<>> = F[Len(ss)]
      BY Zenon, <1>4, ConcatEmptySeq
    <3> QED
      BY Zenon, <2>1, <2>2, <2>4, <3>2, <3>3
  <2> QED
    BY Zenon, <2>3, <2>4
<1>7. G \in SUBSET (0..k) /\ k \in 0..k /\ (k <= Len(ss) => k = Len(ss))
  BY <1>1
<1> HIDE DEF G
<1>8. k \in G
  BY Zenon, <1>1, <1>5, <1>6, <1>7, Climb
<1> QED
  BY Zenon, <1>2, <1>7, <1>8 DEF G, H

\* Flatten, when empty sequences are added.
LEMMA FlattenQuiet ==
  ASSUME NEW S, NEW ss \in Seq(Seq(S)), NEW uu \in Seq(Seq(S)),
         Len(ss) <= Len(uu), \A i \in 1..Len(ss) : uu[i] = ss[i],
         \A i \in (Len(ss) + 1)..Len(uu) : uu[i] = <<>>
  PROVE  Flatten(uu) = Flatten(ss)
<1>1. Len(uu) \in Nat /\ Len(uu) \in 0..Len(uu)
  OBVIOUS
<1>2. Flats(uu)[Len(uu)] = Flatten(ss)
  BY Zenon, <1>1, FlatsAgree
<1> QED
  BY Zenon, <1>1, <1>2, FlattenByStages

\* Flatten, when empty sequences are added and one more after them.
LEMMA FlattenLast ==
  ASSUME NEW S, NEW ss \in Seq(Seq(S)), NEW uu \in Seq(Seq(S)),
         Len(ss) < Len(uu), \A i \in 1..Len(ss) : uu[i] = ss[i],
         \A i \in (Len(ss) + 1)..(Len(uu) - 1) : uu[i] = <<>>
  PROVE  Flatten(uu) = Flatten(ss) \o uu[Len(uu)]
<1>1. /\ Len(uu) \in Nat /\ Len(uu) - 1 \in 0..Len(uu) /\ Len(ss) <= Len(uu) - 1
      /\ Len(uu) \in 1..Len(uu)
  OBVIOUS
<1>2. Flats(uu)[Len(uu) - 1] = Flatten(ss)
  BY Zenon, <1>1, FlatsAgree
<1> QED
  BY Zenon, <1>1, <1>2, FlattenByStages

\* Flatten of nothing.
LEMMA FlattenEmpty == Flatten(<<>>) = <<>>
<1>1. Len(<<>>) = 0 /\ Len(<<>>) \in Nat
  OBVIOUS
<1> QED
  BY Zenon, <1>1, FlattenByStages

-----------------------------------------------------------------------------
(* Where a line starts *)

Text == Seq(Int)

\* No newline in t from p to before i.
Clear(t, p, i) == \A j \in p..(i - 1) : t[j] # Newline

\* The start of a line is the first place from which there is no newline.
LEMMA StartIsFirst ==
  ASSUME NEW t, NEW i \in Nat \ {0}
  PROVE  /\ Start(t, i) \in 1..i /\ Clear(t, Start(t, i), i)
         /\ \A q \in 1..i : Clear(t, q, i) => Start(t, i) <= q
<1> DEFINE W == {p \in 1..i : \A j \in p..(i - 1) : t[j] # Newline}
<1>1. i \in W /\ W \in SUBSET Nat
  OBVIOUS
<1>2. \E p \in W : \A q \in W : p <= q
  BY Zenon, <1>1, LeastNatural
<1>3. Start(t, i) \in W /\ \A q \in W : Start(t, i) <= q
  BY Zenon, <1>2 DEF Start
<1> QED
  BY Zenon, <1>3 DEF Clear

\* Nothing else is.
LEMMA StartIsUnique ==
  ASSUME NEW t, NEW i \in Nat \ {0}, NEW p \in 1..i, Clear(t, p, i),
         \A q \in 1..i : Clear(t, q, i) => p <= q
  PROVE  Start(t, i) = p
<1>1. /\ Start(t, i) \in 1..i /\ Clear(t, Start(t, i), i)
      /\ \A q \in 1..i : Clear(t, q, i) => Start(t, i) <= q
  BY Zenon, StartIsFirst
<1>2. Start(t, i) <= p /\ p <= Start(t, i)
  BY Zenon, <1>1
<1> QED
  BY <1>1, <1>2

\* What follows place i does not matter for where its line starts.
LEMMA StartAgrees ==
  ASSUME NEW t, NEW u, NEW i \in Nat \ {0}, \A j \in 1..(i - 1) : t[j] = u[j]
  PROVE  Start(t, i) = Start(u, i)
<1>1. ASSUME NEW q \in 1..i PROVE Clear(t, q, i) <=> Clear(u, q, i)
  <2>1. \A j \in q..(i - 1) : j \in 1..(i - 1)
    OBVIOUS
  <2> QED
    BY Zenon, <2>1 DEF Clear
<1>2. /\ Start(t, i) \in 1..i /\ Clear(t, Start(t, i), i)
      /\ \A q \in 1..i : Clear(t, q, i) => Start(t, i) <= q
  BY Zenon, StartIsFirst
<1> QED
  BY Zenon, <1>1, <1>2, StartIsUnique

\* Up to the next newline it is the same line.
LEMMA StartStays ==
  ASSUME NEW t, NEW i \in Nat \ {0}, NEW k \in Nat, i <= k, Clear(t, i, k)
  PROVE  Start(t, k) = Start(t, i)
<1>1. /\ Start(t, i) \in 1..i /\ Clear(t, Start(t, i), i)
      /\ \A q \in 1..i : Clear(t, q, i) => Start(t, i) <= q
  BY Zenon, StartIsFirst
<1>2. PICK p \in 1..i : p = Start(t, i)
  BY Zenon, <1>1
<1>3. k \in Nat \ {0} /\ p \in 1..k
  OBVIOUS
<1>4. Clear(t, p, k)
  <2>1. \A j \in p..(k - 1) : j \in p..(i - 1) \/ j \in i..(k - 1)
    OBVIOUS
  <2> QED
    BY Zenon, <1>1, <1>2, <2>1 DEF Clear
<1>5. ASSUME NEW q \in 1..k, Clear(t, q, k) PROVE p <= q
  <2>1. CASE q \in 1..i
    <3>1. \A j \in q..(i - 1) : j \in q..(k - 1)
      OBVIOUS
    <3>2. Clear(t, q, i)
      BY Zenon, <1>5, <3>1 DEF Clear
    <3> QED
      BY Zenon, <1>1, <1>2, <2>1, <3>2
  <2>2. CASE q \notin 1..i
    BY <2>2
  <2> QED
    BY Zenon, <2>1, <2>2
<1> QED
  BY Zenon, <1>2, <1>3, <1>4, <1>5, StartIsUnique

\* After a newline a line starts.
LEMMA StartAfterNewline ==
  ASSUME NEW t, NEW i \in Nat \ {0}, t[i] = Newline
  PROVE  Start(t, i + 1) = i + 1
<1>1. i + 1 \in Nat \ {0} /\ i + 1 \in 1..(i + 1)
  OBVIOUS
<1>2. Clear(t, i + 1, i + 1)
  <2>1. (i + 1)..((i + 1) - 1) = {}
    OBVIOUS
  <2> QED
    BY Zenon, <2>1 DEF Clear
<1>3. ASSUME NEW q \in 1..(i + 1), Clear(t, q, i + 1) PROVE i + 1 <= q
  <2>1. ASSUME ~(i + 1 <= q) PROVE i \in q..((i + 1) - 1)
    BY <2>1
  <2> QED
    BY Zenon, <1>3, <2>1 DEF Clear
<1> QED
  BY Zenon, <1>1, <1>2, <1>3, StartIsUnique

\* An unterminated line starts within the text or just behind it, and is a text.
LEMMA UnterminatedTyped ==
  ASSUME NEW t \in Text
  PROVE  Unterminated(t) \in Text /\ Unterminated(<<>>) = <<>>
<1>1. Len(t) \in Nat /\ Len(t) + 1 \in Nat \ {0}
  BY DEF Text
<1>2. PICK p \in 1..(Len(t) + 1) : p = Start(t, Len(t) + 1)
  BY Zenon, <1>1, StartIsFirst
<1>3. SubSeq(t, p, Len(t)) \in Text
  BY <1>1, <1>2 DEF Text
<1>4. Len(<<>>) = 0 /\ 0 + 1 = 1 /\ 1 \in Nat \ {0} /\ \A q \in 1..1 : q = 1
  OBVIOUS
<1>5. Start(<<>>, 1) = 1
  BY Zenon, <1>4, StartIsFirst
<1>6. SubSeq(<<>>, 1, 0) = <<>>
  OBVIOUS
<1> QED
  BY Zenon, <1>2, <1>3, <1>4, <1>5, <1>6 DEF Unterminated

\* Parts of sequences that agree.
LEMMA SubSeqAgrees ==
  ASSUME NEW S, NEW t \in Seq(S), NEW u \in Seq(S), NEW p \in 1..(Len(t) + 1), NEW n \in Nat,
         p - 1 <= n, n <= Len(t), n <= Len(u), \A j \in 1..n : t[j] = u[j]
  PROVE  SubSeq(u, p, n) = SubSeq(t, p, n)
<1>1. Len(t) \in Nat /\ Len(u) \in Nat /\ p \in Nat \ {0}
  OBVIOUS
<1>2. /\ SubSeq(t, p, n) \in Seq(S) /\ Len(SubSeq(t, p, n)) = n - p + 1
      /\ SubSeq(u, p, n) \in Seq(S) /\ Len(SubSeq(u, p, n)) = n - p + 1
  BY <1>1
<1>3. ASSUME NEW i \in 1..(n - p + 1) PROVE SubSeq(u, p, n)[i] = SubSeq(t, p, n)[i]
  <2>1. p + i - 1 \in 1..n
    BY <1>1
  <2>2. SubSeq(u, p, n)[i] = u[p + i - 1] /\ SubSeq(t, p, n)[i] = t[p + i - 1]
    BY <1>1
  <2> QED
    BY Zenon, <2>1, <2>2
<1> QED
  BY Zenon, <1>2, <1>3, SeqEqual

\* A part of the first of two sequences is that part of both.
LEMMA PartOfConcat ==
  ASSUME NEW S, NEW t \in Seq(S), NEW u \in Seq(S), NEW p \in Nat \ {0}, NEW n \in Nat,
         p <= n + 1, n <= Len(t)
  PROVE  SubSeq(t \o u, p, n) = SubSeq(t, p, n)
<1>1. PICK v \in Seq(S) : v = t \o u
  BY Zenon, ConcatProperties
<1>2. \A j \in 1..n : t[j] = v[j]
  BY <1>1
<1>3. p \in 1..(Len(t) + 1) /\ p - 1 <= n /\ n <= Len(v)
  BY <1>1
<1>4. SubSeq(v, p, n) = SubSeq(t, p, n)
  BY Zenon, <1>2, <1>3, SubSeqAgrees
<1> QED
  BY Zenon, <1>1, <1>4

\* The end of a concatenation, from within the first part.
LEMMA SuffixOfConcat ==
  ASSUME NEW S, NEW t \in Seq(S), NEW u \in Seq(S), NEW p \in 1..(Len(t) + 1)
  PROVE  SubSeq(t \o u, p, Len(t) + Len(u)) = SubSeq(t, p, Len(t)) \o u
<1> DEFINE a == SubSeq(t \o u, p, Len(t) + Len(u))
           b == SubSeq(t, p, Len(t))
<1>1. Len(t) \in Nat /\ Len(u) \in Nat /\ p \in Nat
  OBVIOUS
<1>2. t \o u \in Seq(S) /\ Len(t \o u) = Len(t) + Len(u)
  OBVIOUS
<1>3. a \in Seq(S) /\ Len(a) = Len(t) + Len(u) - p + 1
  BY <1>1, <1>2
<1>4. b \in Seq(S) /\ Len(b) = Len(t) - p + 1
  BY <1>1
<1>5. b \o u \in Seq(S) /\ Len(b \o u) = Len(b) + Len(u)
  BY <1>4
<1>6. ASSUME NEW i \in 1..Len(a) PROVE a[i] = (b \o u)[i]
  <2>1. a[i] = (t \o u)[p + i - 1] /\ p + i - 1 \in 1..(Len(t) + Len(u))
    BY <1>1, <1>2, <1>3
  <2>2. CASE i <= Len(b)
    <3>1. i \in 1..Len(b) /\ p + i - 1 \in 1..Len(t)
      BY <1>1, <1>3, <1>4, <2>2
    <3>2. (t \o u)[p + i - 1] = t[p + i - 1] /\ b[i] = t[p + i - 1]
      BY <1>1, <1>4, <3>1
    <3>3. (b \o u)[i] = b[i]
      BY <1>4, <3>1
    <3> QED
      BY Zenon, <2>1, <3>2, <3>3
  <2>3. CASE ~(i <= Len(b))
    <3>1. /\ i - Len(b) = (p + i - 1) - Len(t) /\ i - Len(b) \in 1..Len(u)
          /\ ~(p + i - 1 <= Len(t)) /\ i \in 1..(Len(b) + Len(u))
      BY <1>1, <1>3, <1>4, <2>3
    <3>2. (t \o u)[p + i - 1] = u[(p + i - 1) - Len(t)]
      BY Zenon, <2>1, <3>1, ConcatProperties
    <3>3. (b \o u)[i] = u[i - Len(b)]
      BY Zenon, <1>4, <2>3, <3>1, ConcatProperties
    <3> QED
      BY Zenon, <2>1, <3>1, <3>2, <3>3
  <2> QED
    BY Zenon, <2>2, <2>3
<1>7. Len(a) = Len(b \o u)
  BY <1>1, <1>3, <1>4, <1>5
<1> HIDE DEF a, b
<1>8. a = b \o u
  BY Zenon, <1>3, <1>5, <1>6, <1>7, SeqEqual
<1> QED
  BY Zenon, <1>8 DEF a, b

\* Bytes other than a newline go to the unterminated line.
LEMMA UnterminatedGrows ==
  ASSUME NEW t \in Text, NEW u \in Text, ~Has(u, Newline)
  PROVE  Unterminated(t \o u) = Unterminated(t) \o u
<1> DEFINE tu == t \o u
<1>1. /\ Len(t) \in Nat /\ Len(u) \in Nat /\ tu \in Text /\ Len(tu) = Len(t) + Len(u)
      /\ Len(t) + 1 \in Nat \ {0} /\ Len(tu) + 1 \in Nat /\ Len(t) + 1 <= Len(tu) + 1
  BY DEF Text
<1>2. \A j \in 1..((Len(t) + 1) - 1) : t[j] = tu[j]
  BY DEF Text
<1>3. \A j \in (Len(t) + 1)..((Len(tu) + 1) - 1) : j - Len(t) \in 1..Len(u) /\ tu[j] = u[j - Len(t)]
  BY <1>1 DEF Text
<1>4. Clear(tu, Len(t) + 1, Len(tu) + 1)
  BY Zenon, <1>3 DEF Clear, Has
<1>5. Start(tu, Len(tu) + 1) = Start(tu, Len(t) + 1)
  BY Zenon, <1>1, <1>4, StartStays
<1>6. Start(t, Len(t) + 1) = Start(tu, Len(t) + 1)
  BY Zenon, <1>1, <1>2, StartAgrees
<1>7. PICK p \in 1..(Len(t) + 1) : p = Start(t, Len(t) + 1)
  BY Zenon, <1>1, StartIsFirst
<1>8. SubSeq(tu, p, Len(tu)) = SubSeq(t, p, Len(t)) \o u
  BY Zenon, <1>1, <1>7, SuffixOfConcat DEF Text
<1> QED
  BY Zenon, <1>5, <1>6, <1>7, <1>8 DEF Unterminated

\* A newline terminates it.
LEMMA UnterminatedAfterNewline ==
  ASSUME NEW t \in Text
  PROVE  Unterminated(t \o <<Newline>>) = <<>>
<1> DEFINE tn == t \o <<Newline>>
<1>1. /\ tn \in Text /\ Len(t) \in Nat /\ Len(tn) = Len(t) + 1 /\ tn[Len(t) + 1] = Newline
      /\ Len(t) + 1 \in Nat \ {0}
  BY DEF Text, Newline
<1>2. Start(tn, (Len(t) + 1) + 1) = (Len(t) + 1) + 1
  BY Zenon, <1>1, StartAfterNewline
<1>3. SubSeq(tn, (Len(t) + 1) + 1, Len(t) + 1) = <<>>
  BY <1>1, SubSeqEmpty
<1> QED
  BY Zenon, <1>1, <1>2, <1>3 DEF Unterminated

-----------------------------------------------------------------------------
(* The reference, for a limit M and an overflow behaviour w *)

Lines == Seq(Text)

Cuts(M, s) ==
  [i \in 1..Len(s) |-> IF i % M = 0 THEN <<SubSeq(s, i - M + 1, i)>> ELSE <<>>]

FullOf(M, s) == Flatten(Cuts(M, s))

RestOf(M, s) == SubSeq(s, Len(s) - (Len(s) % M) + 1, Len(s))

WholeOf(M, w, s) ==
  IF M = 0 \/ Len(s) <= M THEN <<s>>
  ELSE IF w = "drop" THEN <<SubSeq(s, 1, M)>>
  ELSE IF RestOf(M, s) = <<>> THEN FullOf(M, s) ELSE Append(FullOf(M, s), RestOf(M, s))

EarlyOf(M, w, s) ==
  IF M = 0 THEN <<>>
  ELSE IF w = "emit" THEN FullOf(M, s)
  ELSE IF Len(s) > M THEN <<SubSeq(s, 1, M)>> ELSE <<>>

LinesIn(M, w, s, terminated) ==
  IF Has(s, Gap) THEN EarlyOf(M, w, SubSeq(s, 1, Before(s, Gap)))
  ELSE IF terminated THEN WholeOf(M, w, s) ELSE EarlyOf(M, w, s)

Closed(M, w, t) ==
  [i \in 1..Len(t) |->
     IF t[i] = Newline THEN LinesIn(M, w, SubSeq(t, Start(t, i), i - 1), TRUE) ELSE <<>>]

TerminatedIn(M, w, t) == Flatten(Closed(M, w, t))

ReferenceIn(M, w, t, ended) ==
  TerminatedIn(M, w, t) \o LinesIn(M, w, Unterminated(t), ended /\ Unterminated(t) # <<>>)

\* They are the operators of LineParser.
LEMMA ReferenceIsThat ==
  ASSUME NEW t, NEW ended
  PROVE  Reference(t, ended) = ReferenceIn(MaxLineLength, Overflow, t, ended)
  BY Zenon DEF Reference, ReferenceIn, Terminated, TerminatedIn, Closed, LinesOf, LinesIn, Whole,
     WholeOf, Early, EarlyOf, FullPieces, FullOf, Cuts, Rest, RestOf

\* A piece is no longer than what it is cut from.
LEMMA MultipleIsLarge ==
  ASSUME NEW M \in Nat \ {0}, NEW i \in Nat \ {0}, i % M = 0
  PROVE  M <= i
<1>1. \A m \in Nat \ {0}, k \in Nat \ {0} : k < m => k % m # 0
  OBVIOUS
<1>2. ~(i < M)
  BY Zenon, <1>1
<1> QED
  BY <1>2

\* One line alone.
LEMMA OneLine ==
  ASSUME NEW s \in Text
  PROVE  <<s>> \in Lines
  BY DEF Lines

\* A part of a text is a text.
LEMMA SubText ==
  ASSUME NEW s \in Text, NEW p \in Nat \ {0}, NEW n \in Int, n <= Len(s)
  PROVE  SubSeq(s, p, n) \in Text
<1>1. \A i \in p..n : s[i] \in Int
  BY DEF Text
<1> QED
  <2>1. p \in Int
    OBVIOUS
  <2> QED
    BY Zenon, <1>1, <2>1, SubSeqProperties DEF Text

\* The cuts are lines.
LEMMA CutsTyped ==
  ASSUME NEW M \in Nat \ {0}, NEW s \in Text
  PROVE  Cuts(M, s) \in Seq(Lines) /\ Len(Cuts(M, s)) = Len(s)
<1> DEFINE f == Cuts(M, s)
<1>1. Len(s) \in Nat
  BY DEF Text
<1>2. ASSUME NEW i \in 1..Len(s) PROVE f[i] \in Lines
  <2>1. i \in Nat \ {0} /\ i \in Int /\ i <= Len(s)
    BY <1>1
  <2>2. CASE i % M = 0
    <3>1. M <= i
      BY Zenon, <2>1, <2>2, MultipleIsLarge
    <3>2. i - M + 1 \in Nat \ {0}
      BY <2>1, <3>1
    <3>3. SubSeq(s, i - M + 1, i) \in Text
      BY Zenon, <2>1, <3>2, SubText
    <3> QED
      BY Zenon, <2>2, <3>3, OneLine DEF Cuts
  <2>3. CASE i % M # 0
    BY Zenon, <2>3, EmptySeq DEF Cuts, Lines
  <2> QED
    BY Zenon, <2>2, <2>3
<1>3. DOMAIN f = 1..Len(s) /\ f = [i \in 1..Len(s) |-> f[i]]
  BY Zenon DEF Cuts
<1> HIDE DEF f
<1>4. f \in Seq(Lines) /\ Len(f) = Len(s)
  BY Zenon, <1>1, <1>2, <1>3, FunctionIsSeq
<1> QED
  BY Zenon, <1>4 DEF f

\* The full pieces are lines.
LEMMA FullTyped ==
  ASSUME NEW M \in Nat \ {0}, NEW s \in Text
  PROVE  FullOf(M, s) \in Lines
  BY Zenon, CutsTyped, FlatsTyped DEF FullOf, Lines

\* What they leave over is a text shorter than M.
LEMMA RestTyped ==
  ASSUME NEW M \in Nat \ {0}, NEW s \in Text
  PROVE  RestOf(M, s) \in Text /\ Len(RestOf(M, s)) = Len(s) % M
<1>2. PICK n \in Nat : n = Len(s)
  BY DEF Text
<1>1. PICK r \in 0..(M - 1), q \in Int : r = n % M /\ n = M * q + r
  BY Zenon, Division
<1>3. r <= n
  <2>1. \A m \in Nat \ {0}, k \in Nat : k % m <= k
    OBVIOUS
  <2> QED
    BY Zenon, <1>1, <1>2, <2>1
<1>4. n - r + 1 \in Nat \ {0} /\ n \in Int /\ n <= n
  BY <1>3
<1>5. SubSeq(s, n - r + 1, n) \in Text
  BY Zenon, <1>2, <1>4, SubText
<1>6. Len(SubSeq(s, n - r + 1, n)) = r
  BY <1>2, <1>3, <1>4 DEF Text
<1> QED
  BY Zenon, <1>1, <1>2, <1>5, <1>6 DEF RestOf

\* What a terminated text gives are lines.
LEMMA WholeTyped ==
  ASSUME NEW M \in Nat, NEW w, NEW s \in Text
  PROVE  WholeOf(M, w, s) \in Lines
<1>1. CASE M = 0 \/ Len(s) <= M
  BY Zenon, <1>1, OneLine DEF WholeOf
<1>2. CASE ~(M = 0 \/ Len(s) <= M)
  <2>1. M \in Nat \ {0} /\ M \in Int /\ 1 \in Nat \ {0} /\ M <= Len(s)
    BY <1>2 DEF Text
  <2>2. <<SubSeq(s, 1, M)>> \in Lines
    BY Zenon, <2>1, SubText, OneLine
  <2>3. FullOf(M, s) \in Lines /\ RestOf(M, s) \in Text
    BY Zenon, <2>1, FullTyped, RestTyped
  <2>4. Append(FullOf(M, s), RestOf(M, s)) \in Lines
    BY Zenon, <2>3, AppendProperties DEF Lines
  <2> QED
    BY Zenon, <1>2, <2>2, <2>3, <2>4 DEF WholeOf
<1> QED
  BY Zenon, <1>1, <1>2

\* And so is what is out early.
LEMMA EarlyTyped ==
  ASSUME NEW M \in Nat, NEW w, NEW s \in Text
  PROVE  EarlyOf(M, w, s) \in Lines
<1>1. <<>> \in Lines
  BY Zenon, EmptySeq DEF Lines
<1>2. CASE M = 0
  BY Zenon, <1>1, <1>2 DEF EarlyOf
<1>3. CASE M # 0
  <2>1. M \in Nat \ {0} /\ M \in Int /\ 1 \in Nat \ {0} /\ (Len(s) > M => M <= Len(s))
    BY <1>3 DEF Text
  <2>2. Len(s) > M => <<SubSeq(s, 1, M)>> \in Lines
    BY Zenon, <2>1, SubText, OneLine
  <2>3. FullOf(M, s) \in Lines
    BY Zenon, <2>1, FullTyped
  <2> QED
    BY Zenon, <1>1, <1>3, <2>2, <2>3 DEF EarlyOf
<1> QED
  BY Zenon, <1>2, <1>3

-----------------------------------------------------------------------------
(* What a byte adds to the reference *)

\* What is in a concatenation is in one of its parts.
LEMMA HasInConcat ==
  ASSUME NEW s \in Text, NEW u \in Text, NEW b
  PROVE  Has(s \o u, b) <=> Has(s, b) \/ Has(u, b)
<1>1. Len(s) \in Nat /\ Len(u) \in Nat /\ Len(s \o u) = Len(s) + Len(u)
  BY DEF Text
<1>2. \A i \in 1..Len(s) : i \in 1..Len(s \o u) /\ (s \o u)[i] = s[i]
  BY <1>1 DEF Text
<1>3. \A i \in 1..Len(u) : i + Len(s) \in 1..Len(s \o u) /\ (s \o u)[i + Len(s)] = u[i]
  BY <1>1 DEF Text
<1>4. ASSUME NEW i \in 1..Len(s \o u)
      PROVE  \/ i \in 1..Len(s) /\ (s \o u)[i] = s[i]
             \/ i - Len(s) \in 1..Len(u) /\ (s \o u)[i] = u[i - Len(s)]
  BY <1>1 DEF Text
<1>5. ASSUME Has(s \o u, b) PROVE Has(s, b) \/ Has(u, b)
  BY Zenon, <1>4, <1>5 DEF Has
<1>6. ASSUME Has(s, b) PROVE Has(s \o u, b)
  BY Zenon, <1>2, <1>6 DEF Has
<1>7. ASSUME Has(u, b) PROVE Has(s \o u, b)
  BY Zenon, <1>3, <1>7 DEF Has
<1> QED
  BY Zenon, <1>5, <1>6, <1>7

\* n elements precede the first b of s.
FirstAfter(s, b, n) ==
  n \in 0..(Len(s) - 1) /\ s[n + 1] = b /\ \A j \in 1..n : s[j] # b

\* Before finds the first one.
LEMMA BeforeIsFirst ==
  ASSUME NEW s \in Text, NEW b, Has(s, b)
  PROVE  FirstAfter(s, b, Before(s, b))
<1> DEFINE T == {i \in 1..Len(s) : s[i] = b}
           C(i) == s[i] = b /\ \A j \in 1..(i - 1) : s[j] # b
<1>0. T # {}
  BY Zenon DEF Has
<1>1. T # {} /\ Len(s) \in Nat
  BY <1>0 DEF Text
<1>2. T \in SUBSET Nat
  BY <1>1
<1>3. PICK x \in T : \A y \in T : x <= y
  BY Zenon, <1>1, <1>2, LeastNatural
<1>4. ASSUME NEW j \in 1..(x - 1) PROVE s[j] # b
  <2>1. j \in 1..Len(s) /\ ~(x <= j)
    BY <1>1, <1>3
  <2> QED
    BY Zenon, <1>3, <2>1
<1>5. \E i \in 1..Len(s) : C(i)
  BY Zenon, <1>3, <1>4
<1>6. PICK c : c = CHOOSE i \in 1..Len(s) : s[i] = b /\ \A j \in 1..(i - 1) : s[j] # b
  BY Zenon
<1>7. c \in 1..Len(s) /\ C(c)
  BY Zenon, <1>5, <1>6
<1>8. Before(s, b) = c - 1
  BY Zenon, <1>6 DEF Before
<1>9. c - 1 \in 0..(Len(s) - 1) /\ (c - 1) + 1 = c
  BY <1>1, <1>7
<1> QED
  BY Zenon, <1>7, <1>8, <1>9 DEF FirstAfter

\* There is one first.
LEMMA FirstIsUnique ==
  ASSUME NEW s \in Text, NEW b, NEW m, NEW n, FirstAfter(s, b, m), FirstAfter(s, b, n)
  PROVE  m = n
<1>1. Len(s) \in Nat
  BY DEF Text
<1>2. m \in Nat /\ n \in Nat
  BY <1>1 DEF FirstAfter
<1>3. ~(m < n)
  <2>1. m < n => m + 1 \in 1..n
    BY <1>2
  <2> QED
    BY Zenon, <2>1 DEF FirstAfter
<1>4. ~(n < m)
  <2>1. n < m => n + 1 \in 1..m
    BY <1>2
  <2> QED
    BY Zenon, <2>1 DEF FirstAfter
<1> QED
  BY <1>2, <1>3, <1>4

ToGap(s) == SubSeq(s, 1, Before(s, Gap))

\* With a gap, only what is out before it counts.
LEMMA LinesWithGap ==
  ASSUME NEW M, NEW w, NEW s, Has(s, Gap), NEW e
  PROVE  LinesIn(M, w, s, e) = EarlyOf(M, w, ToGap(s))
  BY Zenon DEF LinesIn, ToGap

\* What follows a gap up to the newline is lost.
LEMMA GapStays ==
  ASSUME NEW s \in Text, NEW u \in Text, Has(s, Gap)
  PROVE  Has(s \o u, Gap) /\ ToGap(s \o u) = ToGap(s)
<1>1. s \o u \in Text /\ Has(s \o u, Gap)
  BY Zenon, HasInConcat, ConcatProperties DEF Text
<1>2. PICK n : n = Before(s, Gap) /\ FirstAfter(s, Gap, n)
  BY Zenon, BeforeIsFirst
<1>3. Len(s) \in Nat /\ Len(s \o u) \in Nat /\ Len(s) <= Len(s \o u)
  BY DEF Text
<1>4. n \in 0..(Len(s \o u) - 1) /\ n + 1 \in 1..Len(s) /\ \A j \in 1..n : j \in 1..Len(s)
  BY <1>2, <1>3 DEF FirstAfter
<1>5. \A j \in 1..Len(s) : (s \o u)[j] = s[j]
  BY DEF Text
<1>6. FirstAfter(s \o u, Gap, n)
  BY Zenon, <1>2, <1>4, <1>5 DEF FirstAfter
<1>7. Before(s \o u, Gap) = n
  BY Zenon, <1>1, <1>6, BeforeIsFirst, FirstIsUnique
<1>8. SubSeq(s \o u, 1, n) = SubSeq(s, 1, n)
  <2>1. n \in Nat /\ n <= Len(s) /\ 1 \in Nat \ {0} /\ 1 <= n + 1
    BY <1>3, <1>4
  <2>2. s \in Seq(Int) /\ u \in Seq(Int)
    BY Zenon DEF Text
  <2> QED
    BY <2>1, <2>2, PartOfConcat
<1> QED
  BY Zenon, <1>1, <1>2, <1>7, <1>8 DEF ToGap

\* A gap closes a line with what is out of it.
LEMMA GapCloses ==
  ASSUME NEW s \in Text, ~Has(s, Gap)
  PROVE  Has(s \o <<Gap>>, Gap) /\ ToGap(s \o <<Gap>>) = s
<1> DEFINE g == s \o <<Gap>>
<1>1. g \in Text /\ Len(s) \in Nat /\ Len(g) = Len(s) + 1 /\ g[Len(s) + 1] = Gap
  BY DEF Text, Gap
<1>2. \A j \in 1..Len(s) : g[j] = s[j]
  BY DEF Text
<1>3. Len(s) \in 0..(Len(g) - 1) /\ Len(s) + 1 \in 1..Len(g)
  BY <1>1
<1>4. FirstAfter(g, Gap, Len(s))
  BY Zenon, <1>1, <1>2, <1>3 DEF FirstAfter, Has
<1>5. Has(g, Gap)
  BY Zenon, <1>1, <1>3 DEF Has
<1> HIDE DEF g
<1>6. Before(g, Gap) = Len(s)
  <2>1. FirstAfter(g, Gap, Before(g, Gap))
    BY Zenon, <1>1, <1>5, BeforeIsFirst
  <2> QED
    BY Zenon, <1>1, <1>4, <2>1, FirstIsUnique
<1>7. SubSeq(g, 1, Len(s)) = s
  BY <1>1, <1>2 DEF Text, g
<1> QED
  BY Zenon, <1>5, <1>6, <1>7 DEF ToGap, g

\* The lines of a piece of text are lines.
LEMMA LinesTyped ==
  ASSUME NEW M \in Nat, NEW w, NEW s \in Text, NEW e
  PROVE  LinesIn(M, w, s, e) \in Lines
<1>1. CASE Has(s, Gap)
  <2>1. PICK n : n = Before(s, Gap) /\ FirstAfter(s, Gap, n)
    BY Zenon, <1>1, BeforeIsFirst
  <2>2. n \in Int /\ n <= Len(s) /\ 1 \in Nat \ {0}
    BY <2>1 DEF FirstAfter, Text
  <2>3. SubSeq(s, 1, n) \in Text
    BY Zenon, <2>2, SubText
  <2> QED
    BY Zenon, <1>1, <2>1, <2>3, EarlyTyped DEF LinesIn
<1>2. CASE ~Has(s, Gap)
  BY Zenon, <1>2, EarlyTyped, WholeTyped DEF LinesIn
<1> QED
  BY Zenon, <1>1, <1>2

\* So are those that each newline terminates.
LEMMA ClosedTyped ==
  ASSUME NEW M \in Nat, NEW w, NEW t \in Text
  PROVE  Closed(M, w, t) \in Seq(Lines) /\ Len(Closed(M, w, t)) = Len(t)
<1> DEFINE f == Closed(M, w, t)
<1>1. Len(t) \in Nat
  BY DEF Text
<1>2. ASSUME NEW i \in 1..Len(t) PROVE f[i] \in Lines
  <2>1. i \in Nat \ {0} /\ i - 1 \in Int /\ i - 1 <= Len(t)
    BY <1>1
  <2>2. PICK p \in 1..i : p = Start(t, i)
    BY Zenon, <2>1, StartIsFirst
  <2>3. p \in Nat \ {0}
    BY <2>2
  <2>4. SubSeq(t, p, i - 1) \in Text
    BY Zenon, <2>1, <2>3, SubText
  <2>5. LinesIn(M, w, SubSeq(t, p, i - 1), TRUE) \in Lines /\ <<>> \in Lines
    BY Zenon, <2>4, LinesTyped, EmptySeq DEF Lines
  <2> QED
    BY Zenon, <2>2, <2>5 DEF Closed
<1>3. DOMAIN f = 1..Len(t) /\ f = [i \in 1..Len(t) |-> f[i]]
  BY Zenon DEF Closed
<1> HIDE DEF f
<1>4. f \in Seq(Lines) /\ Len(f) = Len(t)
  BY Zenon, <1>1, <1>2, <1>3, FunctionIsSeq
<1> QED
  BY Zenon, <1>4 DEF f

\* The terminated lines are lines.
LEMMA TerminatedTyped ==
  ASSUME NEW M \in Nat, NEW w, NEW t \in Text
  PROVE  TerminatedIn(M, w, t) \in Lines
  BY Zenon, ClosedTyped, FlatsTyped DEF TerminatedIn, Lines

\* So is all of the reference.
LEMMA ReferenceTyped ==
  ASSUME NEW M \in Nat, NEW w, NEW t \in Text, NEW e
  PROVE  ReferenceIn(M, w, t, e) \in Lines
<1>1. TerminatedIn(M, w, t) \in Lines
  BY Zenon, TerminatedTyped
<1>2. Unterminated(t) \in Text
  BY Zenon, UnterminatedTyped
<1>3. LinesIn(M, w, Unterminated(t), e /\ Unterminated(t) # <<>>) \in Lines
  BY Zenon, <1>2, LinesTyped
<1> QED
  BY Zenon, <1>1, <1>3, ConcatProperties DEF ReferenceIn, Lines

\* What is appended to a text leaves the lines terminated within it alone.
LEMMA ClosedAgrees ==
  ASSUME NEW M \in Nat, NEW w, NEW t \in Text, NEW u \in Text, NEW i \in 1..Len(t)
  PROVE  Closed(M, w, t \o u)[i] = Closed(M, w, t)[i]
<1> DEFINE tu == t \o u
<1>1. Len(t) \in Nat /\ Len(tu) \in Nat /\ Len(t) <= Len(tu) /\ tu \in Text
  BY DEF Text
<1>2. \A j \in 1..Len(t) : t[j] = tu[j]
  BY DEF Text
<1>3. i \in Nat \ {0} /\ i \in 1..Len(tu) /\ \A j \in 1..(i - 1) : j \in 1..Len(t)
  BY <1>1
<1>4. Start(t, i) = Start(tu, i)
  BY Zenon, <1>2, <1>3, StartAgrees
<1>5. PICK p \in 1..i : p = Start(t, i)
  BY Zenon, <1>3, StartIsFirst
<1>6. SubSeq(tu, p, i - 1) = SubSeq(t, p, i - 1)
  <2>1. p \in Nat \ {0} /\ i - 1 \in Nat /\ p <= (i - 1) + 1 /\ i - 1 <= Len(t)
    BY <1>1, <1>3, <1>5
  <2>2. t \in Seq(Int) /\ u \in Seq(Int)
    BY Zenon DEF Text
  <2> QED
    BY <2>1, <2>2, PartOfConcat
<1> QED
  BY Zenon, <1>2, <1>3, <1>4, <1>5, <1>6 DEF Closed

\* Bytes other than a newline terminate nothing.
LEMMA TerminatedStays ==
  ASSUME NEW M \in Nat, NEW w, NEW t \in Text, NEW u \in Text, ~Has(u, Newline)
  PROVE  TerminatedIn(M, w, t \o u) = TerminatedIn(M, w, t)
<1> DEFINE tu == t \o u
           a == Closed(M, w, t)
           b == Closed(M, w, tu)
<1>1. /\ Len(t) \in Nat /\ Len(u) \in Nat /\ tu \in Text /\ Len(tu) = Len(t) + Len(u)
      /\ Len(t) <= Len(tu)
  BY DEF Text
<1>2. a \in Seq(Lines) /\ Len(a) = Len(t) /\ b \in Seq(Lines) /\ Len(b) = Len(tu)
  BY Zenon, <1>1, ClosedTyped
<1>3. \A i \in 1..Len(t) : b[i] = a[i]
  BY ZenonT(30), ClosedAgrees
<1>4. ASSUME NEW i \in (Len(t) + 1)..Len(tu) PROVE b[i] = <<>>
  <2>1. i - Len(t) \in 1..Len(u) /\ tu[i] = u[i - Len(t)] /\ i \in 1..Len(tu)
    BY <1>1 DEF Text
  <2>2. tu[i] # Newline
    BY Zenon, <2>1 DEF Has
  <2> QED
    BY Zenon, <2>1, <2>2 DEF Closed
<1> HIDE DEF a, b, tu
<1>5. Flatten(b) = Flatten(a)
  BY Zenon, <1>1, <1>2, <1>3, <1>4, FlattenQuiet DEF Lines
<1> QED
  BY Zenon, <1>5 DEF TerminatedIn, a, b, tu

\* A newline terminates the unterminated line.
LEMMA TerminatedGrows ==
  ASSUME NEW M \in Nat, NEW w, NEW t \in Text
  PROVE  TerminatedIn(M, w, t \o <<Newline>>)
           = TerminatedIn(M, w, t) \o LinesIn(M, w, Unterminated(t), TRUE)
<1> DEFINE tu == t \o <<Newline>>
           a == Closed(M, w, t)
           b == Closed(M, w, tu)
           n == Len(t) + 1
<1>1. /\ Len(t) \in Nat /\ <<Newline>> \in Text /\ tu \in Text /\ Len(tu) = n
      /\ tu[n] = Newline /\ n \in 1..n /\ Len(t) < n /\ n - 1 = Len(t) /\ n \in Nat \ {0}
  BY DEF Text, Newline
<1>2. a \in Seq(Lines) /\ Len(a) = Len(t) /\ b \in Seq(Lines) /\ Len(b) = n
  BY Zenon, <1>1, ClosedTyped
<1>3. \A i \in 1..Len(t) : b[i] = a[i]
  <2>1. PICK u \in Text : u = <<Newline>>
    BY Zenon, <1>1
  <2>2. \A i \in 1..Len(t) : Closed(M, w, t \o u)[i] = a[i]
    BY ZenonT(30), ClosedAgrees
  <2> QED
    BY Zenon, <2>1, <2>2
<1>4. \A i \in (Len(t) + 1)..(n - 1) : FALSE
  BY <1>1
<1>5. b[n] = LinesIn(M, w, Unterminated(t), TRUE)
  <2>1. \A j \in 1..(n - 1) : t[j] = tu[j]
    BY <1>1 DEF Text
  <2>2. Start(t, n) = Start(tu, n)
    BY Zenon, <1>1, <2>1, StartAgrees
  <2>3. PICK p \in 1..n : p = Start(t, n)
    BY Zenon, <1>1, StartIsFirst
  <2>4. SubSeq(tu, p, Len(t)) = SubSeq(t, p, Len(t))
    <3>1. p \in Nat \ {0} /\ p <= Len(t) + 1 /\ Len(t) <= Len(t)
      BY <1>1, <2>3
    <3>2. t \in Seq(Int) /\ <<Newline>> \in Seq(Int) /\ Len(t) \in Nat
      BY Zenon, <1>1 DEF Text
    <3> QED
      BY <3>1, <3>2, PartOfConcat
  <2>5. b[n] = LinesIn(M, w, SubSeq(tu, Start(tu, n), n - 1), TRUE)
    BY Zenon, <1>1 DEF Closed
  <2> QED
    BY Zenon, <1>1, <2>2, <2>3, <2>4, <2>5 DEF Unterminated
<1> HIDE DEF a, b, tu
<1>6. Flatten(b) = Flatten(a) \o b[n]
  BY Zenon, <1>1, <1>2, <1>3, <1>4, FlattenLast DEF Lines
<1> QED
  BY Zenon, <1>5, <1>6 DEF TerminatedIn, a, b, tu

-----------------------------------------------------------------------------
(* What bytes add to the pieces of a long line *)

\* What is appended leaves the pieces cut so far alone.
LEMMA CutsAgree ==
  ASSUME NEW M \in Nat \ {0}, NEW s \in Text, NEW u \in Text, NEW i \in 1..Len(s)
  PROVE  Cuts(M, s \o u)[i] = Cuts(M, s)[i]
<1>1. PICK v : v = s \o u
  BY Zenon
<1>2. Len(s) \in Nat /\ Len(v) \in Nat /\ Len(s) <= Len(v) /\ v \in Text
  BY <1>1 DEF Text
<1>4. i \in Nat \ {0} /\ i \in 1..Len(v)
  BY <1>2
<1>5. CASE i % M = 0
  <2>1. M <= i
    BY Zenon, <1>4, <1>5, MultipleIsLarge
  <2>2. PICK p \in Nat \ {0} : p = i - M + 1 /\ p <= i + 1 /\ i <= Len(s) /\ i \in Nat
    BY <1>2, <2>1
  <2>3. p <= i + 1 /\ i <= Len(s) /\ i \in Nat /\ s \in Seq(Int) /\ u \in Seq(Int)
    BY Zenon, <2>2 DEF Text
  <2>4. SubSeq(s \o u, p, i) = SubSeq(s, p, i)
    BY <2>3, PartOfConcat
  <2> QED
    BY Zenon, <1>1, <1>4, <1>5, <2>2, <2>4 DEF Cuts
<1>6. CASE i % M # 0
  BY Zenon, <1>1, <1>4, <1>6 DEF Cuts
<1> QED
  BY Zenon, <1>5, <1>6

\* Where the rest of s starts.
LEMMA RestFrom ==
  ASSUME NEW M \in Nat \ {0}, NEW s \in Text
  PROVE  \E n \in Nat, r \in 0..(M - 1) :
           n = Len(s) /\ r = n % M /\ r <= n /\ RestOf(M, s) = SubSeq(s, n - r + 1, n)
<1>1. PICK n \in Nat : n = Len(s)
  BY DEF Text
<1>2. n % M \in 0..(M - 1) /\ n % M <= n
  OBVIOUS
<1> QED
  BY Zenon, <1>1, <1>2 DEF RestOf

\* Bytes that do not fill a piece go to the rest.
LEMMA FullStays ==
  ASSUME NEW M \in Nat \ {0}, NEW s \in Text, NEW u \in Text, Len(RestOf(M, s)) + Len(u) < M
  PROVE  FullOf(M, s \o u) = FullOf(M, s) /\ RestOf(M, s \o u) = RestOf(M, s) \o u
<1>1. PICK v : v = s \o u
  BY Zenon
<1>2. PICK n \in Nat, r \in 0..(M - 1) :
        n = Len(s) /\ r = n % M /\ r <= n /\ RestOf(M, s) = SubSeq(s, n - r + 1, n)
  BY Zenon, RestFrom
<1>3. Len(RestOf(M, s)) = r
  BY Zenon, <1>2, RestTyped
<1>4. PICK k \in Nat : k = Len(u) /\ r + k < M
  BY <1>3 DEF Text
<1>5. v \in Text /\ Len(v) = n + k /\ Len(s) <= Len(v)
  BY <1>1, <1>2, <1>4 DEF Text
<1>6. \A j \in 1..k : n + j \in Nat /\ (n + j) % M = r + j /\ r + j # 0
  <2>1. ASSUME NEW j \in 1..k PROVE j \in Nat /\ r + j < M /\ n + j \in Nat /\ r + j # 0
    BY <1>4
  <2> QED
    BY Zenon, <1>2, <2>1, RemainderGrows
<1>7. FullOf(M, v) = FullOf(M, s)
  <2> DEFINE a == Cuts(M, s)
             b == Cuts(M, v)
  <2>1. a \in Seq(Lines) /\ Len(a) = Len(s) /\ b \in Seq(Lines) /\ Len(b) = Len(v)
    BY Zenon, <1>5, CutsTyped
  <2>2. \A i \in 1..Len(s) : b[i] = a[i]
    BY Zenon, <1>1, CutsAgree
  <2>3. ASSUME NEW i \in (Len(s) + 1)..Len(v) PROVE b[i] = <<>>
    <3>1. i - n \in 1..k /\ n + (i - n) = i /\ i \in 1..Len(v)
      BY <1>2, <1>4, <1>5
    <3>2. i % M # 0
      BY Zenon, <1>6, <3>1
    <3> QED
      BY Zenon, <3>1, <3>2 DEF Cuts
  <2> HIDE DEF a, b
  <2>4. Flatten(b) = Flatten(a)
    BY Zenon, <1>5, <2>1, <2>2, <2>3, FlattenQuiet DEF Lines
  <2> QED
    BY Zenon, <2>4 DEF FullOf, a, b
<1>8. RestOf(M, v) = RestOf(M, s) \o u
  <2>1. (n + k) % M = r + k
    BY Zenon, <1>2, <1>4, RemainderGrows
  <2>2. (n + k) - (r + k) + 1 = n - r + 1 /\ n - r + 1 \in 1..(n + 1)
    BY SMTT(20), <1>2
  <2>3. SubSeq(v, n - r + 1, n + k) = SubSeq(s, n - r + 1, n) \o u
    BY Zenon, <1>1, <1>2, <1>4, <2>2, SuffixOfConcat DEF Text
  <2>4. RestOf(M, v) = SubSeq(v, (n + k) - (r + k) + 1, n + k)
    BY Zenon, <1>5, <2>1 DEF RestOf
  <2> QED
    BY Zenon, <1>2, <2>2, <2>3, <2>4
<1> QED
  BY Zenon, <1>1, <1>7, <1>8

\* Bytes that fill a piece complete it.
LEMMA FullGrows ==
  ASSUME NEW M \in Nat \ {0}, NEW s \in Text, NEW u \in Text, Len(RestOf(M, s)) + Len(u) = M
  PROVE  FullOf(M, s \o u) = Append(FullOf(M, s), RestOf(M, s) \o u) /\ RestOf(M, s \o u) = <<>>
<1>1. PICK v : v = s \o u
  BY Zenon
<1>2. PICK n \in Nat, r \in 0..(M - 1) :
        n = Len(s) /\ r = n % M /\ r <= n /\ RestOf(M, s) = SubSeq(s, n - r + 1, n)
  BY Zenon, RestFrom
<1>3. Len(RestOf(M, s)) = r
  BY Zenon, <1>2, RestTyped
<1>4. PICK k \in Nat : k = Len(u) /\ r + k = M /\ k # 0
  BY <1>3 DEF Text
<1>5. v \in Text /\ Len(v) = n + k /\ Len(s) < Len(v) /\ n + k \in 1..(n + k)
  BY SMTT(20), <1>1, <1>2, <1>4 DEF Text
<1>6. (n + k) % M = 0
  BY Zenon, <1>2, <1>4, RemainderStartsOver
<1>7. ASSUME NEW j \in 1..(k - 1) PROVE (n + j) % M # 0
  <2>1. j \in Nat /\ r + j < M /\ r + j # 0
    BY <1>4
  <2> QED
    BY Zenon, <1>2, <2>1, RemainderGrows
<1>8. SubSeq(v, n - r + 1, n + k) = RestOf(M, s) \o u
  <2>1. n - r + 1 \in 1..(n + 1)
    BY <1>2
  <2> QED
    BY Zenon, <1>1, <1>2, <1>4, <2>1, SuffixOfConcat DEF Text
<1>9. FullOf(M, v) = Append(FullOf(M, s), RestOf(M, s) \o u)
  <2> DEFINE a == Cuts(M, s)
             b == Cuts(M, v)
  <2>1. a \in Seq(Lines) /\ Len(a) = Len(s) /\ b \in Seq(Lines) /\ Len(b) = Len(v)
    BY Zenon, <1>5, CutsTyped
  <2>2. \A i \in 1..Len(s) : b[i] = a[i]
    BY Zenon, <1>1, CutsAgree
  <2>3. ASSUME NEW i \in (Len(s) + 1)..(Len(v) - 1) PROVE b[i] = <<>>
    <3>1. i - n \in 1..(k - 1) /\ n + (i - n) = i /\ i \in 1..Len(v)
      BY <1>2, <1>4, <1>5
    <3>2. i % M # 0
      BY Zenon, <1>7, <3>1
    <3> QED
      BY Zenon, <3>1, <3>2 DEF Cuts
  <2>4. b[Len(v)] = <<RestOf(M, s) \o u>>
    <3>1. (n + k) - M + 1 = n - r + 1
      BY <1>2, <1>4
    <3>2. b[n + k] = <<SubSeq(v, (n + k) - M + 1, n + k)>>
      BY Zenon, <1>5, <1>6 DEF Cuts
    <3> QED
      BY Zenon, <1>5, <1>8, <3>1, <3>2
  <2> HIDE DEF a, b
  <2>5. Flatten(b) = Flatten(a) \o b[Len(v)]
    BY Zenon, <1>5, <2>1, <2>2, <2>3, FlattenLast DEF Lines
  <2>6. FullOf(M, s) \in Lines /\ RestOf(M, s) \o u \in Text
    BY Zenon, FullTyped, RestTyped, ConcatProperties DEF Text
  <2>7. Append(FullOf(M, s), RestOf(M, s) \o u) = FullOf(M, s) \o <<RestOf(M, s) \o u>>
    BY Zenon, <2>6, AppendIsConcat DEF Lines
  <2> QED
    BY Zenon, <2>4, <2>5, <2>7 DEF FullOf, a, b
<1>10. RestOf(M, v) = <<>>
  <2>1. (n + k) - 0 + 1 \in Int /\ n + k \in Int /\ n + k < (n + k) - 0 + 1
    OBVIOUS
  <2>2. RestOf(M, v) = SubSeq(v, (n + k) - 0 + 1, n + k)
    BY Zenon, <1>5, <1>6 DEF RestOf
  <2> QED
    BY Zenon, <2>1, <2>2, SubSeqEmpty
<1> QED
  BY Zenon, <1>1, <1>9, <1>10

\* An empty line has no pieces.
LEMMA NoPieces ==
  ASSUME NEW M \in Nat \ {0}
  PROVE  FullOf(M, <<>>) = <<>> /\ RestOf(M, <<>>) = <<>>
<1>1. <<>> \in Text /\ Len(<<>>) = 0
  BY Zenon, EmptySeq DEF Text
<1>2. Len(Cuts(M, <<>>)) = 0 /\ Cuts(M, <<>>) \in Seq(Lines)
  BY Zenon, <1>1, CutsTyped
<1>3. Cuts(M, <<>>) = <<>>
  BY <1>2
<1>4. RestOf(M, <<>>) \in Text /\ Len(RestOf(M, <<>>)) = 0 % M
  BY Zenon, <1>1, RestTyped
<1>5. 0 % M = 0
  OBVIOUS
<1>6. RestOf(M, <<>>) = <<>>
  BY <1>4, <1>5 DEF Text
<1> QED
  BY Zenon, <1>3, <1>6, FlattenEmpty DEF FullOf

\* A line that is not empty consists of its pieces and what they leave over.
LEMMA WholeIsPieces ==
  ASSUME NEW M \in Nat \ {0}, NEW s \in Text, s # <<>>
  PROVE  WholeOf(M, "emit", s) =
           IF RestOf(M, s) = <<>> THEN FullOf(M, s) ELSE Append(FullOf(M, s), RestOf(M, s))
<1>1. <<>> \in Text /\ <<>> \o s = s /\ Append(<<>>, s) = <<s>> /\ "emit" # "drop" /\ M # 0
  BY DEF Text
<1>2. FullOf(M, <<>>) = <<>> /\ RestOf(M, <<>>) = <<>> /\ Len(<<>>) = 0
  BY Zenon, <1>1, NoPieces, EmptySeq
<1>7. PICK e \in Text : e = <<>>
  BY Zenon, <1>1
<1>3. CASE Len(s) < M
  <2>1. Len(RestOf(M, e)) + Len(s) < M /\ Len(s) <= M
    BY <1>2, <1>3, <1>7 DEF Text
  <2>2. FullOf(M, e \o s) = FullOf(M, e) /\ RestOf(M, e \o s) = RestOf(M, e) \o s
    BY Zenon, <1>7, <2>1, FullStays
  <2> QED
    BY Zenon, <1>1, <1>2, <1>7, <2>1, <2>2 DEF WholeOf
<1>4. CASE Len(s) = M
  <2>1. Len(RestOf(M, e)) + Len(s) = M /\ Len(s) <= M
    BY <1>2, <1>4, <1>7 DEF Text
  <2>2. FullOf(M, e \o s) = Append(FullOf(M, e), RestOf(M, e) \o s) /\ RestOf(M, e \o s) = <<>>
    BY Zenon, <1>7, <2>1, FullGrows
  <2> QED
    BY Zenon, <1>1, <1>2, <1>7, <2>1, <2>2 DEF WholeOf
<1>5. CASE Len(s) > M
  <2>1. ~(Len(s) <= M)
    BY <1>5 DEF Text
  <2> QED
    BY Zenon, <1>1, <2>1 DEF WholeOf
<1>6. Len(s) < M \/ Len(s) = M \/ Len(s) > M
  BY DEF Text
<1> QED
  BY Zenon, <1>3, <1>4, <1>5, <1>6

-----------------------------------------------------------------------------
(* The lines of a text begin with those of its beginning *)

Leads(a, b) == \E c \in Lines : b = a \o c

\* Lines and texts are put together from any side.
Regroups(a, b, c) == (a \o b) \o c = a \o (b \o c)

\* Lines and lines are lines.
LEMMA LinesConcat ==
  ASSUME NEW a \in Lines, NEW b \in Lines
  PROVE  a \o b \in Lines
  BY Zenon, ConcatProperties DEF Lines

\* How they are grouped does not matter.
LEMMA LinesRegroup ==
  ASSUME NEW a \in Lines, NEW b \in Lines, NEW c \in Lines
  PROVE  Regroups(a, b, c)
<1>1. PICK S : S = Text
  BY Zenon
<1>2. a \in Seq(S) /\ b \in Seq(S) /\ c \in Seq(S)
  BY Zenon, <1>1 DEF Lines
<1> QED
  BY SMTT(20), <1>2, ConcatAssociative DEF Regroups

\* A text and a text are a text of both lengths.
LEMMA TextConcat ==
  ASSUME NEW a \in Text, NEW b \in Text
  PROVE  a \o b \in Text /\ Len(a \o b) = Len(a) + Len(b)
  BY Zenon, ConcatProperties DEF Text

\* Nor does it for texts.
LEMMA TextRegroup ==
  ASSUME NEW a \in Text, NEW b \in Text, NEW c \in Text
  PROVE  Regroups(a, b, c)
  BY SMTT(20), ConcatAssociative DEF Text, Regroups

\* One byte alone.
LEMMA OneByte ==
  ASSUME NEW b \in Int
  PROVE  <<b>> \in Text /\ Len(<<b>>) = 1 /\ \A x : Has(<<b>>, x) <=> x = b
<1>1. <<b>> \in Seq(Int) /\ Len(<<b>>) = 1 /\ <<b>>[1] = b /\ \A i \in 1..1 : i = 1
  OBVIOUS
<1>2. 1 \in 1..1
  OBVIOUS
<1> QED
  BY Zenon, <1>1, <1>2 DEF Text, Has

\* Lines lead themselves.
LEMMA LeadsItself ==
  ASSUME NEW a \in Lines
  PROVE  Leads(a, a)
<1>1. <<>> \in Lines /\ a \o <<>> = a
  BY Zenon, EmptySeq, ConcatEmptySeq DEF Lines
<1> QED
  BY Zenon, <1>1 DEF Leads

\* Nothing leads everything.
LEMMA EmptyLeads ==
  ASSUME NEW a \in Lines
  PROVE  Leads(<<>>, a)
<1>1. <<>> \o a = a
  BY Zenon, ConcatEmptySeq DEF Lines
<1> QED
  BY Zenon, <1>1 DEF Leads

\* To lead is transitive.
LEMMA LeadsOn ==
  ASSUME NEW a \in Lines, NEW b \in Lines, NEW c \in Lines, Leads(a, b), Leads(b, c)
  PROVE  Leads(a, c)
<1>1. PICK d \in Lines : b = a \o d
  BY Zenon DEF Leads
<1>2. PICK e \in Lines : c = b \o e
  BY Zenon DEF Leads
<1>3. (a \o d) \o e = a \o (d \o e)
  <2>1. Regroups(a, d, e)
    BY Zenon, LinesRegroup
  <2> QED
    BY Zenon, <2>1 DEF Regroups
<1>4. d \o e \in Lines
  BY Zenon, LinesConcat
<1> QED
  BY Zenon, <1>1, <1>2, <1>3, <1>4 DEF Leads

\* Lines in front of both change nothing.
LEMMA LeadsAfter ==
  ASSUME NEW a \in Lines, NEW b \in Lines, NEW d \in Lines, Leads(a, b)
  PROVE  Leads(d \o a, d \o b)
<1>1. PICK c \in Lines : b = a \o c
  BY Zenon DEF Leads
<1>2. (d \o a) \o c = d \o (a \o c)
  <2>1. Regroups(d, a, c)
    BY Zenon, LinesRegroup
  <2> QED
    BY Zenon, <2>1 DEF Regroups
<1> QED
  BY Zenon, <1>1, <1>2 DEF Leads

\* Lines lead themselves with one more.
LEMMA LeadsAppended ==
  ASSUME NEW a \in Lines, NEW s \in Text
  PROVE  Leads(a, Append(a, s)) /\ Append(a, s) \in Lines
<1>1. <<s>> \in Lines /\ Append(a, s) = a \o <<s>> /\ Append(a, s) \in Lines
  BY Zenon, OneLine, AppendIsConcat, AppendProperties DEF Lines
<1> QED
  BY Zenon, <1>1 DEF Leads

\* To lead is to be the beginning of.
LEMMA LeadsIsPrefix ==
  ASSUME NEW a \in Lines, NEW b \in Lines, Leads(a, b)
  PROVE  \E n \in 0..Len(b) : a = SubSeq(b, 1, n)
<1>1. PICK c \in Lines : b = a \o c
  BY Zenon DEF Leads
<1>2. Len(a) \in 0..Len(b)
  BY <1>1 DEF Lines
<1>3. SubSeq(a \o c, 1, Len(a)) = SubSeq(a, 1, Len(a))
  <2>1. 1 \in Nat \ {0} /\ Len(a) \in Nat /\ 1 <= Len(a) + 1 /\ Len(a) <= Len(a)
    BY DEF Lines
  <2>2. a \in Seq(Text) /\ c \in Seq(Text)
    BY Zenon DEF Lines
  <2> QED
    BY <2>1, <2>2, PartOfConcat
<1>4. SubSeq(a, 1, Len(a)) = a
  BY Zenon, SubSeqFull DEF Lines
<1> QED
  BY Zenon, <1>1, <1>2, <1>3, <1>4

Behaviours == {"drop", "emit"}

\* What is out early is the beginning of the whole.
LEMMA EarlyLeadsWhole ==
  ASSUME NEW M \in Nat, NEW w \in Behaviours, NEW s \in Text
  PROVE  Leads(EarlyOf(M, w, s), WholeOf(M, w, s))
<1>1. EarlyOf(M, w, s) \in Lines /\ WholeOf(M, w, s) \in Lines
  BY Zenon, EarlyTyped, WholeTyped
<1>2. CASE EarlyOf(M, w, s) = <<>>
  BY Zenon, <1>1, <1>2, EmptyLeads
<1>3. CASE EarlyOf(M, w, s) # <<>> /\ w = "drop"
  <2>1. "drop" # "emit" /\ (Len(s) > M => ~(Len(s) <= M))
    BY DEF Text
  <2>2. EarlyOf(M, w, s) = WholeOf(M, w, s)
    BY Zenon, <1>3, <2>1 DEF EarlyOf, WholeOf
  <2> QED
    BY Zenon, <1>1, <2>2, LeadsItself
<1>4. CASE EarlyOf(M, w, s) # <<>> /\ w = "emit"
  <2>1. M # 0 /\ EarlyOf(M, w, s) = FullOf(M, s)
    BY Zenon, <1>4 DEF EarlyOf
  <2>2. M \in Nat \ {0}
    BY <2>1
  <2>3. s # <<>>
    BY Zenon, <1>4, <2>1, <2>2, NoPieces
  <2>4. RestOf(M, s) \in Text /\ FullOf(M, s) \in Lines
    BY Zenon, <2>2, RestTyped, FullTyped
  <2> QED
    BY Zenon, <1>4, <2>1, <2>2, <2>3, <2>4, WholeIsPieces, LeadsItself, LeadsAppended
<1> QED
  BY Zenon, <1>2, <1>3, <1>4 DEF Behaviours

\* Nothing that is out early is taken back.
LEMMA EarlyGrows ==
  ASSUME NEW M \in Nat, NEW w \in Behaviours, NEW s \in Text, NEW b \in Int
  PROVE  Leads(EarlyOf(M, w, s), EarlyOf(M, w, s \o <<b>>))
<1>1. PICK u \in Text : u = <<b>> /\ Len(u) = 1
  BY Zenon, OneByte
<1>2. PICK v \in Text : v = s \o u
  BY Zenon, ConcatProperties DEF Text
<1>3. EarlyOf(M, w, s) \in Lines /\ EarlyOf(M, w, v) \in Lines
  BY Zenon, EarlyTyped
<1>4. CASE EarlyOf(M, w, s) = <<>>
  BY Zenon, <1>1, <1>2, <1>3, <1>4, EmptyLeads
<1>5. CASE EarlyOf(M, w, s) # <<>> /\ w = "drop"
  <2>1. M # 0 /\ Len(s) > M /\ EarlyOf(M, w, s) = <<SubSeq(s, 1, M)>>
    BY Zenon, <1>5, "drop" # "emit" DEF EarlyOf
  <2>2. Len(v) > M
    BY <1>1, <1>2, <2>1 DEF Text
  <2>3. SubSeq(s \o u, 1, M) = SubSeq(s, 1, M)
    <3>1. 1 \in Nat \ {0} /\ 1 <= M + 1 /\ M <= Len(s)
      BY <2>1 DEF Text
    <3>2. s \in Seq(Int) /\ u \in Seq(Int)
      BY Zenon DEF Text
    <3> QED
      BY <3>1, <3>2, PartOfConcat
  <2>4. EarlyOf(M, w, v) = EarlyOf(M, w, s)
    BY Zenon, <1>2, <1>5, <2>1, <2>2, <2>3, "drop" # "emit" DEF EarlyOf
  <2> QED
    BY Zenon, <1>1, <1>2, <1>3, <2>4, LeadsItself
<1>6. CASE EarlyOf(M, w, s) # <<>> /\ w = "emit"
  <2>1. M # 0 /\ EarlyOf(M, w, s) = FullOf(M, s) /\ EarlyOf(M, w, v) = FullOf(M, v)
    BY Zenon, <1>6 DEF EarlyOf
  <2>2. M \in Nat \ {0}
    BY <2>1
  <2>3. RestOf(M, s) \in Text /\ Len(RestOf(M, s)) = Len(s) % M /\ FullOf(M, s) \in Lines
    BY Zenon, <2>2, RestTyped, FullTyped
  <2>4. Len(s) % M < M
    BY <2>2 DEF Text
  <2>5. Len(RestOf(M, s)) + Len(u) < M \/ Len(RestOf(M, s)) + Len(u) = M
    BY <1>1, <2>3, <2>4 DEF Text
  <2>6. RestOf(M, s) \o u \in Text
    BY Zenon, <2>3, ConcatProperties DEF Text
  <2>7. FullOf(M, v) = FullOf(M, s) \/ FullOf(M, v) = Append(FullOf(M, s), RestOf(M, s) \o u)
    BY Zenon, <1>2, <2>2, <2>5, FullStays, FullGrows
  <2>8. Leads(FullOf(M, s), FullOf(M, v))
    BY Zenon, <2>3, <2>6, <2>7, LeadsItself, LeadsAppended
  <2> QED
    BY Zenon, <1>1, <1>2, <2>1, <2>8
<1> QED
  BY Zenon, <1>4, <1>5, <1>6 DEF Behaviours

\* So for the lines of a piece of text, whatever happens to it.
LEMMA LinesGrow ==
  ASSUME NEW M \in Nat, NEW w \in Behaviours, NEW s \in Text, NEW b \in Int, NEW e
  PROVE  /\ Leads(LinesIn(M, w, s, FALSE), LinesIn(M, w, s, e))
         /\ Leads(LinesIn(M, w, s, FALSE), LinesIn(M, w, s \o <<b>>, FALSE))
<1>1. PICK u \in Text : u = <<b>> /\ (Has(u, Gap) <=> Gap = b)
  BY Zenon, OneByte
<1>2. s \o u \in Text
  BY Zenon, ConcatProperties DEF Text
<1>3. LinesIn(M, w, s, FALSE) \in Lines
  BY Zenon, LinesTyped
<1>4. CASE Has(s, Gap)
  <2>1. LinesIn(M, w, s, e) = LinesIn(M, w, s, FALSE)
    BY Zenon, <1>4 DEF LinesIn
  <2>2. LinesIn(M, w, s \o u, FALSE) = LinesIn(M, w, s, FALSE)
    BY Zenon, <1>4, GapStays, LinesWithGap
  <2> QED
    BY Zenon, <1>1, <1>3, <2>1, <2>2, LeadsItself
<1>5. CASE ~Has(s, Gap)
  <2>1. LinesIn(M, w, s, FALSE) = EarlyOf(M, w, s) /\ EarlyOf(M, w, s) \in Lines
    BY Zenon, <1>5, EarlyTyped DEF LinesIn
  <2>2. Leads(LinesIn(M, w, s, FALSE), LinesIn(M, w, s, e))
    BY Zenon, <1>5, <2>1, EarlyLeadsWhole, LeadsItself DEF LinesIn
  <2>3. CASE b = Gap
    <3>1. LinesIn(M, w, s \o <<Gap>>, FALSE) = EarlyOf(M, w, s)
      <4>1. Has(s \o <<Gap>>, Gap) /\ ToGap(s \o <<Gap>>) = s
        BY Zenon, <1>5, GapCloses
      <4> QED
        BY Zenon, <4>1, LinesWithGap
    <3> QED
      BY Zenon, <2>1, <2>2, <2>3, <3>1, LeadsItself
  <2>4. CASE b # Gap
    <3>2. ~Has(s \o u, Gap)
      BY Zenon, <1>1, <1>5, <2>4, HasInConcat
    <3>3. LinesIn(M, w, s \o <<b>>, FALSE) = EarlyOf(M, w, s \o <<b>>)
      BY Zenon, <1>1, <3>2 DEF LinesIn
    <3> QED
      BY Zenon, <2>1, <2>2, <3>3, EarlyGrows
  <2> QED
    BY Zenon, <2>3, <2>4
<1> QED
  BY Zenon, <1>4, <1>5

\* The reference of a text that goes on, and of one that has ended.
LEMMA ReferenceOpen ==
  ASSUME NEW M, NEW w, NEW t
  PROVE  ReferenceIn(M, w, t, FALSE) = TerminatedIn(M, w, t) \o LinesIn(M, w, Unterminated(t), FALSE)
  BY Zenon DEF ReferenceIn, LinesIn

\* The end of the stream terminates what is not empty.
LEMMA ReferenceEnded ==
  ASSUME NEW M, NEW w, NEW t
  PROVE  /\ Unterminated(t) = <<>> => ReferenceIn(M, w, t, TRUE) = ReferenceIn(M, w, t, FALSE)
         /\ Unterminated(t) # <<>> =>
              ReferenceIn(M, w, t, TRUE)
                = TerminatedIn(M, w, t) \o LinesIn(M, w, Unterminated(t), TRUE)
  BY Zenon DEF ReferenceIn, LinesIn

\* An empty line has nothing to give early.
LEMMA NothingEarly ==
  ASSUME NEW M \in Nat, NEW w
  PROVE  /\ ~Has(<<>>, Gap) /\ EarlyOf(M, w, <<>>) = <<>>
         /\ LinesIn(M, w, <<>>, FALSE) = <<>>
<1>1. Len(<<>>) = 0 /\ ~(0 > M) /\ 1..0 = {} /\ (M # 0 => M \in Nat \ {0})
  OBVIOUS
<1>2. ~Has(<<>>, Gap)
  BY Zenon, <1>1 DEF Has
<1>3. EarlyOf(M, w, <<>>) = <<>>
  BY Zenon, <1>1, NoPieces DEF EarlyOf
<1> QED
  BY Zenon, <1>2, <1>3 DEF LinesIn

\* A newline moves the unterminated line to the terminated ones.
LEMMA AfterNewline ==
  ASSUME NEW M \in Nat, NEW w, NEW t \in Text
  PROVE  /\ t \o <<Newline>> \in Text
         /\ Unterminated(t \o <<Newline>>) = <<>>
         /\ TerminatedIn(M, w, t \o <<Newline>>)
              = TerminatedIn(M, w, t) \o LinesIn(M, w, Unterminated(t), TRUE)
<1>1. Newline \in Int
  BY DEF Newline
<1>2. <<Newline>> \in Text
  BY Zenon, <1>1, OneByte
<1> QED
  BY Zenon, <1>2, TextConcat, UnterminatedAfterNewline, TerminatedGrows

\* A byte takes nothing back.
LEMMA ReferenceByte ==
  ASSUME NEW M \in Nat, NEW w \in Behaviours, NEW t \in Text, NEW b \in Int
  PROVE  Leads(ReferenceIn(M, w, t, FALSE), ReferenceIn(M, w, t \o <<b>>, FALSE))
<1> DEFINE T == TerminatedIn(M, w, t)
           s == Unterminated(t)
           tb == t \o <<b>>
<1>1. PICK u \in Text : u = <<b>> /\ (Has(u, Newline) <=> Newline = b)
  BY Zenon, OneByte
<1>2. T \in Lines /\ s \in Text
  BY Zenon, TerminatedTyped, UnterminatedTyped
<1>3. LinesIn(M, w, s, FALSE) \in Lines /\ LinesIn(M, w, s, TRUE) \in Lines
  BY Zenon, <1>2, LinesTyped
<1>4. ReferenceIn(M, w, t, FALSE) = T \o LinesIn(M, w, s, FALSE)
  BY Zenon, ReferenceOpen
<1>5. ReferenceIn(M, w, tb, FALSE) = TerminatedIn(M, w, tb) \o LinesIn(M, w, Unterminated(tb), FALSE)
  BY Zenon, ReferenceOpen
<1>6. CASE b = Newline
  <2>1. /\ Unterminated(tb) = <<>>
        /\ TerminatedIn(M, w, tb) = T \o LinesIn(M, w, s, TRUE)
    BY Zenon, <1>6, AfterNewline
  <2>2. LinesIn(M, w, <<>>, FALSE) = <<>>
    BY Zenon, NothingEarly
  <2>3. T \o LinesIn(M, w, s, TRUE) \in Lines
    BY Zenon, <1>2, <1>3, LinesConcat
  <2>4. ReferenceIn(M, w, tb, FALSE) = T \o LinesIn(M, w, s, TRUE)
    BY Zenon, <1>5, <2>1, <2>2, <2>3, ConcatEmptySeq DEF Lines
  <2>5. Leads(LinesIn(M, w, s, FALSE), LinesIn(M, w, s, TRUE))
    BY Zenon, <1>2, LinesGrow
  <2> HIDE DEF T, s
  <2> QED
    BY Zenon, <1>2, <1>3, <1>4, <2>4, <2>5, LeadsAfter
<1>7. CASE b # Newline
  <2>1. Unterminated(t \o u) = s \o u
    BY Zenon, <1>1, <1>7, UnterminatedGrows
  <2>2. TerminatedIn(M, w, t \o u) = T
    BY Zenon, <1>1, <1>7, TerminatedStays
  <2>3. s \o u \in Text
    BY Zenon, <1>2, TextConcat
  <2>4. LinesIn(M, w, s \o <<b>>, FALSE) \in Lines
    BY Zenon, <1>1, <2>3, LinesTyped
  <2>5. Leads(LinesIn(M, w, s, FALSE), LinesIn(M, w, s \o <<b>>, FALSE))
    BY Zenon, <1>2, LinesGrow
  <2>6. ReferenceIn(M, w, tb, FALSE) = T \o LinesIn(M, w, s \o <<b>>, FALSE)
    BY Zenon, <1>1, <1>5, <2>1, <2>2
  <2> HIDE DEF T, s
  <2> QED
    BY Zenon, <1>2, <1>3, <1>4, <2>4, <2>5, <2>6, LeadsAfter
<1> QED
  BY Zenon, <1>6, <1>7

\* Nor does the end of the stream.
LEMMA ReferenceEnd ==
  ASSUME NEW M \in Nat, NEW w \in Behaviours, NEW t \in Text
  PROVE  Leads(ReferenceIn(M, w, t, FALSE), ReferenceIn(M, w, t, TRUE))
<1> DEFINE T == TerminatedIn(M, w, t)
           s == Unterminated(t)
<1>1. T \in Lines /\ s \in Text /\ ReferenceIn(M, w, t, FALSE) \in Lines
  BY Zenon, TerminatedTyped, UnterminatedTyped, ReferenceTyped
<1>2. LinesIn(M, w, s, FALSE) \in Lines /\ LinesIn(M, w, s, TRUE) \in Lines
  BY Zenon, <1>1, LinesTyped
<1>3. Leads(LinesIn(M, w, s, FALSE), LinesIn(M, w, s, TRUE))
  <2>1. 0 \in Int
    OBVIOUS
  <2> QED
    BY Zenon, <1>1, <2>1, LinesGrow
<1>4. ReferenceIn(M, w, t, FALSE) = T \o LinesIn(M, w, s, FALSE)
  BY Zenon, ReferenceOpen
<1>5. \/ ReferenceIn(M, w, t, TRUE) = ReferenceIn(M, w, t, FALSE)
      \/ ReferenceIn(M, w, t, TRUE) = T \o LinesIn(M, w, s, TRUE)
  BY Zenon, ReferenceEnded
<1>6. Leads(T \o LinesIn(M, w, s, FALSE), T \o LinesIn(M, w, s, TRUE))
  <2> HIDE DEF T, s
  <2> QED
    BY Zenon, <1>1, <1>2, <1>3, LeadsAfter
<1> QED
  BY Zenon, <1>1, <1>4, <1>5, <1>6, LeadsItself

\* The lines of a text are the first of whatever it turns out to begin.
LEMMA ReferenceGrows ==
  ASSUME NEW M \in Nat, NEW w \in Behaviours, NEW t \in Text, NEW c \in Text
  PROVE  Leads(ReferenceIn(M, w, t, FALSE), ReferenceIn(M, w, t \o c, TRUE))
<1> DEFINE R(n) == ReferenceIn(M, w, t \o SubSeq(c, 1, n), FALSE)
           G == {n \in 0..Len(c) : Leads(R(0), R(n))}
<1>1. Len(c) \in Nat /\ 0 \in 0..Len(c) /\ Len(c) \in 0..Len(c)
  BY DEF Text
<1>2. \A n \in 0..Len(c) : SubSeq(c, 1, n) \in Text
  BY DEF Text
<1>3. \A n \in 0..Len(c) : t \o SubSeq(c, 1, n) \in Text
  BY Zenon, <1>2, TextConcat
<1>4. \A n \in 0..Len(c) : R(n) \in Lines
  BY Zenon, <1>3, ReferenceTyped
<1>5. 0 \in G
  BY Zenon, <1>1, <1>4, LeadsItself
<1>6. ASSUME NEW n \in 1..Len(c), n - 1 \in G PROVE n \in G
  <2>1. n - 1 \in 0..Len(c) /\ n \in 0..Len(c) /\ c[n] \in Int
    BY <1>1 DEF Text
  <2>2. SubSeq(c, 1, n) = SubSeq(c, 1, n - 1) \o <<c[n]>>
    <3>1. 1 \in 1..Len(c) /\ n \in 1..Len(c)
      BY <1>1
    <3> QED
      BY Zenon, <3>1, SubSeqRecursiveSecond DEF Text
  <2>3. PICK a \in Text : a = SubSeq(c, 1, n - 1)
    BY Zenon, <1>2, <2>1
  <2>4. t \o (a \o <<c[n]>>) = (t \o a) \o <<c[n]>>
    <3>1. <<c[n]>> \in Text
      BY Zenon, <2>1, OneByte
    <3>2. Regroups(t, a, <<c[n]>>)
      BY Zenon, <3>1, TextRegroup
    <3> QED
      BY Zenon, <3>2 DEF Regroups
  <2>5. t \o a \in Text
    BY Zenon, TextConcat
  <2>6. Leads(ReferenceIn(M, w, t \o a, FALSE), ReferenceIn(M, w, (t \o a) \o <<c[n]>>, FALSE))
    BY Zenon, <2>1, <2>5, ReferenceByte
  <2>7. Leads(R(n - 1), R(n))
    BY Zenon, <2>2, <2>3, <2>4, <2>6
  <2>8. Leads(R(0), R(n - 1)) /\ R(0) \in Lines /\ R(n - 1) \in Lines /\ R(n) \in Lines
    BY Zenon, <1>1, <1>4, <1>6, <2>1
  <2> HIDE DEF R
  <2>9. Leads(R(0), R(n))
    BY Zenon, <2>7, <2>8, LeadsOn
  <2> QED
    BY Zenon, <2>1, <2>9
<1>7. Len(c) \in G
  <2>1. G \in SUBSET (0..Len(c))
    BY Zenon
  <2> HIDE DEF G
  <2> QED
    BY Zenon, <1>1, <1>5, <1>6, <2>1, Climb
<1>8. SubSeq(c, 1, Len(c)) = c /\ SubSeq(c, 1, 0) = <<>> /\ t \o <<>> = t
  <2>1. SubSeq(c, 1, 0) = <<>>
    BY SubSeqEmpty
  <2> QED
    BY Zenon, <2>1, SubSeqFull, ConcatEmptySeq DEF Text
<1>9. Leads(ReferenceIn(M, w, t, FALSE), ReferenceIn(M, w, t \o c, FALSE))
  BY Zenon, <1>7, <1>8
<1>10. t \o c \in Text
  BY Zenon, TextConcat
<1>11. Leads(ReferenceIn(M, w, t \o c, FALSE), ReferenceIn(M, w, t \o c, TRUE))
  BY Zenon, <1>10, ReferenceEnd
<1> QED
  BY Zenon, <1>9, <1>10, <1>11, LeadsOn, ReferenceTyped

-----------------------------------------------------------------------------
(* How a turn of next_line cuts the chunk *)

\* To append to the last of two is to append to both.
LEMMA AppendToLast ==
  ASSUME NEW a \in Lines, NEW b \in Lines, NEW x \in Text
  PROVE  Append(a \o b, x) = a \o Append(b, x)
<1>1. <<x>> \in Lines /\ a \o b \in Lines
  BY Zenon, OneLine, LinesConcat
<1>2. Append(a \o b, x) = (a \o b) \o <<x>> /\ Append(b, x) = b \o <<x>>
  BY Zenon, <1>1, AppendIsConcat DEF Lines
<1>3. Regroups(a, b, <<x>>)
  BY Zenon, <1>1, LinesRegroup
<1> QED
  BY Zenon, <1>2, <1>3 DEF Regroups

\* A sequence is its first k elements and the others.
LEMMA Split ==
  ASSUME NEW S, NEW s \in Seq(S), NEW k \in 0..Len(s)
  PROVE  /\ SubSeq(s, 1, k) \in Seq(S) /\ Len(SubSeq(s, 1, k)) = k
         /\ SubSeq(s, k + 1, Len(s)) \in Seq(S) /\ Len(SubSeq(s, k + 1, Len(s))) = Len(s) - k
         /\ SubSeq(s, 1, k) \o SubSeq(s, k + 1, Len(s)) = s
<1>1. /\ SubSeq(s, 1, k) \in Seq(S) /\ Len(SubSeq(s, 1, k)) = k
      /\ SubSeq(s, k + 1, Len(s)) \in Seq(S) /\ Len(SubSeq(s, k + 1, Len(s))) = Len(s) - k
  OBVIOUS
<1>2. PICK n : n = Len(s)
  BY Zenon
<1>3. 1 \in 1..(Len(s) + 1) /\ k \in (1 - 1)..Len(s) /\ n \in k..Len(s)
  BY <1>2
<1>4. SubSeq(s, 1, k) \o SubSeq(s, k + 1, n) = SubSeq(s, 1, n)
  BY Zenon, <1>3, ConcatAdjacentSubSeq
<1>5. SubSeq(s, 1, n) = s
  BY Zenon, <1>2, SubSeqFull
<1> QED
  BY Zenon, <1>1, <1>2, <1>4, <1>5

\* The first byte of a chunk, and the others.
LEMMA FirstByte ==
  ASSUME NEW c \in Text, c # <<>>
  PROVE  /\ 1 \in 0..Len(c) /\ SubSeq(c, 1, 1) = <<Head(c)>> /\ Head(c) = c[1]
         /\ SubSeq(c, 1 + 1, Len(c)) = Tail(c)
<1>1. c \in Seq(Int)
  BY Zenon DEF Text
<1>2. 1 \in 0..Len(c) /\ 1 + 1 = 2 /\ Head(c) = c[1]
  BY <1>1
<1>3. SubSeq(c, 1, 1) = <<c[1]>>
  <2>1. 1 \in 1..Len(c) /\ 1 + 1 \in Int /\ 1 \in 1..Len(c) /\ 1 < 1 + 1 /\ 1 \in Int
    BY <1>1
  <2>2. SubSeq(c, 1, 1) = <<c[1]>> \o SubSeq(c, 1 + 1, 1)
    BY Zenon, <1>1, <2>1, SubSeqRecursiveFirst
  <2>3. SubSeq(c, 1 + 1, 1) = <<>>
    BY Zenon, <2>1, SubSeqEmpty
  <2>4. <<c[1]>> \o <<>> = <<c[1]>>
    BY <1>1, <2>1
  <2> QED
    BY Zenon, <2>2, <2>3, <2>4
<1>4. Tail(c) = SubSeq(c, 2, Len(c))
  BY Zenon, <1>1, TailIsSubSeq
<1> QED
  BY Zenon, <1>2, <1>3, <1>4

\* A part has nothing that the whole has not.
LEMMA PartHas ==
  ASSUME NEW s \in Text, NEW b, ~Has(s, b), NEW k \in Nat \ {0}, NEW n \in 0..Len(s)
  PROVE  SubSeq(s, k, n) \in Text /\ ~Has(SubSeq(s, k, n), b)
<1>1. \A j \in 1..Len(s) : s[j] # b
  BY Zenon DEF Has
<1>2. PICK u : u = SubSeq(s, k, n)
  BY Zenon
<1>3. /\ u \in Text /\ Len(u) = IF k <= n THEN n - k + 1 ELSE 0
      /\ \A j \in 1..(n - k + 1) : u[j] = s[k + j - 1]
  <2>1. \A j \in k..n : s[j] \in Int
    BY DEF Text
  <2>2. k \in Int /\ n \in Int
    OBVIOUS
  <2>3. /\ SubSeq(s, k, n) \in Seq(Int)
        /\ Len(SubSeq(s, k, n)) = IF k <= n THEN n - k + 1 ELSE 0
        /\ \A j \in 1..(n - k + 1) : SubSeq(s, k, n)[j] = s[k + j - 1]
    BY <2>1, <2>2, SubSeqProperties
  <2> QED
    BY Zenon, <1>2, <2>3 DEF Text
<1>4. \A j \in 1..Len(u) : j \in 1..(n - k + 1) /\ k + j - 1 \in 1..Len(s)
  BY <1>3 DEF Text
<1>5. ~Has(u, b)
  BY Zenon, <1>1, <1>3, <1>4 DEF Has
<1> QED
  BY Zenon, <1>2, <1>3, <1>5

\* The first newline of what is scanned is the first newline of the chunk.
LEMMA ScanFindsFirst ==
  ASSUME NEW c \in Text, NEW L \in 0..Len(c), NEW n, FirstAfter(SubSeq(c, 1, L), Newline, n)
  PROVE  /\ FirstAfter(c, Newline, n) /\ n \in Nat /\ n < L
         /\ SubSeq(SubSeq(c, 1, L), 1, n) = SubSeq(c, 1, n) /\ Len(SubSeq(c, 1, n)) = n
<1>1. PICK v : v = SubSeq(c, 1, L)
  BY Zenon
<1>2. v \in Text /\ Len(v) = L /\ \A j \in 1..L : v[j] = c[j]
  BY <1>1 DEF Text
<1>3. n \in 0..(Len(v) - 1) /\ v[n + 1] = Newline /\ \A j \in 1..n : v[j] # Newline
  BY Zenon, <1>1 DEF FirstAfter
<1>4. FirstAfter(c, Newline, n) /\ n \in Nat /\ n < L
  BY <1>2, <1>3 DEF FirstAfter, Text
<1>5. SubSeq(v, 1, n) = SubSeq(c, 1, n) /\ Len(SubSeq(c, 1, n)) = n
  <2>1. Len(SubSeq(c, 1, n)) = n
    BY <1>2, <1>3 DEF Text
  <2>2. 1 \in 1..(Len(c) + 1) /\ n \in Nat /\ 1 - 1 <= n /\ n <= Len(c) /\ n <= Len(v)
    BY <1>2, <1>3 DEF Text
  <2>3. \A j \in 1..n : j \in 1..L
    BY <1>2, <1>3
  <2>4. \A j \in 1..n : c[j] = v[j]
    BY Zenon, <1>2, <2>3
  <2>5. SubSeq(v, 1, n) = SubSeq(c, 1, n)
    BY Zenon, <1>2, <2>2, <2>4, SubSeqAgrees DEF Text
  <2> QED
    BY Zenon, <2>1, <2>5
<1> QED
  BY Zenon, <1>1, <1>4, <1>5

-----------------------------------------------------------------------------
(* Flatten and Only, an element at a time *)

\* What the places in K of s hold.
Picks(s, K) == [i \in 1..Len(s) |-> IF i \in K THEN <<s[i]>> ELSE <<>>]

\* The places hold an element or none.
LEMMA PicksTyped ==
  ASSUME NEW S, NEW s \in Seq(S), NEW K
  PROVE  Picks(s, K) \in Seq(Seq(S)) /\ Len(Picks(s, K)) = Len(s) /\ Only(s, K) \in Seq(S)
<1>0. PICK n \in Nat : n = Len(s)
  BY Zenon, LenProperties
<1>1. PICK f : f = Picks(s, K) /\ n = Len(s)
  BY Zenon, <1>0
<1>2. \A i \in 1..n : s[i] \in S
  BY Zenon, <1>1, ElementOfSeq
<1>3. \A x \in S : <<x>> \in Seq(S)
  OBVIOUS
<1>4. <<>> \in Seq(S)
  BY Zenon, EmptySeq
<1>5. DOMAIN f = 1..n /\ f = [i \in 1..n |-> f[i]] /\ \A i \in 1..n : f[i] \in Seq(S)
  BY Zenon, <1>1, <1>2, <1>3, <1>4 DEF Picks
<1>6. f \in Seq(Seq(S)) /\ Len(f) = n
  BY Zenon, <1>5, FunctionIsSeq
<1>7. Flatten(f) \in Seq(S)
  BY Zenon, <1>6, FlatsTyped
<1> QED
  BY Zenon, <1>1, <1>6, <1>7 DEF Only, Picks

\* J and K have the same places of s.
SamePlaces(s, J, K) == \A i \in 1..Len(s) : i \in J <=> i \in K

\* With x after s, the places in J hold what the places in K of s hold, and perhaps x.
OnlyGrows(s, x, J, K) ==
  Only(Append(s, x), J) = IF Len(s) + 1 \in J THEN Append(Only(s, K), x) ELSE Only(s, K)

\* One more element.
LEMMA OnlyAppended ==
  ASSUME NEW S, NEW s \in Seq(S), NEW x \in S, NEW J, NEW K, SamePlaces(s, J, K)
  PROVE  OnlyGrows(s, x, J, K)
<1>0. PICK n \in Nat : n = Len(s)
  BY Zenon, LenProperties
<1>1. PICK a : a = Append(s, x) /\ n = Len(s)
  BY Zenon, <1>0
<1>2. /\ Append(s, x) \in Seq(S) /\ Len(Append(s, x)) = Len(s) + 1
      /\ Append(s, x)[Len(s) + 1] = x /\ \A i \in 1..Len(s) : Append(s, x)[i] = s[i]
  BY AppendProperties
<1>3. a \in Seq(S) /\ Len(a) = n + 1 /\ a[n + 1] = x /\ \A i \in 1..n : a[i] = s[i]
  BY Zenon, <1>1, <1>2
<1>4. PICK f, g : f = Picks(s, K) /\ g = Picks(a, J)
  BY Zenon
<1>5. f \in Seq(Seq(S)) /\ Len(f) = n /\ Only(s, K) = Flatten(f) /\ Flatten(f) \in Seq(S)
  BY Zenon, <1>1, <1>4, PicksTyped DEF Only, Picks
<1>6. g \in Seq(Seq(S)) /\ Len(g) = n + 1 /\ Only(a, J) = Flatten(g)
  BY Zenon, <1>3, <1>4, PicksTyped DEF Only, Picks
<1>7. \A i \in 1..n : i \in 1..(n + 1)
  OBVIOUS
<1>8. \A i \in 1..n : g[i] = f[i]
  <2>1. ASSUME NEW i \in 1..n PROVE g[i] = f[i]
    <3>1. g[i] = IF i \in J THEN <<a[i]>> ELSE <<>>
      BY Zenon, <1>3, <1>4, <1>7 DEF Picks
    <3>2. f[i] = IF i \in K THEN <<s[i]>> ELSE <<>>
      BY Zenon, <1>1, <1>4 DEF Picks
    <3> QED
      BY Zenon, <1>1, <1>3, <3>1, <3>2 DEF SamePlaces
  <2> QED
    BY Zenon, <2>1
<1>9. g[n + 1] = IF n + 1 \in J THEN <<x>> ELSE <<>>
  <2>1. n + 1 \in 1..(n + 1)
    OBVIOUS
  <2> QED
    BY Zenon, <1>3, <1>4, <2>1 DEF Picks
<1>10. Len(f) < Len(g) /\ \A i \in (Len(f) + 1)..(Len(g) - 1) : g[i] = <<>>
  BY <1>5, <1>6
<1>11. Flatten(g) = Flatten(f) \o g[Len(g)]
  BY Zenon, <1>5, <1>6, <1>8, <1>10, FlattenLast
<1>12. Flatten(f) \o <<>> = Flatten(f) /\ Flatten(f) \o <<x>> = Append(Flatten(f), x)
  BY Zenon, <1>5, ConcatEmptySeq, AppendIsConcat
<1> QED
  BY Zenon, <1>1, <1>5, <1>6, <1>9, <1>11, <1>12 DEF OnlyGrows

\* Of nothing there is nothing.
LEMMA OnlyEmpty ==
  ASSUME NEW K
  PROVE  Only(<<>>, K) = <<>>
<1>1. <<>> \in Seq(Int) /\ Len(<<>>) = 0
  BY Zenon, EmptySeq
<1>2. Picks(<<>>, K) \in Seq(Seq(Int)) /\ Len(Picks(<<>>, K)) = Len(<<>>)
  BY Zenon, <1>1, PicksTyped
<1>3. Picks(<<>>, K) = <<>>
  BY Zenon, <1>1, <1>2, EmptySeq
<1>4. Only(<<>>, K) = Flatten(Picks(<<>>, K))
  BY Zenon DEF Only, Picks
<1> QED
  BY Zenon, <1>3, <1>4, FlattenEmpty

\* The bytes of a text with gaps.
Payload(t) == Only(t, {i \in 1..Len(t) : t[i] # Gap})

\* To append to the last of two texts is to append to both.
LEMMA ByteToLast ==
  ASSUME NEW a \in Text, NEW b \in Text, NEW x \in Int
  PROVE  Append(a \o b, x) = a \o Append(b, x)
<1>1. PICK u \in Text : u = <<x>>
  BY Zenon, OneByte
<1>2. a \o b \in Text
  BY Zenon, TextConcat
<1>3. Append(a \o b, x) = (a \o b) \o u /\ Append(b, x) = b \o u
  BY Zenon, <1>1, <1>2, AppendIsConcat DEF Text
<1>4. Regroups(a, b, u)
  BY Zenon, TextRegroup
<1> QED
  BY Zenon, <1>3, <1>4 DEF Regroups

\* A byte counts, a gap does not.
LEMMA PayloadByte ==
  ASSUME NEW t \in Text, NEW b \in Int
  PROVE  Payload(Append(t, b)) = IF b # Gap THEN Append(Payload(t), b) ELSE Payload(t)
<1>1. PICK n \in Nat : n = Len(t)
  BY Zenon, LenProperties DEF Text
<1>2. t \in Seq(Int)
  BY Zenon DEF Text
<1>3. /\ Len(Append(t, b)) = Len(t) + 1
      /\ Append(t, b)[Len(t) + 1] = b /\ \A i \in 1..Len(t) : Append(t, b)[i] = t[i]
  BY <1>2, AppendProperties
<1>4. PICK a : a = Append(t, b)
  BY Zenon
<1>5. Len(a) = n + 1 /\ a[n + 1] = b /\ \A i \in 1..n : a[i] = t[i]
  BY Zenon, <1>1, <1>3, <1>4
<1>6. PICK K, J : K = {i \in 1..Len(t) : t[i] # Gap} /\ J = {i \in 1..Len(a) : a[i] # Gap}
  BY Zenon
<1>7. n + 1 \in 1..(n + 1) /\ \A i \in 1..n : i \in 1..(n + 1)
  OBVIOUS
<1>8. SamePlaces(t, J, K)
  BY Zenon, <1>1, <1>5, <1>6, <1>7 DEF SamePlaces
<1>9. Len(t) + 1 \in J <=> b # Gap
  BY Zenon, <1>1, <1>5, <1>6, <1>7
<1>10. OnlyGrows(t, b, J, K)
  BY Zenon, <1>2, <1>8, OnlyAppended
<1> QED
  BY Zenon, <1>4, <1>6, <1>9, <1>10 DEF Payload, OnlyGrows

\* The bytes of a text are bytes.
LEMMA PayloadTyped ==
  ASSUME NEW t \in Text
  PROVE  Payload(t) \in Text
  BY Zenon, PicksTyped DEF Text, Payload

\* Of a chunk every byte counts.
LEMMA PayloadChunk ==
  ASSUME NEW t \in Text, NEW c \in Text, ~Has(c, Gap)
  PROVE  Payload(t \o c) = Payload(t) \o c
<1> DEFINE u(n) == SubSeq(c, 1, n)
           G == {n \in 0..Len(c) : Payload(t \o u(n)) = Payload(t) \o u(n)}
<1>1. c \in Seq(Int) /\ t \in Seq(Int) /\ Len(c) \in Nat /\ Payload(t) \in Text
  BY Zenon, LenProperties, PayloadTyped DEF Text
<1>2. \A n \in 0..Len(c) : u(n) \in Text
  BY <1>1 DEF Text
<1>3. 0 \in G
  <2>1. u(0) = <<>> /\ 0 \in 0..Len(c)
    BY <1>1
  <2>2. t \o <<>> = t /\ Payload(t) \o <<>> = Payload(t)
    BY Zenon, <1>1, ConcatEmptySeq DEF Text
  <2> QED
    BY Zenon, <2>1, <2>2
<1>4. ASSUME NEW n \in 1..Len(c), n - 1 \in G PROVE n \in G
  <2>1. n \in 0..Len(c) /\ n - 1 \in 0..Len(c) /\ 1 \in 1..Len(c) /\ n \in 1..Len(c)
    BY <1>1
  <2>2. PICK v \in Text, b \in Int : v = u(n - 1) /\ b = c[n]
    BY Zenon, <1>1, <1>2, <2>1, ElementOfSeq
  <2>3. u(n) = v \o <<b>>
    BY Zenon, <1>1, <2>1, <2>2, SubSeqRecursiveSecond
  <2>4. u(n) = Append(v, b)
    BY Zenon, <2>3, AppendIsConcat DEF Text
  <2>5. b # Gap
    BY Zenon, <2>2 DEF Has
  <2>6. t \o v \in Text
    BY Zenon, TextConcat
  <2>7. Payload(Append(t \o v, b)) = Append(Payload(t \o v), b)
    BY Zenon, <2>5, <2>6, PayloadByte
  <2>8. Payload(t \o v) = Payload(t) \o v
    BY Zenon, <1>4, <2>2
  <2>9. Append(Payload(t) \o v, b) = Payload(t) \o Append(v, b)
    BY Zenon, <1>1, ByteToLast
  <2>10. Append(t \o v, b) = t \o Append(v, b)
    BY Zenon, ByteToLast
  <2> QED
    BY Zenon, <2>1, <2>4, <2>7, <2>8, <2>9, <2>10
<1>5. G \in SUBSET (0..Len(c)) /\ Len(c) \in 0..Len(c)
  BY <1>1
<1>6. Len(c) \in G
  <2> HIDE DEF G
  <2> QED
    BY Zenon, <1>1, <1>3, <1>4, <1>5, Climb
<1>7. u(Len(c)) = c
  BY Zenon, <1>1, SubSeqFull
<1> QED
  BY Zenon, <1>6, <1>7

-----------------------------------------------------------------------------
(* What a step does to the visitor *)

ParserTypes ==
  /\ MaxLineLength \in Nat /\ Overflow \in Behaviours
  /\ text \in Text /\ chunk \in Text /\ ~Has(chunk, Gap)
  /\ line_buffer \in Text /\ lines \in Lines

\* What every step leaves so.  A visitor of chunks has no use for the buffer.
Typed ==
  /\ ParserTypes
  /\ ~LineLevel => line_buffer = <<>>

\* What LineLevel, LineInv and the references depend on besides the parser.
LEMMA SameOptions ==
  ASSUME options' = options, visitor' = visitor
  PROVE  MaxLineLength' = MaxLineLength /\ Overflow' = Overflow /\ (LineLevel' <=> LineLevel)
  BY Zenon DEF MaxLineLength, Overflow, LineLevel

\* A chunk has bytes only.
LEMMA ChunksTyped ==
  ASSUME text \in Text, NEW n \in Nat, NEW c \in Chunks(n)
  PROVE  c \in Text /\ ~Has(c, Gap) /\ Len(c) = n /\ text \o c \in Text
<1>1. PICK N \in SUBSET (1..n) : c = [i \in 1..n |-> IF i \in N THEN Newline ELSE Len(text) + i]
  BY Zenon DEF Chunks
<1>2. Len(text) \in Nat
  BY Zenon, LenProperties DEF Text
<1>3. \A i \in 1..n : (IF i \in N THEN Newline ELSE Len(text) + i) \in Nat
  BY <1>2 DEF Newline
<1>4. c \in Seq(Nat) /\ Len(c) = n
  <2>1. DOMAIN c = 1..n /\ c = [i \in 1..n |-> c[i]] /\ \A i \in 1..n : c[i] \in Nat
    BY Zenon, <1>1, <1>3
  <2> QED
    BY Zenon, <2>1, FunctionIsSeq
<1>5. c \in Text /\ ~Has(c, Gap)
  BY <1>4 DEF Text, Has, Gap
<1> QED
  BY Zenon, <1>4, <1>5, TextConcat

\* A gap in the text.
LEMMA GapTyped ==
  ASSUME text \in Text, text' = Append(text, Gap)
  PROVE  text' = text \o <<Gap>> /\ text' \in Text
<1>1. Gap \in Int
  BY DEF Gap
<1>2. <<Gap>> \in Text
  BY Zenon, <1>1, OneByte
<1>3. text' = text \o <<Gap>>
  BY Zenon, <1>1, AppendIsConcat DEF Text
<1> QED
  BY Zenon, <1>2, <1>3, TextConcat

\* A line that is appended is the last one, and there is one more.
LEMMA Appended ==
  ASSUME NEW ls \in Lines, NEW l
  PROVE  /\ Append(ls, l) # ls /\ Len(Append(ls, l)) = Len(ls) + 1
         /\ Append(ls, l)[Len(Append(ls, l))] = l
         /\ \A i \in 1..Len(ls) : Append(ls, l)[i] = ls[i]
         /\ Append(ls, l) \in Lines => l \in Text
<1>1. PICK S : S = Text \cup {l}
  BY Zenon
<1>2. ls \in Seq(S) /\ l \in S
  <2>1. Text \subseteq S
    BY Zenon, <1>1
  <2> QED
    BY <1>1, <2>1 DEF Lines
<1>3. PICK a : a = Append(ls, l)
  BY Zenon
<1>4. Len(ls) \in Nat /\ Len(a) = Len(ls) + 1 /\ a[Len(ls) + 1] = l /\ \A i \in 1..Len(ls) : a[i] = ls[i]
  <2>1. /\ Len(Append(ls, l)) = Len(ls) + 1 /\ Append(ls, l)[Len(ls) + 1] = l
        /\ \A i \in 1..Len(ls) : Append(ls, l)[i] = ls[i]
    BY <1>2, AppendProperties
  <2>2. Len(ls) \in Nat
    BY Zenon, <1>2, LenProperties
  <2> QED
    BY Zenon, <1>3, <2>1, <2>2
<1>5. Len(a) # Len(ls) /\ Len(a) \in 1..Len(a)
  BY <1>4
<1>6. a \in Lines => a[Len(a)] \in Text
  BY Zenon, <1>5, ElementOfSeq DEF Lines
<1> QED
  BY Zenon, <1>3, <1>4, <1>5, <1>6

\* The line l comes out, and the visitor answers next.
Spoken(l, next) ==
  /\ state = "open" /\ LineLevel /\ lines' = Append(lines, l) /\ OnLine(l, next)
  /\ state' \in {"open", "broke", "ended"}
  /\ state' # "ended" => (state' = "broke" <=> next = "Break")

\* Nothing goes to the visitor.
Quiet ==
  /\ lines' = lines /\ sink' = sink
  /\ state' # state =>
       /\ state = "open" /\ state' \in {"ended", "failed", "timeout", "cancelled"}
       /\ state' = "cancelled" => visitor.kind # "wait_for_line"

\* A turn of next_line gives out one line or none.
LEMMA OneLineAtMost ==
  ASSUME NextLine
  PROVE  /\ state = "open" /\ options' = options
         /\ \/ lines' = lines /\ state' = state
            \/ \E l : lines' = Append(lines, l) /\ state' \in {"open", "broke"}
<1>1. state = "open" /\ (Discard \/ SkipDelimiter \/ EmitFull \/ Scan)
  BY Zenon DEF NextLine
<1>2. CASE Discard
  BY Zenon, <1>1, <1>2 DEF Discard
<1>3. CASE SkipDelimiter
  BY Zenon, <1>1, <1>3 DEF SkipDelimiter
<1>4. CASE EmitFull
  BY Zenon, <1>1, <1>4 DEF EmitFull, Emit
<1>5. CASE Scan
  BY Zenon, <1>1, <1>5 DEF Scan, Emit
<1> QED
  BY Zenon, <1>1, <1>2, <1>3, <1>4, <1>5

\* Every step is one of these, or gives a chunk to its visitor.
LEMMA VisitorSteps ==
  ASSUME Typed, Typed', [Next]_vars
  PROVE  /\ visitor' = visitor /\ options' = options
         /\ \/ Quiet
            \/ VisitChunk
            \/ \E l \in Text, next \in {"Continue", "Break"} : Spoken(l, next)
<1>1. lines \in Lines /\ lines' \in Lines
  BY Zenon DEF Typed, ParserTypes
<1>2. CASE ParseStep
  <2>1. LineLevel /\ NextLine /\ visitor' = visitor
    BY Zenon, <1>2 DEF ParseStep
  <2>2. /\ state = "open" /\ options' = options
        /\ \/ lines' = lines /\ state' = state
           \/ \E l : lines' = Append(lines, l) /\ state' \in {"open", "broke"}
    BY Zenon, <2>1, OneLineAtMost
  <2>3. CASE lines' = lines
    <3>1. state' = state
      BY Zenon, <1>1, <2>2, <2>3, Appended
    <3>2. sink' = sink
      BY Zenon, <1>2, <2>3 DEF ParseStep
    <3> QED
      BY Zenon, <2>1, <2>2, <2>3, <3>1, <3>2 DEF Quiet
  <2>4. CASE lines' # lines
    <3>1. PICK l : lines' = Append(lines, l) /\ state' \in {"open", "broke"}
      BY Zenon, <2>2, <2>4
    <3>2. lines'[Len(lines')] = l /\ l \in Text
      BY Zenon, <1>1, <3>1, Appended
    <3>3. PICK next \in {"Continue", "Break"} :
            OnLine(lines'[Len(lines')], next) /\ (state' = "broke") = (next = "Break")
      BY Zenon, <1>2, <2>4 DEF ParseStep
    <3>4. Spoken(l, next)
      BY Zenon, <2>1, <2>2, <3>1, <3>2, <3>3 DEF Spoken
    <3> QED
      BY Zenon, <2>1, <2>2, <3>2, <3>4
  <2> QED
    BY Zenon, <2>3, <2>4
<1>3. CASE VisitChunk
  BY Zenon, <1>3 DEF VisitChunk
<1>4. ASSUME NEW n, EventChunk(n)
      PROVE  visitor' = visitor /\ options' = options /\ Quiet
  BY Zenon, <1>4 DEF EventChunk, OnChunk, Quiet
<1>5. CASE EventGap
  BY Zenon, <1>5 DEF EventGap, OnGap, Quiet
<1>6. CASE EventEof
  <2>1. OnEof /\ visitor' = visitor /\ options' = options /\ state = "open" /\ state' = "ended"
    BY Zenon, <1>6 DEF EventEof, OnEof
  <2>2. CASE lines' = lines
    <3>1. sink' = sink
      BY Zenon, <1>6, <2>2 DEF EventEof
    <3> QED
      BY Zenon, <2>1, <2>2, <3>1 DEF Quiet
  <2>3. CASE lines' # lines
    <3>1. PICK l : lines' = Append(lines, l)
      BY Zenon, <2>1, <2>3 DEF OnEof
    <3>2. lines'[Len(lines')] = l /\ l \in Text
      BY Zenon, <1>1, <3>1, Appended
    <3>3. PICK next \in {"Continue", "Break"} : OnLine(lines'[Len(lines')], next)
      BY Zenon, <1>6, <2>3 DEF EventEof
    <3>4. LineLevel
      BY Zenon, <2>1, <2>3 DEF Typed, OnEof
    <3>5. Spoken(l, next)
      BY Zenon, <2>1, <3>1, <3>2, <3>3, <3>4 DEF Spoken
    <3> QED
      BY Zenon, <2>1, <3>2, <3>5
  <2> QED
    BY Zenon, <2>2, <2>3
<1>7. CASE EventReadError \/ TermSignal \/ TimeoutElapses
  BY Zenon, <1>7 DEF EventReadError, TermSignal, TimeoutElapses, StopsAs, Quiet
<1>8. CASE Finished \/ UNCHANGED vars
  BY Zenon, <1>8 DEF Finished, vars, parser, Quiet
<1> QED
  BY Zenon, <1>2, <1>3, <1>4, <1>5, <1>6, <1>7, <1>8 DEF Next

\* The steps of a consumer whose visitor takes chunks.
LEMMA ChunkSteps ==
  ASSUME Typed, ~LineLevel, [Next]_vars
  PROVE  \/ sink' = sink /\ chunk' = chunk /\ text' = text
         \/ /\ sink' = sink /\ chunk = <<>> /\ text' = text \o chunk'
            /\ chunk' \in Text /\ ~Has(chunk', Gap)
         \/ sink' = sink /\ chunk = <<>> /\ chunk' = <<>> /\ text' = Append(text, Gap)
         \/ VisitChunk
<1>1. text \in Text /\ line_buffer = <<>>
  BY Zenon DEF Typed, ParserTypes
<1>2. CASE ParseStep
  BY Zenon, <1>2 DEF ParseStep
<1>3. ASSUME NEW n \in 1..MaxChunk, EventChunk(n)
      PROVE  /\ sink' = sink /\ chunk = <<>> /\ text' = text \o chunk'
             /\ chunk' \in Text /\ ~Has(chunk', Gap)
  <2>1. n \in Nat
    BY OptionsAssumption
  <2>2. PICK c \in Chunks(n) : chunk' = c /\ text' = text \o c
    BY Zenon, <1>3 DEF EventChunk, OnChunk
  <2>3. c \in Text /\ ~Has(c, Gap)
    BY Zenon, <1>1, <2>1, ChunksTyped
  <2> QED
    BY Zenon, <1>3, <2>2, <2>3 DEF EventChunk, OnChunk
<1>4. CASE EventGap
  BY Zenon, <1>4 DEF EventGap
<1>5. CASE EventEof
  <2>1. lines' = lines /\ chunk' = chunk /\ text' = text
    BY Zenon, <1>1, <1>5 DEF EventEof, OnEof
  <2> QED
    BY Zenon, <1>5, <2>1 DEF EventEof
<1>6. CASE EventReadError \/ TermSignal \/ TimeoutElapses
  BY Zenon, <1>6 DEF EventReadError, TermSignal, TimeoutElapses, StopsAs
<1>7. CASE Finished \/ UNCHANGED vars
  BY Zenon, <1>7 DEF Finished, vars, parser
<1> QED
  BY Zenon, <1>2, <1>3, <1>4, <1>5, <1>6, <1>7 DEF Next
=============================================================================
