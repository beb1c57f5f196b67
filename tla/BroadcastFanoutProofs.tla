----------------------- MODULE BroadcastFanoutProofs ------------------------
(***************************************************************************)
(* What holds of BroadcastFanout for every set of subscriptions, capacity, *)
(* retention policy and chunk size: first its inductive invariant, then    *)
(* the properties that follow from it.                                     *)
(***************************************************************************)
EXTENDS BroadcastFanout, TLAPS

-----------------------------------------------------------------------------
(* The inductive invariant *)

\* Where the reader is, and what it holds there.
ReaderInv ==
  /\ pc = "append" => buf > 0
  /\ pc = "send" => /\ indexed \in Event
                    /\ indexed.seq + 1 = next_seq
                    /\ IsTerminal(indexed) <=> terminal # NoEvent
                    /\ indexed.ev # "gap"
  /\ pc # "send" => targets = {} /\ current = NoSub
  /\ current \notin targets
  /\ pc \in {"read", "append"} => terminal = NoEvent

\* Numbering: chunks take 0, 1, 2, ..., the terminal event the number after.
NumberInv ==
  /\ terminal = NoEvent => next_seq = Len(output)
  /\ terminal # NoEvent => /\ terminal \in Event
                           /\ IsTerminal(terminal)
                           /\ terminal.seq = Len(output)
                           /\ next_seq = Len(output) + 1
  /\ \A i, j \in 1..Len(output) : i <= j => output[i] <= output[j]

\* The replay window is a run of last chunks and its counters agree with it;
\* nothing is kept without a retention policy or after sealing.
WindowInv ==
  /\ RetainsReplay \/ replay = <<>>
  /\ Len(replay) <= Len(output)
  /\ \A i \in 1..Len(replay) :
       replay[i] = [seq |-> Len(output) - Len(replay) + i - 1, ev |-> "chunk"]
  /\ replay_chunk_count = Len(replay)
  /\ replay_byte_count = Offset(output, Len(output))
                           - Offset(output, Len(output) - Len(replay))

\* s has a sender somewhere: in the registry or in the reader's hands.
HasSender(s) == s \in subscribers \/ s \in targets \/ s = current

\* Registry and snapshot only hold subscriptions that have subscribed, and
\* what is queued for one is numbered after its snapshot.
RegistryInv ==
  /\ subscribers # {} => terminal = NoEvent
  /\ \A s \in Subs :
       /\ sub[s] = "none" => ~HasSender(s) /\ queue[s] = <<>>
       /\ s \in subscribers => sub[s] = "open"
       /\ queue_closed[s] => s \notin subscribers /\ sub[s] # "none"
       /\ live_start_seq[s] <= next_seq
       /\ s \in targets \/ s = current => live_start_seq[s] < next_seq
       /\ \A i \in 1..Len(queue[s]) : queue[s][i].seq >= live_start_seq[s]

\* b may come directly after a.
Follows(a, b) == a.ev = "gap" \/ b.ev = "gap" \/ b.seq = a.seq + 1

\* The events of q may come one after another, the first directly after a.
Chain(a, q) ==
  /\ q # <<>> => Follows(a, q[1])
  /\ \A i \in 2..Len(q) : Follows(q[i - 1], q[i])

\* The last event of a followed by q.
EndOf(a, q) == IF q = <<>> THEN a ELSE q[Len(q)]

\* a and b allow the same events to follow.
Alike(a, b) == (a.ev = "gap" <=> b.ev = "gap") /\ (a.ev = "gap" \/ a.seq = b.seq)

\* What s observed last, and the last event in line for it before the reader's.
Mark(s) == [seq |-> pos[s] - 1, ev |-> IF gapped[s] THEN "gap" ELSE "chunk"]
ReplayEnd(s) == EndOf(Mark(s), sub_replay[s])
QueueEnd(s) == EndOf(ReplayEnd(s), queue[s])

\* HandoffContinuous, piece by piece, for one subscription.
LineInv(s) ==
  /\ Chain(Mark(s), sub_replay[s])
  /\ Chain(ReplayEnd(s), queue[s])
  /\ s \in targets \/ s = current => Follows(QueueEnd(s), indexed)
  /\ s \in subscribers /\ pc # "stopped" /\ s \notin targets /\ s # current =>
       QueueEnd(s).ev = "gap" \/ QueueEnd(s).seq + 1 = next_seq

IInv ==
  /\ TypeOK
  /\ ReaderInv
  /\ NumberInv
  /\ WindowInv
  /\ RegistryInv
  /\ \A s \in Subs : sub[s] = "open" => LineInv(s)


-----------------------------------------------------------------------------
(* Chains of events *)

\* Appending an event that follows the end keeps a chain.
LEMMA ChainAppend ==
  ASSUME NEW a, NEW q \in Seq(Event), NEW e \in Event,
         Chain(a, q), Follows(EndOf(a, q), e)
  PROVE  /\ Chain(a, Append(q, e))
         /\ EndOf(a, Append(q, e)) = e
  BY DEF Chain, EndOf

\* Replacing what comes before a chain by something alike keeps it.
LEMMA ChainAlike ==
  ASSUME NEW a, NEW b, NEW q \in Seq(Event), Chain(a, q), Alike(a, b)
  PROVE  /\ Chain(b, q)
         /\ Alike(EndOf(a, q), EndOf(b, q))
  BY Zenon DEF Chain, EndOf, Alike, Follows

\* Taking the first event of a chain leaves a chain after something alike.
LEMMA ChainTail ==
  ASSUME NEW a, NEW b, NEW q \in Seq(Event), q # <<>>, Chain(a, q), Alike(q[1], b)
  PROVE  /\ Chain(b, Tail(q))
         /\ Alike(EndOf(a, q), EndOf(b, Tail(q)))
<1>1. /\ Len(q) \in Nat \ {0}
      /\ Tail(q) \in Seq(Event)
      /\ Len(Tail(q)) = Len(q) - 1
      /\ \A i \in 1..Len(Tail(q)) : Tail(q)[i] = q[i + 1]
  OBVIOUS
<1>2. Tail(q) # <<>> <=> Len(q) >= 2
  <2>1. \A x \in Seq(Event) : x = <<>> <=> Len(x) = 0
    OBVIOUS
  <2>2. Tail(q) = <<>> <=> Len(Tail(q)) = 0
    BY Zenon, <1>1, <2>1
  <2> QED BY <1>1, <2>2
<1>3. Chain(b, Tail(q))
  BY <1>1, <1>2 DEF Chain, Follows, Alike
<1>4. Alike(EndOf(a, q), EndOf(b, Tail(q)))
  <2>1. CASE Len(q) = 1
    <3>1. EndOf(a, q) = q[1] /\ EndOf(b, Tail(q)) = b
      BY <1>1, <1>2, <2>1 DEF EndOf
    <3> QED BY Zenon, <3>1
  <2>2. CASE Len(q) >= 2
    <3>1. Len(Tail(q)) \in 1..Len(Tail(q)) /\ Len(Tail(q)) + 1 = Len(q)
      BY <1>1, <2>2
    <3>2. Tail(q)[Len(Tail(q))] = q[Len(q)]
      BY Zenon, <1>1, <3>1
    <3>3. EndOf(a, q) = q[Len(q)] /\ EndOf(b, Tail(q)) = q[Len(q)]
      BY Zenon, <1>2, <2>2, <3>2 DEF EndOf
    <3> QED BY Zenon, <3>3 DEF Alike
  <2> QED BY <1>1, <2>1, <2>2
<1> QED BY Zenon, <1>3, <1>4

\* Two chains, the second starting where the first ends, make one.
LEMMA ChainConcat ==
  ASSUME NEW a, NEW p \in Seq(Event), NEW q \in Seq(Event),
         Chain(a, p), Chain(EndOf(a, p), q)
  PROVE  /\ p \o q \in Seq(Event)
         /\ Chain(a, p \o q)
         /\ EndOf(a, p \o q) = EndOf(EndOf(a, p), q)
<1>1. /\ p \o q \in Seq(Event) /\ Len(p \o q) = Len(p) + Len(q)
      /\ Len(p) \in Nat /\ Len(q) \in Nat
      /\ \A i \in 1..Len(p) : (p \o q)[i] = p[i]
      /\ \A i \in 1..Len(q) : (p \o q)[Len(p) + i] = q[i]
  OBVIOUS
<1>2. \A x \in Seq(Event) : x = <<>> <=> Len(x) = 0
  OBVIOUS
<1>3. p = <<>> <=> Len(p) = 0
  BY Zenon, <1>2
<1>4. q = <<>> <=> Len(q) = 0
  BY Zenon, <1>2
<1>5. p \o q = <<>> <=> Len(p) + Len(q) = 0
  BY Zenon, <1>1, <1>2
<1>6. p \o q # <<>> => Follows(a, (p \o q)[1])
  <2>1. CASE p # <<>>
    <3>1. 1 \in 1..Len(p) /\ Follows(a, p[1])
      BY <1>1, <1>3, <2>1 DEF Chain
    <3> QED BY Zenon, <1>1, <3>1
  <2>2. CASE p = <<>> /\ q # <<>>
    <3>1. 1 \in 1..Len(q) /\ Follows(a, q[1]) /\ Len(p) + 1 = 1
      BY <1>1, <1>3, <1>4, <2>2 DEF Chain, EndOf
    <3> QED BY <1>1, <3>1
  <2> QED BY <1>1, <1>3, <1>4, <1>5, <2>1, <2>2
<1>7. ASSUME NEW i \in 2..(Len(p) + Len(q)) PROVE Follows((p \o q)[i - 1], (p \o q)[i])
  <2>1. CASE i <= Len(p)
    <3>1. i \in 2..Len(p) /\ i \in 1..Len(p) /\ i - 1 \in 1..Len(p)
      BY <1>1, <2>1
    <3> QED BY Zenon, <1>1, <3>1 DEF Chain
  <2>2. CASE i = Len(p) + 1
    <3>1. /\ p # <<>> /\ q # <<>> /\ i - 1 = Len(p)
          /\ Len(p) \in 1..Len(p) /\ 1 \in 1..Len(q)
      BY <1>1, <1>3, <1>4, <2>2
    <3>2. (p \o q)[i - 1] = p[Len(p)] /\ (p \o q)[i] = q[1]
      BY Zenon, <1>1, <2>2, <3>1
    <3> QED BY Zenon, <3>1, <3>2 DEF Chain, EndOf
  <2>3. CASE i > Len(p) + 1
    <3>1. /\ i - Len(p) \in 2..Len(q) /\ i - Len(p) \in 1..Len(q)
          /\ (i - Len(p)) - 1 \in 1..Len(q)
          /\ i = Len(p) + (i - Len(p)) /\ i - 1 = Len(p) + ((i - Len(p)) - 1)
      BY <1>1, <2>3
    <3>2. (p \o q)[i - 1] = q[(i - Len(p)) - 1] /\ (p \o q)[i] = q[i - Len(p)]
      BY Zenon, <1>1, <3>1
    <3> QED BY Zenon, <3>1, <3>2 DEF Chain
  <2> QED BY <1>1, <2>1, <2>2, <2>3
<1>8. EndOf(a, p \o q) = EndOf(EndOf(a, p), q)
  <2>1. CASE q = <<>>
    <3>1. p # <<>> => Len(p) \in 1..Len(p)
      BY <1>1, <1>3
    <3>2. Len(p \o q) = Len(p)
      BY <1>1, <1>4, <2>1
    <3> QED BY Zenon, <1>1, <1>3, <1>4, <1>5, <2>1, <3>1, <3>2 DEF EndOf
  <2>2. CASE q # <<>>
    <3>1. Len(q) \in 1..Len(q) /\ p \o q # <<>>
      BY <1>1, <1>4, <1>5, <2>2
    <3> QED BY Zenon, <1>1, <2>2, <3>1 DEF EndOf
  <2> QED BY Zenon, <2>1, <2>2
<1>9. Chain(a, p \o q)
  BY Zenon, <1>1, <1>6, <1>7 DEF Chain
<1> QED BY Zenon, <1>1, <1>8, <1>9

\* The three outcomes of a best-effort push.
LEMMA BestEffortPushCases ==
  ASSUME NEW q \in Seq(Event), NEW e \in Event
  PROVE  LET gap == [seq |-> e.seq, ev |-> "gap"] IN
         /\ gap \in Event
         /\ \/ BestEffortPush(q, e) = Append(q, e)
            \/ BestEffortPush(q, e) = <<gap, e>>
            \/ BestEffortPush(q, e) = <<gap>>
  BY Zenon DEF BestEffortPush, Event

\* A best-effort push invents no number below those it was given.
LEMMA BestEffortPushElements ==
  ASSUME NEW q \in Seq(Event), NEW e \in Event, NEW n \in Nat, e.seq >= n,
         \A i \in 1..Len(q) : q[i].seq >= n
  PROVE  /\ BestEffortPush(q, e) \in Seq(Event)
         /\ \A i \in 1..Len(BestEffortPush(q, e)) : BestEffortPush(q, e)[i].seq >= n
<1> DEFINE gap == [seq |-> e.seq, ev |-> "gap"]
<1>1. CASE BestEffortPush(q, e) = Append(q, e)
  BY <1>1
<1>2. CASE BestEffortPush(q, e) = <<gap, e>>
  <2>1. <<gap, e>> \in Seq(Event) /\ \A i \in 1..2 : i = 1 \/ i = 2
    BY BestEffortPushCases
  <2> QED BY <1>2, <2>1
<1>3. CASE BestEffortPush(q, e) = <<gap>>
  <2>1. <<gap>> \in Seq(Event)
    BY BestEffortPushCases
  <2> QED BY <1>3, <2>1
<1> QED BY Zenon, <1>1, <1>2, <1>3, BestEffortPushCases

\* A best-effort push keeps a chain and ends it with the event or with a Gap.
LEMMA BestEffortPushChain ==
  ASSUME NEW a, NEW q \in Seq(Event), NEW e \in Event,
         Chain(a, q), Follows(EndOf(a, q), e)
  PROVE  /\ Chain(a, BestEffortPush(q, e))
         /\ \/ EndOf(a, BestEffortPush(q, e)).ev = "gap"
            \/ EndOf(a, BestEffortPush(q, e)) = e
<1> DEFINE gap == [seq |-> e.seq, ev |-> "gap"]
<1>1. CASE BestEffortPush(q, e) = Append(q, e)
  BY <1>1, ChainAppend
<1>2. CASE BestEffortPush(q, e) = <<gap, e>>
  <2>1. Chain(a, <<gap, e>>) /\ EndOf(a, <<gap, e>>) = e
    BY BestEffortPushCases DEF Chain, EndOf, Follows
  <2> QED BY Zenon, <1>2, <2>1
<1>3. CASE BestEffortPush(q, e) = <<gap>>
  <2>1. Chain(a, <<gap>>) /\ EndOf(a, <<gap>>) = gap
    BY BestEffortPushCases DEF Chain, EndOf, Follows
  <2> QED BY <1>3, <2>1
<1> QED BY Zenon, <1>1, <1>2, <1>3, BestEffortPushCases

\* The line of a subscription depends only on its own state.
LEMMA LineFrame ==
  ASSUME NEW s \in Subs, pos'[s] = pos[s], gapped'[s] = gapped[s],
         sub_replay'[s] = sub_replay[s], queue'[s] = queue[s]
  PROVE  /\ Chain(Mark(s), sub_replay[s])' <=> Chain(Mark(s), sub_replay[s])
         /\ Chain(ReplayEnd(s), queue[s])' <=> Chain(ReplayEnd(s), queue[s])
         /\ ReplayEnd(s)' = ReplayEnd(s)
         /\ QueueEnd(s)' = QueueEnd(s)
  BY Zenon DEF Chain, EndOf, Mark, ReplayEnd, QueueEnd

\* An action that leaves the window and the numbering of chunks alone keeps WindowInv.
LEMMA WindowFrame ==
  ASSUME WindowInv,
         UNCHANGED <<replay, replay_chunk_count, replay_byte_count, replay_sealed, output>>
  PROVE  WindowInv'
  BY Zenon DEF WindowInv, Offset, RetainsReplay

\* An action that numbers nothing, takes senders away or moves them, and queues
\* only events numbered after the snapshot keeps RegistryInv.
LEMMA RegistryFrame ==
  ASSUME RegistryInv,
         UNCHANGED <<terminal, sub, live_start_seq, next_seq>>,
         subscribers' \subseteq subscribers,
         \A s \in Subs :
           /\ s \in targets' \/ s = current' => s \in targets \/ s = current
           /\ queue_closed'[s] => queue_closed[s] \/ (s \notin subscribers' /\ sub[s] # "none")
           /\ \/ queue'[s] = queue[s]
              \/ /\ sub[s] # "none"
                 /\ \A i \in 1..Len(queue'[s]) : queue'[s][i].seq >= live_start_seq[s]
  PROVE  RegistryInv'
<1>1. subscribers' # {} => terminal' = NoEvent
  BY Zenon DEF RegistryInv
<1>2. ASSUME NEW s \in Subs
      PROVE  /\ sub'[s] = "none" => ~HasSender(s)' /\ queue'[s] = <<>>
             /\ s \in subscribers' => sub'[s] = "open"
             /\ queue_closed'[s] => s \notin subscribers' /\ sub'[s] # "none"
             /\ live_start_seq'[s] <= next_seq'
             /\ s \in targets' \/ s = current' => live_start_seq'[s] < next_seq'
             /\ \A i \in 1..Len(queue'[s]) : queue'[s][i].seq >= live_start_seq'[s]
  BY Zenon DEF RegistryInv, HasSender
<1> QED BY Zenon, <1>1, <1>2 DEF RegistryInv

\* An action that neither sends to s, nor receives for it, nor numbers an event
\* keeps LineInv(s).
LEMMA LineInvFrame ==
  ASSUME NEW s \in Subs, LineInv(s), next_seq' = next_seq,
         pos'[s] = pos[s], gapped'[s] = gapped[s],
         sub_replay'[s] = sub_replay[s], queue'[s] = queue[s],
         s \in targets' \/ s = current' => /\ s \in targets \/ s = current
                                         /\ indexed' = indexed,
         s \in subscribers' /\ pc' # "stopped" /\ s \notin targets' /\ s # current' =>
           s \in subscribers /\ pc # "stopped" /\ s \notin targets /\ s # current
  PROVE  LineInv(s)'
<1>1. /\ Chain(Mark(s), sub_replay[s])' /\ Chain(ReplayEnd(s), queue[s])'
      /\ QueueEnd(s)' = QueueEnd(s)
  BY Zenon, LineFrame DEF LineInv
<1> QED BY Zenon, <1>1 DEF LineInv

\* What recv returns is the new mark, unless it ends the subscription.
LEMMA ReturnsMark ==
  ASSUME TypeOK, NEW r \in Subs, NEW e \in Event, Returns(r, e)
  PROVE  /\ pos' \in [Subs -> Nat] /\ gapped' \in [Subs -> BOOLEAN]
         /\ outcome' \in [Subs -> {"open", "eof", "error", "none"}]
         /\ sub' \in [Subs -> {"none", "open", "done", "dropped"}]
         /\ subscribers' \subseteq subscribers
         /\ \A s \in Subs \ {r} : /\ pos'[s] = pos[s] /\ gapped'[s] = gapped[s]
                                  /\ sub'[s] = sub[s]
                                  /\ s \in subscribers' <=> s \in subscribers
         /\ IsTerminal(e) => sub'[r] = "done" /\ r \notin subscribers'
         /\ ~IsTerminal(e) => /\ Alike(e, Mark(r)') /\ sub'[r] = sub[r]
                              /\ subscribers' = subscribers
<1> USE DEF TypeOK, Event, IsTerminal, Terminals
<1>1. pos' \in [Subs -> Nat] /\ outcome' \in [Subs -> {"open", "eof", "error", "none"}]
      /\ sub' \in [Subs -> {"none", "open", "done", "dropped"}]
      /\ subscribers' \subseteq subscribers
  BY DEF Returns
<1>2. gapped' \in [Subs -> BOOLEAN]
  BY Zenon DEF Returns
<1>3. \A s \in Subs \ {r} : /\ pos'[s] = pos[s] /\ gapped'[s] = gapped[s]
                            /\ sub'[s] = sub[s]
                            /\ s \in subscribers' <=> s \in subscribers
  BY Zenon DEF Returns
<1>4. IsTerminal(e) => sub'[r] = "done" /\ r \notin subscribers'
  BY Zenon DEF Returns
<1>5. ASSUME ~IsTerminal(e)
      PROVE  Alike(e, Mark(r)') /\ sub'[r] = sub[r] /\ subscribers' = subscribers
  <2>1. sub'[r] = sub[r] /\ subscribers' = subscribers
    BY Zenon, <1>5 DEF Returns
  <2>2. e.ev \in {"chunk", "gap"} /\ e.seq \in Nat
    BY Zenon, <1>5
  <2>3. CASE e.ev = "chunk"
    <3>1. pos'[r] = e.seq + 1 /\ gapped'[r] = FALSE
      BY Zenon, <2>3 DEF Returns
    <3>2. Mark(r)' = [seq |-> e.seq + 1 - 1, ev |-> "chunk"]
      BY SMTT(60), <3>1 DEF Mark
    <3>3. e.seq + 1 - 1 = e.seq
      BY <2>2
    <3> QED BY Zenon, <2>1, <2>3, <3>2, <3>3 DEF Alike
  <2>4. CASE e.ev = "gap"
    <3>1. gapped'[r] = TRUE
      BY Zenon, <2>4 DEF Returns
    <3> QED BY Zenon, <2>1, <2>4, <3>1 DEF Alike, Mark
  <2> QED BY Zenon, <2>2, <2>3, <2>4
<1> QED BY Zenon, <1>1, <1>2, <1>3, <1>4, <1>5

-----------------------------------------------------------------------------
(* The replay window and the snapshot *)

\* What PushChunk does to the numbering and to the replay window.
LEMMA PushChunkWindow ==
  ASSUME IInv, terminal = NoEvent, UNCHANGED replay_sealed,
         NEW len \in Nat, PushChunk(len)
  PROVE  /\ output' \in Seq(Nat) /\ Len(output') = Len(output) + 1
         /\ \A i, j \in 1..Len(output') : i <= j => output'[i] <= output'[j]
         /\ next_seq' = next_seq + 1 /\ next_seq = Len(output)
         /\ indexed' = [seq |-> next_seq, ev |-> "chunk"]
         /\ replay' \in Seq(Event)
         /\ replay_chunk_count' \in Nat /\ replay_byte_count' \in Nat
         /\ WindowInv'
<1> DEFINE e == [seq |-> next_seq, ev |-> "chunk"]
           L == Len(output)
           end == Offset(output, next_seq) + len
           out == Append(output, end)
           r == Append(replay, e)
<1>1. /\ output \in Seq(Nat) /\ replay \in Seq(Event) /\ L \in Nat /\ Len(replay) \in Nat
      /\ next_seq = L /\ Len(replay) <= L /\ next_seq \in Nat
      /\ replay_chunk_count = Len(replay) /\ replay_byte_count \in Nat
      /\ \A i \in 1..Len(replay) :
           replay[i] = [seq |-> L - Len(replay) + i - 1, ev |-> "chunk"]
      /\ replay_byte_count = Offset(output, L) - Offset(output, L - Len(replay))
      /\ \A i, j \in 1..L : i <= j => output[i] <= output[j]
  BY Zenon DEF IInv, TypeOK, NumberInv, WindowInv
<1>2. Offset(output, L) \in Nat /\ \A i \in 1..L : output[i] <= Offset(output, L)
  BY <1>1 DEF Offset
<1>3. end \in Nat /\ \A i \in 1..L : output[i] <= end
  BY SMTT(60), <1>1, <1>2
<1>4. /\ out \in Seq(Nat) /\ Len(out) = L + 1 /\ out[L + 1] = end
      /\ \A i \in 1..L : out[i] = output[i]
  BY <1>1, <1>3
<1>5. \A i, j \in 1..Len(out) : i <= j => out[i] <= out[j]
  <2> HIDE DEF L, end, out
  <2> SUFFICES ASSUME NEW i \in 1..(L + 1), NEW j \in 1..(L + 1), i <= j
               PROVE  out[i] <= out[j]
    BY Zenon, <1>4
  <2>1. CASE j = L + 1 /\ i = L + 1
    BY <1>3, <1>4, <2>1
  <2>2. CASE j = L + 1 /\ i \in 1..L
    BY Zenon, <1>3, <1>4, <2>2
  <2>3. CASE j \in 1..L /\ i \in 1..L
    BY Zenon, <1>1, <1>4, <2>3
  <2>4. (j = L + 1 \/ j \in 1..L) /\ (i = L + 1 \/ i \in 1..L)
    BY <1>1
  <2>5. j \in 1..L => i \in 1..L
    BY <1>1
  <2> QED BY Zenon, <2>1, <2>2, <2>3, <2>4, <2>5
<1>6. /\ r \in Seq(Event) /\ Len(r) = Len(replay) + 1
      /\ \A i \in 1..Len(r) : r[i] = [seq |-> L - Len(replay) + i - 1, ev |-> "chunk"]
  <2>1. /\ e \in Event /\ r \in Seq(Event) /\ Len(r) = Len(replay) + 1
        /\ r[Len(replay) + 1] = e /\ \A i \in 1..Len(replay) : r[i] = replay[i]
    BY <1>1 DEF Event
  <2>2. e = [seq |-> L - Len(replay) + (Len(replay) + 1) - 1, ev |-> "chunk"]
    BY <1>1
  <2> HIDE DEF e, r, L
  <2>3. \A i \in 1..(Len(replay) + 1) : i = Len(replay) + 1 \/ i \in 1..Len(replay)
    BY <1>1
  <2> QED BY Zenon, <1>1, <2>1, <2>2, <2>3
<1>7. /\ \A n \in 0..L : Offset(out, n) = Offset(output, n)
      /\ Offset(out, L + 1) = Offset(output, L) + len
      /\ \A n \in 0..(L + 1) : Offset(out, n) \in Nat
      /\ \A m, n \in 0..(L + 1) : m <= n => Offset(out, m) <= Offset(out, n)
  <2>1. end = Offset(output, L) + len
    BY Zenon, <1>1
  <2> HIDE DEF L, end, out
  <2>2. \A n \in 0..L : n = 0 \/ n \in 1..L
    BY <1>1
  <2>3. \A n \in 0..L : Offset(out, n) = Offset(output, n)
    BY Zenon, <1>4, <2>2 DEF Offset
  <2>4. Offset(out, L + 1) = Offset(output, L) + len
    BY <1>1, <1>4, <2>1 DEF Offset
  <2>5. \A n \in 0..(L + 1) : n = 0 \/ n \in 1..(L + 1)
    BY <1>1
  <2>6. \A n \in 1..(L + 1) : out[n] \in Nat
    <3>1. \A n \in 1..Len(out) : out[n] \in Nat
      BY <1>4
    <3> QED BY Zenon, <1>4, <3>1
  <2>7. \A n \in 0..(L + 1) : Offset(out, n) \in Nat
    BY Zenon, <2>5, <2>6 DEF Offset
  <2>8. ASSUME NEW m \in 0..(L + 1), NEW n \in 0..(L + 1), m <= n
        PROVE  Offset(out, m) <= Offset(out, n)
    <3>1. CASE m = 0
      BY <2>7, <3>1 DEF Offset
    <3>2. CASE m # 0
      <4>1. m \in 1..Len(out) /\ n \in 1..Len(out) /\ n # 0
        BY <1>1, <1>4, <2>8, <3>2
      <4> QED BY Zenon, <1>5, <2>8, <3>2, <4>1 DEF Offset
    <3> QED BY Zenon, <3>1, <3>2
  <2> QED BY Zenon, <2>3, <2>4, <2>7, <2>8
<1>8. output' = out /\ next_seq' = next_seq + 1 /\ indexed' = e
  BY Zenon DEF PushChunk
<1>p. RetainsReplay =>
        \E k \in 0..Len(r) :
          /\ replay' = SubSeq(r, k + 1, Len(r))
          /\ replay_chunk_count' = (replay_chunk_count + 1) - k
          /\ replay_byte_count' = (replay_byte_count + len) - PoppedBytes(out, r, k)
  BY Zenon DEF PushChunk
<1> HIDE DEF e, L, end, out, r
<1>9. CASE RetainsReplay
  <2>1. PICK k \in 0..Len(r) :
          /\ replay' = SubSeq(r, k + 1, Len(r))
          /\ replay_chunk_count' = (replay_chunk_count + 1) - k
          /\ replay_byte_count' = (replay_byte_count + len) - PoppedBytes(out, r, k)
    BY Zenon, <1>9, <1>p
  <2>2. k \in Nat /\ k <= Len(replay) + 1
    BY <1>1, <1>6, <2>1
  <2>3. /\ replay' \in Seq(Event) /\ Len(replay') = Len(replay) + 1 - k
        /\ \A i \in 1..Len(replay') : replay'[i] = r[k + i]
    <3>1. Len(r) \in Nat /\ k + 1 \in 1..(Len(r) + 1)
      BY <1>1, <1>6, <2>2
    <3>2. /\ SubSeq(r, k + 1, Len(r)) \in Seq(Event)
          /\ Len(SubSeq(r, k + 1, Len(r))) = Len(r) - k
          /\ \A i \in 1..(Len(r) - k) : SubSeq(r, k + 1, Len(r))[i] = r[k + i]
      <4>1. \A i \in (k + 1)..Len(r) : r[i] \in Event
        BY <1>6, <2>2
      <4> QED BY <2>2, <3>1, <4>1
    <3>3. Len(r) - k = Len(replay) + 1 - k
      BY <1>6
    <3>4. replay' = SubSeq(r, k + 1, Len(r))
      BY Zenon, <2>1
    <3> QED BY Zenon, <3>2, <3>3, <3>4
  <2>4. \A i \in 1..Len(replay') :
          replay'[i] = [seq |-> (L + 1) - Len(replay') + i - 1, ev |-> "chunk"]
    <3> SUFFICES ASSUME NEW i \in 1..Len(replay')
                 PROVE  replay'[i] = [seq |-> (L + 1) - Len(replay') + i - 1, ev |-> "chunk"]
      BY Zenon
    <3>1. k + i \in 1..Len(r)
      BY <1>1, <1>6, <2>2, <2>3
    <3>2. L - Len(replay) + (k + i) - 1 = (L + 1) - Len(replay') + i - 1
      <4>1. L \in Nat /\ Len(replay) \in Nat /\ k \in Nat /\ i \in Nat
        BY <1>1, <2>2, <2>3
      <4>2. Len(replay') = Len(replay) + 1 - k
        BY Zenon, <2>3
      <4> QED BY <4>1, <4>2
    <3>3. r[k + i] = [seq |-> L - Len(replay) + (k + i) - 1, ev |-> "chunk"]
      BY Zenon, <1>6, <3>1
    <3>4. replay'[i] = r[k + i]
      BY Zenon, <2>3
    <3> QED BY Zenon, <3>2, <3>3, <3>4
  <2>5. PoppedBytes(out, r, k) = Offset(out, (L - Len(replay)) + k) - Offset(out, L - Len(replay))
    <3>1. CASE k = 0
      BY <1>1, <1>7, <3>1 DEF PoppedBytes
    <3>2. CASE k > 0
      <4>1. r[k].seq = (L - Len(replay)) + k - 1 /\ r[1].seq = L - Len(replay)
        BY SMTT(60), <1>1, <1>6, <2>2, <3>2
      <4>2. (L - Len(replay)) + k - 1 + 1 = (L - Len(replay)) + k
        BY SMTT(60), <1>1, <2>2
      <4> QED BY <3>2, <4>1, <4>2 DEF PoppedBytes
    <3> QED BY <2>2, <3>1, <3>2
  <2>6. L - Len(replay) \in 0..L /\ (L - Len(replay)) + k \in 0..(L + 1)
    BY <1>1, <2>2
  <2>7. replay_byte_count + len = Offset(out, L + 1) - Offset(out, L - Len(replay))
    <3>1. /\ Offset(out, L - Len(replay)) = Offset(output, L - Len(replay))
          /\ Offset(out, L - Len(replay)) \in Nat
          /\ Offset(out, L + 1) = Offset(output, L) + len
      BY <1>1, <1>7, <2>6
    <3>2. replay_byte_count = Offset(output, L) - Offset(output, L - Len(replay))
      BY Zenon, <1>1
    <3>3. Offset(output, L) \in Nat
      BY Zenon, <1>2
    <3> QED BY <3>1, <3>2, <3>3
  <2>8. replay_byte_count' = Offset(out, L + 1) - Offset(out, (L - Len(replay)) + k)
    <3>1. /\ Offset(out, L + 1) \in Nat /\ Offset(out, L - Len(replay)) \in Nat
          /\ Offset(out, (L - Len(replay)) + k) \in Nat
      <4>1. L + 1 \in 0..(L + 1) /\ L - Len(replay) \in 0..(L + 1)
        BY <1>1
      <4> QED BY Zenon, <1>7, <2>6, <4>1
    <3> QED BY SMTT(20), <2>1, <2>5, <2>7, <3>1
  <2>9. replay_byte_count' \in Nat
    <3>1. /\ Offset(out, L + 1) \in Nat /\ Offset(out, (L - Len(replay)) + k) \in Nat
          /\ Offset(out, (L - Len(replay)) + k) <= Offset(out, L + 1)
      <4>1. L + 1 \in 0..(L + 1) /\ (L - Len(replay)) + k <= L + 1
        BY <1>1, <2>2
      <4> QED BY Zenon, <1>7, <2>6, <4>1
    <3> QED BY <2>8, <3>1
  <2>10. (L + 1) - Len(replay') = (L - Len(replay)) + k
    BY <1>1, <2>2, <2>3
  <2>11. replay_chunk_count' = Len(replay') /\ replay_chunk_count' \in Nat
    <3>1. replay_chunk_count' = (Len(replay) + 1) - k
      BY Zenon, <1>1, <2>1
    <3> QED BY <1>1, <2>2, <2>3, <3>1
  <2>12. Len(output') = L + 1 /\ Len(replay') <= L + 1
    BY <1>1, <1>4, <1>8, <2>2, <2>3
  <2>13. replay_byte_count' = Offset(output', L + 1) - Offset(output', (L + 1) - Len(replay'))
    BY Zenon, <1>8, <2>8, <2>10
  <2>14. RetainsReplay'
    BY Zenon, <1>9 DEF RetainsReplay
  <2>15. WindowInv'
    BY Zenon, <2>4, <2>11, <2>12, <2>13, <2>14 DEF WindowInv
  <2> QED BY Zenon, <1>1, <1>4, <1>5, <1>8, <2>3, <2>9, <2>11, <2>15 DEF e, L
<1>10. CASE ~RetainsReplay
  <2>1. UNCHANGED <<replay, replay_chunk_count, replay_byte_count>>
    BY Zenon, <1>10 DEF PushChunk
  <2>2. replay = <<>>
    BY Zenon, <1>10 DEF IInv, WindowInv
  <2>3. Len(replay) = 0 /\ replay_chunk_count = 0 /\ replay_byte_count = 0
    BY <1>1, <1>2, <2>2
  <2>4. WindowInv'
    BY SMTT(60), <1>1, <1>4, <1>7, <1>8, <2>1, <2>2, <2>3 DEF WindowInv, L
  <2> QED BY Zenon, <1>1, <1>4, <1>5, <1>8, <2>1, <2>3, <2>4 DEF e, L
<1> QED BY Zenon, <1>9, <1>10

\* What replay_snapshot hands a new subscription: consecutive events that start
\* where its position is set and end with the last event appended.
LEMMA SnapshotChain ==
  ASSUME IInv
  PROVE  LET p == IF ReplaySnapshot # <<>> /\ Head(ReplaySnapshot).ev = "chunk"
                  THEN Head(ReplaySnapshot).seq ELSE Len(output)
             mark == [seq |-> p - 1, ev |-> "chunk"]
         IN  /\ ReplaySnapshot \in Seq(Event)
             /\ p \in Nat /\ p = Len(output) - Len(replay)
             /\ Chain(mark, ReplaySnapshot)
             /\ terminal = NoEvent => EndOf(mark, ReplaySnapshot).seq + 1 = next_seq
<1> DEFINE R == ReplaySnapshot
           W == IF RetainsReplay THEN replay ELSE <<>>
           base == Len(output) - Len(replay)
           p == IF R # <<>> /\ Head(R).ev = "chunk" THEN Head(R).seq ELSE Len(output)
           mark == [seq |-> p - 1, ev |-> "chunk"]
<1>1. /\ W = replay /\ replay \in Seq(Event) /\ Len(replay) \in Nat
      /\ Len(output) \in Nat /\ Len(replay) <= Len(output)
      /\ \A i \in 1..Len(replay) : replay[i] = [seq |-> Len(output) - Len(replay) + i - 1, ev |-> "chunk"]
  BY DEF IInv, TypeOK, WindowInv
<1>2. /\ base \in Nat /\ base + Len(replay) = Len(output)
      /\ replay \in Seq(Event) /\ Len(replay) \in Nat /\ Len(output) \in Nat
      /\ \A i \in 1..Len(replay) : replay[i].seq = (base + i) - 1 /\ replay[i].ev = "chunk"
  <2>1. base \in Nat /\ base + Len(replay) = Len(output)
    BY <1>1
  <2>2. \A i \in 1..Len(replay) : replay[i].seq = base + (i - 1) /\ replay[i].ev = "chunk"
    <3>1. \A i \in 1..Len(replay) : replay[i] = [seq |-> base + (i - 1), ev |-> "chunk"]
      BY <1>1, Zenon
    <3> TAKE i \in 1..Len(replay)
    <3>2. replay[i] = [seq |-> base + (i - 1), ev |-> "chunk"]
      BY Zenon, <3>1
    <3> HIDE DEF base
    <3> QED BY <2>1, <3>2
  <2> HIDE DEF base
  <2>3. \A i \in 1..Len(replay) : base + (i - 1) = (base + i) - 1
    BY <1>1, <2>1
  <2> QED BY Zenon, <1>1, <2>1, <2>2, <2>3
<1>3. /\ terminal = NoEvent => R = replay
      /\ terminal # NoEvent => /\ R = Append(replay, terminal) /\ terminal \in Event
                               /\ terminal.seq = Len(output) /\ terminal.ev # "chunk"
                               /\ terminal.ev # "gap"
  BY Zenon, <1>1 DEF ReplaySnapshot, IInv, NumberInv, IsTerminal, Terminals
<1>4. terminal = NoEvent => next_seq = Len(output)
  BY Zenon DEF IInv, NumberInv
<1> HIDE DEF R, W
<1>5. /\ R \in Seq(Event) /\ Len(R) \in Nat
      /\ \A i \in 1..Len(R) : R[i].seq = (base + i) - 1
  <2>1. CASE terminal = NoEvent
    BY Zenon, <1>2, <1>3, <2>1
  <2>2. CASE terminal # NoEvent
    <3>1. /\ R \in Seq(Event) /\ Len(R) = Len(replay) + 1 /\ R[Len(replay) + 1] = terminal
          /\ \A i \in 1..Len(replay) : R[i] = replay[i]
      BY SMTT(20), <1>1, <1>3, <2>2
    <3>2. terminal.seq = (base + (Len(replay) + 1)) - 1
      BY <1>1, <1>2, <1>3, <2>2
    <3> HIDE DEF base
    <3>3. ASSUME NEW i \in 1..(Len(replay) + 1) PROVE R[i].seq = (base + i) - 1
      <4>1. CASE i = Len(replay) + 1
        BY Zenon, <3>1, <3>2, <4>1
      <4>2. CASE i \in 1..Len(replay)
        BY Zenon, <1>2, <3>1, <4>2
      <4> QED BY <1>1, <4>1, <4>2
    <3> QED BY <1>1, <3>1, <3>3
  <2> QED BY Zenon, <2>1, <2>2
<1>6. p = base
  <2>1. CASE Len(replay) = 0
    <3>1. base = Len(output)
      BY <1>1, <2>1
    <3>2. R # <<>> => Head(R).ev # "chunk"
      BY <1>1, <1>3, <2>1
    <3> QED BY Zenon, <3>1, <3>2
  <2>2. CASE Len(replay) > 0
    <3>1. R # <<>> /\ Head(R) = replay[1]
      BY <1>1, <1>3, <2>2
    <3>2. replay[1].ev = "chunk" /\ replay[1].seq = (base + 1) - 1
      BY <1>2, <2>2
    <3> QED BY <1>2, <3>1, <3>2
  <2> QED BY <1>1, <2>1, <2>2
<1>7. mark = [seq |-> base - 1, ev |-> "chunk"]
  BY Zenon, <1>6
<1> HIDE DEF base, mark, p
<1>8. Chain(mark, R)
  <2>1. R # <<>> => R[1].seq = base /\ mark.seq + 1 = base
    BY <1>2, <1>5, <1>7
  <2>2. \A i \in 2..Len(R) : R[i].seq = R[i - 1].seq + 1
    BY SMTT(60), <1>2, <1>5
  <2> QED BY Zenon, <2>1, <2>2 DEF Chain, Follows
<1>9. terminal = NoEvent => EndOf(mark, R).seq + 1 = next_seq
  <2> SUFFICES ASSUME terminal = NoEvent PROVE EndOf(mark, R).seq + 1 = next_seq
    BY Zenon
  <2>1. CASE R = <<>>
    <3>1. EndOf(mark, R).seq = base - 1 /\ Len(replay) = 0
      BY Zenon, <1>1, <1>3, <1>7, <2>1 DEF EndOf
    <3> QED BY <1>1, <1>2, <1>4, <3>1
  <2>2. CASE R # <<>>
    <3>1. EndOf(mark, R) = R[Len(R)] /\ Len(R) \in 1..Len(R) /\ Len(R) = Len(replay)
      BY <1>3, <1>5, <2>2 DEF EndOf
    <3>2. R[Len(R)].seq = (base + Len(R)) - 1
      BY Zenon, <1>5, <3>1
    <3> QED BY <1>1, <1>2, <1>4, <3>1, <3>2
  <2> QED BY Zenon, <2>1, <2>2
<1>10. p \in Nat
  BY Zenon, <1>2, <1>6
<1> QED BY Zenon, <1>5, <1>6, <1>8, <1>9, <1>10 DEF R, p, mark, base

-----------------------------------------------------------------------------
(* Reading and appending *)

\* ReadBytes only fills the buffer.
LEMMA ReadBytesIInv == ASSUME IInv, NEW n \in 1..MaxRead, ReadBytes(n) PROVE IInv'
<1> USE DEF stateVars, replayVars, readerVars, subVars, histVars
<1>1. TypeOK'
  BY ConfigAssumption DEF IInv, TypeOK, ReadBytes
<1>2. ReaderInv'
  BY ConfigAssumption DEF IInv, TypeOK, ReaderInv, ReadBytes
<1>3. NumberInv'
  BY Zenon DEF IInv, TypeOK, NumberInv, ReaderInv, ReadBytes
<1>4. WindowInv'
  BY Zenon, WindowFrame DEF IInv, ReadBytes
<1>5. RegistryInv'
  BY Zenon, RegistryFrame DEF IInv, ReadBytes
<1>6. (\A s \in Subs : sub[s] = "open" => LineInv(s))'
  BY Zenon, LineInvFrame DEF IInv, ReadBytes
<1> QED BY Zenon, <1>1, <1>2, <1>3, <1>4, <1>5, <1>6 DEF IInv

\* AppendChunk numbers a chunk, retains it and puts it in flight.
LEMMA AppendChunkIInv == ASSUME IInv, AppendChunk PROVE IInv'
<1> USE DEF stateVars, replayVars, readerVars, subVars, histVars
<1>a. PICK split_to \in Nat : /\ split_to <= buf /\ buf' = buf - split_to
                              /\ PushChunk(split_to)
  BY ConfigAssumption DEF IInv, TypeOK, AppendChunk
<1>b. /\ terminal = NoEvent /\ pc = "append" /\ targets = {} /\ current = NoSub
      /\ targets' = subscribers /\ pc' = "send" /\ buf' \in Nat
      /\ UNCHANGED <<subscribers, replay_sealed, terminal, closed, current, stale>>
      /\ UNCHANGED <<stream, sub, sub_replay, live_start_seq, live_closed, queue,
                     queue_closed, pos, gapped, outcome>>
  BY <1>a DEF IInv, TypeOK, ReaderInv, AppendChunk
<1>c. /\ output' \in Seq(Nat) /\ Len(output') = Len(output) + 1
      /\ \A i, j \in 1..Len(output') : i <= j => output'[i] <= output'[j]
      /\ next_seq' = next_seq + 1 /\ next_seq = Len(output)
      /\ indexed' = [seq |-> next_seq, ev |-> "chunk"]
      /\ replay' \in Seq(Event)
      /\ replay_chunk_count' \in Nat /\ replay_byte_count' \in Nat
      /\ WindowInv'
  BY Zenon, <1>a, <1>b, PushChunkWindow
<1>d. next_seq \in Nat /\ indexed' \in Event /\ ~IsTerminal(indexed')
  BY Zenon, <1>c DEF IInv, TypeOK, Event, IsTerminal, Terminals
<1>1. TypeOK'
  <2>1. next_seq' \in Nat
    BY <1>c, <1>d
  <2>2. pc' \in {"read", "append", "send", "stopped"} /\ TypeOK
    BY Zenon, <1>b DEF IInv
  <2> QED BY Zenon, <1>b, <1>c, <1>d, <2>1, <2>2 DEF TypeOK
<1>2. ReaderInv'
  BY Zenon, <1>b, <1>c, <1>d, ConfigAssumption DEF IInv, TypeOK, ReaderInv
<1>3. NumberInv'
  BY Zenon, <1>b, <1>c DEF NumberInv
<1>4. WindowInv'
  BY Zenon, <1>c
<1>5. RegistryInv'
  <2>1. /\ targets = {} /\ current = NoSub /\ NoSub \notin Subs /\ targets' = subscribers
        /\ next_seq \in Nat /\ next_seq' = next_seq + 1 /\ live_start_seq \in [Subs -> Nat]
        /\ UNCHANGED <<subscribers, terminal, current, sub, queue, queue_closed, live_start_seq>>
    BY Zenon, <1>b, <1>c, <1>d, ConfigAssumption DEF IInv, TypeOK
  <2>2. RegistryInv
    BY Zenon DEF IInv
  <2> QED BY <2>1, <2>2 DEF RegistryInv, HasSender
<1>6. (\A s \in Subs : sub[s] = "open" => LineInv(s))'
  <2> SUFFICES ASSUME NEW s \in Subs, sub[s] = "open" PROVE LineInv(s)'
    BY Zenon, <1>b
  <2>1. LineInv(s) /\ s # NoSub
    BY Zenon, ConfigAssumption DEF IInv
  <2>2. pos'[s] = pos[s] /\ gapped'[s] = gapped[s]
        /\ sub_replay'[s] = sub_replay[s] /\ queue'[s] = queue[s]
    BY Zenon, <1>b
  <2>3. s \in subscribers => Follows(QueueEnd(s), indexed')
    BY Zenon, <1>b, <1>c, <2>1 DEF LineInv, Follows, IInv, TypeOK
  <2> QED BY Zenon, <1>b, <2>1, <2>2, <2>3, LineFrame DEF LineInv
<1> QED BY Zenon, <1>1, <1>2, <1>3, <1>4, <1>5, <1>6 DEF IInv

\* AppendChunkClosed discards what was read.
LEMMA AppendChunkClosedIInv == ASSUME IInv, AppendChunkClosed PROVE IInv'
<1> USE DEF stateVars, replayVars, readerVars, subVars, histVars
<1>1. TypeOK'
  BY ConfigAssumption DEF IInv, TypeOK, AppendChunkClosed, AfterAppend
<1>2. ReaderInv'
  BY Zenon, ConfigAssumption DEF IInv, TypeOK, ReaderInv, AppendChunkClosed, AfterAppend
<1>3. NumberInv'
  BY Zenon DEF IInv, TypeOK, NumberInv, ReaderInv, AppendChunkClosed, AfterAppend
<1>4. WindowInv'
  BY Zenon, WindowFrame DEF IInv, AppendChunkClosed, AfterAppend
<1>5. RegistryInv'
  BY Zenon, RegistryFrame DEF IInv, AppendChunkClosed
<1>6. (\A s \in Subs : sub[s] = "open" => LineInv(s))'
  BY Zenon, LineInvFrame DEF IInv, AppendChunkClosed
<1> QED BY Zenon, <1>1, <1>2, <1>3, <1>4, <1>5, <1>6 DEF IInv

\* AppendTerminal numbers the last event and puts it in flight to everyone registered.
LEMMA AppendTerminalIInv == ASSUME IInv, NEW kind \in Terminals, AppendTerminal(kind) PROVE IInv'
<1> USE DEF stateVars, replayVars, readerVars, subVars, histVars
<1>1. TypeOK'
  <2>1. next_seq \in Nat /\ next_seq' = next_seq + 1 /\ TypeOK
    BY Zenon DEF IInv, TypeOK, AppendTerminal, PushTerminal
  <2>2. next_seq' \in Nat
    BY <2>1
  <2>3. indexed' \in Event /\ terminal' = indexed'
    BY Zenon, <2>1 DEF AppendTerminal, PushTerminal, Terminals, Event
  <2> QED BY Zenon, <2>1, <2>2, <2>3 DEF TypeOK, AppendTerminal, PushTerminal
<1>2. ReaderInv'
  BY Zenon, ConfigAssumption DEF IInv, TypeOK, ReaderInv, AppendTerminal, PushTerminal, IsTerminal, Terminals, Event, NoEvent
<1>3. NumberInv'
  BY Zenon DEF IInv, TypeOK, NumberInv, ReaderInv, AppendTerminal, PushTerminal, IsTerminal, Terminals, Event, NoEvent
<1>4. WindowInv'
  BY Zenon, WindowFrame DEF IInv, AppendTerminal, PushTerminal
<1>5. RegistryInv'
  <2>1. /\ targets = {} /\ current = NoSub /\ current' = NoSub /\ NoSub \notin Subs
        /\ targets' = subscribers /\ subscribers' = {}
        /\ next_seq \in Nat /\ next_seq' = next_seq + 1
        /\ live_start_seq \in [Subs -> Nat]
        /\ UNCHANGED <<sub, queue, queue_closed, live_start_seq>>
    BY Zenon, ConfigAssumption DEF IInv, TypeOK, ReaderInv, AppendTerminal, PushTerminal
  <2>2. RegistryInv
    BY Zenon DEF IInv
  <2> QED BY SMTT(60), <2>1, <2>2 DEF RegistryInv, HasSender
<1>6. (\A s \in Subs : sub[s] = "open" => LineInv(s))'
  <2> SUFFICES ASSUME NEW s \in Subs, sub[s] = "open" PROVE LineInv(s)'
    BY Zenon DEF AppendTerminal
  <2>1. LineInv(s)
    BY Zenon DEF IInv
  <2>2. pos'[s] = pos[s] /\ gapped'[s] = gapped[s]
        /\ sub_replay'[s] = sub_replay[s] /\ queue'[s] = queue[s]
    BY Zenon DEF AppendTerminal
  <2>3. /\ targets = {} /\ current = NoSub /\ current' = NoSub /\ s # NoSub
        /\ pc = "read" /\ targets' = subscribers /\ subscribers' = {}
        /\ indexed'.seq = next_seq
    BY Zenon, ConfigAssumption DEF IInv, ReaderInv, AppendTerminal, PushTerminal
  <2>4. s \in subscribers => Follows(QueueEnd(s), indexed')
    BY Zenon, <2>1, <2>3 DEF LineInv, Follows, IInv, TypeOK
  <2> QED BY Zenon, <2>1, <2>2, <2>3, <2>4, LineFrame DEF LineInv
<1> QED BY Zenon, <1>1, <1>2, <1>3, <1>4, <1>5, <1>6 DEF IInv

\* AppendTerminalClosed stops the reader.
LEMMA AppendTerminalClosedIInv == ASSUME IInv, AppendTerminalClosed PROVE IInv'
<1> USE DEF stateVars, replayVars, readerVars, subVars, histVars
<1>1. TypeOK'
  BY Zenon, ConfigAssumption DEF IInv, TypeOK, AppendTerminalClosed
<1>2. ReaderInv'
  BY Zenon, ConfigAssumption DEF IInv, TypeOK, ReaderInv, AppendTerminalClosed
<1>3. NumberInv'
  BY Zenon DEF IInv, TypeOK, NumberInv, ReaderInv, AppendTerminalClosed
<1>4. WindowInv'
  BY Zenon, WindowFrame DEF IInv, AppendTerminalClosed
<1>5. RegistryInv'
  BY Zenon, RegistryFrame DEF IInv, AppendTerminalClosed
<1>6. (\A s \in Subs : sub[s] = "open" => LineInv(s))'
  BY Zenon, LineInvFrame DEF IInv, AppendTerminalClosed
<1> QED BY Zenon, <1>1, <1>2, <1>3, <1>4, <1>5, <1>6 DEF IInv

-----------------------------------------------------------------------------
(* Sending *)

\* NextTarget moves a subscriber from the snapshot to the send.
LEMMA NextTargetIInv == ASSUME IInv, NEW r \in Subs, NextTarget(r) PROVE IInv'
<1> USE DEF stateVars, replayVars, readerVars, subVars, histVars
<1>1. TypeOK'
  BY Zenon, ConfigAssumption DEF IInv, TypeOK, NextTarget
<1>2. ReaderInv'
  BY Zenon, ConfigAssumption DEF IInv, TypeOK, ReaderInv, NextTarget
<1>3. NumberInv'
  BY Zenon DEF IInv, TypeOK, NumberInv, ReaderInv, NextTarget
<1>4. WindowInv'
  BY Zenon, WindowFrame DEF IInv, NextTarget
<1>5. RegistryInv'
  BY Zenon, RegistryFrame DEF IInv, NextTarget
<1>6. (\A s \in Subs : sub[s] = "open" => LineInv(s))'
  BY Zenon, LineInvFrame, ConfigAssumption DEF IInv, ReaderInv, NextTarget
<1> QED BY Zenon, <1>1, <1>2, <1>3, <1>4, <1>5, <1>6 DEF IInv

\* SendReliable turns the event in flight into the last one queued.
LEMMA SendReliableIInv == ASSUME IInv, NEW r \in Subs, SendReliable(r) PROVE IInv'
<1> USE DEF stateVars, replayVars, readerVars, subVars, histVars
<1>a. /\ pc = "send" /\ indexed \in Event /\ indexed.seq + 1 = next_seq
      /\ r \notin targets /\ live_start_seq[r] < next_seq
      /\ queue[r] \in Seq(Event) /\ r = current
  BY Zenon, ConfigAssumption DEF IInv, TypeOK, ReaderInv, RegistryInv, SendReliable
<1>b. /\ queue'[r] = Append(queue[r], indexed)
      /\ \A s \in Subs \ {r} : queue'[s] = queue[s]
      /\ queue' \in [Subs -> Seq(Event)]
  BY <1>a DEF IInv, TypeOK, SendReliable
<1>1. TypeOK'
  BY Zenon, <1>b DEF IInv, TypeOK, SendReliable
<1>2. ReaderInv'
  BY Zenon, ConfigAssumption DEF IInv, TypeOK, ReaderInv, SendReliable
<1>3. NumberInv'
  BY Zenon DEF IInv, NumberInv, SendReliable
<1>4. WindowInv'
  BY Zenon, WindowFrame DEF IInv, SendReliable
<1>5. RegistryInv'
  <2>1. \A i \in 1..Len(queue'[r]) : queue'[r][i].seq >= live_start_seq[r]
    <3>1. \A i \in 1..Len(queue[r]) : queue[r][i].seq >= live_start_seq[r]
      BY Zenon DEF IInv, RegistryInv
    <3>2. live_start_seq[r] \in Nat /\ next_seq \in Nat /\ indexed.seq \in Nat
      BY Zenon, <1>a DEF IInv, TypeOK, Event
    <3>3. indexed.seq >= live_start_seq[r]
      <4>1. indexed.seq + 1 = next_seq /\ live_start_seq[r] < next_seq
        BY Zenon, <1>a
      <4> QED BY SMTT(60), <3>2, <4>1
    <3>4. \A i \in 1..Len(queue'[r]) : queue'[r][i] = indexed \/ (i \in 1..Len(queue[r]) /\ queue'[r][i] = queue[r][i])
      BY <1>a, <1>b
    <3> QED BY Zenon, <3>1, <3>3, <3>4
  <2>2. sub[r] # "none"
    BY Zenon, <1>a DEF IInv, RegistryInv, HasSender
  <2>3. \A s \in Subs : queue'[s] = queue[s]
                          \/ /\ sub[s] # "none"
                             /\ \A i \in 1..Len(queue'[s]) : queue'[s][i].seq >= live_start_seq[s]
    BY Zenon, <1>b, <2>1, <2>2
  <2> QED BY Zenon, <2>3, RegistryFrame, ConfigAssumption DEF IInv, SendReliable
<1>6. (\A s \in Subs : sub[s] = "open" => LineInv(s))'
  <2> SUFFICES ASSUME NEW s \in Subs, sub[s] = "open" PROVE LineInv(s)'
    BY Zenon DEF SendReliable
  <2>1. LineInv(s)
    BY Zenon DEF IInv
  <2>2. CASE s # r
    <3>1. pos'[s] = pos[s] /\ gapped'[s] = gapped[s]
          /\ sub_replay'[s] = sub_replay[s] /\ queue'[s] = queue[s]
      BY Zenon, <1>b, <2>2 DEF SendReliable
    <3> QED BY Zenon, <1>a, <2>1, <2>2, <3>1, LineFrame, ConfigAssumption DEF LineInv, SendReliable
  <2>3. CASE s = r
    <3>1. Chain(ReplayEnd(r), queue'[r]) /\ EndOf(ReplayEnd(r), queue'[r]) = indexed
      <4>1. Chain(ReplayEnd(r), queue[r]) /\ Follows(EndOf(ReplayEnd(r), queue[r]), indexed)
        BY Zenon, <1>a, <2>1, <2>3 DEF LineInv, QueueEnd
      <4> QED BY SMTT(60), <1>a, <1>b, <4>1, ChainAppend
    <3>2. Mark(r)' = Mark(r) /\ sub_replay' = sub_replay
      BY Zenon DEF Mark, SendReliable
    <3>3. ReplayEnd(r)' = ReplayEnd(r) /\ QueueEnd(r)' = indexed
      BY Zenon, <3>1, <3>2 DEF ReplayEnd, QueueEnd, EndOf
    <3>4. Chain(Mark(r), sub_replay[r])' /\ Chain(ReplayEnd(r), queue[r])'
      BY Zenon, <2>1, <2>3, <3>1, <3>2, <3>3 DEF LineInv, Chain
    <3>5. current' # r /\ targets' = targets /\ next_seq' = next_seq
      BY Zenon, ConfigAssumption DEF SendReliable
    <3> QED BY Zenon, <1>a, <2>3, <3>3, <3>4, <3>5 DEF LineInv
  <2> QED BY Zenon, <2>2, <2>3
<1> QED BY Zenon, <1>1, <1>2, <1>3, <1>4, <1>5, <1>6 DEF IInv

\* SendStale only meets subscriptions that are dropped or deregistered.
LEMMA SendStaleIInv == ASSUME IInv, NEW r \in Subs, SendStale(r) PROVE IInv'
<1> USE DEF stateVars, replayVars, readerVars, subVars, histVars
<1>1. TypeOK'
  BY Zenon, ConfigAssumption DEF IInv, TypeOK, SendStale
<1>2. ReaderInv'
  BY Zenon, ConfigAssumption DEF IInv, TypeOK, ReaderInv, SendStale
<1>3. NumberInv'
  BY Zenon DEF IInv, NumberInv, SendStale
<1>4. WindowInv'
  BY Zenon, WindowFrame DEF IInv, SendStale
<1>5. RegistryInv'
  BY Zenon, RegistryFrame, ConfigAssumption DEF IInv, SendStale
<1>6. (\A s \in Subs : sub[s] = "open" => LineInv(s))'
  <2> SUFFICES ASSUME NEW s \in Subs, sub[s] = "open" PROVE LineInv(s)'
    BY Zenon DEF SendStale
  <2>1. LineInv(s)
    BY Zenon DEF IInv
  <2>2. pos'[s] = pos[s] /\ gapped'[s] = gapped[s]
        /\ sub_replay'[s] = sub_replay[s] /\ queue'[s] = queue[s]
    BY Zenon DEF SendStale
  <2>3. /\ current = r /\ current' = NoSub /\ s # NoSub
        /\ UNCHANGED <<targets, indexed, subscribers, pc, next_seq>>
    BY Zenon, ConfigAssumption DEF SendStale
  <2>4. s = r => s \notin subscribers
    BY Zenon, <2>3 DEF IInv, RegistryInv, SendStale
  <2> QED BY Zenon, <2>1, <2>2, <2>3, <2>4, LineFrame DEF LineInv
<1> QED BY Zenon, <1>1, <1>2, <1>3, <1>4, <1>5, <1>6 DEF IInv

\* SendBestEffort queues the event, or a Gap that excuses its loss.
LEMMA SendBestEffortIInv == ASSUME IInv, NEW r \in Subs, SendBestEffort(r) PROVE IInv'
<1> USE DEF stateVars, replayVars, readerVars, subVars, histVars
<1>a. /\ pc = "send" /\ indexed \in Event /\ indexed.seq + 1 = next_seq
      /\ r \notin targets /\ live_start_seq[r] < next_seq
      /\ queue[r] \in Seq(Event) /\ r = current
      /\ IsTerminal(indexed) => subscribers = {}
  BY Zenon, ConfigAssumption DEF IInv, TypeOK, ReaderInv, RegistryInv, SendBestEffort
<1>b. /\ sub[r] = "dropped" => queue' = queue
      /\ sub[r] # "dropped" => queue'[r] = BestEffortPush(queue[r], indexed)
      /\ \A s \in Subs \ {r} : queue'[s] = queue[s]
  BY Zenon DEF IInv, TypeOK, SendBestEffort
<1>c. /\ BestEffortPush(queue[r], indexed) \in Seq(Event)
      /\ \A i \in 1..Len(BestEffortPush(queue[r], indexed)) :
           BestEffortPush(queue[r], indexed)[i].seq >= live_start_seq[r]
  <2>1. \A i \in 1..Len(queue[r]) : queue[r][i].seq >= live_start_seq[r]
    BY Zenon DEF IInv, RegistryInv
  <2>2. live_start_seq[r] \in Nat /\ next_seq \in Nat /\ indexed.seq \in Nat
    BY Zenon, <1>a DEF IInv, TypeOK, Event
  <2>3. indexed.seq >= live_start_seq[r]
    <3>1. indexed.seq + 1 = next_seq /\ live_start_seq[r] < next_seq
      BY Zenon, <1>a
    <3> QED BY SMTT(60), <2>2, <3>1
  <2> QED BY Zenon, <1>a, <2>1, <2>2, <2>3, BestEffortPushElements
<1>d. queue' \in [Subs -> Seq(Event)]
  BY Zenon, <1>c DEF IInv, TypeOK, SendBestEffort
<1>1. TypeOK'
  <2>1. queue_closed' \in [Subs -> BOOLEAN]
    <3>1. queue_closed \in [Subs -> BOOLEAN]
          /\ queue_closed' = [queue_closed EXCEPT ![r] = indexed.ev \in Terminals]
      BY Zenon DEF IInv, TypeOK, SendBestEffort, IsTerminal
    <3>2. (indexed.ev \in Terminals) \in BOOLEAN
      BY SMTT(60)
    <3> QED BY Zenon, <3>1, <3>2
  <2> QED BY Zenon, <1>d, <2>1 DEF IInv, TypeOK, SendBestEffort
<1>2. ReaderInv'
  BY Zenon, ConfigAssumption DEF IInv, TypeOK, ReaderInv, SendBestEffort
<1>3. NumberInv'
  BY Zenon DEF IInv, NumberInv, SendBestEffort
<1>4. WindowInv'
  BY Zenon, WindowFrame DEF IInv, SendBestEffort
<1>5. RegistryInv'
  <2>1. \A i \in 1..Len(queue'[r]) : queue'[r][i].seq >= live_start_seq[r]
    BY Zenon, <1>b, <1>c DEF IInv, RegistryInv
  <2>2. sub[r] # "none"
    BY Zenon, <1>a DEF IInv, RegistryInv, HasSender
  <2>3. \A s \in Subs : queue_closed'[s] => queue_closed[s] \/ (s = r /\ subscribers = {})
    BY Zenon, <1>a DEF IInv, TypeOK, SendBestEffort
  <2>4. \A s \in Subs : queue'[s] = queue[s]
                          \/ /\ sub[s] # "none"
                             /\ \A i \in 1..Len(queue'[s]) : queue'[s][i].seq >= live_start_seq[s]
    BY Zenon, <1>b, <2>1, <2>2
  <2> QED BY Zenon, <2>2, <2>3, <2>4, RegistryFrame, ConfigAssumption DEF IInv, SendBestEffort
<1>6. (\A s \in Subs : sub[s] = "open" => LineInv(s))'
  <2> SUFFICES ASSUME NEW s \in Subs, sub[s] = "open" PROVE LineInv(s)'
    BY Zenon DEF SendBestEffort
  <2>1. LineInv(s)
    BY Zenon DEF IInv
  <2>2. CASE s # r
    <3>1. pos'[s] = pos[s] /\ gapped'[s] = gapped[s]
          /\ sub_replay'[s] = sub_replay[s] /\ queue'[s] = queue[s]
      BY Zenon, <1>b, <2>2 DEF SendBestEffort
    <3> QED BY Zenon, <1>a, <2>1, <2>2, <3>1, LineFrame, ConfigAssumption DEF LineInv, SendBestEffort
  <2>3. CASE s = r
    <3>0. queue'[r] = BestEffortPush(queue[r], indexed)
      BY Zenon, <1>b, <2>3
    <3>1. /\ Chain(ReplayEnd(r), queue'[r])
          /\ \/ EndOf(ReplayEnd(r), queue'[r]).ev = "gap"
             \/ EndOf(ReplayEnd(r), queue'[r]) = indexed
      <4>1. Chain(ReplayEnd(r), queue[r]) /\ Follows(EndOf(ReplayEnd(r), queue[r]), indexed)
        BY Zenon, <1>a, <2>1, <2>3 DEF LineInv, QueueEnd
      <4>2. queue[r] \in Seq(Event) /\ indexed \in Event
        BY Zenon, <1>a DEF IInv, TypeOK
      <4>3. /\ Chain(ReplayEnd(r), BestEffortPush(queue[r], indexed))
            /\ \/ EndOf(ReplayEnd(r), BestEffortPush(queue[r], indexed)).ev = "gap"
               \/ EndOf(ReplayEnd(r), BestEffortPush(queue[r], indexed)) = indexed
        BY Zenon, <4>1, <4>2, BestEffortPushChain
      <4> QED BY Zenon, <3>0, <4>3
    <3>2. Mark(r)' = Mark(r) /\ sub_replay' = sub_replay
      BY Zenon DEF Mark, SendBestEffort
    <3>3. ReplayEnd(r)' = ReplayEnd(r) /\ (QueueEnd(r)'.ev = "gap" \/ QueueEnd(r)' = indexed)
      BY Zenon, <3>1, <3>2 DEF ReplayEnd, QueueEnd, EndOf
    <3>4. Chain(Mark(r), sub_replay[r])' /\ Chain(ReplayEnd(r), queue[r])'
      BY Zenon, <2>1, <2>3, <3>1, <3>2, <3>3 DEF LineInv, Chain
    <3>5. current' # r /\ targets' = targets /\ next_seq' = next_seq
      BY Zenon, ConfigAssumption DEF SendBestEffort
    <3> QED BY Zenon, <1>a, <2>3, <3>3, <3>4, <3>5 DEF LineInv
  <2> QED BY Zenon, <2>2, <2>3
<1> QED BY Zenon, <1>1, <1>2, <1>3, <1>4, <1>5, <1>6 DEF IInv

\* FinishAppend deregisters; nothing is in flight any more.
LEMMA FinishAppendIInv == ASSUME IInv, FinishAppend PROVE IInv'
<1> USE DEF stateVars, replayVars, readerVars, subVars, histVars
<1>1. TypeOK'
  BY Zenon, ConfigAssumption DEF IInv, TypeOK, FinishAppend, AfterAppend, NoEvent
<1>2. ReaderInv'
  BY Zenon, ConfigAssumption DEF IInv, TypeOK, ReaderInv, FinishAppend, AfterAppend
<1>3. NumberInv'
  BY Zenon DEF IInv, TypeOK, NumberInv, ReaderInv, FinishAppend, AfterAppend
<1>4. WindowInv'
  BY Zenon, WindowFrame DEF IInv, FinishAppend, AfterAppend
<1>5. RegistryInv'
  BY Zenon, RegistryFrame DEF IInv, FinishAppend
<1>6. (\A s \in Subs : sub[s] = "open" => LineInv(s))'
  BY Zenon, LineInvFrame, ConfigAssumption DEF IInv, ReaderInv, FinishAppend
<1> QED BY Zenon, <1>1, <1>2, <1>3, <1>4, <1>5, <1>6 DEF IInv

\* ReaderCancelled stops the reader: nobody is owed anything more.
LEMMA ReaderCancelledIInv == ASSUME IInv, ReaderCancelled PROVE IInv'
<1> USE DEF stateVars, replayVars, readerVars, subVars, histVars
<1>1. TypeOK'
  BY Zenon, ConfigAssumption DEF IInv, TypeOK, ReaderCancelled, NoEvent
<1>2. ReaderInv'
  BY Zenon, ConfigAssumption DEF IInv, TypeOK, ReaderInv, ReaderCancelled
<1>3. NumberInv'
  BY Zenon DEF IInv, TypeOK, NumberInv, ReaderInv, ReaderCancelled
<1>4. WindowInv'
  BY Zenon, WindowFrame DEF IInv, ReaderCancelled
<1>5. RegistryInv'
  BY Zenon, RegistryFrame, ConfigAssumption DEF IInv, ReaderCancelled
<1>6. (\A s \in Subs : sub[s] = "open" => LineInv(s))'
  BY Zenon, LineInvFrame, ConfigAssumption DEF IInv, ReaderCancelled
<1> QED BY Zenon, <1>1, <1>2, <1>3, <1>4, <1>5, <1>6 DEF IInv

-----------------------------------------------------------------------------
(* Subscriptions *)

\* TrySubscribe hands over the snapshot and registers for what comes after it.
LEMMA TrySubscribeIInv == ASSUME IInv, NEW r \in Subs, TrySubscribe(r) PROVE IInv'
<1> USE DEF stateVars, replayVars, readerVars, subVars, histVars
<1> DEFINE R == ReplaySnapshot
           p == IF R # <<>> /\ Head(R).ev = "chunk" THEN Head(R).seq ELSE Len(output)
           mark == [seq |-> p - 1, ev |-> "chunk"]
<1>a. /\ R \in Seq(Event) /\ p \in Nat /\ Chain(mark, R)
      /\ terminal = NoEvent => EndOf(mark, R).seq + 1 = next_seq
  BY Zenon, SnapshotChain
<1>b. /\ sub[r] = "none" /\ sub' = [sub EXCEPT ![r] = "open"]
      /\ sub_replay' = [sub_replay EXCEPT ![r] = R]
      /\ live_start_seq' = [live_start_seq EXCEPT ![r] = next_seq]
      /\ pos' = [pos EXCEPT ![r] = p]
      /\ UNCHANGED <<queue, queue_closed, gapped, outcome, replay_sealed, terminal,
                     closed, stream>>
      /\ UNCHANGED replayVars /\ UNCHANGED readerVars
  BY Zenon DEF TrySubscribe
<1>c. /\ subscribers' \subseteq subscribers \cup {r} /\ subscribers \subseteq subscribers'
      /\ r \in subscribers' => r \in subscribers \/ terminal = NoEvent
      /\ live_closed' = [live_closed EXCEPT ![r] = closed \/ terminal # NoEvent]
  BY Zenon DEF TrySubscribe
<1> HIDE DEF R, p, mark
<1>d. TypeOK /\ ~HasSender(r) /\ queue[r] = <<>> /\ r \notin subscribers /\ r # NoSub
  BY Zenon, <1>b, ConfigAssumption DEF IInv, RegistryInv, HasSender
<1>1. TypeOK'
  <2>1. live_closed' \in [Subs -> BOOLEAN]
    <3>1. (closed \/ terminal # NoEvent) \in BOOLEAN
      BY Zenon
    <3> QED BY <1>c, <1>d, <3>1, Zenon DEF TypeOK
  <2>2. /\ sub' \in [Subs -> {"none", "open", "done", "dropped"}]
        /\ sub_replay' \in [Subs -> Seq(Event)] /\ live_start_seq' \in [Subs -> Nat]
        /\ pos' \in [Subs -> Nat] /\ subscribers' \subseteq Subs
    BY Zenon, <1>a, <1>b, <1>c, <1>d DEF TypeOK
  <2> QED BY Zenon, <1>b, <1>d, <2>1, <2>2 DEF TypeOK
<1>2. ReaderInv'
  BY Zenon, <1>b DEF IInv, ReaderInv
<1>3. NumberInv'
  BY Zenon, <1>b DEF IInv, NumberInv
<1>4. WindowInv'
  BY Zenon, <1>b, WindowFrame DEF IInv
<1>e. /\ sub'[r] = "open" /\ sub_replay'[r] = R /\ live_start_seq'[r] = next_seq
      /\ pos'[r] = p /\ next_seq \in Nat
      /\ \A s \in Subs \ {r} :
           /\ sub'[s] = sub[s] /\ sub_replay'[s] = sub_replay[s] /\ pos'[s] = pos[s]
           /\ live_start_seq'[s] = live_start_seq[s]
           /\ s \in subscribers' <=> s \in subscribers
  BY Zenon, <1>b, <1>c, <1>d DEF TypeOK
<1>5. RegistryInv'
  <2>1. subscribers' # {} => terminal = NoEvent
    BY Zenon, <1>c DEF IInv, RegistryInv
  <2>2. ~queue_closed[r]
    BY Zenon, <1>b DEF IInv, RegistryInv
  <2>3. /\ r \notin targets /\ r # current
        /\ \A i \in 1..Len(queue[r]) : queue[r][i].seq >= next_seq
    BY <1>d DEF HasSender
  <2> QED BY <1>b, <1>e, <2>1, <2>2, <2>3 DEF IInv, RegistryInv, HasSender
<1>6. (\A s \in Subs : sub[s] = "open" => LineInv(s))'
  <2> SUFFICES ASSUME NEW s \in Subs, sub'[s] = "open" PROVE LineInv(s)'
    BY Zenon
  <2>1. CASE s # r
    <3>1. LineInv(s) /\ pos'[s] = pos[s] /\ gapped'[s] = gapped[s]
          /\ sub_replay'[s] = sub_replay[s] /\ queue'[s] = queue[s]
          /\ (s \in subscribers' <=> s \in subscribers)
      BY Zenon, <1>b, <1>e, <2>1 DEF IInv
    <3> QED BY Zenon, <1>b, <3>1, LineFrame DEF LineInv
  <2>2. CASE s = r
    <3>1. Mark(r)' = mark \/ Mark(r)'.ev = "gap"
      BY Zenon, <1>b, <1>e DEF Mark, mark
    <3>2. Chain(Mark(r)', R)
      BY Zenon, <1>a, <3>1 DEF Chain, Follows
    <3>3. ReplayEnd(r)' = EndOf(Mark(r)', R) /\ QueueEnd(r)' = ReplayEnd(r)'
          /\ queue'[r] = <<>>
      <4>1. queue'[r] = <<>> /\ sub_replay'[r] = R
        BY Zenon, <1>b, <1>d, <1>e
      <4>2. ReplayEnd(r)' = EndOf(Mark(r)', R)
        BY Zenon, <4>1 DEF ReplayEnd, EndOf
      <4> QED BY Zenon, <4>1, <4>2 DEF QueueEnd, EndOf
    <3>4. terminal = NoEvent => QueueEnd(r)'.ev = "gap" \/ QueueEnd(r)'.seq + 1 = next_seq
      BY Zenon, <1>a, <3>1, <3>3 DEF EndOf
    <3>5. Chain(ReplayEnd(r), queue[r])'
      BY <3>3 DEF Chain
    <3>6. r \notin targets' /\ r # current'
      BY Zenon, <1>b, <1>d DEF HasSender
    <3>7. Chain(Mark(r), sub_replay[r])'
      BY Zenon, <1>e, <3>2 DEF Chain
    <3>8. r \in subscribers' => QueueEnd(r)'.ev = "gap" \/ QueueEnd(r)'.seq + 1 = next_seq'
      BY Zenon, <1>b, <1>c, <1>d, <3>4
    <3> QED BY Zenon, <2>2, <3>5, <3>6, <3>7, <3>8 DEF LineInv
  <2> QED BY Zenon, <2>1, <2>2
<1> QED BY Zenon, <1>1, <1>2, <1>3, <1>4, <1>5, <1>6 DEF IInv

\* RecvReplay moves the mark over the first event of the snapshot.
LEMMA RecvReplayIInv == ASSUME IInv, NEW r \in Subs, RecvReplay(r) PROVE IInv'
<1> USE DEF stateVars, replayVars, readerVars, subVars, histVars
<1> DEFINE e == Head(sub_replay[r])
<1>a. /\ sub_replay[r] \in Seq(Event) /\ sub_replay[r] # <<>> /\ e \in Event /\ e = sub_replay[r][1]
      /\ sub_replay' \in [Subs -> Seq(Event)] /\ sub_replay'[r] = Tail(sub_replay[r])
      /\ \A s \in Subs \ {r} : sub_replay'[s] = sub_replay[s]
  BY DEF IInv, TypeOK, RecvReplay
<1>b. Returns(r, e)
  BY Zenon DEF RecvReplay
<1>c. TypeOK
  BY Zenon DEF IInv
<1> HIDE DEF e
<1>1. TypeOK'
  <2>1. subscribers' \subseteq Subs
    BY Zenon, <1>a, <1>b, <1>c, ReturnsMark DEF TypeOK
  <2>2. /\ pos' \in [Subs -> Nat] /\ gapped' \in [Subs -> BOOLEAN]
        /\ outcome' \in [Subs -> {"open", "eof", "error", "none"}]
        /\ sub' \in [Subs -> {"none", "open", "done", "dropped"}]
    BY Zenon, <1>a, <1>b, <1>c, ReturnsMark
  <2> QED BY Zenon, <1>a, <1>c, <2>1, <2>2 DEF TypeOK, RecvReplay
<1>2. ReaderInv'
  BY Zenon DEF IInv, ReaderInv, RecvReplay
<1>3. NumberInv'
  BY Zenon DEF IInv, NumberInv, RecvReplay
<1>4. WindowInv'
  BY Zenon, WindowFrame DEF IInv, RecvReplay
<1>5. RegistryInv'
  <2>1. \A s \in Subs : (s \in subscribers' => s \in subscribers /\ sub'[s] = sub[s])
                        /\ (sub'[s] = "none" => sub[s] = "none")
                        /\ (sub[s] # "none" => sub'[s] # "none")
    BY <1>a, <1>b, <1>c, ReturnsMark DEF RecvReplay
  <2>2. subscribers' \subseteq subscribers
    BY Zenon, <1>a, <1>b, <1>c, ReturnsMark
  <2> QED BY Zenon, <2>1, <2>2 DEF IInv, RegistryInv, HasSender, RecvReplay
<1>6. (\A s \in Subs : sub[s] = "open" => LineInv(s))'
  <2> SUFFICES ASSUME NEW s \in Subs, sub'[s] = "open" PROVE LineInv(s)'
    BY Zenon
  <2>1. CASE s # r
    <3>1. LineInv(s) /\ (s \in subscribers' <=> s \in subscribers)
      BY Zenon, <1>a, <1>b, <1>c, <2>1, ReturnsMark DEF IInv
    <3>2. pos'[s] = pos[s] /\ gapped'[s] = gapped[s]
          /\ sub_replay'[s] = sub_replay[s] /\ queue'[s] = queue[s]
      BY Zenon, <1>a, <1>b, <1>c, <2>1, ReturnsMark DEF RecvReplay
    <3> QED BY Zenon, <3>1, <3>2, LineFrame DEF LineInv, RecvReplay
  <2>2. CASE s = r
    <3>1. ~IsTerminal(e)
      BY Zenon, <1>a, <1>b, <1>c, <2>2, ReturnsMark
    <3>2. Alike(e, Mark(r)') /\ subscribers' = subscribers /\ sub[r] = "open"
      BY Zenon, <1>a, <1>b, <1>c, <2>2, <3>1, ReturnsMark
    <3>3. LineInv(r)
      BY Zenon, <3>2 DEF IInv
    <3>4. Chain(Mark(r), sub_replay[r])' /\ Alike(ReplayEnd(r), ReplayEnd(r)')
      <4>1. /\ Chain(Mark(r)', Tail(sub_replay[r]))
            /\ Alike(EndOf(Mark(r), sub_replay[r]), EndOf(Mark(r)', Tail(sub_replay[r])))
        BY Zenon, <1>a, <3>2, <3>3, ChainTail DEF LineInv
      <4> QED BY Zenon, <1>a, <4>1 DEF Chain, ReplayEnd, EndOf
    <3>5. Chain(ReplayEnd(r), queue[r])' /\ Alike(QueueEnd(r), QueueEnd(r)')
      <4>1. queue' = queue /\ queue[r] \in Seq(Event)
        BY Zenon, <1>c DEF TypeOK, RecvReplay
      <4>2. /\ Chain(ReplayEnd(r)', queue[r])
            /\ Alike(EndOf(ReplayEnd(r), queue[r]), EndOf(ReplayEnd(r)', queue[r]))
        BY Zenon, <3>3, <3>4, <4>1, ChainAlike DEF LineInv
      <4> QED BY Zenon, <4>1, <4>2 DEF Chain, QueueEnd, EndOf
    <3>6. UNCHANGED <<targets, current, indexed, pc, next_seq>>
      BY Zenon DEF RecvReplay
    <3>7. s \in targets \/ s = current => Follows(QueueEnd(r)', indexed)
      BY Zenon, <2>2, <3>3, <3>5 DEF LineInv, Alike, Follows
    <3>8. s \in subscribers /\ pc # "stopped" /\ s \notin targets /\ s # current =>
            QueueEnd(r)'.ev = "gap" \/ QueueEnd(r)'.seq + 1 = next_seq
      BY Zenon, <2>2, <3>3, <3>5 DEF LineInv, Alike
    <3> QED BY Zenon, <2>2, <3>2, <3>4, <3>5, <3>6, <3>7, <3>8 DEF LineInv
  <2> QED BY Zenon, <2>1, <2>2
<1> QED BY Zenon, <1>1, <1>2, <1>3, <1>4, <1>5, <1>6 DEF IInv

\* RecvLive moves the mark over the first event queued; none is passed over.
LEMMA RecvLiveIInv == ASSUME IInv, NEW r \in Subs, RecvLive(r) PROVE IInv'
<1> USE DEF stateVars, replayVars, readerVars, subVars, histVars
<1> DEFINE e == Head(queue[r])
<1>a. /\ queue[r] \in Seq(Event) /\ queue[r] # <<>> /\ e \in Event /\ e = queue[r][1]
      /\ queue' \in [Subs -> Seq(Event)] /\ queue'[r] = Tail(queue[r])
      /\ \A s \in Subs \ {r} : queue'[s] = queue[s]
  BY SMTT(20) DEF IInv, TypeOK, RecvLive
<1>b. Returns(r, e)
  <2>1. e.seq >= live_start_seq[r]
    BY <1>a DEF IInv, TypeOK, RegistryInv
  <2>2. e.seq \in Nat /\ live_start_seq[r] \in Nat
    BY Zenon, <1>a DEF IInv, TypeOK, Event
  <2>3. ~(e.seq < live_start_seq[r])
    BY <2>1, <2>2
  <2> QED BY Zenon, <2>3 DEF RecvLive
<1>c. TypeOK
  BY Zenon DEF IInv
<1> HIDE DEF e
<1>1. TypeOK'
  <2>1. subscribers' \subseteq Subs
    BY Zenon, <1>a, <1>b, <1>c, ReturnsMark DEF TypeOK
  <2> QED BY ZenonT(30), <1>a, <1>b, <1>c, <2>1, ReturnsMark DEF TypeOK, RecvLive
<1>2. ReaderInv'
  BY Zenon DEF IInv, ReaderInv, RecvLive
<1>3. NumberInv'
  BY Zenon DEF IInv, NumberInv, RecvLive
<1>4. WindowInv'
  BY Zenon, WindowFrame DEF IInv, RecvLive
<1>5. RegistryInv'
  <2>1. \A s \in Subs : (s \in subscribers' => s \in subscribers /\ sub'[s] = sub[s])
                        /\ (sub'[s] = "none" => sub[s] = "none")
                        /\ (sub[s] # "none" => sub'[s] # "none")
    <3>1. \A s \in Subs \ {r} : sub'[s] = sub[s] /\ (s \in subscribers' <=> s \in subscribers)
      BY Zenon, <1>a, <1>b, <1>c, ReturnsMark
    <3>2. sub[r] # "none" /\ (IsTerminal(e) => sub'[r] = "done" /\ r \notin subscribers')
      <4>1. sub[r] # "none"
        BY Zenon DEF RecvLive
      <4>2. IsTerminal(e) => sub'[r] = "done" /\ r \notin subscribers'
        BY ZenonT(30), <1>b, <1>c DEF Returns, TypeOK
      <4> QED BY Zenon, <4>1, <4>2
    <3>3. ~IsTerminal(e) => sub'[r] = sub[r] /\ subscribers' = subscribers
      BY Zenon, <1>b, <1>c DEF Returns, TypeOK
    <3>4. "done" # "none"
      OBVIOUS
    <3> QED BY Zenon, <3>1, <3>2, <3>3, <3>4
  <2>2. subscribers' \subseteq subscribers /\ sub[r] # "none"
    BY Zenon, <1>a, <1>b, <1>c, ReturnsMark DEF RecvLive
  <2>3. \A s \in Subs : \A i \in 1..Len(queue'[s]) : queue'[s][i].seq >= live_start_seq[s]
    <3>1. \A i \in 1..Len(Tail(queue[r])) :
            i + 1 \in 1..Len(queue[r]) /\ Tail(queue[r])[i] = queue[r][i + 1]
      <4>1. PICK q \in Seq(Event) : q = queue[r] /\ q # <<>>
        BY Zenon, <1>a
      <4>2. \A i \in 1..Len(Tail(q)) : i + 1 \in 1..Len(q) /\ Tail(q)[i] = q[i + 1]
        <5> HIDE DEF IInv, RecvLive
        <5> QED BY SMTT(20), <4>1
      <4> QED BY Zenon, <4>1, <4>2
    <3>2. \A s \in Subs : \A i \in 1..Len(queue[s]) : queue[s][i].seq >= live_start_seq[s]
      BY Zenon DEF IInv, RegistryInv
    <3>3. \A i \in 1..Len(queue'[r]) : queue'[r][i].seq >= live_start_seq[r]
      BY Zenon, <1>a, <3>1, <3>2
    <3> QED BY Zenon, <1>a, <3>2, <3>3
  <2>4. \A s \in Subs : sub'[s] = "none" => queue'[s] = <<>>
    BY Zenon, <1>a, <2>1, <2>2 DEF IInv, RegistryInv
  <2> QED BY Zenon, <2>1, <2>2, <2>3, <2>4 DEF IInv, RegistryInv, HasSender, RecvLive
<1>6. (\A s \in Subs : sub[s] = "open" => LineInv(s))'
  <2> SUFFICES ASSUME NEW s \in Subs, sub'[s] = "open" PROVE LineInv(s)'
    BY Zenon
  <2>1. CASE s # r
    <3>1. LineInv(s) /\ (s \in subscribers' <=> s \in subscribers)
      <4>1. sub[s] = "open" /\ (s \in subscribers' <=> s \in subscribers)
        BY Zenon, <1>a, <1>b, <1>c, <2>1, ReturnsMark
      <4> QED BY Zenon, <4>1 DEF IInv
    <3>2. pos'[s] = pos[s] /\ gapped'[s] = gapped[s]
          /\ sub_replay'[s] = sub_replay[s] /\ queue'[s] = queue[s]
      BY Zenon, <1>a, <1>b, <1>c, <2>1, ReturnsMark DEF RecvLive
    <3> QED BY Zenon, <3>1, <3>2, LineFrame DEF LineInv, RecvLive
  <2>2. CASE s = r
    <3>1. ~IsTerminal(e)
      BY Zenon, <1>a, <1>b, <1>c, <2>2, ReturnsMark
    <3>2. Alike(e, Mark(r)') /\ subscribers' = subscribers /\ sub[r] = "open"
      BY Zenon, <1>a, <1>b, <1>c, <2>2, <3>1, ReturnsMark
    <3>3. LineInv(r)
      BY Zenon, <3>2 DEF IInv
    <3>4. Chain(Mark(r), sub_replay[r])' /\ sub_replay'[r] = <<>> /\ ReplayEnd(r)' = Mark(r)'
      <4>1. sub_replay'[r] = <<>>
        BY Zenon DEF RecvLive
      <4>2. ReplayEnd(r)' = Mark(r)'
        BY Zenon, <4>1 DEF ReplayEnd, EndOf
      <4>3. Chain(Mark(r)', <<>>)
        BY DEF Chain
      <4> QED BY Zenon, <4>1, <4>2, <4>3 DEF Chain
    <3>5. Chain(ReplayEnd(r), queue[r])' /\ Alike(QueueEnd(r), QueueEnd(r)')
      <4>1. /\ Chain(Mark(r)', Tail(queue[r]))
            /\ Alike(EndOf(ReplayEnd(r), queue[r]), EndOf(Mark(r)', Tail(queue[r])))
        BY Zenon, <1>a, <3>2, <3>3, ChainTail DEF LineInv
      <4> QED BY Zenon, <1>a, <3>4, <4>1 DEF Chain, QueueEnd, EndOf
    <3>6. UNCHANGED <<targets, current, indexed, pc, next_seq>>
      BY Zenon DEF RecvLive
    <3>7. s \in targets \/ s = current => Follows(QueueEnd(r)', indexed)
      BY Zenon, <2>2, <3>3, <3>5 DEF LineInv, Alike, Follows
    <3>8. s \in subscribers /\ pc # "stopped" /\ s \notin targets /\ s # current =>
            QueueEnd(r)'.ev = "gap" \/ QueueEnd(r)'.seq + 1 = next_seq
      BY Zenon, <2>2, <3>3, <3>5 DEF LineInv, Alike
    <3> QED BY Zenon, <2>2, <3>2, <3>4, <3>5, <3>6, <3>7, <3>8 DEF LineInv
  <2> QED BY Zenon, <2>1, <2>2
<1> QED BY Zenon, <1>1, <1>2, <1>3, <1>4, <1>5, <1>6 DEF IInv

\* RecvNone only records the end of the subscription.
LEMMA RecvNoneIInv == ASSUME IInv, NEW r \in Subs, RecvNone(r) PROVE IInv'
<1> USE DEF stateVars, replayVars, readerVars, subVars, histVars
<1>1. TypeOK'
  <2>1. outcome' \in [Subs -> {"open", "eof", "error", "none"}]
    BY DEF IInv, TypeOK, RecvNone
  <2> QED BY Zenon, <2>1 DEF IInv, TypeOK, RecvNone
<1>2. ReaderInv'
  BY Zenon, ConfigAssumption DEF IInv, TypeOK, ReaderInv, RecvNone
<1>3. NumberInv'
  BY Zenon DEF IInv, TypeOK, NumberInv, ReaderInv, RecvNone
<1>4. WindowInv'
  BY Zenon, WindowFrame DEF IInv, RecvNone
<1>5. RegistryInv'
  BY Zenon, RegistryFrame DEF IInv, RecvNone
<1>6. (\A s \in Subs : sub[s] = "open" => LineInv(s))'
  BY Zenon, LineInvFrame DEF IInv, RecvNone
<1> QED BY Zenon, <1>1, <1>2, <1>3, <1>4, <1>5, <1>6 DEF IInv

\* DropSubscription ends what is owed to the subscription.
LEMMA DropSubscriptionIInv == ASSUME IInv, NEW r \in Subs, DropSubscription(r) PROVE IInv'
<1> USE DEF stateVars, replayVars, readerVars, subVars, histVars
<1>1. TypeOK'
  <2>1. 0 \in Nat /\ <<>> \in Seq(Event)
    OBVIOUS
  <2>2. /\ sub' \in [Subs -> {"none", "open", "done", "dropped"}]
        /\ sub_replay' \in [Subs -> Seq(Event)] /\ queue' \in [Subs -> Seq(Event)]
        /\ live_start_seq' \in [Subs -> Nat] /\ subscribers' \subseteq Subs
    BY Zenon, <2>1 DEF IInv, TypeOK, DropSubscription
  <2>3. live_closed' \in [Subs -> BOOLEAN]
    BY Zenon DEF IInv, TypeOK, DropSubscription
  <2> QED BY Zenon, <2>2, <2>3 DEF IInv, TypeOK, DropSubscription
<1>2. ReaderInv'
  BY Zenon, ConfigAssumption DEF IInv, TypeOK, ReaderInv, DropSubscription
<1>3. NumberInv'
  BY Zenon DEF IInv, TypeOK, NumberInv, ReaderInv, DropSubscription
<1>4. WindowInv'
  BY Zenon, WindowFrame DEF IInv, DropSubscription
<1>5. RegistryInv'
  <2>1. /\ sub[r] # "none" /\ sub'[r] = "dropped"
        /\ \A s \in Subs \ {r} : /\ sub'[s] = sub[s] /\ queue'[s] = queue[s]
                                 /\ live_start_seq'[s] = live_start_seq[s]
                                 /\ s \in subscribers' <=> s \in subscribers
        /\ queue'[r] = <<>> /\ live_start_seq'[r] = 0
        /\ live_start_seq[r] \in Nat /\ next_seq \in Nat
    BY Zenon DEF IInv, TypeOK, DropSubscription
  <2>2. /\ subscribers' \subseteq subscribers /\ r \notin subscribers'
        /\ UNCHANGED <<terminal, targets, current, next_seq, queue_closed>>
    BY Zenon DEF IInv, RegistryInv, DropSubscription
  <2>3. RegistryInv
    BY Zenon DEF IInv
  <2> QED BY SMTT(60), <2>1, <2>2, <2>3 DEF RegistryInv, HasSender
<1>6. (\A s \in Subs : sub[s] = "open" => LineInv(s))'
  <2> SUFFICES ASSUME NEW s \in Subs, sub'[s] = "open" PROVE LineInv(s)'
    BY Zenon
  <2>1. /\ s # r /\ sub[s] = "open"
        /\ sub_replay'[s] = sub_replay[s] /\ queue'[s] = queue[s]
    BY Zenon DEF IInv, TypeOK, DropSubscription
  <2>2. LineInv(s)
    BY Zenon, <2>1 DEF IInv
  <2>3. /\ UNCHANGED <<next_seq, pos, gapped, targets, current, indexed, pc>>
        /\ subscribers' \subseteq subscribers
    BY Zenon DEF DropSubscription
  <2> QED BY Zenon, <2>1, <2>2, <2>3, LineInvFrame
<1> QED BY Zenon, <1>1, <1>2, <1>3, <1>4, <1>5, <1>6 DEF IInv

-----------------------------------------------------------------------------
(* The stream object *)

\* SealReplay empties the window.
LEMMA SealReplayIInv == ASSUME IInv, SealReplay PROVE IInv'
<1> USE DEF stateVars, replayVars, readerVars, subVars, histVars
<1>1. TypeOK'
  BY SMTT(60) DEF IInv, TypeOK, SealReplay
<1>2. ReaderInv'
  BY Zenon, ConfigAssumption DEF IInv, TypeOK, ReaderInv, SealReplay
<1>3. NumberInv'
  BY Zenon DEF IInv, TypeOK, NumberInv, ReaderInv, SealReplay
<1>4. WindowInv'
  <2>1. /\ replay' = <<>> /\ replay_chunk_count' = 0 /\ replay_byte_count' = 0
        /\ output' = output /\ Len(output) \in Nat
        /\ Offset(output, Len(output)) \in Int
    BY DEF IInv, TypeOK, SealReplay, Offset
  <2> QED BY SMTT(20), <2>1 DEF WindowInv, Offset
<1>5. RegistryInv'
  BY Zenon, RegistryFrame DEF IInv, SealReplay
<1>6. (\A s \in Subs : sub[s] = "open" => LineInv(s))'
  BY Zenon, LineInvFrame DEF IInv, SealReplay
<1> QED BY Zenon, <1>1, <1>2, <1>3, <1>4, <1>5, <1>6 DEF IInv

\* DropStream only marks the stream.
LEMMA DropStreamIInv == ASSUME IInv, DropStream PROVE IInv'
<1> USE DEF stateVars, replayVars, readerVars, subVars, histVars
<1>1. TypeOK'
  BY Zenon, ConfigAssumption DEF IInv, TypeOK, DropStream
<1>2. ReaderInv'
  BY Zenon, ConfigAssumption DEF IInv, TypeOK, ReaderInv, DropStream
<1>3. NumberInv'
  BY Zenon DEF IInv, TypeOK, NumberInv, ReaderInv, DropStream
<1>4. WindowInv'
  BY Zenon, WindowFrame DEF IInv, DropStream
<1>5. RegistryInv'
  BY Zenon, RegistryFrame DEF IInv, DropStream
<1>6. (\A s \in Subs : sub[s] = "open" => LineInv(s))'
  BY Zenon, LineInvFrame DEF IInv, DropStream
<1> QED BY Zenon, <1>1, <1>2, <1>3, <1>4, <1>5, <1>6 DEF IInv

\* CloseForDrop empties the registry.
LEMMA CloseForDropIInv == ASSUME IInv, CloseForDrop PROVE IInv'
<1> USE DEF stateVars, replayVars, readerVars, subVars, histVars
<1>1. TypeOK'
  BY Zenon, ConfigAssumption DEF IInv, TypeOK, CloseForDrop
<1>2. ReaderInv'
  BY Zenon, ConfigAssumption DEF IInv, TypeOK, ReaderInv, CloseForDrop
<1>3. NumberInv'
  BY Zenon DEF IInv, TypeOK, NumberInv, ReaderInv, CloseForDrop
<1>4. WindowInv'
  BY Zenon, WindowFrame DEF IInv, CloseForDrop
<1>5. RegistryInv'
  <2>1. \A s \in Subs : queue_closed'[s] => queue_closed[s] \/ sub[s] # "none"
    BY Zenon DEF IInv, RegistryInv, CloseForDrop
  <2> QED BY Zenon, <2>1, RegistryFrame DEF IInv, CloseForDrop
<1>6. (\A s \in Subs : sub[s] = "open" => LineInv(s))'
  BY Zenon, LineInvFrame DEF IInv, CloseForDrop
<1> QED BY Zenon, <1>1, <1>2, <1>3, <1>4, <1>5, <1>6 DEF IInv

-----------------------------------------------------------------------------
(* The inductive invariant holds *)

\* A stream starts with an empty window and nobody registered.
LEMMA InitIInv == Init => IInv
<1> SUFFICES ASSUME Init PROVE IInv
  BY Zenon
<1>1. TypeOK
  <2>1. /\ replay_sealed \in BOOLEAN /\ closed \in BOOLEAN
        /\ live_closed \in [Subs -> BOOLEAN] /\ queue_closed \in [Subs -> BOOLEAN]
        /\ gapped \in [Subs -> BOOLEAN]
    BY Zenon DEF Init
  <2>2. <<>> \in Seq(Event) /\ <<>> \in Seq(Nat)
    OBVIOUS
  <2> QED BY Zenon, <2>1, <2>2 DEF Init, TypeOK
<1>2. ReaderInv
  BY Zenon, ConfigAssumption DEF Init, ReaderInv, NoEvent
<1>3. NumberInv
  BY DEF Init, NumberInv
<1>4. WindowInv
  BY DEF Init, WindowInv, Offset, RetainsReplay
<1>5. RegistryInv
  BY ConfigAssumption DEF Init, RegistryInv, HasSender
<1>6. \A s \in Subs : sub[s] = "open" => LineInv(s)
  BY Zenon DEF Init
<1> QED BY Zenon, <1>1, <1>2, <1>3, <1>4, <1>5, <1>6 DEF IInv

\* A step that changes nothing keeps the invariant.
LEMMA StutterIInv == IInv /\ UNCHANGED vars => IInv'
<1> SUFFICES ASSUME IInv, UNCHANGED vars PROVE IInv'
  BY Zenon
<1> USE DEF vars, stateVars, replayVars, readerVars, subVars, histVars
<1>1. TypeOK'
  BY DEF IInv, TypeOK
<1>2. ReaderInv'
  BY Zenon DEF IInv, ReaderInv
<1>3. NumberInv'
  BY Zenon DEF IInv, NumberInv
<1>4. WindowInv'
  BY Zenon, WindowFrame DEF IInv
<1>5. RegistryInv'
  BY Zenon, RegistryFrame DEF IInv
<1>6. (\A s \in Subs : sub[s] = "open" => LineInv(s))'
  <2>1. ASSUME NEW s \in Subs, sub[s] = "open" PROVE LineInv(s)'
    BY Zenon, <2>1, LineInvFrame DEF IInv
  <2> QED BY Zenon, <2>1
<1> QED BY Zenon, <1>1, <1>2, <1>3, <1>4, <1>5, <1>6 DEF IInv

\* Every step of the backend preserves the inductive invariant.
LEMMA NextIInv == IInv /\ [Next]_vars => IInv'
<1> SUFFICES ASSUME IInv, [Next]_vars PROVE IInv'
  BY Zenon
<1>1. CASE Reader
  <2>1. CASE \E s \in Subs : \/ NextTarget(s) \/ SendReliable(s)
                             \/ SendStale(s) \/ SendBestEffort(s)
    BY Zenon, <2>1, NextTargetIInv, SendReliableIInv, SendStaleIInv, SendBestEffortIInv
  <2> QED BY Zenon, <1>1, <2>1, AppendChunkIInv, AppendChunkClosedIInv, FinishAppendIInv DEF Reader
<1>2. CASE ReadReturns
  BY Zenon, <1>2, ReadBytesIInv, AppendTerminalIInv, AppendTerminalClosedIInv DEF ReadReturns
<1>3. CASE \E s \in Subs : TrySubscribe(s) \/ Recv(s) \/ DropSubscription(s)
  <2>1. PICK s \in Subs : TrySubscribe(s) \/ Recv(s) \/ DropSubscription(s)
    BY Zenon, <1>3
  <2>2. CASE Recv(s)
    BY Zenon, <2>2, RecvReplayIInv, RecvLiveIInv, RecvNoneIInv DEF Recv
  <2> QED BY Zenon, <2>1, <2>2, TrySubscribeIInv, DropSubscriptionIInv
<1>4. CASE ReaderCancelled \/ SealReplay \/ DropStream \/ CloseForDrop
  BY Zenon, <1>4, ReaderCancelledIInv, SealReplayIInv, DropStreamIInv, CloseForDropIInv
<1>5. CASE Finished \/ UNCHANGED vars
  BY Zenon, <1>5, StutterIInv DEF Finished
<1> QED BY Zenon, <1>1, <1>2, <1>3, <1>4, <1>5 DEF Next

\* The inductive invariant holds throughout.
THEOREM Invariant == Spec => []IInv
<1>1. Init => IInv
  BY Zenon, InitIInv
<1>2. IInv /\ [Next]_vars => IInv'
  BY Zenon, NextIInv
<1> QED BY <1>1, <1>2, PTL DEF Spec

-----------------------------------------------------------------------------
(* Theorems *)

\* The state of the backend stays well typed, the replay counters in particular
\* never fall below zero (push_event, pop_replay_front).
THEOREM TypeCorrect == Spec => []TypeOK
<1>1. IInv => TypeOK
  BY SMTT(20) DEF IInv
<1> QED BY <1>1, Invariant, PTL

\* The lines of the inductive invariant, put together, are HandoffContinuous.
LEMMA IInvHandoff == IInv => HandoffContinuous
<1> SUFFICES ASSUME IInv, NEW s \in Subs, sub[s] = "open"
             PROVE  LET t == Tape(s) IN
                    /\ \A i \in 2..Len(t) : \/ t[i].ev = "gap" \/ t[i - 1].ev = "gap"
                                            \/ t[i].seq = t[i - 1].seq + 1
                    /\ s \in subscribers /\ pc # "stopped" =>
                         t[Len(t)].ev = "gap" \/ t[Len(t)].seq + 1 = next_seq
  BY DEF HandoffContinuous
<1> DEFINE m == Mark(s)
           A == sub_replay[s]
           B == queue[s]
           C == InFlight(s)
           AB == A \o B
           P == AB \o C
           t == <<m>> \o P
<1>1. LineInv(s) /\ A \in Seq(Event) /\ B \in Seq(Event) /\ next_seq \in Nat /\ s # NoSub
  BY ConfigAssumption DEF IInv, TypeOK
<1>2. pc = "send" => indexed \in Event /\ indexed.seq + 1 = next_seq
  BY SMTT(20) DEF IInv, ReaderInv
<1>3. pc # "send" => s \notin targets /\ s # current
  BY <1>1 DEF IInv, ReaderInv
<1>4. C \in Seq(Event) /\ Chain(QueueEnd(s), C)
  <2>1. CASE pc = "send" /\ (s \in targets \/ current = s)
    <3>1. C = <<indexed>> /\ indexed \in Event /\ Follows(QueueEnd(s), indexed)
      BY <1>1, <1>2, <2>1 DEF InFlight, LineInv
    <3>2. <<indexed>> \in Seq(Event) /\ Len(<<indexed>>) = 1 /\ <<indexed>>[1] = indexed
      BY <3>1
    <3> HIDE DEF C
    <3> QED BY SMTT(20), <3>1, <3>2 DEF Chain
  <2>2. CASE ~(pc = "send" /\ (s \in targets \/ current = s))
    <3>1. C = <<>>
      BY <2>2 DEF InFlight
    <3> QED BY <3>1 DEF Chain
  <2> QED BY <2>1, <2>2
<1>5. s \in subscribers /\ pc # "stopped" =>
        EndOf(QueueEnd(s), C).ev = "gap" \/ EndOf(QueueEnd(s), C).seq + 1 = next_seq
  <2>1. CASE pc = "send" /\ (s \in targets \/ current = s)
    <3>1. C = <<indexed>> /\ indexed.seq + 1 = next_seq
      BY <1>2, <2>1 DEF InFlight
    <3>2. EndOf(QueueEnd(s), <<indexed>>) = indexed
      BY SMTT(20) DEF EndOf
    <3> QED BY <3>1, <3>2
  <2>2. CASE ~(pc = "send" /\ (s \in targets \/ current = s))
    <3>1. C = <<>> /\ s \notin targets /\ s # current
      BY SMTT(20), <1>3, <2>2 DEF InFlight
    <3> QED BY <1>1, <3>1 DEF LineInv, EndOf
  <2> QED BY <2>1, <2>2
<1>6. /\ AB \in Seq(Event) /\ Chain(m, AB)
      /\ EndOf(m, AB) = QueueEnd(s)
  <2>1. Chain(m, A) /\ Chain(EndOf(m, A), B) /\ QueueEnd(s) = EndOf(EndOf(m, A), B)
    BY Zenon, <1>1 DEF LineInv, ReplayEnd, QueueEnd
  <2>2. A \in Seq(Event) /\ B \in Seq(Event)
    BY Zenon, <1>1
  <2> HIDE DEF m, A, B
  <2> QED BY SMTT(20), <2>1, <2>2, ChainConcat
<1>7. P \in Seq(Event) /\ Chain(m, P) /\ EndOf(m, P) = EndOf(QueueEnd(s), C)
  <2> HIDE DEF AB, C, m
  <2>1. Chain(EndOf(m, AB), C)
    BY <1>4, <1>6
  <2> QED BY <1>4, <1>6, <2>1, ChainConcat
<1>8. Tape(s) = t
  BY DEF Tape, Pending, Mark
<1> HIDE DEF C, m, P
<1>9. /\ Len(P) \in Nat /\ Len(t) = Len(P) + 1 /\ t[1] = m
      /\ \A i \in 1..Len(P) : t[i + 1] = P[i]
  <2>1. P \in Seq(Event \cup {m}) /\ <<m>> \in Seq(Event \cup {m}) /\ Len(<<m>>) = 1
    BY <1>7
  <2> QED BY <2>1
<1> HIDE DEF t
<1>10. \A i \in 2..Len(t) : Follows(t[i - 1], t[i])
  <2> TAKE i \in 2..Len(t)
  <2>1. CASE i = 2
    <3>1. P # <<>> /\ 1 \in 1..Len(P) /\ t[2] = P[1] /\ t[i - 1] = m
      BY <1>7, <1>9, <2>1
    <3> QED BY <1>7, <2>1, <3>1 DEF Chain
  <2>2. CASE i > 2
    <3>1. /\ i - 1 \in 2..Len(P) /\ i - 1 \in 1..Len(P) /\ (i - 1) - 1 \in 1..Len(P)
          /\ (i - 1) + 1 = i /\ ((i - 1) - 1) + 1 = i - 1
      BY SMTT(20), <1>9, <2>2
    <3>2. t[i] = P[i - 1] /\ t[i - 1] = P[(i - 1) - 1]
      BY SMTT(20), <1>9, <3>1
    <3> QED BY SMTT(20), <1>7, <3>1, <3>2 DEF Chain
  <2> QED BY <1>9, <2>1, <2>2
<1>11. t[Len(t)] = EndOf(m, P)
  <2>1. CASE P = <<>>
    BY SMTT(20), <1>9, <2>1 DEF EndOf
  <2>2. CASE P # <<>>
    <3>1. Len(P) \in 1..Len(P)
      BY <1>7, <1>9, <2>2
    <3> QED BY <1>9, <2>2, <3>1 DEF EndOf
  <2> QED BY <2>1, <2>2
<1> QED BY SMTT(20), <1>5, <1>7, <1>8, <1>10, <1>11 DEF Follows

\* For every set of subscriptions, capacity, retention policy and chunk size, the
\* move from the replay snapshot to the live queue neither loses nor repeats an
\* event without a Gap (try_subscribe, append_event, recv, BestEffortLiveQueue::push).
THEOREM Handoff == Spec => []HandoffContinuous
  BY Invariant, IInvHandoff, PTL

-----------------------------------------------------------------------------
(* The replay window *)

\* The window is the run that the policy covers: it ends nowhere else than where
\* trim_replay_window stops.
WindowEdge ==
  LET start == Len(output) - Len(replay)
      last == Offset(output, Len(output))
  IN
  /\ Retention = "all" => start = 0
  /\ Retention = "chunks" => Len(replay) <= RetainN /\ (start = 0 \/ Len(replay) = RetainN)
  /\ Retention = "bytes" => /\ replay # <<>> => last - Offset(output, start + 1) < RetainN
                            /\ start = 0 \/ last - Offset(output, start) >= RetainN

EdgeInv == RetainsReplay => WindowEdge

\* Later chunks end later.
LEMMA OffsetsGrow ==
  ASSUME NEW out \in Seq(Nat), \A i, j \in 1..Len(out) : i <= j => out[i] <= out[j]
  PROVE  /\ \A n \in 0..Len(out) : Offset(out, n) \in Nat
         /\ \A m, n \in 0..Len(out) : m <= n => Offset(out, m) <= Offset(out, n)
<1>1. \A n \in 0..Len(out) : Offset(out, n) \in Nat
  BY DEF Offset
<1>2. ASSUME NEW m \in 0..Len(out), NEW n \in 0..Len(out), m <= n
      PROVE  Offset(out, m) <= Offset(out, n)
  <2>1. CASE m = 0
    BY <1>1, <2>1 DEF Offset
  <2>2. CASE m # 0
    <3>1. m \in 1..Len(out) /\ n \in 1..Len(out) /\ n # 0
      BY <1>2, <2>2
    <3> QED BY Zenon, <1>2, <2>2, <3>1 DEF Offset
  <2> QED BY Zenon, <2>1, <2>2
<1> QED BY Zenon, <1>1, <1>2

\* The window with the new chunk is still too large without its first j chunks.
StillTooLarge(j) ==
  /\ j < Len(replay) + 1
  /\ \/ Retention = "chunks" /\ (Len(replay) + 1) - j > RetainN
     \/ /\ Retention = "bytes"
        /\ Offset(output', Len(output) + 1)
             - Offset(output', (Len(output) - Len(replay)) + (j + 1)) >= RetainN

\* What the loop of trim_replay_window decides on: its counters say how large the
\* window is.
LEMMA PopsFrontMeans ==
  ASSUME IInv, terminal = NoEvent, RetainsReplay, UNCHANGED replay_sealed,
         NEW len \in Nat, PushChunk(len)
  PROVE  \E k \in 0..(Len(replay) + 1) :
           /\ Len(replay') = (Len(replay) + 1) - k
           /\ \A j \in 0..(k - 1) : StillTooLarge(j)
           /\ ~StillTooLarge(k)
<1> DEFINE e == [seq |-> next_seq, ev |-> "chunk"]
           L == Len(output)
           N == Len(replay)
           base == L - N
           end == Offset(output, next_seq) + len
           out == Append(output, end)
           r == Append(replay, e)
           chunks == replay_chunk_count + 1
           bytes == replay_byte_count + len
<1>1. /\ output \in Seq(Nat) /\ replay \in Seq(Event) /\ L \in Nat /\ N \in Nat
      /\ next_seq = L /\ N <= L /\ next_seq \in Nat
      /\ replay_chunk_count = N /\ replay_byte_count \in Nat
      /\ \A i \in 1..N : replay[i] = [seq |-> (L - N) + i - 1, ev |-> "chunk"]
      /\ replay_byte_count = Offset(output, L) - Offset(output, L - N)
      /\ \A i, j \in 1..L : i <= j => output[i] <= output[j]
  BY Zenon DEF IInv, TypeOK, NumberInv, WindowInv
<1>2. /\ output' = out /\ output' \in Seq(Nat) /\ Len(output') = L + 1
      /\ \A i, j \in 1..Len(output') : i <= j => output'[i] <= output'[j]
  BY Zenon, PushChunkWindow DEF PushChunk
<1>3. PICK k \in 0..Len(r) :
        /\ \A j \in 0..(k - 1) : PopsFront(out, r, chunks, bytes, j)
        /\ ~PopsFront(out, r, chunks, bytes, k)
        /\ replay' = SubSeq(r, k + 1, Len(r))
  BY Zenon DEF PushChunk
<1>4. /\ Len(r) = N + 1 /\ Len(r) \in Nat /\ r[N + 1] = e
      /\ \A i \in 1..N : r[i] = replay[i]
  BY SMTT(20), <1>1
<1>5. Len(replay') = (N + 1) - k /\ k \in Nat /\ k <= N + 1
  BY <1>1, <1>3, <1>4
<1>6. \A i \in 1..(N + 1) : r[i].seq = base + (i - 1)
  <2>1. \A i \in 1..N : replay[i].seq = (L - N) + i - 1
    <3>1. \A i \in 1..N : replay[i] = [seq |-> (L - N) + i - 1, ev |-> "chunk"]
      BY Zenon, <1>1
    <3>2. \A x : [seq |-> x, ev |-> "chunk"].seq = x
      BY SMTT(20)
    <3> QED BY Zenon, <3>1, <3>2
  <2>2. \A i \in 1..N : (L - N) + i - 1 = base + (i - 1)
    BY SMTT(20), <1>1
  <2>3. \A i \in 1..(N + 1) : i \in 1..N \/ i = N + 1
    BY SMTT(20), <1>1
  <2>4. e.seq = base + ((N + 1) - 1)
    BY <1>1
  <2> HIDE DEF e, r, base
  <2> QED BY Zenon, <1>4, <2>1, <2>2, <2>3, <2>4
<1>7. /\ \A n \in 0..L : Offset(out, n) = Offset(output, n)
      /\ Offset(out, L + 1) = Offset(output, L) + len
  <2>1. Offset(output, L) \in Nat
    BY SMTT(20), <1>1 DEF Offset
  <2>2. /\ out[L + 1] = Offset(output, L) + len
        /\ \A i \in 1..L : out[i] = output[i]
    BY <1>1, <2>1
  <2> HIDE DEF out, L
  <2>3. \A n \in 0..L : n = 0 \/ n \in 1..L
    BY SMTT(20), <1>1
  <2>4. L + 1 # 0
    BY <1>1
  <2>5. Offset(out, L + 1) = Offset(output, L) + len
    BY Zenon, <2>2, <2>4 DEF Offset
  <2>6. \A n \in 0..L : Offset(out, n) = Offset(output, n)
    BY Zenon, <2>2, <2>3 DEF Offset
  <2> QED BY Zenon, <2>5, <2>6
<1>8. \A n \in 0..(L + 1) : Offset(out, n) \in Nat
  BY Zenon, <1>2, OffsetsGrow
<1> HIDE DEF e, end, out, r
<1>9. \A j \in 0..N : bytes - PoppedBytes(out, r, j + 1) = Offset(out, L + 1) - Offset(out, base + (j + 1))
  <2> TAKE j \in 0..N
  <2>1. /\ j + 1 \in 1..(N + 1) /\ 1 \in 1..(N + 1) /\ j + 1 # 0
        /\ base + ((j + 1) - 1) + 1 = base + (j + 1) /\ base + (1 - 1) = base
        /\ base \in 0..L /\ base \in 0..(L + 1) /\ base + (j + 1) \in 0..(L + 1) /\ L + 1 \in 0..(L + 1)
        /\ L \in 0..L
    BY SMTT(20), <1>1
  <2>2. PoppedBytes(out, r, j + 1) = Offset(out, base + (j + 1)) - Offset(out, base)
    BY Zenon, <1>6, <2>1 DEF PoppedBytes
  <2>3. bytes = (Offset(output, L) - Offset(out, base)) + len
    BY Zenon, <1>1, <1>7, <2>1
  <2>4. /\ Offset(out, base) \in Nat /\ Offset(out, L + 1) \in Nat /\ Offset(out, base + (j + 1)) \in Nat
        /\ Offset(output, L) \in Nat
    BY Zenon, <1>7, <1>8, <2>1, OffsetsGrow, <1>1
  <2>5. Offset(out, L + 1) = Offset(output, L) + len
    BY Zenon, <1>7
  <2> HIDE DEF base, bytes, L
  <2>6. PICK a \in Nat, b \in Nat, c \in Nat, d \in Nat :
          /\ a = Offset(out, base) /\ b = Offset(out, L + 1)
          /\ c = Offset(out, base + (j + 1)) /\ d = Offset(output, L)
    BY Zenon, <2>4
  <2>7. b = d + len
    BY Zenon, <2>5, <2>6
  <2>8. ((d - a) + len) - (c - a) = b - c
    BY <2>7
  <2> QED BY Zenon, <2>2, <2>3, <2>6, <2>8
<1>10. \A j \in 0..(N + 1) : PopsFront(out, r, chunks, bytes, j) <=> StillTooLarge(j)
  <2> TAKE j \in 0..(N + 1)
  <2>1. chunks = N + 1
    BY Zenon, <1>1
  <2>2. j < N + 1 => j \in 0..N
    BY <1>1
  <2>3. CASE j < N + 1
    <3>1. bytes - PoppedBytes(out, r, j + 1) = Offset(output', L + 1) - Offset(output', base + (j + 1))
      BY Zenon, <1>2, <1>9, <2>2, <2>3
    <3> QED BY Zenon, <1>4, <2>1, <3>1 DEF PopsFront, StillTooLarge
  <2>4. CASE ~(j < N + 1)
    BY Zenon, <1>4, <2>4 DEF PopsFront, StillTooLarge
  <2> QED BY Zenon, <2>3, <2>4
<1>11. \A j \in 0..(k - 1) : j \in 0..(N + 1)
  BY <1>1, <1>5
<1>12. k \in 0..(N + 1)
  BY <1>1, <1>5
<1> QED BY Zenon, <1>3, <1>5, <1>10, <1>11, <1>12

\* A chunk is pushed: the loop stops at the edge of what the policy covers.
LEMMA PushChunkEdge ==
  ASSUME IInv, EdgeInv, terminal = NoEvent, UNCHANGED replay_sealed,
         NEW len \in Nat, PushChunk(len)
  PROVE  EdgeInv'
<1> SUFFICES ASSUME RetainsReplay' PROVE WindowEdge'
  BY Zenon DEF EdgeInv
<1> DEFINE L == Len(output)
           N == Len(replay)
           base == L - N
           Off(n) == Offset(output', n)
<1>1. RetainsReplay /\ WindowEdge
  BY Zenon DEF RetainsReplay, EdgeInv
<1>2. L \in Nat /\ N \in Nat /\ N <= L /\ output \in Seq(Nat) /\ next_seq = L
      /\ (\A i, j \in 1..L : i <= j => output[i] <= output[j]) /\ replay \in Seq(Event)
  BY DEF IInv, TypeOK, NumberInv, WindowInv
<1>3. PICK k \in 0..(N + 1) : /\ Len(replay') = (N + 1) - k
                              /\ \A j \in 0..(k - 1) : StillTooLarge(j)
                              /\ ~StillTooLarge(k)
  BY Zenon, <1>1, PopsFrontMeans
<1>4. /\ output' \in Seq(Nat) /\ Len(output') = L + 1 /\ replay' \in Seq(Event)
      /\ \A i, j \in 1..Len(output') : i <= j => output'[i] <= output'[j]
  BY Zenon, PushChunkWindow
<1>5. Len(output') - Len(replay') = base + k
  BY <1>2, <1>3, <1>4
<1>6. RetainN \in Nat /\ RetainN > 0
  BY ConfigAssumption
<1>7. k > 0 => StillTooLarge(k - 1)
  <2>1. k > 0 => k - 1 \in 0..(k - 1)
    BY <1>2, <1>3
  <2> QED BY Zenon, <1>3, <2>1
<1>8. Retention = "all" => base + k = 0
  <2> SUFFICES ASSUME Retention = "all" PROVE base + k = 0
    BY Zenon
  <2>1. ~StillTooLarge(k - 1) /\ base = 0
    BY Zenon, <1>1 DEF StillTooLarge, WindowEdge
  <2> QED BY <1>2, <1>3, <1>7, <2>1
<1>9. Retention = "chunks" => Len(replay') <= RetainN /\ (base + k = 0 \/ Len(replay') = RetainN)
  <2> SUFFICES ASSUME Retention = "chunks"
               PROVE  Len(replay') <= RetainN /\ (base + k = 0 \/ Len(replay') = RetainN)
    BY Zenon
  <2>1. N <= RetainN /\ (base = 0 \/ N = RetainN)
    BY Zenon, <1>1 DEF WindowEdge
  <2>2. ~(k < N + 1 /\ (N + 1) - k > RetainN) /\ (k > 0 => (N + 1) - (k - 1) > RetainN)
    BY Zenon, <1>3, <1>7 DEF StillTooLarge
  <2> QED BY SMTT(20), <1>2, <1>3, <1>6, <2>1, <2>2
<1>10. /\ \A n \in 0..L : Off(n) = Offset(output, n)
       /\ \A n \in 0..(L + 1) : Off(n) \in Nat
       /\ Off(L) <= Off(L + 1)
  <2>1. output' = Append(output, Offset(output, L) + len)
    BY Zenon, <1>2 DEF PushChunk
  <2>2. Offset(output, L) + len \in Nat
    BY <1>2 DEF Offset
  <2>3. \A i \in 1..L : output'[i] = output[i]
    BY <1>2, <2>1, <2>2
  <2>4. \A n \in 0..L : n = 0 \/ n \in 1..L
    BY <1>2
  <2>5. L \in 0..(L + 1) /\ L + 1 \in 0..(L + 1) /\ L <= L + 1
    BY <1>2
  <2> HIDE DEF L
  <2> QED BY Zenon, <1>4, <2>3, <2>4, <2>5, OffsetsGrow DEF Offset
<1>11. Retention = "bytes" => /\ replay' # <<>> => Off(L + 1) - Off((base + k) + 1) < RetainN
                              /\ base + k = 0 \/ Off(L + 1) - Off(base + k) >= RetainN
  <2> SUFFICES ASSUME Retention = "bytes"
               PROVE  /\ replay' # <<>> => Off(L + 1) - Off((base + k) + 1) < RetainN
                      /\ base + k = 0 \/ Off(L + 1) - Off(base + k) >= RetainN
    BY Zenon
  <2>1. replay' # <<>> => k < N + 1
    BY <1>2, <1>3, <1>4
  <2>2. /\ base + (k + 1) = (base + k) + 1 /\ (k > 0 => base + ((k - 1) + 1) = base + k)
        /\ (base + k) + 1 \in Nat /\ base + k \in 0..(L + 1) /\ L \in 0..L /\ L + 1 \in 0..(L + 1)
        /\ (k < N + 1 => (base + k) + 1 \in 0..(L + 1)) /\ base \in 0..L
    BY <1>2, <1>3
  <2>3. replay' # <<>> => ~(Off(L + 1) - Off((base + k) + 1) >= RetainN)
    BY Zenon, <1>3, <2>1, <2>2 DEF StillTooLarge
  <2>4. k > 0 => Off(L + 1) - Off(base + k) >= RetainN
    BY Zenon, <1>7, <2>2 DEF StillTooLarge
  <2>5. base = 0 \/ Offset(output, L) - Offset(output, base) >= RetainN
    BY Zenon, <1>1 DEF WindowEdge
  <2>6. k = 0 => base + k = 0 \/ Off(L + 1) - Off(base + k) >= RetainN
    <3> SUFFICES ASSUME k = 0, base # 0 PROVE Off(L + 1) - Off(base + k) >= RetainN
      BY <1>2
    <3>1. base + k = base
      BY <1>2
    <3>2. Off(L) - Off(base) >= RetainN
      BY Zenon, <1>10, <2>2, <2>5
    <3>3. Off(L) \in Nat /\ Off(base) \in Nat /\ Off(L + 1) \in Nat /\ Off(L) <= Off(L + 1)
      <4>1. L \in 0..(L + 1) /\ base \in 0..(L + 1)
        BY <1>2
      <4> QED BY Zenon, <1>10, <2>2, <4>1
    <3> HIDE DEF Off, base
    <3> QED BY <1>6, <3>1, <3>2, <3>3
  <2>7. replay' # <<>> => Off(L + 1) \in Nat /\ Off((base + k) + 1) \in Nat
    BY Zenon, <1>10, <2>1, <2>2
  <2>8. k > 0 \/ k = 0
    BY <1>3
  <2> HIDE DEF Off, base
  <2>9. replay' # <<>> => Off(L + 1) - Off((base + k) + 1) < RetainN
    BY <1>6, <2>3, <2>7
  <2> QED BY Zenon, <2>4, <2>6, <2>8, <2>9
<1> HIDE DEF base
<1> QED BY Zenon, <1>4, <1>5, <1>8, <1>9, <1>11 DEF WindowEdge

\* The edge moves only when a chunk is pushed or the replay is sealed.
LEMMA NextEdge ==
  ASSUME IInv, EdgeInv, [Next]_vars
  PROVE  EdgeInv'
<1> USE DEF vars, stateVars, replayVars, readerVars, subVars, histVars
<1>1. CASE AppendChunk
  <2>1. PICK len : PushChunk(len) /\ len = IF buf < ReadChunkSize THEN buf ELSE ReadChunkSize
    BY Zenon, <1>1 DEF AppendChunk
  <2>2. len \in Nat
    BY <2>1, ConfigAssumption DEF IInv, TypeOK
  <2>3. terminal = NoEvent /\ UNCHANGED replay_sealed
    BY Zenon, <1>1 DEF AppendChunk, IInv, ReaderInv
  <2> QED BY Zenon, <2>1, <2>2, <2>3, PushChunkEdge
<1>2. CASE SealReplay
  BY Zenon, <1>2 DEF SealReplay, EdgeInv, RetainsReplay
<1>3. CASE UNCHANGED <<replay, output, replay_sealed>>
  BY Zenon, <1>3 DEF EdgeInv, WindowEdge, RetainsReplay, Offset
<1>4. CASE AppendChunkClosed \/ FinishAppend \/ ReadReturns \/ ReaderCancelled \/ DropStream \/ CloseForDrop
           \/ Finished \/ UNCHANGED vars
  BY Zenon, <1>3, <1>4 DEF AppendChunkClosed, FinishAppend, ReadReturns, ReadBytes, AppendTerminal, PushTerminal,
     AppendTerminalClosed, ReaderCancelled, DropStream, CloseForDrop, Finished
<1>5. CASE \E s \in Subs : \/ NextTarget(s) \/ SendReliable(s) \/ SendStale(s) \/ SendBestEffort(s)
                           \/ TrySubscribe(s) \/ Recv(s) \/ DropSubscription(s)
  BY ZenonT(30), <1>3, <1>5 DEF NextTarget, SendReliable, SendStale, SendBestEffort, TrySubscribe, Recv, RecvReplay,
     RecvLive, RecvNone, DropSubscription
<1> QED BY Zenon, <1>1, <1>2, <1>4, <1>5 DEF Next, Reader

\* A window with this edge is what the policy covers.
LEMMA EdgeIsExact == IInv /\ EdgeInv => ReplayWindowExact
<1> SUFFICES ASSUME IInv, EdgeInv
             PROVE  \A n \in 0..(Len(output) - 1) : Covered(n) <=> n >= Len(output) - Len(replay)
  BY Zenon DEF IInv, WindowInv, ReplayWindowExact
<1> TAKE n \in 0..(Len(output) - 1)
<1> DEFINE L == Len(output)
           start == L - Len(replay)
<1>1. L \in Nat /\ Len(replay) \in Nat /\ Len(replay) <= L /\ n \in Nat /\ n < L /\ start \in 0..L
      /\ (replay = <<>> <=> Len(replay) = 0)
  BY SMTT(20) DEF IInv, TypeOK, WindowInv
<1>2. /\ \A m \in 0..L : Offset(output, m) \in Nat
      /\ \A m1, m2 \in 0..L : m1 <= m2 => Offset(output, m1) <= Offset(output, m2)
  BY Zenon, OffsetsGrow DEF IInv, TypeOK, NumberInv
<1>3. CASE ~RetainsReplay
  <2>1. replay = <<>>
    BY Zenon, <1>3 DEF IInv, WindowInv
  <2>2. ~(n >= start)
    BY <1>1, <2>1
  <2> QED BY Zenon, <1>3, <2>2 DEF Covered
<1>4. CASE RetainsReplay /\ Retention = "all"
  <2>1. start = 0
    BY Zenon, <1>4 DEF EdgeInv, WindowEdge
  <2>2. n >= start
    BY <1>1, <2>1
  <2> QED BY Zenon, <1>4, <2>2 DEF Covered
<1>5. CASE RetainsReplay /\ Retention = "chunks"
  <2>1. Len(replay) <= RetainN /\ (start = 0 \/ Len(replay) = RetainN) /\ RetainN \in Nat
    BY Zenon, <1>5, ConfigAssumption DEF EdgeInv, WindowEdge
  <2>2. Covered(n) <=> n >= L - RetainN
    BY Zenon, <1>5 DEF Covered
  <2> QED BY <1>1, <2>1, <2>2
<1>6. CASE RetainsReplay /\ Retention = "bytes"
  <2>1. /\ replay # <<>> => Offset(output, L) - Offset(output, start + 1) < RetainN
        /\ start = 0 \/ Offset(output, L) - Offset(output, start) >= RetainN
    BY Zenon, <1>6 DEF EdgeInv, WindowEdge
  <2>2. Covered(n) <=> Offset(output, L) - Offset(output, n + 1) < RetainN
    BY Zenon, <1>6 DEF Covered
  <2>3. RetainN \in Nat /\ n + 1 \in 0..L /\ L \in 0..L
    BY <1>1, ConfigAssumption
  <2>4. Offset(output, L) \in Nat /\ Offset(output, n + 1) \in Nat
    BY Zenon, <1>2, <2>3
  <2>5. CASE n >= start
    <3>1. replay # <<>> /\ start + 1 \in 0..L /\ start + 1 <= n + 1
      BY <1>1, <2>5
    <3>2. Offset(output, start + 1) \in Nat /\ Offset(output, start + 1) <= Offset(output, n + 1)
      BY Zenon, <1>2, <2>3, <3>1
    <3> HIDE DEF start
    <3>3. Offset(output, L) - Offset(output, start + 1) < RetainN
      BY Zenon, <2>1, <3>1
    <3>4. \A a, b, c, r \in Nat : a - b < r /\ b <= c => a - c < r
      OBVIOUS
    <3> QED BY Zenon, <2>2, <2>3, <2>4, <2>5, <3>2, <3>3, <3>4 DEF start
  <2>6. CASE ~(n >= start)
    <3>1. start # 0 /\ n + 1 <= start
      BY <1>1, <2>6
    <3>2. Offset(output, start) \in Nat /\ Offset(output, n + 1) <= Offset(output, start)
      BY Zenon, <1>1, <1>2, <2>3, <3>1
    <3> HIDE DEF start
    <3>3. Offset(output, L) - Offset(output, start) >= RetainN
      BY Zenon, <2>1, <3>1
    <3>4. \A a, b, c, r \in Nat : a - b >= r /\ c <= b => ~(a - c < r)
      OBVIOUS
    <3> QED BY Zenon, <2>2, <2>3, <2>4, <2>6, <3>2, <3>3, <3>4 DEF start
  <2> QED BY Zenon, <2>5, <2>6
<1>7. Retention \in {"all", "chunks", "bytes"} \/ ~RetainsReplay
  BY Zenon, ConfigAssumption DEF RetainsReplay
<1> QED BY Zenon, <1>3, <1>4, <1>5, <1>6, <1>7

\* At first there is nothing to cover.
LEMMA InitEdge == Init => EdgeInv
<1> SUFFICES ASSUME Init PROVE WindowEdge
  BY Zenon DEF EdgeInv
<1>1. Len(output) = 0 /\ Len(replay) = 0 /\ replay = <<>>
  BY DEF Init
<1>2. Len(output) - Len(replay) = 0 /\ Len(replay) <= RetainN
  BY <1>1, ConfigAssumption
<1> QED BY Zenon, <1>1, <1>2 DEF WindowEdge

\* The edge holds in every state.
THEOREM EdgeInvariant == Spec => [](IInv /\ EdgeInv)
<1>1. Init => IInv /\ EdgeInv
  BY Zenon, InitIInv, InitEdge
<1>2. (IInv /\ EdgeInv) /\ [Next]_vars => (IInv /\ EdgeInv)'
  BY Zenon, NextIInv, NextEdge
<1> QED BY <1>1, <1>2, PTL DEF Spec

\* For every retention policy: push_event and seal_replay keep the replay window
\* equal to what the policy covers, byte by byte, and its counters right.
THEOREM WindowIsExact == Spec => []ReplayWindowExact
<1>1. IInv /\ EdgeInv => ReplayWindowExact
  BY Zenon, EdgeIsExact
<1> QED BY <1>1, EdgeInvariant, PTL

\* For every retention policy: try_subscribe starts a subscription at the oldest chunk
\* that the policy covers, or at the live end.
THEOREM SubscriptionsStartAtWindow == Spec => SubscribeStartsAtWindow
<1>1. IInv /\ ReplayWindowExact /\ [Next]_vars =>
        [\A s \in Subs : sub[s] = "none" /\ sub'[s] = "open" =>
           /\ \A n \in 0..(Len(output) - 1) : Covered(n) <=> n >= pos'[s]
           /\ pos'[s] <= Len(output)]_vars
  <2> SUFFICES ASSUME IInv, ReplayWindowExact, Next, NEW s \in Subs, sub[s] = "none", sub'[s] = "open"
               PROVE  /\ \A n \in 0..(Len(output) - 1) : Covered(n) <=> n >= pos'[s]
                      /\ pos'[s] <= Len(output)
    BY Zenon
  <2>1. TrySubscribe(s)
    <3> USE DEF vars, stateVars, replayVars, readerVars, subVars, histVars
    <3>1. sub' # sub
      BY Zenon
    <3>2. \/ \E r \in Subs : TrySubscribe(r) \/ RecvReplay(r) \/ RecvLive(r) \/ DropSubscription(r)
      BY Zenon, <3>1 DEF Next, Reader, AppendChunk, AppendChunkClosed, NextTarget, SendReliable, SendStale,
         SendBestEffort, FinishAppend, ReadReturns, ReadBytes, AppendTerminal, AppendTerminalClosed,
         ReaderCancelled, Recv, RecvNone, SealReplay, DropStream, CloseForDrop, Finished
    <3>3. sub \in [Subs -> {"none", "open", "done", "dropped"}]
      BY Zenon DEF IInv, TypeOK
    <3> QED BY ZenonT(30), <3>2, <3>3 DEF TrySubscribe, RecvReplay, RecvLive, Returns, DropSubscription
  <2>2. pos'[s] = Len(output) - Len(replay)
    BY Zenon, <2>1, SnapshotChain DEF TrySubscribe, IInv, TypeOK
  <2>3. Len(output) - Len(replay) <= Len(output)
    BY DEF IInv, TypeOK
  <2> QED BY Zenon, <2>2, <2>3 DEF ReplayWindowExact
<1> QED BY <1>1, Invariant, WindowIsExact, PTL DEF Spec, SubscribeStartsAtWindow

-----------------------------------------------------------------------------
(* Queues *)

\* A queue that holds more than Capacity events has been closed by the terminal one.
Closes(s) ==
  \/ Len(queue[s]) <= Capacity
  \/ /\ ~Reliable /\ queue_closed[s]
     /\ Len(queue[s]) = Capacity + 1
     /\ IsTerminal(queue[s][Len(queue[s])])

QueueInv == \A s \in Subs : Closes(s)

\* A best-effort push stays within the capacity, but for a terminal event.
LEMMA PushIsBounded ==
  ASSUME NEW q \in Seq(Event), NEW e \in Event, Len(q) <= Capacity
  PROVE  LET b == BestEffortPush(q, e) IN
         \/ Len(b) <= Capacity
         \/ Len(b) = Capacity + 1 /\ IsTerminal(e) /\ IsTerminal(b[Len(b)])
<1> DEFINE gap == [seq |-> e.seq, ev |-> "gap"]
<1>1. Capacity \in Nat /\ Capacity > 0 /\ Len(q) \in Nat
  BY ConfigAssumption
<1>2. CASE IsTerminal(e)
  <2>1. Len(Append(q, e)) = Len(q) + 1 /\ Append(q, e)[Len(q) + 1] = e
    OBVIOUS
  <2>2. Len(q) + 1 <= Capacity \/ Len(q) + 1 = Capacity + 1
    BY <1>1
  <2> QED BY Zenon, <1>2, <2>1, <2>2 DEF BestEffortPush
<1>3. CASE ~IsTerminal(e) /\ Len(q) < Capacity
  <2>1. Len(Append(q, e)) <= Capacity
    BY <1>1, <1>3
  <2> QED BY Zenon, <1>3, <2>1 DEF BestEffortPush
<1>4. CASE ~IsTerminal(e) /\ ~(Len(q) < Capacity)
  <2>1. Capacity > 1 => Len(<<gap, e>>) <= Capacity
    BY <1>1
  <2>2. Len(<<gap>>) <= Capacity
    BY <1>1
  <2> QED BY Zenon, <1>4, <2>1, <2>2 DEF BestEffortPush
<1> QED BY Zenon, <1>2, <1>3, <1>4

\* Sends stay within the capacity; a closed queue takes no event.
LEMMA NextQueue ==
  ASSUME IInv, QueueInv, [Next]_vars
  PROVE  QueueInv'
<1> USE DEF vars, stateVars, replayVars, readerVars, subVars, histVars
<1>0. /\ queue \in [Subs -> Seq(Event)] /\ queue_closed \in [Subs -> BOOLEAN] /\ Capacity \in Nat
  BY Zenon, ConfigAssumption DEF IInv, TypeOK
<1>1. ASSUME NEW r \in Subs, SendReliable(r) PROVE QueueInv'
  <2>1. ASSUME NEW s \in Subs, s # r PROVE Closes(s)'
    BY Zenon, <1>0, <1>1, <2>1 DEF SendReliable, QueueInv, Closes
  <2>2. indexed \in Event
    BY Zenon, <1>1, ConfigAssumption DEF SendReliable, IInv, ReaderInv
  <2>3. Len(Append(queue[r], indexed)) <= Capacity
    <3>1. queue[r] \in Seq(Event) /\ Len(queue[r]) < Capacity
      BY Zenon, <1>0, <1>1 DEF SendReliable
    <3> QED BY <1>0, <2>2, <3>1
  <2>4. queue'[r] = Append(queue[r], indexed)
    BY Zenon, <1>0, <1>1 DEF SendReliable
  <2> QED BY Zenon, <2>1, <2>3, <2>4 DEF QueueInv, Closes
<1>2. ASSUME NEW r \in Subs, SendBestEffort(r) PROVE QueueInv'
  <2>1. ASSUME NEW s \in Subs, s # r PROVE Closes(s)'
    BY Zenon, <1>0, <1>2, <2>1 DEF SendBestEffort, QueueInv, Closes
  <2>2. indexed \in Event
    BY Zenon, <1>2, ConfigAssumption DEF SendBestEffort, IInv, ReaderInv
  <2>3. /\ queue'[r] = IF sub[r] = "dropped" THEN queue[r] ELSE BestEffortPush(queue[r], indexed)
        /\ queue_closed'[r] = IsTerminal(indexed) /\ ~Reliable
    BY Zenon, <1>0, <1>2 DEF SendBestEffort
  <2>4. queue[r] \in Seq(Event) /\ Len(queue[r]) <= Capacity
    BY Zenon, <1>0, <1>2 DEF SendBestEffort, QueueInv, Closes
  <2> QED BY Zenon, <2>1, <2>2, <2>3, <2>4, PushIsBounded DEF QueueInv, Closes
<1>3. ASSUME NEW r \in Subs, RecvLive(r) PROVE QueueInv'
  <2>1. ASSUME NEW s \in Subs, s # r PROVE Closes(s)'
    BY Zenon, <1>0, <1>3, <2>1 DEF RecvLive, QueueInv, Closes
  <2>2. queue[r] \in Seq(Event) /\ queue[r] # <<>> /\ queue'[r] = Tail(queue[r])
    BY Zenon, <1>0, <1>3 DEF RecvLive
  <2>3. Len(queue[r]) <= Capacity + 1
    BY <1>0, <2>2 DEF QueueInv, Closes
  <2>4. Len(Tail(queue[r])) <= Capacity
    BY <1>0, <2>2, <2>3
  <2> QED BY Zenon, <2>1, <2>2, <2>4 DEF QueueInv, Closes
<1>4. ASSUME NEW r \in Subs, DropSubscription(r) PROVE QueueInv'
  <2>1. ASSUME NEW s \in Subs, s # r PROVE Closes(s)'
    BY Zenon, <1>0, <1>4, <2>1 DEF DropSubscription, QueueInv, Closes
  <2>2. queue'[r] = <<>>
    BY Zenon, <1>0, <1>4 DEF DropSubscription
  <2>3. Len(<<>>) <= Capacity
    BY <1>0
  <2> QED BY Zenon, <2>1, <2>2, <2>3 DEF QueueInv, Closes
<1>5. CASE CloseForDrop
  BY Zenon, <1>5 DEF CloseForDrop, QueueInv, Closes
<1>6. CASE UNCHANGED <<queue, queue_closed>>
  BY Zenon, <1>6 DEF QueueInv, Closes
<1>7. CASE AppendChunk \/ AppendChunkClosed \/ FinishAppend \/ ReadReturns \/ ReaderCancelled \/ DropStream
           \/ SealReplay \/ Finished \/ UNCHANGED vars
  BY Zenon, <1>6, <1>7 DEF AppendChunk, AppendChunkClosed, FinishAppend, ReadReturns, ReadBytes, AppendTerminal,
     AppendTerminalClosed, ReaderCancelled, DropStream, SealReplay, Finished
<1>8. CASE \E s \in Subs : NextTarget(s) \/ SendStale(s) \/ TrySubscribe(s) \/ RecvReplay(s) \/ RecvNone(s)
  BY Zenon, <1>6, <1>8 DEF NextTarget, SendStale, TrySubscribe, RecvReplay, RecvNone
<1> QED BY Zenon, <1>1, <1>2, <1>3, <1>4, <1>5, <1>7, <1>8 DEF Next, Reader, Recv

\* For every capacity: a slow subscription holds at most Capacity events, or one more
\* when that is the terminal event of a lossy stream (the bounded channel, and
\* BestEffortLiveQueue::push).
THEOREM QueuesAreBounded == Spec => []QueueBounded
<1>1. Init => QueueInv
  <2> SUFFICES ASSUME Init, NEW s \in Subs PROVE Closes(s)
    BY Zenon DEF QueueInv
  <2>1. queue[s] = <<>>
    BY Zenon DEF Init
  <2>2. Len(<<>>) <= Capacity
    BY ConfigAssumption
  <2> QED BY Zenon, <2>1, <2>2 DEF Closes
<1>2. IInv /\ QueueInv /\ [Next]_vars => QueueInv'
  BY Zenon, NextQueue
<1>3. QueueInv => QueueBounded
  BY Zenon DEF QueueInv, Closes, QueueBounded
<1> QED BY <1>1, <1>2, <1>3, Invariant, PTL DEF Spec

-----------------------------------------------------------------------------
(* The end is ahead of everyone *)

\* The reader holds an event for s.
Held(s) == s \in targets \/ s = current

\* The last event of q is terminal.
EndsTerminal(q) == q # <<>> /\ IsTerminal(q[Len(q)])

\* The terminal event is the last that s will be given.
EndAhead(s) ==
  \/ Held(s) /\ IsTerminal(indexed)
  \/ ~Held(s) /\ EndsTerminal(queue[s])
  \/ ~Held(s) /\ queue[s] = <<>> /\ EndsTerminal(sub_replay[s])

\* Only the drop closes the state, and a stale subscription is out of the registry
\* before the reader takes it out.
StaleInv ==
  /\ closed => stream = "dropped"
  /\ \A s \in stale : s \notin subscribers /\ sub[s] # "none"

\* NobodyOrphaned for s; the reader finds no closed queue while the stream lives.
AheadInv(s) ==
  stream = "alive" =>
    /\ queue_closed[s] => ~Held(s)
    /\ sub[s] = "open" => s \in subscribers \/ EndAhead(s)

OrphanInv == StaleInv /\ \A s \in Subs : AheadInv(s)

\* Receiving another event leaves the terminal one at the end.
LEMMA TailEndsTerminal ==
  ASSUME NEW q \in Seq(Event), EndsTerminal(q), ~IsTerminal(Head(q))
  PROVE  EndsTerminal(Tail(q))
<1>1. q # <<>> /\ IsTerminal(q[Len(q)])
  BY Zenon DEF EndsTerminal
<1>2. Len(q) \in Nat /\ Len(q) # 0 /\ Head(q) = q[1]
  BY <1>1
<1>3. Len(q) # 1
  BY Zenon, <1>1, <1>2
<1>4. /\ Tail(q) \in Seq(Event) /\ Len(Tail(q)) = Len(q) - 1
      /\ \A i \in 1..Len(Tail(q)) : Tail(q)[i] = q[i + 1]
  BY <1>1
<1>5. Len(Tail(q)) # 0 /\ Len(Tail(q)) \in 1..Len(Tail(q)) /\ Len(Tail(q)) + 1 = Len(q)
  BY <1>2, <1>3, <1>4
<1>6. Tail(q) # <<>>
  <2>1. Len(<<>>) = 0
    OBVIOUS
  <2> QED BY Zenon, <1>5, <2>1
<1> QED BY Zenon, <1>1, <1>4, <1>5, <1>6 DEF EndsTerminal

\* Appending the terminal event puts it at the end.
LEMMA AppendEndsTerminal ==
  ASSUME NEW q \in Seq(Event), NEW e \in Event, IsTerminal(e)
  PROVE  EndsTerminal(Append(q, e))
<1>1. Append(q, e) # <<>> /\ Append(q, e)[Len(Append(q, e))] = e
  OBVIOUS
<1> QED BY Zenon, <1>1 DEF EndsTerminal

\* What lies ahead of s depends only on its own state.
LEMMA AheadFrame ==
  ASSUME NEW s, AheadInv(s), Held(s)' <=> Held(s), stream' = "alive" => stream = "alive",
         Held(s) => indexed' = indexed,
         queue'[s] = queue[s], queue_closed'[s] = queue_closed[s], sub_replay'[s] = sub_replay[s],
         sub'[s] = "open" => sub[s] = "open" /\ (s \in subscribers => s \in subscribers')
  PROVE  AheadInv(s)'
  BY Zenon DEF AheadInv, EndAhead, EndsTerminal

\* The reader takes a snapshot: who is registered is given the event, and nobody
\* was being given one.
LEMMA AppendKeepsOrphanInv ==
  ASSUME IInv, OrphanInv, AppendChunk \/ \E kind \in Terminals : AppendTerminal(kind)
  PROVE  OrphanInv'
<1> USE DEF vars, stateVars, replayVars, readerVars, subVars, histVars
<1>1. /\ UNCHANGED <<closed, stream, stale, sub, current, queue, queue_closed, sub_replay>>
      /\ targets' = subscribers /\ subscribers' \subseteq subscribers /\ pc # "send"
      /\ subscribers' = subscribers \/ IsTerminal(indexed')
  <2>1. CASE AppendChunk
    BY Zenon, <2>1 DEF AppendChunk
  <2>2. ASSUME NEW kind \in Terminals, AppendTerminal(kind)
        PROVE /\ UNCHANGED <<closed, stream, stale, sub, current, queue, queue_closed, sub_replay>>
              /\ targets' = subscribers /\ subscribers' \subseteq subscribers /\ pc # "send"
              /\ IsTerminal(indexed')
    <3>1. [seq |-> next_seq, ev |-> kind].ev = kind
      OBVIOUS
    <3> QED BY Zenon, <2>2, <3>1 DEF AppendTerminal, PushTerminal, IsTerminal
  <2> QED BY Zenon, <2>1, <2>2
<1>2. StaleInv'
  BY Zenon, <1>1 DEF OrphanInv, StaleInv
<1>3. ASSUME NEW s \in Subs PROVE AheadInv(s)'
  <2>1. ~Held(s) /\ (Held(s)' <=> s \in subscribers)
    BY Zenon, <1>1, ConfigAssumption DEF Held, IInv, ReaderInv
  <2> QED BY Zenon, <1>1, <2>1 DEF OrphanInv, AheadInv, EndAhead, EndsTerminal, IInv, RegistryInv
<1> QED BY Zenon, <1>2, <1>3 DEF OrphanInv

\* A send hands the event over: what was held for r is at the end of its queue.
LEMMA SendKeepsOrphanInv ==
  ASSUME IInv, OrphanInv, NEW r \in Subs, SendReliable(r) \/ SendBestEffort(r)
  PROVE  OrphanInv'
<1> USE DEF vars, stateVars, replayVars, readerVars, subVars, histVars
<1>1. /\ UNCHANGED <<closed, stream, stale, sub, subscribers, targets, indexed, sub_replay>>
      /\ current = r /\ current' = NoSub /\ r \notin targets
      /\ \A s \in Subs \ {r} : queue'[s] = queue[s] /\ queue_closed'[s] = queue_closed[s]
  BY Zenon DEF SendReliable, SendBestEffort, IInv, TypeOK, ReaderInv
<1>2. StaleInv'
  BY Zenon, <1>1 DEF OrphanInv, StaleInv
<1>3. ASSUME NEW s \in Subs, s # r PROVE AheadInv(s)'
  <2>1. Held(s)' <=> Held(s)
    BY Zenon, <1>1, <1>3, ConfigAssumption DEF Held
  <2> QED BY Zenon, <1>1, <1>3, <2>1, AheadFrame DEF OrphanInv
<1>4. AheadInv(r)'
  <2>1. ~Held(r)' /\ Held(r)
    BY Zenon, <1>1, ConfigAssumption DEF Held
  <2>2. ASSUME sub[r] = "open", IsTerminal(indexed) PROVE EndsTerminal(queue'[r])
    <3>1. queue[r] \in Seq(Event) /\ indexed \in Event
      BY Zenon, <1>1, ConfigAssumption DEF IInv, TypeOK, ReaderInv
    <3>2. queue'[r] = Append(queue[r], indexed)
      BY Zenon, <2>2 DEF SendReliable, SendBestEffort, BestEffortPush, IInv, TypeOK
    <3> QED BY Zenon, <2>2, <3>1, <3>2, AppendEndsTerminal
  <2> QED BY Zenon, <1>1, <2>1, <2>2 DEF OrphanInv, AheadInv, EndAhead
<1> QED BY Zenon, <1>2, <1>3, <1>4 DEF OrphanInv

\* The other steps of the reader: a stale subscription is not an open one, and
\* taking the stale ones out of the registry takes nobody out.
LEMMA ReaderKeepsOrphanInv ==
  ASSUME IInv, OrphanInv,
         \/ \E r \in Subs : NextTarget(r) \/ SendStale(r)
         \/ FinishAppend \/ AppendChunkClosed \/ AppendTerminalClosed \/ ReaderCancelled
         \/ \E n \in 1..MaxRead : ReadBytes(n)
  PROVE  OrphanInv'
<1> USE DEF vars, stateVars, replayVars, readerVars, subVars, histVars
<1>1. ASSUME NEW r \in Subs, NextTarget(r) PROVE OrphanInv'
  <2>1. StaleInv'
    BY Zenon, <1>1 DEF NextTarget, OrphanInv, StaleInv
  <2>2. ASSUME NEW s \in Subs PROVE AheadInv(s)'
    <3>1. Held(s)' <=> Held(s)
      BY Zenon, <1>1, ConfigAssumption DEF NextTarget, Held
    <3> QED BY Zenon, <1>1, <3>1, AheadFrame DEF OrphanInv, NextTarget
  <2> QED BY Zenon, <2>1, <2>2 DEF OrphanInv
<1>2. ASSUME NEW r \in Subs, SendStale(r) PROVE OrphanInv'
  <2>1. r \notin subscribers /\ sub[r] # "none"
    BY Zenon, <1>2 DEF SendStale, IInv, RegistryInv
  <2>2. StaleInv'
    BY Zenon, <1>2, <2>1 DEF SendStale, OrphanInv, StaleInv
  <2>3. ASSUME NEW s \in Subs, s # r PROVE AheadInv(s)'
    <3>1. Held(s)' <=> Held(s)
      BY Zenon, <1>2, <2>3, ConfigAssumption DEF SendStale, Held
    <3> QED BY Zenon, <1>2, <3>1, AheadFrame DEF OrphanInv, SendStale
  <2>4. AheadInv(r)'
    BY Zenon, <1>2, ConfigAssumption DEF SendStale, OrphanInv, AheadInv, Held, IInv, ReaderInv
  <2> QED BY Zenon, <2>2, <2>3, <2>4 DEF OrphanInv
<1>3. CASE FinishAppend
  <2>1. subscribers' = subscribers
    BY Zenon, <1>3 DEF FinishAppend, OrphanInv, StaleInv
  <2>2. StaleInv'
    BY Zenon, <1>3 DEF FinishAppend, OrphanInv, StaleInv
  <2>3. ASSUME NEW s \in Subs PROVE AheadInv(s)'
    <3>1. ~Held(s)' /\ ~Held(s)
      BY Zenon, <1>3, ConfigAssumption DEF FinishAppend, Held
    <3> QED BY Zenon, <1>3, <2>1, <3>1, AheadFrame DEF OrphanInv, FinishAppend
  <2> QED BY Zenon, <2>2, <2>3 DEF OrphanInv
<1>4. CASE ReaderCancelled
  BY Zenon, <1>4 DEF ReaderCancelled, OrphanInv, StaleInv, AheadInv
<1>5. CASE AppendChunkClosed \/ AppendTerminalClosed \/ \E n \in 1..MaxRead : ReadBytes(n)
  <2>1. UNCHANGED <<closed, stream, stale, sub, subscribers, targets, current, indexed, sub_replay, queue, queue_closed>>
    BY Zenon, <1>5 DEF AppendChunkClosed, AppendTerminalClosed, ReadBytes
  <2>2. StaleInv'
    BY Zenon, <2>1 DEF OrphanInv, StaleInv
  <2>3. ASSUME NEW s \in Subs PROVE AheadInv(s)'
    BY Zenon, <2>1, AheadFrame DEF OrphanInv, Held
  <2> QED BY Zenon, <2>2, <2>3 DEF OrphanInv
<1> QED BY Zenon, <1>1, <1>2, <1>3, <1>4, <1>5

\* recv never passes over a queued event: what is queued comes after the snapshot.
LEMMA LiveIsFresh ==
  ASSUME IInv, NEW r \in Subs, queue[r] # <<>>
  PROVE  ~(Head(queue[r]).seq < live_start_seq[r])
<1>1. queue[r] \in Seq(Event) /\ live_start_seq[r] \in Nat
  BY Zenon DEF IInv, TypeOK
<1>2. Len(queue[r]) \in Nat /\ 1 \in 1..Len(queue[r]) /\ Head(queue[r]) = queue[r][1] /\ queue[r][1] \in Event
  BY <1>1
<1>3. queue[r][1].seq >= live_start_seq[r]
  BY Zenon, <1>2 DEF IInv, RegistryInv
<1>4. queue[r][1].seq \in Nat
  BY <1>2 DEF Event
<1> QED BY <1>1, <1>2, <1>3, <1>4

\* A subscription that comes after the end has the terminal event in its snapshot.
LEMMA SubscribeKeepsOrphanInv ==
  ASSUME IInv, OrphanInv, NEW r \in Subs, TrySubscribe(r)
  PROVE  OrphanInv'
<1> USE DEF vars, stateVars, replayVars, readerVars, subVars, histVars
<1>1. /\ UNCHANGED <<closed, stream, stale, targets, current, indexed, queue, queue_closed>>
      /\ ~closed /\ stream = "alive" /\ sub[r] = "none" /\ subscribers \subseteq subscribers'
      /\ sub'[r] = "open" /\ sub_replay'[r] = ReplaySnapshot
      /\ \A s \in Subs \ {r} : /\ sub'[s] = sub[s] /\ sub_replay'[s] = sub_replay[s]
                               /\ s \in subscribers' => s \in subscribers
  BY Zenon DEF TrySubscribe, IInv, TypeOK, OrphanInv, StaleInv
<1>2. StaleInv'
  <2>1. stale \subseteq Subs
    BY Zenon DEF IInv, TypeOK
  <2> QED BY Zenon, <1>1, <2>1 DEF OrphanInv, StaleInv
<1>3. ASSUME NEW s \in Subs, s # r PROVE AheadInv(s)'
  <2>1. Held(s)' <=> Held(s)
    BY Zenon, <1>1 DEF Held
  <2> QED BY Zenon, <1>1, <1>3, <2>1, AheadFrame DEF OrphanInv
<1>4. AheadInv(r)'
  <2>1. ~Held(r)' /\ queue[r] = <<>>
    BY Zenon, <1>1 DEF Held, IInv, RegistryInv, HasSender
  <2>2. CASE terminal = NoEvent
    <3>1. r \in subscribers'
      BY Zenon, <1>1, <2>2 DEF TrySubscribe
    <3> QED BY Zenon, <2>1, <3>1 DEF AheadInv
  <2>3. CASE terminal # NoEvent
    <3>1. terminal \in Event /\ IsTerminal(terminal) /\ replay \in Seq(Event)
      BY Zenon, <2>3 DEF IInv, NumberInv, TypeOK
    <3>2. <<>> \in Seq(Event)
      OBVIOUS
    <3>3. EndsTerminal(ReplaySnapshot)
      BY Zenon, <2>3, <3>1, <3>2, AppendEndsTerminal DEF ReplaySnapshot
    <3> QED BY Zenon, <1>1, <2>1, <3>3 DEF AheadInv, EndAhead
  <2> QED BY Zenon, <2>2, <2>3
<1> QED BY Zenon, <1>2, <1>3, <1>4 DEF OrphanInv

\* recv takes from the front.
LEMMA RecvKeepsOrphanInv ==
  ASSUME IInv, OrphanInv, NEW r \in Subs, Recv(r)
  PROVE  OrphanInv'
<1> USE DEF vars, stateVars, replayVars, readerVars, subVars, histVars
<1>0. /\ subscribers \subseteq Subs /\ stale \subseteq Subs
      /\ sub \in [Subs -> {"none", "open", "done", "dropped"}]
      /\ queue \in [Subs -> Seq(Event)] /\ sub_replay \in [Subs -> Seq(Event)]
  BY Zenon DEF IInv, TypeOK
<1>1. CASE RecvNone(r)
  <2>1. StaleInv'
    BY Zenon, <1>1 DEF RecvNone, OrphanInv, StaleInv
  <2>2. ASSUME NEW s \in Subs PROVE AheadInv(s)'
    BY Zenon, <1>1, AheadFrame DEF RecvNone, OrphanInv, Held
  <2> QED BY Zenon, <2>1, <2>2 DEF OrphanInv
<1>2. ASSUME NEW e, Returns(r, e), UNCHANGED <<closed, stream, stale, targets, current, indexed, queue_closed>>,
             \A s \in Subs \ {r} : queue'[s] = queue[s] /\ sub_replay'[s] = sub_replay[s],
             sub[r] \in {"open", "done"},
             ~IsTerminal(e) /\ EndAhead(r) => EndAhead(r)'
      PROVE  OrphanInv'
  <2>1. /\ subscribers' \subseteq subscribers
        /\ \A s \in Subs \ {r} : sub'[s] = sub[s] /\ (s \in subscribers => s \in subscribers')
        /\ IsTerminal(e) => sub'[r] = "done"
        /\ ~IsTerminal(e) => sub'[r] = sub[r] /\ subscribers' = subscribers
    BY Zenon, <1>0, <1>2 DEF Returns
  <2>2. StaleInv'
    BY Zenon, <1>0, <1>2, <2>1 DEF OrphanInv, StaleInv
  <2>3. ASSUME NEW s \in Subs, s # r PROVE AheadInv(s)'
    <3>1. Held(s)' <=> Held(s)
      BY Zenon, <1>2 DEF Held
    <3> QED BY Zenon, <1>2, <2>1, <2>3, <3>1, AheadFrame DEF OrphanInv
  <2>4. AheadInv(r)'
    <3>1. Held(r)' <=> Held(r)
      BY Zenon, <1>2 DEF Held
    <3> QED BY Zenon, <1>2, <2>1, <3>1 DEF OrphanInv, AheadInv
  <2> QED BY Zenon, <2>2, <2>3, <2>4 DEF OrphanInv
<1>3. CASE RecvReplay(r)
  <2>1. /\ Returns(r, Head(sub_replay[r])) /\ queue' = queue /\ sub_replay[r] \in Seq(Event)
        /\ sub_replay'[r] = Tail(sub_replay[r]) /\ sub[r] \in {"open", "done"}
        /\ UNCHANGED <<closed, stream, stale, targets, current, indexed, queue_closed>>
        /\ \A s \in Subs \ {r} : sub_replay'[s] = sub_replay[s]
    BY Zenon, <1>0, <1>3 DEF RecvReplay
  <2>2. ASSUME ~IsTerminal(Head(sub_replay[r])), EndAhead(r) PROVE EndAhead(r)'
    <3>1. Held(r)' <=> Held(r)
      BY Zenon, <2>1 DEF Held
    <3>2. EndsTerminal(sub_replay[r]) => EndsTerminal(sub_replay'[r])
      BY Zenon, <2>1, <2>2, TailEndsTerminal
    <3> QED BY Zenon, <2>1, <2>2, <3>1, <3>2 DEF EndAhead
  <2> QED BY Zenon, <1>2, <2>1, <2>2
<1>4. CASE RecvLive(r)
  <2>1. /\ sub_replay' = sub_replay /\ queue[r] \in Seq(Event) /\ queue[r] # <<>>
        /\ queue'[r] = Tail(queue[r]) /\ sub[r] \in {"open", "done"}
        /\ UNCHANGED <<closed, stream, stale, targets, current, indexed, queue_closed>>
        /\ \A s \in Subs \ {r} : queue'[s] = queue[s]
    BY Zenon, <1>0, <1>4 DEF RecvLive
  <2>2. Returns(r, Head(queue[r]))
    BY Zenon, <1>4, LiveIsFresh DEF RecvLive
  <2>3. ASSUME ~IsTerminal(Head(queue[r])), EndAhead(r) PROVE EndAhead(r)'
    <3>1. Held(r)' <=> Held(r)
      BY Zenon, <2>1 DEF Held
    <3>2. EndsTerminal(queue[r]) => EndsTerminal(queue'[r])
      BY Zenon, <2>1, <2>3, TailEndsTerminal
    <3> QED BY Zenon, <2>1, <2>3, <3>1, <3>2 DEF EndAhead
  <2> QED BY Zenon, <1>2, <2>1, <2>2, <2>3
<1> QED BY Zenon, <1>1, <1>3, <1>4 DEF Recv

\* The owners' other steps.
LEMMA OwnersKeepOrphanInv ==
  ASSUME IInv, OrphanInv,
         SealReplay \/ DropStream \/ CloseForDrop \/ (\E r \in Subs : DropSubscription(r)) \/ UNCHANGED vars
  PROVE  OrphanInv'
<1> USE DEF vars, stateVars, replayVars, readerVars, subVars, histVars
<1>1. CASE SealReplay \/ UNCHANGED vars
  <2>1. UNCHANGED <<closed, stream, stale, sub, subscribers, targets, current, indexed, sub_replay, queue, queue_closed>>
    BY Zenon, <1>1 DEF SealReplay
  <2>2. StaleInv'
    BY Zenon, <2>1 DEF OrphanInv, StaleInv
  <2>3. ASSUME NEW s \in Subs PROVE AheadInv(s)'
    BY Zenon, <2>1, AheadFrame DEF OrphanInv, Held
  <2> QED BY Zenon, <2>2, <2>3 DEF OrphanInv
<1>2. CASE DropStream
  BY Zenon, <1>2 DEF DropStream, OrphanInv, StaleInv, AheadInv
<1>3. CASE CloseForDrop
  BY Zenon, <1>3 DEF CloseForDrop, OrphanInv, StaleInv, AheadInv
<1>4. ASSUME NEW r \in Subs, DropSubscription(r) PROVE OrphanInv'
  <2>0. stale \subseteq Subs /\ sub \in [Subs -> {"none", "open", "done", "dropped"}]
        /\ queue \in [Subs -> Seq(Event)] /\ sub_replay \in [Subs -> Seq(Event)]
    BY Zenon DEF IInv, TypeOK
  <2>1. /\ UNCHANGED <<closed, stream, stale, targets, current, indexed, queue_closed>>
        /\ subscribers' \subseteq subscribers /\ sub'[r] = "dropped"
        /\ \A s \in Subs \ {r} : /\ sub'[s] = sub[s] /\ queue'[s] = queue[s] /\ sub_replay'[s] = sub_replay[s]
                                 /\ s \in subscribers => s \in subscribers'
    BY Zenon, <1>4, <2>0 DEF DropSubscription
  <2>2. StaleInv'
    BY Zenon, <2>0, <2>1 DEF OrphanInv, StaleInv
  <2>3. ASSUME NEW s \in Subs, s # r PROVE AheadInv(s)'
    <3>1. Held(s)' <=> Held(s)
      BY Zenon, <2>1 DEF Held
    <3> QED BY Zenon, <2>1, <2>3, <3>1, AheadFrame DEF OrphanInv
  <2>4. AheadInv(r)'
    BY Zenon, <2>1 DEF OrphanInv, AheadInv, Held
  <2> QED BY Zenon, <2>2, <2>3, <2>4 DEF OrphanInv
<1> QED BY Zenon, <1>1, <1>2, <1>3, <1>4

\* One lemma for every step.
LEMMA NextOrphanInv ==
  ASSUME IInv, OrphanInv, [Next]_vars
  PROVE  OrphanInv'
<1>1. CASE Reader \/ ReadReturns \/ ReaderCancelled
  BY Zenon, <1>1, AppendKeepsOrphanInv, SendKeepsOrphanInv, ReaderKeepsOrphanInv DEF Reader, ReadReturns
<1>2. CASE (\E s \in Subs : TrySubscribe(s) \/ Recv(s) \/ DropSubscription(s)) \/ SealReplay \/ DropStream
           \/ CloseForDrop \/ Finished \/ UNCHANGED vars
  BY Zenon, <1>2, SubscribeKeepsOrphanInv, RecvKeepsOrphanInv, OwnersKeepOrphanInv DEF Finished
<1> QED BY Zenon, <1>1, <1>2 DEF Next

\* A terminal event ahead of s is the last pending one.
LEMMA AheadIsPending ==
  ASSUME IInv, NEW s \in Subs, EndAhead(s)
  PROVE  Pending(s) # <<>> /\ IsTerminal(Pending(s)[Len(Pending(s))])
<1> DEFINE a == sub_replay[s]
           b == queue[s]
<1>1. a \in Seq(Event) /\ b \in Seq(Event)
  BY Zenon DEF IInv, TypeOK
<1>2. CASE Held(s)
  <2>1. InFlight(s) = <<indexed>> /\ IsTerminal(indexed) /\ indexed \in Event
    BY Zenon, <1>2, ConfigAssumption DEF InFlight, Held, EndAhead, IInv, ReaderInv
  <2> DEFINE t == a \o b \o <<indexed>>
  <2>2. Pending(s) = t
    BY Zenon, <2>1 DEF Pending
  <2> HIDE DEF a, b
  <2>3. t # <<>> /\ t[Len(t)] = indexed
    BY <1>1, <2>1
  <2> HIDE DEF t
  <2> QED BY Zenon, <2>1, <2>2, <2>3
<1>3. CASE ~Held(s)
  <2> DEFINE t == a \o b \o <<>>
  <2>1. Pending(s) = t
    BY Zenon, <1>3 DEF Pending, InFlight, Held
  <2>2. \/ b # <<>> /\ IsTerminal(b[Len(b)])
        \/ b = <<>> /\ a # <<>> /\ IsTerminal(a[Len(a)])
    BY Zenon, <1>3 DEF EndAhead, EndsTerminal
  <2> HIDE DEF a, b
  <2>3. t = a \o b /\ a \o <<>> = a
    BY <1>1
  <2>4. b # <<>> => a \o b # <<>> /\ (a \o b)[Len(a \o b)] = b[Len(b)]
    BY <1>1
  <2>5. CASE b # <<>>
    <3>1. t # <<>> /\ t[Len(t)] = b[Len(b)]
      BY Zenon, <2>3, <2>4, <2>5
    <3> HIDE DEF t
    <3> QED BY Zenon, <2>1, <2>2, <2>5, <3>1
  <2>6. CASE b = <<>>
    <3>1. t = a
      BY Zenon, <2>3, <2>6
    <3> HIDE DEF t
    <3> QED BY Zenon, <2>1, <2>2, <2>6, <3>1
  <2> QED BY Zenon, <2>5, <2>6
<1> QED BY Zenon, <1>2, <1>3

\* For any number of subscriptions: while the stream lives, an open subscription is
\* registered or has the terminal event ahead of it (append_event's emptying of the
\* registry, try_subscribe after the end, and the removal of stale subscribers).
THEOREM NobodyIsOrphaned == Spec => []NobodyOrphaned
<1>1. Init => OrphanInv
  BY Zenon DEF Init, OrphanInv, StaleInv, AheadInv
<1>2. IInv /\ OrphanInv /\ [Next]_vars => OrphanInv'
  BY Zenon, NextOrphanInv
<1>3. IInv /\ OrphanInv => NobodyOrphaned
  BY Zenon, AheadIsPending DEF OrphanInv, AheadInv, NobodyOrphaned
<1> QED BY <1>1, <1>2, <1>3, Invariant, PTL DEF Spec

-----------------------------------------------------------------------------
(* What each subscription sees *)

\* The numbers of q ascend; a Gap has the number of the event it makes room for.
Ascends(q) ==
  \A i, j \in 1..Len(q) : i < j /\ q[i].ev # "gap" => q[i].seq < q[j].seq

\* An event queued for s: of a number that exists and that s has not passed, a Gap
\* only in a lossy stream, the terminal event only when nobody sends to s any more.
Queued(s, e) ==
  /\ IsTerminal(e) => e = terminal /\ ~HasSender(s) /\ (Reliable \/ queue_closed[s])
  /\ ~IsTerminal(e) => e.seq < Len(output)
  /\ e.ev = "gap" => ~Reliable
  /\ Held(s) => e.seq < indexed.seq
  /\ sub[s] = "open" => pos[s] <= e.seq

\* An event in what is left of the snapshot of s.
Snapped(s, e) ==
  /\ IsTerminal(e) => e = terminal /\ live_closed[s]
  /\ ~IsTerminal(e) => e.ev = "chunk" /\ e.seq < live_start_seq[s] /\ e.seq < Len(output)
  /\ sub[s] = "open" => pos[s] <= e.seq

\* Nothing more can reach s.
Drained(s) ==
  /\ sub_replay[s] = <<>>
  /\ live_closed[s] \/ (queue[s] = <<>> /\ IF Reliable THEN ~HasSender(s) ELSE queue_closed[s])

\* Where s stands.
Stands(s) ==
  /\ pos[s] <= Len(output)
  /\ Held(s) => pos[s] <= indexed.seq
  /\ live_closed[s] => sub[s] # "none" /\ queue[s] = <<>> /\ ~HasSender(s)
  /\ sub[s] = "none" => outcome[s] = "open" /\ sub_replay[s] = <<>>
  /\ sub[s] = "done" => outcome[s] # "open"
  /\ sub[s] \in {"open", "done"} /\ outcome[s] # "open" => Drained(s)

\* The view of one subscription.
View(s) ==
  /\ Ascends(queue[s]) /\ \A i \in 1..Len(queue[s]) : Queued(s, queue[s][i])
  /\ Ascends(sub_replay[s]) /\ \A i \in 1..Len(sub_replay[s]) : Snapped(s, sub_replay[s][i])
  /\ Stands(s)

ViewInv ==
  /\ IsTerminal(indexed) => indexed = terminal
  /\ \A s \in Subs : View(s)

\* The events of a sequence have numbers.
LEMMA EventNumbers == \A q \in Seq(Event) : \A i \in 1..Len(q) : q[i] \in Event /\ q[i].seq \in Nat
<1>1. \A q \in Seq(Event) : \A i \in 1..Len(q) : q[i] \in Event
  OBVIOUS
<1>2. \A e \in Event : e.seq \in Nat
  BY DEF Event
<1> QED BY Zenon, <1>1, <1>2

\* Appending a later event keeps the order.
LEMMA AscendsAppend ==
  ASSUME NEW q \in Seq(Event), NEW e \in Event, Ascends(q), \A i \in 1..Len(q) : q[i].seq < e.seq
  PROVE  Ascends(Append(q, e))
<1> DEFINE a == Append(q, e)
<1> SUFFICES ASSUME NEW i \in 1..Len(a), NEW j \in 1..Len(a), i < j, a[i].ev # "gap"
             PROVE  a[i].seq < a[j].seq
  BY Zenon DEF Ascends
<1>1. /\ Len(q) \in Nat /\ Len(a) = Len(q) + 1 /\ a[Len(q) + 1] = e
      /\ \A n \in 1..Len(q) : a[n] = q[n]
  OBVIOUS
<1>2. i \in 1..Len(q) /\ (j \in 1..Len(q) \/ j = Len(q) + 1)
  BY <1>1
<1> HIDE DEF a
<1> QED BY Zenon, <1>1, <1>2 DEF Ascends

\* So does taking the first, and it is not later than the others.
LEMMA AscendsTail ==
  ASSUME NEW q \in Seq(Event), q # <<>>, Ascends(q)
  PROVE  /\ Tail(q) \in Seq(Event) /\ Ascends(Tail(q))
         /\ \A i \in 1..Len(Tail(q)) : i + 1 \in 1..Len(q) /\ Tail(q)[i] = q[i + 1]
         /\ Head(q) = q[1] /\ q[1] \in Event /\ 1 \in 1..Len(q)
         /\ q[1].ev # "gap" => \A i \in 1..Len(Tail(q)) : q[1].seq < Tail(q)[i].seq
         /\ Tail(q) # <<>> => 2 \in 1..Len(q) /\ (q[1].ev # "gap" => q[1].seq < q[2].seq)
<1> DEFINE t == Tail(q)
<1>1. /\ t \in Seq(Event) /\ Len(q) \in Nat /\ Len(q) > 0 /\ Len(t) = Len(q) - 1
      /\ \A i \in 1..Len(t) : t[i] = q[i + 1]
  OBVIOUS
<1>2. Head(q) = q[1] /\ q[1] \in Event /\ 1 \in 1..Len(q)
  BY <1>1
<1>3. t # <<>> => Len(t) # 0
  BY <1>1
<1> HIDE DEF t
<1>4. \A i \in 1..Len(t) : i + 1 \in 1..Len(q) /\ 1 < i + 1
  BY <1>1
<1>5. \A i, j \in 1..Len(t) : i < j => i + 1 < j + 1
  BY <1>1
<1>6. t # <<>> => 2 \in 1..Len(q) /\ 1 < 2
  BY <1>1, <1>3
<1>7. Ascends(t)
  BY Zenon, <1>1, <1>4, <1>5 DEF Ascends
<1> QED BY Zenon, <1>1, <1>2, <1>4, <1>6, <1>7 DEF Ascends, t

\* What a best-effort push leaves: old events, the new one and a Gap before it.
LEMMA PushElements ==
  ASSUME NEW q \in Seq(Event), NEW e \in Event, Ascends(q), \A i \in 1..Len(q) : q[i].seq < e.seq
  PROVE  LET b == BestEffortPush(q, e) IN
         /\ b \in Seq(Event) /\ Ascends(b)
         /\ \A i \in 1..Len(b) : \/ b[i] = e \/ (\E j \in 1..Len(q) : b[i] = q[j])
                                 \/ b[i] = [seq |-> e.seq, ev |-> "gap"] /\ ~IsTerminal(e)
<1> DEFINE gap == [seq |-> e.seq, ev |-> "gap"]
<1>1. gap \in Event /\ gap.ev = "gap"
  BY DEF Event
<1>2. CASE BestEffortPush(q, e) = Append(q, e)
  <2>1. /\ Append(q, e) \in Seq(Event)
        /\ \A i \in 1..Len(Append(q, e)) : Append(q, e)[i] = e \/ (i \in 1..Len(q) /\ Append(q, e)[i] = q[i])
    OBVIOUS
  <2> QED BY Zenon, <1>2, <2>1, AscendsAppend
<1>3. CASE BestEffortPush(q, e) # Append(q, e)
  <2>1. ~IsTerminal(e) /\ (BestEffortPush(q, e) = <<gap, e>> \/ BestEffortPush(q, e) = <<gap>>)
    BY Zenon, <1>3 DEF BestEffortPush
  <2> HIDE DEF gap
  <2>2. /\ <<gap, e>> \in Seq(Event) /\ <<gap>> \in Seq(Event)
        /\ \A i \in 1..Len(<<gap, e>>) : (i = 1 /\ <<gap, e>>[i] = gap) \/ (i = 2 /\ <<gap, e>>[i] = e)
        /\ \A i \in 1..Len(<<gap>>) : i = 1 /\ <<gap>>[i] = gap
    BY <1>1
  <2>3. ~(1 < 1) /\ ~(2 < 2) /\ ~(2 < 1)
    OBVIOUS
  <2>4. Ascends(<<gap, e>>) /\ Ascends(<<gap>>)
    BY Zenon, <1>1, <2>2, <2>3 DEF Ascends
  <2> QED BY Zenon, <2>1, <2>2, <2>4 DEF gap
<1> QED BY Zenon, <1>2, <1>3

\* A step that takes nothing from s and gives it nothing keeps its view; the reader
\* may have taken it into a snapshot.
LEMMA ViewFrame ==
  ASSUME IInv, IInv', NEW s \in Subs, View(s),
         queue'[s] = queue[s], sub_replay'[s] = sub_replay[s], live_start_seq'[s] = live_start_seq[s],
         live_closed'[s] = live_closed[s], pos'[s] = pos[s], outcome'[s] = outcome[s], sub'[s] = sub[s],
         terminal' = terminal \/ terminal = NoEvent,
         HasSender(s)' => HasSender(s),
         queue_closed[s] => queue_closed'[s],
         Len(output) <= Len(output'),
         Held(s)' => \/ Held(s) /\ indexed' = indexed
                     \/ terminal = NoEvent /\ indexed'.seq = Len(output)
  PROVE  View(s)'
<1>1. /\ Len(output) \in Nat /\ Len(output') \in Nat /\ pos[s] \in Nat
      /\ queue[s] \in Seq(Event) /\ sub_replay[s] \in Seq(Event)
  <2>1. /\ output \in Seq(Nat) /\ output' \in Seq(Nat) /\ pos[s] \in Nat
        /\ queue[s] \in Seq(Event) /\ sub_replay[s] \in Seq(Event)
    BY Zenon DEF IInv, TypeOK
  <2>2. Len(output) \in Nat /\ Len(output') \in Nat
    BY <2>1
  <2> QED BY Zenon, <2>1, <2>2
<1>2. /\ \A i \in 1..Len(queue[s]) : queue[s][i].seq \in Nat
      /\ \A i \in 1..Len(sub_replay[s]) : sub_replay[s][i].seq \in Nat
  BY Zenon, <1>1, EventNumbers
<1>3. \A n \in Nat : (n < Len(output) => n < Len(output')) /\ (n <= Len(output) => n <= Len(output'))
  BY SMTT(20), <1>1
<1>4. ~IsTerminal(NoEvent)
  BY DEF IsTerminal, NoEvent, Terminals
<1>5. ASSUME NEW i \in 1..Len(queue[s]) PROVE Queued(s, queue[s][i])'
  <2>1. Queued(s, queue[s][i]) /\ queue[s][i].seq \in Nat
    BY Zenon, <1>2 DEF View
  <2> QED BY Zenon, <1>3, <1>4, <2>1 DEF Queued
<1>6. ASSUME NEW i \in 1..Len(sub_replay[s]) PROVE Snapped(s, sub_replay[s][i])'
  <2>1. Snapped(s, sub_replay[s][i]) /\ sub_replay[s][i].seq \in Nat
    BY Zenon, <1>2 DEF View
  <2> QED BY Zenon, <1>3, <1>4, <2>1 DEF Snapped
<1>7. Stands(s)'
  BY Zenon, <1>1, <1>3 DEF View, Stands, Drained
<1> QED BY Zenon, <1>5, <1>6, <1>7 DEF View, Ascends

\* The numbers of what the reader holds.
LEMMA HeldNumbers ==
  ASSUME IInv, pc = "send"
  PROVE  /\ indexed \in Event /\ indexed.seq \in Nat /\ Len(output) \in Nat
         /\ IsTerminal(indexed) => indexed.seq = Len(output) /\ terminal # NoEvent /\ subscribers = {}
         /\ ~IsTerminal(indexed) => indexed.seq < Len(output) /\ indexed.ev = "chunk"
<1>1. /\ indexed \in Event /\ indexed.seq + 1 = next_seq /\ (IsTerminal(indexed) <=> terminal # NoEvent)
      /\ indexed.ev # "gap"
  BY Zenon DEF IInv, ReaderInv
<1>2. indexed.seq \in Nat /\ Len(output) \in Nat
  BY <1>1 DEF Event, IInv, TypeOK
<1>3. IsTerminal(indexed) => next_seq = Len(output) + 1 /\ subscribers = {}
  BY Zenon, <1>1 DEF IInv, NumberInv, RegistryInv
<1>4. ~IsTerminal(indexed) => next_seq = Len(output)
  BY Zenon, <1>1 DEF IInv, NumberInv
<1>5. ~IsTerminal(indexed) => indexed.ev = "chunk"
  BY <1>1 DEF Event, IsTerminal, Terminals
<1> QED BY <1>1, <1>2, <1>3, <1>4, <1>5

\* The steps of the reader that give no event to anyone.
LEMMA ReaderKeepsView ==
  ASSUME IInv, IInv', ViewInv,
         \/ AppendChunk \/ AppendChunkClosed \/ FinishAppend \/ ReadReturns \/ ReaderCancelled
         \/ \E r \in Subs : NextTarget(r) \/ SendStale(r)
  PROVE  ViewInv'
<1> USE DEF vars, stateVars, replayVars, readerVars, subVars, histVars
<1>0. ~IsTerminal(NoEvent) /\ NoSub \notin Subs
  BY ConfigAssumption DEF IsTerminal, NoEvent, Terminals
<1>1. UNCHANGED <<queue, queue_closed, sub_replay, live_start_seq, live_closed, pos, outcome, sub>>
  BY Zenon DEF AppendChunk, AppendChunkClosed, FinishAppend, ReadReturns, ReadBytes, AppendTerminal,
     AppendTerminalClosed, ReaderCancelled, NextTarget, SendStale
<1>2. CASE AppendChunk \/ \E kind \in Terminals : AppendTerminal(kind)
  <2>1. /\ terminal = NoEvent /\ targets' = subscribers /\ subscribers' \subseteq subscribers
        /\ current' = NoSub /\ next_seq = Len(output)
    BY Zenon, <1>2 DEF AppendChunk, AppendTerminal, IInv, ReaderInv, NumberInv
  <2>2. \A x, k : [seq |-> x, ev |-> k].seq = x /\ [seq |-> x, ev |-> k].ev = k
    OBVIOUS
  <2>3. indexed'.seq = Len(output) /\ (IsTerminal(indexed') => indexed' = terminal')
    <3>1. CASE AppendChunk
      <4>1. indexed' = [seq |-> next_seq, ev |-> "chunk"]
        BY Zenon, <3>1 DEF AppendChunk, PushChunk
      <4>2. "chunk" \notin Terminals
        BY DEF Terminals
      <4> QED BY Zenon, <2>1, <2>2, <4>1, <4>2 DEF IsTerminal
    <3>2. ASSUME NEW kind \in Terminals, AppendTerminal(kind)
          PROVE  indexed'.seq = Len(output) /\ indexed' = terminal'
      <4>1. indexed' = [seq |-> next_seq, ev |-> kind] /\ terminal' = indexed'
        BY Zenon, <3>2 DEF AppendTerminal, PushTerminal
      <4> QED BY Zenon, <2>1, <2>2, <4>1
    <3> QED BY Zenon, <1>2, <3>1, <3>2
  <2>4. Len(output) <= Len(output')
    <3>1. Len(output) \in Nat
      BY DEF IInv, TypeOK
    <3>2. CASE AppendChunk
      <4>1. PICK x : output' = Append(output, x)
        BY Zenon, <3>2 DEF AppendChunk, PushChunk
      <4>2. Len(Append(output, x)) = Len(output) + 1
        BY DEF IInv, TypeOK
      <4> QED BY <3>1, <4>1, <4>2
    <3>3. CASE output' = output
      BY <3>1, <3>3
    <3> QED BY ZenonT(30), <1>2, <3>2, <3>3 DEF AppendTerminal, PushTerminal
  <2>5. ASSUME NEW s \in Subs PROVE View(s)'
    <3>1. HasSender(s)' => HasSender(s)
      BY Zenon, <1>0, <2>1 DEF HasSender
    <3> QED BY Zenon, <1>1, <2>1, <2>3, <2>4, <3>1, ViewFrame DEF ViewInv
  <2> QED BY Zenon, <2>3, <2>5 DEF ViewInv
<1>3. CASE AppendChunkClosed \/ FinishAppend \/ AppendTerminalClosed \/ ReaderCancelled
           \/ (\E n \in 1..MaxRead : ReadBytes(n)) \/ \E r \in Subs : NextTarget(r) \/ SendStale(r)
  <2>1. UNCHANGED <<output, terminal>> /\ subscribers' \subseteq subscribers
        /\ (UNCHANGED indexed \/ (indexed' = NoEvent /\ targets' = {} /\ current' = NoSub))
    BY Zenon, <1>3 DEF AppendChunkClosed, FinishAppend, ReadBytes, AppendTerminalClosed, ReaderCancelled,
       NextTarget, SendStale
  <2>2. \A s \in Subs : Held(s)' => Held(s)
    <3>1. CASE UNCHANGED <<targets, current>>
      BY Zenon, <3>1 DEF Held
    <3>2. CASE targets' = {} /\ current' = NoSub
      BY Zenon, <1>0, <3>2 DEF Held
    <3>3. CASE \E r \in Subs : NextTarget(r) \/ SendStale(r)
      BY Zenon, <1>0, <3>3 DEF NextTarget, SendStale, Held
    <3> QED BY Zenon, <1>3, <3>1, <3>2, <3>3 DEF AppendChunkClosed, FinishAppend, ReadBytes,
                    AppendTerminalClosed, ReaderCancelled
  <2>3. Len(output) <= Len(output')
    <3>1. Len(output) \in Nat
      BY DEF IInv, TypeOK
    <3> QED BY <2>1, <3>1
  <2>4. ASSUME NEW s \in Subs PROVE View(s)'
    <3>1. HasSender(s)' => HasSender(s)
      BY Zenon, <2>1, <2>2 DEF HasSender, Held
    <3>2. Held(s)' => Held(s) /\ indexed' = indexed
      BY Zenon, <1>0, <2>1, <2>2 DEF Held
    <3> QED BY Zenon, <1>1, <2>1, <2>3, <3>1, <3>2, ViewFrame DEF ViewInv
  <2> QED BY Zenon, <1>0, <2>1, <2>4 DEF ViewInv
<1> QED BY Zenon, <1>2, <1>3 DEF ReadReturns

\* A send puts the event it holds behind what is queued.
LEMMA SendKeepsView ==
  ASSUME IInv, IInv', ViewInv, NEW r \in Subs, SendReliable(r) \/ SendBestEffort(r)
  PROVE  ViewInv'
<1> USE DEF vars, stateVars, replayVars, readerVars, subVars, histVars
<1>0. NoSub \notin Subs /\ pc = "send" /\ current = r
  BY Zenon, ConfigAssumption DEF SendReliable, SendBestEffort, IInv, ReaderInv
<1>1. /\ UNCHANGED <<sub_replay, live_start_seq, live_closed, pos, outcome, sub, terminal, output, indexed, targets,
                     subscribers>>
      /\ current = r /\ current' = NoSub /\ r \notin targets
      /\ \A s \in Subs \ {r} : queue'[s] = queue[s] /\ queue_closed'[s] = queue_closed[s]
  <2>1. queue \in [Subs -> Seq(Event)] /\ queue_closed \in [Subs -> BOOLEAN] /\ r \notin targets
    BY Zenon, <1>0 DEF IInv, TypeOK, ReaderInv
  <2>2. CASE SendReliable(r)
    BY Zenon, <2>1, <2>2 DEF SendReliable
  <2>3. CASE SendBestEffort(r)
    BY Zenon, <2>1, <2>3 DEF SendBestEffort
  <2> QED BY Zenon, <2>2, <2>3
<1>2. ASSUME NEW s \in Subs, s # r PROVE View(s)'
  <2>1. (HasSender(s)' => HasSender(s)) /\ (Held(s)' => Held(s))
    BY Zenon, <1>0, <1>1, <1>2 DEF HasSender, Held
  <2>2. Len(output) <= Len(output')
    <3>1. Len(output) \in Nat
      BY DEF IInv, TypeOK
    <3> QED BY SMTT(20), <1>1, <3>1
  <2> QED BY Zenon, <1>1, <1>2, <2>1, <2>2, ViewFrame DEF ViewInv
<1>3. View(r)'
  <2>1. /\ indexed \in Event /\ indexed.seq \in Nat /\ (IsTerminal(indexed) => indexed = terminal /\ subscribers = {})
        /\ ~IsTerminal(indexed) => indexed.seq < Len(output) /\ indexed.ev = "chunk"
    BY Zenon, <1>0, HeldNumbers DEF ViewInv
  <2>2. ~Held(r)' /\ Held(r) /\ HasSender(r) /\ (IsTerminal(indexed) => ~HasSender(r)')
    BY Zenon, <1>0, <1>1, <2>1 DEF Held, HasSender
  <2>3. /\ View(r) /\ queue[r] \in Seq(Event) /\ (sub[r] = "open" => pos[r] <= indexed.seq)
        /\ \A i \in 1..Len(queue[r]) : Queued(r, queue[r][i]) /\ queue[r][i].seq < indexed.seq
    BY Zenon, <2>2 DEF ViewInv, View, Queued, Stands, IInv, TypeOK
  <2>4. ASSUME NEW e, Queued(r, e) PROVE Queued(r, e)'
    BY Zenon, <1>1, <2>2, <2>4 DEF Queued
  <2>5. /\ queue'[r] = queue[r] \/ queue'[r] = Append(queue[r], indexed)
              \/ (~Reliable /\ queue'[r] = BestEffortPush(queue[r], indexed))
        /\ Reliable \/ queue_closed'[r] = IsTerminal(indexed)
    BY Zenon DEF SendReliable, SendBestEffort, IInv, TypeOK
  <2>6. Queued(r, indexed)'
    <3>1. "chunk" # "gap" /\ (IsTerminal(indexed) => indexed.ev # "gap")
      BY DEF IsTerminal, Terminals
    <3> QED BY Zenon, <1>1, <2>1, <2>2, <2>3, <2>5, <3>1 DEF Queued
  <2>7. ASSUME ~Reliable, ~IsTerminal(indexed) PROVE Queued(r, [seq |-> indexed.seq, ev |-> "gap"])'
    <3> DEFINE gap == [seq |-> indexed.seq, ev |-> "gap"]
    <3>1. gap.seq = indexed.seq /\ ~IsTerminal(gap)
      BY DEF IsTerminal, Terminals
    <3>2. gap' = gap
      BY Zenon, <1>1
    <3> HIDE DEF gap
    <3>3. Queued(r, gap)'
      BY Zenon, <1>1, <2>1, <2>2, <2>3, <2>7, <3>1, <3>2 DEF Queued
    <3> QED BY Zenon, <3>3 DEF gap
  <2>8. Ascends(queue'[r]) /\ \A i \in 1..Len(queue'[r]) : Queued(r, queue[r][i])'
    <3>1. CASE queue'[r] = queue[r]
      BY Zenon, <2>3, <2>4, <3>1 DEF View
    <3>2. CASE queue'[r] = Append(queue[r], indexed)
      <4>1. \A i \in 1..Len(Append(queue[r], indexed)) :
               Append(queue[r], indexed)[i] = indexed
               \/ (i \in 1..Len(queue[r]) /\ Append(queue[r], indexed)[i] = queue[r][i])
        BY <2>1, <2>3
      <4>2. Ascends(Append(queue[r], indexed))
        BY Zenon, <2>1, <2>3, AscendsAppend DEF View
      <4> QED BY ZenonT(30), <1>1, <2>3, <2>4, <2>6, <3>2, <4>1, <4>2
    <3>3. CASE ~Reliable /\ queue'[r] = BestEffortPush(queue[r], indexed)
      <4>1. LET b == BestEffortPush(queue[r], indexed) IN
            /\ b \in Seq(Event) /\ Ascends(b)
            /\ \A i \in 1..Len(b) : \/ b[i] = indexed \/ (\E j \in 1..Len(queue[r]) : b[i] = queue[r][j])
                                    \/ b[i] = [seq |-> indexed.seq, ev |-> "gap"] /\ ~IsTerminal(indexed)
        BY Zenon, <2>1, <2>3, PushElements DEF View
      <4> QED BY Zenon, <1>1, <2>3, <2>4, <2>6, <2>7, <3>3, <4>1
    <3> QED BY Zenon, <2>5, <3>1, <3>2, <3>3
  <2>9. Ascends(sub_replay'[r]) /\ \A i \in 1..Len(sub_replay'[r]) : Snapped(r, sub_replay[r][i])'
    BY Zenon, <1>1, <2>3 DEF View, Snapped
  <2>10. Stands(r)'
    <3>1. /\ ~live_closed[r] /\ sub[r] # "none"
      BY Zenon, <2>2, <2>3 DEF View, Stands, IInv, RegistryInv
    <3>2. ASSUME sub[r] \in {"open", "done"}, outcome[r] # "open" PROVE FALSE
      BY Zenon, <2>2, <2>3, <3>1, <3>2 DEF View, Stands, Drained, SendReliable, SendBestEffort
    <3> QED BY Zenon, <1>1, <2>2, <2>3, <3>1, <3>2 DEF View, Stands
  <2> QED BY Zenon, <2>8, <2>9, <2>10 DEF View
<1> QED BY Zenon, <1>1, <1>2, <1>3 DEF ViewInv

\* The events of a snapshot: retained chunks, then the terminal event.
LEMMA SnapshotElements ==
  ASSUME IInv
  PROVE  /\ Ascends(ReplaySnapshot)
         /\ \A i \in 1..Len(ReplaySnapshot) :
              /\ Len(output) - Len(replay) <= ReplaySnapshot[i].seq
              /\ \/ ReplaySnapshot[i].ev = "chunk" /\ ReplaySnapshot[i].seq < Len(output)
                 \/ ReplaySnapshot[i] = terminal /\ terminal # NoEvent
<1> DEFINE R == ReplaySnapshot
           base == Len(output) - Len(replay)
<1>1. /\ replay \in Seq(Event) /\ Len(replay) \in Nat /\ Len(output) \in Nat /\ base \in Nat
      /\ base + Len(replay) = Len(output)
  BY DEF IInv, TypeOK, WindowInv
<1>2. ASSUME NEW i \in 1..Len(replay)
      PROVE  replay[i].seq = (base + i) - 1 /\ replay[i].ev = "chunk"
  <2>1. replay[i] = [seq |-> (base + i) - 1, ev |-> "chunk"]
    BY DEF IInv, WindowInv
  <2>2. \A x : [seq |-> x, ev |-> "chunk"].seq = x /\ [seq |-> x, ev |-> "chunk"].ev = "chunk"
    OBVIOUS
  <2> QED BY Zenon, <2>1, <2>2
<1>3. \A i \in 1..Len(replay) : base <= (base + i) - 1 /\ (base + i) - 1 < Len(output)
  BY <1>1
<1>4. \A i, j \in 1..Len(replay) : i < j => (base + i) - 1 < (base + j) - 1
  BY <1>1
<1> HIDE DEF base
<1>5. /\ Ascends(replay)
      /\ \A i \in 1..Len(replay) : /\ base <= replay[i].seq
                                   /\ replay[i].ev = "chunk" /\ replay[i].seq < Len(output)
  BY Zenon, <1>2, <1>3, <1>4 DEF Ascends
<1>6. RetainsReplay \/ replay = <<>>
  BY Zenon DEF IInv, WindowInv
<1>7. CASE terminal = NoEvent
  <2>1. R = replay
    BY Zenon, <1>6, <1>7 DEF ReplaySnapshot
  <2> QED BY Zenon, <1>5, <2>1 DEF base
<1>8. CASE terminal # NoEvent
  <2>1. R = Append(replay, terminal)
    BY Zenon, <1>6, <1>8 DEF ReplaySnapshot
  <2>2. terminal \in Event /\ terminal.seq = Len(output)
    BY Zenon, <1>8 DEF IInv, NumberInv
  <2>3. Ascends(R)
    BY Zenon, <1>1, <1>5, <2>1, <2>2, AscendsAppend
  <2>4. \A i \in 1..Len(Append(replay, terminal)) :
          \/ Append(replay, terminal)[i] = terminal
          \/ i \in 1..Len(replay) /\ Append(replay, terminal)[i] = replay[i]
    BY <1>1, <2>2
  <2>5. base <= terminal.seq
    BY <1>1, <2>2
  <2> QED BY Zenon, <1>5, <1>8, <2>1, <2>3, <2>4, <2>5 DEF base
<1> QED BY ZenonT(30), <1>7, <1>8

\* A new subscription: its snapshot, an empty queue, and nobody sends to it yet.
LEMMA SubscribeKeepsView ==
  ASSUME IInv, IInv', ViewInv, NEW r \in Subs, TrySubscribe(r)
  PROVE  ViewInv'
<1> USE DEF vars, stateVars, replayVars, readerVars, subVars, histVars
<1>1. /\ UNCHANGED <<queue, queue_closed, outcome, terminal, output, indexed, targets, current>>
      /\ sub[r] = "none" /\ sub'[r] = "open" /\ sub_replay'[r] = ReplaySnapshot
      /\ live_start_seq'[r] = next_seq /\ (live_closed'[r] <=> closed \/ terminal # NoEvent)
      /\ subscribers' = IF closed \/ terminal # NoEvent THEN subscribers ELSE subscribers \cup {r}
      /\ \A s \in Subs \ {r} : /\ sub'[s] = sub[s] /\ sub_replay'[s] = sub_replay[s] /\ pos'[s] = pos[s]
                               /\ live_start_seq'[s] = live_start_seq[s] /\ live_closed'[s] = live_closed[s]
  <2>1. /\ sub \in [Subs -> {"none", "open", "done", "dropped"}] /\ sub_replay \in [Subs -> Seq(Event)]
        /\ live_start_seq \in [Subs -> Nat] /\ live_closed \in [Subs -> BOOLEAN] /\ pos \in [Subs -> Nat]
    BY Zenon DEF IInv, TypeOK
  <2>2. /\ UNCHANGED <<queue, queue_closed, outcome, terminal, output, indexed, targets, current>>
        /\ subscribers' = IF closed \/ terminal # NoEvent THEN subscribers ELSE subscribers \cup {r}
    BY Zenon DEF TrySubscribe
  <2>3. /\ sub[r] = "none" /\ sub'[r] = "open" /\ sub_replay'[r] = ReplaySnapshot
        /\ live_start_seq'[r] = next_seq /\ (live_closed'[r] <=> closed \/ terminal # NoEvent)
    BY Zenon, <2>1 DEF TrySubscribe
  <2>4. \A s \in Subs \ {r} : /\ sub'[s] = sub[s] /\ sub_replay'[s] = sub_replay[s] /\ pos'[s] = pos[s]
                              /\ live_start_seq'[s] = live_start_seq[s] /\ live_closed'[s] = live_closed[s]
    BY Zenon, <2>1 DEF TrySubscribe
  <2> QED BY Zenon, <2>2, <2>3, <2>4
<1>2. pos'[r] = Len(output) - Len(replay)
  <2>1. pos' = [pos EXCEPT ![r] = IF ReplaySnapshot # <<>> /\ Head(ReplaySnapshot).ev = "chunk"
                                  THEN Head(ReplaySnapshot).seq ELSE Len(output)]
    BY Zenon DEF TrySubscribe
  <2>2. pos \in [Subs -> Nat]
    BY Zenon DEF IInv, TypeOK
  <2> QED BY Zenon, <2>1, <2>2, SnapshotChain
<1>3. /\ Len(output) \in Nat /\ Len(output) - Len(replay) <= Len(output) /\ Len(output) <= Len(output')
  <2>1. output \in Seq(Nat) /\ replay \in Seq(Event) /\ output' = output
    BY Zenon, <1>1 DEF IInv, TypeOK
  <2>2. Len(output) \in Nat /\ Len(replay) \in Nat
    BY <2>1
  <2> QED BY <2>1, <2>2
<1>4. ASSUME NEW s \in Subs, s # r PROVE View(s)'
  <2>1. (HasSender(s)' => HasSender(s)) /\ (Held(s)' => Held(s))
    BY Zenon, <1>1, <1>4 DEF HasSender, Held
  <2> QED BY Zenon, <1>1, <1>3, <1>4, <2>1, ViewFrame DEF ViewInv
<1>5. View(r)'
  <2>1. queue'[r] = <<>> /\ ~HasSender(r) /\ ~Held(r)' /\ outcome'[r] = "open"
    BY Zenon, <1>1 DEF IInv, RegistryInv, HasSender, Held, ViewInv, View, Stands
  <2>2. Ascends(<<>>) /\ 1..Len(<<>>) = {}
    BY DEF Ascends
  <2>3. live_closed'[r] => ~HasSender(r)'
    BY Zenon, <1>1, <2>1 DEF HasSender
  <2>4. Len(output) <= next_seq
    BY <1>3 DEF IInv, NumberInv
  <2>5. ASSUME NEW i \in 1..Len(ReplaySnapshot) PROVE Snapped(r, sub_replay[r][i])'
    <3> DEFINE e == ReplaySnapshot[i]
    <3>1. /\ Len(output) - Len(replay) <= e.seq /\ e \in Event /\ e.seq \in Nat
          /\ (e.ev = "chunk" /\ e.seq < Len(output)) \/ (e = terminal /\ terminal # NoEvent)
      <4>1. ReplaySnapshot \in Seq(Event)
        BY Zenon, SnapshotChain
      <4> QED BY Zenon, <4>1, EventNumbers, SnapshotElements
    <3>2. e.ev = "chunk" => ~IsTerminal(e)
      BY DEF IsTerminal, Terminals
    <3>3. terminal # NoEvent => IsTerminal(terminal)
      BY Zenon DEF IInv, NumberInv
    <3>4. e.seq \in Nat /\ next_seq \in Nat
      BY Zenon, <3>1 DEF IInv, TypeOK
    <3> HIDE DEF e
    <3>5. e.seq < Len(output) => e.seq < next_seq
      BY <1>3, <2>4, <3>4
    <3>6. sub_replay'[r][i] = e
      BY Zenon, <1>1 DEF e
    <3> QED BY Zenon, <1>1, <1>2, <3>1, <3>2, <3>3, <3>5, <3>6 DEF Snapped
  <2>6. Stands(r)'
    <3>1. "open" # "none" /\ "open" # "done"
      OBVIOUS
    <3> QED BY Zenon, <1>1, <1>2, <1>3, <2>1, <2>3, <3>1 DEF Stands
  <2> QED BY Zenon, <1>1, <2>1, <2>2, <2>5, <2>6, SnapshotElements DEF View
<1> QED BY Zenon, <1>1, <1>4, <1>5 DEF ViewInv

\* recv leaves the view of the others alone.
LEMMA ReturnsToOne ==
  ASSUME IInv, IInv', ViewInv, NEW r \in Subs, NEW s \in Subs, s # r, NEW e \in Event, Returns(r, e),
         UNCHANGED <<live_start_seq, live_closed, queue_closed, terminal, output, indexed, targets, current>>,
         queue'[s] = queue[s], sub_replay'[s] = sub_replay[s]
  PROVE  View(s)'
<1>1. /\ pos'[s] = pos[s] /\ sub'[s] = sub[s] /\ outcome'[s] = outcome[s] /\ subscribers' \subseteq subscribers
  BY ZenonT(30) DEF Returns, IInv, TypeOK
<1>2. (HasSender(s)' => HasSender(s)) /\ (Held(s)' => Held(s))
  BY Zenon, <1>1 DEF HasSender, Held
<1>3. Len(output) <= Len(output')
  BY DEF IInv, TypeOK
<1> QED BY Zenon, <1>1, <1>2, <1>3, ViewFrame DEF ViewInv

\* The head of the snapshot: a chunk, or the terminal event and then nothing else is
\* left.
LEMMA ReplayHead ==
  ASSUME IInv, ViewInv, NEW r \in Subs, sub_replay[r] # <<>>
  PROVE  LET e == Head(sub_replay[r]) IN
         /\ e \in Event /\ Snapped(r, e) /\ e.ev # "gap"
         /\ IsTerminal(e) => Tail(sub_replay[r]) = <<>>
<1> DEFINE q == sub_replay[r]
<1>1. q \in Seq(Event) /\ Ascends(q) /\ \A i \in 1..Len(q) : Snapped(r, q[i])
  BY Zenon DEF IInv, TypeOK, ViewInv, View
<1>2. /\ Head(q) = q[1] /\ q[1] \in Event /\ 1 \in 1..Len(q)
      /\ Tail(q) # <<>> => 2 \in 1..Len(q) /\ (q[1].ev # "gap" => q[1].seq < q[2].seq)
  BY Zenon, <1>1, AscendsTail
<1>3. \A k \in {"chunk", "eof", "error"} : k # "gap"
  OBVIOUS
<1>4. q[1].ev # "gap"
  BY Zenon, <1>1, <1>2, <1>3 DEF Snapped, IsTerminal, Terminals
<1>5. ASSUME IsTerminal(q[1]), Tail(q) # <<>> PROVE FALSE
  <2>1. q[1] = terminal /\ q[1].seq < q[2].seq /\ Snapped(r, q[2])
    BY Zenon, <1>1, <1>2, <1>4, <1>5 DEF Snapped
  <2>2. q[1].seq = Len(output)
    <3>1. ~IsTerminal(NoEvent)
      BY DEF IsTerminal, NoEvent, Terminals
    <3> QED BY Zenon, <1>5, <2>1, <3>1 DEF IInv, NumberInv
  <2>3. q[2].seq = Len(output) \/ q[2].seq < Len(output)
    BY Zenon, <2>1, <2>2 DEF Snapped
  <2>4. \A m, n \in Nat : m < n => ~(n = m \/ n < m)
    BY SMTT(20)
  <2>5. q[1].seq \in Nat /\ q[2].seq \in Nat
    <3>1. q[2] \in Event
      BY <1>1, <1>2, <1>5
    <3> QED BY SMTT(20), <1>2, <3>1 DEF Event
  <2> QED BY Zenon, <2>1, <2>2, <2>3, <2>4, <2>5
<1> QED BY Zenon, <1>1, <1>2, <1>4, <1>5

\* The same for the queue.
LEMMA LiveHead ==
  ASSUME IInv, ViewInv, NEW r \in Subs, queue[r] # <<>>
  PROVE  LET e == Head(queue[r]) IN
         /\ e \in Event /\ Queued(r, e)
         /\ IsTerminal(e) => Tail(queue[r]) = <<>>
<1> DEFINE q == queue[r]
<1>1. q \in Seq(Event) /\ Ascends(q) /\ \A i \in 1..Len(q) : Queued(r, q[i])
  BY Zenon DEF IInv, TypeOK, ViewInv, View
<1>2. /\ Head(q) = q[1] /\ q[1] \in Event /\ 1 \in 1..Len(q)
      /\ Tail(q) # <<>> => 2 \in 1..Len(q) /\ (q[1].ev # "gap" => q[1].seq < q[2].seq)
  BY Zenon, <1>1, AscendsTail
<1>3. \A k \in {"eof", "error"} : k # "gap"
  OBVIOUS
<1>4. IsTerminal(q[1]) => q[1].ev # "gap"
  BY Zenon, <1>3 DEF IsTerminal, Terminals
<1>5. ASSUME IsTerminal(q[1]), Tail(q) # <<>> PROVE FALSE
  <2>1. q[1] = terminal /\ q[1].seq < q[2].seq /\ Queued(r, q[2])
    BY Zenon, <1>1, <1>2, <1>4, <1>5 DEF Queued
  <2>2. q[1].seq = Len(output)
    <3>1. ~IsTerminal(NoEvent)
      BY DEF IsTerminal, NoEvent, Terminals
    <3> QED BY Zenon, <1>5, <2>1, <3>1 DEF IInv, NumberInv
  <2>3. q[2].seq = Len(output) \/ q[2].seq < Len(output)
    BY Zenon, <2>1, <2>2 DEF Queued
  <2>4. \A m, n \in Nat : m < n => ~(n = m \/ n < m)
    OBVIOUS
  <2>5. q[1].seq \in Nat /\ q[2].seq \in Nat
    <3>1. q[2] \in Event
      BY <1>1, <1>2, <1>5
    <3> QED BY <1>2, <3>1 DEF Event
  <2> QED BY Zenon, <2>1, <2>2, <2>3, <2>4, <2>5
<1> QED BY Zenon, <1>1, <1>2, <1>5

\* What recv does to the receiver's own state.
LEMMA ReturnsEffect ==
  ASSUME IInv, NEW r \in Subs, NEW e \in Event, Returns(r, e)
  PROVE  /\ e.seq \in Nat /\ e.seq + 1 \in Nat
         /\ pos'[r] = IF e.ev = "chunk" THEN e.seq + 1 ELSE pos[r]
         /\ sub'[r] = IF IsTerminal(e) THEN "done" ELSE sub[r]
         /\ outcome'[r] = IF IsTerminal(e) THEN e.ev ELSE outcome[r]
         /\ gapped'[r] = IF IsTerminal(e) THEN gapped[r] ELSE e.ev = "gap"
         /\ subscribers' \subseteq subscribers
         /\ IsTerminal(e) => e.ev # "open" /\ e.ev # "chunk" /\ e.ev # "gap"
         /\ ~IsTerminal(e) => e.ev \in {"chunk", "gap"}
<1>1. /\ pos \in [Subs -> Nat] /\ sub \in [Subs -> {"none", "open", "done", "dropped"}]
      /\ outcome \in [Subs -> {"open", "eof", "error", "none"}] /\ gapped \in [Subs -> BOOLEAN]
  BY Zenon DEF IInv, TypeOK
<1>2. e.seq \in Nat /\ e.seq + 1 \in Nat /\ e.ev \in {"chunk", "gap", "eof", "error"}
  BY DEF Event
<1>3. /\ IsTerminal(e) => e.ev # "open" /\ e.ev # "chunk" /\ e.ev # "gap"
      /\ ~IsTerminal(e) => e.ev \in {"chunk", "gap"}
  BY <1>2 DEF IsTerminal, Terminals
<1>4. pos'[r] = (IF e.ev = "chunk" THEN e.seq + 1 ELSE pos[r]) /\ subscribers' \subseteq subscribers
  BY Zenon, <1>1 DEF Returns
<1>5. /\ sub'[r] = (IF IsTerminal(e) THEN "done" ELSE sub[r])
      /\ outcome'[r] = (IF IsTerminal(e) THEN e.ev ELSE outcome[r])
      /\ gapped'[r] = (IF IsTerminal(e) THEN gapped[r] ELSE e.ev = "gap")
  BY Zenon, <1>1 DEF Returns
<1> QED BY Zenon, <1>2, <1>3, <1>4, <1>5

\* A step past a chunk is a step over no later event.
LEMMA NextIsAhead == \A m, n \in Nat : m < n => m + 1 <= n
  OBVIOUS

\* An event of the snapshot is received.
LEMMA RecvReplayKeepsView ==
  ASSUME IInv, IInv', ViewInv, NEW r \in Subs, RecvReplay(r)
  PROVE  ViewInv'
<1> USE DEF vars, stateVars, replayVars, readerVars, subVars
<1> DEFINE e == Head(sub_replay[r])
<1>1. /\ Returns(r, e) /\ sub_replay[r] # <<>> /\ sub[r] \in {"open", "done"}
      /\ sub_replay'[r] = Tail(sub_replay[r]) /\ sub_replay[r] \in Seq(Event)
      /\ UNCHANGED <<queue, live_start_seq, live_closed, queue_closed, terminal, output, indexed, targets, current>>
      /\ \A s \in Subs \ {r} : sub_replay'[s] = sub_replay[s]
  BY Zenon DEF RecvReplay, IInv, TypeOK
<1>2. e \in Event /\ Snapped(r, e) /\ e.ev # "gap" /\ (IsTerminal(e) => Tail(sub_replay[r]) = <<>>)
  BY Zenon, <1>1, ReplayHead
<1>3. ASSUME NEW s \in Subs, s # r PROVE View(s)'
  BY Zenon, <1>1, <1>2, <1>3, ReturnsToOne
<1>4. View(r)'
  <2>1. View(r) /\ sub[r] = "open" /\ outcome[r] = "open"
    BY Zenon, <1>1 DEF ViewInv, View, Stands, Drained
  <2>2. /\ e.seq \in Nat
        /\ pos'[r] = IF e.ev = "chunk" THEN e.seq + 1 ELSE pos[r]
        /\ sub'[r] = IF IsTerminal(e) THEN "done" ELSE "open"
        /\ outcome'[r] = IF IsTerminal(e) THEN e.ev ELSE "open"
        /\ subscribers' \subseteq subscribers
        /\ IsTerminal(e) => e.ev # "open" /\ e.ev # "chunk" /\ live_closed[r]
        /\ ~IsTerminal(e) => e.ev = "chunk" /\ e.seq < live_start_seq[r] /\ e.seq < Len(output)
    BY Zenon, <1>1, <1>2, <2>1, ReturnsEffect DEF Snapped
  <2> HIDE DEF e
  <2>3. /\ HasSender(r)' => HasSender(r)
        /\ Held(r)' <=> Held(r)
    BY Zenon, <1>1, <2>2 DEF HasSender, Held
  <2>4. /\ live_start_seq[r] \in Nat /\ Len(output) \in Nat
        /\ \A i \in 1..Len(queue[r]) : queue[r][i].seq \in Nat /\ live_start_seq[r] <= queue[r][i].seq
    <3>1. live_start_seq[r] \in Nat /\ queue[r] \in Seq(Event) /\ output \in Seq(Nat)
      BY Zenon DEF IInv, TypeOK
    <3>3. \A i \in 1..Len(queue[r]) : queue[r][i].seq >= live_start_seq[r]
      BY Zenon DEF IInv, RegistryInv
    <3>4. \A m, n \in Nat : m >= n => n <= m
      OBVIOUS
    <3>5. Len(output) \in Nat
      BY <3>1
    <3> QED BY Zenon, <3>1, <3>3, <3>4, <3>5, EventNumbers
  <2>5. \A l, m, n \in Nat : m < l /\ l <= n => m + 1 <= n
    OBVIOUS
  <2>6. ASSUME NEW i \in 1..Len(queue[r]) PROVE Queued(r, queue[r][i])'
    <3>1. Queued(r, queue[r][i]) /\ queue'[r][i] = queue[r][i]
      BY Zenon, <1>1, <2>1 DEF View
    <3>2. sub'[r] = "open" => pos'[r] <= queue[r][i].seq
      BY Zenon, <2>2, <2>4, <2>5
    <3> QED BY Zenon, <1>1, <2>3, <3>1, <3>2 DEF Queued
  <2>7. /\ Ascends(Tail(sub_replay[r]))
        /\ \A i \in 1..Len(Tail(sub_replay[r])) :
             /\ Snapped(r, Tail(sub_replay[r])[i])
             /\ e.seq < Tail(sub_replay[r])[i].seq /\ Tail(sub_replay[r])[i].seq \in Nat
    BY ZenonT(30), <1>1, <1>2, <2>1, AscendsTail, EventNumbers DEF View, e
  <2>8. ASSUME NEW i \in 1..Len(Tail(sub_replay[r])) PROVE Snapped(r, sub_replay[r][i])'
    <3> DEFINE x == Tail(sub_replay[r])[i]
    <3>1. Snapped(r, x) /\ x = sub_replay'[r][i] /\ e.seq < x.seq /\ x.seq \in Nat
      BY Zenon, <1>1, <2>7
    <3> HIDE DEF x
    <3>2. sub'[r] = "open" => pos'[r] <= x.seq
      BY Zenon, <2>2, <3>1, NextIsAhead
    <3> QED BY Zenon, <1>1, <3>1, <3>2 DEF Snapped
  <2>9. Stands(r)'
    <3>1. pos'[r] <= Len(output)
      BY Zenon, <2>1, <2>2, <2>4, NextIsAhead DEF View, Stands
    <3>2. Held(r) => pos'[r] <= indexed.seq
      <4> SUFFICES ASSUME Held(r) PROVE pos'[r] <= indexed.seq
        BY Zenon
      <4>1. /\ live_start_seq[r] < next_seq /\ indexed.seq + 1 = next_seq /\ indexed \in Event
        BY Zenon, ConfigAssumption DEF Held, IInv, RegistryInv, ReaderInv
      <4>2. indexed.seq \in Nat
        BY SMTT(20), <4>1 DEF Event
      <4>3. live_start_seq[r] <= indexed.seq
        BY SMTT(20), <2>4, <4>1, <4>2
      <4> QED BY Zenon, <2>1, <2>2, <2>4, <2>5, <4>2, <4>3 DEF View, Stands
    <3>3. "done" # "none" /\ "open" # "none" /\ "open" # "done"
      OBVIOUS
    <3> QED BY Zenon, <1>1, <1>2, <2>1, <2>2, <2>3, <3>1, <3>2, <3>3 DEF View, Stands, Drained
  <2> QED BY ZenonT(30), <1>1, <2>1, <2>6, <2>7, <2>8, <2>9 DEF View
<1> QED BY ZenonT(30), <1>1, <1>3, <1>4 DEF ViewInv

\* An event of the queue is received.
LEMMA RecvLiveKeepsView ==
  ASSUME IInv, IInv', ViewInv, NEW r \in Subs, RecvLive(r)
  PROVE  ViewInv'
<1> USE DEF vars, stateVars, replayVars, readerVars, subVars
<1> DEFINE e == Head(queue[r])
<1>1. /\ queue[r] # <<>> /\ sub[r] \in {"open", "done"} /\ sub_replay[r] = <<>> /\ ~live_closed[r]
      /\ queue'[r] = Tail(queue[r]) /\ queue[r] \in Seq(Event)
      /\ UNCHANGED <<sub_replay, live_start_seq, live_closed, queue_closed, terminal, output, indexed, targets, current>>
      /\ \A s \in Subs \ {r} : queue'[s] = queue[s]
  BY Zenon DEF RecvLive, IInv, TypeOK
<1>2. Returns(r, e)
  BY Zenon, <1>1, LiveIsFresh DEF RecvLive
<1>3. e \in Event /\ Queued(r, e) /\ (IsTerminal(e) => Tail(queue[r]) = <<>>)
  BY Zenon, <1>1, LiveHead
<1>4. ASSUME NEW s \in Subs, s # r PROVE View(s)'
  BY Zenon, <1>1, <1>2, <1>3, <1>4, ReturnsToOne
<1>5. View(r)'
  <2>1. View(r) /\ sub[r] = "open" /\ outcome[r] = "open"
    BY Zenon, <1>1 DEF ViewInv, View, Stands, Drained
  <2>2. /\ e.seq \in Nat
        /\ pos'[r] = IF e.ev = "chunk" THEN e.seq + 1 ELSE pos[r]
        /\ sub'[r] = IF IsTerminal(e) THEN "done" ELSE "open"
        /\ outcome'[r] = IF IsTerminal(e) THEN e.ev ELSE "open"
        /\ subscribers' \subseteq subscribers
        /\ IsTerminal(e) => e.ev # "open" /\ e.ev # "chunk" /\ ~HasSender(r) /\ (Reliable \/ queue_closed[r])
        /\ e.ev = "chunk" => e.seq < Len(output) /\ e.ev # "gap"
    <3>1. "chunk" # "gap"
      OBVIOUS
    <3> QED BY Zenon, <1>1, <1>2, <1>3, <2>1, <3>1, ReturnsEffect DEF Queued
  <2> HIDE DEF e
  <2>3. /\ HasSender(r)' => HasSender(r)
        /\ Held(r)' <=> Held(r)
    BY Zenon, <1>1, <2>2 DEF HasSender, Held
  <2>4. /\ Ascends(Tail(queue[r]))
        /\ \A i \in 1..Len(Tail(queue[r])) :
             /\ Queued(r, Tail(queue[r])[i])
             /\ e.ev # "gap" => e.seq < Tail(queue[r])[i].seq /\ Tail(queue[r])[i].seq \in Nat
    BY ZenonT(30), <1>1, <1>3, <2>1, AscendsTail, EventNumbers DEF View, e
  <2>5. ASSUME NEW i \in 1..Len(Tail(queue[r])) PROVE Queued(r, queue[r][i])'
    <3> DEFINE x == Tail(queue[r])[i]
    <3>1. Queued(r, x) /\ x = queue'[r][i] /\ (e.ev # "gap" => e.seq < x.seq /\ x.seq \in Nat)
      BY Zenon, <1>1, <2>4
    <3> HIDE DEF x
    <3>2. sub'[r] = "open" => pos'[r] <= x.seq
      BY Zenon, <2>1, <2>2, <3>1, NextIsAhead DEF Queued
    <3> QED BY Zenon, <1>1, <2>3, <3>1, <3>2 DEF Queued
  <2>6. Ascends(sub_replay'[r]) /\ 1..Len(sub_replay'[r]) = {}
    <3>1. Ascends(<<>>) /\ 1..Len(<<>>) = {}
      BY DEF Ascends
    <3> QED BY Zenon, <1>1, <3>1
  <2>7. Stands(r)'
    <3>1. pos'[r] <= Len(output)
      <4>1. Len(output) \in Nat
        BY DEF IInv, TypeOK
      <4> QED BY ZenonT(30), <2>1, <2>2, <4>1, NextIsAhead DEF View, Stands
    <3>2. Held(r) => pos'[r] <= indexed.seq
      <4> SUFFICES ASSUME Held(r) PROVE pos'[r] <= indexed.seq
        BY Zenon
      <4>1. indexed \in Event
        BY Zenon, ConfigAssumption DEF Held, IInv, ReaderInv
      <4>2. indexed.seq \in Nat
        BY <4>1 DEF Event
      <4> QED BY Zenon, <1>3, <2>1, <2>2, <4>2, NextIsAhead DEF View, Stands, Queued
    <3>3. "done" # "none" /\ "open" # "none" /\ "open" # "done"
      OBVIOUS
    <3> QED BY Zenon, <1>1, <1>3, <2>1, <2>2, <2>3, <3>1, <3>2, <3>3 DEF View, Stands, Drained
  <2> QED BY Zenon, <1>1, <2>4, <2>5, <2>6, <2>7 DEF View
<1> QED BY Zenon, <1>1, <1>4, <1>5 DEF ViewInv

\* The end of a subscription, its drop, and the owners' other steps.
LEMMA OthersKeepView ==
  ASSUME IInv, IInv', ViewInv,
         \/ \E r \in Subs : RecvNone(r) \/ DropSubscription(r)
         \/ SealReplay \/ DropStream \/ CloseForDrop \/ UNCHANGED vars
  PROVE  ViewInv'
<1> USE DEF vars, stateVars, replayVars, readerVars, subVars, histVars
<1>1. /\ UNCHANGED <<terminal, output, indexed, targets, current>> /\ subscribers' \subseteq subscribers
  BY Zenon DEF RecvNone, DropSubscription, SealReplay, DropStream, CloseForDrop
<1>2. Len(output) <= Len(output')
  <2>1. Len(output) \in Nat
    BY DEF IInv, TypeOK
  <2> QED BY SMTT(20), <1>1, <2>1
<1>3. ASSUME NEW s \in Subs PROVE (HasSender(s)' => HasSender(s)) /\ (Held(s)' => Held(s))
  BY Zenon, <1>1 DEF HasSender, Held
<1>4. CASE SealReplay \/ DropStream \/ CloseForDrop \/ UNCHANGED vars
  <2>1. /\ UNCHANGED <<queue, sub_replay, live_start_seq, live_closed, pos, outcome, sub>>
        /\ \A s \in Subs : queue_closed[s] => queue_closed'[s]
    BY Zenon, <1>4 DEF SealReplay, DropStream, CloseForDrop
  <2>2. ASSUME NEW s \in Subs PROVE View(s)'
    BY Zenon, <1>1, <1>2, <1>3, <2>1, ViewFrame DEF ViewInv
  <2> QED BY Zenon, <1>1, <2>2 DEF ViewInv
<1>5. ASSUME NEW r \in Subs, RecvNone(r) PROVE ViewInv'
  <2>1. /\ UNCHANGED <<queue, queue_closed, sub_replay, live_start_seq, live_closed, pos, sub, subscribers>>
        /\ sub[r] \in {"open", "done"} /\ sub_replay[r] = <<>>
        /\ live_closed[r] \/ (queue[r] = <<>> /\ IF Reliable THEN SendersGone(r) ELSE queue_closed[r])
        /\ outcome' = [outcome EXCEPT ![r] = IF outcome[r] = "open" THEN "none" ELSE outcome[r]]
        /\ outcome \in [Subs -> {"open", "eof", "error", "none"}]
    BY Zenon, <1>5 DEF RecvNone, IInv, TypeOK
  <2>2. ASSUME NEW s \in Subs, s # r PROVE View(s)'
    <3>1. outcome'[s] = outcome[s]
      BY Zenon, <2>1, <2>2
    <3> QED BY Zenon, <1>1, <1>2, <1>3, <2>1, <3>1, ViewFrame DEF ViewInv
  <2>3. View(r)'
    <3>1. Drained(r)'
      BY Zenon, <1>1, <2>1 DEF Drained, SendersGone, HasSender
    <3>2. outcome'[r] # "open" /\ "done" # "none"
      BY Zenon, <2>1
    <3>3. Stands(r)'
      BY Zenon, <1>1, <2>1, <3>1, <3>2 DEF ViewInv, View, Stands, HasSender, Held
    <3>4. ASSUME NEW i \in 1..Len(queue[r]) PROVE Queued(r, queue[r][i])'
      BY Zenon, <1>1, <2>1 DEF ViewInv, View, Queued, HasSender, Held
    <3>5. Ascends(sub_replay'[r]) /\ 1..Len(sub_replay'[r]) = {}
      <4>1. Ascends(<<>>) /\ 1..Len(<<>>) = {}
        BY SMTT(20) DEF Ascends
      <4> QED BY Zenon, <2>1, <4>1
    <3> QED BY Zenon, <2>1, <3>3, <3>4, <3>5 DEF ViewInv, View
  <2> QED BY Zenon, <1>1, <2>2, <2>3 DEF ViewInv
<1>6. ASSUME NEW r \in Subs, DropSubscription(r) PROVE ViewInv'
  <2>0. /\ sub \in [Subs -> {"none", "open", "done", "dropped"}] /\ sub_replay \in [Subs -> Seq(Event)]
        /\ queue \in [Subs -> Seq(Event)] /\ live_start_seq \in [Subs -> Nat] /\ live_closed \in [Subs -> BOOLEAN]
    BY Zenon DEF IInv, TypeOK
  <2>1. UNCHANGED <<queue_closed, pos, outcome>>
    BY Zenon, <1>6 DEF DropSubscription
  <2>2. \A s \in Subs \ {r} : /\ sub'[s] = sub[s] /\ sub_replay'[s] = sub_replay[s] /\ queue'[s] = queue[s]
                              /\ live_start_seq'[s] = live_start_seq[s] /\ live_closed'[s] = live_closed[s]
    BY Zenon, <1>6, <2>0 DEF DropSubscription
  <2>3. sub'[r] = "dropped" /\ sub_replay'[r] = <<>> /\ queue'[r] = <<>> /\ live_closed'[r] = FALSE
    BY Zenon, <1>6, <2>0 DEF DropSubscription
  <2>4. ASSUME NEW s \in Subs, s # r PROVE View(s)'
    BY ZenonT(30), <1>1, <1>2, <1>3, <2>1, <2>2, <2>4, ViewFrame DEF ViewInv
  <2>5. Ascends(<<>>) /\ 1..Len(<<>>) = {}
    BY DEF Ascends
  <2>6. "dropped" # "none" /\ "dropped" # "done" /\ "dropped" # "open"
    OBVIOUS
  <2>7. Stands(r)'
    BY Zenon, <1>1, <1>3, <2>1, <2>3, <2>6 DEF ViewInv, View, Stands
  <2>8. View(r)'
    BY Zenon, <2>3, <2>5, <2>7 DEF View
  <2> QED BY Zenon, <1>1, <2>4, <2>8 DEF ViewInv
<1> QED BY Zenon, <1>4, <1>5, <1>6

\* At first everyone is idle.
LEMMA InitView == Init => ViewInv
<1> SUFFICES ASSUME Init PROVE ViewInv
  BY SMTT(20)
<1>1. ~IsTerminal(NoEvent) /\ Ascends(<<>>) /\ 1..Len(<<>>) = {} /\ 0 <= Len(output) /\ NoSub \notin Subs
  BY ConfigAssumption DEF Init, IsTerminal, NoEvent, Terminals, Ascends
<1>2. ASSUME NEW s \in Subs PROVE View(s)
  <2>1. /\ queue[s] = <<>> /\ sub_replay[s] = <<>> /\ pos[s] = 0 /\ outcome[s] = "open" /\ sub[s] = "none"
        /\ live_closed[s] = FALSE /\ ~Held(s)
    BY Zenon, <1>1 DEF Init, Held
  <2>2. "none" # "done" /\ "none" # "open"
    OBVIOUS
  <2>3. Stands(s)
    BY Zenon, <1>1, <2>1, <2>2 DEF Stands
  <2> QED BY Zenon, <1>1, <2>1, <2>3 DEF View
<1> QED BY Zenon, <1>1, <1>2 DEF Init, ViewInv

\* One lemma for every step.
LEMMA NextView ==
  ASSUME IInv, IInv', ViewInv, [Next]_vars
  PROVE  ViewInv'
<1>1. CASE Reader \/ ReadReturns \/ ReaderCancelled
  BY Zenon, <1>1, ReaderKeepsView, SendKeepsView DEF Reader
<1>2. CASE (\E s \in Subs : TrySubscribe(s) \/ Recv(s) \/ DropSubscription(s)) \/ SealReplay \/ DropStream
           \/ CloseForDrop \/ Finished \/ UNCHANGED vars
  BY Zenon, <1>2, SubscribeKeepsView, RecvReplayKeepsView, RecvLiveKeepsView, OthersKeepView DEF Recv, Finished
<1> QED BY Zenon, <1>1, <1>2 DEF Next

-----------------------------------------------------------------------------
(* The refinement *)

Phases == [s \in Subs |-> Phase(s)]

Ended == IF terminal = NoEvent THEN "no" ELSE terminal.ev

\* Where nobody attaches, ends or leaves, no phase changes; where s does, only its
\* own.
LEMMA PhaseSteps ==
  /\ UNCHANGED <<sub, outcome>> => UNCHANGED Phases
  /\ \A s \in Subs :
       (\A t \in Subs \ {s} : sub'[t] = sub[t] /\ outcome'[t] = outcome[t]) =>
         Phases' = [Phases EXCEPT ![s] = Phase(s)']
<1>1. UNCHANGED <<sub, outcome>> => UNCHANGED Phases
  BY Zenon DEF Phases, Phase
<1>2. ASSUME NEW s \in Subs, \A t \in Subs \ {s} : sub'[t] = sub[t] /\ outcome'[t] = outcome[t]
      PROVE  Phases' = [Phases EXCEPT ![s] = Phase(s)']
  <2>1. ASSUME NEW t \in Subs \ {s} PROVE Phase(t)' = Phase(t)
    BY Zenon, <1>2 DEF Phase
  <2> QED BY Zenon, <2>1 DEF Phases
<1> QED BY Zenon, <1>1, <1>2

\* A step that changes nothing an EventStream shows.
LEMMA Unseen ==
  ASSUME UNCHANGED <<output, terminal, stream, sub, outcome, pos, gapped>>
  PROVE  UNCHANGED ES!vars
<1>1. UNCHANGED <<Len(output), Phases>> /\ UNCHANGED (stream # "alive") /\ UNCHANGED Ended
  BY Zenon, PhaseSteps DEF Ended
<1> QED BY Zenon, <1>1 DEF ES!vars, Phases, Ended

\* append_event ingests chunks and finishes the stream; the rest of the reader's
\* work, the sealing and the closing of the state do not show.
LEMMA ReaderRefines ==
  ASSUME IInv, Reader \/ ReadReturns \/ ReaderCancelled \/ SealReplay \/ CloseForDrop
  PROVE  ES!Next \/ UNCHANGED ES!vars
<1> USE DEF vars, stateVars, replayVars, readerVars, subVars, histVars
<1>1. CASE AppendChunk
  <2>1. UNCHANGED <<terminal, stream, sub, outcome, pos, gapped, Phases>> /\ terminal = NoEvent
    BY Zenon, <1>1, PhaseSteps DEF AppendChunk, IInv, ReaderInv
  <2>2. PICK x : output' = Append(output, x)
    BY Zenon, <1>1 DEF AppendChunk, PushChunk
  <2>3. Len(output') \in Nat /\ Len(output') > Len(output)
    <3>1. Len(output) \in Nat /\ Len(Append(output, x)) = Len(output) + 1
      BY DEF IInv, TypeOK
    <3> QED BY SMTT(20), <2>2, <3>1
  <2>4. Ended = "no" /\ Ended' = "no" /\ UNCHANGED (stream # "alive")
    BY Zenon, <2>1 DEF Ended
  <2>5. ES!Ingest
    BY Zenon, <2>1, <2>3, <2>4 DEF ES!Ingest, Phases, Ended
  <2> QED BY Zenon, <2>5 DEF ES!Next
<1>2. ASSUME NEW kind \in Terminals, AppendTerminal(kind) PROVE ES!Next
  <2>1. /\ UNCHANGED <<output, stream, sub, outcome, pos, gapped, Phases>> /\ terminal = NoEvent
        /\ terminal' = [seq |-> next_seq, ev |-> kind]
    BY Zenon, <1>2, PhaseSteps DEF AppendTerminal, PushTerminal, IInv, ReaderInv
  <2>2. [seq |-> next_seq, ev |-> kind].ev = kind /\ NoEvent.ev = "none" /\ "none" \notin Terminals
    BY DEF NoEvent, Terminals
  <2>3. terminal' # NoEvent /\ terminal'.ev = kind
    BY Zenon, <2>1, <2>2
  <2>4. Ended = "no" /\ Ended' = kind /\ UNCHANGED (stream # "alive") /\ UNCHANGED Len(output)
    BY Zenon, <2>1, <2>3 DEF Ended
  <2>5. ES!Finish
    BY Zenon, <2>1, <2>4 DEF ES!Finish, ES!Terminals, Terminals, Phases, Ended
  <2> QED BY Zenon, <2>5 DEF ES!Next
<1>3. CASE UNCHANGED <<output, terminal, stream, sub, outcome, pos, gapped>>
  BY Zenon, <1>3, Unseen
<1>4. CASE CloseForDrop
  <2>1. UNCHANGED <<output, terminal, sub, outcome, pos, gapped>> /\ stream = "dropping" /\ stream' = "dropped"
    BY Zenon, <1>4 DEF CloseForDrop
  <2>2. stream # "alive" /\ stream' # "alive"
    BY <2>1
  <2>3. UNCHANGED <<Len(output), Phases>> /\ UNCHANGED (stream # "alive") /\ UNCHANGED Ended
    BY Zenon, <2>1, <2>2, PhaseSteps DEF Ended
  <2> QED BY Zenon, <2>1, <2>3 DEF ES!vars, Phases, Ended
<1>5. CASE AppendChunkClosed \/ FinishAppend \/ ReaderCancelled \/ SealReplay \/ AppendTerminalClosed
           \/ (\E n \in 1..MaxRead : ReadBytes(n))
           \/ \E s \in Subs : NextTarget(s) \/ SendReliable(s) \/ SendStale(s) \/ SendBestEffort(s)
  BY Zenon, <1>3, <1>5 DEF AppendChunkClosed, FinishAppend, ReaderCancelled, SealReplay, AppendTerminalClosed,
     ReadBytes, NextTarget, SendReliable, SendStale, SendBestEffort
<1> QED BY Zenon, <1>1, <1>2, <1>4, <1>5 DEF Reader, ReadReturns

\* An event that follows what r observed last is the next one, unless there is a Gap.
LEMMA DueNext ==
  ASSUME IInv, NEW r \in Subs, NEW e \in Event, Follows(Mark(r), e), e.ev # "gap"
  PROVE  gapped[r] \/ e.seq = pos[r]
<1>1. Mark(r).seq = pos[r] - 1 /\ (Mark(r).ev = "gap" => gapped[r])
  BY DEF Mark
<1>2. pos[r] \in Nat
  BY Zenon DEF IInv, TypeOK
<1>3. (pos[r] - 1) + 1 = pos[r]
  BY <1>2
<1> QED BY ZenonT(30), <1>1, <1>3 DEF Follows

\* What recv returns is what an EventStream lets the subscription observe.
LEMMA ReturnsRefine ==
  ASSUME IInv, NEW r \in Subs, NEW e \in Event, Returns(r, e), UNCHANGED <<output, terminal, stream>>,
         sub[r] = "open", outcome[r] = "open", Follows(Mark(r), e),
         pos[r] <= e.seq,
         IsTerminal(e) => e = terminal,
         ~IsTerminal(e) => e.seq < Len(output),
         e.ev = "gap" => ~Reliable
  PROVE  ES!Next
<1>1. /\ pos \in [Subs -> Nat] /\ gapped \in [Subs -> BOOLEAN] /\ pos[r] \in Nat /\ Len(output) \in Nat
      /\ sub \in [Subs -> {"none", "open", "done", "dropped"}]
      /\ outcome \in [Subs -> {"open", "eof", "error", "none"}]
  <2>1. Len(output) \in Nat
    BY DEF IInv, TypeOK
  <2> QED BY ZenonT(30), <2>1 DEF IInv, TypeOK
<1>2. /\ e.seq \in Nat
      /\ sub'[r] = IF IsTerminal(e) THEN "done" ELSE "open"
      /\ outcome'[r] = IF IsTerminal(e) THEN e.ev ELSE "open"
      /\ IsTerminal(e) => e.ev # "open" /\ e.ev # "chunk" /\ e.ev # "gap"
      /\ ~IsTerminal(e) => e.ev \in {"chunk", "gap"}
  BY Zenon, ReturnsEffect
<1>3. UNCHANGED <<Len(output), Ended>> /\ UNCHANGED (stream # "alive")
  BY Zenon DEF Ended
<1>4. /\ Phases' = [Phases EXCEPT ![r] = Phase(r)']
      /\ Phases[r] = "open"
      /\ Phases = [Phases EXCEPT ![r] = "open"]
  <2>1. \A t \in Subs \ {r} : sub'[t] = sub[t] /\ outcome'[t] = outcome[t]
    BY Zenon, <1>1 DEF Returns
  <2>2. Phase(r) = "open"
    BY Zenon DEF Phase
  <2> QED BY Zenon, <2>1, <2>2, PhaseSteps DEF Phases
<1>5. /\ IsTerminal(e) => Phase(r)' = "ended"
      /\ ~IsTerminal(e) => Phase(r)' = "open"
  BY Zenon, <1>2 DEF Phase
<1>6. CASE e.ev = "chunk"
  <2>1. ~IsTerminal(e) /\ "chunk" # "gap"
    BY Zenon, <1>2, <1>6
  <2>2. (e.ev = "gap") = FALSE
    BY Zenon, <1>6, <2>1
  <2>3. pos' = [pos EXCEPT ![r] = e.seq + 1] /\ gapped' = [gapped EXCEPT ![r] = FALSE]
    BY ZenonT(30), <1>6, <2>1, <2>2 DEF Returns
  <2>4. e.seq \in pos[r]..(Len(output) - 1) /\ e.seq >= 0
    BY <1>1, <1>2, <2>1
  <2>5. e.seq = pos[r] \/ gapped[r]
    BY Zenon, <1>6, <2>1, DueNext
  <2>6. UNCHANGED Phases
    BY Zenon, <1>4, <1>5, <2>1
  <2>7. ES!ObserveChunk(r)
    BY Zenon, <1>3, <1>4, <2>3, <2>4, <2>5, <2>6 DEF ES!ObserveChunk, Phases, Ended
  <2> QED BY Zenon, <2>7 DEF ES!Next, ES!Observe
<1>7. CASE e.ev = "gap"
  <2>1. ~IsTerminal(e) /\ e.ev # "chunk"
    BY Zenon, <1>2, <1>7
  <2>2. (e.ev = "gap") = TRUE
    BY Zenon, <1>7
  <2>3. pos' = [pos EXCEPT ![r] = pos[r]] /\ gapped' = [gapped EXCEPT ![r] = TRUE]
    BY Zenon, <2>1, <2>2 DEF Returns
  <2>4. pos' = pos
    BY ZenonT(30), <1>1, <2>3
  <2>5. pos[r] < Len(output)
    BY <1>1, <1>2, <2>1
  <2>6. UNCHANGED Phases
    BY Zenon, <1>4, <1>5, <2>1
  <2>7. ES!ObserveGap(r)
    BY Zenon, <1>3, <1>4, <1>7, <2>3, <2>4, <2>5, <2>6 DEF ES!ObserveGap, Phases, Ended
  <2> QED BY Zenon, <2>7 DEF ES!Next, ES!Observe
<1>8. CASE IsTerminal(e)
  <2>1. pos' = [pos EXCEPT ![r] = pos[r]] /\ gapped' = [gapped EXCEPT ![r] = gapped[r]]
    BY Zenon, <1>2, <1>8 DEF Returns
  <2>2. pos' = pos /\ gapped' = gapped
    BY ZenonT(30), <1>1, <2>1
  <2>3. ~IsTerminal(NoEvent)
    BY DEF IsTerminal, NoEvent, Terminals
  <2>4. Ended \in Terminals /\ terminal.seq = Len(output) /\ e = terminal
    BY Zenon, <1>8, <2>3 DEF Ended, IsTerminal, IInv, NumberInv
  <2>5. pos[r] = Len(output) \/ gapped[r]
    BY Zenon, <1>2, <1>8, <2>4, DueNext
  <2>6. Phases' = [Phases EXCEPT ![r] = "ended"]
    BY Zenon, <1>4, <1>5, <1>8
  <2>7. ES!ObserveEnd(r)
    BY Zenon, <1>3, <1>4, <2>2, <2>4, <2>5, <2>6 DEF ES!ObserveEnd, ES!Terminals, Terminals, Phases, Ended
  <2> QED BY Zenon, <2>7 DEF ES!Next, ES!Observe
<1> QED BY Zenon, <1>2, <1>6, <1>7, <1>8

\* recv: an event of the snapshot or of the queue is observed; None is the end of
\* the stream after the drop, or a repetition that does not show.
LEMMA RecvRefines ==
  ASSUME IInv, OrphanInv, ViewInv, NEW r \in Subs, Recv(r)
  PROVE  ES!Next \/ UNCHANGED ES!vars
<1> USE DEF vars, stateVars, replayVars, readerVars, subVars, histVars
<1>1. CASE RecvReplay(r)
  <2> DEFINE e == Head(sub_replay[r])
  <2>1. /\ Returns(r, e) /\ sub_replay[r] # <<>> /\ UNCHANGED <<output, terminal, stream>>
        /\ sub[r] \in {"open", "done"} /\ sub_replay[r] \in Seq(Event)
    BY Zenon, <1>1 DEF RecvReplay, IInv, TypeOK
  <2>2. sub[r] = "open" /\ outcome[r] = "open"
    BY Zenon, <2>1 DEF ViewInv, View, Stands, Drained
  <2>3. e \in Event /\ Snapped(r, e) /\ e.ev # "gap"
    BY Zenon, <2>1, ReplayHead
  <2>4. Follows(Mark(r), e)
    <3>1. e = sub_replay[r][1]
      BY <2>1
    <3> QED BY ZenonT(30), <2>1, <2>2, <3>1 DEF IInv, LineInv, Chain
  <2> HIDE DEF e
  <2> QED BY Zenon, <2>1, <2>2, <2>3, <2>4, ReturnsRefine DEF Snapped
<1>2. CASE RecvLive(r)
  <2> DEFINE e == Head(queue[r])
  <2>1. /\ queue[r] # <<>> /\ UNCHANGED <<output, terminal, stream>> /\ sub_replay[r] = <<>>
        /\ sub[r] \in {"open", "done"} /\ queue[r] \in Seq(Event) /\ ~live_closed[r]
    BY Zenon, <1>2 DEF RecvLive, IInv, TypeOK
  <2>2. Returns(r, e)
    BY Zenon, <1>2, <2>1, LiveIsFresh DEF RecvLive
  <2>3. sub[r] = "open" /\ outcome[r] = "open"
    BY Zenon, <2>1 DEF ViewInv, View, Stands, Drained
  <2>4. e \in Event /\ Queued(r, e)
    BY Zenon, <2>1, LiveHead
  <2>5. Follows(Mark(r), e)
    <3>1. e = queue[r][1]
      BY <2>1
    <3>2. ReplayEnd(r) = Mark(r)
      BY Zenon, <2>1 DEF ReplayEnd, EndOf
    <3> QED BY ZenonT(30), <2>1, <2>3, <3>1, <3>2 DEF IInv, LineInv, Chain
  <2> HIDE DEF e
  <2> QED BY Zenon, <2>1, <2>2, <2>3, <2>4, <2>5, ReturnsRefine DEF Queued
<1>3. CASE RecvNone(r)
  <2>1. /\ UNCHANGED <<output, terminal, stream, sub, pos, gapped>>
        /\ sub[r] \in {"open", "done"} /\ sub_replay[r] = <<>>
        /\ live_closed[r] \/ (queue[r] = <<>> /\ IF Reliable THEN SendersGone(r) ELSE queue_closed[r])
        /\ outcome' = [outcome EXCEPT ![r] = IF outcome[r] = "open" THEN "none" ELSE outcome[r]]
        /\ outcome \in [Subs -> {"open", "eof", "error", "none"}]
    BY Zenon, <1>3 DEF RecvNone, IInv, TypeOK
  <2>2. CASE outcome[r] # "open"
    <3>1. outcome' = outcome
      BY Zenon, <2>1, <2>2
    <3> QED BY Zenon, <2>1, <3>1, Unseen
  <2>3. CASE outcome[r] = "open"
    <3>1. sub[r] = "open"
      BY Zenon, <2>1, <2>3 DEF ViewInv, View, Stands
    <3>2. stream # "alive"
      <4> SUFFICES ASSUME stream = "alive" PROVE FALSE
        BY Zenon
      <4>1. /\ queue_closed[r] => ~Held(r)
            /\ r \in subscribers \/ EndAhead(r)
        BY Zenon, <3>1 DEF OrphanInv, AheadInv
      <4>2. queue[r] = <<>> /\ r \notin subscribers /\ ~Held(r)
        BY Zenon, <2>1, <4>1 DEF ViewInv, View, Stands, HasSender, Held, SendersGone, IInv, RegistryInv
      <4> QED BY Zenon, <2>1, <4>1, <4>2 DEF EndAhead, EndsTerminal
    <3>3. UNCHANGED <<Len(output), Ended>> /\ UNCHANGED (stream # "alive")
      BY Zenon, <2>1 DEF Ended
    <3>4. Phases[r] = "open" /\ Phase(r)' = "ended"
      <4>1. outcome'[r] = "none" /\ "none" # "open"
        BY <2>1, <2>3
      <4> QED BY ZenonT(30), <2>1, <2>3, <3>1, <4>1 DEF Phases, Phase
    <3>5. Phases' = [Phases EXCEPT ![r] = "ended"]
      BY Zenon, <2>1, <3>4, PhaseSteps
    <3>6. ES!ObserveCut(r)
      BY Zenon, <2>1, <3>2, <3>3, <3>4, <3>5 DEF ES!ObserveCut, Phases, Ended
    <3> QED BY Zenon, <3>6 DEF ES!Next, ES!Observe
  <2> QED BY Zenon, <2>2, <2>3
<1> QED BY Zenon, <1>1, <1>2, <1>3 DEF Recv

\* try_subscribe attaches, the drop of a subscription leaves, and the drop of the
\* stream cuts it.
LEMMA OwnersRefine ==
  ASSUME IInv, ViewInv, DropStream \/ \E s \in Subs : TrySubscribe(s) \/ DropSubscription(s)
  PROVE  ES!Next
<1> USE DEF vars, stateVars, replayVars, readerVars, subVars, histVars
<1>1. UNCHANGED <<output, terminal, gapped, outcome>> /\ UNCHANGED Len(output) /\ UNCHANGED Ended
  BY Zenon DEF DropStream, TrySubscribe, DropSubscription, Ended
<1>2. CASE DropStream
  <2>1. stream = "alive" /\ stream' = "dropping" /\ UNCHANGED <<pos, Phases>>
    BY Zenon, <1>2, PhaseSteps DEF DropStream
  <2>2. ~(stream # "alive") /\ (stream # "alive")' = TRUE
    BY <2>1
  <2>3. ES!Cut
    BY Zenon, <1>1, <2>1, <2>2 DEF ES!Cut, Phases, Ended
  <2> QED BY Zenon, <2>3 DEF ES!Next
<1>3. ASSUME NEW s \in Subs, TrySubscribe(s) PROVE ES!Next
  <2>1. /\ UNCHANGED stream /\ sub[s] = "none" /\ sub' = [sub EXCEPT ![s] = "open"]
        /\ sub \in [Subs -> {"none", "open", "done", "dropped"}]
    BY Zenon, <1>3 DEF TrySubscribe, IInv, TypeOK
  <2>2. PICK p : p \in 0..Len(output) /\ pos' = [pos EXCEPT ![s] = p]
    <3>1. pos' = [pos EXCEPT ![s] = IF ReplaySnapshot # <<>> /\ Head(ReplaySnapshot).ev = "chunk"
                                    THEN Head(ReplaySnapshot).seq ELSE Len(output)]
      BY Zenon, <1>3 DEF TrySubscribe
    <3>2. pos' = [pos EXCEPT ![s] = Len(output) - Len(replay)]
      BY ZenonT(30), <3>1, SnapshotChain
    <3>3. Len(output) - Len(replay) \in 0..Len(output)
      BY DEF IInv, TypeOK, WindowInv
    <3> QED BY Zenon, <3>2, <3>3
  <2>3. outcome[s] = "open"
    BY Zenon, <2>1 DEF ViewInv, View, Stands
  <2>4. Phases[s] = "idle" /\ Phase(s)' = "open"
    <3>1. sub'[s] = "open" /\ outcome'[s] = "open" /\ "open" # "none" /\ "open" # "dropped"
      BY <1>1, <2>1, <2>3
    <3> QED BY Zenon, <2>1, <3>1 DEF Phases, Phase
  <2>5. Phases' = [Phases EXCEPT ![s] = "open"]
    BY Zenon, <1>1, <2>1, <2>4, PhaseSteps
  <2>6. ES!Attach(s)
    BY Zenon, <1>1, <2>1, <2>2, <2>4, <2>5 DEF ES!Attach, Phases, Ended
  <2> QED BY Zenon, <2>6 DEF ES!Next
<1>4. ASSUME NEW s \in Subs, DropSubscription(s) PROVE ES!Next
  <2>1. /\ UNCHANGED <<stream, pos>> /\ sub[s] \in {"open", "done"} /\ sub' = [sub EXCEPT ![s] = "dropped"]
        /\ sub \in [Subs -> {"none", "open", "done", "dropped"}]
    BY Zenon, <1>4 DEF DropSubscription, IInv, TypeOK
  <2>2. Phases[s] \in {"open", "ended"} /\ Phase(s)' = "left"
    <3>1. sub[s] # "none" /\ sub[s] # "dropped" /\ sub'[s] = "dropped" /\ "dropped" # "none"
      BY <2>1
    <3>2. Phase(s) \in {"open", "ended"}
      BY Zenon, <3>1 DEF Phase
    <3>3. Phase(s)' = "left"
      BY Zenon, <3>1 DEF Phase
    <3> QED BY Zenon, <3>2, <3>3 DEF Phases
  <2>3. Phases' = [Phases EXCEPT ![s] = "left"]
    BY Zenon, <1>1, <2>1, <2>2, PhaseSteps
  <2>4. ES!Leave(s)
    BY Zenon, <1>1, <2>1, <2>2, <2>3 DEF ES!Leave, Phases, Ended
  <2> QED BY Zenon, <2>4 DEF ES!Next
<1> QED BY Zenon, <1>2, <1>3, <1>4

\* The invariant behind the refinement: nobody is orphaned, and what a subscription
\* is given is in order, of numbers that exist, and ends with the terminal event.
THEOREM ViewInvariant == Spec => [](IInv /\ OrphanInv /\ ViewInv)
<1>1. Init => IInv /\ OrphanInv /\ ViewInv
  BY Zenon, InitIInv, InitView DEF Init, OrphanInv, StaleInv, AheadInv
<1>2. (IInv /\ OrphanInv /\ ViewInv) /\ [Next]_vars => (IInv /\ OrphanInv /\ ViewInv)'
  BY Zenon, NextIInv, NextOrphanInv, NextView
<1> QED BY <1>1, <1>2, PTL DEF Spec

\* The fanout/replay backend implements EventStream: with any number of
\* subscriptions, any capacity and any retention policy, a subscription observes the
\* chunks from where it attached, in order, none skipped without a Gap, the end only
\* after the last, and None without an end only after the stream's drop.
THEOREM FanoutImplementsEventStream == Spec => ImplementsEventStream
<1>1. Init => ES!Init
  <2> SUFFICES ASSUME Init PROVE ES!Init
    BY Zenon
  <2>1. Ended = "no" /\ Phases = [s \in Subs |-> "idle"] /\ (stream # "alive") = FALSE
    BY Zenon DEF Init, Ended, Phases, Phase
  <2>2. Len(output) = 0 /\ (~Reliable) \in BOOLEAN
    BY DEF Init
  <2> QED BY Zenon, <2>1, <2>2 DEF Init, ES!Init, Phases, Ended
<1>2. IInv /\ OrphanInv /\ ViewInv /\ [Next]_vars => [ES!Next]_(ES!vars)
  <2> SUFFICES ASSUME IInv, OrphanInv, ViewInv, [Next]_vars PROVE ES!Next \/ UNCHANGED ES!vars
    BY Zenon
  <2>1. CASE UNCHANGED vars
    BY Zenon, <2>1, Unseen DEF vars, stateVars, replayVars, subVars, histVars
  <2> QED BY Zenon, <2>1, ReaderRefines, RecvRefines, OwnersRefine DEF Next, Finished
<1> QED BY <1>1, <1>2, ViewInvariant, PTL DEF Spec, ImplementsEventStream, ES!Spec

============================================================================
