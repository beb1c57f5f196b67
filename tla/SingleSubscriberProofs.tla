----------------------- MODULE SingleSubscriberProofs -----------------------
(***************************************************************************)
(* The single-subscriber backend for every number of subscriptions,        *)
(* capacity, chunk size and policy: it has one consumer at a time, nothing *)
(* follows a terminal event, the replay window is exact, and a stream that *)
(* is reliable or retains nothing implements EventStream.                  *)
(***************************************************************************)
EXTENDS SingleSubscriber, WellFoundedInduction, TLAPS

Chunks == [ev : {"chunk"}, seq : Int, len : Int]
Ends == {Mark("eof"), Mark("error")}
Events == Chunks \cup Ends \cup {Mark("gap")}

TypeInv ==
  /\ events \in Seq(Chunks)
  /\ terminal_event \in Ends \cup {NoEvent}
  /\ active_id \in Subs \cup {NoSub}
  /\ cached_active \in Subs \cup {NoSub}
  /\ buf \in Int /\ produced \in Int
  /\ event \in Chunks \cup Ends \cup {NoEvent}
  /\ pc \in {"send", "gap"} => event # NoEvent
  /\ sub \in [Subs -> {"none", "open", "dropping", "dropped"}]
  /\ sub_replay \in [Subs -> Seq(Chunks)]
  /\ sub_terminal \in [Subs -> Ends \cup {NoEvent}]
  /\ receiver \in [Subs -> BOOLEAN]
  /\ queue \in [Subs -> Seq(Events)]
  /\ outcome \in [Subs -> {"open", "eof", "error", "none"}]

\* A terminal event in a channel is the last that the reader sent, and whoever has
\* returned one is not sent to any more.
EndInv(s) ==
  /\ \A i \in 1..Len(queue[s]) : IsTerminal(queue[s][i]) => i = Len(queue[s]) /\ pc = "stopped"
  /\ outcome[s] \in Terminals =>
       /\ sub_replay[s] = <<>> /\ sub_terminal[s] = NoEvent /\ queue[s] = <<>>
       /\ ~receiver[s] \/ pc = "stopped"
  /\ sub[s] = "none" => outcome[s] = "open" /\ queue[s] = <<>> /\ ~receiver[s]

\* A consumer has its receiver, so that no send of the reader deregisters it, and it
\* holds the registration.
ConsumerInv ==
  /\ \A s \in Subs : Consuming(s) => receiver[s]
  /\ \A s \in Subs : Consuming(s) /\ stream = "alive" => active_id = s
  /\ \A s, t \in Subs : Consuming(s) /\ Consuming(t) => s = t

IInv == TypeInv /\ ConsumerInv /\ \A s \in Subs : EndInv(s)

-----------------------------------------------------------------------------
\* None is not the id of a subscription.
LEMMA NoSubIsNobody == NoSub \notin Subs
  BY DEF NoSub, Subs

\* A queue of length 0 is the empty one.
LEMMA NothingQueued ==
  ASSUME NEW q \in Seq(Events), Len(q) = 0
  PROVE  q = <<>>
  OBVIOUS

\* The kinds of events do not overlap.
LEMMA EventKinds ==
  /\ NoEvent \notin Events /\ NoEvent.ev = "none"
  /\ \A e \in Chunks : e.ev = "chunk" /\ ~IsTerminal(e)
  /\ \A e \in Ends : e.ev \in Terminals /\ IsTerminal(e)
  /\ Mark("gap") \in Events /\ ~IsTerminal(Mark("gap"))
  BY DEF NoEvent, Events, Chunks, Ends, Mark, IsTerminal, Terminals

\* A stream starts without subscriptions.
LEMMA InitIInv ==
  Init => IInv
<1> SUFFICES ASSUME Init PROVE IInv
  BY Zenon
<1>1. receiver \in [Subs -> BOOLEAN]
  BY Zenon DEF Init
<1>2. TypeInv
  BY <1>1, EventKinds DEF Init, TypeInv
<1>3. ConsumerInv
  BY Zenon DEF Init, ConsumerInv, Consuming
<1>4. ASSUME NEW s \in Subs PROVE EndInv(s)
  BY DEF Init, EndInv, Terminals
<1> QED
  BY Zenon, <1>2, <1>3, <1>4 DEF IInv

-----------------------------------------------------------------------------
(* The reader *)

\* push_replay_event retains chunks only, and remembers a terminal event.
LEMMA PushTypes ==
  ASSUME TypeInv, NEW e \in Chunks \cup Ends, PushReplayEvent(e)
  PROVE  events' \in Seq(Chunks) /\ terminal_event' \in Ends \cup {NoEvent}
<1> USE DEF PushReplayEvent
<1>1. events \in Seq(Chunks) /\ terminal_event \in Ends \cup {NoEvent}
  BY Zenon DEF TypeInv
<1>2. CASE IsTerminal(e)
  BY Zenon, <1>1, <1>2, EventKinds
<1>3. CASE ~IsTerminal(e) /\ ~RetainsReplay
  BY Zenon, <1>1, <1>3
<1>4. CASE ~IsTerminal(e) /\ RetainsReplay
  <2>1. Append(events, e) \in Seq(Chunks)
    BY <1>1, <1>4, EventKinds
  <2>2. PICK k \in 0..Len(Append(events, e)) :
          events' = SubSeq(Append(events, e), k + 1, Len(Append(events, e)))
    BY <1>4, Zenon
  <2>3. ASSUME NEW r \in Seq(Chunks), NEW j \in 0..Len(r)
        PROVE  SubSeq(r, j + 1, Len(r)) \in Seq(Chunks)
    OBVIOUS
  <2> QED
    BY Zenon, <1>1, <1>4, <2>1, <2>2, <2>3
<1> QED
  BY Zenon, <1>2, <1>3, <1>4

\* A step of the reader that sends nothing and deregisters nobody who consumes.
LEMMA QuietStep ==
  ASSUME IInv, UNCHANGED <<subVars, outcome, stream>>,
         events' \in Seq(Chunks), terminal_event' \in Ends \cup {NoEvent},
         buf' \in Int, produced' \in Int,
         event' \in Chunks \cup Ends \cup {NoEvent},
         pc' \in {"send", "gap"} => event' # NoEvent,
         cached_active' \in Subs \cup {NoSub},
         active_id' = active_id \/ (active_id' = NoSub /\ (active_id \in Subs => ~receiver[active_id])),
         pc # "stopped"
  PROVE  IInv'
<1> USE DEF subVars
<1>1. TypeInv'
  BY Zenon DEF IInv, TypeInv
<1>2. ASSUME NEW s \in Subs PROVE Consuming(s)' = Consuming(s)
  BY Zenon DEF Consuming
<1>3. ConsumerInv'
  BY Zenon, <1>2 DEF IInv, ConsumerInv
<1>4. ASSUME NEW s \in Subs PROVE EndInv(s)'
  BY Zenon DEF IInv, EndInv
<1> QED
  BY Zenon, <1>1, <1>3, <1>4 DEF IInv

\* Reading, recording and what follows a send that found nobody or no room.
LEMMA QuietReaderKeepsIInv ==
  ASSUME IInv,
         \/ ActiveChanged \/ SplitChunk \/ SendGapFull \/ Inactive \/ SendFull \/ Yielded
         \/ SendClosed \/ Refresh \/ ReadReturns \/ ReaderCancelled
  PROVE  IInv'
<1> USE DEF stateVars, watchVars, taskVars, activeVars, logVars, histVars
<1>1. TypeInv
  BY Zenon DEF IInv
<1>2. /\ events \in Seq(Chunks) /\ terminal_event \in Ends \cup {NoEvent}
      /\ active_id \in Subs \cup {NoSub} /\ cached_active \in Subs \cup {NoSub}
      /\ buf \in Int /\ produced \in Int /\ event \in Chunks \cup Ends \cup {NoEvent}
      /\ pc \in {"send", "gap"} => event # NoEvent
  BY Zenon, <1>1 DEF TypeInv
<1>3. CASE ActiveChanged
  BY Zenon, <1>2, <1>3, QuietStep DEF ActiveChanged
<1>4. CASE SplitChunk
  <2>1. PICK split_to \in Int : buf' = buf - split_to /\ RecordEvent(Chunk(produced, split_to))
    BY <1>2, <1>4, ConfigAssumption DEF SplitChunk
  <2>2. Chunk(produced, split_to) \in Chunks /\ Chunk(produced, split_to) # NoEvent
    BY Zenon, <1>2, <2>1 DEF Chunk, Chunks, NoEvent, Mark
  <2>3. events' \in Seq(Chunks) /\ terminal_event' \in Ends \cup {NoEvent}
    BY Zenon, <1>1, <2>1, <2>2, PushTypes DEF RecordEvent
  <2> QED
    BY <1>2, <1>4, <2>1, <2>2, <2>3, QuietStep DEF SplitChunk, RecordEvent
<1>5. CASE SendGapFull
  <2>1. produced' \in Int
    BY <1>2, <1>5, ConfigAssumption DEF SendGapFull
  <2> QED
    BY <1>2, <1>5, <2>1, QuietStep DEF SendGapFull
<1>6. CASE Inactive
  BY Zenon, <1>2, <1>6, QuietStep DEF Inactive, SendDone, AfterChunk
<1>7. CASE SendFull
  BY Zenon, <1>2, <1>7, QuietStep DEF SendFull
<1>8. CASE Yielded
  BY Zenon, <1>2, <1>8, QuietStep DEF Yielded, AfterChunk
<1>9. CASE SendClosed
  <2>1. pc # "stopped" /\ pc' = "refresh" /\ ~receiver[cached_active]
    BY Zenon, <1>9 DEF SendClosed
  <2>2. active_id' = active_id \/ (active_id' = NoSub /\ active_id = cached_active)
    BY Zenon, <1>9 DEF SendClosed, ClearActiveIfCurrent
  <2>3. active_id' = active_id \/ (active_id' = NoSub /\ ~receiver[active_id])
    BY <2>1, <2>2, Zenon
  <2>4. UNCHANGED <<subVars, outcome, stream, stateVars, buf, event, produced, cached_active>>
    BY Zenon, <1>9 DEF SendClosed
  <2> QED
    BY Zenon, <1>2, <2>1, <2>3, <2>4, QuietStep
<1>10. CASE Refresh
  <2>1. /\ pc # "stopped" /\ event' \in {event, NoEvent}
        /\ UNCHANGED <<subVars, outcome, stream, stateVars, buf, produced, active_id>>
    BY Zenon, <1>10 DEF Refresh
  <2>2. pc' \in {"send", "gap"} => event' # NoEvent
    <3>1. IsTerminal(event) => event # NoEvent
      BY Zenon, EventKinds DEF IsTerminal, Terminals
    <3>2. \/ event = NoEvent /\ pc' = "chunk"
          \/ IsTerminal(event) /\ event' = event
          \/ event # NoEvent /\ event' = event
          \/ pc' \in {"stopped", "chunk", "read"}
      BY <1>10, Zenon DEF Refresh, AfterChunk
    <3> QED
      BY Zenon, <3>1, <3>2
  <2>3. cached_active' \in {NoSub, active_id}
    BY Zenon, <1>10 DEF Refresh
  <2> QED
    BY Zenon, <1>2, <2>1, <2>2, <2>3, QuietStep
<1>11. CASE ReadReturns
  <2>1. CASE \E n \in 1..MaxRead : ReadBytes(n)
    BY <1>2, <2>1, QuietStep, ConfigAssumption DEF ReadBytes
  <2>2. CASE \E kind \in Terminals : RecordTerminal(kind)
    <3>1. PICK kind \in Terminals : RecordTerminal(kind)
      BY Zenon, <2>2
    <3>2. Mark(kind) \in Ends /\ Mark(kind) # NoEvent
      BY Zenon DEF Ends, Terminals, Mark, NoEvent
    <3>3. events' \in Seq(Chunks) /\ terminal_event' \in Ends \cup {NoEvent}
      BY Zenon, <1>1, <3>1, <3>2, PushTypes DEF RecordTerminal, RecordEvent
    <3> QED
      BY Zenon, <1>2, <3>1, <3>2, <3>3, QuietStep DEF RecordTerminal, RecordEvent
  <2> QED
    BY Zenon, <1>11, <2>1, <2>2 DEF ReadReturns
<1>12. CASE ReaderCancelled
  BY <1>2, <1>12, QuietStep DEF ReaderCancelled
<1> QED
  BY Zenon, <1>3, <1>4, <1>5, <1>6, <1>7, <1>8, <1>9, <1>10, <1>11, <1>12

\* A send to the cached subscriber: it still has its receiver, and the event is the
\* last one if it is terminal.
LEMMA SendKeepsIInv ==
  ASSUME IInv, SendGap \/ SendPendingGap \/ SendOk
  PROVE  IInv'
<1> USE DEF stateVars, watchVars, taskVars, logVars, histVars
<1>1. TypeInv
  BY Zenon DEF IInv
<1>2. /\ cached_active \in Subs \cup {NoSub} /\ queue \in [Subs -> Seq(Events)]
      /\ event \in Chunks \cup Ends \cup {NoEvent}
      /\ pc \in {"send", "gap"} => event # NoEvent
  BY Zenon, <1>1 DEF TypeInv
<1>3. PICK e \in Events :
        /\ queue' = [queue EXCEPT ![cached_active] = Append(queue[cached_active], e)]
        /\ IsTerminal(e) => pc' = "stopped"
  <2>1. CASE SendGap \/ SendPendingGap
    BY Zenon, <2>1, EventKinds DEF SendGap, SendPendingGap
  <2>2. CASE SendOk
    <3>1. event \in Events
      <4>1. pc = "send"
        BY Zenon, <2>2 DEF SendOk
      <4> QED
        BY Zenon, <1>2, <4>1 DEF Events
    <3>2. queue' = [queue EXCEPT ![cached_active] = Append(queue[cached_active], event)]
      BY Zenon, <2>2 DEF SendOk
    <3>3. IsTerminal(event) => pc' = "stopped"
      BY Zenon, <2>2 DEF SendOk, SendDone
    <3> QED
      BY Zenon, <3>1, <3>2, <3>3
  <2> QED
    BY Zenon, <2>1, <2>2
<1>4. /\ pc # "stopped" /\ receiver[cached_active]
      /\ UNCHANGED <<sub, sub_replay, sub_terminal, receiver, outcome, stream, active_id,
                     events, terminal_event, buf, produced>>
  BY Zenon DEF SendGap, SendPendingGap, SendOk, SendDone
<1>5. /\ event' \in {event, NoEvent} /\ cached_active' \in {cached_active, NoSub}
      /\ pc' \in {"send", "gap"} => event' # NoEvent
  <2>1. CASE SendGap
    BY Zenon, <2>1, <1>2 DEF SendGap
  <2>2. CASE SendPendingGap
    BY Zenon, <2>2, <1>2 DEF SendPendingGap
  <2>3. CASE SendOk
    BY Zenon, <2>3 DEF SendOk, SendDone, AfterChunk
  <2> QED
    BY Zenon, <2>1, <2>2, <2>3
<1>6. ASSUME NEW s \in Subs
      PROVE  queue'[s] = IF s = cached_active THEN Append(queue[s], e) ELSE queue[s]
  BY Zenon, <1>2, <1>3
<1>7. queue' \in [Subs -> Seq(Events)]
  <2>1. ASSUME NEW s \in Subs PROVE Append(queue[s], e) \in Seq(Events)
    BY <1>2
  <2> QED
    BY Zenon, <1>2, <1>3, <2>1
<1>8. TypeInv'
  BY Zenon, <1>1, <1>4, <1>5, <1>7 DEF TypeInv
<1>9. ConsumerInv'
  <2>1. ASSUME NEW s \in Subs PROVE Consuming(s)' = Consuming(s)
    BY Zenon, <1>4 DEF Consuming
  <2> QED
    BY Zenon, <1>4, <2>1 DEF IInv, ConsumerInv
<1>10. ASSUME NEW s \in Subs PROVE EndInv(s)'
  <2>1. EndInv(s) /\ Len(queue[s]) \in Nat
    BY <1>2 DEF IInv
  <2>2. CASE s # cached_active
    BY Zenon, <1>4, <1>6, <2>1, <2>2 DEF EndInv
  <2>3. CASE s = cached_active
    <3>1. outcome[s] \notin Terminals
      BY <1>4, <2>1, <2>3, Zenon DEF EndInv
    <3>2. /\ Len(queue'[s]) = Len(queue[s]) + 1 /\ queue'[s][Len(queue[s]) + 1] = e
          /\ \A i \in 1..Len(queue[s]) : queue'[s][i] = queue[s][i]
      <4>1. queue[s] \in Seq(Events) /\ queue'[s] = Append(queue[s], e)
        BY Zenon, <1>2, <1>6, <2>3
      <4> QED
        BY <4>1
    <3>3. ASSUME NEW i \in 1..Len(queue'[s]), IsTerminal(queue'[s][i])
          PROVE  i = Len(queue'[s]) /\ pc' = "stopped"
      <4>1. CASE i = Len(queue[s]) + 1
        BY Zenon, <1>3, <3>2, <3>3, <4>1
      <4>2. CASE i # Len(queue[s]) + 1
        <5>1. i \in 1..Len(queue[s])
          BY <2>1, <3>2, <4>2
        <5> QED
          BY Zenon, <1>4, <2>1, <3>2, <3>3, <5>1 DEF EndInv
      <4> QED
        BY Zenon, <4>1, <4>2
    <3>4. sub[s] # "none"
      BY <1>4, <2>1, <2>3, Zenon DEF EndInv
    <3> QED
      BY Zenon, <1>4, <3>1, <3>3, <3>4 DEF EndInv
  <2> QED
    BY Zenon, <2>2, <2>3
<1> QED
  BY Zenon, <1>8, <1>9, <1>10 DEF IInv

-----------------------------------------------------------------------------
(* Subscriptions *)

\* A step of s that leaves the reader and the other subscriptions alone.
LEMMA OneSubscriptionKeepsIInv ==
  ASSUME IInv, TypeInv', NEW s \in Subs, UNCHANGED <<pc, stream>>,
         \A t \in Subs \ {s} :
            /\ sub'[t] = sub[t] /\ sub_replay'[t] = sub_replay[t] /\ sub_terminal'[t] = sub_terminal[t]
            /\ receiver'[t] = receiver[t] /\ queue'[t] = queue[t] /\ outcome'[t] = outcome[t],
         active_id' = active_id \/ (active_id' = NoSub /\ (active_id \in Subs => ~Consuming(active_id))),
         Consuming(s)' => Consuming(s) /\ receiver'[s],
         EndInv(s)'
  PROVE  IInv'
<1>1. ASSUME NEW t \in Subs \ {s} PROVE (Consuming(t)' <=> Consuming(t)) /\ EndInv(t)'
  BY DEF Consuming, IInv, EndInv
<1>2. ASSUME NEW t \in Subs, Consuming(t)'
      PROVE  Consuming(t) /\ receiver'[t] /\ (stream = "alive" => active_id' = t)
  <2>1. Consuming(t)
    BY Zenon, <1>1, <1>2
  <2>2. receiver[t] /\ (stream = "alive" => active_id = t)
    BY Zenon, <2>1 DEF IInv, ConsumerInv
  <2>3. CASE t = s
    BY Zenon, <1>2, <2>1, <2>2, <2>3
  <2>4. CASE t # s
    BY Zenon, <1>2, <2>1, <2>2, <2>4
  <2> QED
    BY Zenon, <2>3, <2>4
<1>3. ConsumerInv'
  BY Zenon, <1>2 DEF IInv, ConsumerInv
<1> QED
  BY Zenon, <1>1, <1>3 DEF IInv

\* try_subscribe is refused while somebody is registered, and who consumes is.
LEMMA TrySubscribeKeepsIInv ==
  ASSUME IInv, NEW s \in Subs, TrySubscribe(s)
  PROVE  IInv'
<1> USE DEF TrySubscribe, stateVars, taskVars, activeVars, logVars
<1>1. TypeInv /\ EndInv(s) /\ ConsumerInv
  BY Zenon DEF IInv
<1>2. stream = "alive" /\ active_id = NoSub /\ active_id' = s /\ sub[s] = "none"
  BY Zenon DEF NextSubscriberId
<1>3. ASSUME NEW t \in Subs PROVE ~Consuming(t)
  BY Zenon, <1>1, <1>2, NoSubIsNobody DEF ConsumerInv
<1>4. receiver' \in [Subs -> BOOLEAN] /\ receiver'[s]
  BY <1>1, Zenon DEF TypeInv
<1>5. sub_replay' \in [Subs -> Seq(Chunks)]
  <2>1. sub_replay' = [sub_replay EXCEPT ![s] = IF RetainsReplay THEN events ELSE <<>>]
    BY Zenon
  <2>2. <<>> \in Seq(Chunks)
    OBVIOUS
  <2>3. (IF RetainsReplay THEN events ELSE <<>>) \in Seq(Chunks)
    BY Zenon, <1>1, <2>2 DEF TypeInv
  <2> QED
    BY Zenon, <1>1, <2>1, <2>3 DEF TypeInv
<1>6. sub_terminal' \in [Subs -> Ends \cup {NoEvent}]
  BY Zenon, <1>1 DEF TypeInv
<1>7. sub' \in [Subs -> {"none", "open", "dropping", "dropped"}] /\ sub'[s] = "open"
  BY Zenon, <1>1 DEF TypeInv
<1>8. TypeInv'
  BY Zenon, <1>1, <1>2, <1>4, <1>5, <1>6, <1>7 DEF TypeInv
<1>9. ASSUME NEW t \in Subs \ {s}
      PROVE  /\ sub'[t] = sub[t] /\ sub_replay'[t] = sub_replay[t] /\ sub_terminal'[t] = sub_terminal[t]
             /\ receiver'[t] = receiver[t] /\ queue'[t] = queue[t] /\ outcome'[t] = outcome[t]
  BY Zenon, <1>1 DEF TypeInv
<1>10. ConsumerInv'
  <2>1. ASSUME NEW t \in Subs \ {s} PROVE ~Consuming(t)'
    BY Zenon, <1>3, <1>9 DEF Consuming
  <2>2. ASSUME NEW t \in Subs, Consuming(t)' PROVE t = s
    BY Zenon, <2>1, <2>2
  <2> QED
    BY Zenon, <1>2, <1>4, <2>2 DEF ConsumerInv
<1>11. ASSUME NEW t \in Subs PROVE EndInv(t)'
  <2>1. CASE t = s
    BY Zenon, <1>1, <1>2, <1>7, <2>1 DEF EndInv, Terminals
  <2>2. CASE t # s
    BY <1>9, <2>2 DEF IInv, EndInv
  <2> QED
    BY Zenon, <2>1, <2>2
<1> QED
  BY Zenon, <1>8, <1>10, <1>11 DEF IInv

\* The drop of a subscription: its receiver goes first, and its registration only if
\* it still has it.
LEMMA DropKeepsIInv ==
  ASSUME IInv, NEW s \in Subs, DropReceiver(s) \/ DropDeregisters(s)
  PROVE  IInv'
<1> USE DEF stateVars, watchVars, taskVars, activeVars, logVars, histVars
<1>1. TypeInv /\ EndInv(s)
  BY Zenon DEF IInv
<1>2. CASE DropReceiver(s)
  <2> USE DEF DropReceiver
  <2>1. receiver' \in [Subs -> BOOLEAN] /\ ~receiver'[s]
    BY <1>1, <1>2, Zenon DEF TypeInv
  <2>2. /\ sub'[s] = "dropping" /\ queue'[s] = <<>> /\ sub_replay'[s] = <<>>
        /\ sub_terminal'[s] = NoEvent
    BY Zenon, <1>1, <1>2 DEF TypeInv
  <2>3. TypeInv'
    BY <1>1, <1>2, <2>1 DEF TypeInv
  <2>4. EndInv(s)'
    <3>1. 1..Len(queue'[s]) = {}
      BY <2>2
    <3>2. sub'[s] # "none"
      BY Zenon, <2>2
    <3> QED
      BY <2>1, <2>2, <3>1, <3>2, Zenon DEF EndInv
  <2>5. ~Consuming(s)'
    BY Zenon, <2>2 DEF Consuming
  <2>6. ASSUME NEW t \in Subs \ {s}
        PROVE  /\ sub'[t] = sub[t] /\ sub_replay'[t] = sub_replay[t] /\ sub_terminal'[t] = sub_terminal[t]
               /\ receiver'[t] = receiver[t] /\ queue'[t] = queue[t] /\ outcome'[t] = outcome[t]
    BY Zenon, <1>1, <1>2 DEF TypeInv
  <2>7. UNCHANGED <<pc, stream, active_id>>
    BY Zenon, <1>2
  <2> QED
    BY Zenon, <2>3, <2>4, <2>5, <2>6, <2>7, OneSubscriptionKeepsIInv
<1>3. CASE DropDeregisters(s)
  <2> USE DEF DropDeregisters
  <2>1. sub[s] = "dropping" /\ sub'[s] = "dropped" /\ active_id' \in {active_id, NoSub}
    BY Zenon, <1>1, <1>3 DEF TypeInv, ClearActiveIfCurrent
  <2>2. TypeInv'
    BY Zenon, <1>1, <1>3, <2>1 DEF TypeInv
  <2>3. EndInv(s)'
    BY Zenon, <1>1, <1>3, <2>1 DEF EndInv
  <2>4. ~Consuming(s) /\ ~Consuming(s)'
    BY Zenon, <2>1 DEF Consuming
  <2>5. active_id' = active_id \/ (active_id' = NoSub /\ active_id = s)
    BY Zenon, <1>3 DEF ClearActiveIfCurrent
  <2>6. ASSUME NEW t \in Subs \ {s}
        PROVE  /\ sub'[t] = sub[t] /\ sub_replay'[t] = sub_replay[t] /\ sub_terminal'[t] = sub_terminal[t]
               /\ receiver'[t] = receiver[t] /\ queue'[t] = queue[t] /\ outcome'[t] = outcome[t]
    BY Zenon, <1>1, <1>3 DEF TypeInv
  <2>7. UNCHANGED <<pc, stream>>
    BY Zenon, <1>3
  <2> QED
    BY Zenon, <2>2, <2>3, <2>4, <2>5, <2>6, <2>7, OneSubscriptionKeepsIInv
<1> QED
  BY Zenon, <1>2, <1>3

\* next_event: whoever returns its terminal event has nothing left, and stops
\* consuming in the same step in which its receiver goes.
LEMMA RecvKeepsIInv ==
  ASSUME IInv, NEW s \in Subs, Recv(s)
  PROVE  IInv'
<1> USE DEF stateVars, watchVars, taskVars, activeVars, subVars, logVars
<1>1. TypeInv /\ EndInv(s) /\ ConsumerInv
  BY Zenon DEF IInv
<1>2. UNCHANGED <<pc, stream, active_id, cached_active, events, terminal_event, buf, produced,
                  event, sub>> /\ sub[s] = "open"
  BY Zenon DEF Recv, RecvReplay, RecvTerminal, RecvLive, RecvNone
<1>3. ASSUME NEW t \in Subs \ {s}
      PROVE  /\ sub_replay'[t] = sub_replay[t] /\ sub_terminal'[t] = sub_terminal[t]
             /\ receiver'[t] = receiver[t] /\ queue'[t] = queue[t] /\ outcome'[t] = outcome[t]
  BY Zenon, <1>1 DEF Recv, RecvReplay, RecvTerminal, RecvLive, RecvNone, Returns, TypeInv
<1>4. SUFFICES TypeInv' /\ (Consuming(s)' => Consuming(s) /\ receiver'[s]) /\ EndInv(s)'
  BY Zenon, <1>2, <1>3, OneSubscriptionKeepsIInv
<1>5. CASE RecvReplay(s)
  <2>1. /\ sub_replay[s] \in Seq(Chunks) /\ sub_replay[s] # <<>>
        /\ sub_replay' = [sub_replay EXCEPT ![s] = Tail(sub_replay[s])]
        /\ UNCHANGED <<sub_terminal, receiver, queue>>
    BY Zenon, <1>1, <1>5 DEF RecvReplay, TypeInv
  <2>2. Head(sub_replay[s]) \in Chunks /\ Tail(sub_replay[s]) \in Seq(Chunks)
    BY <2>1
  <2>3. ~IsTerminal(Head(sub_replay[s]))
    BY Zenon, <2>2, EventKinds
  <2>4. outcome' = outcome
    BY Zenon, <1>1, <1>5, <2>3 DEF RecvReplay, Returns, TypeInv
  <2>5. TypeInv'
    BY Zenon, <1>1, <1>2, <2>1, <2>2, <2>4 DEF TypeInv
  <2>6. outcome[s] \notin Terminals
    BY Zenon, <1>1, <2>1 DEF EndInv
  <2>7. EndInv(s)'
    BY Zenon, <1>1, <1>2, <2>1, <2>4, <2>6 DEF EndInv
  <2>8. Consuming(s)' => Consuming(s) /\ receiver'[s]
    BY <1>1, <1>2, <2>1, <2>4, Zenon DEF Consuming, ConsumerInv
  <2> QED
    BY Zenon, <2>5, <2>7, <2>8
<1>6. CASE RecvTerminal(s)
  <2> DEFINE e == sub_terminal[s]
  <2>1. /\ e \in Ends /\ sub_replay[s] = <<>> /\ UNCHANGED sub_replay
        /\ sub_terminal' = [sub_terminal EXCEPT ![s] = NoEvent]
        /\ queue' = [queue EXCEPT ![s] = <<>>]
    BY Zenon, <1>1, <1>6 DEF RecvTerminal, TypeInv
  <2>2. receiver' \in [Subs -> BOOLEAN] /\ ~receiver'[s]
    BY <1>1, <1>6, Zenon DEF RecvTerminal, TypeInv
  <2>3. e.ev \in Terminals /\ IsTerminal(e)
    BY Zenon, <2>1, EventKinds
  <2>4. outcome' = [outcome EXCEPT ![s] = e.ev]
    BY Zenon, <1>6, <2>3 DEF RecvTerminal, Returns
  <2>5. /\ outcome'[s] \in Terminals /\ sub_terminal'[s] = NoEvent /\ queue'[s] = <<>>
        /\ sub_replay'[s] = <<>>
    BY Zenon, <1>1, <2>1, <2>3, <2>4 DEF TypeInv
  <2>6. TypeInv'
    BY <1>1, <1>2, <2>1, <2>2, <2>3, <2>4 DEF TypeInv, Terminals
  <2>7. EndInv(s)'
    BY <1>2, <2>2, <2>5 DEF EndInv
  <2>8. ~Consuming(s)'
    BY Zenon, <2>5 DEF Consuming, Terminals
  <2> QED
    BY Zenon, <2>6, <2>7, <2>8
<1>7. CASE RecvLive(s)
  <2> DEFINE e == Head(queue[s])
  <2>1. /\ queue[s] \in Seq(Events) /\ queue[s] # <<>> /\ queue \in [Subs -> Seq(Events)]
        /\ sub_replay[s] = <<>> /\ sub_terminal[s] = NoEvent
        /\ queue' = [queue EXCEPT ![s] = Tail(queue[s])]
        /\ UNCHANGED <<sub_replay, sub_terminal, receiver>>
    BY Zenon, <1>1, <1>7 DEF RecvLive, TypeInv
  <2>2. /\ e \in Events /\ Tail(queue[s]) \in Seq(Events) /\ e = queue[s][1]
        /\ Len(Tail(queue[s])) = Len(queue[s]) - 1 /\ Len(queue[s]) \in Nat \ {0}
        /\ \A i \in 1..Len(Tail(queue[s])) : Tail(queue[s])[i] = queue[s][i + 1]
    BY <2>1
  <2>3. outcome' = [outcome EXCEPT ![s] = IF IsTerminal(e) THEN e.ev ELSE outcome[s]]
    BY Zenon, <1>7 DEF RecvLive, Returns
  <2>4. IsTerminal(e) => e.ev \in Terminals
    BY Zenon DEF IsTerminal
  <2>5. /\ queue'[s] = Tail(queue[s])
        /\ outcome'[s] = IF IsTerminal(e) THEN e.ev ELSE outcome[s]
    BY Zenon, <1>1, <2>1, <2>3 DEF TypeInv
  <2>6. TypeInv'
    <3>1. queue' \in [Subs -> Seq(Events)]
      BY Zenon, <2>1, <2>2
    <3>2. outcome' \in [Subs -> {"open", "eof", "error", "none"}]
      BY Zenon, <1>1, <2>3, <2>4 DEF TypeInv, Terminals
    <3> QED
      BY Zenon, <1>1, <1>2, <2>1, <3>1, <3>2 DEF TypeInv
  <2>7. ASSUME NEW i \in 1..Len(queue'[s]), IsTerminal(queue'[s][i])
        PROVE  i = Len(queue'[s]) /\ pc = "stopped"
    <3> DEFINE q == Tail(queue[s])
    <3>1. i \in 1..Len(q) /\ IsTerminal(q[i])
      BY <2>5, <2>7, Zenon
    <3>2. q[i] = queue[s][i + 1]
      BY <2>2, <3>1, Zenon
    <3>3. IsTerminal(queue[s][i + 1])
      BY <3>1, <3>2, Zenon
    <3>4. i + 1 \in 1..Len(queue[s])
      BY <2>2, <3>1
    <3>5. i + 1 \in 1..Len(queue[s]) /\ IsTerminal(queue[s][i + 1])
      BY Zenon, <3>3, <3>4
    <3>6. i + 1 = Len(queue[s]) /\ pc = "stopped"
      BY Zenon, <1>1, <3>5 DEF EndInv
    <3> QED
      BY <2>2, <2>5, <3>6
  <2>8. ASSUME outcome'[s] \in Terminals PROVE queue'[s] = <<>> /\ pc = "stopped"
    <3>1. outcome[s] \notin Terminals
      BY Zenon, <1>1, <2>1 DEF EndInv
    <3>2. IsTerminal(queue[s][1]) /\ 1 \in 1..Len(queue[s])
      BY <2>2, <2>5, <2>8, <3>1
    <3>3. 1 = Len(queue[s]) /\ pc = "stopped"
      BY Zenon, <1>1, <3>2 DEF EndInv
    <3>4. Tail(queue[s]) \in Seq(Events) /\ Len(Tail(queue[s])) = 0
      BY <2>2, <3>3
    <3>5. Tail(queue[s]) = <<>>
      BY <3>4, NothingQueued, Zenon
    <3> QED
      BY Zenon, <2>5, <3>3, <3>5
  <2>9. EndInv(s)'
    BY Zenon, <1>2, <2>1, <2>7, <2>8 DEF EndInv
  <2>10. Consuming(s)' => outcome[s] = "open"
    BY Zenon, <2>4, <2>5 DEF Consuming, Terminals
  <2>11. Consuming(s)' => Consuming(s) /\ receiver'[s]
    BY <1>1, <1>2, <2>1, <2>10, Zenon DEF Consuming, ConsumerInv
  <2> QED
    BY Zenon, <2>6, <2>9, <2>11
<1>8. CASE RecvNone(s)
  <2>1. /\ UNCHANGED <<sub_replay, sub_terminal, receiver, queue>>
        /\ outcome' = [outcome EXCEPT ![s] = IF outcome[s] = "open" THEN "none" ELSE outcome[s]]
    BY Zenon, <1>8 DEF RecvNone
  <2>2. outcome'[s] # "open" /\ (outcome'[s] \in Terminals => outcome[s] \in Terminals)
    BY Zenon, <1>1, <2>1 DEF TypeInv, Terminals
  <2>3. TypeInv'
    BY Zenon, <1>1, <1>2, <2>1 DEF TypeInv
  <2>4. EndInv(s)'
    BY Zenon, <1>1, <1>2, <2>1, <2>2 DEF EndInv
  <2>5. ~Consuming(s)'
    BY Zenon, <2>2 DEF Consuming
  <2> QED
    BY Zenon, <2>3, <2>4, <2>5
<1> QED
  BY Zenon, <1>5, <1>6, <1>7, <1>8 DEF Recv

-----------------------------------------------------------------------------
\* Sealing the replay and the two steps of the stream's drop: nobody can attach any
\* more once the registration is withdrawn.
LEMMA StreamKeepsIInv ==
  ASSUME IInv, SealReplay \/ DropStream \/ ClearActive
  PROVE  IInv'
<1> USE DEF stateVars, watchVars, taskVars, activeVars, subVars, logVars, histVars
<1>1. TypeInv /\ ConsumerInv
  BY Zenon DEF IInv
<1>2. /\ UNCHANGED <<sub, sub_replay, sub_terminal, receiver, queue, outcome, pc, event, buf,
                     produced, cached_active, terminal_event>>
      /\ events' \in {events, <<>>}
      /\ (UNCHANGED <<stream, active_id>>) \/ (stream' # "alive" /\ active_id' \in {active_id, NoSub})
  BY Zenon DEF SealReplay, DropStream, ClearActive
<1>3. TypeInv'
  <2>1. <<>> \in Seq(Chunks)
    OBVIOUS
  <2>2. events' \in Seq(Chunks) /\ active_id' \in Subs \cup {NoSub}
    BY Zenon, <1>1, <1>2, <2>1 DEF TypeInv
  <2> QED
    BY Zenon, <1>1, <1>2, <2>2 DEF TypeInv
<1>4. ConsumerInv'
  BY Zenon, <1>1, <1>2 DEF ConsumerInv, Consuming
<1>5. ASSUME NEW s \in Subs PROVE EndInv(s)'
  BY Zenon, <1>2 DEF IInv, EndInv
<1> QED
  BY Zenon, <1>3, <1>4, <1>5 DEF IInv

\* Every step of the single-subscriber backend keeps the invariant.
LEMMA NextKeepsIInv ==
  IInv /\ [Next]_<<policy, vars>> => IInv'
<1> SUFFICES ASSUME IInv, [Next]_<<policy, vars>> PROVE IInv'
  BY Zenon
<1>1. CASE UNCHANGED vars
  <2> USE <1>1 DEF vars, stateVars, watchVars, taskVars, activeVars, subVars, logVars, histVars
  <2>1. TypeInv'
    BY Zenon DEF IInv, TypeInv
  <2>2. ConsumerInv'
    BY Zenon DEF IInv, ConsumerInv, Consuming
  <2>3. ASSUME NEW s \in Subs PROVE EndInv(s)'
    BY Zenon DEF IInv, EndInv
  <2> QED
    BY Zenon, <2>1, <2>2, <2>3 DEF IInv
<1>2. CASE Operation
  BY Zenon, <1>2, QuietReaderKeepsIInv, SendKeepsIInv, TrySubscribeKeepsIInv, DropKeepsIInv, RecvKeepsIInv,
     StreamKeepsIInv
     DEF Operation, Reader
<1> QED
  BY Zenon, <1>1, <1>2 DEF Next, Finished

\* The backend has an inductive invariant: a consumer holds its receiver and the
\* registration, and a terminal event is the last the reader sends.
THEOREM SingleInvariant == Spec => []IInv
<1>1. Init => IInv
  BY Zenon, InitIInv
<1>2. IInv /\ [Next]_<<policy, vars>> => IInv'
  BY Zenon, NextKeepsIInv
<1> QED
  BY <1>1, <1>2, PTL DEF Spec

\* try_subscribe, the two steps of a subscription's drop and the reader's stale
\* registrations together let one consumer have the stream at a time, and nobody but
\* itself or the drop of the stream deregisters it.
THEOREM OneConsumer == Spec => []ExclusiveConsumer
<1>1. IInv => ExclusiveConsumer
  BY Zenon DEF IInv, ConsumerInv, ExclusiveConsumer
<1> QED
  BY <1>1, SingleInvariant, PTL

\* A subscription whose next_event has returned a terminal event has nothing more to
\* return.
THEOREM TerminalIsLast == Spec => []NothingAfterTerminal
<1>1. IInv => NothingAfterTerminal
  BY Zenon DEF IInv, EndInv, NothingAfterTerminal
<1> QED
  BY <1>1, SingleInvariant, PTL

-----------------------------------------------------------------------------
(* The bytes of a window *)

\* A set of naturals has a least element: induction, for sets.
LEMMA LeastNatural ==
  ASSUME NEW T \in SUBSET Nat, T # {}
  PROVE  \E x \in T : \A y \in T : x <= y
<1>1. \E x \in T : \A y \in T : ~(<<y, x>> \in OpToRel(<, Nat))
  BY Zenon, NatLessThanWellFounded, WFMin
<1>2. \A x, y \in Nat : x < y => <<x, y>> \in OpToRel(<, Nat)
  BY Zenon DEF OpToRel
<1>3. \A x, y \in Nat : ~(y < x) => x <= y
  OBVIOUS
<1> QED
  BY Zenon, <1>1, <1>2, <1>3

\* A chunk has a length.
LEMMA ChunkLengths ==
  ASSUME NEW r \in Seq(Chunks)
  PROVE  Len(r) \in Nat /\ \A n \in 1..Len(r) : r[n] \in Chunks /\ r[n].len \in Int
<1>1. Len(r) \in Nat /\ \A n \in 1..Len(r) : r[n] \in Chunks
  OBVIOUS
<1> QED
  BY Zenon, <1>1 DEF Chunks

\* The sums that Bytes runs through.
IsSum(sum, r, m) ==
  sum = [n \in 0..m |-> IF n = 0 THEN 0 ELSE sum[n - 1] + r[n].len]

\* Its recursion has a result for every window.
LEMMA SumExists ==
  ASSUME NEW r \in Seq(Chunks), NEW m \in 0..Len(r)
  PROVE  \E sum : IsSum(sum, r, m)
<1> DEFINE T == {n \in 0..Len(r) : ~\E sum : IsSum(sum, r, n)}
<1> SUFFICES ASSUME T # {} PROVE FALSE
  BY Zenon
<1>1. Len(r) \in Nat /\ T \in SUBSET Nat
  OBVIOUS
<1>2. PICK x \in T : \A y \in T : x <= y
  BY Zenon, <1>1, LeastNatural
<1>3. CASE x = 0
  <2>1. IsSum([n \in 0..0 |-> 0], r, 0)
    BY DEF IsSum
  <2> QED
    BY Zenon, <1>2, <1>3, <2>1
<1>4. CASE x # 0
  <2>1. x \in Nat /\ x - 1 \in 0..Len(r) /\ ~(x <= x - 1)
    BY <1>1, <1>2, <1>4
  <2>2. PICK sum : IsSum(sum, r, x - 1)
    BY Zenon, <1>2, <2>1
  <2> DEFINE g == [n \in 0..x |-> IF n = x THEN sum[x - 1] + r[x].len ELSE sum[n]]
  <2>3. \A n \in 0..(x - 1) : sum[n] = IF n = 0 THEN 0 ELSE sum[n - 1] + r[n].len
    BY Zenon, <2>2 DEF IsSum
  <2>4. \A n \in 0..x : g[n] = IF n = 0 THEN 0 ELSE g[n - 1] + r[n].len
    BY <1>4, <2>1, <2>3
  <2>5. IsSum(g, r, x)
    BY Zenon, <2>4 DEF IsSum
  <2> QED
    BY Zenon, <1>2, <2>5
<1> QED
  BY Zenon, <1>3, <1>4

\* The sums of r.
Sums(r) == CHOOSE sum : IsSum(sum, r, Len(r))

\* Bytes is the last of them, and each adds the length of its chunk.
LEMMA BytesAreSummed ==
  ASSUME NEW r \in Seq(Chunks)
  PROVE  /\ Bytes(r) = Sums(r)[Len(r)]
         /\ Sums(r)[0] = 0
         /\ \A n \in 1..Len(r) : Sums(r)[n] = Sums(r)[n - 1] + r[n].len
<1> DEFINE S == Sums(r)
<1>1. Len(r) \in Nat /\ Len(r) \in 0..Len(r)
  OBVIOUS
<1>2. IsSum(S, r, Len(r))
  BY Zenon, <1>1, SumExists DEF Sums
<1>3. Bytes(r) = S[Len(r)]
  BY Zenon DEF Bytes, Sums, IsSum
<1>4. \A n \in 0..Len(r) : S[n] = IF n = 0 THEN 0 ELSE S[n - 1] + r[n].len
  BY Zenon, <1>2 DEF IsSum
<1> HIDE DEF S
<1>5. S[0] = 0 /\ \A n \in 1..Len(r) : S[n] = S[n - 1] + r[n].len
  BY <1>1, <1>4
<1> QED
  BY Zenon, <1>3, <1>5 DEF S

\* Whatever grows by the lengths of the chunks grows by their bytes.
LEMMA BytesAreGrowth ==
  ASSUME NEW r \in Seq(Chunks), NEW g, \A n \in 0..Len(r) : g[n] \in Int,
         \A n \in 1..Len(r) : g[n] = g[n - 1] + r[n].len
  PROVE  Bytes(r) = g[Len(r)] - g[0]
<1> DEFINE S == Sums(r)
           T == {n \in 0..Len(r) : ~(S[n] = g[n] - g[0])}
<1>1. /\ Bytes(r) = S[Len(r)] /\ S[0] = 0
      /\ \A n \in 1..Len(r) : S[n] = S[n - 1] + r[n].len
  BY Zenon, BytesAreSummed
<1>2. Len(r) \in Nat /\ \A n \in 1..Len(r) : r[n].len \in Int
  BY Zenon, ChunkLengths
<1> HIDE DEF S
<1>3. ASSUME T # {} PROVE FALSE
  <2>1. T \in SUBSET Nat
    BY <1>2
  <2>2. PICK x \in T : \A y \in T : x <= y
    BY Zenon, <1>3, <2>1, LeastNatural
  <2>3. 0 \in 0..Len(r) /\ g[0] \in Int
    BY <1>2
  <2>4. x # 0
    BY <1>1, <2>2, <2>3
  <2>5. x \in 1..Len(r) /\ x - 1 \in 0..Len(r) /\ ~(x <= x - 1)
    BY <1>2, <2>2, <2>4
  <2>6. S[x - 1] = g[x - 1] - g[0]
    BY Zenon, <2>2, <2>5
  <2>7. /\ S[x] = S[x - 1] + r[x].len /\ g[x] = g[x - 1] + r[x].len
        /\ r[x].len \in Int /\ g[x - 1] \in Int
    BY Zenon, <1>1, <1>2, <2>5
  <2>8. S[x] = g[x] - g[0]
    BY <2>3, <2>6, <2>7
  <2> QED
    BY Zenon, <2>2, <2>8
<1>4. Len(r) \in 0..Len(r)
  BY <1>2
<1> QED
  BY Zenon, <1>1, <1>3, <1>4

\* The sums are integers.
LEMMA SumsAreIntegers ==
  ASSUME NEW r \in Seq(Chunks), NEW n \in 0..Len(r)
  PROVE  Sums(r)[n] \in Int
<1> DEFINE S == Sums(r)
           T == {k \in 0..Len(r) : S[k] \notin Int}
<1>1. S[0] = 0 /\ \A k \in 1..Len(r) : S[k] = S[k - 1] + r[k].len
  BY Zenon, BytesAreSummed
<1>2. Len(r) \in Nat /\ \A k \in 1..Len(r) : r[k].len \in Int
  BY Zenon, ChunkLengths
<1> HIDE DEF S
<1>3. ASSUME T # {} PROVE FALSE
  <2>1. T \in SUBSET Nat
    BY <1>2
  <2>2. PICK x \in T : \A y \in T : x <= y
    BY Zenon, <1>3, <2>1, LeastNatural
  <2>3. x \in 1..Len(r) /\ x - 1 \in 0..Len(r) /\ ~(x <= x - 1)
    BY <1>1, <1>2, <2>2
  <2>4. S[x - 1] \in Int
    BY Zenon, <2>2, <2>3
  <2>5. S[x] = S[x - 1] + r[x].len /\ r[x].len \in Int
    BY Zenon, <1>1, <1>2, <2>3
  <2>6. ASSUME NEW u \in Int, NEW v \in Int PROVE u + v \in Int
    OBVIOUS
  <2>7. S[x] \in Int
    BY Zenon, <2>4, <2>5, <2>6
  <2> QED
    BY Zenon, <2>2, <2>7
<1> QED
  BY Zenon, <1>3 DEF S

\* Chunks have no negative length, so the sums grow.
LEMMA SumsGrow ==
  ASSUME NEW r \in Seq(Chunks), \A n \in 1..Len(r) : r[n].len >= 0,
         NEW i \in 0..Len(r), NEW j \in i..Len(r)
  PROVE  Sums(r)[i] <= Sums(r)[j]
<1> DEFINE S == Sums(r)
           T == {k \in 0..(Len(r) - i) : ~(S[i] <= S[i + k])}
<1>1. \A k \in 1..Len(r) : S[k] = S[k - 1] + r[k].len
  BY Zenon, BytesAreSummed
<1>2. Len(r) \in Nat /\ \A k \in 1..Len(r) : r[k].len \in Int
  BY Zenon, ChunkLengths
<1>3. \A k \in 0..Len(r) : S[k] \in Int
  BY Zenon, SumsAreIntegers
<1> HIDE DEF S
<1>4. ASSUME T # {} PROVE FALSE
  <2>1. T \in SUBSET Nat
    BY <1>2
  <2>2. PICK x \in T : \A y \in T : x <= y
    BY Zenon, <1>4, <2>1, LeastNatural
  <2>3. x # 0
    BY <1>2, <1>3, <2>2
  <2>4. /\ x - 1 \in 0..(Len(r) - i) /\ ~(x <= x - 1) /\ i + x \in 1..Len(r)
        /\ i + (x - 1) \in 0..Len(r) /\ i + (x - 1) = (i + x) - 1
    BY <1>2, <2>2, <2>3
  <2>5. S[i] <= S[i + (x - 1)]
    BY Zenon, <2>2, <2>4
  <2>6. S[i + x] = S[i + (x - 1)] + r[i + x].len /\ r[i + x].len \in Int /\ r[i + x].len >= 0
    BY Zenon, <1>1, <1>2, <2>4
  <2>7. S[i] \in Int /\ S[i + (x - 1)] \in Int
    BY Zenon, <1>3, <2>4
  <2>8. S[i] <= S[i + x]
    BY <2>5, <2>6, <2>7
  <2> QED
    BY Zenon, <2>2, <2>8
<1>5. j - i \in 0..(Len(r) - i) /\ i + (j - i) = j
  BY <1>2
<1> QED
  BY Zenon, <1>4, <1>5 DEF S

\* The bytes of a part of a window are the difference of two sums.
LEMMA BytesOfPart ==
  ASSUME NEW r \in Seq(Chunks), NEW i \in 0..Len(r), NEW j \in i..Len(r)
  PROVE  Bytes(SubSeq(r, i + 1, j)) = Sums(r)[j] - Sums(r)[i]
<1> DEFINE S == Sums(r)
           g == [n \in 0..(j - i) |-> S[i + n]]
           p == SubSeq(r, i + 1, j)
<1>1. \A k \in 1..Len(r) : S[k] = S[k - 1] + r[k].len
  BY Zenon, BytesAreSummed
<1>2. \A k \in 0..Len(r) : S[k] \in Int
  BY Zenon, SumsAreIntegers
<1>3. p \in Seq(Chunks) /\ Len(p) = j - i /\ \A n \in 1..Len(p) : p[n] = r[i + n]
  OBVIOUS
<1>4. Len(r) \in Nat
  OBVIOUS
<1> HIDE DEF S, p
<1>5. \A n \in 0..Len(p) : g[n] = S[i + n] /\ i + n \in 0..Len(r)
  BY <1>3, <1>4
<1>6. \A n \in 1..Len(p) : /\ i + n \in 1..Len(r) /\ n \in 0..Len(p) /\ n - 1 \in 0..Len(p)
                           /\ i + (n - 1) = (i + n) - 1
  BY <1>3, <1>4
<1> HIDE DEF g
<1>7. \A n \in 0..Len(p) : g[n] \in Int
  BY Zenon, <1>2, <1>5
<1>8. ASSUME NEW n \in 1..Len(p) PROVE g[n] = g[n - 1] + p[n].len
  <2>1. g[n] = S[i + n] /\ g[n - 1] = S[(i + n) - 1]
    BY Zenon, <1>5, <1>6
  <2>2. S[i + n] = S[(i + n) - 1] + r[i + n].len /\ p[n] = r[i + n]
    BY Zenon, <1>1, <1>3, <1>6
  <2> QED
    BY Zenon, <2>1, <2>2
<1>9. Bytes(p) = g[Len(p)] - g[0]
  BY Zenon, <1>3, <1>7, <1>8, BytesAreGrowth
<1>10. g[Len(p)] = S[j] /\ g[0] = S[i]
  <2>1. Len(p) \in 0..Len(p) /\ 0 \in 0..Len(p) /\ i + Len(p) = j /\ i + 0 = i
    BY <1>3, <1>4
  <2> QED
    BY Zenon, <1>5, <2>1
<1> QED
  BY Zenon, <1>9, <1>10 DEF S, p

\* A chunk adds its length.
LEMMA BytesOfAppend ==
  ASSUME NEW r \in Seq(Chunks), NEW e \in Chunks
  PROVE  Bytes(Append(r, e)) = Bytes(r) + e.len
<1> DEFINE t == Append(r, e)
<1>1. /\ t \in Seq(Chunks) /\ Len(t) = Len(r) + 1 /\ t[Len(r) + 1] = e
      /\ Len(r) \in Nat /\ SubSeq(t, 1, Len(r)) = r
  OBVIOUS
<1> HIDE DEF t
<1>2. /\ 0 \in 0..Len(t) /\ Len(r) \in 0..Len(t) /\ 0 + 1 = 1
      /\ Len(t) \in 1..Len(t) /\ Len(t) - 1 = Len(r)
  BY <1>1
<1>3. Bytes(r) = Sums(t)[Len(r)] - Sums(t)[0]
  BY Zenon, <1>1, <1>2, BytesOfPart
<1>4. Sums(t)[0] = 0 /\ Bytes(t) = Sums(t)[Len(t)] /\ Sums(t)[Len(t)] = Sums(t)[Len(r)] + t[Len(t)].len
  BY Zenon, <1>1, <1>2, BytesAreSummed
<1>5. Sums(t)[Len(r)] \in Int
  BY Zenon, <1>1, <1>2, SumsAreIntegers
<1>6. Bytes(t) = Bytes(r) + t[Len(t)].len
  BY <1>3, <1>4, <1>5
<1> QED
  BY Zenon, <1>1, <1>6 DEF t

-----------------------------------------------------------------------------
(* The replay window *)

\* The window of a reader that records all it reads: the last chunks, as many as the
\* retention policy covers.
WindowEdge ==
  /\ Len(events) <= produced
  /\ \A i \in 1..Len(events) : events[i].seq = produced - Len(events) + i - 1
  /\ Retention = "all" => Len(events) = produced
  /\ Retention = "chunks" =>
       /\ Len(events) <= RetainN
       /\ Len(events) < produced => Len(events) = RetainN
  /\ Retention = "bytes" =>
       /\ events # <<>> => Bytes(SubSeq(events, 2, Len(events))) < RetainN
       /\ Len(events) < produced => Bytes(events) >= RetainN

\* The counters agree with the window, and a reliable reader never has a gap to tell
\* of, which is what would make it discard chunks unrecorded.
CountInv ==
  /\ policy \in Policies
  /\ buf >= 0 /\ produced >= 0
  /\ \A i \in 1..Len(events) : events[i].len >= 0
  /\ chunk_count = Len(events) /\ byte_count = Bytes(events)
  /\ ~RetainsReplay => events = <<>>
  /\ Reliable => ~gap_pending

EdgeInv == CountInv /\ (Reliable /\ RetainsReplay => WindowEdge)

\* After j pops, the window r of N chunks with sums S is still larger than it has to
\* be.
StillTooLarge(N, S, j) ==
  \/ Retention = "chunks" /\ N - j > RetainN
  \/ Retention = "bytes" /\ S[N] - S[j + 1] >= RetainN

\* The window is what r leaves when trimmed.
TrimmedFrom(r, N, S) ==
  \E k \in 0..(N - 1) :
    /\ \A j \in 0..(k - 1) : StillTooLarge(N, S, j)
    /\ ~StillTooLarge(N, S, k)
    /\ events' = SubSeq(r, k + 1, N)
    /\ chunk_count' = N - k
    /\ byte_count' = S[N] - S[k]

\* trim_replay_window stops at the first chunk that the window needs.
LEMMA PushTrims ==
  ASSUME TypeInv, CountInv, NEW e \in Chunks, e.len >= 0, RetainsReplay, PushReplayEvent(e),
         NEW r, r = Append(events, e), NEW N, N = Len(r), NEW S, S = Sums(r)
  PROVE  TrimmedFrom(r, N, S)
<1>1. /\ events \in Seq(Chunks) /\ chunk_count = Len(events) /\ byte_count = Bytes(events)
  BY Zenon DEF TypeInv, CountInv
<1>2. r \in Seq(Chunks) /\ N = Len(events) + 1 /\ Len(events) \in Nat
  BY <1>1
<1>3. chunk_count + 1 = N /\ PushedBytes(e) = Bytes(r)
  BY Zenon, <1>1, <1>2, BytesOfAppend DEF PushedBytes
<1>4. Bytes(r) = S[N] /\ \A j \in 0..N : S[j] \in Int
  BY Zenon, <1>2, BytesAreSummed, SumsAreIntegers
<1>5. ASSUME NEW j \in 0..N PROVE Bytes(SubSeq(r, 1, j)) = S[j]
  <2>1. 0 \in 0..Len(r) /\ 0 + 1 = 1 /\ j \in 0..Len(r)
    BY <1>2
  <2>2. Bytes(SubSeq(r, 0 + 1, j)) = S[j] - S[0]
    BY Zenon, <1>2, <2>1, BytesOfPart
  <2>3. S[0] = 0 /\ S[j] \in Int
    BY Zenon, <1>2, <1>4, BytesAreSummed
  <2>4. S[j] - 0 = S[j]
    BY <2>3
  <2> QED
    BY Zenon, <2>1, <2>2, <2>3, <2>4
<1>6. ~IsTerminal(e)
  BY Zenon, EventKinds
<1>7. PICK k \in 0..N :
        /\ \A j \in 0..(k - 1) : PopsFront(r, N, S[N], j)
        /\ ~PopsFront(r, N, S[N], k)
        /\ events' = SubSeq(r, k + 1, N)
        /\ chunk_count' = N - k
        /\ byte_count' = S[N] - Bytes(SubSeq(r, 1, k))
  BY Zenon, <1>1, <1>3, <1>4, <1>6 DEF PushReplayEvent
<1>8. \A j \in 0..(N - 1) : PopsFront(r, N, S[N], j) <=> StillTooLarge(N, S, j)
  <2>1. \A j \in 0..(N - 1) : j < N /\ j + 1 \in 0..N
    BY <1>2
  <2> QED
    BY Zenon, <1>5, <2>1 DEF PopsFront, StillTooLarge
<1>9. k # N
  <2>1. ~StillTooLarge(N, S, N - 1)
    <3>1. (N - 1) + 1 = N /\ N - (N - 1) = 1 /\ N \in 0..N
      BY <1>2
    <3>2. S[N] - S[N] = 0
      BY <1>4, <3>1
    <3>3. ~(1 > RetainN) /\ ~(0 >= RetainN)
      BY ConfigAssumption
    <3> QED
      BY Zenon, <3>1, <3>2, <3>3 DEF StillTooLarge
  <2>2. N - 1 \in 0..(N - 1)
    BY <1>2
  <2> QED
    BY Zenon, <1>7, <1>8, <2>1, <2>2
<1>10. k \in 0..(N - 1) /\ \A j \in 0..(k - 1) : j \in 0..(N - 1)
  BY <1>2, <1>9
<1> QED
  BY Zenon, <1>5, <1>7, <1>8, <1>10 DEF TrimmedFrom

\* The end of an end of r.
LEMMA EndOfEnd ==
  ASSUME NEW r \in Seq(Chunks), NEW k \in 0..(Len(r) - 1)
  PROVE  SubSeq(SubSeq(r, k + 1, Len(r)), 2, Len(r) - k) = SubSeq(r, (k + 1) + 1, Len(r))
  OBVIOUS

\* Recording a chunk leaves the window exact, and its counters right.
LEMMA PushKeepsEdge ==
  ASSUME TypeInv, EdgeInv, NEW len \in Nat, PushReplayEvent(Chunk(produced, len)),
         produced' = produced + 1, buf' >= 0, Reliable => ~gap_pending',
         UNCHANGED <<policy, replay_sealed>>
  PROVE  EdgeInv'
<1>0. PICK e, r, N, S : e = Chunk(produced, len) /\ r = Append(events, e) /\ N = Len(r) /\ S = Sums(r)
  BY Zenon
<1>1. /\ events \in Seq(Chunks) /\ produced \in Int /\ CountInv /\ produced >= 0
      /\ policy \in Policies /\ (Reliable /\ RetainsReplay => WindowEdge)
      /\ \A i \in 1..Len(events) : events[i].len >= 0
  BY Zenon DEF TypeInv, EdgeInv, CountInv
<1>2. /\ Reliable' = Reliable /\ Retention' = Retention /\ RetainsReplay' = RetainsReplay
  BY Zenon DEF Reliable, Retention, RetainsReplay
<1>3. e \in Chunks /\ e.len = len /\ e.seq = produced /\ e.len >= 0
  BY <1>0, <1>1 DEF Chunk, Chunks
<1>4. produced' \in Int /\ produced' >= 0
  BY <1>1
<1>5. CASE ~RetainsReplay
  <2>1. ~IsTerminal(e)
    BY Zenon, <1>3, EventKinds
  <2>2. UNCHANGED <<events, chunk_count, byte_count>>
    BY Zenon, <1>0, <1>5, <2>1 DEF PushReplayEvent
  <2> QED
    BY Zenon, <1>1, <1>2, <1>4, <1>5, <2>2 DEF EdgeInv, CountInv, Reliable
<1>6. CASE RetainsReplay
  <2>1. PICK k \in 0..(N - 1) :
          /\ \A j \in 0..(k - 1) : StillTooLarge(N, S, j)
          /\ ~StillTooLarge(N, S, k)
          /\ events' = SubSeq(r, k + 1, N)
          /\ chunk_count' = N - k
          /\ byte_count' = S[N] - S[k]
    <3>1. PushReplayEvent(e) /\ CountInv
      BY Zenon, <1>0, <1>1
    <3>2. e \in Chunks /\ e.len >= 0 /\ TypeInv /\ RetainsReplay
      BY Zenon, <1>3, <1>6
    <3>3. TrimmedFrom(r, N, S)
      BY Zenon, <1>0, <3>1, <3>2, PushTrims
    <3> QED
      BY Zenon, <3>3 DEF TrimmedFrom
  <2>2. /\ r \in Seq(Chunks) /\ N = Len(events) + 1 /\ Len(events) \in Nat /\ r[N] = e
        /\ \A i \in 1..Len(events) : r[i] = events[i]
    BY <1>0, <1>1, <1>3
  <2>3. \A j \in 0..N : S[j] \in Int
    BY Zenon, <1>0, <2>2, SumsAreIntegers
  <2>4. Bytes(r) = S[N] /\ Bytes(r) = Bytes(events) + len
    BY Zenon, <1>0, <1>1, <1>3, <2>2, BytesAreSummed, BytesOfAppend
  <2>5. k \in 0..N /\ N \in k..N /\ k \in Nat /\ N \in Nat /\ N = Len(r)
    BY <1>0, <2>1, <2>2
  <2>6. \A i \in 1..N : r[i].len >= 0
    <3>1. \A i \in 1..N : i \in 1..Len(events) \/ i = N
      BY <2>2
    <3> QED
      BY Zenon, <1>1, <1>3, <2>2, <3>1
  <2>7. /\ events' \in Seq(Chunks) /\ Len(events') = N - k
        /\ \A i \in 1..(N - k) : events'[i] = r[k + i] /\ k + i \in 1..N
    BY <2>1, <2>2, <2>5
  <2>8. Bytes(events') = S[N] - S[k]
    <3>1. k \in 0..Len(r) /\ N \in k..Len(r)
      BY Zenon, <1>0, <2>5
    <3> QED
      BY Zenon, <1>0, <2>1, <2>2, <3>1, BytesOfPart
  <2>9. CountInv'
    <3>1. \A i \in 1..Len(events') : events'[i].len >= 0
      BY Zenon, <2>6, <2>7
    <3> QED
      BY Zenon, <1>1, <1>2, <1>4, <1>6, <2>1, <2>7, <2>8, <3>1 DEF CountInv
  <2>10. ASSUME Reliable PROVE WindowEdge'
    <3>0. /\ Len(events') = N - k /\ N = Len(events) + 1 /\ produced' = produced + 1
          /\ Len(events) \in Nat /\ produced \in Int /\ k \in Nat /\ k \in 0..(N - 1)
      BY Zenon, <1>1, <2>1, <2>2, <2>5, <2>7
    <3>1. WindowEdge
      BY Zenon, <1>1, <1>6, <2>10
    <3>2. \A i \in 1..N : r[i].seq = produced - Len(events) + i - 1
      <4>1. \A i \in 1..Len(events) : r[i].seq = produced - Len(events) + i - 1
        BY Zenon, <2>2, <3>1 DEF WindowEdge
      <4>2. r[N].seq = produced - Len(events) + N - 1
        BY <1>1, <1>3, <2>2
      <4>3. \A i \in 1..N : i \in 1..Len(events) \/ i = N
        BY <2>2
      <4> QED
        BY Zenon, <4>1, <4>2, <4>3
    <3>3. \A i \in 1..Len(events') : events'[i].seq = produced' - Len(events') + i - 1
      <4>1. \A i \in 1..Len(events') : events'[i].seq = produced - Len(events) + (k + i) - 1
        BY Zenon, <2>7, <3>2
      <4>2. ASSUME NEW i \in 1..Len(events')
            PROVE  produced - Len(events) + (k + i) - 1 = produced' - Len(events') + i - 1
        BY <3>0
      <4> QED
        BY Zenon, <4>1, <4>2
    <3>4. k # 0 => StillTooLarge(N, S, k - 1)
      <4>1. k # 0 => k - 1 \in 0..(k - 1)
        BY <2>5
      <4> QED
        BY Zenon, <2>1, <4>1
    <3>5. ASSUME Retention = "all" PROVE Len(events') = produced'
      <4>1. k = 0
        BY Zenon, <3>4, <3>5 DEF StillTooLarge
      <4>2. Len(events) = produced
        BY Zenon, <3>1, <3>5 DEF WindowEdge
      <4> QED
        BY <3>0, <4>1, <4>2
    <3>6. ASSUME Retention = "chunks"
          PROVE  Len(events') <= RetainN /\ (Len(events') < produced' => Len(events') = RetainN)
      <4>1. ~(N - k > RetainN)
        BY Zenon, <2>1, <3>6 DEF StillTooLarge
      <4>2. k # 0 => N - (k - 1) > RetainN
        BY Zenon, <3>4, <3>6 DEF StillTooLarge
      <4>3. Len(events) < produced => Len(events) = RetainN
        BY Zenon, <3>1, <3>6 DEF WindowEdge
      <4>4. RetainN \in Nat /\ N \in Nat /\ produced' = produced + 1
        BY Zenon, <2>5, ConfigAssumption
      <4>5. Len(events') <= RetainN
        BY <3>0, <4>1, <4>4
      <4>6. CASE k # 0
        BY <3>0, <4>1, <4>2, <4>4, <4>6
      <4>7. CASE k = 0
        <5>1. Len(events') < produced' => Len(events) < produced
          BY <3>0, <4>7
        <5> QED
          BY <3>0, <4>3, <4>4, <4>5, <4>7, <5>1
      <4> QED
        BY Zenon, <4>5, <4>6, <4>7
    <3>7. ASSUME Retention = "bytes"
          PROVE  /\ Bytes(SubSeq(events', 2, Len(events'))) < RetainN
                 /\ Len(events') < produced' => Bytes(events') >= RetainN
      <4>1. ~(S[N] - S[k + 1] >= RetainN)
        BY Zenon, <2>1, <3>7 DEF StillTooLarge
      <4>2. k # 0 => S[N] - S[(k - 1) + 1] >= RetainN
        BY Zenon, <3>4, <3>7 DEF StillTooLarge
      <4>3. Len(events) < produced => Bytes(events) >= RetainN
        BY Zenon, <3>1, <3>7 DEF WindowEdge
      <4>4. /\ k + 1 \in 0..N /\ N \in (k + 1)..N /\ (k - 1) + 1 = k /\ N \in 0..N
            /\ (Len(events') < produced' /\ k = 0 => Len(events) < produced)
        BY <3>0
      <4>5. SubSeq(events', 2, Len(events')) = SubSeq(r, (k + 1) + 1, N)
        <5>1. /\ k \in 0..(Len(r) - 1) /\ events' = SubSeq(r, k + 1, Len(r))
              /\ Len(events') = Len(r) - k /\ N = Len(r)
          BY Zenon, <2>1, <2>5, <2>7
        <5>2. SubSeq(SubSeq(r, k + 1, Len(r)), 2, Len(r) - k) = SubSeq(r, (k + 1) + 1, Len(r))
          BY Zenon, <2>2, <5>1, EndOfEnd
        <5> QED
          BY Zenon, <5>1, <5>2
      <4>6. Bytes(SubSeq(r, (k + 1) + 1, N)) = S[N] - S[k + 1]
        <5>1. k + 1 \in 0..Len(r) /\ N \in (k + 1)..Len(r)
          BY Zenon, <1>0, <4>4
        <5> QED
          BY Zenon, <1>0, <2>2, <5>1, BytesOfPart
      <4>7. S[N] - S[k + 1] < RetainN
        <5>1. S[N] \in Int /\ S[k + 1] \in Int
          BY Zenon, <2>3, <4>4
        <5> QED
          BY <4>1, <5>1, ConfigAssumption
      <4>8. CASE k # 0
        BY Zenon, <2>8, <4>2, <4>4, <4>5, <4>6, <4>7, <4>8
      <4>9. CASE k = 0
        <5>1. S[k] = 0 /\ S[N] \in Int
          BY Zenon, <1>0, <2>2, <2>3, <4>4, <4>9, BytesAreSummed
        <5>2. Bytes(events) \in Int
          <6>1. Len(events) \in 0..Len(events)
            BY <2>2
          <6> QED
            BY Zenon, <1>1, <6>1, BytesAreSummed, SumsAreIntegers
        <5>3. Len(events') < produced' => Bytes(events') >= RetainN
          <6>1. Bytes(events') = S[N] - 0 /\ S[N] = Bytes(events) + len
            BY Zenon, <2>4, <2>8, <5>1
          <6>2. Bytes(events) >= RetainN => Bytes(events') >= RetainN
            BY <5>1, <5>2, <6>1, ConfigAssumption
          <6> QED
            BY Zenon, <4>3, <4>4, <4>9, <6>2
        <5> QED
          BY Zenon, <4>5, <4>6, <4>7, <5>3
      <4> QED
        BY Zenon, <4>8, <4>9
    <3>8. Len(events') <= produced'
      <4>1. Len(events) <= produced
        BY Zenon, <3>1 DEF WindowEdge
      <4> QED
        BY <3>0, <4>1
    <3> QED
      BY Zenon, <1>2, <3>3, <3>5, <3>6, <3>7, <3>8 DEF WindowEdge
  <2> QED
    BY Zenon, <1>2, <2>9, <2>10 DEF EdgeInv
<1> QED
  BY Zenon, <1>5, <1>6

\* A step that records no chunk and seals nothing.
LEMMA EdgeFrame ==
  ASSUME EdgeInv, buf' >= 0, Reliable => ~gap_pending',
         UNCHANGED <<policy, events, chunk_count, byte_count, replay_sealed, produced>>
  PROVE  EdgeInv'
<1>1. /\ Reliable' = Reliable /\ Retention' = Retention /\ RetainsReplay' = RetainsReplay
  BY Zenon DEF Reliable, Retention, RetainsReplay
<1>2. CountInv'
  BY Zenon, <1>1 DEF EdgeInv, CountInv
<1>3. WindowEdge => WindowEdge'
  BY Zenon, <1>1 DEF WindowEdge
<1> QED
  BY Zenon, <1>1, <1>2, <1>3 DEF EdgeInv

\* An empty window has no bytes.
LEMMA BytesOfNothing == Bytes(<<>>) = 0
<1>1. <<>> \in Seq(Chunks) /\ Len(<<>>) = 0
  OBVIOUS
<1> QED
  BY Zenon, <1>1, BytesAreSummed

\* Sealing, and a lossy reader that discards what it has read, leave no window to be
\* exact about; recording a chunk keeps it exact; nothing else touches it.
LEMMA NextEdge ==
  ASSUME IInv, EdgeInv, [Next]_<<policy, vars>>
  PROVE  EdgeInv'
<1> USE DEF stateVars, watchVars, taskVars, activeVars, logVars, histVars
<1>1. TypeInv /\ CountInv /\ buf \in Int /\ buf >= 0 /\ produced \in Int /\ produced >= 0
  BY Zenon DEF IInv, TypeInv, EdgeInv, CountInv
<1>2. Reliable => ~gap_pending
  BY Zenon, <1>1 DEF CountInv
<1>3. ASSUME NEW a, ObserveActive(a) PROVE Reliable => ~gap_pending'
  BY Zenon, <1>2, <1>3 DEF ObserveActive
<1>4. CASE UNCHANGED <<policy, vars>>
  BY Zenon, <1>1, <1>2, <1>4, EdgeFrame DEF vars
<1> SUFFICES ASSUME Operation, UNCHANGED policy PROVE EdgeInv'
  BY Zenon, <1>4 DEF Next, Finished
<1>5. CASE SplitChunk
  <2>1. PICK len \in Nat : buf' = buf - len /\ len <= buf /\ RecordEvent(Chunk(produced, len))
    BY <1>1, <1>5, ConfigAssumption DEF SplitChunk
  <2>2. buf' >= 0
    BY <1>1, <2>1
  <2>3. PushReplayEvent(Chunk(produced, len)) /\ UNCHANGED replay_sealed
    BY Zenon, <2>1 DEF RecordEvent
  <2>4. produced' = produced + 1 /\ (Reliable => ~gap_pending')
    BY Zenon, <1>3, <1>5 DEF SplitChunk
  <2> QED
    BY Zenon, <1>1, <2>2, <2>3, <2>4, PushKeepsEdge
<1>6. CASE SendGapFull
  <2>1. ~Reliable
    BY Zenon, <1>2, <1>6 DEF SendGapFull, GapDue
  <2>2. produced' >= 0 /\ buf' >= 0
    <3>1. produced' = produced + (buf + ReadChunkSize - 1) \div ReadChunkSize /\ buf' = 0
      BY Zenon, <1>6 DEF SendGapFull
    <3>2. buf + ReadChunkSize - 1 \in Nat
      BY <1>1, ConfigAssumption
    <3>3. \A x \in Nat, y \in Nat \ {0} : x \div y \in Nat
      OBVIOUS
    <3>4. (buf + ReadChunkSize - 1) \div ReadChunkSize \in Nat
      BY Zenon, <3>2, <3>3, ConfigAssumption
    <3> QED
      BY <1>1, <3>1, <3>4
  <2>3. UNCHANGED <<events, chunk_count, byte_count, replay_sealed>>
    BY Zenon, <1>6 DEF SendGapFull
  <2> QED
    BY Zenon, <1>1, <2>1, <2>2, <2>3 DEF EdgeInv, CountInv, Reliable, Retention, RetainsReplay
<1>7. CASE SealReplay
  <2>1. /\ replay_sealed' = TRUE /\ events' = <<>> /\ chunk_count' = 0 /\ byte_count' = 0
        /\ UNCHANGED <<buf, produced, gap_pending>>
    BY Zenon, <1>7 DEF SealReplay
  <2>2. Len(events') = 0 /\ \A i \in 1..Len(events') : events'[i].len >= 0
    BY <2>1
  <2>3. ~RetainsReplay' /\ Reliable' = Reliable
    BY Zenon, <2>1 DEF RetainsReplay, Reliable
  <2>4. CountInv'
    BY Zenon, <1>1, <1>2, <2>1, <2>2, <2>3, BytesOfNothing DEF CountInv
  <2> QED
    BY Zenon, <2>3, <2>4 DEF EdgeInv
<1>8. CASE ReadReturns
  <2>1. CASE \E n \in 1..MaxRead : ReadBytes(n)
    <3>1. PICK n \in 1..MaxRead : ReadBytes(n)
      BY Zenon, <2>1
    <3>2. buf' >= 0
      BY <3>1, ConfigAssumption DEF ReadBytes
    <3>3. Reliable => ~gap_pending'
      BY Zenon, <1>2, <1>3, <3>1 DEF ReadBytes
    <3> QED
      BY Zenon, <3>1, <3>2, <3>3, EdgeFrame DEF ReadBytes
  <2>2. CASE \E kind \in Terminals : RecordTerminal(kind)
    <3>1. PICK kind \in Terminals : RecordTerminal(kind)
      BY Zenon, <2>2
    <3>2. IsTerminal(Mark(kind))
      BY DEF IsTerminal, Mark
    <3>3. UNCHANGED <<events, chunk_count, byte_count, replay_sealed>>
      BY Zenon, <3>1, <3>2 DEF RecordTerminal, RecordEvent, PushReplayEvent
    <3>4. (Reliable => ~gap_pending') /\ UNCHANGED <<buf, produced>>
      BY Zenon, <1>3, <3>1 DEF RecordTerminal
    <3> QED
      BY Zenon, <1>1, <3>3, <3>4, EdgeFrame
  <2> QED
    BY Zenon, <1>8, <2>1, <2>2 DEF ReadReturns
<1>9. CASE ReaderCancelled
  <2>1. buf' >= 0
    BY <1>9 DEF ReaderCancelled
  <2> QED
    BY Zenon, <1>2, <1>9, <2>1, EdgeFrame DEF ReaderCancelled
<1>10. CASE ActiveChanged \/ SendGap \/ SendPendingGap \/ Inactive \/ SendOk
  <2>1. Reliable => ~gap_pending'
    BY Zenon, <1>2, <1>3, <1>10 DEF ActiveChanged, SendGap, SendPendingGap, Inactive, SendOk
  <2>2. UNCHANGED <<events, chunk_count, byte_count, replay_sealed, produced, buf>>
    BY Zenon, <1>10 DEF ActiveChanged, SendGap, SendPendingGap, Inactive, SendOk, SendDone
  <2> QED
    BY Zenon, <1>1, <2>1, <2>2, EdgeFrame
<1>11. CASE SendFull \/ Yielded \/ SendClosed \/ Refresh
  <2>1. Reliable => ~gap_pending'
    BY Zenon, <1>2, <1>3, <1>11 DEF SendFull, Yielded, SendClosed, Refresh
  <2>2. UNCHANGED <<events, chunk_count, byte_count, replay_sealed, produced, buf>>
    BY Zenon, <1>11 DEF SendFull, Yielded, SendClosed, Refresh
  <2> QED
    BY Zenon, <1>1, <2>1, <2>2, EdgeFrame
<1>12. CASE DropStream \/ ClearActive \/ \E s \in Subs : TrySubscribe(s) \/ Recv(s) \/ DropReceiver(s) \/ DropDeregisters(s)
  <2>1. UNCHANGED <<events, chunk_count, byte_count, replay_sealed, produced, buf, gap_pending>>
    BY Zenon, <1>12 DEF DropStream, ClearActive, TrySubscribe, Recv, RecvReplay, RecvTerminal, RecvLive,
       RecvNone, DropReceiver, DropDeregisters
  <2> QED
    BY Zenon, <1>1, <1>2, <2>1, EdgeFrame
<1> QED
  BY Zenon, <1>5, <1>6, <1>7, <1>8, <1>9, <1>10, <1>11, <1>12 DEF Operation, Reader

\* What the policy covers, in terms of the window's edge.
LEMMA EdgeIsExact == IInv /\ EdgeInv => ReplayWindowExact
<1> SUFFICES ASSUME IInv, EdgeInv, Reliable PROVE ReplayWindowExact
  BY Zenon DEF ReplayWindowExact
<1>1. /\ events \in Seq(Chunks) /\ produced \in Int /\ policy \in Policies
      /\ \A i \in 1..Len(events) : events[i].len >= 0
      /\ chunk_count = Len(events) /\ byte_count = Bytes(events)
      /\ ~RetainsReplay => events = <<>>
      /\ RetainsReplay => WindowEdge
  BY Zenon DEF IInv, TypeInv, EdgeInv, CountInv
<1>2. Len(events) \in Nat /\ RetainN \in Nat
  BY <1>1, ConfigAssumption
<1>3. CASE ~RetainsReplay
  <2>1. \A i \in 1..Len(events) : FALSE
    BY <1>1, <1>3
  <2> QED
    BY Zenon, <1>1, <1>3, <2>1 DEF ReplayWindowExact, Covered
<1>4. CASE RetainsReplay
  <2>1. WindowEdge
    BY Zenon, <1>1, <1>4
  <2>2. Retention \in {"all", "chunks", "bytes"}
    <3>1. policy.retention \in {"none", "chunks", "bytes", "all"}
      BY <1>1, ConfigAssumption
    <3> QED
      BY Zenon, <1>4, <3>1 DEF RetainsReplay, Retention
  <2>3. \A i \in 1..Len(events) : events[i].seq = produced - Len(events) + i - 1
    BY Zenon, <2>1 DEF WindowEdge
  <2>4. ASSUME NEW i \in 1..Len(events)
        PROVE  Covered(events[i].seq, Bytes(SubSeq(events, i + 1, Len(events))))
    <3>1. CASE Retention = "all"
      BY Zenon, <1>4, <3>1 DEF Covered
    <3>2. CASE Retention = "chunks"
      <4>1. Len(events) <= RetainN
        BY Zenon, <2>1, <3>2 DEF WindowEdge
      <4>2. events[i].seq >= produced - RetainN
        BY <1>1, <1>2, <2>3, <4>1
      <4> QED
        BY Zenon, <1>4, <3>2, <4>2 DEF Covered
    <3>3. CASE Retention = "bytes"
      <4> DEFINE S == Sums(events)
                 N == Len(events)
      <4>1. 1 \in 0..N /\ i \in 0..N /\ N \in 0..N /\ N \in 1..N /\ N \in i..N /\ i \in 1..N /\ 1 + 1 = 2
        BY <1>2
      <4>2. events # <<>>
        BY <1>2
      <4>3. Bytes(SubSeq(events, 2, N)) < RetainN
        BY Zenon, <2>1, <3>3, <4>2 DEF WindowEdge
      <4>4. Bytes(SubSeq(events, 1 + 1, N)) = S[N] - S[1] /\ Bytes(SubSeq(events, i + 1, N)) = S[N] - S[i]
        BY Zenon, <1>1, <4>1, BytesOfPart
      <4>5. S[1] \in Int /\ S[i] \in Int /\ S[N] \in Int
        BY Zenon, <1>1, <4>1, SumsAreIntegers
      <4>6. S[1] <= S[i]
        BY Zenon, <1>1, <4>1, SumsGrow
      <4> HIDE DEF S
      <4>7. S[N] - S[1] < RetainN
        BY Zenon, <4>1, <4>3, <4>4
      <4>8. S[N] - S[i] < RetainN
        BY <1>2, <4>5, <4>6, <4>7
      <4>9. Bytes(SubSeq(events, i + 1, N)) < RetainN
        BY Zenon, <4>4, <4>8
      <4> QED
        BY Zenon, <1>4, <3>3, <4>9 DEF Covered
    <3> QED
      BY Zenon, <2>2, <3>1, <3>2, <3>3
  <2>5. ASSUME Len(events) < produced PROVE ~Covered(produced - Len(events) - 1, byte_count)
    <3>1. CASE Retention = "all"
      <4>1. Len(events) = produced
        BY Zenon, <2>1, <3>1 DEF WindowEdge
      <4> QED
        BY <1>1, <2>5, <4>1
    <3>2. CASE Retention = "chunks"
      <4>1. Len(events) = RetainN
        BY Zenon, <2>1, <2>5, <3>2 DEF WindowEdge
      <4>2. ~(produced - Len(events) - 1 >= produced - RetainN)
        BY <1>1, <1>2, <4>1
      <4> QED
        BY Zenon, <3>2, <4>2 DEF Covered
    <3>3. CASE Retention = "bytes"
      <4>1. Bytes(events) >= RetainN
        BY Zenon, <2>1, <2>5, <3>3 DEF WindowEdge
      <4>2. Bytes(events) \in Int
        <5>1. Len(events) \in 0..Len(events)
          BY <1>2
        <5> QED
          BY Zenon, <1>1, <5>1, BytesAreSummed, SumsAreIntegers
      <4>3. ~(byte_count < RetainN)
        BY <1>1, <1>2, <4>1, <4>2
      <4> QED
        BY Zenon, <3>3, <4>3 DEF Covered
    <3> QED
      BY Zenon, <2>2, <3>1, <3>2, <3>3
  <2> QED
    BY Zenon, <1>1, <2>3, <2>4, <2>5 DEF ReplayWindowExact
<1> QED
  BY Zenon, <1>3, <1>4

\* A stream starts with an empty window.
LEMMA InitEdge == Init => EdgeInv
<1> SUFFICES ASSUME Init PROVE EdgeInv
  BY Zenon
<1>1. Len(events) = 0 /\ \A i \in 1..Len(events) : FALSE
  BY DEF Init
<1>2. CountInv
  BY <1>1, BytesOfNothing DEF Init, CountInv
<1>3. WindowEdge
  <2>1. events = <<>> /\ Len(events) = 0 /\ produced = 0 /\ 0 <= RetainN /\ 0 <= 0
    BY <1>1, ConfigAssumption DEF Init
  <2>2. ~(0 < 0)
    OBVIOUS
  <2> QED
    BY Zenon, <1>1, <2>1, <2>2 DEF WindowEdge
<1> QED
  BY Zenon, <1>2, <1>3 DEF EdgeInv

\* The window and its counters have an inductive invariant.
THEOREM WindowInvariant == Spec => [](IInv /\ EdgeInv)
<1>1. Init => IInv /\ EdgeInv
  BY Zenon, InitIInv, InitEdge
<1>2. (IInv /\ EdgeInv) /\ [Next]_<<policy, vars>> => (IInv /\ EdgeInv)'
  BY Zenon, NextKeepsIInv, NextEdge
<1> QED
  BY <1>1, <1>2, PTL DEF Spec

\* push_replay_event and trim_replay_window of a reliable stream keep the last chunks
\* that the retention policy covers, all of them and no others, whoever subscribes,
\* leaves or is found gone in between.
THEOREM WindowIsExact == Spec => []ReplayWindowExact
<1>1. IInv /\ EdgeInv => ReplayWindowExact
  BY Zenon, EdgeIsExact
<1> QED
  BY <1>1, WindowInvariant, PTL

-----------------------------------------------------------------------------
(* The reader's hands *)

\* The streams that a subscriber can follow from its snapshot on: what a lossy reader
\* discards unrecorded would be a hole in a replay.
Recording == Reliable \/ Retention = "none"

\* The chunk in the reader's hands is the last one cut, and was recorded if anything
\* is; the terminal event is in its hands until it stops; a gap belongs to the
\* subscriber it was noticed for, and goes out before anything else does.
ReaderInv ==
  /\ event.ev = "chunk" =>
       /\ pc \in {"send", "refresh"} /\ event.seq = produced - 1 /\ event.seq \in Nat
       /\ ~recorded => ~RetainsReplay
       /\ ~gap_pending
  /\ IsTerminal(event) => event = terminal_event /\ pc \in {"send", "gap", "refresh"}
  /\ terminal_event # NoEvent => pc = "stopped" \/ event = terminal_event
  /\ pc = "send" => ~gap_pending
  /\ pc = "gap" => gap_pending
  /\ pc \in {"gap", "refresh"} /\ gap_pending => lag_id = cached_active
  /\ gap_pending => lag_id # NoSub
  /\ pc = "refresh" =>
       cached_active # NoSub /\ active_id # cached_active /\ ~receiver[cached_active]

\* Whoever the reader or the watch channel names has subscribed, and only an open
\* subscription has a receiver.
IdInv ==
  /\ lag_id \in Subs \cup {NoSub}
  /\ active_id # NoSub => sub[active_id] # "none"
  /\ cached_active # NoSub => sub[cached_active] # "none"
  /\ lag_id # NoSub => sub[lag_id] # "none"
  /\ \A s \in Subs : receiver[s] => sub[s] = "open"
  /\ \A s \in Subs : sub[s] = "none" => gapped[s] = FALSE /\ sub_replay[s] = <<>>
  /\ pos \in [Subs -> Int] /\ gapped \in [Subs -> BOOLEAN]

\* Who has returned None is served no more; who registered and was not noticed yet
\* was sent nothing; and who is sent a second chunk is the one that a lag would be
\* booked on.
ServiceInv(s) ==
  /\ outcome[s] = "none" =>
       /\ sub_replay[s] = <<>> /\ sub_terminal[s] = NoEvent /\ queue[s] = <<>>
       /\ active_id # s /\ cached_active # s
  /\ Consuming(s) /\ active_id = s /\ cached_active # s /\ pc # "stopped" =>
       queue[s] = <<>> /\ lag_id # s
  /\ Consuming(s) /\ ~Reliable /\ cached_active = s /\ event.ev = "chunk" =>
       lag_id = s \/ queue[s] = <<>>

CoreInv == IInv /\ EdgeInv /\ ReaderInv /\ IdInv /\ \A s \in Subs : ServiceInv(s)

\* A reader between two events has nothing in its hands and has not seen the end.
LEMMA IdleReader ==
  ASSUME CoreInv, pc \in {"read", "chunk", "yield"}
  PROVE  event = NoEvent /\ terminal_event = NoEvent
<1>1. event \in Chunks \cup Ends \cup {NoEvent} /\ terminal_event \in Ends \cup {NoEvent}
  BY Zenon DEF CoreInv, IInv, TypeInv
<1>2. pc # "send" /\ pc # "gap" /\ pc # "refresh" /\ pc # "stopped"
  OBVIOUS
<1> QED
  BY Zenon, <1>1, <1>2, EventKinds DEF CoreInv, ReaderInv

\* A chunk in the reader's hands means that the stream has not ended.
LEMMA ChunkInHand ==
  ASSUME CoreInv, event.ev = "chunk"
  PROVE  event \in Chunks /\ terminal_event = NoEvent /\ pc \in {"send", "refresh"} /\ event.seq = produced - 1
<1>1. event \in Chunks \cup Ends \cup {NoEvent} /\ terminal_event \in Ends \cup {NoEvent}
  BY Zenon DEF CoreInv, IInv, TypeInv
<1>2. "chunk" \notin Terminals /\ "chunk" # "none" /\ "stopped" # "send" /\ "stopped" # "refresh"
  BY DEF Terminals
<1> QED
  BY Zenon, <1>1, <1>2, EventKinds DEF CoreInv, ReaderInv

\* Whom the reader serves, and still has a receiver, consumes.
LEMMA ServedConsumes ==
  ASSUME CoreInv, cached_active \in Subs, receiver[cached_active], pc # "stopped"
  PROVE  Consuming(cached_active)
<1>1. /\ sub[cached_active] = "open" /\ EndInv(cached_active) /\ ServiceInv(cached_active)
      /\ outcome[cached_active] \in {"open", "eof", "error", "none"}
  BY Zenon DEF CoreInv, IdInv, IInv, TypeInv
<1> QED
  BY Zenon, <1>1 DEF EndInv, ServiceInv, Consuming, Terminals

\* Whoever consumes is the only one that the reader can have served successfully.
LEMMA OthersAreGone ==
  ASSUME CoreInv, NEW s \in Subs, Consuming(s), cached_active \in Subs, cached_active # s, pc # "stopped"
  PROVE  ~receiver[cached_active]
  BY Zenon, ServedConsumes DEF CoreInv, IInv, ConsumerInv

\* A reader that comes to rest has no constraints to meet.
LEMMA AtRest ==
  ASSUME event' = NoEvent, pc' \notin {"send", "gap", "refresh"},
         terminal_event' # NoEvent => pc' = "stopped", gap_pending' => lag_id' # NoSub
  PROVE  ReaderInv'
<1>1. NoEvent.ev # "chunk" /\ ~IsTerminal(NoEvent)
  BY DEF NoEvent, Mark, IsTerminal, Terminals
<1> QED
  BY Zenon, <1>1 DEF ReaderInv

\* observe_active keeps a gap only for the subscriber it was booked on.
LEMMA ObservedGap ==
  ASSUME CoreInv, NEW a, ObserveActive(a), gap_pending'
  PROVE  gap_pending /\ lag_id = a /\ lag_id' = a /\ lag_id' # NoSub
<1>1. gap_pending /\ lag_id = a
  BY Zenon DEF ObserveActive
<1>2. ~Reliable /\ lag_id # NoSub
  BY Zenon, <1>1 DEF CoreInv, EdgeInv, CountInv, ReaderInv
<1> QED
  BY Zenon, <1>1, <1>2 DEF ObserveActive

\* Once a chunk is recorded, a stream that retains has something to replay.
LEMMA RetainedIsRecorded ==
  ASSUME CoreInv, NEW e \in Chunks, e.len >= 0, PushReplayEvent(e), UNCHANGED <<policy, replay_sealed>>, ~recorded'
  PROVE  ~RetainsReplay'
<1> SUFFICES ASSUME RetainsReplay PROVE FALSE
  BY Zenon DEF RetainsReplay, Retention
<1>1. TypeInv /\ CountInv /\ events \in Seq(Chunks)
  BY Zenon DEF CoreInv, IInv, TypeInv, EdgeInv
<1>2. PICK r, N, S : r = Append(events, e) /\ N = Len(r) /\ S = Sums(r)
  BY Zenon
<1>3. TrimmedFrom(r, N, S)
  BY Zenon, <1>1, <1>2, PushTrims
<1>4. PICK k \in 0..(N - 1) : events' = SubSeq(r, k + 1, N)
  BY Zenon, <1>3 DEF TrimmedFrom
<1>5. r \in Seq(Chunks)
  BY <1>1, <1>2
<1>6. events' # <<>>
  <2>1. N = Len(r)
    BY Zenon, <1>2
  <2>2. Len(SubSeq(r, k + 1, N)) = N - k /\ N - k # 0
    BY <1>4, <1>5, <2>1
  <2>3. Len(<<>>) = 0
    OBVIOUS
  <2> QED
    BY Zenon, <1>4, <2>2, <2>3
<1>7. ~IsTerminal(e)
  BY Zenon, EventKinds
<1> QED
  BY Zenon, <1>6, <1>7 DEF PushReplayEvent

\* The chunk that is split off the buffer.
LEMMA SplitIsChunk ==
  ASSUME CoreInv, SplitChunk
  PROVE  /\ event' \in Chunks /\ event'.ev = "chunk" /\ event'.seq = produced /\ event'.len >= 0
         /\ PushReplayEvent(event') /\ produced' = produced + 1 /\ produced \in Nat
         /\ pc = "chunk" /\ pc' = "send" /\ cached_active' = active_id /\ ~gap_pending'
         /\ event = NoEvent /\ terminal_event = NoEvent /\ terminal_event' = NoEvent
         /\ lag_id' = IF Reliable THEN lag_id ELSE cached_active
         /\ UNCHANGED <<replay_sealed, active_id, stream, subVars, histVars>>
<1>1. buf \in Int /\ buf >= 0 /\ produced \in Int /\ produced >= 0
  BY Zenon DEF CoreInv, IInv, TypeInv, EdgeInv, CountInv
<1>2. PICK len \in Nat : RecordEvent(Chunk(produced, len))
  BY <1>1, ConfigAssumption DEF SplitChunk
<1>3. /\ Chunk(produced, len) \in Chunks /\ Chunk(produced, len).ev = "chunk"
      /\ Chunk(produced, len).seq = produced /\ Chunk(produced, len).len >= 0
  BY <1>1 DEF Chunk, Chunks
<1>4. event' = Chunk(produced, len) /\ PushReplayEvent(event')
  BY Zenon, <1>2 DEF RecordEvent
<1>5. event' \in Chunks /\ event'.ev = "chunk" /\ event'.seq = produced /\ event'.len >= 0
  BY Zenon, <1>3, <1>4
<1>6. event = NoEvent /\ terminal_event = NoEvent /\ pc = "chunk"
  BY Zenon, IdleReader DEF SplitChunk
<1>7. terminal_event' = NoEvent
  BY Zenon, <1>4, <1>5, <1>6, EventKinds DEF PushReplayEvent
<1>8. ~gap_pending' /\ lag_id' = IF Reliable THEN lag_id ELSE cached_active
  BY Zenon DEF SplitChunk, ObserveActive, GapDue
<1>9. /\ produced' = produced + 1 /\ pc' = "send" /\ cached_active' = active_id
      /\ UNCHANGED <<replay_sealed, active_id, stream, subVars, histVars>>
  BY Zenon, <1>2 DEF SplitChunk, RecordEvent
<1>10. produced \in Nat
  BY <1>1
<1> QED
  BY Zenon, <1>4, <1>5, <1>6, <1>7, <1>8, <1>9, <1>10

\* The terminal event that is recorded.
LEMMA RecordedTerminal ==
  ASSUME CoreInv, NEW kind \in Terminals, RecordTerminal(kind)
  PROVE  /\ event' = Mark(kind) /\ terminal_event' = Mark(kind) /\ Mark(kind) \in Ends
         /\ event = NoEvent /\ terminal_event = NoEvent /\ pc = "read"
         /\ cached_active' = active_id /\ ObserveActive(active_id)
         /\ pc' = (IF gap_pending' THEN "gap" ELSE "send")
         /\ UNCHANGED <<active_id, stream, subVars, logVars, histVars>>
<1>1. Mark(kind) \in Ends
  BY Zenon DEF Ends, Terminals
<1>2. pc = "read" /\ event = NoEvent /\ terminal_event = NoEvent
  BY Zenon, IdleReader DEF RecordTerminal
<1>3. IsTerminal(Mark(kind))
  BY Zenon, <1>1, EventKinds
<1> QED
  BY Zenon, <1>1, <1>2, <1>3 DEF RecordTerminal, RecordEvent, PushReplayEvent

\* A reader that had an event in its hands and goes on: the end only stops it.
LEMMA EndOnlyStops ==
  ASSUME CoreInv, pc \in {"send", "refresh"}, event # NoEvent \/ pc = "send", terminal_event # NoEvent
  PROVE  IsTerminal(event)
<1>1. terminal_event \in Ends /\ pc # "stopped"
  BY DEF CoreInv, IInv, TypeInv
<1> QED
  BY Zenon, <1>1, EventKinds DEF CoreInv, ReaderInv

\* The steps after which the reader has nothing in its hands.
LEMMA RestKeepsReaderInv ==
  ASSUME CoreInv,
         \/ ActiveChanged \/ SendGap \/ SendGapFull \/ Yielded \/ Inactive \/ SendOk \/ SendFull
         \/ ReaderCancelled \/ \E n \in 1..MaxRead : ReadBytes(n)
  PROVE  ReaderInv'
<1> USE DEF stateVars, watchVars, taskVars, activeVars, subVars, logVars, histVars
<1>1. gap_pending => lag_id # NoSub
  BY Zenon DEF CoreInv, ReaderInv
<1>2. ASSUME NEW a, ObserveActive(a) PROVE gap_pending' => lag_id' # NoSub
  BY Zenon, <1>2, ObservedGap
<1>3. CASE ActiveChanged \/ Yielded \/ SendGap \/ SendGapFull \/ \E n \in 1..MaxRead : ReadBytes(n)
  <2>1. /\ pc \in {"read", "chunk", "yield"} /\ pc' \in {"read", "chunk", "yield"}
        /\ UNCHANGED <<event, terminal_event>>
    BY Zenon, <1>3 DEF ActiveChanged, Yielded, SendGap, SendGapFull, ReadBytes, AfterChunk
  <2>2. pc' \notin {"send", "gap", "refresh"}
    BY <2>1
  <2>3. event' = NoEvent /\ terminal_event' = NoEvent
    BY Zenon, <2>1, IdleReader
  <2>4. gap_pending' => lag_id' # NoSub
    BY Zenon, <1>1, <1>2, <1>3 DEF ActiveChanged, Yielded, SendGap, SendGapFull, ReadBytes
  <2> QED
    BY Zenon, <2>2, <2>3, <2>4, AtRest
<1>4. CASE Inactive \/ SendOk
  <2>1. /\ event' = NoEvent /\ pc = "send" /\ UNCHANGED terminal_event
        /\ pc' = IF IsTerminal(event) THEN "stopped" ELSE AfterChunk(buf)
    BY Zenon, <1>4 DEF Inactive, SendOk, SendDone
  <2>2. pc' \notin {"send", "gap", "refresh"}
    BY <2>1 DEF AfterChunk
  <2>3. terminal_event' # NoEvent => pc' = "stopped"
    BY Zenon, <2>1, EndOnlyStops
  <2>4. gap_pending' => lag_id' # NoSub
    BY Zenon, <1>1, <1>2, <1>4 DEF Inactive, SendOk
  <2> QED
    BY Zenon, <2>1, <2>2, <2>3, <2>4, AtRest
<1>5. CASE SendFull
  <2>1. /\ event' = NoEvent /\ pc = "send" /\ pc' = "yield" /\ UNCHANGED <<terminal_event, lag_id>>
        /\ ~IsTerminal(event) /\ cached_active # NoSub /\ receiver[cached_active]
        /\ Len(queue[cached_active]) >= Capacity /\ ~Reliable
    BY Zenon, <1>5 DEF SendFull
  <2>2. cached_active \in Subs /\ event \in Chunks
    BY Zenon, <2>1, EventKinds DEF CoreInv, IInv, TypeInv
  <2>3. Consuming(cached_active)
    BY Zenon, <2>1, <2>2, ServedConsumes
  <2>4. queue[cached_active] # <<>>
    <3>1. Capacity > 0 /\ Len(<<>>) = 0 /\ ~(0 >= Capacity)
      BY ConfigAssumption
    <3> QED
      BY Zenon, <2>1, <3>1
  <2>5. lag_id = cached_active
    BY Zenon, <2>1, <2>2, <2>3, <2>4, EventKinds DEF CoreInv, ServiceInv
  <2>6. terminal_event' = NoEvent
    BY Zenon, <2>1, EndOnlyStops
  <2>7. pc' \notin {"send", "gap", "refresh"}
    BY <2>1
  <2> QED
    BY Zenon, <2>1, <2>5, <2>6, <2>7, AtRest
<1>6. CASE ReaderCancelled
  <2>1. event' = NoEvent /\ pc' = "stopped" /\ UNCHANGED <<lag_id, gap_pending>>
    BY Zenon, <1>6 DEF ReaderCancelled
  <2>2. pc' \notin {"send", "gap", "refresh"}
    BY <2>1
  <2> QED
    BY Zenon, <1>1, <2>1, <2>2, AtRest
<1> QED
  BY Zenon, <1>3, <1>4, <1>5, <1>6

\* Recording an event, and what follows a send that found its receiver gone.
LEMMA HandsKeepReaderInv ==
  ASSUME CoreInv, UNCHANGED policy,
         \/ SplitChunk \/ SendPendingGap \/ SendClosed \/ Refresh
         \/ \E kind \in Terminals : RecordTerminal(kind)
  PROVE  ReaderInv'
<1> USE DEF stateVars, watchVars, taskVars, activeVars, subVars, logVars, histVars
<1>1. ReaderInv /\ event \in Chunks \cup Ends \cup {NoEvent}
  BY Zenon DEF CoreInv, IInv, TypeInv
<1>2. CASE SplitChunk
  <2>1. /\ event' \in Chunks /\ event'.ev = "chunk" /\ event'.seq = produced /\ event'.len >= 0
        /\ PushReplayEvent(event') /\ produced' = produced + 1 /\ produced \in Nat
        /\ pc' = "send" /\ ~gap_pending' /\ terminal_event' = NoEvent /\ UNCHANGED replay_sealed
    BY Zenon, <1>2, SplitIsChunk
  <2>2. produced' - 1 = produced
    BY <2>1
  <2>3. ~recorded' => ~RetainsReplay'
    BY Zenon, <2>1, RetainedIsRecorded
  <2>4. ~IsTerminal(event') /\ "send" # "gap" /\ "send" # "refresh"
    BY Zenon, <2>1, EventKinds
  <2> QED
    BY Zenon, <2>1, <2>2, <2>3, <2>4 DEF ReaderInv
<1>3. ASSUME NEW kind \in Terminals, RecordTerminal(kind) PROVE ReaderInv'
  <2>1. /\ event' = Mark(kind) /\ terminal_event' = Mark(kind) /\ Mark(kind) \in Ends
        /\ cached_active' = active_id /\ ObserveActive(active_id)
        /\ pc' = IF gap_pending' THEN "gap" ELSE "send"
    BY Zenon, <1>3, RecordedTerminal
  <2>2. Mark(kind).ev # "chunk"
    BY Zenon, <2>1, EventKinds DEF Terminals
  <2>3. gap_pending' => lag_id' = cached_active' /\ lag_id' # NoSub
    BY Zenon, <2>1, ObservedGap
  <2> QED
    BY Zenon, <2>1, <2>2, <2>3 DEF ReaderInv
<1>4. CASE SendPendingGap
  <2>1. /\ pc = "gap" /\ pc' = "send" /\ ~gap_pending' /\ UNCHANGED <<event, terminal_event>>
    BY Zenon, <1>4 DEF SendPendingGap
  <2> QED
    BY Zenon, <1>1, <2>1 DEF ReaderInv
<1>5. CASE SendClosed
  <2>1. /\ \/ pc \in {"send", "gap"} /\ cached_active # NoSub
           \/ pc = "chunk" /\ gap_pending /\ lag_id = cached_active
        /\ ~receiver[cached_active]
        /\ pc' = "refresh" /\ ClearActiveIfCurrent(cached_active)
        /\ UNCHANGED <<event, recorded, terminal_event, cached_active, lag_id, gap_pending, produced,
                       receiver, replay_sealed>>
    BY Zenon, <1>5 DEF SendClosed, GapDue
  <2>2. cached_active # NoSub
    BY Zenon, <1>1, <2>1 DEF ReaderInv
  <2>3. active_id' # cached_active
    BY Zenon, <2>1, <2>2 DEF ClearActiveIfCurrent
  <2>4. gap_pending => lag_id = cached_active
    BY Zenon, <1>1, <2>1 DEF ReaderInv
  <2>5. RetainsReplay' = RetainsReplay
    BY Zenon, <2>1 DEF RetainsReplay, Retention
  <2>6. ~receiver'[cached_active']
    BY <2>1, Zenon
  <2>7. event.ev = "chunk" => ~gap_pending
    BY Zenon, <1>1 DEF ReaderInv
  <2> QED
    BY Zenon, <1>1, <2>1, <2>2, <2>3, <2>4, <2>5, <2>6, <2>7 DEF ReaderInv
<1>6. CASE Refresh
  <2>1. /\ pc = "refresh" /\ UNCHANGED <<terminal_event, produced, replay_sealed, active_id, receiver>>
        /\ cached_active # NoSub /\ active_id # cached_active
        /\ gap_pending => lag_id = cached_active
        /\ cached_active' = IF pc' = "stopped" THEN NoSub ELSE active_id
    BY Zenon, <1>1, <1>6 DEF Refresh, ReaderInv
  <2>2. RetainsReplay' = RetainsReplay
    BY Zenon, <2>1 DEF RetainsReplay, Retention
  <2>3. CASE event = NoEvent /\ pc' = "chunk" /\ ObserveActive(active_id) /\ UNCHANGED event
    <3>1. terminal_event # NoEvent => FALSE
      BY Zenon, <1>1, <2>1, <2>3 DEF ReaderInv
    <3> QED
      BY Zenon, <2>1, <2>3, <3>1, AtRest, ObservedGap
  <2>4. CASE IsTerminal(event) /\ pc' = "send" /\ ObserveActive(active_id) /\ UNCHANGED <<event, recorded>>
    <3>1. ~gap_pending'
      BY Zenon, <2>1, <2>4, ObservedGap
    <3> QED
      BY Zenon, <1>1, <2>1, <2>2, <2>4, <3>1 DEF ReaderInv
  <2>5. CASE /\ event # NoEvent /\ ~(IsTerminal(event) /\ gap_pending)
             /\ pc' = "send" /\ UNCHANGED <<event, recorded, lag_id, gap_pending>>
    <3>1. ~gap_pending
      BY Zenon, <1>1, <2>5, EventKinds DEF ReaderInv
    <3> QED
      BY Zenon, <1>1, <2>1, <2>2, <2>5, <3>1 DEF ReaderInv
  <2>6. CASE /\ event # NoEvent /\ pc' = IF IsTerminal(event) THEN "stopped" ELSE AfterChunk(buf)
             /\ event' = NoEvent /\ ObserveActive(active_id)
    <3>1. terminal_event # NoEvent => IsTerminal(event)
      BY Zenon, <2>1, <2>6, EndOnlyStops
    <3>2. pc' \notin {"send", "gap", "refresh"}
      BY <2>6 DEF AfterChunk
    <3> QED
      BY Zenon, <2>1, <2>6, <3>1, <3>2, AtRest, ObservedGap
  <2> QED
    BY Zenon, <1>6, <2>3, <2>4, <2>5, <2>6 DEF Refresh
<1> QED
  BY Zenon, <1>2, <1>3, <1>4, <1>5, <1>6

\* A step outside the reader leaves its hands alone.
LEMMA OutsideKeepsReaderInv ==
  ASSUME CoreInv, UNCHANGED policy,
         \/ SealReplay \/ DropStream \/ ClearActive
         \/ \E s \in Subs : TrySubscribe(s) \/ Recv(s) \/ DropReceiver(s) \/ DropDeregisters(s)
  PROVE  ReaderInv'
<1> USE DEF stateVars, watchVars, taskVars, activeVars, subVars, logVars, histVars
<1>1. /\ ReaderInv /\ receiver \in [Subs -> BOOLEAN] /\ cached_active \in Subs \cup {NoSub}
      /\ cached_active # NoSub => sub[cached_active] # "none"
  BY Zenon DEF CoreInv, IInv, TypeInv, IdInv
<1>2. UNCHANGED <<event, pc, produced, recorded, gap_pending, terminal_event, lag_id, cached_active>>
  BY Zenon DEF SealReplay, DropStream, ClearActive, TrySubscribe, Recv, RecvReplay, RecvTerminal, RecvLive,
     RecvNone, DropReceiver, DropDeregisters
<1>3. RetainsReplay' => RetainsReplay
  <2>1. replay_sealed' \/ UNCHANGED replay_sealed
    BY Zenon DEF SealReplay, DropStream, ClearActive, TrySubscribe, Recv, RecvReplay, RecvTerminal, RecvLive,
       RecvNone, DropReceiver, DropDeregisters
  <2> QED
    BY Zenon, <2>1 DEF RetainsReplay, Retention
<1>4. cached_active # NoSub /\ active_id # cached_active => active_id' # cached_active
  BY Zenon, <1>1 DEF SealReplay, DropStream, ClearActive, TrySubscribe, Recv, RecvReplay, RecvTerminal, RecvLive,
     RecvNone, DropReceiver, DropDeregisters, ClearActiveIfCurrent, NextSubscriberId
<1>5. cached_active \in Subs /\ ~receiver[cached_active] => ~receiver'[cached_active]
  <2>1. CASE UNCHANGED receiver
    BY Zenon, <2>1
  <2>2. ASSUME NEW s \in Subs, receiver' = [receiver EXCEPT ![s] = FALSE]
        PROVE  cached_active \in Subs /\ ~receiver[cached_active] => ~receiver'[cached_active]
    BY Zenon, <1>1, <2>2
  <2>3. ASSUME NEW s \in Subs, sub[s] = "none", receiver' = [receiver EXCEPT ![s] = TRUE], cached_active \in Subs
        PROVE  receiver'[cached_active] = receiver[cached_active]
    <3>1. cached_active # s
      BY Zenon, <1>1, <2>3, NoSubIsNobody
    <3> QED
      BY Zenon, <1>1, <2>3, <3>1
  <2> QED
    BY Zenon, <2>1, <2>2, <2>3 DEF SealReplay, DropStream, ClearActive, TrySubscribe, Recv, RecvReplay, RecvTerminal,
       RecvLive, RecvNone, DropReceiver, DropDeregisters, NextSubscriberId
<1>6. pc = "refresh" => active_id' # cached_active /\ ~receiver'[cached_active]
  BY Zenon, <1>1, <1>4, <1>5 DEF ReaderInv
<1> QED
  BY Zenon, <1>1, <1>2, <1>3, <1>6 DEF ReaderInv

-----------------------------------------------------------------------------
(* Ids and receivers *)

\* A step that hands out no new id and no new receiver.
LEMMA IdFrame ==
  ASSUME IdInv, cached_active \in Subs \cup {NoSub}, active_id \in Subs \cup {NoSub},
         active_id' \in {active_id, NoSub}, cached_active' \in {cached_active, active_id, NoSub},
         lag_id' \in {lag_id, cached_active, active_id, NoSub},
         \A s \in Subs : sub'[s] = "none" <=> sub[s] = "none",
         \A s \in Subs : receiver'[s] => receiver[s] /\ sub'[s] = "open",
         \A s \in Subs : sub[s] = "none" => gapped'[s] = gapped[s] /\ sub_replay'[s] = sub_replay[s],
         pos' \in [Subs -> Int], gapped' \in [Subs -> BOOLEAN]
  PROVE  IdInv'
<1>1. lag_id \in Subs \cup {NoSub}
  BY Zenon DEF IdInv
<1>2. /\ active_id' # NoSub => sub'[active_id'] # "none"
      /\ cached_active' # NoSub => sub'[cached_active'] # "none"
      /\ lag_id' # NoSub => sub'[lag_id'] # "none"
  BY Zenon, <1>1 DEF IdInv
<1>3. lag_id' \in Subs \cup {NoSub}
  BY Zenon, <1>1
<1>4. \A s \in Subs : receiver'[s] => sub'[s] = "open"
  BY Zenon
<1>5. \A s \in Subs : sub'[s] = "none" => gapped'[s] = FALSE /\ sub_replay'[s] = <<>>
  BY Zenon DEF IdInv
<1> QED
  BY Zenon, <1>2, <1>3, <1>4, <1>5 DEF IdInv

\* The reader passes on the ids it knows.
LEMMA ReaderKeepsIds ==
  ASSUME CoreInv, Reader \/ ReadReturns \/ ReaderCancelled
  PROVE  IdInv'
<1> USE DEF stateVars, watchVars, taskVars, activeVars, subVars, logVars, histVars
<1>1. /\ IdInv /\ cached_active \in Subs \cup {NoSub} /\ active_id \in Subs \cup {NoSub}
      /\ pos \in [Subs -> Int] /\ gapped \in [Subs -> BOOLEAN]
      /\ \A s \in Subs : receiver[s] => sub[s] = "open"
  BY Zenon DEF CoreInv, IInv, TypeInv, IdInv
<1>2. UNCHANGED <<sub, receiver, sub_replay, pos, gapped>>
  BY Zenon DEF Reader, ReadReturns, ReaderCancelled, ActiveChanged, SplitChunk, SendGap, SendGapFull,
     SendPendingGap, Inactive, SendOk, SendFull, Yielded, SendClosed, Refresh, ReadBytes, RecordTerminal
<1>3. active_id' \in {active_id, NoSub}
  BY Zenon DEF Reader, ReadReturns, ReaderCancelled, ActiveChanged, SplitChunk, SendGap, SendGapFull,
     SendPendingGap, Inactive, SendOk, SendFull, Yielded, SendClosed, Refresh, ReadBytes, RecordTerminal,
     ClearActiveIfCurrent, RecordEvent
<1>4. cached_active' \in {cached_active, active_id, NoSub}
  BY Zenon DEF Reader, ReadReturns, ReaderCancelled, ActiveChanged, SplitChunk, SendGap, SendGapFull,
     SendPendingGap, Inactive, SendOk, SendFull, Yielded, SendClosed, Refresh, ReadBytes, RecordTerminal,
     RecordEvent, SendDone
<1>5. lag_id' \in {lag_id, cached_active, active_id, NoSub}
  BY Zenon DEF Reader, ReadReturns, ReaderCancelled, ActiveChanged, SplitChunk, SendGap, SendGapFull,
     SendPendingGap, Inactive, SendOk, SendFull, Yielded, SendClosed, Refresh, ReadBytes, RecordTerminal,
     ObserveActive
<1> QED
  BY Zenon, <1>1, <1>2, <1>3, <1>4, <1>5, IdFrame

\* What is taken from a sequence is of its elements, and so is the rest.
LEMMA TakenHead ==
  ASSUME NEW S, NEW q \in Seq(S), q # <<>>
  PROVE  Head(q) \in S /\ Tail(q) \in Seq(S)
  OBVIOUS

\* What next_event returns: an event of the snapshot or of the channel, or None.
LEMMA RecvReturns ==
  ASSUME IInv, NEW s \in Subs, Recv(s)
  PROVE  \/ RecvNone(s)
         \/ \E e \in Events : Returns(s, e) /\ (RecvReplay(s) \/ RecvTerminal(s) \/ RecvLive(s))
<1>1. sub_replay[s] \in Seq(Chunks) /\ queue[s] \in Seq(Events) /\ sub_terminal[s] \in Ends \cup {NoEvent}
  BY Zenon DEF IInv, TypeInv
<1>2. CASE RecvReplay(s)
  <2>1. Head(sub_replay[s]) \in Chunks /\ Returns(s, Head(sub_replay[s]))
    BY Zenon, <1>1, <1>2, TakenHead DEF RecvReplay
  <2> QED
    BY Zenon, <1>2, <2>1 DEF Events
<1>3. CASE RecvTerminal(s)
  BY Zenon, <1>1, <1>3 DEF RecvTerminal, Events
<1>4. CASE RecvLive(s)
  BY Zenon, <1>1, <1>4, TakenHead DEF RecvLive
<1> QED
  BY Zenon, <1>2, <1>3, <1>4 DEF Recv

\* A position and a Gap mark stay what they are.
LEMMA ReturnsTypes ==
  ASSUME pos \in [Subs -> Int], gapped \in [Subs -> BOOLEAN], NEW s \in Subs, NEW e \in Events, Returns(s, e)
  PROVE  /\ pos' \in [Subs -> Int] /\ gapped' \in [Subs -> BOOLEAN]
         /\ \A t \in Subs \ {s} : pos'[t] = pos[t] /\ gapped'[t] = gapped[t]
<1>1. e.seq \in Int
  BY DEF Events, Chunks, Ends, Mark
<1>2. PICK p : pos' = [pos EXCEPT ![s] = p] /\ p \in Int
  <2>1. e.seq + 1 \in Int /\ Repeated \in Int
    BY <1>1 DEF Repeated
  <2> QED
    BY Zenon, <2>1 DEF Returns
<1>3. PICK g : gapped' = [gapped EXCEPT ![s] = g] /\ g \in BOOLEAN
  BY Zenon DEF Returns
<1> QED
  BY Zenon, <1>2, <1>3

\* The subscriptions and the stream keep the ids in order.
LEMMA OutsideKeepsIds ==
  ASSUME CoreInv,
         \/ SealReplay \/ DropStream \/ ClearActive
         \/ \E s \in Subs : TrySubscribe(s) \/ Recv(s) \/ DropReceiver(s) \/ DropDeregisters(s)
  PROVE  IdInv'
<1> USE DEF stateVars, watchVars, taskVars, activeVars, subVars, logVars, histVars
<1>1. /\ IdInv /\ cached_active \in Subs \cup {NoSub} /\ active_id \in Subs \cup {NoSub}
      /\ pos \in [Subs -> Int] /\ gapped \in [Subs -> BOOLEAN]
      /\ \A s \in Subs : receiver[s] => sub[s] = "open"
      /\ sub \in [Subs -> {"none", "open", "dropping", "dropped"}] /\ receiver \in [Subs -> BOOLEAN]
      /\ sub_replay \in [Subs -> Seq(Chunks)] /\ lag_id \in Subs \cup {NoSub} /\ IInv
      /\ produced \in Int /\ events \in Seq(Chunks)
  BY Zenon DEF CoreInv, IInv, TypeInv, IdInv
<1>2. CASE SealReplay \/ DropStream \/ ClearActive
  <2>1. /\ UNCHANGED <<sub, receiver, sub_replay, pos, gapped, cached_active, lag_id>>
        /\ active_id' \in {active_id, NoSub}
    BY Zenon, <1>2 DEF SealReplay, DropStream, ClearActive
  <2> QED
    BY Zenon, <1>1, <2>1, IdFrame
<1>3. ASSUME NEW s \in Subs, TrySubscribe(s) PROVE IdInv'
  <2>1. /\ sub[s] = "none" /\ active_id' = s /\ UNCHANGED <<cached_active, lag_id, gapped>>
        /\ sub' = [sub EXCEPT ![s] = "open"] /\ receiver' = [receiver EXCEPT ![s] = TRUE]
        /\ \E r : sub_replay' = [sub_replay EXCEPT ![s] = r]
    BY Zenon, <1>3 DEF TrySubscribe, NextSubscriberId
  <2>2. PICK p \in Int : pos' = [pos EXCEPT ![s] = p]
    <3>1. -1 \in Int /\ \A e \in Chunks : e.seq \in Int
      BY DEF Chunks
    <3>2. events # <<>> => Head(events) \in Chunks
      BY Zenon, <1>1, TakenHead
    <3>3. pos' = [pos EXCEPT ![s] = IF (IF RetainsReplay THEN events ELSE <<>>) # <<>>
                                    THEN Head(IF RetainsReplay THEN events ELSE <<>>).seq
                                    ELSE IF ChunkUnderway THEN -1 ELSE produced]
      BY Zenon, <1>3 DEF TrySubscribe
    <3> QED
      BY Zenon, <1>1, <3>1, <3>2, <3>3
  <2>3. pos' \in [Subs -> Int]
    BY Zenon, <1>1, <2>2
  <2>4. /\ sub'[s] = "open"
        /\ \A t \in Subs \ {s} : sub'[t] = sub[t] /\ receiver'[t] = receiver[t] /\ sub_replay'[t] = sub_replay[t]
    BY Zenon, <1>1, <2>1
  <2>5. \A t \in Subs : sub[t] # "none" => sub'[t] # "none"
    <3>1. "open" # "none"
      OBVIOUS
    <3> QED
      BY Zenon, <2>4, <3>1
  <2>6. \A t \in Subs : receiver'[t] => sub'[t] = "open"
    BY Zenon, <1>1, <2>4
  <2>7. \A t \in Subs : sub'[t] = "none" => gapped'[t] = FALSE /\ sub_replay'[t] = <<>>
    <3>1. "open" # "none"
      OBVIOUS
    <3> QED
      BY Zenon, <1>1, <2>1, <2>4, <3>1 DEF IdInv
  <2>8. /\ active_id' # NoSub => sub'[active_id'] # "none"
        /\ cached_active' # NoSub => sub'[cached_active'] # "none"
        /\ lag_id' # NoSub => sub'[lag_id'] # "none"
    <3>1. "open" # "none"
      OBVIOUS
    <3> QED
      BY Zenon, <1>1, <2>1, <2>4, <2>5, <3>1 DEF IdInv
  <2> QED
    BY Zenon, <1>1, <2>1, <2>3, <2>6, <2>7, <2>8 DEF IdInv
<1>4. ASSUME NEW s \in Subs, DropReceiver(s) \/ DropDeregisters(s) PROVE IdInv'
  <2>1. /\ UNCHANGED <<pos, gapped, cached_active, lag_id>> /\ active_id' \in {active_id, NoSub}
        /\ \E x \in {"dropping", "dropped"} : sub' = [sub EXCEPT ![s] = x]
        /\ sub[s] \in {"open", "dropping"} /\ (sub[s] = "open" => receiver' = [receiver EXCEPT ![s] = FALSE])
        /\ UNCHANGED receiver \/ receiver' = [receiver EXCEPT ![s] = FALSE]
        /\ UNCHANGED sub_replay \/ sub_replay' = [sub_replay EXCEPT ![s] = <<>>]
    BY Zenon, <1>4 DEF DropReceiver, DropDeregisters, ClearActiveIfCurrent
  <2>2. sub[s] # "none" /\ sub'[s] # "none" /\ \A t \in Subs \ {s} : sub'[t] = sub[t]
    BY <1>1, <2>1
  <2>3. ~receiver'[s] /\ \A t \in Subs \ {s} : receiver'[t] = receiver[t] /\ sub_replay'[t] = sub_replay[t]
    BY Zenon, <1>1, <2>1
  <2>4. \A t \in Subs : sub'[t] = "none" <=> sub[t] = "none"
    BY Zenon, <2>2
  <2>5. \A t \in Subs : receiver'[t] => receiver[t] /\ sub'[t] = "open"
    BY Zenon, <1>1, <2>2, <2>3
  <2>6. \A t \in Subs : sub[t] = "none" => gapped'[t] = gapped[t] /\ sub_replay'[t] = sub_replay[t]
    BY Zenon, <2>1, <2>2, <2>3
  <2>7. pos' \in [Subs -> Int] /\ gapped' \in [Subs -> BOOLEAN]
    BY Zenon, <1>1, <2>1
  <2>8. cached_active' \in {cached_active, active_id, NoSub} /\ lag_id' \in {lag_id, cached_active, active_id, NoSub}
    BY Zenon, <2>1
  <2> QED
    BY Zenon, <1>1, <2>1, <2>4, <2>5, <2>6, <2>7, <2>8, IdFrame
<1>5. ASSUME NEW s \in Subs, Recv(s) PROVE IdInv'
  <2>1. /\ UNCHANGED <<sub, active_id, cached_active, lag_id>> /\ sub[s] = "open"
        /\ UNCHANGED receiver \/ receiver' = [receiver EXCEPT ![s] = FALSE]
        /\ UNCHANGED sub_replay \/ sub_replay' = [sub_replay EXCEPT ![s] = Tail(sub_replay[s])]
    BY Zenon, <1>5 DEF Recv, RecvReplay, RecvTerminal, RecvLive, RecvNone
  <2>2. /\ pos' \in [Subs -> Int] /\ gapped' \in [Subs -> BOOLEAN]
        /\ \A t \in Subs \ {s} : gapped'[t] = gapped[t]
    BY Zenon, <1>1, <1>5, RecvReturns, ReturnsTypes DEF RecvNone
  <2>3. \A t \in Subs : receiver'[t] => receiver[t]
    BY Zenon, <1>1, <2>1
  <2>4. \A t \in Subs \ {s} : sub_replay'[t] = sub_replay[t]
    BY Zenon, <1>1, <2>1
  <2>5. sub[s] # "none"
    BY <2>1
  <2> QED
    BY Zenon, <1>1, <2>1, <2>2, <2>3, <2>4, <2>5, IdFrame
<1> QED
  BY Zenon, <1>2, <1>3, <1>4, <1>5

-----------------------------------------------------------------------------
(* Who is served *)

\* The reader serves whom it serves until it stops or sees another registration, and
\* books a lag on whom it served, or on the registration it sees.
LEMMA ReaderMoves ==
  ASSUME Reader \/ ReadReturns \/ ReaderCancelled
  PROVE  /\ UNCHANGED <<stream, sub, sub_replay, sub_terminal, receiver, pos, gapped, outcome>>
         /\ active_id' \in {active_id, NoSub}
         /\ cached_active' \in {cached_active, active_id} \/ (pc' = "stopped" /\ cached_active' = NoSub)
         /\ lag_id' \in {lag_id, cached_active, NoSub} \/ cached_active' = active_id \/ pc' = "stopped"
         /\ pc # "stopped"
<1> USE DEF stateVars, watchVars, taskVars, activeVars, subVars, logVars, histVars
<1>1. UNCHANGED <<stream, sub, sub_replay, sub_terminal, receiver, pos, gapped, outcome>>
  BY Zenon DEF Reader, ReadReturns, ReaderCancelled, ActiveChanged, SplitChunk, SendGap, SendGapFull,
     SendPendingGap, Inactive, SendOk, SendFull, Yielded, SendClosed, Refresh, ReadBytes, RecordTerminal
<1>2. active_id' \in {active_id, NoSub}
  BY Zenon DEF Reader, ReadReturns, ReaderCancelled, ActiveChanged, SplitChunk, SendGap, SendGapFull,
     SendPendingGap, Inactive, SendOk, SendFull, Yielded, SendClosed, Refresh, ReadBytes, RecordTerminal,
     ClearActiveIfCurrent, RecordEvent
<1>3. cached_active' \in {cached_active, active_id} \/ (pc' = "stopped" /\ cached_active' = NoSub)
  <2>1. CASE Inactive \/ SendOk
    BY Zenon, <2>1 DEF Inactive, SendOk, SendDone
  <2>2. CASE Refresh
    BY Zenon, <2>2 DEF Refresh
  <2> QED
    BY Zenon, <2>1, <2>2 DEF Reader, ReadReturns, ReaderCancelled, ActiveChanged, SplitChunk, SendGap, SendGapFull,
       SendPendingGap, SendFull, Yielded, SendClosed, ReadBytes, RecordTerminal, RecordEvent
<1>4. lag_id' \in {lag_id, cached_active, NoSub} \/ cached_active' = active_id \/ pc' = "stopped"
  BY Zenon DEF Reader, ReadReturns, ReaderCancelled, ActiveChanged, SplitChunk, SendGap, SendGapFull,
     SendPendingGap, Inactive, SendOk, SendFull, Yielded, SendClosed, Refresh, ReadBytes, RecordTerminal,
     ObserveActive, RecordEvent
<1>5. pc \in {"read", "chunk", "gap", "send", "refresh", "yield"}
  BY Zenon DEF Reader, ReadReturns, ReaderCancelled, ActiveChanged, SplitChunk, SendGap, SendGapFull,
     SendPendingGap, Inactive, SendOk, SendFull, Yielded, SendClosed, Refresh, ReadBytes, RecordTerminal
<1>6. pc # "stopped"
  BY <1>5
<1> QED
  BY Zenon, <1>1, <1>2, <1>3, <1>4, <1>6

\* The reader sends only to whom it serves.
LEMMA ReaderSends ==
  ASSUME IInv, NEW s \in Subs, Reader \/ ReadReturns \/ ReaderCancelled
  PROVE  cached_active # s => queue'[s] = queue[s]
<1> USE DEF stateVars, watchVars, taskVars, activeVars, subVars, logVars, histVars
<1>1. queue \in [Subs -> Seq(Events)]
  BY Zenon DEF IInv, TypeInv
<1>2. UNCHANGED queue \/ \E x : queue' = [queue EXCEPT ![cached_active] = x]
  BY Zenon DEF Reader, ReadReturns, ReaderCancelled, ActiveChanged, SplitChunk, SendGap, SendGapFull,
     SendPendingGap, Inactive, SendOk, SendFull, Yielded, SendClosed, Refresh, ReadBytes, RecordTerminal
<1> QED
  BY Zenon, <1>1, <1>2

\* The steps that leave a chunk in the reader's hands.
LEMMA HoldsChunk ==
  ASSUME CoreInv, Reader \/ ReadReturns \/ ReaderCancelled, event'.ev = "chunk"
  PROVE  \/ SplitChunk
         \/ SendClosed /\ event.ev = "chunk"
         \/ /\ Refresh /\ event.ev = "chunk" /\ cached_active' = active_id /\ pc' = "send"
            /\ ~recorded /\ UNCHANGED <<event, recorded, queue, lag_id, gap_pending, active_id, produced>>
<1> USE DEF stateVars, watchVars, taskVars, activeVars, subVars, logVars, histVars
<1>1. NoEvent.ev # "chunk" /\ event' # NoEvent
  BY EventKinds
<1>2. CASE ActiveChanged \/ SendGap \/ SendGapFull \/ Yielded \/ \E n \in 1..MaxRead : ReadBytes(n)
  BY Zenon, <1>1, <1>2, IdleReader DEF ActiveChanged, SendGap, SendGapFull, Yielded, ReadBytes
<1>3. CASE Inactive \/ SendOk \/ SendFull \/ ReaderCancelled
  BY Zenon, <1>1, <1>3 DEF Inactive, SendOk, SendFull, ReaderCancelled, SendDone
<1>4. CASE SendPendingGap
  <2>1. pc = "gap" /\ UNCHANGED event
    BY Zenon, <1>4 DEF SendPendingGap
  <2>2. pc # "send" /\ pc # "refresh"
    BY <2>1
  <2> QED
    BY Zenon, <2>1, <2>2 DEF CoreInv, ReaderInv
<1>5. ASSUME NEW kind \in Terminals, RecordTerminal(kind) PROVE FALSE
  <2>1. event' \in Ends
    BY Zenon, <1>5, RecordedTerminal
  <2>2. \A e \in Ends : e.ev # "chunk"
    BY DEF Ends, Mark
  <2> QED
    BY Zenon, <2>1, <2>2
<1>6. CASE SendClosed
  BY Zenon, <1>6 DEF SendClosed
<1>7. CASE Refresh
  <2>1. "chunk" \notin Terminals /\ "send" # "stopped" /\ event \in Chunks \cup Ends \cup {NoEvent}
    BY DEF Terminals, CoreInv, IInv, TypeInv
  <2>2. /\ event.ev = "chunk" /\ UNCHANGED event /\ pc' = "send" /\ ~recorded
        /\ UNCHANGED <<recorded, queue, lag_id, gap_pending, active_id, produced>>
    BY Zenon, <1>1, <1>7, <2>1 DEF Refresh, IsTerminal, RetriesEvent
  <2>3. cached_active' = active_id
    BY Zenon, <1>7, <2>1, <2>2 DEF Refresh
  <2> QED
    BY Zenon, <1>7, <2>2, <2>3
<1> QED
  BY Zenon, <1>2, <1>3, <1>4, <1>5, <1>6, <1>7 DEF Reader, ReadReturns

\* A step of the reader serves nobody who is gone and books no lag on a stranger.
LEMMA ReaderKeepsService ==
  ASSUME CoreInv, NEW s \in Subs, Reader \/ ReadReturns \/ ReaderCancelled, UNCHANGED policy
  PROVE  ServiceInv(s)'
<1> USE DEF stateVars, watchVars, taskVars, activeVars, subVars, logVars, histVars
<1>1. ServiceInv(s) /\ s # NoSub /\ IInv
  BY Zenon, NoSubIsNobody DEF CoreInv
<1>2. cached_active # s => queue'[s] = queue[s]
  BY Zenon, <1>1, ReaderSends
<1>3. /\ UNCHANGED <<stream, sub, sub_replay, sub_terminal, receiver, pos, gapped, outcome>>
      /\ active_id' \in {active_id, NoSub}
      /\ cached_active' \in {cached_active, active_id} \/ (pc' = "stopped" /\ cached_active' = NoSub)
      /\ lag_id' \in {lag_id, cached_active, NoSub} \/ cached_active' = active_id \/ pc' = "stopped"
      /\ pc # "stopped"
  BY Zenon, ReaderMoves
<1>4. Consuming(s)' = Consuming(s) /\ Reliable' = Reliable
  BY Zenon, <1>3 DEF Consuming, Reliable
<1>5. ASSUME outcome'[s] = "none"
      PROVE  /\ sub_replay'[s] = <<>> /\ sub_terminal'[s] = NoEvent /\ queue'[s] = <<>>
             /\ active_id' # s /\ cached_active' # s
  BY Zenon, <1>1, <1>2, <1>3, <1>5 DEF ServiceInv
<1>6. ASSUME Consuming(s)', active_id' = s, cached_active' # s, pc' # "stopped"
      PROVE  queue'[s] = <<>> /\ lag_id' # s
  <2>1. active_id = s /\ cached_active' = cached_active /\ cached_active # s
    BY Zenon, <1>1, <1>3, <1>6
  <2>2. queue[s] = <<>> /\ lag_id # s
    BY Zenon, <1>1, <1>3, <1>4, <1>6, <2>1 DEF ServiceInv
  <2> QED
    BY Zenon, <1>1, <1>2, <1>3, <1>6, <2>1, <2>2
<1>7. ASSUME Consuming(s)', ~Reliable', cached_active' = s, event'.ev = "chunk"
      PROVE  lag_id' = s \/ queue'[s] = <<>>
  <2>1. Consuming(s) /\ ~Reliable
    BY Zenon, <1>4, <1>7
  <2>2. active_id = s /\ cached_active # s => queue[s] = <<>>
    BY Zenon, <1>1, <1>3, <2>1 DEF ServiceInv
  <2>3. CASE SplitChunk
    BY Zenon, <1>7, <2>1, <2>2, <2>3, SplitIsChunk
  <2>4. CASE SendClosed /\ event.ev = "chunk"
    BY Zenon, <1>1, <1>7, <2>1, <2>4 DEF ServiceInv, SendClosed
  <2>5. CASE Refresh /\ cached_active' = active_id /\ UNCHANGED queue
    <3>1. active_id # cached_active
      BY Zenon, <2>5 DEF CoreInv, ReaderInv, Refresh
    <3> QED
      BY Zenon, <1>7, <2>2, <2>5, <3>1
  <2> QED
    BY Zenon, <1>7, <2>3, <2>4, <2>5, HoldsChunk
<1> QED
  BY Zenon, <1>5, <1>6, <1>7 DEF ServiceInv

\* A step outside the reader that gives s nothing.
LEMMA ServiceFrame ==
  ASSUME NEW s \in Subs, ServiceInv(s), UNCHANGED <<policy, cached_active, lag_id, event, pc>>,
         active_id' = s => active_id = s, Consuming(s)' => Consuming(s),
         outcome'[s] = "none" => outcome[s] = "none",
         sub_replay[s] = <<>> => sub_replay'[s] = <<>>,
         sub_terminal[s] = NoEvent => sub_terminal'[s] = NoEvent,
         queue[s] = <<>> => queue'[s] = <<>>
  PROVE  ServiceInv(s)'
<1>1. Reliable' = Reliable
  BY Zenon DEF Reliable
<1> QED
  BY Zenon, <1>1 DEF ServiceInv

\* next_event ends a subscription for good, and nothing else ends one.
LEMMA OutcomeMoves ==
  ASSUME IInv, NEW s \in Subs, Recv(s)
  PROVE  /\ Consuming(s)' => Consuming(s)
         /\ outcome'[s] = "none" => outcome[s] = "none" \/ (outcome[s] = "open" /\ RecvNone(s))
         /\ \A t \in Subs \ {s} : outcome'[t] = outcome[t]
         /\ UNCHANGED sub /\ sub[s] = "open"
<1>1. outcome \in [Subs -> {"open", "eof", "error", "none"}]
  BY Zenon DEF IInv, TypeInv
<1>2. UNCHANGED sub /\ sub[s] = "open"
  BY Zenon DEF Recv, RecvReplay, RecvTerminal, RecvLive, RecvNone, subVars
<1>3. CASE RecvNone(s)
  <2>1. outcome' = [outcome EXCEPT ![s] = IF outcome[s] = "open" THEN "none" ELSE outcome[s]]
    BY Zenon, <1>3 DEF RecvNone
  <2>2. outcome'[s] = IF outcome[s] = "open" THEN "none" ELSE outcome[s]
    BY Zenon, <1>1, <2>1
  <2>3. "none" # "open"
    OBVIOUS
  <2> QED
    BY Zenon, <1>1, <1>2, <1>3, <2>1, <2>2, <2>3 DEF Consuming
<1>4. ASSUME NEW e \in Events, Returns(s, e)
      PROVE  /\ Consuming(s)' => Consuming(s)
             /\ outcome'[s] = "none" => outcome[s] = "none"
             /\ \A t \in Subs \ {s} : outcome'[t] = outcome[t]
  <2>1. outcome' = [outcome EXCEPT ![s] = IF IsTerminal(e) THEN e.ev ELSE outcome[s]]
    BY Zenon, <1>4 DEF Returns
  <2>2. outcome'[s] = IF IsTerminal(e) THEN e.ev ELSE outcome[s]
    BY Zenon, <1>1, <2>1
  <2>3. IsTerminal(e) => e.ev # "open" /\ e.ev # "none"
    BY DEF IsTerminal, Terminals
  <2> QED
    BY Zenon, <1>1, <1>2, <2>1, <2>2, <2>3 DEF Consuming
<1> QED
  BY Zenon, <1>2, <1>3, <1>4, RecvReturns

\* Registering, receiving, dropping and closing.
LEMMA OutsideKeepsService ==
  ASSUME CoreInv, NEW s \in Subs, UNCHANGED policy,
         \/ SealReplay \/ DropStream \/ ClearActive
         \/ \E t \in Subs : TrySubscribe(t) \/ Recv(t) \/ DropReceiver(t) \/ DropDeregisters(t)
  PROVE  ServiceInv(s)'
<1> USE DEF stateVars, watchVars, taskVars, activeVars, subVars, logVars, histVars
<1>1. /\ IInv /\ IdInv /\ ServiceInv(s) /\ EndInv(s) /\ s # NoSub
      /\ sub \in [Subs -> {"none", "open", "dropping", "dropped"}]
      /\ sub_replay \in [Subs -> Seq(Chunks)] /\ sub_terminal \in [Subs -> Ends \cup {NoEvent}]
      /\ queue \in [Subs -> Seq(Events)] /\ outcome \in [Subs -> {"open", "eof", "error", "none"}]
  BY Zenon, NoSubIsNobody DEF CoreInv, IInv, TypeInv
<1>2. UNCHANGED <<cached_active, lag_id, event, pc>>
  BY Zenon DEF SealReplay, DropStream, ClearActive, TrySubscribe, Recv, RecvReplay, RecvTerminal, RecvLive,
     RecvNone, DropReceiver, DropDeregisters
<1>3. CASE SealReplay \/ DropStream \/ ClearActive
  <2>1. UNCHANGED subVars /\ UNCHANGED outcome /\ active_id' \in {active_id, NoSub}
    BY Zenon, <1>3 DEF SealReplay, DropStream, ClearActive
  <2>2. Consuming(s)' => Consuming(s)
    BY Zenon, <2>1 DEF Consuming
  <2> QED
    BY Zenon, <1>1, <1>2, <2>1, <2>2, ServiceFrame
<1>4. ASSUME NEW t \in Subs, TrySubscribe(t) PROVE ServiceInv(s)'
  <2>1. /\ sub[t] = "none" /\ active_id = NoSub /\ active_id' = t /\ UNCHANGED <<queue, outcome>>
        /\ sub' = [sub EXCEPT ![t] = "open"]
        /\ \E r : sub_replay' = [sub_replay EXCEPT ![t] = r]
        /\ sub_terminal' = [sub_terminal EXCEPT ![t] = terminal_event]
    BY Zenon, <1>4 DEF TrySubscribe, NextSubscriberId
  <2>2. CASE s = t
    <3>1. outcome[s] = "open" /\ queue[s] = <<>>
      BY Zenon, <1>1, <2>1, <2>2 DEF EndInv
    <3>2. cached_active # s /\ lag_id # s
      <4>1. sub[s] = "none" /\ s # NoSub
        BY Zenon, <1>1, <2>1, <2>2
      <4>2. /\ cached_active # NoSub => sub[cached_active] # "none"
            /\ lag_id # NoSub => sub[lag_id] # "none"
        BY Zenon, <1>1 DEF IdInv
      <4> QED
        BY <4>1, <4>2
    <3>3. outcome'[s] # "none"
      BY <2>1, <3>1
    <3>4. cached_active' # s /\ lag_id' # s /\ queue'[s] = <<>>
      BY Zenon, <1>2, <2>1, <3>1, <3>2
    <3> QED
      BY Zenon, <3>3, <3>4 DEF ServiceInv
  <2>3. CASE s # t
    <3>1. sub'[s] = sub[s] /\ sub_replay'[s] = sub_replay[s] /\ sub_terminal'[s] = sub_terminal[s]
      BY Zenon, <1>1, <2>1, <2>3
    <3>2. Consuming(s)' => Consuming(s)
      BY Zenon, <2>1, <3>1 DEF Consuming
    <3> QED
      BY Zenon, <1>1, <1>2, <2>1, <2>3, <3>1, <3>2, ServiceFrame
  <2> QED
    BY Zenon, <2>2, <2>3
<1>5. ASSUME NEW t \in Subs, DropReceiver(t) \/ DropDeregisters(t) PROVE ServiceInv(s)'
  <2>1. /\ UNCHANGED outcome /\ active_id' \in {active_id, NoSub}
        /\ \E x \in {"dropping", "dropped"} : sub' = [sub EXCEPT ![t] = x]
        /\ UNCHANGED sub_replay \/ sub_replay' = [sub_replay EXCEPT ![t] = <<>>]
        /\ UNCHANGED sub_terminal \/ sub_terminal' = [sub_terminal EXCEPT ![t] = NoEvent]
        /\ UNCHANGED queue \/ queue' = [queue EXCEPT ![t] = <<>>]
    BY Zenon, <1>5 DEF DropReceiver, DropDeregisters, ClearActiveIfCurrent
  <2>2. sub'[s] = sub[s] \/ sub'[s] # "open"
    BY <1>1, <2>1
  <2>3. Consuming(s)' => Consuming(s)
    BY Zenon, <2>1, <2>2 DEF Consuming
  <2>4. /\ sub_replay[s] = <<>> => sub_replay'[s] = <<>>
        /\ sub_terminal[s] = NoEvent => sub_terminal'[s] = NoEvent
        /\ queue[s] = <<>> => queue'[s] = <<>>
    BY Zenon, <1>1, <2>1
  <2> QED
    BY Zenon, <1>1, <1>2, <2>1, <2>3, <2>4, ServiceFrame
<1>6. ASSUME NEW t \in Subs, Recv(t) PROVE ServiceInv(s)'
  <2>1. /\ UNCHANGED active_id
        /\ \/ UNCHANGED sub_replay
           \/ sub_replay[t] # <<>> /\ sub_replay' = [sub_replay EXCEPT ![t] = Tail(sub_replay[t])]
        /\ UNCHANGED sub_terminal \/ sub_terminal' = [sub_terminal EXCEPT ![t] = NoEvent]
        /\ \/ UNCHANGED queue
           \/ queue' = [queue EXCEPT ![t] = <<>>]
           \/ queue[t] # <<>> /\ queue' = [queue EXCEPT ![t] = Tail(queue[t])]
    BY Zenon, <1>6 DEF Recv, RecvReplay, RecvTerminal, RecvLive, RecvNone
  <2>2. /\ sub_replay[s] = <<>> => sub_replay'[s] = <<>>
        /\ sub_terminal[s] = NoEvent => sub_terminal'[s] = NoEvent
        /\ queue[s] = <<>> => queue'[s] = <<>>
    BY Zenon, <1>1, <2>1
  <2>3. /\ Consuming(t)' => Consuming(t)
        /\ outcome'[t] = "none" => outcome[t] = "none" \/ (outcome[t] = "open" /\ RecvNone(t))
        /\ \A r \in Subs \ {t} : outcome'[r] = outcome[r]
        /\ UNCHANGED sub /\ sub[t] = "open"
    BY Zenon, <1>1, <1>6, OutcomeMoves
  <2>4. Consuming(s)' => Consuming(s)
    BY Zenon, <2>3 DEF Consuming
  <2>5. CASE outcome'[s] = "none" => outcome[s] = "none"
    BY Zenon, <1>1, <1>2, <2>1, <2>2, <2>4, <2>5, ServiceFrame
  <2>6. CASE outcome'[s] = "none" /\ outcome[s] # "none"
    <3>1. s = t /\ Consuming(s) /\ RecvNone(s)
      BY Zenon, <2>3, <2>6 DEF Consuming
    <3>2. receiver[s]
      BY Zenon, <1>1, <3>1 DEF IInv, ConsumerInv
    <3>3. /\ sub_replay[s] = <<>> /\ sub_terminal[s] = NoEvent /\ queue[s] = <<>>
          /\ active_id # s /\ cached_active # s /\ UNCHANGED <<sub_replay, sub_terminal, queue>>
      BY Zenon, <3>1, <3>2 DEF RecvNone
    <3>4. ~Consuming(s)'
      <4>1. outcome'[s] # "open"
        BY <2>6
      <4> QED
        BY Zenon, <4>1 DEF Consuming
    <3> QED
      BY Zenon, <1>2, <2>1, <3>3, <3>4 DEF ServiceInv
  <2> QED
    BY Zenon, <2>5, <2>6
<1> QED
  BY Zenon, <1>3, <1>4, <1>5, <1>6

\* Every step keeps the invariant of the reader, the ids and the service.
LEMMA NextKeepsCore ==
  ASSUME CoreInv, [Next]_<<policy, vars>>
  PROVE  CoreInv'
<1> USE DEF stateVars, watchVars, taskVars, activeVars, subVars, logVars, histVars
<1>1. IInv' /\ EdgeInv'
  BY Zenon, NextKeepsIInv, NextEdge DEF CoreInv
<1>2. CASE UNCHANGED <<policy, vars>>
  <2>1. ReaderInv' /\ IdInv'
    BY Zenon, <1>2 DEF CoreInv, ReaderInv, IdInv, vars, RetainsReplay, Retention
  <2>2. ASSUME NEW s \in Subs PROVE ServiceInv(s)'
    BY Zenon, <1>2 DEF CoreInv, ServiceInv, vars, Reliable, Consuming
  <2> QED
    BY Zenon, <1>1, <2>1, <2>2 DEF CoreInv
<1>3. CASE Operation /\ UNCHANGED policy
  <2>1. \/ Reader \/ ReadReturns \/ ReaderCancelled
        \/ SealReplay \/ DropStream \/ ClearActive
        \/ \E t \in Subs : TrySubscribe(t) \/ Recv(t) \/ DropReceiver(t) \/ DropDeregisters(t)
    BY Zenon, <1>3 DEF Operation
  <2>2. ReaderInv'
    <3>1. CASE Reader \/ ReadReturns \/ ReaderCancelled
      BY Zenon, <1>3, <3>1, RestKeepsReaderInv, HandsKeepReaderInv DEF Reader, ReadReturns
    <3> QED
      BY Zenon, <1>3, <2>1, <3>1, OutsideKeepsReaderInv
  <2>3. IdInv'
    BY Zenon, <2>1, ReaderKeepsIds, OutsideKeepsIds
  <2>4. ASSUME NEW s \in Subs PROVE ServiceInv(s)'
    BY Zenon, <1>3, <2>1, ReaderKeepsService, OutsideKeepsService
  <2> QED
    BY Zenon, <1>1, <2>2, <2>3, <2>4 DEF CoreInv
<1> QED
  BY Zenon, <1>2, <1>3 DEF Next, Finished

\* A stream starts with empty hands and nobody to serve.
LEMMA InitCore == Init => CoreInv
<1> SUFFICES ASSUME Init PROVE CoreInv
  BY Zenon
<1>1. IInv /\ EdgeInv
  BY Zenon, InitIInv, InitEdge
<1>2. ReaderInv
  BY DEF Init, ReaderInv, NoEvent, Mark, IsTerminal, Terminals
<1>3. IdInv
  <2>1. 0 \in Int
    OBVIOUS
  <2> QED
    BY Zenon, <2>1 DEF Init, IdInv
<1>4. ASSUME NEW s \in Subs PROVE ServiceInv(s)
  <2>1. outcome[s] # "none" /\ sub[s] # "open"
    BY DEF Init
  <2> QED
    BY Zenon, <2>1 DEF ServiceInv, Consuming
<1> QED
  BY Zenon, <1>1, <1>2, <1>3, <1>4 DEF CoreInv

-----------------------------------------------------------------------------
(* What a subscription is going to return *)

\* The event e takes a subscription from position p and Gap mark g to p2 and g2, as
\* EventStream lets it, on a stream that is lossy or not, has produced n chunks and
\* has the terminal event t.
Moves(lossy, n, t, e, p, g, p2, g2) ==
  \/ /\ e.ev = "chunk" /\ e.seq \in Nat /\ e.seq >= p /\ e.seq < n
     /\ e.seq = p \/ g \/ p = -1
     /\ p2 = e.seq + 1 /\ g2 = FALSE
  \/ e.ev = "gap" /\ lossy /\ p < n /\ p2 = p /\ g2 = TRUE
  \/ IsTerminal(e) /\ e = t /\ (p \in {n, -1} \/ g) /\ p2 = p /\ g2 = g

\* The events of q, one after another, do so.
Leads(lossy, n, t, q, p0, g0, p, g) ==
  \E f \in [0..Len(q) -> Int], h \in [0..Len(q) -> BOOLEAN] :
    /\ f[0] = p0 /\ h[0] = g0 /\ f[Len(q)] = p /\ h[Len(q)] = g
    /\ \A i \in 1..Len(q) : Moves(lossy, n, t, q[i], f[i - 1], h[i - 1], f[i], h[i])

\* Without events nothing moves.
LEMMA LeadsNowhere ==
  ASSUME NEW lossy, NEW n, NEW t, NEW p0 \in Int, NEW g0 \in BOOLEAN
  PROVE  Leads(lossy, n, t, <<>>, p0, g0, p0, g0)
<1>1. Len(<<>>) = 0 /\ 0 \in 0..0 /\ 1..0 = {}
  OBVIOUS
<1> DEFINE f == [i \in 0..0 |-> p0]
           h == [i \in 0..0 |-> g0]
<1>2. f \in [0..0 -> Int] /\ h \in [0..0 -> BOOLEAN] /\ f[0] = p0 /\ h[0] = g0
  BY Zenon, <1>1
<1>3. \A i \in 1..0 : Moves(lossy, n, t, <<>>[i], f[i - 1], h[i - 1], f[i], h[i])
  BY Zenon, <1>1
<1> HIDE DEF f, h
<1> QED
  BY Zenon, <1>1, <1>2, <1>3 DEF Leads

\* No events lead to nowhere else.
LEMMA NowhereElse ==
  ASSUME NEW lossy, NEW n, NEW t, NEW p0, NEW g0, NEW p, NEW g, Leads(lossy, n, t, <<>>, p0, g0, p, g)
  PROVE  p = p0 /\ g = g0
<1>1. Len(<<>>) = 0
  OBVIOUS
<1> QED
  BY Zenon, <1>1 DEF Leads

\* One more event moves on from where the others lead.
LEMMA LeadsOn ==
  ASSUME NEW lossy, NEW n, NEW t, NEW q \in Seq(Events), NEW e \in Events, NEW p0, NEW g0, NEW p, NEW g,
         Leads(lossy, n, t, q, p0, g0, p, g),
         NEW p2 \in Int, NEW g2 \in BOOLEAN, Moves(lossy, n, t, e, p, g, p2, g2)
  PROVE  Leads(lossy, n, t, Append(q, e), p0, g0, p2, g2)
<1>1. PICK N : N = Len(q)
  BY Zenon
<1>2. N \in Nat
  BY <1>1
<1>3. PICK f \in [0..N -> Int], h \in [0..N -> BOOLEAN] :
        /\ f[0] = p0 /\ h[0] = g0 /\ f[N] = p /\ h[N] = g
        /\ \A i \in 1..N : Moves(lossy, n, t, q[i], f[i - 1], h[i - 1], f[i], h[i])
  BY Zenon, <1>1 DEF Leads
<1>4. PICK r : r = Append(q, e)
  BY Zenon
<1>5. Len(r) = N + 1 /\ r[N + 1] = e /\ \A i \in 1..N : r[i] = q[i]
  BY <1>1, <1>4
<1> DEFINE f2 == [i \in 0..(N + 1) |-> IF i \in 0..N THEN f[i] ELSE p2]
           h2 == [i \in 0..(N + 1) |-> IF i \in 0..N THEN h[i] ELSE g2]
<1>6. f2 \in [0..(N + 1) -> Int] /\ h2 \in [0..(N + 1) -> BOOLEAN]
  BY Zenon, <1>3
<1>7. /\ 0 \in 0..N /\ N \in 0..N /\ N + 1 \notin 0..N /\ N + 1 \in 0..(N + 1) /\ (N + 1) - 1 = N
      /\ \A i \in 0..N : i \in 0..(N + 1)
      /\ \A i \in 1..N : i \in 0..N /\ i - 1 \in 0..N
      /\ \A i \in 1..(N + 1) : i \in 1..N \/ i = N + 1
  BY <1>2
<1>8. /\ \A i \in 0..N : f2[i] = f[i] /\ h2[i] = h[i]
      /\ f2[N + 1] = p2 /\ h2[N + 1] = g2
  BY Zenon, <1>7
<1> HIDE DEF f2, h2
<1>9. ASSUME NEW i \in 1..(N + 1) PROVE Moves(lossy, n, t, r[i], f2[i - 1], h2[i - 1], f2[i], h2[i])
  <2>1. CASE i \in 1..N
    BY Zenon, <1>3, <1>5, <1>7, <1>8, <2>1
  <2>2. CASE i = N + 1
    BY Zenon, <1>3, <1>5, <1>7, <1>8, <2>2
  <2> QED
    BY Zenon, <1>7, <2>1, <2>2
<1>10. f2[0] = p0 /\ h2[0] = g0
  BY Zenon, <1>3, <1>7, <1>8
<1>11. Leads(lossy, n, t, r, p0, g0, p2, g2)
  BY Zenon, <1>5, <1>6, <1>8, <1>9, <1>10 DEF Leads
<1> QED
  BY Zenon, <1>4, <1>11

\* The first of the events leads somewhere from where the others lead on.
FirstLeads(lossy, n, t, q, p0, g0, p, g) ==
  \E p1 \in Int, g1 \in BOOLEAN :
    Moves(lossy, n, t, Head(q), p0, g0, p1, g1) /\ Leads(lossy, n, t, Tail(q), p1, g1, p, g)

\* The first event moves, and the rest leads on from there.
LEMMA LeadsFirst ==
  ASSUME NEW lossy, NEW n, NEW t, NEW q \in Seq(Events), q # <<>>, NEW p0, NEW g0, NEW p, NEW g,
         Leads(lossy, n, t, q, p0, g0, p, g)
  PROVE  FirstLeads(lossy, n, t, q, p0, g0, p, g)
<1>1. PICK N : N = Len(q)
  BY Zenon
<1>2. N \in Nat /\ N >= 1
  BY <1>1
<1>3. PICK f \in [0..N -> Int], h \in [0..N -> BOOLEAN] :
        /\ f[0] = p0 /\ h[0] = g0 /\ f[N] = p /\ h[N] = g
        /\ \A i \in 1..N : Moves(lossy, n, t, q[i], f[i - 1], h[i - 1], f[i], h[i])
  BY Zenon, <1>1 DEF Leads
<1>4. PICK r : r = Tail(q)
  BY Zenon
<1>5. Len(r) = N - 1 /\ Head(q) = q[1] /\ \A i \in 1..(N - 1) : r[i] = q[i + 1]
  BY <1>1, <1>4
<1>6. /\ 1 \in 1..N /\ 1 - 1 = 0 /\ 1 \in 0..N /\ 0 \in 0..(N - 1) /\ N - 1 \in 0..(N - 1)
      /\ (N - 1) + 1 = N /\ 0 + 1 = 1
      /\ \A i \in 0..(N - 1) : i + 1 \in 0..N
      /\ \A i \in 1..(N - 1) : /\ i \in 0..(N - 1) /\ i - 1 \in 0..(N - 1) /\ i + 1 \in 1..N
                               /\ (i + 1) - 1 = i /\ (i - 1) + 1 = i
  BY <1>2
<1> DEFINE f2 == [i \in 0..(N - 1) |-> f[i + 1]]
           h2 == [i \in 0..(N - 1) |-> h[i + 1]]
<1>7. f2 \in [0..(N - 1) -> Int] /\ h2 \in [0..(N - 1) -> BOOLEAN]
  BY Zenon, <1>3, <1>6
<1>8. \A i \in 0..(N - 1) : f2[i] = f[i + 1] /\ h2[i] = h[i + 1]
  BY Zenon
<1> HIDE DEF f2, h2
<1>9. ASSUME NEW i \in 1..(N - 1) PROVE Moves(lossy, n, t, r[i], f2[i - 1], h2[i - 1], f2[i], h2[i])
  <2>1. Moves(lossy, n, t, q[i + 1], f[(i + 1) - 1], h[(i + 1) - 1], f[i + 1], h[i + 1])
    BY Zenon, <1>3, <1>6
  <2>2. f2[i - 1] = f[i] /\ h2[i - 1] = h[i] /\ f2[i] = f[i + 1] /\ h2[i] = h[i + 1]
    <3>1. f2[i - 1] = f[(i - 1) + 1] /\ h2[i - 1] = h[(i - 1) + 1]
      BY Zenon, <1>6, <1>8
    <3> QED
      BY Zenon, <1>6, <1>8, <3>1
  <2> QED
    BY Zenon, <1>5, <1>6, <2>1, <2>2
<1>10. f2[0] = f[1] /\ h2[0] = h[1] /\ f2[N - 1] = p /\ h2[N - 1] = g
  <2>1. f2[0] = f[0 + 1] /\ h2[0] = h[0 + 1] /\ f2[N - 1] = f[(N - 1) + 1] /\ h2[N - 1] = h[(N - 1) + 1]
    BY Zenon, <1>6, <1>8
  <2> QED
    BY Zenon, <1>3, <1>6, <2>1
<1>11. Leads(lossy, n, t, r, f[1], h[1], p, g)
  BY Zenon, <1>5, <1>7, <1>9, <1>10 DEF Leads
<1>12. Moves(lossy, n, t, Head(q), p0, g0, f[1], h[1])
  <2>1. Moves(lossy, n, t, q[1], f[1 - 1], h[1 - 1], f[1], h[1])
    BY Zenon, <1>3, <1>6
  <2> QED
    BY Zenon, <1>3, <1>5, <1>6, <2>1
<1>13. f[1] \in Int /\ h[1] \in BOOLEAN
  BY Zenon, <1>3, <1>6
<1> QED
  BY Zenon, <1>4, <1>11, <1>12, <1>13 DEF FirstLeads

\* Events lead where they did when more chunks are produced, and when the stream ends.
LEMMA LeadsStill ==
  ASSUME NEW lossy, NEW n \in Int, NEW t, NEW n2 \in Int, NEW t2,
         (n2 = n /\ t2 = t) \/ (t = NoEvent /\ n2 >= n),
         NEW q \in Seq(Events), NEW p0, NEW g0, NEW p, NEW g, Leads(lossy, n, t, q, p0, g0, p, g)
  PROVE  Leads(lossy, n2, t2, q, p0, g0, p, g)
<1>1. CASE n2 = n /\ t2 = t
  BY Zenon, <1>1
<1>2. CASE t = NoEvent /\ n2 >= n
  <2>1. ASSUME NEW e, NEW a \in Int, NEW b, NEW a2, NEW b2, Moves(lossy, n, t, e, a, b, a2, b2)
        PROVE  Moves(lossy, n2, t2, e, a, b, a2, b2)
    <3>1. ~IsTerminal(NoEvent)
      BY DEF IsTerminal, NoEvent, Mark, Terminals
    <3>2. ~IsTerminal(e)  \/ e # t
      BY Zenon, <1>2, <3>1
    <3>3. a < n => a < n2
      BY <1>2
    <3>4. e.seq \in Nat /\ e.seq < n => e.seq < n2
      BY <1>2
    <3> QED
      BY Zenon, <2>1, <3>2, <3>3, <3>4 DEF Moves
  <2>2. PICK N : N = Len(q)
    BY Zenon
  <2>3. PICK f \in [0..N -> Int], h \in [0..N -> BOOLEAN] :
          /\ f[0] = p0 /\ h[0] = g0 /\ f[N] = p /\ h[N] = g
          /\ \A i \in 1..N : Moves(lossy, n, t, q[i], f[i - 1], h[i - 1], f[i], h[i])
    BY Zenon, <2>2 DEF Leads
  <2>4. N \in Nat /\ \A i \in 1..N : i - 1 \in 0..N
    BY <2>2
  <2>5. ASSUME NEW i \in 1..N PROVE Moves(lossy, n2, t2, q[i], f[i - 1], h[i - 1], f[i], h[i])
    <3>1. f[i - 1] \in Int
      BY Zenon, <2>3, <2>4
    <3> QED
      BY Zenon, <2>1, <2>3, <3>1
  <2> QED
    BY Zenon, <2>2, <2>3, <2>5 DEF Leads
<1> QED
  BY Zenon, <1>1, <1>2

\* What s returns after its replay: the terminal event of its snapshot, or what is in
\* its channel.
Rest(s) == IF sub_terminal[s] # NoEvent THEN <<sub_terminal[s]>> ELSE queue[s]

\* s may still be sent something that it will return.
Hears(s) == sub_terminal[s] = NoEvent /\ pc # "stopped" /\ (active_id = s \/ cached_active = s)

\* Where a subscription stands once it has returned all it holds: the chunk in the
\* reader's hands is its next one, or not meant for it; without a chunk, it has
\* everything, or was told of a gap, or is about to be.
Stands(s, p, g) ==
  /\ -1 <= p /\ p <= produced
  /\ event.ev = "chunk" /\ cached_active = s => p < produced /\ (p = produced - 1 \/ g \/ p = -1)
  /\ event.ev = "chunk" /\ cached_active # s =>
       p \in {-1, produced} /\ (~recorded /\ cached_active # NoSub => p = -1)
  /\ event.ev # "chunk" =>
       IF gap_pending /\ lag_id = s THEN p < produced ELSE p \in {produced, -1} \/ g

\* The replay of s leads it on, what follows leads it further, and what it is still
\* sent will go on from there.
View(s) ==
  \E p1 \in Int, g1 \in BOOLEAN, p \in Int, g \in BOOLEAN :
    /\ Leads(~Reliable, produced, terminal_event, sub_replay[s], pos[s], gapped[s], p1, g1)
    /\ Leads(~Reliable, produced, terminal_event, Rest(s), p1, g1, p, g)
    /\ Hears(s) => Stands(s, p, g)

ViewInv == Recording /\ \A s \in Subs : Consuming(s) => View(s)

\* What a subscription holds are events.
LEMMA HeldAreEvents ==
  ASSUME IInv, NEW s \in Subs
  PROVE  sub_replay[s] \in Seq(Events) /\ queue[s] \in Seq(Events) /\ Rest(s) \in Seq(Events)
<1>1. sub_replay[s] \in Seq(Chunks) /\ queue[s] \in Seq(Events) /\ sub_terminal[s] \in Ends \cup {NoEvent}
  BY Zenon DEF IInv, TypeInv
<1>2. \A e \in Chunks : e \in Events
  BY Zenon DEF Events
<1>3. sub_replay[s] \in Seq(Events)
  BY <1>1, <1>2
<1>4. ASSUME NEW e \in Events PROVE <<e>> \in Seq(Events)
  OBVIOUS
<1>5. sub_terminal[s] # NoEvent => sub_terminal[s] \in Events
  BY Zenon, <1>1 DEF Events
<1> QED
  BY Zenon, <1>1, <1>3, <1>4, <1>5 DEF Rest

\* A step that leaves what s holds alone.
LEMMA ViewKept ==
  ASSUME IInv, NEW s \in Subs, View(s), UNCHANGED policy,
         produced \in Int, produced' \in Int,
         \/ produced' = produced /\ terminal_event' = terminal_event
         \/ terminal_event = NoEvent /\ produced' >= produced,
         sub_replay'[s] = sub_replay[s], Rest(s)' = Rest(s), pos'[s] = pos[s], gapped'[s] = gapped[s],
         Hears(s)' => Hears(s) /\ \A p \in Int, g \in BOOLEAN : Stands(s, p, g) => Stands(s, p, g)'
  PROVE  View(s)'
<1>1. PICK p1 \in Int, g1 \in BOOLEAN, p \in Int, g \in BOOLEAN :
        /\ Leads(~Reliable, produced, terminal_event, sub_replay[s], pos[s], gapped[s], p1, g1)
        /\ Leads(~Reliable, produced, terminal_event, Rest(s), p1, g1, p, g)
        /\ Hears(s) => Stands(s, p, g)
  BY Zenon DEF View
<1>2. sub_replay[s] \in Seq(Events) /\ Rest(s) \in Seq(Events)
  BY Zenon, HeldAreEvents
<1>3. PICK l, n, t, n2, t2 : l = ~Reliable /\ n = produced /\ t = terminal_event /\ n2 = produced' /\ t2 = terminal_event'
  BY Zenon
<1>4. n \in Int /\ n2 \in Int /\ ((n2 = n /\ t2 = t) \/ (t = NoEvent /\ n2 >= n))
  BY Zenon, <1>3
<1>5. Leads(l, n, t, sub_replay[s], pos[s], gapped[s], p1, g1) /\ Leads(l, n, t, Rest(s), p1, g1, p, g)
  BY Zenon, <1>1, <1>3
<1>6. Leads(l, n2, t2, sub_replay[s], pos[s], gapped[s], p1, g1) /\ Leads(l, n2, t2, Rest(s), p1, g1, p, g)
  BY Zenon, <1>2, <1>4, <1>5, LeadsStill
<1>7. (~Reliable)' = l
  BY Zenon, <1>3 DEF Reliable
<1>8. /\ Leads((~Reliable)', produced', terminal_event', sub_replay'[s], pos'[s], gapped'[s], p1, g1)
      /\ Leads((~Reliable)', produced', terminal_event', Rest(s)', p1, g1, p, g)
  BY Zenon, <1>3, <1>6, <1>7
<1>9. Hears(s)' => Stands(s, p, g)'
  BY Zenon, <1>1
<1> QED
  BY Zenon, <1>8, <1>9 DEF View

\* The event e goes on from wherever s stands.
GoesOn(s, e) ==
  \A p \in Int, g \in BOOLEAN : Stands(s, p, g) =>
    \E p2 \in Int, g2 \in BOOLEAN :
      /\ Moves(~Reliable, produced, terminal_event, e, p, g, p2, g2)
      /\ Hears(s)' => Stands(s, p2, g2)'

\* A step that sends s the event e.
LEMMA ViewSent ==
  ASSUME IInv, NEW s \in Subs, View(s), UNCHANGED <<policy, produced, terminal_event, sub_replay, sub_terminal, pos, gapped>>,
         Hears(s), NEW e \in Events, queue'[s] = Append(queue[s], e),
         GoesOn(s, e)
  PROVE  View(s)'
<1>1. PICK p1 \in Int, g1 \in BOOLEAN, p \in Int, g \in BOOLEAN :
        /\ Leads(~Reliable, produced, terminal_event, sub_replay[s], pos[s], gapped[s], p1, g1)
        /\ Leads(~Reliable, produced, terminal_event, Rest(s), p1, g1, p, g)
        /\ Hears(s) => Stands(s, p, g)
  BY Zenon DEF View
<1>2. queue[s] \in Seq(Events)
  BY Zenon, HeldAreEvents
<1>3. sub_terminal[s] = NoEvent /\ Rest(s) = queue[s]
  BY Zenon DEF Hears, Rest
<1>4. Rest(s)' = Append(queue[s], e)
  BY Zenon, <1>3 DEF Rest
<1>5. PICK p2 \in Int, g2 \in BOOLEAN :
        /\ Moves(~Reliable, produced, terminal_event, e, p, g, p2, g2)
        /\ Hears(s)' => Stands(s, p2, g2)'
  BY Zenon, <1>1 DEF GoesOn
<1>6. PICK l, n, t : l = ~Reliable /\ n = produced /\ t = terminal_event
  BY Zenon
<1>7. Leads(l, n, t, queue[s], p1, g1, p, g) /\ Moves(l, n, t, e, p, g, p2, g2)
  BY Zenon, <1>1, <1>3, <1>5, <1>6
<1>8. Leads(l, n, t, Append(queue[s], e), p1, g1, p2, g2)
  BY Zenon, <1>2, <1>7, LeadsOn
<1>9. (~Reliable)' = l
  BY Zenon, <1>6 DEF Reliable
<1>10. Hears(s)' => Stands(s, p2, g2)'
  BY Zenon, <1>5
<1>11. /\ Leads((~Reliable)', produced', terminal_event', sub_replay'[s], pos'[s], gapped'[s], p1, g1)
       /\ Leads((~Reliable)', produced', terminal_event', Rest(s)', p1, g1, p2, g2)
  BY Zenon, <1>1, <1>4, <1>6, <1>8, <1>9
<1> QED
  BY Zenon, <1>10, <1>11 DEF View

\* A step of the reader that sends nothing.
LEMMA QuietView ==
  ASSUME IInv, NEW s \in Subs, View(s), UNCHANGED <<policy, queue>>, Reader \/ ReadReturns \/ ReaderCancelled,
         produced \in Int, produced' \in Int,
         \/ produced' = produced /\ terminal_event' = terminal_event
         \/ terminal_event = NoEvent /\ produced' >= produced,
         \A p \in Int, g \in BOOLEAN : Stands(s, p, g) /\ Hears(s) /\ Hears(s)' => Stands(s, p, g)'
  PROVE  View(s)'
<1>1. /\ UNCHANGED <<sub_replay, sub_terminal, pos, gapped>>
      /\ active_id' \in {active_id, NoSub}
      /\ cached_active' \in {cached_active, active_id} \/ (pc' = "stopped" /\ cached_active' = NoSub)
      /\ pc # "stopped"
  BY Zenon, ReaderMoves
<1>2. s # NoSub
  BY Zenon, NoSubIsNobody
<1>3. Hears(s)' => Hears(s)
  BY Zenon, <1>1, <1>2 DEF Hears
<1>4. Rest(s)' = Rest(s)
  BY Zenon, <1>1 DEF Rest
<1> QED
  BY Zenon, <1>1, <1>3, <1>4, ViewKept

\* A reader that has no chunk in its hands, before and after, keeps its gaps for whom
\* it hears.
LEMMA IdleStands ==
  ASSUME CoreInv, NEW s \in Subs, NEW p, NEW g, Stands(s, p, g),
         event.ev # "chunk", event'.ev # "chunk", UNCHANGED produced,
         (gap_pending' /\ lag_id' = s) <=> (gap_pending /\ lag_id = s)
  PROVE  Stands(s, p, g)'
  BY Zenon DEF Stands

\* A newly registered subscriber that the reader has not noticed has no gap.
LEMMA FreshHasNoGap ==
  ASSUME CoreInv, NEW s \in Subs, Consuming(s), active_id = s, cached_active # s, pc # "stopped"
  PROVE  lag_id # s /\ queue[s] = <<>>
  BY Zenon DEF CoreInv, ServiceInv

\* A gap survives observe_active for the subscriber that is observed.
LEMMA ObservedStays ==
  ASSUME CoreInv, NEW s \in Subs, ObserveActive(s)
  PROVE  (gap_pending' /\ lag_id' = s) <=> (gap_pending /\ lag_id = s)
<1>1. gap_pending => ~Reliable
  BY Zenon DEF CoreInv, EdgeInv, CountInv
<1> QED
  BY Zenon, <1>1, ObservedGap DEF ObserveActive

\* Reading, yielding and ending keep the view.
LEMMA ReadKeepsView ==
  ASSUME CoreInv, NEW s \in Subs, Consuming(s), View(s), UNCHANGED policy,
         \/ ActiveChanged \/ Yielded \/ ReaderCancelled \/ SendClosed
         \/ (\E n \in 1..MaxRead : ReadBytes(n)) \/ \E kind \in Terminals : RecordTerminal(kind)
  PROVE  View(s)'
<1> USE DEF stateVars, watchVars, taskVars, activeVars, subVars, logVars, histVars
<1>1. IInv /\ produced \in Int /\ NoEvent.ev # "chunk" /\ s # NoSub
  BY NoSubIsNobody DEF CoreInv, IInv, TypeInv, NoEvent, Mark
<1>2. Reader \/ ReadReturns \/ ReaderCancelled
  BY Zenon DEF Reader, ReadReturns
<1>3. UNCHANGED <<queue, produced>>
  BY Zenon DEF ActiveChanged, Yielded, ReaderCancelled, SendClosed, ReadBytes, RecordTerminal
<1>4. CASE ActiveChanged \/ \E n \in 1..MaxRead : ReadBytes(n)
  <2>1. /\ pc = "read" /\ UNCHANGED <<terminal_event, event, active_id>>
        /\ \/ cached_active = NoSub /\ ObserveActive(active_id)
           \/ UNCHANGED <<gap_pending, lag_id>>
    BY Zenon, <1>4 DEF ActiveChanged, ReadBytes
  <2>2. event = NoEvent /\ pc # "stopped"
    <3>1. pc \in {"read", "chunk", "yield"} /\ pc # "stopped"
      BY <2>1
    <3> QED
      BY Zenon, <3>1, IdleReader
  <2>3. Hears(s) => ((gap_pending' /\ lag_id' = s) <=> (gap_pending /\ lag_id = s))
    BY Zenon, <1>1, <2>1, ObservedStays DEF Hears
  <2>4. \A p \in Int, g \in BOOLEAN : Stands(s, p, g) /\ Hears(s) /\ Hears(s)' => Stands(s, p, g)'
    BY Zenon, <1>1, <1>3, <2>1, <2>2, <2>3, IdleStands
  <2> QED
    BY Zenon, <1>1, <1>2, <1>3, <2>1, <2>4, QuietView
<1>5. CASE Yielded
  <2>1. UNCHANGED <<terminal_event, event, gap_pending, lag_id, cached_active, recorded>>
    BY Zenon, <1>5 DEF Yielded
  <2>2. \A p \in Int, g \in BOOLEAN : Stands(s, p, g) /\ Hears(s) /\ Hears(s)' => Stands(s, p, g)'
    BY Zenon, <1>3, <2>1 DEF Stands
  <2> QED
    BY Zenon, <1>1, <1>2, <1>3, <2>1, <2>2, QuietView
<1>6. CASE ReaderCancelled
  <2>1. UNCHANGED terminal_event /\ ~Hears(s)'
    BY Zenon, <1>6 DEF ReaderCancelled, Hears
  <2> QED
    BY Zenon, <1>1, <1>2, <1>3, <2>1, QuietView
<1>7. CASE SendClosed
  <2>1. UNCHANGED <<terminal_event, event, gap_pending, lag_id, cached_active, recorded>>
    BY Zenon, <1>7 DEF SendClosed
  <2>2. \A p \in Int, g \in BOOLEAN : Stands(s, p, g) /\ Hears(s) /\ Hears(s)' => Stands(s, p, g)'
    BY Zenon, <1>3, <2>1 DEF Stands
  <2> QED
    BY Zenon, <1>1, <1>2, <1>3, <2>1, <2>2, QuietView
<1>8. ASSUME NEW kind \in Terminals, RecordTerminal(kind) PROVE View(s)'
  <2>1. /\ event' \in Ends /\ event = NoEvent /\ terminal_event = NoEvent
        /\ cached_active' = active_id /\ active_id' = active_id /\ ObserveActive(active_id)
    BY Zenon, <1>8, RecordedTerminal
  <2>2. \A e \in Ends : e.ev # "chunk"
    BY DEF Ends, Mark
  <2>3. Hears(s)' => ((gap_pending' /\ lag_id' = s) <=> (gap_pending /\ lag_id = s))
    BY Zenon, <2>1, ObservedStays DEF Hears
  <2>4. \A p \in Int, g \in BOOLEAN : Stands(s, p, g) /\ Hears(s) /\ Hears(s)' => Stands(s, p, g)'
    BY Zenon, <1>1, <1>3, <2>1, <2>2, <2>3, IdleStands
  <2>5. produced' >= produced
    BY <1>1, <1>3
  <2>6. produced' \in Int
    BY Zenon, <1>1, <1>3
  <2> QED
    BY Zenon, <1>1, <1>2, <1>3, <2>1, <2>4, <2>5, <2>6, QuietView
<1> QED
  BY Zenon, <1>4, <1>5, <1>6, <1>7, <1>8

\* Splitting off a chunk: it is the next one of whoever is registered.
LEMMA SplitKeepsView ==
  ASSUME CoreInv, NEW s \in Subs, Consuming(s), View(s), UNCHANGED policy, SplitChunk
  PROVE  View(s)'
<1>1. /\ IInv /\ produced \in Nat /\ produced' = produced + 1 /\ UNCHANGED <<queue, active_id>>
      /\ event'.ev = "chunk" /\ event = NoEvent /\ terminal_event = NoEvent /\ cached_active' = active_id
      /\ pc = "chunk" /\ NoEvent.ev # "chunk"
  BY SplitIsChunk DEF CoreInv, subVars, NoEvent, Mark
<1>2. produced \in Int /\ produced' \in Int /\ produced' >= produced /\ pc # "stopped"
  BY <1>1
<1>3. Reader
  BY Zenon DEF Reader
<1>4. ASSUME NEW p \in Int, NEW g \in BOOLEAN, Stands(s, p, g), Hears(s), Hears(s)'
      PROVE  Stands(s, p, g)'
  <2>1. active_id = s /\ cached_active' = s
    BY Zenon, <1>1, <1>4 DEF Hears
  <2>2. ~(gap_pending /\ lag_id = s)
    BY Zenon, <1>2, <2>1, FreshHasNoGap DEF SplitChunk, GapDue
  <2>3. -1 <= p /\ p <= produced /\ (p \in {produced, -1} \/ g)
    BY Zenon, <1>1, <1>4, <2>2 DEF Stands
  <2>4. /\ -1 <= p /\ p <= produced' /\ p < produced'
        /\ p = produced' - 1 \/ g \/ p = -1
    BY <1>1, <2>3
  <2> QED
    BY Zenon, <1>1, <2>1, <2>4 DEF Stands
<1> QED
  BY Zenon, <1>1, <1>2, <1>3, <1>4, QuietView

\* Whoever is served successfully while s consumes is s.
LEMMA ServedIsConsumer ==
  ASSUME CoreInv, NEW s \in Subs, Consuming(s), cached_active # NoSub, receiver[cached_active], pc # "stopped"
  PROVE  cached_active = s
  BY Zenon, OthersAreGone DEF CoreInv, IInv, TypeInv

\* A subscriber that stays full misses everything read so far.
LEMMA GapFullKeepsView ==
  ASSUME CoreInv, NEW s \in Subs, Consuming(s), View(s), UNCHANGED policy, SendGapFull
  PROVE  View(s)'
<1> USE DEF stateVars, watchVars, taskVars, activeVars, subVars, logVars, histVars
<1>1. /\ IInv /\ UNCHANGED <<queue, event, terminal_event, active_id, cached_active, lag_id, gap_pending>>
      /\ pc = "chunk" /\ gap_pending /\ lag_id = cached_active /\ receiver[cached_active]
      /\ produced' = produced + (buf + ReadChunkSize - 1) \div ReadChunkSize
      /\ buf \in Int /\ buf >= 0 /\ produced \in Int /\ lag_id # NoSub
  BY Zenon DEF SendGapFull, GapDue, CoreInv, IInv, TypeInv, EdgeInv, CountInv, ReaderInv
<1>2. pc \in {"read", "chunk", "yield"} /\ pc # "stopped"
  BY <1>1
<1>3. event = NoEvent /\ terminal_event = NoEvent /\ cached_active = s
  BY Zenon, <1>1, <1>2, IdleReader, ServedIsConsumer
<1>4. produced' \in Int /\ produced' >= produced
  <2>1. PICK n, d : n = buf + ReadChunkSize - 1 /\ d = ReadChunkSize
    BY Zenon
  <2>2. n \in Nat /\ d \in Nat \ {0}
    BY <1>1, <2>1, ConfigAssumption
  <2>3. n \div d \in Nat
    BY <2>2
  <2>4. PICK k : k = n \div d
    BY Zenon
  <2>5. produced' = produced + k /\ k \in Nat
    BY Zenon, <1>1, <2>1, <2>3, <2>4
  <2> QED
    BY <1>1, <2>5
<1>5. Reader
  BY Zenon DEF Reader
<1>6. NoEvent.ev # "chunk"
  BY DEF NoEvent, Mark
<1>7. ASSUME NEW p \in Int, NEW g \in BOOLEAN, Stands(s, p, g)
      PROVE  Stands(s, p, g)'
  <2>1. -1 <= p /\ p <= produced /\ p < produced
    BY Zenon, <1>1, <1>3, <1>6, <1>7 DEF Stands
  <2>2. -1 <= p /\ p <= produced' /\ p < produced'
    BY <1>1, <1>4, <2>1
  <2> QED
    BY Zenon, <1>1, <1>3, <1>6, <2>2 DEF Stands
<1> QED
  BY Zenon, <1>1, <1>3, <1>4, <1>5, <1>7, QuietView

\* Nobody to send to, or nobody with room.
LEMMA UnsentKeepsView ==
  ASSUME CoreInv, NEW s \in Subs, Consuming(s), View(s), UNCHANGED policy, Inactive \/ SendFull
  PROVE  View(s)'
<1> USE DEF stateVars, watchVars, taskVars, activeVars, subVars, logVars, histVars
<1>1. /\ IInv /\ UNCHANGED <<queue, terminal_event, produced, active_id>> /\ pc = "send" /\ event' = NoEvent
      /\ produced \in Int /\ ~gap_pending /\ s # NoSub /\ event # NoEvent
      /\ event \in Chunks \cup Ends \cup {NoEvent}
  <2>1. pc = "send"
    BY Zenon DEF Inactive, SendFull
  <2>2. pc \in {"send", "gap"}
    BY <2>1
  <2> QED
    BY Zenon, <2>1, <2>2, NoSubIsNobody DEF Inactive, SendFull, SendDone, CoreInv, IInv, TypeInv, ReaderInv
<1>2. NoEvent.ev # "chunk" /\ pc # "stopped"
  BY <1>1 DEF NoEvent, Mark
<1>3. Reader
  BY Zenon DEF Reader
<1>4. CASE Inactive
  <2>1. /\ cached_active = NoSub /\ gap_pending' = FALSE
        /\ pc' = IF IsTerminal(event) THEN "stopped" ELSE AfterChunk(buf)
    BY Zenon, <1>1, <1>4 DEF Inactive, SendDone, ObserveActive
  <2>2. ASSUME NEW p \in Int, NEW g \in BOOLEAN, Stands(s, p, g), Hears(s)'
        PROVE  Stands(s, p, g)'
    <3>1. event.ev = "chunk"
      BY Zenon, <1>1, <2>1, <2>2, EventKinds DEF Hears
    <3>2. -1 <= p /\ p <= produced /\ p \in {-1, produced}
      BY Zenon, <1>1, <2>1, <2>2, <3>1 DEF Stands
    <3> QED
      BY Zenon, <1>1, <1>2, <2>1, <3>2 DEF Stands
  <2> QED
    BY Zenon, <1>1, <1>3, <2>2, QuietView
<1>5. CASE SendFull
  <2>1. /\ cached_active # NoSub /\ receiver[cached_active] /\ ~Reliable /\ ~IsTerminal(event)
        /\ Len(queue[cached_active]) >= Capacity /\ UNCHANGED lag_id
    BY Zenon, <1>5 DEF SendFull
  <2>2. cached_active = s /\ event.ev = "chunk"
    BY Zenon, <1>1, <1>2, <2>1, ServedIsConsumer, EventKinds
  <2>3. queue[s] # <<>>
    <3>1. Len(<<>>) = 0 /\ ~(0 >= Capacity)
      BY ConfigAssumption
    <3> QED
      BY Zenon, <2>1, <2>2, <3>1
  <2>4. lag_id = s
    BY Zenon, <2>1, <2>2, <2>3 DEF CoreInv, ServiceInv
  <2>5. ASSUME NEW p \in Int, NEW g \in BOOLEAN, Stands(s, p, g)
        PROVE  Stands(s, p, g)'
    <3>1. -1 <= p /\ p <= produced /\ p < produced
      BY Zenon, <2>2, <2>5 DEF Stands
    <3>2. gap_pending'
      BY Zenon, <1>5 DEF SendFull
    <3> QED
      BY Zenon, <1>1, <1>2, <2>1, <2>4, <3>1, <3>2 DEF Stands
  <2> QED
    BY Zenon, <1>1, <1>3, <2>5, QuietView
<1> QED
  BY Zenon, <1>4, <1>5

\* After a receiver was found gone, the event in hand goes to the subscriber that took
\* over, if that one does not have it, and no gap of the old one is passed on.
LEMMA RefreshKeepsView ==
  ASSUME CoreInv, NEW s \in Subs, Consuming(s), View(s), UNCHANGED policy, Refresh
  PROVE  View(s)'
<1> USE DEF stateVars, watchVars, taskVars, activeVars, subVars, logVars, histVars
<1>1. /\ IInv /\ UNCHANGED <<queue, terminal_event, produced, active_id>> /\ pc = "refresh"
      /\ produced \in Int /\ produced >= 0 /\ s # NoSub /\ cached_active # NoSub /\ active_id # cached_active
      /\ cached_active' = IF pc' = "stopped" THEN NoSub ELSE active_id
      /\ event \in Chunks \cup Ends \cup {NoEvent}
  BY Zenon, NoSubIsNobody DEF Refresh, CoreInv, IInv, TypeInv, EdgeInv, CountInv, ReaderInv
<1>2. NoEvent.ev # "chunk" /\ pc # "stopped" /\ ~IsTerminal(NoEvent) /\ "chunk" \notin Terminals
  BY <1>1 DEF NoEvent, Mark, IsTerminal, Terminals
<1>3. Reader
  BY Zenon DEF Reader
<1>4. ASSUME NEW p \in Int, NEW g \in BOOLEAN, Stands(s, p, g), Hears(s)'
      PROVE  Stands(s, p, g)'
  <2>1. active_id = s /\ cached_active # s /\ pc' # "stopped" /\ cached_active' = s
    BY Zenon, <1>1, <1>4 DEF Hears
  <2>2. lag_id # s
    BY Zenon, <1>2, <2>1, FreshHasNoGap
  <2>3. ObserveActive(active_id) => ~gap_pending'
    BY Zenon, <2>1, <2>2 DEF ObserveActive
  <2>4. CASE event.ev # "chunk"
    <3>1. event'.ev # "chunk"
      BY Zenon, <1>2, <2>4 DEF Refresh
    <3>2. ~(gap_pending' /\ lag_id' = s)
      BY Zenon, <2>2, <2>3 DEF Refresh
    <3> QED
      BY Zenon, <1>1, <1>4, <2>2, <2>4, <3>1, <3>2, IdleStands
  <2>5. CASE event.ev = "chunk"
    <3>1. ~IsTerminal(event) /\ event # NoEvent
      BY Zenon, <1>2, <2>5 DEF IsTerminal
    <3>2. -1 <= p /\ p <= produced /\ p \in {-1, produced} /\ (~recorded => p = -1)
      BY Zenon, <1>1, <1>4, <2>1, <2>5 DEF Stands
    <3>3. CASE ~recorded /\ UNCHANGED event
      <4>1. p = -1 /\ p < produced
        BY <1>1, <3>2, <3>3
      <4> QED
        BY Zenon, <1>1, <2>1, <2>5, <3>2, <3>3, <4>1 DEF Stands
    <3>4. CASE event' = NoEvent /\ ~gap_pending'
      BY Zenon, <1>1, <1>2, <3>2, <3>4 DEF Stands
    <3> QED
      BY Zenon, <2>3, <3>1, <3>3, <3>4 DEF Refresh, RetriesEvent
  <2> QED
    BY Zenon, <2>4, <2>5
<1> QED
  BY Zenon, <1>1, <1>3, <1>4, QuietView

\* A send to the subscriber that consumes: it returns the event where it is due.
LEMMA SendKeepsView ==
  ASSUME CoreInv, NEW s \in Subs, Consuming(s), View(s), UNCHANGED policy, SendGap \/ SendPendingGap \/ SendOk
  PROVE  View(s)'
<1> USE DEF stateVars, watchVars, taskVars, activeVars, subVars, logVars, histVars
<1>1. /\ IInv /\ UNCHANGED <<produced, terminal_event, sub_replay, sub_terminal, pos, gapped, active_id, lag_id>>
      /\ produced \in Int /\ produced >= 0 /\ queue \in [Subs -> Seq(Events)]
      /\ event \in Chunks \cup Ends \cup {NoEvent} /\ pc \in {"chunk", "gap", "send"}
      /\ receiver[cached_active] /\ s # NoSub
  BY Zenon, NoSubIsNobody DEF SendGap, SendPendingGap, SendOk, CoreInv, IInv, TypeInv, EdgeInv, CountInv
<1>2. cached_active # NoSub /\ (SendGap \/ SendPendingGap => gap_pending /\ lag_id = cached_active)
  BY Zenon DEF SendGap, SendPendingGap, SendOk, GapDue, CoreInv, ReaderInv
<1>3. pc # "stopped" /\ NoEvent.ev # "chunk"
  BY <1>1 DEF NoEvent, Mark
<1>4. cached_active = s
  BY Zenon, <1>1, <1>2, <1>3, ServedIsConsumer
<1>5. PICK e \in Events :
        /\ queue' = [queue EXCEPT ![s] = Append(queue[s], e)]
        /\ \/ e = Mark("gap") /\ (SendGap \/ SendPendingGap)
           \/ e = event /\ SendOk
  <2>1. Mark("gap") \in Events
    BY Zenon, EventKinds
  <2>2. SendOk => event \in Events
    <3>1. pc = "send" => pc \in {"send", "gap"}
      OBVIOUS
    <3> QED
      BY Zenon, <1>1, <3>1 DEF SendOk, Events, IInv, TypeInv
  <2> QED
    BY Zenon, <1>4, <2>1, <2>2 DEF SendGap, SendPendingGap, SendOk
<1>6. queue'[s] = Append(queue[s], e)
  BY Zenon, <1>1, <1>5
<1>7. CASE ~Hears(s)
  <2>1. sub_terminal[s] # NoEvent
    BY Zenon, <1>3, <1>4, <1>7 DEF Hears
  <2>2. Rest(s)' = Rest(s) /\ ~Hears(s)'
    BY Zenon, <1>1, <2>1 DEF Rest, Hears
  <2>3. produced' \in Int
    BY Zenon, <1>1
  <2> QED
    BY Zenon, <1>1, <2>2, <2>3, ViewKept
<1>8. CASE Hears(s)
  <2>1. ASSUME NEW p \in Int, NEW g \in BOOLEAN, Stands(s, p, g)
        PROVE  \E p2 \in Int, g2 \in BOOLEAN :
                 /\ Moves(~Reliable, produced, terminal_event, e, p, g, p2, g2)
                 /\ Hears(s)' => Stands(s, p2, g2)'
    <3>1. -1 <= p /\ p <= produced
      BY Zenon, <2>1 DEF Stands
    <3>2. CASE e = Mark("gap") /\ (SendGap \/ SendPendingGap)
      <4>1. Mark("gap").ev = "gap"
        BY DEF Mark
      <4>2. event.ev # "chunk" /\ ~Reliable
        BY Zenon, <1>2, <3>2 DEF CoreInv, ReaderInv, EdgeInv, CountInv
      <4>3. p < produced
        BY Zenon, <1>2, <1>4, <2>1, <3>2, <4>2 DEF Stands
      <4>4. Moves(~Reliable, produced, terminal_event, e, p, g, p, TRUE)
        BY Zenon, <3>2, <4>1, <4>2, <4>3 DEF Moves
      <4>5. UNCHANGED event /\ ~gap_pending'
        BY Zenon, <3>2 DEF SendGap, SendPendingGap
      <4>6. Stands(s, p, TRUE)'
        BY Zenon, <1>1, <3>1, <4>2, <4>5 DEF Stands
      <4> QED
        BY Zenon, <4>4, <4>6
    <3>3. CASE e = event /\ SendOk /\ event.ev = "chunk"
      <4>1. /\ event.seq = produced - 1 /\ event.seq \in Nat
            /\ p < produced /\ (p = produced - 1 \/ g \/ p = -1)
        BY Zenon, <1>4, <2>1, <3>3 DEF CoreInv, ReaderInv, Stands
      <4>2. /\ event.seq >= p /\ event.seq < produced /\ event.seq + 1 = produced
            /\ -1 <= produced /\ produced <= produced
        BY <1>1, <4>1
      <4>3. Moves(~Reliable, produced, terminal_event, e, p, g, produced, FALSE)
        BY Zenon, <3>3, <4>1, <4>2 DEF Moves
      <4>4. event' = NoEvent /\ ~gap_pending'
        BY Zenon, <3>3 DEF SendOk, SendDone, CoreInv, ReaderInv
      <4>5. Stands(s, produced, FALSE)'
        BY Zenon, <1>1, <1>3, <4>2, <4>4 DEF Stands
      <4> QED
        BY Zenon, <1>1, <4>3, <4>5
    <3>4. CASE e = event /\ SendOk /\ event.ev # "chunk"
      <4>1. pc = "send" /\ pc \in {"send", "gap"}
        BY <3>4 DEF SendOk
      <4>2. IsTerminal(event) /\ event = terminal_event /\ ~gap_pending
        BY Zenon, <1>1, <3>4, <4>1, EventKinds DEF IInv, TypeInv, CoreInv, ReaderInv
      <4>3. p \in {produced, -1} \/ g
        BY Zenon, <2>1, <3>4, <4>2 DEF Stands
      <4>4. Moves(~Reliable, produced, terminal_event, e, p, g, p, g)
        BY Zenon, <3>4, <4>2, <4>3 DEF Moves
      <4>5. ~Hears(s)'
        BY Zenon, <3>4, <4>2 DEF SendOk, SendDone, Hears
      <4> QED
        BY Zenon, <4>4, <4>5
    <3> QED
      BY Zenon, <1>5, <3>2, <3>3, <3>4
  <2>2. GoesOn(s, e)
    BY Zenon, <2>1 DEF GoesOn
  <2> QED
    BY Zenon, <1>1, <1>6, <1>8, <2>2, ViewSent
<1> QED
  BY Zenon, <1>7, <1>8

\* The window leads from its first chunk to the last one produced.
LEMMA WindowLeads ==
  ASSUME CoreInv, Reliable, RetainsReplay, NEW lossy, NEW t
  PROVE  /\ Leads(lossy, produced, t, events, produced - Len(events), FALSE, produced, FALSE)
         /\ events # <<>> => Head(events).seq = produced - Len(events)
         /\ produced - Len(events) \in 0..produced
<1>1. PICK N, n : N = Len(events) /\ n = produced
  BY Zenon
<1>2. /\ WindowEdge /\ events \in Seq(Chunks) /\ n \in Int /\ N <= n
      /\ \A i \in 1..N : events[i].seq = n - N + i - 1
  BY Zenon, <1>1 DEF CoreInv, IInv, TypeInv, EdgeInv, WindowEdge
<1>3. N \in Nat /\ \A i \in 1..N : events[i] \in Chunks
  BY <1>1, <1>2
<1> DEFINE f == [i \in 0..N |-> n - N + i]
           h == [i \in 0..N |-> FALSE]
<1>4. /\ 0 \in 0..N /\ N \in 0..N /\ n - N + 0 = n - N /\ n - N + N = n
      /\ \A i \in 0..N : n - N + i \in Int
      /\ \A i \in 1..N : /\ i \in 0..N /\ i - 1 \in 0..N
                         /\ n - N + i - 1 \in Nat /\ n - N + i - 1 >= n - N + (i - 1)
                         /\ n - N + i - 1 < n /\ n - N + i - 1 = n - N + (i - 1)
                         /\ n - N + i = n - N + i - 1 + 1
  BY <1>2, <1>3
<1>5. f \in [0..N -> Int] /\ h \in [0..N -> BOOLEAN]
  BY Zenon, <1>4
<1>6. f[0] = n - N /\ h[0] = FALSE /\ f[N] = n /\ h[N] = FALSE
  BY Zenon, <1>4
<1>7. ASSUME NEW i \in 1..N PROVE Moves(lossy, n, t, events[i], f[i - 1], h[i - 1], f[i], h[i])
  <2>1. f[i - 1] = n - N + (i - 1) /\ f[i] = n - N + i /\ h[i] = FALSE
    BY Zenon, <1>4
  <2>2. events[i].ev = "chunk" /\ events[i].seq = n - N + i - 1
    BY Zenon, <1>2, <1>3, EventKinds
  <2>3. /\ events[i].seq \in Nat /\ events[i].seq >= f[i - 1] /\ events[i].seq < n /\ events[i].seq = f[i - 1]
        /\ f[i] = events[i].seq + 1
    BY Zenon, <1>4, <2>1, <2>2
  <2> HIDE DEF f, h
  <2> QED
    BY Zenon, <2>1, <2>2, <2>3 DEF Moves
<1> HIDE DEF f, h
<1>8. Leads(lossy, n, t, events, n - N, FALSE, n, FALSE)
  BY Zenon, <1>1, <1>5, <1>6, <1>7 DEF Leads
<1>9. events # <<>> => Head(events).seq = n - N
  <2>1. events # <<>> => Head(events) = events[1] /\ 1 \in 1..N /\ n - N + 1 - 1 = n - N
    BY <1>1, <1>2
  <2> QED
    BY Zenon, <1>2, <2>1
<1>10. n - N \in 0..n
  BY <1>2, <1>3
<1> QED
  BY Zenon, <1>1, <1>8, <1>9, <1>10

\* try_subscribe: the snapshot leads to the last chunk produced, or to an unsettled
\* position when a chunk that nobody recorded is still on its way to someone.
LEMMA TrySubscribeView ==
  ASSUME CoreInv, Recording, NEW s \in Subs, TrySubscribe(s), UNCHANGED policy
  PROVE  View(s)'
<1> USE DEF stateVars, watchVars, taskVars, activeVars, subVars, logVars, histVars
<1> DEFINE replay == IF RetainsReplay THEN events ELSE <<>>
<1>1. /\ IInv /\ sub[s] = "none" /\ EndInv(s) /\ s # NoSub
      /\ pos \in [Subs -> Int] /\ gapped \in [Subs -> BOOLEAN] /\ gapped[s] = FALSE
      /\ sub_replay \in [Subs -> Seq(Chunks)] /\ sub_terminal \in [Subs -> Ends \cup {NoEvent}]
      /\ produced \in Int /\ produced >= 0 /\ terminal_event \in Ends \cup {NoEvent}
  BY Zenon, NoSubIsNobody DEF TrySubscribe, NextSubscriberId, CoreInv, IInv, TypeInv, IdInv, EdgeInv, CountInv
<1>2. /\ sub_replay'[s] = replay /\ sub_terminal'[s] = terminal_event /\ gapped'[s] = FALSE
      /\ pos'[s] = IF replay # <<>> THEN Head(replay).seq ELSE IF ChunkUnderway THEN -1 ELSE produced
      /\ queue'[s] = <<>>
      /\ UNCHANGED <<produced, terminal_event, event, pc, recorded, cached_active, lag_id, gap_pending>>
  BY Zenon, <1>1 DEF TrySubscribe, EndInv
<1>3. PICK l, n, t : l = (~Reliable)' /\ n = produced' /\ t = terminal_event'
  BY Zenon
<1>4. n = produced /\ t = terminal_event /\ n \in Int /\ n >= 0 /\ -1 \in Int
  BY <1>1, <1>2, <1>3
<1>5. PICK p1 : p1 = IF replay = <<>> /\ ChunkUnderway THEN -1 ELSE n
  BY Zenon
<1>6. Leads(l, n, t, sub_replay'[s], pos'[s], gapped'[s], p1, FALSE)
  <2>1. CASE replay = <<>>
    <3>1. pos'[s] = p1 /\ p1 \in Int /\ FALSE \in BOOLEAN
      BY Zenon, <1>2, <1>4, <1>5, <2>1
    <3> QED
      <4>1. Leads(l, n, t, <<>>, p1, FALSE, p1, FALSE)
        BY Zenon, <3>1, LeadsNowhere
      <4> QED
        BY Zenon, <1>2, <2>1, <3>1, <4>1
  <2>2. CASE replay # <<>>
    <3>1. RetainsReplay /\ Reliable /\ replay = events /\ events # <<>> /\ p1 = produced
      BY Zenon, <1>4, <1>5, <2>2 DEF Recording, RetainsReplay
    <3>2. pos'[s] = produced - Len(events)
      BY Zenon, <1>2, <3>1, WindowLeads
    <3> HIDE DEF replay
    <3> QED
      BY Zenon, <1>2, <1>4, <3>1, <3>2, WindowLeads
  <2> QED
    BY Zenon, <2>1, <2>2
<1>7. p1 \in {n, -1} /\ p1 \in Int
  BY Zenon, <1>4, <1>5
<1>8. Leads(l, n, t, Rest(s)', p1, FALSE, p1, FALSE)
  <2>1. CASE terminal_event = NoEvent
    <3>1. Rest(s)' = <<>>
      BY Zenon, <1>2, <2>1 DEF Rest
    <3> QED
      <4>1. Leads(l, n, t, <<>>, p1, FALSE, p1, FALSE)
        BY Zenon, <1>7, LeadsNowhere
      <4> QED
        BY Zenon, <3>1, <4>1
  <2>2. CASE terminal_event # NoEvent
    <3>1. Rest(s)' = <<terminal_event>> /\ t \in Ends /\ IsTerminal(t) /\ t \in Events
      BY Zenon, <1>1, <1>2, <1>4, <2>2, EventKinds DEF Rest, Events
    <3>2. <<terminal_event>> = Append(<<>>, t) /\ <<>> \in Seq(Events)
      BY <1>4
    <3>3. Moves(l, n, t, t, p1, FALSE, p1, FALSE)
      BY Zenon, <1>7, <3>1 DEF Moves
    <3>4. Leads(l, n, t, <<>>, p1, FALSE, p1, FALSE)
      BY Zenon, <1>7, LeadsNowhere
    <3>5. Leads(l, n, t, Append(<<>>, t), p1, FALSE, p1, FALSE)
      BY Zenon, <1>7, <3>1, <3>2, <3>3, <3>4, LeadsOn
    <3> QED
      BY Zenon, <3>1, <3>2, <3>5
  <2> QED
    BY Zenon, <2>1, <2>2
<1>9. Stands(s, p1, FALSE)'
  <2>1. cached_active # s /\ lag_id # s
    <3>1. /\ cached_active # NoSub => sub[cached_active] # "none"
          /\ lag_id # NoSub => sub[lag_id] # "none"
      BY Zenon DEF CoreInv, IdInv
    <3>2. sub[s] = "none" /\ s # NoSub
      BY Zenon, <1>1
    <3> QED
      BY <3>1, <3>2
  <2>2. -1 <= p1 /\ p1 <= n
    BY <1>4, <1>7
  <2>3. event.ev = "chunk" /\ ~recorded /\ cached_active # NoSub => p1 = -1
    <3> SUFFICES ASSUME event.ev = "chunk", ~recorded, cached_active # NoSub PROVE p1 = -1
      BY Zenon
    <3>1. ~RetainsReplay /\ pc \in {"send", "refresh"}
      BY Zenon DEF CoreInv, ReaderInv
    <3> QED
      BY Zenon, <1>5, <3>1 DEF ChunkUnderway
  <2>4. p1 \in {-1, n}
    BY Zenon, <1>7
  <2> QED
    BY Zenon, <1>2, <1>3, <1>7, <2>1, <2>2, <2>3, <2>4 DEF Stands
<1> HIDE DEF replay
<1>10. /\ Leads((~Reliable)', produced', terminal_event', sub_replay'[s], pos'[s], gapped'[s], p1, FALSE)
      /\ Leads((~Reliable)', produced', terminal_event', Rest(s)', p1, FALSE, p1, FALSE)
  BY Zenon, <1>3, <1>6, <1>8
<1>11. FALSE \in BOOLEAN
  BY Zenon
<1> QED
  BY Zenon, <1>7, <1>9, <1>10, <1>11 DEF View

\* What next_event returns moves the subscription as its view foresees.
LEMMA ReturnsMoves ==
  ASSUME pos \in [Subs -> Int], gapped \in [Subs -> BOOLEAN], NEW s \in Subs, NEW e, Returns(s, e),
         NEW lossy, NEW n, NEW t, NEW p, NEW g, Moves(lossy, n, t, e, pos[s], gapped[s], p, g)
  PROVE  pos'[s] = p /\ gapped'[s] = g
<1>1. /\ pos'[s] = IF e.ev # "chunk" THEN pos[s] ELSE IF e.seq >= pos[s] THEN e.seq + 1 ELSE Repeated
      /\ gapped'[s] = IF IsTerminal(e) THEN gapped[s] ELSE e.ev = "gap"
  BY Zenon DEF Returns
<1>2. CASE e.ev = "chunk"
  <2>1. ~IsTerminal(e) /\ e.ev # "gap"
    BY <1>2 DEF IsTerminal, Terminals
  <2>2. e.seq >= pos[s] /\ p = e.seq + 1 /\ g = FALSE
    BY Zenon, <1>2, <2>1 DEF Moves
  <2> QED
    BY Zenon, <1>1, <1>2, <2>1, <2>2
<1>3. CASE e.ev = "gap"
  <2>1. ~IsTerminal(e) /\ e.ev # "chunk"
    BY <1>3 DEF IsTerminal, Terminals
  <2> QED
    BY Zenon, <1>1, <1>3, <2>1 DEF Moves
<1>4. CASE IsTerminal(e)
  <2>1. e.ev # "chunk" /\ e.ev # "gap"
    BY <1>4 DEF IsTerminal, Terminals
  <2> QED
    BY Zenon, <1>1, <1>4, <2>1 DEF Moves
<1> QED
  BY Zenon, <1>2, <1>3, <1>4 DEF Moves

\* next_event returns what its view foresees, and what is left leads on.
LEMMA RecvMoves ==
  ASSUME CoreInv, NEW s \in Subs, View(s), RecvReplay(s) \/ RecvTerminal(s) \/ RecvLive(s), UNCHANGED policy
  PROVE  \E e \in Events, p2 \in Int, g2 \in BOOLEAN :
           /\ Returns(s, e)
           /\ Moves(~Reliable, produced, terminal_event, e, pos[s], gapped[s], p2, g2)
           /\ IF RecvTerminal(s) THEN IsTerminal(e) ELSE View(s)'
<1> USE DEF stateVars, watchVars, taskVars, activeVars, subVars, logVars, histVars
<1>1. /\ IInv /\ pos \in [Subs -> Int] /\ gapped \in [Subs -> BOOLEAN]
      /\ sub_replay \in [Subs -> Seq(Chunks)] /\ queue \in [Subs -> Seq(Events)]
      /\ sub_terminal \in [Subs -> Ends \cup {NoEvent}]
      /\ pos[s] \in Int /\ gapped[s] \in BOOLEAN
  BY Zenon DEF CoreInv, IInv, TypeInv, IdInv
<1>2. PICK p1 \in Int, g1 \in BOOLEAN, p \in Int, g \in BOOLEAN :
        /\ Leads(~Reliable, produced, terminal_event, sub_replay[s], pos[s], gapped[s], p1, g1)
        /\ Leads(~Reliable, produced, terminal_event, Rest(s), p1, g1, p, g)
        /\ Hears(s) => Stands(s, p, g)
  BY Zenon DEF View
<1>3. sub_replay[s] \in Seq(Events) /\ queue[s] \in Seq(Events)
  BY Zenon, <1>1, HeldAreEvents
<1>4. PICK l, n, t : l = ~Reliable /\ n = produced /\ t = terminal_event
  BY Zenon
<1>5. /\ Leads(l, n, t, sub_replay[s], pos[s], gapped[s], p1, g1)
      /\ Leads(l, n, t, Rest(s), p1, g1, p, g)
  BY Zenon, <1>2, <1>4
<1>6. (~Reliable)' = l /\ UNCHANGED <<produced, terminal_event, event, pc, recorded, cached_active, lag_id, gap_pending, active_id>>
  BY Zenon, <1>4 DEF Reliable, RecvReplay, RecvTerminal, RecvLive
<1>7. sub_replay[s] = <<>> => p1 = pos[s] /\ g1 = gapped[s]
  <2> SUFFICES ASSUME sub_replay[s] = <<>> PROVE p1 = pos[s] /\ g1 = gapped[s]
    BY Zenon
  <2>1. Leads(l, n, t, <<>>, pos[s], gapped[s], p1, g1)
    BY Zenon, <1>5
  <2> QED
    BY Zenon, <2>1, NowhereElse
<1>8. CASE RecvReplay(s)
  <2>1. /\ sub_replay[s] # <<>> /\ sub_replay'[s] = Tail(sub_replay[s]) /\ Returns(s, Head(sub_replay[s]))
        /\ Rest(s)' = Rest(s) /\ UNCHANGED sub_terminal
    BY Zenon, <1>1, <1>8 DEF RecvReplay, Rest
  <2>2. PICK p2 \in Int, g2 \in BOOLEAN :
          /\ Moves(l, n, t, Head(sub_replay[s]), pos[s], gapped[s], p2, g2)
          /\ Leads(l, n, t, Tail(sub_replay[s]), p2, g2, p1, g1)
    <3>1. PICK q, a, b : q = sub_replay[s] /\ a = pos[s] /\ b = gapped[s]
      BY Zenon
    <3>2. q \in Seq(Events) /\ q # <<>> /\ Leads(l, n, t, q, a, b, p1, g1)
      BY Zenon, <1>3, <1>5, <2>1, <3>1
    <3>3. FirstLeads(l, n, t, q, a, b, p1, g1)
      BY Zenon, <3>2, LeadsFirst
    <3> QED
      BY Zenon, <3>1, <3>3 DEF FirstLeads
  <2>3. pos'[s] = p2 /\ gapped'[s] = g2
    BY Zenon, <1>1, <2>1, <2>2, ReturnsMoves
  <2>4. Hears(s)' => Stands(s, p, g)'
    BY Zenon, <1>2, <1>6, <2>1 DEF Hears, Stands
  <2>5. /\ Leads((~Reliable)', produced', terminal_event', sub_replay'[s], pos'[s], gapped'[s], p1, g1)
        /\ Leads((~Reliable)', produced', terminal_event', Rest(s)', p1, g1, p, g)
    BY Zenon, <1>4, <1>5, <1>6, <2>1, <2>2, <2>3
  <2>6. View(s)'
    BY Zenon, <2>4, <2>5 DEF View
  <2>7. Head(sub_replay[s]) \in Events /\ ~RecvTerminal(s)
    BY Zenon, <1>3, <2>1, TakenHead DEF RecvTerminal
  <2> QED
    BY Zenon, <1>4, <2>1, <2>2, <2>6, <2>7
<1>9. CASE RecvLive(s)
  <2>1. /\ queue[s] # <<>> /\ queue'[s] = Tail(queue[s]) /\ Returns(s, Head(queue[s]))
        /\ Rest(s) = queue[s] /\ Rest(s)' = Tail(queue[s]) /\ sub_terminal[s] = NoEvent
        /\ sub_replay[s] = <<>> /\ UNCHANGED <<sub_replay, sub_terminal>>
    BY Zenon, <1>1, <1>9 DEF RecvLive, Rest
  <2>2. PICK p2 \in Int, g2 \in BOOLEAN :
          Moves(l, n, t, Head(queue[s]), pos[s], gapped[s], p2, g2) /\ Leads(l, n, t, Tail(queue[s]), p2, g2, p, g)
    <3>1. Leads(l, n, t, queue[s], pos[s], gapped[s], p, g)
      BY Zenon, <1>5, <1>7, <2>1
    <3>2. PICK q, a, b : q = queue[s] /\ a = pos[s] /\ b = gapped[s]
      BY Zenon
    <3>3. q \in Seq(Events) /\ q # <<>> /\ Leads(l, n, t, q, a, b, p, g)
      BY Zenon, <1>3, <2>1, <3>1, <3>2
    <3>4. FirstLeads(l, n, t, q, a, b, p, g)
      BY Zenon, <3>3, LeadsFirst
    <3> QED
      BY Zenon, <3>2, <3>4 DEF FirstLeads
  <2>3. pos'[s] = p2 /\ gapped'[s] = g2
    BY Zenon, <1>1, <2>1, <2>2, ReturnsMoves
  <2>4. Hears(s)' => Stands(s, p, g)'
    BY Zenon, <1>2, <1>6, <2>1 DEF Hears, Stands
  <2>5. Leads(l, n, t, <<>>, p2, g2, p2, g2)
    BY Zenon, <2>2, LeadsNowhere
  <2>6. /\ Leads((~Reliable)', produced', terminal_event', sub_replay'[s], pos'[s], gapped'[s], p2, g2)
        /\ Leads((~Reliable)', produced', terminal_event', Rest(s)', p2, g2, p, g)
    BY Zenon, <1>4, <1>6, <2>1, <2>2, <2>3, <2>5
  <2>7. View(s)'
    BY Zenon, <2>4, <2>6 DEF View
  <2>8. Head(queue[s]) \in Events /\ ~RecvTerminal(s)
    BY Zenon, <1>3, <2>1, TakenHead DEF RecvTerminal
  <2> QED
    BY Zenon, <1>4, <2>1, <2>2, <2>7, <2>8
<1>10. CASE RecvTerminal(s)
  <2>1. /\ sub_terminal[s] # NoEvent /\ Returns(s, sub_terminal[s]) /\ Rest(s) = <<sub_terminal[s]>>
        /\ sub_replay[s] = <<>>
    BY Zenon, <1>10 DEF RecvTerminal, Rest
  <2>2. sub_terminal[s] \in Events /\ IsTerminal(sub_terminal[s])
    BY Zenon, <1>1, <2>1, EventKinds DEF Events
  <2>3. <<sub_terminal[s]>> \in Seq(Events) /\ <<sub_terminal[s]>> # <<>> /\ Head(<<sub_terminal[s]>>) = sub_terminal[s]
    BY <2>2
  <2>4. Leads(l, n, t, <<sub_terminal[s]>>, pos[s], gapped[s], p, g)
    BY Zenon, <1>5, <1>7, <2>1
  <2>5. PICK p2 \in Int, g2 \in BOOLEAN : Moves(l, n, t, Head(<<sub_terminal[s]>>), pos[s], gapped[s], p2, g2)
    <3>1. FirstLeads(l, n, t, <<sub_terminal[s]>>, pos[s], gapped[s], p, g)
      BY Zenon, <2>3, <2>4, LeadsFirst
    <3> QED
      BY Zenon, <3>1 DEF FirstLeads
  <2> QED
    BY Zenon, <1>4, <1>10, <2>1, <2>2, <2>3, <2>5
<1> QED
  BY Zenon, <1>8, <1>9, <1>10

\* What the owners of the subscriptions and of the stream do keeps every view.
LEMMA OutsideKeepsView ==
  ASSUME CoreInv, ViewInv, NEW s \in Subs, Consuming(s)', UNCHANGED policy,
         \/ SealReplay \/ DropStream \/ ClearActive
         \/ \E t \in Subs : TrySubscribe(t) \/ Recv(t) \/ DropReceiver(t) \/ DropDeregisters(t)
  PROVE  View(s)'
<1> USE DEF stateVars, watchVars, taskVars, activeVars, subVars, logVars, histVars
<1>1. /\ IInv /\ produced \in Int /\ s # NoSub
      /\ sub \in [Subs -> {"none", "open", "dropping", "dropped"}]
      /\ sub_replay \in [Subs -> Seq(Chunks)] /\ sub_terminal \in [Subs -> Ends \cup {NoEvent}]
      /\ queue \in [Subs -> Seq(Events)] /\ outcome \in [Subs -> {"open", "eof", "error", "none"}]
      /\ pos \in [Subs -> Int] /\ gapped \in [Subs -> BOOLEAN]
  BY Zenon, NoSubIsNobody DEF CoreInv, IInv, TypeInv, IdInv
<1>2. UNCHANGED <<produced, terminal_event, event, pc, recorded, cached_active, lag_id, gap_pending>>
  BY Zenon DEF SealReplay, DropStream, ClearActive, TrySubscribe, Recv, RecvReplay, RecvTerminal, RecvLive,
     RecvNone, DropReceiver, DropDeregisters
<1>3. ASSUME View(s), sub_replay'[s] = sub_replay[s], sub_terminal'[s] = sub_terminal[s], queue'[s] = queue[s],
             pos'[s] = pos[s], gapped'[s] = gapped[s], active_id' \in {active_id, NoSub}
      PROVE  View(s)'
  <2>1. Rest(s)' = Rest(s)
    BY Zenon, <1>3 DEF Rest
  <2>2. Hears(s)' => Hears(s)
    BY Zenon, <1>1, <1>2, <1>3 DEF Hears
  <2>3. \A p \in Int, g \in BOOLEAN : Stands(s, p, g) => Stands(s, p, g)'
    BY Zenon, <1>2 DEF Stands
  <2>4. produced' \in Int
    BY Zenon, <1>1, <1>2
  <2> QED
    BY Zenon, <1>1, <1>2, <1>3, <2>1, <2>2, <2>3, <2>4, ViewKept
<1>4. CASE SealReplay \/ DropStream \/ ClearActive
  <2>1. /\ UNCHANGED <<sub, outcome, sub_replay, sub_terminal, queue, pos, gapped>>
        /\ active_id' \in {active_id, NoSub}
    BY Zenon, <1>4 DEF SealReplay, DropStream, ClearActive
  <2>2. View(s)
    BY Zenon, <2>1 DEF Consuming, ViewInv
  <2> QED
    BY Zenon, <1>3, <2>1, <2>2
<1>5. ASSUME NEW t \in Subs, TrySubscribe(t) PROVE View(s)'
  <2>1. CASE s = t
    BY Zenon, <1>5, <2>1, TrySubscribeView DEF ViewInv
  <2>2. CASE s # t
    <3>1. /\ UNCHANGED outcome /\ sub' = [sub EXCEPT ![t] = "open"] /\ stream = "alive" /\ active_id = NoSub
      BY Zenon, <1>5 DEF TrySubscribe
    <3>2. sub'[s] = sub[s]
      BY Zenon, <1>1, <2>2, <3>1
    <3>3. Consuming(s)
      BY Zenon, <3>1, <3>2 DEF Consuming
    <3> QED
      BY Zenon, <1>1, <3>1, <3>3 DEF IInv, ConsumerInv
  <2> QED
    BY Zenon, <2>1, <2>2
<1>6. ASSUME NEW t \in Subs, DropReceiver(t) \/ DropDeregisters(t) PROVE View(s)'
  <2>1. /\ UNCHANGED <<outcome, pos, gapped>> /\ active_id' \in {active_id, NoSub}
        /\ \E x \in {"dropping", "dropped"} : sub' = [sub EXCEPT ![t] = x]
        /\ UNCHANGED sub_replay \/ sub_replay' = [sub_replay EXCEPT ![t] = <<>>]
        /\ UNCHANGED sub_terminal \/ sub_terminal' = [sub_terminal EXCEPT ![t] = NoEvent]
        /\ UNCHANGED queue \/ queue' = [queue EXCEPT ![t] = <<>>]
    BY Zenon, <1>6 DEF DropReceiver, DropDeregisters, ClearActiveIfCurrent
  <2>2. s # t
    <3>1. sub'[t] # "open"
      BY <1>1, <2>1
    <3> QED
      BY Zenon, <3>1 DEF Consuming
  <2>3. sub'[s] = sub[s] /\ sub_replay'[s] = sub_replay[s] /\ sub_terminal'[s] = sub_terminal[s] /\ queue'[s] = queue[s]
    BY Zenon, <1>1, <2>1, <2>2
  <2>4. View(s)
    BY Zenon, <2>1, <2>3 DEF Consuming, ViewInv
  <2> QED
    BY Zenon, <1>3, <2>1, <2>3, <2>4
<1>7. ASSUME NEW t \in Subs, Recv(t) PROVE View(s)'
  <2>1. /\ Consuming(t)' => Consuming(t)
        /\ \A r \in Subs \ {t} : outcome'[r] = outcome[r]
        /\ UNCHANGED sub /\ sub[t] = "open"
    BY Zenon, <1>1, <1>7, OutcomeMoves
  <2>2. View(s)
    BY Zenon, <2>1 DEF Consuming, ViewInv
  <2>3. CASE s # t
    <3>1. /\ UNCHANGED active_id
          /\ UNCHANGED sub_replay \/ sub_replay' = [sub_replay EXCEPT ![t] = Tail(sub_replay[t])]
          /\ UNCHANGED sub_terminal \/ sub_terminal' = [sub_terminal EXCEPT ![t] = NoEvent]
          /\ \E x : UNCHANGED queue \/ queue' = [queue EXCEPT ![t] = x]
      BY Zenon, <1>7 DEF Recv, RecvReplay, RecvTerminal, RecvLive, RecvNone
    <3>2. sub_replay'[s] = sub_replay[s] /\ sub_terminal'[s] = sub_terminal[s] /\ queue'[s] = queue[s]
      BY Zenon, <1>1, <2>3, <3>1
    <3>3. pos'[s] = pos[s] /\ gapped'[s] = gapped[s]
      BY Zenon, <1>1, <1>7, <2>3, RecvReturns, ReturnsTypes DEF RecvNone
    <3> QED
      BY Zenon, <1>3, <2>2, <3>1, <3>2, <3>3
  <2>4. CASE s = t
    <3>1. CASE RecvNone(s)
      <4>1. outcome'[s] = IF outcome[s] = "open" THEN "none" ELSE outcome[s]
        BY Zenon, <1>1, <3>1 DEF RecvNone
      <4>2. outcome'[s] # "open"
        BY <4>1
      <4> QED
        BY Zenon, <4>2 DEF Consuming
    <3>2. CASE RecvReplay(s) \/ RecvTerminal(s) \/ RecvLive(s)
      <4>1. PICK e \in Events : Returns(s, e) /\ IF RecvTerminal(s) THEN IsTerminal(e) ELSE View(s)'
        BY Zenon, <2>2, <3>2, RecvMoves
      <4>2. CASE IsTerminal(e)
        <5>1. outcome'[s] = e.ev
          BY Zenon, <1>1, <4>1, <4>2 DEF Returns
        <5>2. e.ev # "open"
          BY <4>2 DEF IsTerminal, Terminals
        <5> QED
          BY Zenon, <5>1, <5>2 DEF Consuming
      <4> QED
        BY Zenon, <4>1, <4>2
    <3> QED
      BY Zenon, <1>7, <2>4, <3>1, <3>2 DEF Recv
  <2> QED
    BY Zenon, <2>3, <2>4
<1> QED
  BY Zenon, <1>4, <1>5, <1>6, <1>7

\* Every step keeps every consumer's view of the stream.
LEMMA NextKeepsView ==
  ASSUME CoreInv, ViewInv, [Next]_<<policy, vars>>
  PROVE  ViewInv'
<1> USE DEF stateVars, watchVars, taskVars, activeVars, subVars, logVars, histVars
<1>1. CASE UNCHANGED <<policy, vars>>
  <2>1. UNCHANGED <<policy, stateVars, watchVars, taskVars, activeVars, subVars, logVars, histVars>>
    BY Zenon, <1>1 DEF vars
  <2>2. Recording'
    BY Zenon, <2>1 DEF ViewInv, Recording, Reliable, Retention
  <2>3. ASSUME NEW s \in Subs, Consuming(s)' PROVE View(s)'
    <3>1. View(s)
      BY Zenon, <2>1, <2>3 DEF ViewInv, Consuming
    <3>2. Rest(s)' = Rest(s) /\ (Hears(s)' => Hears(s))
      BY Zenon, <2>1 DEF Rest, Hears
    <3>3. \A p \in Int, g \in BOOLEAN : Stands(s, p, g) => Stands(s, p, g)'
      BY Zenon, <2>1 DEF Stands
    <3>4. IInv /\ produced \in Int /\ produced' \in Int
      BY Zenon, <2>1 DEF CoreInv, IInv, TypeInv
    <3> QED
      BY Zenon, <2>1, <3>1, <3>2, <3>3, <3>4, ViewKept
  <2> QED
    BY Zenon, <2>2, <2>3 DEF ViewInv
<1>2. CASE Operation /\ UNCHANGED policy
  <2>1. Recording'
    BY Zenon, <1>2 DEF ViewInv, Recording, Reliable, Retention
  <2>2. ASSUME NEW s \in Subs, Consuming(s)' PROVE View(s)'
    <3>1. CASE Reader \/ ReadReturns \/ ReaderCancelled
      <4>1. Consuming(s)
        BY Zenon, <2>2, <3>1, ReaderMoves DEF Consuming
      <4>2. View(s)
        BY Zenon, <4>1 DEF ViewInv
      <4> QED
        BY Zenon, <1>2, <3>1, <4>1, <4>2, ReadKeepsView, SplitKeepsView, GapFullKeepsView, UnsentKeepsView,
           RefreshKeepsView, SendKeepsView DEF Reader, ReadReturns
    <3> QED
      BY Zenon, <1>2, <2>2, <3>1, OutsideKeepsView DEF Operation
  <2> QED
    BY Zenon, <2>1, <2>2 DEF ViewInv
<1> QED
  BY Zenon, <1>1, <1>2 DEF Next, Finished

-----------------------------------------------------------------------------
(* The refinement *)

Phases == [s \in Subs |-> Phase(s)]

Ended == IF terminal_event = NoEvent THEN "no" ELSE terminal_event.ev

\* Where nobody attaches, ends or leaves, no phase changes; where s does, only its
\* own.
LEMMA PhaseSteps ==
  /\ UNCHANGED <<sub, outcome>> => UNCHANGED Phases
  /\ \A s \in Subs :
       (\A t \in Subs \ {s} : sub'[t] = sub[t] /\ outcome'[t] = outcome[t]) =>
         Phases' = [Phases EXCEPT ![s] = Phase(s)']
<1>1. UNCHANGED <<sub, outcome>> => UNCHANGED Phases
  BY Zenon DEF Phases, Phase
<1>2. ASSUME NEW s \in Subs, \A t \in Subs \ {s} : sub'[t] = sub[t] /\ outcome'[t] = outcome[t]
      PROVE  Phases' = [Phases EXCEPT ![s] = Phase(s)']
  <2>1. ASSUME NEW t \in Subs \ {s} PROVE Phase(t)' = Phase(t)
    BY Zenon, <1>2 DEF Phase
  <2> QED
    BY Zenon, <2>1 DEF Phases
<1> QED
  BY Zenon, <1>1, <1>2

\* A step that changes nothing an EventStream shows.
LEMMA Unseen ==
  ASSUME UNCHANGED <<policy, produced, terminal_event, sub, outcome, pos, gapped>>,
         (stream' # "alive") = (stream # "alive")
  PROVE  UNCHANGED ES!vars
<1>1. UNCHANGED <<produced, pos, gapped, Phases>> /\ UNCHANGED Ended /\ UNCHANGED (~Reliable)
  BY Zenon, PhaseSteps DEF Ended, Reliable
<1> QED
  BY Zenon, <1>1 DEF ES!vars, Phases, Ended

\* record_event ingests chunks and finishes the stream, a full subscriber makes the
\* reader number what it discards, and the rest of the reader's work does not show.
LEMMA ReaderRefines ==
  ASSUME CoreInv, UNCHANGED policy, Reader \/ ReadReturns \/ ReaderCancelled
  PROVE  ES!Next \/ UNCHANGED ES!vars
<1> USE DEF stateVars, watchVars, taskVars, activeVars, subVars, logVars, histVars
<1>1. UNCHANGED <<stream, sub, outcome, pos, gapped, Phases>> /\ UNCHANGED (~Reliable) /\ UNCHANGED (stream # "alive")
  BY Zenon, ReaderMoves, PhaseSteps DEF Reliable
<1>2. produced \in Nat
  <2>1. produced \in Int /\ produced >= 0
    BY Zenon DEF CoreInv, IInv, TypeInv, EdgeInv, CountInv
  <2> QED
    BY <2>1
<1>3. CASE terminal_event = NoEvent /\ UNCHANGED terminal_event /\ produced' \in Nat /\ produced' > produced
  <2>1. Ended = "no" /\ Ended' = "no"
    BY Zenon, <1>3 DEF Ended
  <2>2. ES!Ingest
    BY Zenon, <1>1, <1>3, <2>1 DEF ES!Ingest, Phases, Ended
  <2> QED
    BY Zenon, <1>1, <2>2 DEF ES!Next
<1>4. CASE UNCHANGED <<produced, terminal_event>>
  BY Zenon, <1>1, <1>4, Unseen
<1>5. CASE SplitChunk
  <2>1. terminal_event = NoEvent /\ UNCHANGED terminal_event /\ produced' = produced + 1
    BY Zenon, <1>5, SplitIsChunk
  <2>2. produced' \in Nat /\ produced' > produced
    BY <1>2, <2>1
  <2> QED
    BY Zenon, <1>3, <2>1, <2>2
<1>6. CASE SendGapFull
  <2>1. /\ pc = "chunk" /\ UNCHANGED terminal_event /\ buf \in Int /\ buf >= 0
        /\ produced' = produced + (buf + ReadChunkSize - 1) \div ReadChunkSize
    BY Zenon, <1>6 DEF SendGapFull, CoreInv, IInv, TypeInv, EdgeInv, CountInv
  <2>2. terminal_event = NoEvent
    <3>1. pc \in {"read", "chunk", "yield"}
      BY <2>1
    <3> QED
      BY Zenon, <3>1, IdleReader
  <2>3. PICK n, d : n = buf + ReadChunkSize - 1 /\ d = ReadChunkSize
    BY Zenon
  <2>4. n \in Nat /\ d \in Nat \ {0}
    BY <2>1, <2>3, ConfigAssumption
  <2>5. PICK k : k = n \div d
    BY Zenon
  <2>6. k \in Nat
    BY <2>4, <2>5
  <2>7. produced' = produced + k
    BY Zenon, <2>1, <2>3, <2>5
  <2>8. produced' \in Nat /\ (produced' > produced \/ produced' = produced)
    BY <1>2, <2>6, <2>7
  <2> QED
    BY Zenon, <1>3, <1>4, <2>1, <2>2, <2>8
<1>7. ASSUME NEW kind \in Terminals, RecordTerminal(kind) PROVE ES!Next
  <2>1. terminal_event = NoEvent /\ terminal_event' = Mark(kind) /\ Mark(kind) \in Ends /\ UNCHANGED produced
    BY Zenon, <1>7, RecordedTerminal
  <2>2. Mark(kind).ev = kind /\ Mark(kind) # NoEvent
    BY <2>1, EventKinds DEF Mark, Events, Ends
  <2>3. Ended = "no" /\ Ended' = kind
    BY Zenon, <2>1, <2>2 DEF Ended
  <2>4. ES!Finish
    BY Zenon, <1>1, <2>1, <2>3 DEF ES!Finish, ES!Terminals, Terminals, Phases, Ended
  <2> QED
    BY Zenon, <1>1, <2>4 DEF ES!Next
<1>8. CASE \/ ActiveChanged \/ SendGap \/ SendPendingGap \/ Inactive \/ SendOk \/ SendFull \/ Yielded
           \/ SendClosed \/ Refresh \/ ReaderCancelled \/ \E n \in 1..MaxRead : ReadBytes(n)
  BY Zenon, <1>4, <1>8 DEF ActiveChanged, SendGap, SendPendingGap, Inactive, SendOk, SendFull, Yielded,
     SendClosed, Refresh, ReaderCancelled, ReadBytes
<1> QED
  BY Zenon, <1>5, <1>6, <1>7, <1>8 DEF Reader, ReadReturns

\* What next_event returns is what an EventStream lets the subscription observe.
LEMMA ReturnsRefine ==
  ASSUME CoreInv, NEW s \in Subs, NEW e \in Events, Returns(s, e), Consuming(s),
         UNCHANGED <<policy, produced, terminal_event, stream, sub>>,
         NEW p2, NEW g2, Moves(~Reliable, produced, terminal_event, e, pos[s], gapped[s], p2, g2)
  PROVE  ES!Next
<1>1. /\ pos \in [Subs -> Int] /\ gapped \in [Subs -> BOOLEAN] /\ pos[s] \in Int /\ produced \in Int
      /\ outcome \in [Subs -> {"open", "eof", "error", "none"}]
  BY Zenon DEF CoreInv, IInv, TypeInv, IdInv
<1>2. UNCHANGED Ended /\ UNCHANGED (stream # "alive") /\ UNCHANGED (~Reliable)
  BY Zenon DEF Ended, Reliable
<1>3. /\ outcome' = [outcome EXCEPT ![s] = IF IsTerminal(e) THEN e.ev ELSE outcome[s]]
      /\ outcome'[s] = IF IsTerminal(e) THEN e.ev ELSE outcome[s]
      /\ pos' = [pos EXCEPT ![s] = IF e.ev # "chunk" THEN pos[s] ELSE IF e.seq >= pos[s] THEN e.seq + 1 ELSE Repeated]
      /\ gapped' = [gapped EXCEPT ![s] = IF IsTerminal(e) THEN gapped[s] ELSE e.ev = "gap"]
  BY Zenon, <1>1 DEF Returns
<1>4. Phases' = [Phases EXCEPT ![s] = Phase(s)'] /\ Phases[s] = "open" /\ Phases = [Phases EXCEPT ![s] = "open"]
  <2>1. \A t \in Subs \ {s} : sub'[t] = sub[t] /\ outcome'[t] = outcome[t]
    BY Zenon, <1>1, <1>3
  <2>2. Phase(s) = "open"
    <3>1. sub[s] = "open" /\ outcome[s] = "open" /\ "open" # "none" /\ "open" \notin {"dropping", "dropped"}
      BY DEF Consuming
    <3> QED
      BY Zenon, <3>1 DEF Phase
  <2> QED
    BY Zenon, <2>1, <2>2, PhaseSteps DEF Phases
<1>5. Phase(s)' = IF IsTerminal(e) THEN "ended" ELSE "open"
  <2>1. /\ sub'[s] = "open" /\ outcome[s] = "open" /\ "open" # "none" /\ "open" \notin {"dropping", "dropped"}
        /\ IsTerminal(e) => e.ev # "open"
    BY DEF Consuming, IsTerminal, Terminals
  <2> QED
    BY Zenon, <1>3, <2>1 DEF Phase
<1>6. CASE e.ev = "chunk"
  <2>1. ~IsTerminal(e) /\ (e.ev = "gap") = FALSE
    BY <1>6 DEF IsTerminal, Terminals
  <2>2. /\ e.seq \in Nat /\ e.seq >= pos[s] /\ e.seq < produced
        /\ e.seq = pos[s] \/ gapped[s] \/ pos[s] = -1
    BY Zenon, <1>6, <2>1 DEF Moves
  <2>3. pos' = [pos EXCEPT ![s] = e.seq + 1] /\ gapped' = [gapped EXCEPT ![s] = FALSE]
    BY Zenon, <1>3, <1>6, <2>1, <2>2
  <2>4. e.seq \in pos[s]..(produced - 1) /\ e.seq >= 0
    BY <1>1, <2>2
  <2>5. UNCHANGED Phases
    BY Zenon, <1>4, <1>5, <2>1
  <2>6. ES!ObserveChunk(s)
    BY Zenon, <1>2, <1>4, <2>2, <2>3, <2>4, <2>5 DEF ES!ObserveChunk, ES!Unsettled, Phases, Ended
  <2> QED
    BY Zenon, <1>2, <2>6 DEF ES!Next, ES!Observe
<1>7. CASE e.ev = "gap"
  <2>1. ~IsTerminal(e) /\ e.ev # "chunk" /\ (e.ev = "gap") = TRUE
    BY <1>7 DEF IsTerminal, Terminals
  <2>2. ~Reliable /\ pos[s] < produced
    BY Zenon, <1>7, <2>1 DEF Moves
  <2>3. pos' = pos /\ gapped' = [gapped EXCEPT ![s] = TRUE]
    BY Zenon, <1>1, <1>3, <2>1
  <2>4. UNCHANGED Phases
    BY Zenon, <1>4, <1>5, <2>1
  <2>5. ES!ObserveGap(s)
    BY Zenon, <1>2, <1>4, <2>2, <2>3, <2>4 DEF ES!ObserveGap, Phases, Ended
  <2> QED
    BY Zenon, <1>2, <2>5 DEF ES!Next, ES!Observe
<1>8. CASE IsTerminal(e)
  <2>1. e.ev # "chunk" /\ e.ev # "gap" /\ ~IsTerminal(NoEvent)
    BY <1>8 DEF IsTerminal, Terminals, NoEvent, Mark
  <2>2. e = terminal_event /\ (pos[s] \in {produced, -1} \/ gapped[s])
    BY Zenon, <1>8, <2>1 DEF Moves
  <2>3. pos' = pos /\ gapped' = gapped
    BY Zenon, <1>1, <1>3, <1>8, <2>1
  <2>4. Ended \in Terminals
    BY Zenon, <1>8, <2>1, <2>2 DEF Ended, IsTerminal
  <2>5. Phases' = [Phases EXCEPT ![s] = "ended"]
    BY Zenon, <1>4, <1>5, <1>8
  <2>6. ES!ObserveEnd(s)
    BY Zenon, <1>2, <1>4, <2>2, <2>3, <2>4, <2>5 DEF ES!ObserveEnd, ES!Terminals, ES!Unsettled, Terminals, Phases, Ended
  <2> QED
    BY Zenon, <1>2, <2>6 DEF ES!Next, ES!Observe
<1> QED
  BY Zenon, <1>6, <1>7, <1>8 DEF Moves

\* next_event: an event of the snapshot or of the channel is observed; None is the end
\* after the drop of the stream, or a repetition that does not show.
LEMMA RecvRefines ==
  ASSUME CoreInv, ViewInv, UNCHANGED policy, NEW s \in Subs, Recv(s)
  PROVE  ES!Next \/ UNCHANGED ES!vars
<1> USE DEF stateVars, watchVars, taskVars, activeVars, subVars, logVars, histVars
<1>1. /\ UNCHANGED <<produced, terminal_event, stream, sub>> /\ sub[s] = "open"
      /\ IInv /\ outcome \in [Subs -> {"open", "eof", "error", "none"}]
  BY Zenon DEF Recv, RecvReplay, RecvTerminal, RecvLive, RecvNone, CoreInv, IInv, TypeInv
<1>2. CASE outcome[s] # "open"
  <2>1. sub_replay[s] = <<>> /\ sub_terminal[s] = NoEvent /\ queue[s] = <<>>
    <3>1. outcome[s] \in Terminals \/ outcome[s] = "none"
      BY <1>1, <1>2 DEF Terminals
    <3> QED
      BY Zenon, <3>1 DEF CoreInv, IInv, EndInv, ServiceInv
  <2>2. RecvNone(s)
    BY Zenon, <2>1 DEF Recv, RecvReplay, RecvTerminal, RecvLive
  <2>3. UNCHANGED <<pos, gapped>> /\ outcome' = [outcome EXCEPT ![s] = outcome[s]]
    BY Zenon, <1>2, <2>2 DEF RecvNone
  <2>4. outcome' = outcome
    BY Zenon, <1>1, <2>3
  <2> QED
    BY Zenon, <1>1, <2>3, <2>4, Unseen
<1>3. CASE outcome[s] = "open" /\ RecvNone(s)
  <2>1. /\ Consuming(s) /\ outcome' = [outcome EXCEPT ![s] = "none"] /\ UNCHANGED <<pos, gapped>>
        /\ ~receiver[s] \/ active_id # s
    BY Zenon, <1>1, <1>3 DEF RecvNone, Consuming
  <2>2. stream # "alive"
    BY Zenon, <1>1, <2>1 DEF IInv, ConsumerInv
  <2>3. UNCHANGED Ended /\ UNCHANGED (stream # "alive") /\ UNCHANGED (~Reliable)
    BY Zenon, <1>1 DEF Ended, Reliable
  <2>4. Phases[s] = "open" /\ Phase(s)' = "ended"
    <3>1. /\ outcome'[s] = "none" /\ "none" # "open" /\ "open" # "none" /\ "open" \notin {"dropping", "dropped"}
          /\ sub'[s] = "open"
      BY <1>1, <2>1
    <3> QED
      BY Zenon, <1>1, <1>3, <3>1 DEF Phases, Phase
  <2>5. Phases' = [Phases EXCEPT ![s] = "ended"]
    <3>1. \A t \in Subs \ {s} : sub'[t] = sub[t] /\ outcome'[t] = outcome[t]
      BY Zenon, <1>1, <2>1
    <3> QED
      BY Zenon, <2>4, <3>1, PhaseSteps
  <2>6. ES!ObserveCut(s)
    BY Zenon, <1>1, <2>1, <2>2, <2>3, <2>4, <2>5 DEF ES!ObserveCut, Phases, Ended
  <2> QED
    BY Zenon, <2>3, <2>6 DEF ES!Next, ES!Observe
<1>4. CASE outcome[s] = "open" /\ (RecvReplay(s) \/ RecvTerminal(s) \/ RecvLive(s))
  <2>1. Consuming(s) /\ View(s)
    BY Zenon, <1>1, <1>4 DEF Consuming, ViewInv
  <2>2. PICK e \in Events, p2 \in Int, g2 \in BOOLEAN :
          Returns(s, e) /\ Moves(~Reliable, produced, terminal_event, e, pos[s], gapped[s], p2, g2)
    BY Zenon, <1>4, <2>1, RecvMoves
  <2> QED
    BY Zenon, <1>1, <2>1, <2>2, ReturnsRefine
<1> QED
  BY Zenon, <1>2, <1>3, <1>4 DEF Recv

\* try_subscribe attaches, the drop of a subscription leaves, the drop of the stream
\* cuts it, and the rest of the drops and the sealing do not show.
LEMMA OwnersRefine ==
  ASSUME CoreInv, ViewInv, UNCHANGED policy,
         \/ SealReplay \/ DropStream \/ ClearActive
         \/ \E s \in Subs : TrySubscribe(s) \/ DropReceiver(s) \/ DropDeregisters(s)
  PROVE  ES!Next \/ UNCHANGED ES!vars
<1> USE DEF stateVars, watchVars, taskVars, activeVars, subVars, logVars, histVars
<1>1. /\ UNCHANGED <<produced, terminal_event, gapped, outcome>> /\ UNCHANGED Ended /\ UNCHANGED (~Reliable)
      /\ sub \in [Subs -> {"none", "open", "dropping", "dropped"}] /\ produced \in Int /\ produced >= 0
      /\ outcome \in [Subs -> {"open", "eof", "error", "none"}]
  BY Zenon DEF SealReplay, DropStream, ClearActive, TrySubscribe, DropReceiver, DropDeregisters, Ended, Reliable,
     CoreInv, IInv, TypeInv, EdgeInv, CountInv
<1>2. CASE SealReplay \/ ClearActive
  <2>1. UNCHANGED <<sub, pos>> /\ (UNCHANGED stream \/ (stream = "dropping" /\ stream' = "dropped"))
    BY Zenon, <1>2 DEF SealReplay, ClearActive
  <2>2. (stream' # "alive") = (stream # "alive")
    BY <2>1
  <2> QED
    BY Zenon, <1>1, <2>1, <2>2, Unseen
<1>3. CASE DropStream
  <2>1. stream = "alive" /\ stream' = "dropping" /\ UNCHANGED <<pos, Phases>>
    BY Zenon, <1>3, PhaseSteps DEF DropStream
  <2>2. ~(stream # "alive") /\ (stream # "alive")' = TRUE
    BY <2>1
  <2>3. ES!Cut
    BY Zenon, <1>1, <2>1, <2>2 DEF ES!Cut, Phases, Ended
  <2> QED
    BY Zenon, <1>1, <2>3 DEF ES!Next
<1>4. ASSUME NEW s \in Subs, TrySubscribe(s) PROVE ES!Next
  <2>1. UNCHANGED stream /\ sub[s] = "none" /\ sub' = [sub EXCEPT ![s] = "open"]
    BY Zenon, <1>4 DEF TrySubscribe, NextSubscriberId
  <2>2. PICK p : p \in 0..produced \cup {-1} /\ pos' = [pos EXCEPT ![s] = p]
    <3>1. pos' = [pos EXCEPT ![s] = IF (IF RetainsReplay THEN events ELSE <<>>) # <<>>
                                    THEN Head(IF RetainsReplay THEN events ELSE <<>>).seq
                                    ELSE IF ChunkUnderway THEN -1 ELSE produced]
      BY Zenon, <1>4 DEF TrySubscribe
    <3>2. produced \in 0..produced
      BY <1>1
    <3>3. CASE RetainsReplay /\ events # <<>>
      <4>1. Reliable
        BY Zenon, <3>3 DEF ViewInv, Recording, RetainsReplay
      <4>2. Head(events).seq \in 0..produced
        BY Zenon, <3>3, <4>1, WindowLeads
      <4> QED
        BY Zenon, <3>1, <3>3, <4>2
    <3>4. CASE ~(RetainsReplay /\ events # <<>>)
      <4>1. pos' = [pos EXCEPT ![s] = IF ChunkUnderway THEN -1 ELSE produced]
        BY Zenon, <3>1, <3>4
      <4> QED
        BY Zenon, <3>2, <4>1
    <3> QED
      BY Zenon, <3>3, <3>4
  <2>3. outcome[s] = "open"
    BY Zenon, <2>1 DEF CoreInv, IInv, EndInv
  <2>4. Phases[s] = "idle" /\ Phase(s)' = "open"
    <3>1. /\ sub'[s] = "open" /\ outcome'[s] = "open" /\ "open" # "none" /\ "open" \notin {"dropping", "dropped"}
      BY <1>1, <2>1, <2>3
    <3> QED
      BY Zenon, <2>1, <3>1 DEF Phases, Phase
  <2>5. Phases' = [Phases EXCEPT ![s] = "open"]
    <3>1. \A t \in Subs \ {s} : sub'[t] = sub[t] /\ outcome'[t] = outcome[t]
      BY Zenon, <1>1, <2>1
    <3> QED
      BY Zenon, <2>4, <3>1, PhaseSteps
  <2>6. UNCHANGED (stream # "alive")
    BY Zenon, <2>1
  <2>7. ES!Attach(s)
    BY Zenon, <1>1, <2>2, <2>4, <2>5, <2>6 DEF ES!Attach, ES!Unsettled, Phases, Ended
  <2> QED
    BY Zenon, <1>1, <2>7 DEF ES!Next
<1>5. ASSUME NEW s \in Subs, DropReceiver(s) PROVE ES!Next
  <2>1. UNCHANGED <<stream, pos>> /\ sub[s] = "open" /\ sub' = [sub EXCEPT ![s] = "dropping"]
    BY Zenon, <1>5 DEF DropReceiver
  <2>2. Phases[s] \in {"open", "ended"} /\ Phase(s)' = "left"
    <3>1. /\ sub'[s] = "dropping" /\ "open" # "none" /\ "open" \notin {"dropping", "dropped"}
          /\ "dropping" # "none" /\ "dropping" \in {"dropping", "dropped"}
      BY <1>1, <2>1
    <3>2. Phase(s) \in {"open", "ended"} /\ Phase(s)' = "left"
      BY Zenon, <2>1, <3>1 DEF Phase
    <3> QED
      BY Zenon, <3>2 DEF Phases
  <2>3. Phases' = [Phases EXCEPT ![s] = "left"]
    <3>1. \A t \in Subs \ {s} : sub'[t] = sub[t] /\ outcome'[t] = outcome[t]
      BY Zenon, <1>1, <2>1
    <3> QED
      BY Zenon, <2>2, <3>1, PhaseSteps
  <2>4. UNCHANGED (stream # "alive")
    BY Zenon, <2>1
  <2>5. ES!Leave(s)
    BY Zenon, <1>1, <2>1, <2>2, <2>3, <2>4 DEF ES!Leave, Phases, Ended
  <2> QED
    BY Zenon, <1>1, <2>5 DEF ES!Next
<1>6. ASSUME NEW s \in Subs, DropDeregisters(s) PROVE UNCHANGED ES!vars
  <2>1. UNCHANGED <<stream, pos>> /\ sub[s] = "dropping" /\ sub' = [sub EXCEPT ![s] = "dropped"]
    BY Zenon, <1>6 DEF DropDeregisters
  <2>2. Phase(s) = "left" /\ Phase(s)' = "left"
    <3>1. /\ sub'[s] = "dropped" /\ "dropped" # "none" /\ "dropped" \in {"dropping", "dropped"}
          /\ "dropping" # "none" /\ "dropping" \in {"dropping", "dropped"}
      BY <1>1, <2>1
    <3> QED
      BY Zenon, <2>1, <3>1 DEF Phase
  <2>3. ASSUME NEW t \in Subs PROVE Phase(t)' = Phase(t)
    <3>1. CASE t = s
      BY Zenon, <2>2, <3>1
    <3>2. CASE t # s
      <4>1. sub'[t] = sub[t] /\ outcome'[t] = outcome[t]
        BY Zenon, <1>1, <2>1, <3>2
      <4> QED
        BY Zenon, <4>1 DEF Phase
    <3> QED
      BY Zenon, <3>1, <3>2
  <2>4. UNCHANGED Phases /\ UNCHANGED (stream # "alive")
    BY Zenon, <2>1, <2>3 DEF Phases
  <2> QED
    BY Zenon, <1>1, <2>1, <2>4 DEF ES!vars, Phases, Ended
<1> QED
  BY Zenon, <1>2, <1>3, <1>4, <1>5, <1>6

\* The invariant behind the refinement, for the streams that a subscriber can follow
\* from its snapshot on.
THEOREM ViewInvariant == Spec /\ Recording => [](CoreInv /\ ViewInv)
<1>1. Init /\ Recording => CoreInv /\ ViewInv
  <2>1. ASSUME Init, Recording, NEW s \in Subs PROVE ~Consuming(s)
    <3>1. sub[s] # "open"
      BY <2>1 DEF Init
    <3> QED
      BY Zenon, <3>1 DEF Consuming
  <2> QED
    BY Zenon, <2>1, InitCore DEF ViewInv
<1>2. (CoreInv /\ ViewInv) /\ [Next]_<<policy, vars>> => (CoreInv /\ ViewInv)'
  BY Zenon, NextKeepsCore, NextKeepsView
<1> QED
  BY <1>1, <1>2, PTL DEF Spec

\* The single-subscriber backend implements EventStream when it is reliable or retains
\* nothing: however subscribers replace one another while a send is under way, each
\* observes the chunks from where it attached, in order, none skipped without a Gap,
\* the end only after the last, and None without an end only after the stream's drop.
\* A lossy reader that retains may discard chunks unrecorded, which leaves a hole in
\* the replay of the next subscriber.
THEOREM SingleImplementsEventStream == Spec /\ Recording => ImplementsEventStream
<1>1. Init => ES!Init
  <2> SUFFICES ASSUME Init PROVE ES!Init
    BY Zenon
  <2>1. Ended = "no" /\ Phases = [s \in Subs |-> "idle"] /\ (stream # "alive") = FALSE
    BY Zenon DEF Init, Ended, Phases, Phase
  <2>2. (~Reliable) \in BOOLEAN
    OBVIOUS
  <2> QED
    BY Zenon, <2>1, <2>2 DEF Init, ES!Init, Phases, Ended
<1>2. CoreInv /\ ViewInv /\ [Next]_<<policy, vars>> => [ES!Next]_(ES!vars)
  <2> SUFFICES ASSUME CoreInv, ViewInv, [Next]_<<policy, vars>> PROVE ES!Next \/ UNCHANGED ES!vars
    BY Zenon
  <2>1. CASE UNCHANGED <<policy, vars>>
    BY Zenon, <2>1, Unseen DEF vars, stateVars, subVars, logVars, histVars
  <2>2. CASE Operation /\ UNCHANGED policy
    BY Zenon, <2>2, ReaderRefines, RecvRefines, OwnersRefine DEF Operation
  <2> QED
    BY Zenon, <2>1, <2>2 DEF Next, Finished
<1> QED
  BY <1>1, <1>2, ViewInvariant, PTL DEF Spec, ImplementsEventStream, ES!Spec
=============================================================================
