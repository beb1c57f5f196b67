------------------------ MODULE FastBroadcastProofs ------------------------
(***************************************************************************)
(* The fast path of the broadcast backend implements EventStream, for      *)
(* every number of subscriptions, size of the ring and chunk size.         *)
(***************************************************************************)
EXTENDS FastBroadcast, TLAPS

Events == [ev : {"chunk", "eof", "error"}, seq : Nat]

TypeInv ==
  /\ closed \in BOOLEAN /\ read_error \in BOOLEAN
  /\ sent \in Seq(Events)
  /\ pc \in {"read", "chunk", "error", "stopped"}
  /\ stream \in {"alive", "dropped"}
  /\ sub \in [Subs -> {"none", "open", "dropped"}]
  /\ emit_terminal_event \in [Subs -> {"none", "eof", "error"}]
  /\ next \in [Subs -> Nat]
  /\ produced \in Nat
  /\ pos \in [Subs -> Nat]
  /\ gapped \in [Subs -> BOOLEAN]
  /\ outcome \in [Subs -> {"open", "eof", "error", "none"}]

\* An end that is recorded stops the reader, at the latest when it has sent it.
ReaderInv ==
  /\ pc \in {"read", "chunk"} => ~closed /\ ~read_error
  /\ pc = "error" => ~closed /\ read_error

\* What s has still to receive: consecutive events up to the live end, of which
\* only the last can be the terminal event.
Ahead(s) == (next[s] + 1)..Len(sent)
LastSeq == IF sent[Len(sent)].ev = "chunk" THEN produced - 1 ELSE produced
TailInv(s) ==
  /\ next[s] <= Len(sent)
  /\ \A i \in Ahead(s) :
       /\ i < Len(sent) => sent[i].ev = "chunk"
       /\ sent[i].ev # "chunk" => sent[i].ev = Ended /\ pc = "stopped"
       /\ sent[i].seq = LastSeq - (Len(sent) - i)

\* The number of the event that s receives next.
Due(s) == IF next[s] < Len(sent) THEN sent[next[s] + 1].seq ELSE produced

\* It is the one s is to observe, unless s was shown a Gap.
PosInv(s) ==
  /\ outcome[s] = "open" /\ emit_terminal_event[s] = "none" =>
       Due(s) = pos[s] \/ (gapped[s] /\ Due(s) > pos[s])
  /\ emit_terminal_event[s] # "none" =>
       emit_terminal_event[s] = Ended /\ outcome[s] = "open" /\ pos[s] = produced
  /\ outcome[s] = "none" => pc = "stopped"
  /\ outcome[s] \in Terminals => Ended # "no"
  /\ outcome[s] # "open" \/ emit_terminal_event[s] # "none" =>
       \A i \in Ahead(s) : sent[i].ev # "chunk"

SubInv(s) == sub[s] = "open" => TailInv(s) /\ PosInv(s)

IdleInv(s) == sub[s] = "none" => outcome[s] = "open"

IInv == TypeInv /\ ReaderInv /\ \A s \in Subs : SubInv(s) /\ IdleInv(s)

-----------------------------------------------------------------------------
\* The ring has a slot: max_buffered_chunks is not zero.
LEMMA RingNotEmpty == RingSize \in Nat /\ RingSize >= 1
  BY ConfigAssumption, RingAssumption

\* The recorded end is one of three values, and is that of the flags.
LEMMA EndedValues ==
  ASSUME TypeInv
  PROVE  /\ Ended \in {"no", "eof", "error"}
         /\ read_error => Ended = "error"
         /\ ~read_error /\ closed => Ended = "eof"
         /\ ~read_error /\ ~closed => Ended = "no"
  BY Zenon DEF Ended, TypeInv

\* A stream starts with an empty channel and nobody attached.
LEMMA InitIInv ==
  Init => IInv
<1> SUFFICES ASSUME Init PROVE IInv
  BY Zenon
<1>1. TypeInv
  <2>1. closed \in BOOLEAN /\ read_error \in BOOLEAN /\ gapped \in [Subs -> BOOLEAN]
    BY Zenon DEF Init
  <2> QED
    BY <2>1 DEF Init, TypeInv, Events
<1>2. ReaderInv
  BY Zenon DEF Init, ReaderInv
<1>3. ASSUME NEW s \in Subs PROVE SubInv(s) /\ IdleInv(s)
  BY Zenon DEF Init, SubInv, IdleInv
<1> QED
  BY Zenon, <1>1, <1>2, <1>3 DEF IInv

\* A send to the channel: everybody who is attached has one more event ahead,
\* and those before it are what they were.
LEMMA SendAppends ==
  ASSUME TypeInv, NEW kind \in {"chunk", "eof", "error"}, Send(Event(kind))
  PROVE  /\ sent' \in Seq(Events)
         /\ \A s \in Subs : sub[s] = "open" =>
              /\ Len(sent') = Len(sent) + 1
              /\ sent'[Len(sent) + 1] = [ev |-> kind, seq |-> produced]
              /\ \A i \in 1..Len(sent) : sent'[i] = sent[i]
<1>1. Event(kind) \in Events /\ Event(kind) = [ev |-> kind, seq |-> produced]
  BY Zenon DEF Event, Events, TypeInv
<1>2. sent \in Seq(Events)
  BY Zenon DEF TypeInv
<1>3. Append(sent, Event(kind)) \in Seq(Events)
  BY <1>1, <1>2
<1>4. ASSUME NEW s \in Subs, sub[s] = "open" PROVE sent' = Append(sent, Event(kind))
  BY Zenon, <1>4 DEF Send, Receivers
<1> QED
  BY <1>1, <1>2, <1>3, <1>4 DEF Send

\* A chunk joins the line of everyone who is attached; nobody has seen an end yet.
LEMMA SendChunkKeepsIInv ==
  ASSUME IInv, SendChunk
  PROVE  IInv'
<1> USE DEF SendChunk, stateVars, subVars, histVars
<1>1. TypeInv /\ ReaderInv
  BY Zenon DEF IInv
<1>2. sent' \in Seq(Events)
  BY Zenon, <1>1, SendAppends
<1>3. TypeInv'
  <2>1. produced' \in Nat /\ pc' \in {"read", "chunk", "error", "stopped"}
    BY <1>1 DEF TypeInv
  <2> QED
    BY Zenon, <1>1, <1>2, <2>1 DEF TypeInv
<1>4. ~closed /\ ~read_error /\ Ended = "no"
  BY Zenon, <1>1, EndedValues DEF ReaderInv
<1>5. ReaderInv'
  BY Zenon, <1>1, <1>4 DEF ReaderInv
<1>6. ASSUME NEW s \in Subs PROVE SubInv(s)' /\ IdleInv(s)'
  <2>1. SubInv(s) /\ IdleInv(s)
    BY Zenon DEF IInv
  <2>2. IdleInv(s)'
    BY Zenon, <2>1 DEF IdleInv
  <2>3. ASSUME sub[s] = "open" PROVE TailInv(s)' /\ PosInv(s)'
    <3>1. TailInv(s) /\ PosInv(s)
      BY Zenon, <2>1, <2>3 DEF SubInv
    <3>2. /\ Len(sent') = Len(sent) + 1
          /\ sent'[Len(sent) + 1] = [ev |-> "chunk", seq |-> produced]
          /\ \A i \in 1..Len(sent) : sent'[i] = sent[i]
      BY Zenon, <1>1, <2>3, SendAppends
    <3>3. next[s] \in Nat /\ Len(sent) \in Nat /\ produced \in Nat
      BY <1>1 DEF TypeInv
    <3>4. ASSUME NEW i \in Ahead(s) PROVE sent[i].ev = "chunk"
      BY Zenon, <3>1 DEF TailInv
    <3>5. TailInv(s)'
      <4>1. next'[s] <= Len(sent') /\ LastSeq' = produced
        BY <3>1, <3>2, <3>3 DEF TailInv, LastSeq
      <4>2. ASSUME NEW i \in Ahead(s)'
            PROVE  sent'[i].ev = "chunk" /\ sent'[i].seq = LastSeq' - (Len(sent') - i)
        <5>1. CASE i = Len(sent')
          BY <3>2, <3>3, <4>1, <5>1
        <5>2. CASE i # Len(sent')
          <6>1. i \in Ahead(s) /\ i \in 1..Len(sent) /\ Len(sent) \in Ahead(s)
            BY <3>2, <3>3, <5>2 DEF Ahead
          <6>2. sent'[i] = sent[i] /\ sent[i].ev = "chunk" /\ LastSeq = produced - 1
            BY Zenon, <3>2, <3>4, <6>1 DEF LastSeq
          <6>3. sent[i].seq = LastSeq - (Len(sent) - i)
            BY Zenon, <3>1, <6>1 DEF TailInv
          <6> QED
            BY <3>2, <3>3, <4>1, <6>1, <6>2, <6>3
        <5> QED
          BY Zenon, <5>1, <5>2
      <4> QED
        BY Zenon, <4>1, <4>2 DEF TailInv
    <3>6. Due(s)' = Due(s)
      <4>1. CASE next[s] < Len(sent)
        <5>1. next[s] + 1 \in 1..Len(sent)
          BY <3>3, <4>1
        <5> QED
          BY <3>2, <3>3, <4>1, <5>1 DEF Due
      <4>2. CASE next[s] = Len(sent)
        BY <3>2, <3>3, <4>2 DEF Due
      <4> QED
        BY <3>1, <3>3, <4>1, <4>2 DEF TailInv
    <3>7. emit_terminal_event[s] = "none" /\ outcome[s] = "open"
      <4>1. outcome[s] \in {"open", "eof", "error", "none"}
        BY Zenon, <1>1 DEF TypeInv
      <4> QED
        BY Zenon, <1>1, <1>4, <3>1, <4>1 DEF PosInv, Terminals, TypeInv
    <3>8. PosInv(s)'
      BY Zenon, <3>1, <3>6, <3>7 DEF PosInv, Terminals
    <3> QED
      BY Zenon, <3>5, <3>8
  <2> QED
    BY Zenon, <2>2, <2>3 DEF SubInv
<1> QED
  BY Zenon, <1>3, <1>5, <1>6 DEF IInv

\* The terminal event joins the end of the line of everyone who is attached.
LEMMA TerminalKeepsSubInv ==
  ASSUME IInv, NEW kind \in Terminals, Send(Event(kind)),
         pc # "stopped", pc' = "stopped", Ended \in {"no", kind}, Ended' = kind,
         UNCHANGED <<produced, subVars, histVars>>,
         NEW s \in Subs
  PROVE  SubInv(s)'
<1> USE DEF subVars, histVars
<1>1. TypeInv /\ SubInv(s)
  BY Zenon DEF IInv
<1>2. SUFFICES ASSUME sub[s] = "open" PROVE TailInv(s)' /\ PosInv(s)'
  BY Zenon DEF SubInv
<1>3. TailInv(s) /\ PosInv(s)
  BY Zenon, <1>1, <1>2 DEF SubInv
<1>4. /\ Len(sent') = Len(sent) + 1
      /\ sent'[Len(sent) + 1] = [ev |-> kind, seq |-> produced]
      /\ \A i \in 1..Len(sent) : sent'[i] = sent[i]
  BY Zenon, <1>1, <1>2, SendAppends DEF Terminals
<1>5. next[s] \in Nat /\ Len(sent) \in Nat /\ produced \in Nat
  BY <1>1 DEF TypeInv
<1>6. ASSUME NEW i \in Ahead(s) PROVE sent[i].ev = "chunk"
  BY Zenon, <1>3 DEF TailInv
<1>7. TailInv(s)'
  <2>1. next'[s] <= Len(sent') /\ LastSeq' = produced
    BY <1>3, <1>4, <1>5 DEF TailInv, LastSeq, Terminals
  <2>2. ASSUME NEW i \in Ahead(s)'
        PROVE  /\ i < Len(sent') => sent'[i].ev = "chunk"
               /\ sent'[i].ev # "chunk" => sent'[i].ev = kind
               /\ sent'[i].seq = LastSeq' - (Len(sent') - i)
    <3>1. CASE i = Len(sent')
      BY <1>4, <1>5, <2>1, <3>1
    <3>2. CASE i # Len(sent')
      <4>1. i \in Ahead(s) /\ i \in 1..Len(sent) /\ Len(sent) \in Ahead(s)
        BY <1>4, <1>5, <3>2 DEF Ahead
      <4>2. sent'[i] = sent[i] /\ sent[i].ev = "chunk" /\ LastSeq = produced - 1
        BY Zenon, <1>4, <1>6, <4>1 DEF LastSeq
      <4>3. sent[i].seq = LastSeq - (Len(sent) - i)
        BY Zenon, <1>3, <4>1 DEF TailInv
      <4> QED
        BY <1>4, <1>5, <2>1, <4>1, <4>2, <4>3
    <3> QED
      BY Zenon, <3>1, <3>2
  <2> QED
    BY Zenon, <2>1, <2>2 DEF TailInv
<1>8. Due(s)' = Due(s)
  <2>1. CASE next[s] < Len(sent)
    <3>1. next[s] + 1 \in 1..Len(sent)
      BY <1>5, <2>1
    <3> QED
      BY <1>4, <1>5, <2>1, <3>1 DEF Due
  <2>2. CASE next[s] = Len(sent)
    BY <1>4, <1>5, <2>2 DEF Due
  <2> QED
    BY <1>3, <1>5, <2>1, <2>2 DEF TailInv
<1>9. PosInv(s)'
  <2>1. emit_terminal_event[s] # "none" => Ended = kind
    BY Zenon, <1>1, <1>3 DEF PosInv, TypeInv
  <2>2. ASSUME \A i \in Ahead(s) : sent[i].ev # "chunk", NEW i \in Ahead(s)'
        PROVE  sent'[i].ev # "chunk"
    <3>1. CASE i = Len(sent) + 1
      BY <1>4, <3>1 DEF Terminals
    <3>2. CASE i # Len(sent) + 1
      <4>1. i \in Ahead(s) /\ i \in 1..Len(sent)
        BY <1>4, <1>5, <3>2 DEF Ahead
      <4> QED
        BY Zenon, <1>4, <2>2, <4>1
    <3> QED
      BY Zenon, <3>1, <3>2
  <2>3. kind # "no"
    BY Zenon DEF Terminals
  <2> QED
    BY Zenon, <1>3, <1>8, <2>1, <2>2, <2>3 DEF PosInv
<1> QED
  BY Zenon, <1>7, <1>9

\* The end of the output is recorded and sent in one critical section.
LEMMA ReadEofKeepsIInv ==
  ASSUME IInv, ReadEof
  PROVE  IInv'
<1> USE DEF ReadEof, subVars, histVars, logVars
<1>1. TypeInv /\ ReaderInv
  BY Zenon DEF IInv
<1>2. TypeInv'
  <2>1. sent' \in Seq(Events)
    BY Zenon, <1>1, SendAppends
  <2>2. closed' \in BOOLEAN
    BY Zenon
  <2> QED
    BY Zenon, <1>1, <2>1, <2>2 DEF TypeInv
<1>3. Ended = "no" /\ Ended' = "eof"
  BY Zenon, <1>1, <1>2, EndedValues DEF ReaderInv, Ended
<1>4. ASSUME NEW s \in Subs PROVE SubInv(s)'
  <2>1. "eof" \in Terminals /\ UNCHANGED <<produced, subVars, histVars>>
    BY Zenon DEF Terminals
  <2> QED
    BY Zenon, <1>3, <2>1, TerminalKeepsSubInv
<1> QED
  BY Zenon, <1>2, <1>4 DEF IInv, ReaderInv, IdleInv

\* The read error is sent after it was recorded: whoever attached in between has it
\* ahead although it was told already.
LEMMA SendErrorKeepsIInv ==
  ASSUME IInv, SendError
  PROVE  IInv'
<1> USE DEF SendError, stateVars, subVars, histVars, logVars
<1>1. TypeInv /\ ReaderInv
  BY Zenon DEF IInv
<1>2. TypeInv'
  <2>1. sent' \in Seq(Events)
    BY Zenon, <1>1, SendAppends
  <2> QED
    BY Zenon, <1>1, <2>1 DEF TypeInv
<1>3. Ended = "error" /\ Ended' = "error"
  BY Zenon, <1>1, EndedValues DEF ReaderInv, Ended
<1>4. ASSUME NEW s \in Subs PROVE SubInv(s)'
  <2>1. "error" \in Terminals /\ UNCHANGED <<produced, subVars, histVars>>
    BY Zenon DEF Terminals
  <2> QED
    BY Zenon, <1>3, <2>1, TerminalKeepsSubInv
<1> QED
  BY Zenon, <1>2, <1>4 DEF IInv, ReaderInv, IdleInv

\* A step that sends nothing and leaves s alone.
LEMMA OtherStepKeepsSubInv ==
  ASSUME TypeInv, NEW s \in Subs, SubInv(s),
         UNCHANGED <<sent, produced>>,
         sub'[s] = sub[s], next'[s] = next[s], pos'[s] = pos[s], gapped'[s] = gapped[s],
         emit_terminal_event'[s] = emit_terminal_event[s], outcome'[s] = outcome[s],
         pc = "stopped" => pc' = "stopped",
         Ended' = Ended \/ Ended = "no"
  PROVE  SubInv(s)'
<1> SUFFICES ASSUME sub[s] = "open" PROVE TailInv(s)' /\ PosInv(s)'
  BY Zenon DEF SubInv
<1>1. TailInv(s) /\ PosInv(s)
  BY Zenon DEF SubInv
<1>2. Ahead(s)' = Ahead(s) /\ Due(s)' = Due(s) /\ LastSeq' = LastSeq
  BY Zenon DEF Ahead, Due, LastSeq
<1>3. ASSUME NEW i \in Ahead(s) PROVE sent[i].ev \in {"chunk", "eof", "error"}
  <2>1. i \in 1..Len(sent) /\ sent[i] \in Events
    BY DEF Ahead, TypeInv
  <2> QED
    BY Zenon, <2>1 DEF Events
<1>4. TailInv(s)'
  BY Zenon, <1>1, <1>2, <1>3 DEF TailInv
<1>5. emit_terminal_event[s] \in {"none", "eof", "error"}
  BY Zenon DEF TypeInv
<1>6. PosInv(s)'
  BY Zenon, <1>1, <1>2, <1>5 DEF PosInv
<1> QED
  BY Zenon, <1>4, <1>6

\* Reading, failing to read, being cancelled and the drop of the stream send nothing.
LEMMA ReaderOthersKeepIInv ==
  ASSUME IInv,
         \/ \E n \in 1..MaxRead : ReadBytes(n)
         \/ ReadFails \/ ReaderCancelled \/ DropStream
  PROVE  IInv'
<1> USE DEF ReadBytes, ReadFails, ReaderCancelled, DropStream,
            stateVars, taskVars, subVars, histVars, logVars
<1>1. TypeInv /\ ReaderInv
  BY Zenon DEF IInv
<1>2. /\ UNCHANGED <<closed, sent, produced, sub, next, emit_terminal_event, pos, gapped, outcome>>
      /\ pc = "stopped" => pc' = "stopped"
  BY Zenon
<1>3. read_error' \in BOOLEAN
  <2>1. CASE ReadFails
    BY <2>1, Zenon
  <2>2. CASE ~ReadFails
    BY Zenon, <1>1, <2>2 DEF TypeInv
  <2> QED
    BY Zenon, <2>1, <2>2
<1>4. TypeInv'
  <2>1. pc' \in {"read", "chunk", "error", "stopped"} /\ stream' \in {"alive", "dropped"}
    BY Zenon, <1>1 DEF TypeInv
  <2> QED
    BY Zenon, <1>1, <1>2, <1>3, <2>1 DEF TypeInv
<1>5. ReaderInv'
  BY <1>1 DEF ReaderInv
<1>6. Ended' = Ended \/ Ended = "no"
  BY <1>1, EndedValues DEF ReaderInv, Ended
<1>7. ASSUME NEW s \in Subs PROVE SubInv(s)' /\ IdleInv(s)'
  <2>1. SubInv(s) /\ IdleInv(s)
    BY Zenon DEF IInv
  <2>2. SubInv(s)'
    BY Zenon, <1>1, <1>2, <1>6, <2>1, OtherStepKeepsSubInv
  <2> QED
    BY Zenon, <1>2, <2>1, <2>2 DEF IdleInv
<1> QED
  BY Zenon, <1>4, <1>5, <1>7 DEF IInv

\* A step of one subscription: the others, and what the reader did, stay.
LEMMA OneSubscriptionKeepsIInv ==
  ASSUME IInv, TypeInv', NEW s \in Subs,
         UNCHANGED <<closed, read_error, sent, pc, produced>>,
         \A t \in Subs \ {s} :
            /\ sub'[t] = sub[t] /\ next'[t] = next[t] /\ pos'[t] = pos[t] /\ gapped'[t] = gapped[t]
            /\ emit_terminal_event'[t] = emit_terminal_event[t] /\ outcome'[t] = outcome[t],
         SubInv(s)', IdleInv(s)'
  PROVE  IInv'
<1>1. ReaderInv'
  BY Zenon DEF IInv, ReaderInv
<1>2. Ended' = Ended
  BY Zenon DEF Ended
<1>3. ASSUME NEW t \in Subs \ {s} PROVE SubInv(t)' /\ IdleInv(t)'
  <2>1. TypeInv /\ SubInv(t) /\ IdleInv(t)
    BY Zenon DEF IInv
  <2>2. SubInv(t)'
    BY Zenon, <1>2, <2>1, OtherStepKeepsSubInv
  <2> QED
    BY Zenon, <2>1, <2>2 DEF IdleInv
<1> QED
  BY Zenon, <1>1, <1>3 DEF IInv

\* A subscription starts at the tail of the channel with the end that is recorded.
LEMMA TrySubscribeKeepsIInv ==
  ASSUME IInv, NEW s \in Subs, TrySubscribe(s)
  PROVE  IInv'
<1> USE DEF TrySubscribe, stateVars, taskVars, logVars
<1>1. TypeInv /\ ReaderInv /\ IdleInv(s)
  BY Zenon DEF IInv
<1>2. emit_terminal_event'[s] = IF Ended = "no" THEN "none" ELSE Ended
  BY Zenon, <1>1 DEF Ended, TypeInv
<1>3. TypeInv'
  BY <1>1 DEF TypeInv
<1>4. /\ sub'[s] = "open" /\ next'[s] = Len(sent) /\ pos'[s] = produced
      /\ outcome'[s] = "open" /\ Ended' = Ended
  BY Zenon, <1>1 DEF TypeInv, IdleInv, Ended
<1>5. Ahead(s)' = {} /\ Due(s)' = produced
  BY <1>1, <1>4 DEF Ahead, Due, TypeInv
<1>6. TailInv(s)'
  BY <1>1, <1>4, <1>5 DEF TailInv, TypeInv
<1>7. PosInv(s)'
  BY Zenon, <1>2, <1>4, <1>5 DEF PosInv, Terminals
<1>8. SubInv(s)' /\ IdleInv(s)'
  BY Zenon, <1>4, <1>6, <1>7 DEF SubInv, IdleInv
<1> QED
  BY Zenon, <1>1, <1>3, <1>8, OneSubscriptionKeepsIInv DEF TypeInv

\* A dropped subscription has nothing to observe.
LEMMA DropSubscriptionKeepsIInv ==
  ASSUME IInv, NEW s \in Subs, DropSubscription(s)
  PROVE  IInv'
<1> USE DEF DropSubscription, stateVars, taskVars, logVars, histVars
<1>1. TypeInv
  BY Zenon DEF IInv
<1>2. TypeInv' /\ sub'[s] = "dropped"
  BY Zenon, <1>1 DEF TypeInv
<1>3. SubInv(s)' /\ IdleInv(s)'
  BY Zenon, <1>2 DEF SubInv, IdleInv
<1> QED
  BY Zenon, <1>1, <1>2, <1>3, OneSubscriptionKeepsIInv DEF TypeInv

-----------------------------------------------------------------------------
(* recv: what a consumer is shown, which the refinement needs as well *)

\* The terminal event of a late subscription is its first event.
LEMMA TerminalObserved ==
  ASSUME IInv, NEW s \in Subs, RecvTerminal(s)
  PROVE  /\ outcome[s] = "open" /\ outcome' = [outcome EXCEPT ![s] = Ended]
         /\ Ended \in Terminals /\ pos[s] = produced
         /\ UNCHANGED <<pos, gapped>>
<1> USE DEF RecvTerminal, Returns
<1>1. TypeInv /\ PosInv(s)
  BY Zenon DEF IInv, SubInv
<1>2. /\ outcome[s] = "open" /\ emit_terminal_event[s] = Ended
      /\ Ended \in Terminals /\ pos[s] = produced
  BY Zenon, <1>1 DEF PosInv, TypeInv, Terminals
<1>3. outcome' = [outcome EXCEPT ![s] = Ended]
  BY Zenon, <1>1, <1>2 DEF TypeInv
<1>4. pos' = pos
  <2>1. emit_terminal_event[s] # "chunk"
    BY Zenon, <1>2 DEF Terminals
  <2>2. pos' = [pos EXCEPT ![s] = pos[s]]
    BY Zenon, <2>1
  <2> QED
    BY Zenon, <1>1, <2>2 DEF TypeInv
<1>5. gapped' = gapped
  BY <1>1, <1>2, Zenon DEF TypeInv
<1> QED
  BY Zenon, <1>2, <1>3, <1>4, <1>5

\* A chunk from the ring is the next one, or a later one behind a Gap.
LEMMA ChunkObserved ==
  ASSUME IInv, NEW s \in Subs, RecvEvent(s), sent[next[s] + 1].ev = "chunk"
  PROVE  /\ outcome[s] = "open" /\ UNCHANGED outcome
         /\ Due(s) \in pos[s]..(produced - 1)
         /\ Due(s) = pos[s] \/ gapped[s]
         /\ pos' = [pos EXCEPT ![s] = Due(s) + 1]
         /\ gapped' = [gapped EXCEPT ![s] = FALSE]
<1> USE DEF RecvEvent, Returns
<1>1. TypeInv /\ TailInv(s) /\ PosInv(s)
  BY Zenon DEF IInv, SubInv
<1>2. /\ next[s] + 1 \in Ahead(s) /\ Len(sent) \in Nat /\ next[s] \in Nat
      /\ produced \in Nat /\ pos[s] \in Nat
  BY <1>1 DEF Ahead, TypeInv
<1>3. outcome[s] = "open"
  BY Zenon, <1>1, <1>2 DEF PosInv
<1>4. Due(s) = sent[next[s] + 1].seq /\ Due(s) = LastSeq - (Len(sent) - (next[s] + 1))
  BY Zenon, <1>1, <1>2 DEF Due, TailInv
<1>5. Due(s) \in Int /\ Due(s) <= produced - 1
  <2>1. CASE next[s] + 1 = Len(sent)
    <3>1. sent[Len(sent)].ev = "chunk"
      BY Zenon, <2>1
    <3>2. LastSeq = produced - 1
      BY Zenon, <3>1 DEF LastSeq
    <3>3. Len(sent) - (next[s] + 1) = 0
      BY <1>2, <2>1
    <3>4. Due(s) = (produced - 1) - 0
      BY Zenon, <1>4, <3>2, <3>3
    <3> QED
      BY <1>2, <3>4
  <2>2. CASE next[s] + 1 < Len(sent)
    <3>1. LastSeq \in Int /\ LastSeq <= produced
      BY <1>2 DEF LastSeq
    <3>2. ASSUME NEW last \in Int, last <= produced
          PROVE  /\ last - (Len(sent) - (next[s] + 1)) \in Int
                 /\ last - (Len(sent) - (next[s] + 1)) <= produced - 1
      BY <1>2, <2>2, <3>2
    <3> QED
      BY Zenon, <1>4, <3>1, <3>2
  <2> QED
    BY <1>2, <2>1, <2>2
<1>6. Due(s) = pos[s] \/ (gapped[s] /\ Due(s) > pos[s])
  BY Zenon, <1>1, <1>3 DEF PosInv
<1>7. Due(s) = pos[s] \/ gapped[s]
  BY <1>6, Zenon
<1>8. Due(s) >= pos[s]
  BY <1>2, <1>5, <1>6
<1>9. outcome' = outcome
  BY Zenon, <1>1, <1>3 DEF TypeInv, Terminals
<1>10. gapped' = [gapped EXCEPT ![s] = FALSE]
  <2>1. "chunk" \notin Terminals /\ "chunk" # "gap"
    BY Zenon DEF Terminals
  <2>2. ("chunk" = "gap") = FALSE
    BY Zenon, <2>1
  <2> QED
    BY <2>1, <2>2, Zenon
<1>11. pos' = [pos EXCEPT ![s] = Due(s) + 1]
  BY Zenon, <1>4, <1>8
<1>12. Due(s) \in pos[s]..(produced - 1)
  BY <1>2, <1>5, <1>8
<1> QED
  BY <1>3, <1>7, <1>9, <1>10, <1>11, <1>12, Zenon

\* A terminal event from the ring is the last one there; nothing precedes it that
\* s has not observed, unless behind a Gap.
LEMMA EndObserved ==
  ASSUME IInv, NEW s \in Subs, RecvEvent(s), sent[next[s] + 1].ev # "chunk"
  PROVE  /\ next[s] + 1 = Len(sent) /\ Ended \in Terminals
         /\ outcome' = IF outcome[s] = "open" THEN [outcome EXCEPT ![s] = Ended] ELSE outcome
         /\ outcome[s] = "open" => pos[s] = produced \/ gapped[s]
         /\ UNCHANGED <<pos, gapped>>
<1> USE DEF RecvEvent, Returns
<1>1. TypeInv /\ TailInv(s) /\ PosInv(s)
  BY Zenon DEF IInv, SubInv
<1>2. next[s] + 1 \in Ahead(s) /\ Len(sent) \in Nat /\ next[s] \in Nat /\ produced \in Nat
  BY <1>1 DEF Ahead, TypeInv
<1>3. next[s] + 1 = Len(sent) /\ sent[next[s] + 1].ev = Ended
  BY <1>1, <1>2 DEF TailInv
<1>4. Ended \in Terminals
  <2>1. next[s] + 1 \in 1..Len(sent)
    BY <1>2
  <2>2. sent[next[s] + 1] \in Events
    <3>1. sent \in Seq(Events)
      BY Zenon, <1>1 DEF TypeInv
    <3> QED
      BY <2>1, <3>1
  <2> QED
    BY Zenon, <1>3, <2>2 DEF Events, Terminals
<1>5. outcome' = IF outcome[s] = "open" THEN [outcome EXCEPT ![s] = Ended] ELSE outcome
  BY Zenon, <1>1, <1>3, <1>4 DEF TypeInv
<1>6. pos' = pos
  BY Zenon, <1>1 DEF TypeInv
<1>7. gapped' = gapped
  BY <1>1, <1>3, <1>4, Zenon DEF TypeInv
<1>8. ASSUME outcome[s] = "open" PROVE pos[s] = produced \/ gapped[s]
  <2>1. sent[Len(sent)].ev # "chunk" /\ Len(sent) \in Ahead(s)
    BY Zenon, <1>2, <1>3
  <2>2. sent[Len(sent)].seq = LastSeq - (Len(sent) - Len(sent)) /\ LastSeq = produced
    BY Zenon, <1>1, <2>1 DEF TailInv, LastSeq
  <2>3. Due(s) = produced
    BY <1>2, <1>3, <2>2 DEF Due
  <2>4. Due(s) = pos[s] \/ (gapped[s] /\ Due(s) > pos[s])
    BY Zenon, <1>1, <1>8 DEF PosInv
  <2> QED
    BY <2>3, <2>4, Zenon
<1> QED
  BY <1>3, <1>4, <1>5, <1>6, <1>7, <1>8, Zenon

\* A Gap stands for chunks that s has not observed, and the ring goes on with a
\* later event.
LEMMA GapObserved ==
  ASSUME IInv, NEW s \in Subs, RecvLagged(s)
  PROVE  /\ outcome[s] = "open" /\ UNCHANGED <<outcome, pos>>
         /\ gapped' = [gapped EXCEPT ![s] = TRUE]
         /\ pos[s] < produced
         /\ Due(s)' > pos[s]
<1> USE DEF RecvLagged, Returns, Lagged
<1>1. TypeInv /\ TailInv(s) /\ PosInv(s)
  BY Zenon DEF IInv, SubInv
<1>2. /\ Len(sent) \in Nat /\ next[s] \in Nat /\ produced \in Nat /\ pos[s] \in Nat
      /\ next[s] + 1 \in Ahead(s) /\ next[s] + 1 < Len(sent)
      /\ Len(sent) - RingSize + 1 \in Ahead(s)
      /\ next'[s] = Len(sent) - RingSize
  BY <1>1, RingNotEmpty DEF Ahead, TypeInv
<1>3. sent[next[s] + 1].ev = "chunk" /\ outcome[s] = "open"
  BY Zenon, <1>1, <1>2 DEF TailInv, PosInv
<1>4. LastSeq \in Int /\ LastSeq <= produced
  BY <1>2 DEF LastSeq
<1>5. Due(s) = LastSeq - (Len(sent) - (next[s] + 1))
  BY <1>1, <1>2 DEF Due, TailInv
<1>6. Due(s)' = LastSeq - (Len(sent) - (Len(sent) - RingSize + 1))
  <2>1. sent[Len(sent) - RingSize + 1].seq = LastSeq - (Len(sent) - (Len(sent) - RingSize + 1))
    BY Zenon, <1>1, <1>2 DEF TailInv
  <2> QED
    BY <1>2, <2>1, RingNotEmpty DEF Due
<1>7. Due(s) = pos[s] \/ (gapped[s] /\ Due(s) > pos[s])
  BY Zenon, <1>1, <1>3 DEF PosInv
<1>8. pos[s] < produced /\ Due(s)' > pos[s]
  <2>1. Due(s) \in Int /\ Due(s) < produced
    BY <1>2, <1>4, <1>5
  <2>2. Due(s)' \in Int /\ Due(s)' > Due(s)
    BY <1>2, <1>4, <1>5, <1>6, RingNotEmpty DEF Lagged
  <2>3. Due(s) >= pos[s]
    BY <1>2, <1>7, <2>1
  <2> QED
    BY <1>2, <2>1, <2>2, <2>3
<1>9. outcome' = outcome /\ pos' = pos
  BY Zenon, <1>1, <1>3 DEF TypeInv, Terminals
<1>10. gapped' = [gapped EXCEPT ![s] = TRUE]
  <2>1. "gap" \notin Terminals
    BY Zenon DEF Terminals
  <2>2. ("gap" = "gap") = TRUE
    BY Zenon
  <2> QED
    BY <2>1, <2>2, Zenon
<1> QED
  BY <1>3, <1>8, <1>9, <1>10, Zenon

\* recv with a recorded end: nothing but a repetition of it can follow.
LEMMA RecvTerminalKeepsIInv ==
  ASSUME IInv, NEW s \in Subs, RecvTerminal(s)
  PROVE  IInv'
<1> USE DEF stateVars, taskVars, logVars
<1>1. TypeInv /\ TailInv(s) /\ PosInv(s)
  BY Zenon DEF IInv, SubInv, RecvTerminal
<1>2. /\ outcome[s] = "open" /\ outcome' = [outcome EXCEPT ![s] = Ended]
      /\ Ended \in Terminals /\ pos' = pos /\ gapped' = gapped
  BY Zenon, TerminalObserved
<1>3. /\ sub[s] = "open" /\ emit_terminal_event[s] # "none"
      /\ emit_terminal_event' = [emit_terminal_event EXCEPT ![s] = "none"]
      /\ UNCHANGED <<closed, read_error, sent, pc, produced, stream, sub, next>>
  BY Zenon DEF RecvTerminal
<1>4. TypeInv'
  BY Zenon, <1>1, <1>2, <1>3 DEF TypeInv, Terminals
<1>5. Ended' = Ended /\ Ahead(s)' = Ahead(s) /\ LastSeq' = LastSeq
  BY Zenon, <1>3 DEF Ended, Ahead, LastSeq
<1>6. TailInv(s)'
  BY Zenon, <1>1, <1>3, <1>5 DEF TailInv
<1>7. emit_terminal_event'[s] = "none" /\ outcome'[s] = Ended
  BY Zenon, <1>1, <1>2, <1>3 DEF TypeInv
<1>8. PosInv(s)'
  BY Zenon, <1>1, <1>2, <1>3, <1>5, <1>7 DEF PosInv, Terminals
<1>9. SubInv(s)' /\ IdleInv(s)'
  BY Zenon, <1>3, <1>6, <1>8 DEF SubInv, IdleInv
<1> QED
  BY Zenon, <1>1, <1>2, <1>3, <1>4, <1>9, OneSubscriptionKeepsIInv DEF TypeInv

\* recv from the ring: the next event follows the one received.
LEMMA RecvEventKeepsIInv ==
  ASSUME IInv, NEW s \in Subs, RecvEvent(s)
  PROVE  IInv'
<1> USE DEF stateVars, taskVars, logVars
<1>1. TypeInv /\ TailInv(s) /\ PosInv(s)
  BY Zenon DEF IInv, SubInv, RecvEvent
<1>2. /\ sub[s] = "open" /\ emit_terminal_event[s] = "none" /\ next[s] < Len(sent)
      /\ next' = [next EXCEPT ![s] = next[s] + 1]
      /\ UNCHANGED <<closed, read_error, sent, pc, produced, stream, sub, emit_terminal_event>>
  BY Zenon DEF RecvEvent
<1>3. next'[s] = next[s] + 1 /\ next[s] \in Nat /\ Len(sent) \in Nat /\ produced \in Nat
  BY <1>1, <1>2 DEF TypeInv
<1>4. Ended' = Ended /\ LastSeq' = LastSeq /\ Ahead(s)' \subseteq Ahead(s)
  BY <1>2, <1>3 DEF Ended, LastSeq, Ahead
<1>5. TailInv(s)'
  BY <1>1, <1>2, <1>3, <1>4 DEF TailInv
<1>6. CASE sent[next[s] + 1].ev = "chunk"
  <2>1. /\ outcome[s] = "open" /\ outcome' = outcome
        /\ Due(s) \in pos[s]..(produced - 1)
        /\ pos' = [pos EXCEPT ![s] = Due(s) + 1]
        /\ gapped' = [gapped EXCEPT ![s] = FALSE]
    BY Zenon, <1>6, ChunkObserved
  <2>2. pos[s] \in Nat /\ Due(s) + 1 \in Nat
    BY <1>1, <2>1 DEF TypeInv
  <2>3. gapped' \in [Subs -> BOOLEAN]
    BY <1>1, <2>1, Zenon DEF TypeInv
  <2>4. TypeInv' /\ pos'[s] = Due(s) + 1
    BY <1>1, <1>2, <1>3, <2>1, <2>2, <2>3 DEF TypeInv
  <2>5. Due(s) = LastSeq - (Len(sent) - (next[s] + 1))
    <3>1. next[s] + 1 \in Ahead(s)
      BY <1>2, <1>3 DEF Ahead
    <3> QED
      BY Zenon, <1>1, <1>2, <3>1 DEF Due, TailInv
  <2>6. Due(s)' = Due(s) + 1
    <3>1. CASE next[s] + 1 < Len(sent)
      <4>1. next[s] + 2 \in Ahead(s)
        BY <1>3, <3>1 DEF Ahead
      <4>2. sent[next[s] + 2].seq = LastSeq - (Len(sent) - (next[s] + 2))
        BY Zenon, <1>1, <4>1 DEF TailInv
      <4>3. (next[s] + 1) + 1 = next[s] + 2
        BY <1>3
      <4>4. Due(s)' = sent[next[s] + 2].seq
        BY Zenon, <1>2, <1>3, <3>1, <4>3 DEF Due
      <4>5. LastSeq \in Int
        BY <1>3 DEF LastSeq
      <4> QED
        BY <1>3, <2>5, <4>2, <4>4, <4>5
    <3>2. CASE next[s] + 1 = Len(sent)
      <4>1. LastSeq = produced - 1
        BY Zenon, <1>6, <3>2 DEF LastSeq
      <4>2. Due(s)' = produced
        BY <1>2, <1>3, <3>2 DEF Due
      <4>3. Len(sent) - (next[s] + 1) = 0
        BY <1>3, <3>2
      <4>4. Due(s) = (produced - 1) - 0
        BY Zenon, <2>5, <4>1, <4>3
      <4> QED
        BY <1>3, <4>2, <4>4
    <3> QED
      BY <1>2, <1>3, <3>1, <3>2
  <2>7. PosInv(s)'
    BY Zenon, <1>2, <2>1, <2>4, <2>6 DEF PosInv, Terminals
  <2>8. SubInv(s)' /\ IdleInv(s)'
    BY Zenon, <1>2, <1>5, <2>7 DEF SubInv, IdleInv
  <2> QED
    BY Zenon, <1>1, <1>2, <2>1, <2>4, <2>8, OneSubscriptionKeepsIInv DEF TypeInv
<1>7. CASE sent[next[s] + 1].ev # "chunk"
  <2>1. /\ next[s] + 1 = Len(sent) /\ Ended \in Terminals
        /\ outcome' = IF outcome[s] = "open" THEN [outcome EXCEPT ![s] = Ended] ELSE outcome
        /\ pos' = pos /\ gapped' = gapped
    BY Zenon, <1>7, EndObserved
  <2>2. outcome'[s] # "open" /\ (outcome'[s] \in Terminals \/ outcome'[s] = outcome[s])
    BY Zenon, <1>1, <2>1 DEF TypeInv, Terminals
  <2>3. TypeInv'
    BY Zenon, <1>1, <1>2, <1>3, <2>1 DEF TypeInv, Terminals
  <2>4. Ahead(s)' = {}
    BY <1>2, <1>3, <2>1 DEF Ahead
  <2>5. PosInv(s)'
    BY Zenon, <1>1, <1>2, <1>4, <2>1, <2>2, <2>4 DEF PosInv, Terminals
  <2>6. SubInv(s)' /\ IdleInv(s)'
    BY Zenon, <1>2, <1>5, <2>5 DEF SubInv, IdleInv
  <2> QED
    BY Zenon, <1>1, <1>2, <2>1, <2>3, <2>6, OneSubscriptionKeepsIInv DEF TypeInv
<1> QED
  BY Zenon, <1>6, <1>7

\* recv behind the ring: the receiver goes on at the oldest event after a Gap.
LEMMA RecvLaggedKeepsIInv ==
  ASSUME IInv, NEW s \in Subs, RecvLagged(s)
  PROVE  IInv'
<1> USE DEF stateVars, taskVars, logVars
<1>1. TypeInv /\ TailInv(s) /\ PosInv(s)
  BY Zenon DEF IInv, SubInv, RecvLagged
<1>2. /\ sub[s] = "open" /\ emit_terminal_event[s] = "none" /\ Len(sent) - next[s] > RingSize
      /\ next' = [next EXCEPT ![s] = Len(sent) - RingSize]
      /\ UNCHANGED <<closed, read_error, sent, pc, produced, stream, sub, emit_terminal_event>>
  BY Zenon DEF RecvLagged, Lagged
<1>3. /\ next'[s] = Len(sent) - RingSize /\ next[s] \in Nat /\ Len(sent) \in Nat
      /\ next'[s] \in Nat
  BY <1>1, <1>2, RingNotEmpty DEF TypeInv
<1>4. /\ outcome[s] = "open" /\ outcome' = outcome /\ pos' = pos
      /\ gapped' = [gapped EXCEPT ![s] = TRUE]
      /\ Due(s)' > pos[s]
  BY Zenon, GapObserved
<1>5. gapped' \in [Subs -> BOOLEAN] /\ gapped'[s]
  BY <1>1, <1>4, Zenon DEF TypeInv
<1>6. TypeInv'
  BY Zenon, <1>1, <1>2, <1>3, <1>4, <1>5 DEF TypeInv
<1>7. Ended' = Ended /\ LastSeq' = LastSeq /\ Ahead(s)' \subseteq Ahead(s)
  BY <1>2, <1>3, RingNotEmpty DEF Ended, LastSeq, Ahead
<1>8. TailInv(s)'
  BY <1>1, <1>2, <1>3, <1>7, RingNotEmpty DEF TailInv
<1>9. PosInv(s)'
  BY Zenon, <1>2, <1>4, <1>5 DEF PosInv, Terminals
<1>10. SubInv(s)' /\ IdleInv(s)'
  BY Zenon, <1>2, <1>8, <1>9 DEF SubInv, IdleInv
<1> QED
  BY Zenon, <1>1, <1>2, <1>4, <1>6, <1>10, OneSubscriptionKeepsIInv DEF TypeInv

\* recv on a drained channel without senders: nothing is ahead any more.
LEMMA RecvClosedKeepsIInv ==
  ASSUME IInv, NEW s \in Subs, RecvClosed(s)
  PROVE  IInv'
<1> USE DEF RecvClosed, AllSendersGone, stateVars, taskVars, subVars, logVars
<1>1. TypeInv /\ TailInv(s) /\ PosInv(s)
  BY Zenon DEF IInv, SubInv
<1>2. TypeInv'
  BY Zenon, <1>1 DEF TypeInv
<1>3. Ended' = Ended /\ LastSeq' = LastSeq /\ Ahead(s)' = {} /\ Ahead(s) = {}
  BY <1>1 DEF Ended, LastSeq, Ahead, TypeInv
<1>4. outcome'[s] # "open" /\ (outcome'[s] = "none" \/ outcome'[s] = outcome[s])
  BY Zenon, <1>1 DEF TypeInv
<1>5. TailInv(s)'
  BY Zenon, <1>1, <1>3 DEF TailInv
<1>6. PosInv(s)'
  BY Zenon, <1>1, <1>3, <1>4 DEF PosInv, Terminals
<1>7. SubInv(s)' /\ IdleInv(s)'
  BY Zenon, <1>5, <1>6 DEF SubInv, IdleInv
<1> QED
  BY Zenon, <1>1, <1>2, <1>7, OneSubscriptionKeepsIInv DEF TypeInv

\* Every step of the fast path keeps the invariant.
LEMMA NextKeepsIInv ==
  IInv /\ [Next]_vars => IInv'
<1> SUFFICES ASSUME IInv, [Next]_vars PROVE IInv'
  BY Zenon
<1>1. ASSUME NEW s \in Subs, Recv(s) PROVE IInv'
  BY Zenon, <1>1, RecvTerminalKeepsIInv, RecvEventKeepsIInv, RecvLaggedKeepsIInv, RecvClosedKeepsIInv
     DEF Recv
<1>2. CASE UNCHANGED vars
  <2>1. ASSUME NEW s \in Subs PROVE SubInv(s)' /\ IdleInv(s)'
    BY Zenon, <1>2 DEF IInv, SubInv, TailInv, PosInv, IdleInv, Ahead, LastSeq, Due, Ended,
                vars, stateVars, taskVars, subVars, logVars, histVars
  <2> QED
    BY Zenon, <1>2, <2>1 DEF IInv, TypeInv, ReaderInv, vars, stateVars, taskVars, subVars, logVars, histVars
<1> QED
  BY Zenon, <1>1, <1>2, SendChunkKeepsIInv, SendErrorKeepsIInv, ReadEofKeepsIInv, ReaderOthersKeepIInv,
     TrySubscribeKeepsIInv, DropSubscriptionKeepsIInv
     DEF Next, Reader, Finished

-----------------------------------------------------------------------------
(* The refinement *)

Phases == [s \in Subs |-> Phase(s)]

\* Where nobody attaches, ends or leaves, no phase changes; where s does, only its
\* own.
LEMMA PhaseSteps ==
  /\ UNCHANGED <<sub, outcome>> => UNCHANGED Phases
  /\ \A s \in Subs :
       (\A t \in Subs \ {s} : sub'[t] = sub[t] /\ outcome'[t] = outcome[t]) =>
         Phases' = [Phases EXCEPT ![s] = Phase(s)']
<1>1. UNCHANGED <<sub, outcome>> => UNCHANGED Phases
  BY Zenon DEF Phases, Phase
<1>2. ASSUME NEW s \in Subs,
             \A t \in Subs \ {s} : sub'[t] = sub[t] /\ outcome'[t] = outcome[t]
      PROVE  Phases' = [Phases EXCEPT ![s] = Phase(s)']
  <2>1. ASSUME NEW t \in Subs \ {s} PROVE Phase(t)' = Phase(t)
    BY Zenon, <1>2 DEF Phase
  <2> QED
    BY Zenon, <2>1 DEF Phases
<1> QED
  BY Zenon, <1>1, <1>2

\* The reader ingests chunks and finishes the stream; its other steps do not show.
LEMMA ReaderRefines ==
  ASSUME IInv, Reader \/ ReadEof \/ ReadFails \/ ReaderCancelled \/ \E n \in 1..MaxRead : ReadBytes(n)
  PROVE  ES!Next \/ UNCHANGED ES!vars
<1> USE DEF stateVars, taskVars, subVars, histVars, logVars
<1>1. TypeInv /\ ReaderInv
  BY Zenon DEF IInv
<1>2. /\ UNCHANGED <<sub, outcome, pos, gapped, stream>>
      /\ UNCHANGED Phases
  BY Zenon, PhaseSteps DEF Reader, SendChunk, SendError, ReadEof, ReadFails, ReaderCancelled, ReadBytes
<1>3. UNCHANGED (stream = "dropped")
  BY Zenon, <1>2
<1>4. CASE SendChunk
  <2>1. Ended = "no" /\ Ended' = "no" /\ produced' \in Nat /\ produced' > produced
    BY <1>1, <1>4, EndedValues DEF SendChunk, ReaderInv, TypeInv, Ended
  <2>2. ES!Ingest
    BY Zenon, <1>2, <1>3, <2>1 DEF ES!Ingest, Phases
  <2> QED
    BY Zenon, <2>2 DEF ES!Next
<1>5. CASE ReadEof \/ ReadFails
  <2>1. Ended = "no" /\ Ended' \in Terminals /\ produced' = produced
    BY Zenon, <1>1, <1>5, EndedValues DEF ReadEof, ReadFails, ReaderInv, TypeInv, Ended, Terminals
  <2>2. ES!Finish
    BY Zenon, <1>2, <1>3, <2>1 DEF ES!Finish, ES!Terminals, Terminals, Phases
  <2> QED
    BY Zenon, <2>2 DEF ES!Next
<1>6. CASE SendError \/ ReaderCancelled \/ \E n \in 1..MaxRead : ReadBytes(n)
  <2>1. UNCHANGED <<produced, Ended>>
    BY <1>6 DEF SendError, ReaderCancelled, ReadBytes, Ended
  <2> QED
    BY Zenon, <1>2, <1>3, <2>1 DEF ES!vars, Phases
<1> QED
  BY Zenon, <1>4, <1>5, <1>6 DEF Reader

\* What recv returns is what an EventStream lets a subscription observe, up to its
\* terminal event; a repetition of that event does not show.
LEMMA RecvRefines ==
  ASSUME IInv, NEW s \in Subs, Recv(s)
  PROVE  ES!Next \/ UNCHANGED ES!vars
<1> USE DEF stateVars, taskVars, subVars, logVars
<1>1. TypeInv
  BY Zenon DEF IInv
<1>2. /\ sub[s] = "open" /\ UNCHANGED <<closed, read_error, produced, stream, sub>>
      /\ \A t \in Subs \ {s} : outcome'[t] = outcome[t]
  BY Zenon, <1>1 DEF Recv, RecvTerminal, RecvEvent, RecvLagged, RecvClosed, Returns, TypeInv
<1>3. UNCHANGED (stream = "dropped") /\ UNCHANGED Ended
  BY Zenon, <1>2 DEF Ended
<1>4. Phases[s] = IF outcome[s] = "open" THEN "open" ELSE "ended"
  BY Zenon, <1>2 DEF Phases, Phase
<1>5. Phases' = [Phases EXCEPT ![s] = Phase(s)']
  BY Zenon, <1>2, PhaseSteps
<1>6. outcome'[s] # "open" => Phase(s)' = "ended"
  BY Zenon, <1>2 DEF Phase
<1>7. ASSUME outcome[s] = "open", outcome'[s] # "open", Ended \in Terminals,
             pos[s] = produced \/ gapped[s], UNCHANGED <<pos, gapped>>
      PROVE  ES!Next
  <2>1. ES!ObserveEnd(s)
    BY <1>2, <1>3, <1>4, <1>5, <1>6, <1>7, Zenon
       DEF ES!ObserveEnd, ES!Terminals, Terminals, Phases
  <2> QED
    BY Zenon, <2>1 DEF ES!Next, ES!Observe
<1>8. ASSUME UNCHANGED <<outcome, pos, gapped>>
      PROVE  UNCHANGED ES!vars
  <2>1. UNCHANGED Phases
    BY Zenon, <1>2, <1>8, PhaseSteps
  <2> QED
    BY Zenon, <1>2, <1>3, <1>8, <2>1 DEF ES!vars, Phases
<1>9. CASE RecvTerminal(s)
  <2>1. /\ outcome[s] = "open" /\ outcome' = [outcome EXCEPT ![s] = Ended]
        /\ Ended \in Terminals /\ pos[s] = produced /\ UNCHANGED <<pos, gapped>>
    BY Zenon, <1>9, TerminalObserved
  <2>2. outcome'[s] # "open"
    BY Zenon, <1>1, <2>1 DEF TypeInv, Terminals
  <2> QED
    BY Zenon, <1>7, <2>1, <2>2
<1>10. CASE RecvEvent(s) /\ sent[next[s] + 1].ev = "chunk"
  <2>1. /\ outcome[s] = "open" /\ UNCHANGED outcome
        /\ Due(s) \in pos[s]..(produced - 1)
        /\ Due(s) = pos[s] \/ gapped[s]
        /\ pos' = [pos EXCEPT ![s] = Due(s) + 1]
        /\ gapped' = [gapped EXCEPT ![s] = FALSE]
    BY Zenon, <1>10, ChunkObserved
  <2>2. Due(s) >= 0
    BY <1>1, <2>1 DEF TypeInv
  <2>3. UNCHANGED Phases
    BY Zenon, <1>2, <2>1, PhaseSteps
  <2>4. ES!ObserveChunk(s)
    BY <1>2, <1>3, <1>4, <2>1, <2>2, <2>3, Zenon DEF ES!ObserveChunk, Phases
  <2> QED
    BY Zenon, <2>4 DEF ES!Next, ES!Observe
<1>11. CASE RecvEvent(s) /\ sent[next[s] + 1].ev # "chunk"
  <2>1. /\ Ended \in Terminals
        /\ outcome' = IF outcome[s] = "open" THEN [outcome EXCEPT ![s] = Ended] ELSE outcome
        /\ outcome[s] = "open" => pos[s] = produced \/ gapped[s]
        /\ UNCHANGED <<pos, gapped>>
    BY Zenon, <1>11, EndObserved
  <2>2. CASE outcome[s] = "open"
    <3>1. outcome'[s] # "open"
      BY Zenon, <1>1, <2>1, <2>2 DEF TypeInv, Terminals
    <3> QED
      BY Zenon, <1>7, <2>1, <2>2, <3>1
  <2>3. CASE outcome[s] # "open"
    BY Zenon, <1>8, <2>1, <2>3
  <2> QED
    BY Zenon, <2>2, <2>3
<1>12. CASE RecvLagged(s)
  <2>1. /\ outcome[s] = "open" /\ UNCHANGED <<outcome, pos>>
        /\ gapped' = [gapped EXCEPT ![s] = TRUE] /\ pos[s] < produced
    BY Zenon, <1>12, GapObserved
  <2>2. UNCHANGED Phases
    BY Zenon, <1>2, <2>1, PhaseSteps
  <2>3. ES!ObserveGap(s)
    BY <1>2, <1>3, <1>4, <2>1, <2>2, Zenon DEF ES!ObserveGap, Phases
  <2> QED
    BY Zenon, <2>3 DEF ES!Next, ES!Observe
<1>13. CASE RecvClosed(s)
  <2>1. /\ stream = "dropped" /\ UNCHANGED <<pos, gapped>>
        /\ outcome' = [outcome EXCEPT ![s] = IF outcome[s] = "open" THEN "none" ELSE outcome[s]]
    BY Zenon, <1>13 DEF RecvClosed, AllSendersGone
  <2>2. CASE outcome[s] = "open"
    <3>1. outcome'[s] # "open"
      BY Zenon, <1>1, <2>1, <2>2 DEF TypeInv
    <3>2. ES!ObserveCut(s)
      BY <1>2, <1>3, <1>4, <1>5, <1>6, <2>1, <2>2, <3>1, Zenon DEF ES!ObserveCut, Phases
    <3> QED
      BY Zenon, <3>2 DEF ES!Next, ES!Observe
  <2>3. CASE outcome[s] # "open"
    <3>1. outcome' = outcome
      BY Zenon, <1>1, <2>1, <2>3 DEF TypeInv
    <3> QED
      BY Zenon, <1>8, <2>1, <3>1
  <2> QED
    BY Zenon, <2>2, <2>3
<1> QED
  BY Zenon, <1>9, <1>10, <1>11, <1>12, <1>13 DEF Recv

\* try_subscribe attaches, the drop of a subscription leaves, and the drop of the
\* stream cuts it.
LEMMA OwnersRefine ==
  ASSUME IInv, DropStream \/ \E s \in Subs : TrySubscribe(s) \/ DropSubscription(s)
  PROVE  ES!Next \/ UNCHANGED ES!vars
<1> USE DEF stateVars, taskVars, subVars, logVars, histVars
<1>1. TypeInv
  BY Zenon DEF IInv
<1>2. UNCHANGED <<Ended, produced, gapped>>
  BY DEF DropStream, TrySubscribe, DropSubscription, Ended
<1>3. CASE DropStream
  <2>1. stream = "alive" /\ stream' = "dropped" /\ UNCHANGED <<pos, Phases>>
    BY Zenon, <1>3, PhaseSteps DEF DropStream
  <2>2. ~(stream = "dropped") /\ (stream' = "dropped") = TRUE
    BY Zenon, <2>1
  <2>3. ES!Cut
    BY Zenon, <1>2, <2>1, <2>2 DEF ES!Cut, Phases
  <2> QED
    BY Zenon, <2>3 DEF ES!Next
<1>4. ASSUME NEW s \in Subs, TrySubscribe(s) PROVE ES!Next
  <2>1. /\ Phases[s] = "idle" /\ Phase(s)' = "open"
        /\ pos' = [pos EXCEPT ![s] = produced] /\ produced \in 0..produced
    BY <1>1, <1>4 DEF TrySubscribe, Phases, Phase, IInv, IdleInv, TypeInv
  <2>2. Phases' = [Phases EXCEPT ![s] = "open"]
    BY <1>1, <1>4, <2>1, PhaseSteps DEF TrySubscribe, TypeInv
  <2>3. UNCHANGED (stream = "dropped")
    BY Zenon, <1>4 DEF TrySubscribe
  <2>4. ES!Attach(s)
    BY <1>2, <2>1, <2>2, <2>3, Zenon DEF ES!Attach, Phases
  <2> QED
    BY Zenon, <2>4 DEF ES!Next
<1>5. ASSUME NEW s \in Subs, DropSubscription(s) PROVE ES!Next
  <2>1. Phases[s] \in {"open", "ended"} /\ Phase(s)' = "left" /\ UNCHANGED pos
    BY Zenon, <1>1, <1>5 DEF DropSubscription, Phases, Phase, TypeInv
  <2>2. Phases' = [Phases EXCEPT ![s] = "left"]
    BY <1>1, <1>5, <2>1, PhaseSteps DEF DropSubscription, TypeInv
  <2>3. UNCHANGED (stream = "dropped")
    BY Zenon, <1>5 DEF DropSubscription
  <2>4. ES!Leave(s)
    BY <1>2, <2>1, <2>2, <2>3, Zenon DEF ES!Leave, Phases
  <2> QED
    BY Zenon, <2>4 DEF ES!Next
<1> QED
  BY Zenon, <1>3, <1>4, <1>5

\* The fast path has an inductive invariant: what lies ahead of a receiver in the
\* channel is a run of consecutive events, and its first is the one the receiver
\* is to observe next, or a later one after a Gap.
THEOREM FastInvariant == Spec => []IInv
<1>1. Init => IInv
  BY Zenon, InitIInv
<1>2. IInv /\ [Next]_vars => IInv'
  BY Zenon, NextKeepsIInv
<1> QED
  BY <1>1, <1>2, PTL DEF Spec

\* read_chunked_fast, try_subscribe and recv on a Tokio broadcast channel implement
\* EventStream: a subscription observes the chunks from where it attached, in
\* order, none overwritten in the ring without a Gap, and the end only after the
\* last, whatever the number of subscriptions and the size of the ring.
THEOREM FastImplementsEventStream == Spec => ImplementsEventStream
<1>1. Init => ES!Init
  <2> SUFFICES ASSUME Init PROVE ES!Init
    BY Zenon
  <2>1. TypeInv
    BY Zenon, InitIInv DEF IInv
  <2>2. Ended = "no" /\ Phases = [s \in Subs |-> "idle"] /\ (stream = "dropped") = FALSE
    BY Zenon DEF Init, Ended, Phases, Phase
  <2> QED
    BY <2>2, Zenon DEF Init, ES!Init, Phases
<1>2. IInv /\ [Next]_vars => [ES!Next]_(ES!vars)
  <2> SUFFICES ASSUME IInv, [Next]_vars PROVE ES!Next \/ UNCHANGED ES!vars
    BY Zenon
  <2>1. CASE UNCHANGED vars
    <3>1. UNCHANGED <<produced, Ended, stream = "dropped", Phases, pos, gapped>>
      BY Zenon, <2>1, PhaseSteps DEF vars, stateVars, subVars, logVars, histVars, Ended
    <3> QED
      BY Zenon, <3>1 DEF ES!vars, Phases
  <2> QED
    BY Zenon, <2>1, ReaderRefines, RecvRefines, OwnersRefine DEF Next, Finished
<1>3. Spec => []IInv
  BY Zenon, FastInvariant
<1> QED
  BY <1>1, <1>2, <1>3, PTL DEF Spec, ImplementsEventStream, ES!Spec
=============================================================================
