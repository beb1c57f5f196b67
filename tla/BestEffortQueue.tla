-------------------------- MODULE BestEffortQueue --------------------------
(***************************************************************************)
(* The live queue of one lossy broadcast subscriber: a bounded queue       *)
(* behind a mutex and a Notify.  The reader task pushes, a thread that     *)
(* drops the stream or the subscription closes, the consumer receives.     *)
(* BroadcastFanout takes each of these for one atomic step; here a step is *)
(* one critical section or one operation on the Notify.                    *)
(***************************************************************************)
EXTENDS Naturals, Sequences

CONSTANTS
  Capacity,        \* capacity
  MaxPushes        \* bound: chunks pushed

ASSUME QueueAssumption == Capacity \in Nat \ {0} /\ MaxPushes \in Nat

VARIABLES
  events, closed,  \* BestEffortQueueState
  notified,        \* the receiver's Notified: "none", "enabled" or "woken"
  receiver,        \* "idle", "check", "empty", "await", or "ended" (it got None)
  writer,          \* "idle", "notify" (past its critical section) or "done"
  pushed           \* history: chunks pushed

queueVars == <<events, closed, notified, receiver, writer, pushed>>

\* Who calls push, and who calls close.
Reader == "reader"
Closer == "closer"
Writers == {Reader, Closer}

Terminals == {"eof", "error"}

QueueInit ==
  /\ events = <<>> /\ closed = FALSE
  /\ notified = "none" /\ receiver = "idle"
  /\ writer = [w \in Writers |-> "idle"]
  /\ pushed = 0

-----------------------------------------------------------------------------
(* push, close *)

\* The queue once a chunk is pushed: a full one is cleared for a Gap, and the
\* chunk goes behind it if there is room.
PushedChunk ==
  IF Len(events) < Capacity THEN Append(events, "chunk")
  ELSE IF Capacity > 1 THEN <<"gap", "chunk">>
  ELSE <<"gap">>

PushChunk ==
  /\ writer[Reader] = "idle" /\ ~closed /\ pushed < MaxPushes
  /\ events' = PushedChunk
  /\ pushed' = pushed + 1
  /\ writer' = [writer EXCEPT ![Reader] = "notify"]
  /\ UNCHANGED <<closed, notified, receiver>>

\* A terminal event always has room and closes the queue.
PushTerminal(kind) ==
  /\ writer[Reader] = "idle" /\ ~closed
  /\ events' = Append(events, kind)
  /\ closed' = TRUE
  /\ writer' = [writer EXCEPT ![Reader] = "notify"]
  /\ UNCHANGED <<notified, receiver, pushed>>

\* push returns false: the caller forgets the subscriber.
PushRefused ==
  /\ writer[Reader] = "idle" /\ closed
  /\ writer' = [writer EXCEPT ![Reader] = "done"]
  /\ UNCHANGED <<events, closed, notified, receiver, pushed>>

\* Mutant: close wakes nobody.
Close_Silent ==
  /\ writer[Closer] = "idle"
  /\ closed' = TRUE
  /\ writer' = [writer EXCEPT ![Closer] = "done"]
  /\ UNCHANGED <<events, notified, receiver, pushed>>

Close ==
  /\ writer[Closer] = "idle"
  /\ closed' = TRUE
  /\ writer' = [writer EXCEPT ![Closer] = "notify"]
  /\ UNCHANGED <<events, notified, receiver, pushed>>

\* Notify::notify_waiters wakes the receiver that waits now; nothing is kept for
\* one that comes later.
NotifyWaiters(w) ==
  /\ writer[w] = "notify"
  /\ writer' = [writer EXCEPT ![w] = IF w = Closer THEN "done" ELSE "idle"]
  /\ notified' = IF notified = "enabled" THEN "woken" ELSE notified
  /\ UNCHANGED <<events, closed, receiver, pushed>>

-----------------------------------------------------------------------------
(* recv *)

RecvBegin ==
  /\ receiver = "idle"
  /\ receiver' = "check" /\ notified' = "enabled"
  /\ UNCHANGED <<events, closed, writer, pushed>>

\* The critical section: an event, or the end.
RecvPops ==
  /\ receiver = "check" /\ events # <<>>
  /\ events' = Tail(events)
  /\ receiver' = "idle" /\ notified' = "none"
  /\ UNCHANGED <<closed, writer, pushed>>

RecvNone ==
  /\ receiver = "check" /\ events = <<>> /\ closed
  /\ receiver' = "ended" /\ notified' = "none"
  /\ UNCHANGED <<events, closed, writer, pushed>>

\* Nothing there: the lock is released, ...
RecvEmpty ==
  /\ receiver = "check" /\ events = <<>> /\ ~closed
  /\ receiver' = "empty"
  /\ UNCHANGED <<events, closed, notified, writer, pushed>>

\* Mutant: a Notified made now is awaited, not the one made before the look.
RecvAwaits_Anew ==
  /\ receiver = "empty"
  /\ receiver' = "await" /\ notified' = "enabled"
  /\ UNCHANGED <<events, closed, writer, pushed>>

\* ... and the Notified is awaited.
RecvAwaits ==
  /\ receiver = "empty"
  /\ receiver' = "await"
  /\ UNCHANGED <<events, closed, notified, writer, pushed>>

\* Woken: the loop makes and enables the next Notified.
RecvWoken ==
  /\ receiver = "await" /\ notified = "woken"
  /\ receiver' = "check" /\ notified' = "enabled"
  /\ UNCHANGED <<events, closed, writer, pushed>>

\* The future of recv is dropped where it awaits, by a select that prefers
\* another branch.
RecvDropped ==
  /\ receiver = "await"
  /\ receiver' = "idle" /\ notified' = "none"
  /\ UNCHANGED <<events, closed, writer, pushed>>

QueueOver == receiver = "ended" /\ closed /\ UNCHANGED queueVars

Receiver == RecvPops \/ RecvNone \/ RecvEmpty \/ RecvAwaits \/ RecvWoken

QueueNext ==
  \/ PushChunk \/ (\E kind \in Terminals : PushTerminal(kind)) \/ PushRefused
  \/ Close
  \/ \E w \in Writers : NotifyWaiters(w)
  \/ RecvBegin \/ Receiver \/ RecvDropped
  \/ QueueOver

QueueSpec == QueueInit /\ [][QueueNext]_queueVars

\* A push or close under way is finished, and the runtime polls a receiver that
\* can go on.  Nothing makes the reader push, or a consumer call recv.
QueueFairSpec ==
  /\ QueueSpec
  /\ \A w \in Writers : WF_queueVars(NotifyWaiters(w))
  /\ WF_queueVars(Receiver)

-----------------------------------------------------------------------------
(* Properties *)

\* A receiver that sleeps although there is something for it, an event or the
\* end, is about to be woken: nothing that happened between its look into the
\* queue and its await is lost on it.
NoLostWakeup ==
  receiver = "await" /\ notified # "woken" /\ (events # <<>> \/ closed) =>
    \E w \in Writers : writer[w] = "notify"

\* A call of recv returns once there is an event or the end.
RecvReturns ==
  receiver \in {"check", "empty", "await"} /\ (events # <<>> \/ closed)
    ~> receiver \in {"idle", "ended"}
============================================================================
