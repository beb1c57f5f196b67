-------------------------- MODULE ConsumerHandle --------------------------
(***************************************************************************)
(* The public operations of a Consumer, each consuming the handle: wait,   *)
(* cancel with a timeout, abort, and drop, of the handle or of the pending *)
(* future of one of the others.                                            *)
(***************************************************************************)
EXTENDS Consumer

VARIABLE op        \* the operation called on each consumer

vars == <<consumerVars, op>>

\* Every consumer has just been spawned.
Init ==
  /\ stream = [c \in Consumers |-> "open"]
  /\ task = [c \in Consumers |-> "polling"]
  /\ exit = [c \in Consumers |-> "none"]
  /\ aborting = [c \in Consumers |-> FALSE]
  /\ term = [c \in Consumers |-> "held"]
  /\ handle = [c \in Consumers |-> "held"]
  /\ call = [c \in Consumers |-> "idle"]
  /\ timed = [c \in Consumers |-> FALSE]
  /\ outcome = [c \in Consumers |-> "none"]
  /\ op = [c \in Consumers |-> "none"]

\* Mutant: turning the handle into a wait loses the termination sender.
Wait_DropsSender(c) ==
  /\ call[c] = "idle"
  /\ op' = [op EXCEPT ![c] = "wait"]
  /\ term' = [term EXCEPT ![c] = "taken"]
  /\ call' = [call EXCEPT ![c] = "waiting"]
  /\ UNCHANGED <<taskVars, aborting, handle, timed, outcome>>

Wait(c) ==
  /\ call[c] = "idle"
  /\ op' = [op EXCEPT ![c] = "wait"]
  /\ call' = [call EXCEPT ![c] = "waiting"]
  /\ UNCHANGED <<taskVars, aborting, term, handle, timed, outcome>>

Cancel(c) ==
  /\ call[c] = "idle"
  /\ op' = [op EXCEPT ![c] = "cancel"]
  /\ term' = [term EXCEPT ![c] = "taken"]
  /\ timed' = [timed EXCEPT ![c] = TRUE]
  /\ call' = [call EXCEPT ![c] = "waiting"]
  /\ UNCHANGED <<taskVars, aborting, handle, outcome>>

Abort(c) ==
  /\ call[c] = "idle"
  /\ op' = [op EXCEPT ![c] = "abort"]
  /\ BeginAbort({c})
  /\ UNCHANGED <<taskVars, handle, timed, outcome>>

\* The consumer, or the future of a call under way, is dropped.
Drop(c) ==
  /\ call[c] \in {"idle", "waiting", "aborting"}
  /\ op' = [op EXCEPT ![c] = "drop"]
  /\ Dropped({c})
  /\ UNCHANGED <<taskVars, timed, outcome>>

\* The call returns; its guard is dropped.
Return(c) ==
  /\ call[c] = "joined"
  /\ Dropped({c})
  /\ UNCHANGED <<taskVars, timed, outcome, op>>

\* The steps of the caller that its runtime takes on its own.
CallStep(c) ==
  \/ Join(c) /\ UNCHANGED op
  \/ DeadlinePasses(c) /\ UNCHANGED op
  \/ AbortJoined(c) /\ UNCHANGED <<taskVars, aborting, term, timed, op>>
  \/ Return(c)

Step(c) ==
  \/ StreamEnds(c) /\ UNCHANGED op
  \/ TaskStep(c) /\ UNCHANGED op
  \/ VisitorStep(c) /\ UNCHANGED op
  \/ Wait(c) \/ Cancel(c) \/ Abort(c) \/ Drop(c)
  \/ CallStep(c)

\* Every call is over and every task has ended.
Finished ==
  /\ \A c \in Consumers : call[c] = "over" /\ task[c] = "done" /\ stream[c] # "open"
  /\ UNCHANGED vars

Next == (\E c \in Consumers : Step(c)) \/ Finished

Spec == Init /\ [][Next]_vars

\* The runtime polls ready tasks, cancels aborted ones and fires timers; a visitor
\* may stay in its callback, and the stream need never end.
FairSpec ==
  /\ Spec
  /\ \A c \in Consumers : WF_vars(CallStep(c)) /\ WF_vars(TaskStep(c) /\ UNCHANGED op)

-----------------------------------------------------------------------------
(* Properties *)

\* When wait, cancel or abort returns, the task has ended and released its
\* subscription: a single-subscriber stream can be subscribed to again.
ReturnReleasesClaim ==
  \A c \in Consumers : call[c] = "over" /\ op[c] # "drop" => task[c] = "done"

\* wait never returns a sink of a task that was told to stop, and a sink it
\* returns has seen the end of the stream unless the visitor broke off.
WaitReturnsWholeSink ==
  \A c \in Consumers :
    op[c] = "wait" /\ outcome[c] # "none" =>
      /\ outcome[c] \notin {"stopped", "aborted"}
      /\ outcome[c] = "whole" => stream[c] = "eof"

\* cancel and abort return although a callback may never do and the stream may
\* never end.
CancelReturns ==
  \A c \in Consumers : op[c] \in {"cancel", "abort"} ~> call[c] = "over"

\* The task of a dropped consumer, or of a dropped wait, comes to an end.
DropEndsTask == \A c \in Consumers : op[c] = "drop" ~> task[c] = "done"
=============================================================================
