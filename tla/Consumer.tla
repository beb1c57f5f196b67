----------------------------- MODULE Consumer -----------------------------
(***************************************************************************)
(* Consumers: a spawned task that drives a visitor over a subscription     *)
(* until the stream ends, the visitor breaks or the task is told to stop,  *)
(* and the handle that waits for it, cancels it, aborts it or is dropped.  *)
(*                                                                         *)
(* What the visitor collects is abstracted to whether it saw the stream to *)
(* its end.  A step of the task is one poll; an async visitor may stay in  *)
(* its callback for ever.                                                  *)
(***************************************************************************)
EXTENDS Naturals

CONSTANTS
  Consumers,       \* the consumers, each on a stream of its own
  MayBreak         \* the visitors may return Next::Break

ASSUME ConsumersAssumption == Consumers # {} /\ MayBreak \in BOOLEAN

VARIABLES
  stream,          \* "open", "eof" (an Eof or None is next) or "error"
  task,            \* "none", "polling" (next_event), "visiting", "finishing" (on_eof) or "done"
  exit,            \* how the task ended
  aborting,        \* JoinHandle::abort was called
  term,            \* task_termination_sender: "held" or "taken" (sent, or dropped)
  handle,          \* JoinHandle: "none", "held", "spent" (held, but it has been awaited) or "gone"
  call,            \* "none", "idle", "waiting", "aborting", "joined" or "over"
  timed,           \* the wait has a deadline
  outcome          \* what the call returns

taskVars == <<stream, task, exit>>
callVars == <<aborting, term, handle, call, timed, outcome>>
consumerVars == <<taskVars, callVars>>

Exits == {"none", "whole", "broke", "stopped", "read_error", "panicked", "cancelled"}

-----------------------------------------------------------------------------
(* The stream and the task: consume_sync and consume_async *)

StreamEnds(c) ==
  /\ stream[c] = "open"
  /\ \E e \in {"eof", "error"} : stream' = [stream EXCEPT ![c] = e]
  /\ UNCHANGED <<task, exit, callVars>>

\* The task ends; its future is dropped, and the subscription with it.
Exit(c, e) ==
  /\ task' = [task EXCEPT ![c] = "done"]
  /\ exit' = [exit EXCEPT ![c] = e]

\* next_event yields a chunk: the visitor is called.
TakeChunk(c) ==
  /\ task[c] = "polling"
  /\ task' = [task EXCEPT ![c] = "visiting"]
  /\ UNCHANGED <<stream, exit, callVars>>

\* on_chunk returns, Continue or Break.
VisitorReturns(c) ==
  /\ task[c] = "visiting"
  /\ \/ task' = [task EXCEPT ![c] = "polling"] /\ UNCHANGED exit
     \/ MayBreak /\ Exit(c, "broke")
  /\ UNCHANGED <<stream, callVars>>

VisitorPanics(c) ==
  /\ task[c] \in {"visiting", "finishing"}
  /\ Exit(c, "panicked")
  /\ UNCHANGED <<stream, callVars>>

\* next_event yields the end of the stream.
TakeEnd(c) ==
  /\ task[c] = "polling"
  /\ \/ stream[c] = "eof" /\ task' = [task EXCEPT ![c] = "finishing"] /\ UNCHANGED exit
     \/ stream[c] = "error" /\ Exit(c, "read_error")
  /\ UNCHANGED <<stream, callVars>>

\* on_eof returns.
Finish(c) ==
  /\ task[c] = "finishing"
  /\ Exit(c, "whole")
  /\ UNCHANGED <<stream, callVars>>

\* The other branch of the select: the sender was used or dropped.
TakeTermination(c) ==
  /\ task[c] = "polling" /\ term[c] = "taken"
  /\ Exit(c, "stopped")
  /\ UNCHANGED <<stream, callVars>>

\* Tokio cancels an aborted task where it yields.
TaskAborted(c) ==
  /\ aborting[c] /\ task[c] \in {"polling", "visiting", "finishing"}
  /\ Exit(c, "cancelled")
  /\ UNCHANGED <<stream, callVars>>

-----------------------------------------------------------------------------
(* The handle *)

\* spawn_consumer_sync and spawn_consumer_async.
Spawned(c) ==
  /\ task' = [task EXCEPT ![c] = "polling"]
  /\ handle' = [handle EXCEPT ![c] = "held"]
  /\ call' = [call EXCEPT ![c] = "idle"]
  /\ UNCHANGED <<stream, exit, aborting, term, timed, outcome>>

\* Mutant: cancelling a pending wait detaches the task.
Dropped_Detaches(S) ==
  /\ term' = term
  /\ aborting' = aborting
  /\ handle' = [c \in Consumers |-> IF c \in S THEN "gone" ELSE handle[c]]
  /\ call' = [c \in Consumers |-> IF c \in S THEN "over" ELSE call[c]]

\* Drop of the Consumers or ConsumerWaitGuards in S: signal, and abort what is
\* still there.
Dropped(S) ==
  /\ term' = [c \in Consumers |-> IF c \in S THEN "taken" ELSE term[c]]
  /\ aborting' = [c \in Consumers |->
                    aborting[c] \/ (c \in S /\ handle[c] \in {"held", "spent"})]
  /\ handle' = [c \in Consumers |-> IF c \in S THEN "gone" ELSE handle[c]]
  /\ call' = [c \in Consumers |-> IF c \in S THEN "over" ELSE call[c]]

\* Mutant: a timed-out cancel signals again but does not abort.
BeginAbort_OnlySignals(S) ==
  /\ term' = [c \in Consumers |-> IF c \in S THEN "taken" ELSE term[c]]
  /\ call' = [c \in Consumers |-> IF c \in S THEN "aborting" ELSE call[c]]
  /\ UNCHANGED aborting

\* ConsumerWaitGuard::abort, up to its await.
BeginAbort(S) ==
  /\ term' = [c \in Consumers |-> IF c \in S THEN "taken" ELSE term[c]]
  /\ aborting' = [c \in Consumers |->
                    aborting[c] \/ (c \in S /\ handle[c] \in {"held", "spent"})]
  /\ call' = [c \in Consumers |-> IF c \in S THEN "aborting" ELSE call[c]]

\* ConsumerWaitGuard::wait resolves.  A task that could not be joined leaves its
\* JoinHandle in place.
Join(c) ==
  /\ call[c] = "waiting" /\ task[c] = "done"
  /\ call' = [call EXCEPT ![c] = "joined"]
  /\ IF exit[c] \in {"panicked", "cancelled"}
     THEN /\ outcome' = [outcome EXCEPT ![c] = "join_error"]
          /\ handle' = [handle EXCEPT ![c] = "spent"]
          /\ UNCHANGED term
     ELSE /\ outcome' = [outcome EXCEPT ![c] = exit[c]]
          /\ handle' = [handle EXCEPT ![c] = "gone"]
          /\ term' = [term EXCEPT ![c] = "taken"]
  /\ UNCHANGED <<taskVars, aborting, timed>>

\* wait_until: the deadline passes.
DeadlinePasses(c) ==
  /\ call[c] = "waiting" /\ timed[c]
  /\ BeginAbort({c})
  /\ UNCHANGED <<taskVars, handle, timed, outcome>>

\* Mutant: abort does not await the task.
AbortJoined_NotAwaited(c) ==
  /\ call[c] = "aborting" /\ handle[c] \in {"held", "gone"}
  /\ handle' = [handle EXCEPT ![c] = "gone"]
  /\ call' = [call EXCEPT ![c] = "joined"]
  /\ outcome' = [outcome EXCEPT ![c] = "aborted"]

\* ConsumerWaitGuard::abort awaits the task and ends.
AbortJoined(c) ==
  /\ call[c] = "aborting"
  /\ handle[c] = "gone" \/ (handle[c] = "held" /\ task[c] = "done")
  /\ handle' = [handle EXCEPT ![c] = "gone"]
  /\ call' = [call EXCEPT ![c] = "joined"]
  /\ outcome' = [outcome EXCEPT ![c] = "aborted"]

TaskStep(c) ==
  \/ TakeEnd(c) \/ Finish(c) \/ TakeTermination(c) \/ TaskAborted(c)

VisitorStep(c) == TakeChunk(c) \/ VisitorReturns(c) \/ VisitorPanics(c)
=============================================================================
