---------------------------- MODULE OutputDrain ----------------------------
(***************************************************************************)
(* wait_for_completion with output, with or without or_terminate: start a  *)
(* collector on stdout and on stderr, wait for the process, then drain     *)
(* both collectors against one deadline.                                   *)
(*                                                                         *)
(* The process is abstracted to how its wait ends (module ProcessHandle    *)
(* has the detail).  The select of wait_for_output_consumers is a choice   *)
(* among the wait futures that are ready; its loser is polled no further   *)
(* unless the code does so.                                                *)
(***************************************************************************)
EXTENDS Consumer

CONSTANT Terminates  \* or_terminate: a process that times out is terminated

\* The consumers of this call collect lines or bytes and never break off.
Collecting == Consumers = {"stdout", "stderr"} /\ ~MayBreak /\ Terminates \in BOOLEAN

VARIABLES
  pc,              \* where the call is
  deadline,        \* the drain's deadline: "unset", "ahead" or "passed"
  winner,          \* the collector whose wait resolved first
  result           \* what the call returns; decided before the sibling is aborted

drainVars == <<consumerVars, pc, deadline, winner, result>>

Other(c) == CHOOSE d \in Consumers : d # c

\* The collectors are not started; the streams are open.
DrainInit ==
  /\ Collecting
  /\ stream = [c \in Consumers |-> "open"]
  /\ task = [c \in Consumers |-> "none"]
  /\ exit = [c \in Consumers |-> "none"]
  /\ aborting = [c \in Consumers |-> FALSE]
  /\ term = [c \in Consumers |-> "held"]
  /\ handle = [c \in Consumers |-> "none"]
  /\ call = [c \in Consumers |-> "none"]
  /\ timed = [c \in Consumers |-> FALSE]
  /\ outcome = [c \in Consumers |-> "none"]
  /\ pc = "stdout" /\ deadline = "unset" /\ winner = "none" /\ result = "none"

-----------------------------------------------------------------------------
(* try_spawn_output_collectors *)

SubscribeStdout ==
  /\ pc = "stdout"
  /\ \/ Spawned("stdout") /\ pc' = "stderr" /\ UNCHANGED result
     \/ /\ pc' = "over" /\ result' = "start_failed"
        /\ UNCHANGED consumerVars
  /\ UNCHANGED <<deadline, winner>>

\* Mutant: the stdout collector is dropped, not aborted, when stderr fails.
StderrRefused_OnlyDrops ==
  /\ Dropped({"stdout"})
  /\ pc' = "over"

\* The stdout collector is aborted before the error is returned.
StderrRefused ==
  /\ BeginAbort({"stdout"})
  /\ pc' = "abort" /\ UNCHANGED handle

SubscribeStderr ==
  /\ pc = "stderr"
  /\ \/ Spawned("stderr") /\ pc' = "process" /\ UNCHANGED result
     \/ /\ StderrRefused
        /\ result' = "start_failed"
        /\ UNCHANGED <<taskVars, timed, outcome>>
  /\ UNCHANGED <<deadline, winner>>

-----------------------------------------------------------------------------
(* The wait for the process *)

\* Exited, or terminated after the time-out: both collectors get one deadline.
ProcessEnds ==
  /\ pc = "process"
  /\ pc' = "drain" /\ deadline' = "ahead"
  /\ call' = [c \in Consumers |-> "waiting"]
  /\ timed' = [c \in Consumers |-> TRUE]
  /\ UNCHANGED <<taskVars, aborting, term, handle, outcome, winner, result>>

\* Without or_terminate a time-out aborts both collectors.
ProcessTimesOut ==
  /\ pc = "process" /\ ~Terminates
  /\ BeginAbort(Consumers)
  /\ pc' = "abort" /\ result' = "process_timeout"
  /\ UNCHANGED <<taskVars, handle, timed, outcome, deadline, winner>>

\* The wait fails: the collectors are dropped.
ProcessWaitFails ==
  /\ pc = "process"
  /\ Dropped(Consumers)
  /\ pc' = "over" /\ result' = "wait_failed"
  /\ UNCHANGED <<taskVars, timed, outcome, deadline, winner>>

-----------------------------------------------------------------------------
(* wait_for_output_consumers *)

DeadlineElapses ==
  /\ deadline = "ahead"
  /\ deadline' = "passed"
  /\ UNCHANGED <<consumerVars, pc, winner, result>>

\* The collectors whose wait_until is polled: the select polls no further once one
\* has resolved.
Polled ==
  CASE pc = "drain" /\ (\A c \in Consumers : call[c] # "joined") -> Consumers
    [] pc = "rest" -> {Other(winner)}
    [] OTHER -> {}

\* A poll of wait_until: the task is joined, or the deadline aborts it; which one,
\* when both can be, is the select's choice.
PollJoin(c) ==
  /\ c \in Polled
  /\ Join(c)
  /\ UNCHANGED <<pc, deadline, winner, result>>

\* Mutant: the deadline covers the first collector only.
PollDeadline_FirstOnly(c) ==
  /\ pc = "drain" /\ c \in Polled /\ deadline = "passed"
  /\ DeadlinePasses(c)
  /\ UNCHANGED <<pc, deadline, winner, result>>

PollDeadline(c) ==
  /\ c \in Polled /\ deadline = "passed"
  /\ DeadlinePasses(c)
  /\ UNCHANGED <<pc, deadline, winner, result>>

\* The abort of collector c has joined its task.
PollAbort(c) ==
  /\ c \in Polled \/ pc = "abort"
  /\ AbortJoined(c)
  /\ UNCHANGED <<taskVars, aborting, term, timed, pc, deadline, winner, result>>

\* Mutant: whatever is ready is taken for an error.
TakeReadyError_AnyResult(c) ==
  \/ Join(c) /\ result' = "collection"
  \/ call[c] = "waiting" /\ DeadlinePasses(c) /\ result' = "timeout"
  \/ call[c] = "aborting" /\ result' = "timeout" /\ UNCHANGED consumerVars

\* take_ready_error_or_timeout: one poll of the sibling, whose deadline has passed
\* as well, so that it is joined or being aborted afterwards.
TakeReadyError(c) ==
  \/ /\ Join(c)
     /\ result' = IF outcome'[c] \in {"read_error", "join_error"} THEN "collection" ELSE "timeout"
  \/ call[c] = "waiting" /\ DeadlinePasses(c) /\ result' = "timeout"
  \/ call[c] = "aborting" /\ result' = "timeout" /\ UNCHANGED consumerVars

\* Mutant: the second collector is not waited for.
FirstSink_Suffices == pc' = "return" /\ result' = "ok"

\* The first collector is done: the other one is drained until the same deadline.
FirstSink == pc' = "rest" /\ UNCHANGED result

\* The select takes the first wait to resolve.
FirstResolves(c) ==
  /\ pc = "drain" /\ call[c] = "joined"
  /\ winner' = c
  /\ \/ /\ outcome[c] \in {"whole", "broke", "stopped"}
        /\ FirstSink
        /\ UNCHANGED consumerVars
     \/ /\ outcome[c] \in {"read_error", "join_error"}
        /\ pc' = "sibling" /\ result' = "collection"
        /\ UNCHANGED consumerVars
     \/ /\ outcome[c] = "aborted"
        /\ TakeReadyError(Other(c))
        /\ pc' = "sibling"
  /\ UNCHANGED deadline

\* drain_remaining_consumer.
RestResolves ==
  /\ pc = "rest" /\ call[Other(winner)] = "joined"
  /\ pc' = "return"
  /\ result' = CASE outcome[Other(winner)] = "aborted" -> "timeout"
                 [] outcome[Other(winner)] \in {"read_error", "join_error"} -> "collection"
                 [] OTHER -> "ok"
  /\ UNCHANGED <<consumerVars, deadline, winner>>

\* AbortStdout, AbortStderr: abort the sibling.
AbortSibling ==
  /\ pc = "sibling"
  /\ pc' = "abort"
  /\ BeginAbort({Other(winner)})
  /\ UNCHANGED <<taskVars, handle, timed, outcome, deadline, winner, result>>

\* Awaiting a JoinHandle that has resolved before panics.
AbortPanics(c) ==
  /\ pc = "abort" /\ call[c] = "aborting" /\ handle[c] = "spent"
  /\ pc' = "return" /\ result' = "panic"
  /\ UNCHANGED <<consumerVars, deadline, winner>>

\* Every collector that was being aborted has been.
Aborted ==
  /\ pc = "abort" /\ \A c \in Consumers : call[c] # "aborting"
  /\ pc' = "return"
  /\ UNCHANGED <<consumerVars, deadline, winner, result>>

\* The call returns and the guards are dropped.
ReturnResult ==
  /\ pc = "return"
  /\ pc' = "over"
  /\ Dropped({c \in Consumers : call[c] # "none"})
  /\ UNCHANGED <<taskVars, timed, outcome, deadline, winner, result>>

\* The caller drops the future while it awaits something.
DropFuture ==
  /\ pc \in {"process", "drain", "rest", "abort"}
  /\ pc' = "over" /\ result' = "dropped"
  /\ Dropped({c \in Consumers : call[c] # "none"})
  /\ UNCHANGED <<taskVars, timed, outcome, deadline, winner>>

-----------------------------------------------------------------------------
Call ==
  \/ SubscribeStdout \/ SubscribeStderr
  \/ (\E c \in Consumers : \/ PollJoin(c) \/ PollDeadline(c) \/ PollAbort(c)
                           \/ FirstResolves(c) \/ AbortPanics(c))
  \/ RestResolves \/ AbortSibling \/ Aborted \/ ReturnResult

Process == ProcessEnds \/ ProcessTimesOut \/ ProcessWaitFails

\* The collectors' tasks run on their own.
Tasks(c) == TaskStep(c) /\ UNCHANGED <<pc, deadline, winner, result>>

Environment(c) ==
  (StreamEnds(c) \/ VisitorStep(c)) /\ UNCHANGED <<pc, deadline, winner, result>>

\* The call is over, and so are the tasks it started.
DrainOver ==
  /\ pc = "over" /\ \A c \in Consumers : task[c] \in {"none", "done"} /\ stream[c] # "open"
  /\ UNCHANGED drainVars

DrainNext ==
  \/ Call \/ Process \/ DeadlineElapses \/ DropFuture
  \/ \E c \in Consumers : Tasks(c) \/ Environment(c)
  \/ DrainOver

DrainSpec == DrainInit /\ [][DrainNext]_drainVars

\* The call is polled when it can go on, the deadline elapses, aborted tasks are
\* cancelled.  A grandchild may hold the pipes open: the streams need never end.
DrainFairSpec ==
  /\ DrainSpec
  /\ WF_drainVars(Call) /\ WF_drainVars(DeadlineElapses)
  /\ \A c \in Consumers : WF_drainVars(Tasks(c))

-----------------------------------------------------------------------------
(* Properties *)

Returned == pc = "over" /\ result \notin {"dropped", "wait_failed"}

\* When the call returns a result, no collector it started is still running:
\* both streams can be consumed again, also after stderr could not be subscribed,
\* after a time-out and after the failure of one collector.
NoCollectorOutlivesCall == Returned => \A c \in Consumers : task[c] \in {"none", "done"}

\* Output returned as complete is that of two streams read to their end.
OutputIsWhole ==
  pc = "over" /\ result = "ok" =>
    \A c \in Consumers : outcome[c] = "whole" /\ stream[c] = "eof"

\* The call reports a time-out only past its deadline, and a collection error only
\* if a collector failed on its own.
ErrorsAreReal ==
  /\ result = "timeout" => deadline = "passed"
  /\ result = "collection" => \E c \in Consumers : exit[c] \in {"read_error", "panicked"}

\* Once the process has ended the call returns, whatever the streams do.
DrainReturns == (pc = "drain") ~> (pc = "over")

\* The comment on take_ready_error_or_timeout: a collection error that is ready at
\* the deadline is what the call returns.
ReadyErrorReturned == result # "panic"
=============================================================================
