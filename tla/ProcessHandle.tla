--------------------------- MODULE ProcessHandle ---------------------------
(***************************************************************************)
(* A spawned child and the handle that owns it: waiting, sending signals,  *)
(* terminating in phases, killing, and the guard that kills and panics     *)
(* when the handle is dropped with its lifecycle still open; also the      *)
(* TerminateOnDrop wrapper.                                                *)
(*                                                                         *)
(* Every call takes the handle by &mut, so one call runs at a time; the    *)
(* child, the kernel and the clock interleave with it.  A step is one      *)
(* system call or one completed await.  The kernel may refuse a signal     *)
(* (EPERM, ESRCH) or fail a wait at any time, a probe may miss an exit     *)
(* that Tokio's reaper has not seen, and a timer may fire at any time.     *)
(***************************************************************************)
EXTENDS GracefulShutdown, FiniteSets

CONSTANTS
  Grace,           \* REAP_AFTER_SIGNAL_FAILURE_GRACE
  MaxCalls         \* bound: calls made on the handle before it is dropped

ASSUME HandleAssumption == Grace \in Nat /\ MaxCalls \in Nat

VARIABLES
  platform,        \* what the program was compiled for
  child,           \* "none", "running", "exited" (a zombie) or "reaped" (id() is None)
  stdin,           \* "open" or "closed"
  drop_mode,       \* "armed" or "disarmed"
  owner,           \* "none", "handle", "wrapper" (TerminateOnDrop), "detached" or "dropped"
  fallback,        \* TerminateOnDropFallback of the wrapper
  drop_shutdown,   \* and the policy it terminates with
  context,         \* where the wrapper is dropped
  unwinding,       \* the thread is unwinding from a panic
  \* the call under way
  op, pc,
  shutdown,        \* the GracefulShutdown it was given, if any
  waiting,         \* what the wait under way follows
  phase,           \* index of the termination step
  waited,          \* the most time its graceful waits can have taken
  wait_failed,     \* or_terminate: the first wait failed rather than timed out
  diagnostics,     \* TerminationDiagnostics::attempt_errors, the actions only
  result,          \* how the last call ended
  calls,
  \* history
  attempts,        \* signals this call has tried to send
  delivered,       \* signals the kernel has delivered to the group
  refused,         \* the kernel has refused a kill
  opted_out,       \* the user has detached the process
  reported,        \* a drop has reported that the process was left behind
  panics           \* panics raised by the drop

handleVars == <<stdin, drop_mode>>
wrapperVars == <<fallback, drop_shutdown>>
ownerVars  == <<platform, owner, wrapperVars, context, unwinding>>
opVars     == <<op, shutdown>>
phaseVars  == <<phase, waited>>
callVars   == <<opVars, pc, waiting, phaseVars, wait_failed, diagnostics, result, calls>>
sentVars   == <<attempts, delivered, refused>>
dropVars   == <<opted_out, reported, panics>>
vars == <<child, handleVars, ownerVars, callVars, sentVars, dropVars>>

\* Nothing has been spawned: ProcessSpawn creates the child and its handle.
HandleInit ==
  /\ platform \in Platforms
  /\ child = "none" /\ stdin = "closed" /\ drop_mode = "disarmed"
  /\ owner = "none" /\ fallback = "Panic" /\ drop_shutdown = <<>>
  /\ context = "none" /\ unwinding = FALSE
  /\ op = "none" /\ pc = "idle" /\ shutdown = <<>> /\ waiting = "none"
  /\ phase = 1 /\ waited = 0
  /\ wait_failed = FALSE /\ diagnostics = <<>> /\ result = "none" /\ calls = 0
  /\ attempts = <<>> /\ delivered = {} /\ refused = FALSE
  /\ opted_out = FALSE /\ reported = FALSE /\ panics = 0

-----------------------------------------------------------------------------
(* The kernel *)

ChildExits ==
  /\ child = "running"
  /\ child' = "exited"
  /\ UNCHANGED <<handleVars, ownerVars, callVars, sentVars, dropVars>>

\* ProcessGroup::send_*: nothing is sent once the leader was reaped; else killpg
\* delivers or is refused.
Send(sig, ok) ==
  /\ attempts' = Append(attempts, sig)
  /\ child = "reaped" => ok
  /\ delivered' = IF ok /\ child # "reaped" THEN delivered \cup {sig} ELSE delivered
  /\ refused' = (refused \/ (sig = "SIGKILL" /\ ~ok))

\* ProcessGroup::try_wait.
TryReap(r) ==
  \/ r = "some" /\ child # "running" /\ child' = "reaped"
  \/ r \in {"none", "err"} /\ child # "reaped" /\ UNCHANGED child

Probes == {"some", "none", "err"}

-----------------------------------------------------------------------------
(* Calls *)

\* The handle, or the wrapper that derefs to it, is free for another call.
Idle == owner \in {"handle", "wrapper"} /\ pc = "idle" /\ calls < MaxCalls

Begin(o, policy) ==
  /\ Idle
  /\ calls' = calls + 1
  /\ op' = o /\ shutdown' = policy /\ phase' = 1 /\ waited' = 0 /\ wait_failed' = FALSE
  /\ diagnostics' = <<>> /\ result' = "none" /\ attempts' = <<>>
  /\ UNCHANGED <<child, ownerVars, delivered, refused, dropVars>>

\* The call, or the termination run by the wrapper's drop, is over.
Return(r) ==
  /\ result' = r
  /\ pc' = IF op = "drop" THEN "drop_handle" ELSE "idle"
  /\ waiting' = "none"
  /\ UNCHANGED <<opVars, phaseVars, wait_failed, calls>>

\* The exit status was observed: close the lifecycle.  terminate_after_wait_error
\* still reports the failed wait.
Succeed ==
  /\ drop_mode' = "disarmed"
  /\ Return(IF wait_failed THEN "wait_failed" ELSE "ok")
  /\ UNCHANGED diagnostics

\* Mutant: the guard is disarmed although the termination failed.
Fail_Disarms(action) ==
  /\ diagnostics' = Append(diagnostics, action)
  /\ drop_mode' = "disarmed"
  /\ Return("err")

\* The termination failed: record the action that did, leave the guard armed.
Fail(action) ==
  /\ diagnostics' = Append(diagnostics, action)
  /\ UNCHANGED drop_mode
  /\ Return("err")

\* wait: close stdin, then await the child.
WaitFor(what) == pc' = "waiting" /\ waiting' = what /\ stdin' = "closed"

\* wait_for_completion, without and with or_terminate.
WaitForCompletion(o, policy) ==
  /\ Begin(o, policy)
  /\ WaitFor("completion")
  /\ UNCHANGED drop_mode

Terminate(policy) ==
  /\ Begin("terminate", policy)
  /\ pc' = "preflight"
  /\ UNCHANGED <<waiting, handleVars>>

\* kill and start_kill close stdin first.
Kill(o) ==
  /\ Begin(o, <<>>)
  /\ pc' = o /\ stdin' = "closed"
  /\ UNCHANGED <<waiting, drop_mode>>

SendSignal ==
  /\ Begin("signal", <<>>)
  /\ pc' = "signal_preflight"
  /\ UNCHANGED <<waiting, handleVars>>

\* is_running: reaps, but never disarms.
IsRunning(r) ==
  /\ Idle
  /\ calls' = calls + 1
  /\ TryReap(r)
  /\ UNCHANGED <<handleVars, ownerVars, opVars, pc, waiting, phaseVars, wait_failed>>
  /\ UNCHANGED <<diagnostics, result, sentVars, dropVars>>

\* Stdin::close, called by the user.
CloseStdin ==
  /\ Idle
  /\ calls' = calls + 1
  /\ stdin = "open" /\ stdin' = "closed"
  /\ UNCHANGED <<child, drop_mode, ownerVars, opVars, pc, waiting, phaseVars, wait_failed>>
  /\ UNCHANGED <<diagnostics, result, sentVars, dropVars>>

-----------------------------------------------------------------------------
(* Waiting *)

\* Mutant: the last configured phase is skipped.
NextPhase_SkipsLast ==
  /\ phase' = phase + 1
  /\ pc' = IF phase + 1 < Len(shutdown) THEN "signal" ELSE "forceful"

\* The next graceful phase, or the kill after the last one.
NextPhase ==
  /\ phase' = phase + 1
  /\ pc' = IF phase < Len(shutdown) THEN "signal" ELSE "forceful"

\* This phase failed, at the latest when its wait timed out: go on with the next.
Escalate(actions) ==
  /\ diagnostics' = diagnostics \o actions
  /\ waited' = waited + IF waiting = "phase" THEN shutdown[phase].timeout ELSE Grace
  /\ NextPhase
  /\ waiting' = "none"
  /\ UNCHANGED <<drop_mode, opVars, wait_failed, result, calls>>

\* or_terminate: the wait did not end in an exit status.
TurnToTermination(failed) ==
  /\ wait_failed' = failed
  /\ pc' = "preflight" /\ waiting' = "none"
  /\ UNCHANGED <<drop_mode, opVars, phaseVars, diagnostics, result, calls>>

WaitReaps ==
  /\ pc = "waiting" /\ child # "running"
  /\ child' = "reaped"
  /\ Succeed
  /\ UNCHANGED <<stdin, ownerVars, sentVars, dropVars>>

\* Mutant: a process that survives the kill counts as terminated.
KillSurvived_Ignored == Succeed

\* Mutant: the wait after the kill has no timeout.
KillSurvived_WaitsOn == FALSE

\* The kill was delivered and its wait timed out.
KillSurvived == Fail("WaitForExit")

\* The timer of the wait fires; it never beats a status that was reaped.  kill() has none.
WaitTimesOut ==
  /\ pc = "waiting" /\ child # "reaped"
  /\ \/ /\ waiting = "completion" /\ op = "wait"
        /\ Return("timeout") /\ UNCHANGED <<drop_mode, diagnostics>>
     \/ waiting = "completion" /\ op = "or_terminate" /\ TurnToTermination(FALSE)
     \/ waiting = "phase" /\ Escalate(<<"WaitForExit">>)
     \/ waiting = "grace" /\ Escalate(<<>>)
     \/ waiting = "killed" /\ KillSurvived
     \/ waiting = "kill_grace" /\ Return("err") /\ UNCHANGED <<drop_mode, diagnostics>>
  /\ UNCHANGED <<child, stdin, ownerVars, sentVars, dropVars>>

\* The wait itself fails.
WaitFails ==
  /\ pc = "waiting" /\ child # "reaped"
  /\ \/ /\ waiting = "completion" /\ op = "wait"
        /\ Return("err") /\ UNCHANGED <<drop_mode, diagnostics>>
     \/ waiting = "completion" /\ op = "or_terminate" /\ TurnToTermination(TRUE)
     \/ waiting = "phase" /\ Escalate(<<"WaitForExit">>)
     \/ waiting = "grace" /\ Escalate(<<"CheckStatus">>)
     \/ waiting \in {"killed", "unbounded"} /\ Fail("WaitForExit")
     \/ waiting = "kill_grace" /\ Fail("CheckStatus")
  /\ UNCHANGED <<child, stdin, ownerVars, sentVars, dropVars>>

\* The caller drops the future of a call that is waiting.
Cancel ==
  /\ pc = "waiting" /\ op # "drop"
  /\ pc' = "idle" /\ waiting' = "none" /\ result' = "cancelled"
  /\ UNCHANGED <<child, handleVars, ownerVars, opVars, phaseVars, wait_failed>>
  /\ UNCHANGED <<diagnostics, calls, sentVars, dropVars>>

-----------------------------------------------------------------------------
(* terminate *)

\* run_termination_loop begins: has the child exited already?
Preflight(r) ==
  /\ pc = "preflight"
  /\ TryReap(r)
  /\ IF r = "some"
     THEN Succeed
     ELSE /\ diagnostics' = IF r = "err" THEN Append(diagnostics, "CheckStatus") ELSE diagnostics
          /\ pc' = "signal"
          /\ UNCHANGED <<drop_mode, opVars, waiting, phaseVars, wait_failed, result, calls>>
  /\ UNCHANGED <<stdin, ownerVars, sentVars, dropVars>>

\* attempt_graceful_phase: send the signal, wait for its timeout; if it cannot be
\* sent the child may just have exited: wait a short grace.
GracefulPhase(ok) ==
  /\ pc = "signal"
  /\ Send(shutdown[phase].signal, ok)
  /\ diagnostics' = IF ok THEN diagnostics ELSE Append(diagnostics, "SendSignal")
  /\ WaitFor(IF ok THEN "phase" ELSE "grace")
  /\ UNCHANGED <<child, drop_mode, ownerVars, opVars, phaseVars, wait_failed, result, calls, dropVars>>

\* attempt_forceful_kill.
ForcefulKill(ok) ==
  /\ pc = "forceful"
  /\ Send("SIGKILL", ok)
  /\ diagnostics' = IF ok THEN diagnostics ELSE Append(diagnostics, "SendSignal")
  /\ WaitFor(IF ok THEN "killed" ELSE "kill_grace")
  /\ UNCHANGED <<child, drop_mode, ownerVars, opVars, phaseVars, wait_failed, result, calls, dropVars>>

-----------------------------------------------------------------------------
(* kill, start_kill and send_*_signal *)

KillSend(ok) ==
  /\ pc = "kill"
  /\ Send("SIGKILL", ok)
  /\ IF ok
     THEN /\ WaitFor("unbounded")
          /\ UNCHANGED <<drop_mode, opVars, phaseVars, wait_failed, diagnostics, result, calls>>
     ELSE Fail("SendSignal") /\ UNCHANGED stdin
  /\ UNCHANGED <<child, ownerVars, dropVars>>

\* The fallback of a wrapper dropped where it cannot run the termination: these
\* contexts, and only under the Panic fallback, raise a panic.
FallbackPanics == context \in {"no_runtime", "current_thread"} /\ fallback = "Panic"

\* start_kill returns r to its caller, the user or terminate_forcefully, which
\* then reports the lost graceful shutdown; the handle is dropped next.
StartKillReturns(r) ==
  /\ result' = r
  /\ pc' = IF op = "drop_kill" THEN "drop_handle" ELSE "idle"
  /\ panics' = IF op = "drop_kill" /\ FallbackPanics THEN panics + 1 ELSE panics
  /\ unwinding' = (unwinding \/ (op = "drop_kill" /\ FallbackPanics))
  /\ reported' = (reported \/ (op = "drop_kill" /\ r = "err"))
  /\ UNCHANGED <<stdin, owner, platform, wrapperVars, context, opVars, waiting, phaseVars, wait_failed, calls, opted_out>>

\* start_kill: a delivered kill closes the lifecycle.
StartKillSend(ok) ==
  /\ pc = "start_kill"
  /\ Send("SIGKILL", ok)
  /\ IF ok
     THEN drop_mode' = "disarmed" /\ StartKillReturns("ok") /\ UNCHANGED diagnostics
     ELSE /\ diagnostics' = Append(diagnostics, "SendSignal")
          /\ pc' = "start_kill_probe"
          /\ UNCHANGED <<handleVars, ownerVars, opVars, waiting, phaseVars, wait_failed, result>>
          /\ UNCHANGED <<calls, dropVars>>
  /\ UNCHANGED child

\* Mutant: a child that is still running counts as killed.
StartKillProbe_IgnoresRunning(r) ==
  /\ pc = "start_kill_probe"
  /\ TryReap(r)
  /\ diagnostics' = IF r = "err" THEN Append(diagnostics, "CheckStatus") ELSE diagnostics
  /\ drop_mode' = IF r # "err" \/ op = "drop_kill" THEN "disarmed" ELSE drop_mode
  /\ StartKillReturns(IF r # "err" THEN "ok" ELSE "err")
  /\ UNCHANGED sentVars

\* The kill was refused: an exited child counts as killed.  terminate_forcefully
\* gives up on a failure, so that the handle's guard does not repeat the kill.
StartKillProbe(r) ==
  /\ pc = "start_kill_probe"
  /\ TryReap(r)
  /\ diagnostics' = IF r = "err" THEN Append(diagnostics, "CheckStatus") ELSE diagnostics
  /\ drop_mode' = IF r = "some" \/ op = "drop_kill" THEN "disarmed" ELSE drop_mode
  /\ StartKillReturns(IF r = "some" THEN "ok" ELSE "err")
  /\ UNCHANGED sentVars

\* send_signal_with_reaper: an exited child is reaped and not signalled ...
SignalPreflight(r) ==
  /\ pc = "signal_preflight"
  /\ TryReap(r)
  /\ \/ r = "some" /\ Succeed
     \/ r = "err" /\ Fail("CheckStatus")
     \/ /\ r = "none" /\ pc' = "signal_send"
        /\ UNCHANGED <<drop_mode, opVars, waiting, phaseVars, wait_failed, diagnostics, result, calls>>
  /\ UNCHANGED <<stdin, ownerVars, sentVars, dropVars>>

SignalSend(ok) ==
  /\ pc = "signal_send"
  /\ \E sig \in GracefulSignals(platform) : Send(sig, ok)
  /\ \/ ok /\ Return("sent")
     \/ /\ ~ok /\ pc' = "signal_probe"
        /\ UNCHANGED <<opVars, waiting, phaseVars, wait_failed, result, calls>>
  /\ UNCHANGED <<child, handleVars, ownerVars, diagnostics, dropVars>>

\* ... and one that exited in between is not an error.
SignalProbe(r) ==
  /\ pc = "signal_probe"
  /\ TryReap(r)
  /\ IF r = "some"
     THEN Succeed
     ELSE /\ diagnostics' = diagnostics \o IF r = "err" THEN <<"SendSignal", "CheckStatus">>
                                                        ELSE <<"SendSignal">>
          /\ Return("err")
          /\ UNCHANGED drop_mode
  /\ UNCHANGED <<stdin, ownerVars, sentVars, dropVars>>

-----------------------------------------------------------------------------
(* The guard, the wrapper and their drops *)

MustBeTerminated ==
  /\ Idle
  /\ calls' = calls + 1
  /\ drop_mode' = "armed" /\ opted_out' = FALSE
  /\ UNCHANGED <<child, stdin, ownerVars, opVars, pc, waiting, phaseVars, wait_failed>>
  /\ UNCHANGED <<diagnostics, result, sentVars, reported, panics>>

MustNotBeTerminated ==
  /\ Idle
  /\ calls' = calls + 1
  /\ drop_mode' = "disarmed" /\ opted_out' = TRUE
  /\ UNCHANGED <<child, stdin, ownerVars, opVars, pc, waiting, phaseVars, wait_failed>>
  /\ UNCHANGED <<diagnostics, result, sentVars, reported, panics>>

\* ProcessHandle::into_inner hands the child out, disarmed.
IntoInner ==
  /\ owner = "handle" /\ pc = "idle"
  /\ owner' = "detached"
  /\ drop_mode' = "disarmed" /\ opted_out' = TRUE
  /\ UNCHANGED <<child, stdin, platform, wrapperVars, context, unwinding, callVars, sentVars, reported, panics>>

\* terminate_on_drop_with_fallback, and back.
WrapTerminateOnDrop(f, policy) ==
  /\ owner = "handle" /\ pc = "idle" /\ calls < MaxCalls
  /\ calls' = calls + 1
  /\ owner' = "wrapper" /\ fallback' = f /\ drop_shutdown' = policy
  /\ UNCHANGED <<child, handleVars, platform, context, unwinding, opVars, pc, waiting, phaseVars>>
  /\ UNCHANGED <<wait_failed, diagnostics, result, sentVars, dropVars>>

UnwrapTerminateOnDrop ==
  /\ owner = "wrapper" /\ pc = "idle"
  /\ owner' = "handle"
  /\ UNCHANGED <<child, handleVars, platform, wrapperVars, context, unwinding, callVars, sentVars, dropVars>>

\* A drop starts, on a thread that may be unwinding already.
BeginDrop(o, c, policy) ==
  /\ op' = o /\ context' = c /\ unwinding' = (c = "panicking")
  /\ shutdown' = policy /\ phase' = 1 /\ waited' = 0 /\ wait_failed' = FALSE /\ diagnostics' = <<>> /\ result' = "none"
  /\ attempts' = <<>>
  /\ UNCHANGED <<owner, platform, wrapperVars, waiting, calls, delivered, refused, dropVars>>

DropHandle ==
  /\ owner = "handle" /\ pc = "idle"
  /\ \E c \in {"none", "panicking"} : BeginDrop("drop", c, <<>>)
  /\ pc' = "drop_handle"
  /\ UNCHANGED <<child, handleVars>>

Contexts == {"multi_thread", "panicking", "no_runtime", "current_thread", "shutting_down"}

\* Drop of TerminateOnDrop: nothing to do for a closed lifecycle or an exited
\* child; terminate where try_run_future can run it; else start_kill.
DropWrapper(c) ==
  /\ owner = "wrapper" /\ pc = "idle"
  /\ \/ /\ drop_mode = "disarmed"
        /\ BeginDrop("drop", c, <<>>) /\ pc' = "drop_handle"
        /\ UNCHANGED <<child, handleVars>>
     \/ /\ drop_mode = "armed" /\ TryReap("some")
        /\ BeginDrop("drop", c, <<>>) /\ pc' = "drop_handle"
        /\ drop_mode' = "disarmed" /\ UNCHANGED stdin
     \/ /\ drop_mode = "armed" /\ c = "multi_thread"
        /\ \E r \in {"none", "err"} : TryReap(r)
        /\ BeginDrop("drop", c, drop_shutdown) /\ pc' = "preflight"
        /\ UNCHANGED handleVars
     \/ /\ drop_mode = "armed" /\ c # "multi_thread"
        /\ \E r \in {"none", "err"} : TryReap(r)
        /\ BeginDrop("drop_kill", c, <<>>) /\ pc' = "start_kill"
        /\ stdin' = "closed" /\ UNCHANGED drop_mode

\* The runtime shuts down under the termination: its timers fail, and the panic
\* unwinds out of the drop.
DropUnwinds ==
  /\ pc = "waiting" /\ op = "drop"
  /\ unwinding' = TRUE /\ panics' = panics + 1
  /\ pc' = "drop_handle" /\ waiting' = "none"
  /\ UNCHANGED <<child, handleVars, owner, platform, wrapperVars, context, opVars, phaseVars, wait_failed>>
  /\ UNCHANGED <<diagnostics, result, calls, sentVars, opted_out, reported>>

\* Mutant: the guard panics although the thread is unwinding.
Guard_AlwaysPanics ==
  /\ panics' = IF drop_mode = "armed" THEN panics + 1 ELSE panics
  /\ reported' = (reported \/ drop_mode = "armed")

\* PanicOnDrop::drop: no second panic on a thread that is unwinding.
Guard ==
  /\ panics' = IF drop_mode = "armed" /\ ~unwinding THEN panics + 1 ELSE panics
  /\ reported' = (reported \/ drop_mode = "armed")

\* Drop of ProcessHandle: kill the group while armed; then its guard is dropped.
DropRuns(ok) ==
  /\ pc = "drop_handle"
  /\ IF drop_mode = "armed" THEN Send("SIGKILL", ok) ELSE ok /\ UNCHANGED sentVars
  /\ Guard
  /\ owner' = "dropped" /\ pc' = "idle"
  /\ UNCHANGED <<child, handleVars, platform, wrapperVars, context, unwinding, opVars, waiting, phaseVars>>
  /\ UNCHANGED <<wait_failed, diagnostics, result, calls, opted_out>>

\* The handle is gone and the child has exited.
Finished == owner \in {"dropped", "detached"} /\ child # "running" /\ UNCHANGED vars

-----------------------------------------------------------------------------
\* The steps of a call under way.
Proceed ==
  \/ WaitReaps
  \/ \E r \in Probes : Preflight(r) \/ StartKillProbe(r) \/ SignalPreflight(r) \/ SignalProbe(r)
  \/ \E ok \in BOOLEAN : \/ GracefulPhase(ok) \/ ForcefulKill(ok) \/ KillSend(ok)
                         \/ StartKillSend(ok) \/ SignalSend(ok) \/ DropRuns(ok)

Call ==
  \/ WaitForCompletion("wait", <<>>)
  \/ \E p \in GracefulShutdowns(platform) : WaitForCompletion("or_terminate", p) \/ Terminate(p)
  \/ \E o \in {"kill", "start_kill"} : Kill(o)
  \/ SendSignal
  \/ \E r \in Probes : IsRunning(r)
  \/ CloseStdin
  \/ MustBeTerminated \/ MustNotBeTerminated \/ IntoInner
  \/ \E f \in {"Panic", "Trace"}, p \in GracefulShutdowns(platform) : WrapTerminateOnDrop(f, p)
  \/ UnwrapTerminateOnDrop

HandleNext ==
  \/ ChildExits
  \/ Call
  \/ Proceed
  \/ WaitTimesOut \/ WaitFails \/ Cancel
  \/ DropHandle \/ (\E c \in Contexts : DropWrapper(c)) \/ DropUnwinds
  \/ Finished

-----------------------------------------------------------------------------
(* Properties *)

\* The guard is given up only when the exit status was observed, a kill was
\* delivered, the user detached the process, or the wrapper's fallback gave up on
\* a refused kill: no error, time-out or cancellation disarms it.
DisarmOnlyWhenClosed ==
  [][drop_mode = "armed" /\ drop_mode' = "disarmed" =>
       \/ child' = "reaped"
       \/ opted_out'
       \/ "SIGKILL" \in delivered'
       \/ op = "drop_kill" /\ refused']_vars

\* A child left running by the drop of its handle was sent the kill, or was
\* detached by the user, or refused the kill, and then the drop has said so.
NoSilentLeak ==
  owner = "dropped" /\ child = "running" =>
    \/ "SIGKILL" \in delivered
    \/ opted_out
    \/ refused /\ reported

\* terminate tries the configured signals in order, each once, and the kill only
\* after all of them; it fails only after having tried the kill.
Signals(policy) == [i \in DOMAIN policy |-> policy[i].signal]
EscalationInOrder ==
  op \in {"terminate", "or_terminate"} =>
    /\ attempts = SubSeq(Append(Signals(shutdown), "SIGKILL"), 1, Len(attempts))
    /\ result = "err" => attempts = Append(Signals(shutdown), "SIGKILL") /\ diagnostics # <<>>
    /\ result = "wait_failed" => wait_failed

\* A call that reports success has observed the exit status and closed the
\* lifecycle; start_kill, which does not wait, has at least delivered the kill.
SuccessIsReal ==
  [][pc # "idle" /\ pc' = "idle" /\ owner' # "dropped" /\ result' \in {"ok", "wait_failed"} =>
       /\ drop_mode' = "disarmed"
       /\ child' = "reaped" \/ (op = "start_kill" /\ "SIGKILL" \in delivered')]_vars

\* A drop panics at most once, and never on a thread that is unwinding already;
\* under the Trace fallback a drop outside a multithreaded runtime never panics.
PanicDiscipline ==
  /\ panics <= 1
  /\ context = "panicking" => panics = 0
  /\ owner = "dropped" /\ op = "drop_kill" /\ fallback = "Trace" => panics = 0

\* terminate, and the drop that runs it, come to an end even if the child
\* survives every signal.
TerminationReturns == op \in {"terminate", "or_terminate", "drop"} ~> pc = "idle"

\* The graceful phases take no longer than total_timeout says, except that a signal
\* the kernel refused adds a short grace.
Refusals(actions) == Cardinality({i \in DOMAIN actions : actions[i] = "SendSignal"})
GracefulTimeBounded == waited <= TotalTimeout(shutdown) + Grace * Refusals(diagnostics)
=============================================================================
