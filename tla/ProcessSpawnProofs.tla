------------------------ MODULE ProcessSpawnProofs ------------------------
(***************************************************************************)
(* What holds of a process for all policies, sizes and numbers of calls,   *)
(* from the first call on the builder to the drop of the handle: no child  *)
(* is left running silently, the guard is given up only for a reason, a    *)
(* reported success is real, a termination tries its signals in order and  *)
(* within its time, a drop panics at most once, and every pipe is read.    *)
(***************************************************************************)
EXTENDS ProcessSpawn, FiniteSetTheorems, WellFoundedInduction, TLAPS

\* Why a child may be left running.
Excused == "SIGKILL" \in delivered \/ opted_out \/ (refused /\ reported)

\* The guard speaks for the child: it is disarmed, or gone, only with an excuse.
GuardInv ==
  (owner = "dropped" \/ (owner \in {"handle", "wrapper"} /\ drop_mode = "disarmed"))
    => child # "running" \/ Excused

\* A call is under way only while there is a handle, and the probe of start_kill
\* follows a refused kill.
CallInv ==
  /\ drop_mode \in {"armed", "disarmed"}
  /\ pc # "idle" => owner \in {"handle", "wrapper"}
  /\ pc = "start_kill_probe" => refused

HandleInv == GuardInv /\ CallInv

Builders ==
  [stage : {"unset", "delivery", "replay", "read_chunk_size", "max_buffered_chunks", "ready",
            "panicked"},
   backend : {"discard", "broadcast", "single_subscriber"},
   delivery : {"none", "lossy", "reliable"},
   replay : {"none", "all", "chunks", "bytes"},
   retained : Nat, read_chunk_size : Nat, max_buffered_chunks : Nat]

RetentionValid(b) == b.replay \in {"chunks", "bytes"} => b.retained > 0
Usable(b) == b.backend = "discard" \/ AssertValid(b)

\* What the assertions of the stages so far have established.
Checked(b) ==
  /\ b \in Builders
  /\ b.stage \in {"read_chunk_size", "max_buffered_chunks"} => RetentionValid(b)
  /\ b.stage = "max_buffered_chunks" => b.read_chunk_size > 0
  /\ b.stage = "ready" => Usable(b)

\* into_stream cannot panic: the configurations are valid, the pipes are those they
\* ask for, and no closure can change them any more.
ConfigInv ==
  /\ Checked(builder)
  /\ targets \subseteq Streams
  /\ \A s \in targets : config[s] = Unset
  /\ DOMAIN config = Streams
  /\ \A s \in Streams : config[s] \in Builders /\ Usable(config[s])
  /\ spawn \notin {"configure", "panicked"} => targets = {}
  /\ spawn \in {"from_spawned_child", "stdout", "stderr"} =>
       \A s \in Streams : pipe[s] = ChildStdio(config[s])

\* Until it is handed over the child has no owner.
OwnerInv ==
  spawn \in {"configure", "from_spawned_child", "stdout", "stderr", "hand_over"} =>
    owner = "none" /\ pc = "idle"

IInv == HandleInv /\ ConfigInv /\ OwnerInv

\* The step of DisarmOnlyWhenClosed.
DisarmStep ==
  drop_mode = "armed" /\ drop_mode' = "disarmed" =>
    \/ child' = "reaped"
    \/ opted_out'
    \/ "SIGKILL" \in delivered'
    \/ op = "drop_kill" /\ refused'

-----------------------------------------------------------------------------
(* The calls on a handle *)

\* What a send may change of the history: nothing is forgotten, a kill that is not
\* refused reaches a child that was not reaped, and a refusal is recorded.
LEMMA SendRecords ==
  ASSUME NEW sig, NEW ok \in BOOLEAN, Send(sig, ok)
  PROVE  /\ "SIGKILL" \in delivered => "SIGKILL" \in delivered'
         /\ refused => refused'
         /\ sig = "SIGKILL" /\ ok => child = "reaped" \/ "SIGKILL" \in delivered'
         /\ sig = "SIGKILL" /\ ~ok => refused'
<1>1. refused' = (refused \/ (sig = "SIGKILL" /\ ~ok))
  BY Zenon DEF Send
<1>2. (refused => refused') /\ (sig = "SIGKILL" /\ ~ok => refused')
  BY <1>1, Zenon
<1> QED
  BY Zenon, <1>2 DEF Send

\* Reports are kept, and a kill that fails in the fallback of a drop is reported.
LEMMA StartKillReports ==
  ASSUME NEW r, StartKillReturns(r)
  PROVE  /\ reported => reported'
         /\ op = "drop_kill" /\ r = "err" => reported'
<1>1. reported' = (reported \/ (op = "drop_kill" /\ r = "err"))
  BY Zenon DEF StartKillReturns
<1> QED
  BY <1>1, Zenon

\* The guard of a handle that is armed reports.
LEMMA GuardReports ==
  ASSUME Guard
  PROVE  (reported => reported') /\ (drop_mode = "armed" => reported')
<1>1. reported' = (reported \/ drop_mode = "armed")
  BY Zenon DEF Guard
<1> QED
  BY <1>1, Zenon

\* A call that starts leaves guard and history alone, or opts in or out.
LEMMA CallsKeepHandleInv ==
  ASSUME HandleInv, Call
  PROVE  HandleInv' /\ DisarmStep
<1> USE DEF HandleInv, GuardInv, CallInv, Excused, DisarmStep,
     handleVars, wrapperVars, ownerVars, opVars, phaseVars, callVars, sentVars, dropVars
<1>1. CASE WaitForCompletion("wait", <<>>)
  BY Zenon, <1>1 DEF WaitForCompletion, WaitFor, Begin, Idle
<1>2. CASE \E p \in GracefulShutdowns(platform) : WaitForCompletion("or_terminate", p)
  BY <1>2 DEF WaitForCompletion, WaitFor, Begin, Idle
<1>3. CASE \E p \in GracefulShutdowns(platform) : Terminate(p)
  BY <1>3 DEF Terminate, Begin, Idle
<1>4. CASE \E o \in {"kill", "start_kill"} : Kill(o)
  BY <1>4 DEF Kill, Begin, Idle
<1>5. CASE SendSignal
  BY Zenon, <1>5 DEF SendSignal, Begin, Idle
<1>6. CASE \E r \in Probes : IsRunning(r)
  BY <1>6 DEF IsRunning, Idle, TryReap
<1>7. CASE CloseStdin
  BY Zenon, <1>7 DEF CloseStdin, Idle
<1>8. CASE MustBeTerminated
  BY Zenon, <1>8 DEF MustBeTerminated, Idle
<1>9. CASE MustNotBeTerminated
  BY Zenon, <1>9 DEF MustNotBeTerminated, Idle
<1>10. CASE IntoInner
  BY Zenon, <1>10 DEF IntoInner
<1>11. CASE \E f \in {"Panic", "Trace"}, p \in GracefulShutdowns(platform) : WrapTerminateOnDrop(f, p)
  BY <1>11 DEF WrapTerminateOnDrop
<1>12. CASE UnwrapTerminateOnDrop
  BY Zenon, <1>12 DEF UnwrapTerminateOnDrop
<1> QED
  BY Zenon, <1>1, <1>2, <1>3, <1>4, <1>5, <1>6, <1>7, <1>8, <1>9, <1>10, <1>11, <1>12 DEF Call

\* A call under way disarms the guard only for an exit status or a delivered kill, and
\* the fallback of the wrapper for a refused one, which it reports.
LEMMA ProceedKeepsHandleInv ==
  ASSUME HandleInv, Proceed
  PROVE  HandleInv' /\ DisarmStep
<1> USE DEF HandleInv, GuardInv, CallInv, Excused, DisarmStep,
     handleVars, wrapperVars, ownerVars, opVars, phaseVars, callVars, sentVars, dropVars
<1>1. CASE WaitReaps
  BY Zenon, <1>1 DEF WaitReaps, Succeed, Return
<1>2. CASE \E r \in Probes : Preflight(r)
  BY <1>2 DEF Preflight, TryReap, Succeed, Return
<1>3. CASE \E r \in Probes : StartKillProbe(r)
  BY <1>3, StartKillReports DEF StartKillProbe, TryReap, StartKillReturns
<1>4. CASE \E r \in Probes : SignalPreflight(r)
  BY <1>4 DEF SignalPreflight, TryReap, Succeed, Fail, Return
<1>5. CASE \E r \in Probes : SignalProbe(r)
  BY <1>5 DEF SignalProbe, TryReap, Succeed, Return
<1>6. CASE \E ok \in BOOLEAN : GracefulPhase(ok)
  BY <1>6, SendRecords DEF GracefulPhase, WaitFor
<1>7. CASE \E ok \in BOOLEAN : ForcefulKill(ok)
  BY <1>7, SendRecords DEF ForcefulKill, WaitFor
<1>8. CASE \E ok \in BOOLEAN : KillSend(ok)
  BY <1>8, SendRecords DEF KillSend, WaitFor, Fail, Return
<1>9. CASE \E ok \in BOOLEAN : StartKillSend(ok)
  BY Zenon, <1>9, SendRecords, StartKillReports DEF StartKillSend, StartKillReturns
<1>10. CASE \E ok \in BOOLEAN : SignalSend(ok)
  BY <1>10, SendRecords DEF SignalSend, Return
<1>11. CASE \E ok \in BOOLEAN : DropRuns(ok)
  BY <1>11, SendRecords, GuardReports DEF DropRuns
<1> QED
  BY Zenon, <1>1, <1>2, <1>3, <1>4, <1>5, <1>6, <1>7, <1>8, <1>9, <1>10, <1>11 DEF Proceed

\* What the kernel, the clock and the caller do to a wait disarms nothing.
LEMMA OthersKeepHandleInv ==
  ASSUME HandleInv, ChildExits \/ WaitTimesOut \/ WaitFails \/ Cancel
  PROVE  HandleInv' /\ DisarmStep
<1> USE DEF HandleInv, GuardInv, CallInv, Excused, DisarmStep,
     handleVars, wrapperVars, ownerVars, opVars, phaseVars, callVars, sentVars, dropVars
<1>1. CASE ChildExits
  BY Zenon, <1>1 DEF ChildExits
<1>2. CASE WaitTimesOut
  BY Zenon, <1>2 DEF WaitTimesOut, Return, TurnToTermination, Escalate, NextPhase, KillSurvived, Fail
<1>3. CASE WaitFails
  BY Zenon, <1>3 DEF WaitFails, Return, TurnToTermination, Escalate, NextPhase, Fail
<1>4. CASE Cancel
  BY Zenon, <1>4 DEF Cancel
<1> QED
  BY Zenon, <1>1, <1>2, <1>3, <1>4

\* A drop that starts disarms only for a child it has reaped.
LEMMA DropsKeepHandleInv ==
  ASSUME HandleInv, DropHandle \/ (\E c \in Contexts : DropWrapper(c)) \/ DropUnwinds \/ Finished
  PROVE  HandleInv' /\ DisarmStep
<1> USE DEF HandleInv, GuardInv, CallInv, Excused, DisarmStep,
     handleVars, wrapperVars, ownerVars, opVars, phaseVars, callVars, sentVars, dropVars
<1>1. CASE DropHandle
  BY <1>1 DEF DropHandle, BeginDrop
<1>2. CASE \E c \in Contexts : DropWrapper(c)
  <2>1. PICK c \in Contexts : DropWrapper(c)
    BY Zenon, <1>2
  <2>2. UNCHANGED <<owner, delivered, refused, opted_out, reported>>
    BY Zenon, <2>1 DEF DropWrapper, BeginDrop
  <2>3. owner = "wrapper" /\ pc' \in {"drop_handle", "preflight", "start_kill"}
    BY Zenon, <2>1 DEF DropWrapper
  <2>4. drop_mode' \in {drop_mode, "disarmed"} /\ (child' = "reaped" \/ UNCHANGED <<child, drop_mode>>)
    BY Zenon, <2>1 DEF DropWrapper, TryReap
  <2> QED
    BY Zenon, <2>2, <2>3, <2>4
<1>3. CASE DropUnwinds
  BY Zenon, <1>3 DEF DropUnwinds
<1>4. CASE Finished
  BY Zenon, <1>4 DEF Finished, vars
<1> QED
  BY Zenon, <1>1, <1>2, <1>3, <1>4

\* All steps of ProcessHandle.
LEMMA HandleNextKeepsHandleInv ==
  ASSUME HandleInv, HandleNext
  PROVE  HandleInv' /\ DisarmStep
BY Zenon, CallsKeepHandleInv, ProceedKeepsHandleInv, OthersKeepHandleInv, DropsKeepHandleInv
   DEF HandleNext

\* Without an owner and a call under way, no step of ProcessHandle makes one.
LEMMA NoOwnerNoCall ==
  ASSUME owner = "none", pc = "idle", HandleNext
  PROVE  owner' = "none" /\ pc' = "idle"
<1> USE DEF ownerVars, callVars
<1>1. ~Call
  BY Zenon DEF Call, WaitForCompletion, Terminate, Kill, SendSignal, Begin, IsRunning, CloseStdin,
         MustBeTerminated, MustNotBeTerminated, IntoInner, WrapTerminateOnDrop,
         UnwrapTerminateOnDrop, Idle
<1>2. ~Proceed
  BY Zenon DEF Proceed, WaitReaps, Preflight, StartKillProbe, SignalPreflight, SignalProbe,
         GracefulPhase, ForcefulKill, KillSend, StartKillSend, SignalSend, DropRuns
<1>3. ~(WaitTimesOut \/ WaitFails \/ Cancel \/ DropUnwinds)
  BY Zenon DEF WaitTimesOut, WaitFails, Cancel, DropUnwinds
<1>4. ~(DropHandle \/ (\E c \in Contexts : DropWrapper(c)) \/ Finished)
  BY Zenon DEF DropHandle, DropWrapper, Finished
<1> QED
  BY Zenon, <1>1, <1>2, <1>3, <1>4 DEF HandleNext, ChildExits

-----------------------------------------------------------------------------
(* The calls and the drop, step by step *)

Terminating == {"terminate", "or_terminate", "drop"}
Dropping == {"drop", "drop_kill"}

\* Each step belongs to the call it was made for; a drop that has begun is not
\* over before the handle is gone.
StepInv ==
  /\ pc \in {"preflight", "signal", "forceful"} => op \in Terminating
  /\ pc = "waiting" => \/ waiting = "completion" /\ op \in {"wait", "or_terminate"}
                       \/ waiting \in {"phase", "grace", "killed", "kill_grace"} /\ op \in Terminating
                       \/ waiting = "unbounded" /\ op = "kill"
  /\ pc \in {"start_kill", "start_kill_probe"} => op \in {"start_kill", "drop_kill"}
  /\ pc = "kill" => op = "kill"
  /\ pc \in {"signal_preflight", "signal_send", "signal_probe"} => op = "signal"
  /\ pc = "drop_handle" => op \in Dropping
  /\ op \in Dropping => pc # "idle" \/ owner = "dropped"
  /\ owner = "none" => op = "none" /\ pc = "idle"

\* A panic unwinds into the drop of the handle, or was the last thing the drop did;
\* the fallback of the wrapper leaves the guard nothing to panic about.
PanicInv ==
  /\ panics \in {0, 1}
  /\ panics = 1 => owner = "dropped" \/ pc = "drop_handle"
  /\ panics = 1 /\ pc = "drop_handle" => unwinding
  /\ context = "panicking" => panics = 0
  /\ context = "panicking" /\ pc # "idle" => unwinding
  /\ context # "none" => op \in Dropping
  /\ op = "drop" => pc \in {"idle", "drop_handle"} \/ context = "multi_thread"
  /\ op = "drop_kill" =>
       /\ pc \in {"idle", "start_kill", "start_kill_probe", "drop_handle"}
       /\ pc = "drop_handle" => drop_mode = "disarmed"
       /\ fallback = "Trace" => panics = 0

\* The step of SuccessIsReal.
SuccessStep ==
  pc # "idle" /\ pc' = "idle" /\ owner' # "dropped" /\ result' \in {"ok", "wait_failed"} =>
    /\ drop_mode' = "disarmed"
    /\ child' = "reaped" \/ (op = "start_kill" /\ "SIGKILL" \in delivered')

\* A call starts at its own first step, and only on a handle that is not being dropped.
LEMMA CallsKeepStepInv ==
  ASSUME HandleInv, StepInv, Call
  PROVE  StepInv' /\ SuccessStep
<1> USE DEF HandleInv, CallInv, StepInv, SuccessStep, Terminating, Dropping,
     handleVars, wrapperVars, ownerVars, opVars, phaseVars, callVars, sentVars, dropVars
<1>1. CASE WaitForCompletion("wait", <<>>)
  BY Zenon, <1>1 DEF WaitForCompletion, WaitFor, Begin, Idle
<1>2. CASE \E p \in GracefulShutdowns(platform) : WaitForCompletion("or_terminate", p)
  BY Zenon, <1>2 DEF WaitForCompletion, WaitFor, Begin, Idle
<1>3. CASE \E p \in GracefulShutdowns(platform) : Terminate(p)
  BY Zenon, <1>3 DEF Terminate, Begin, Idle
<1>4. CASE \E o \in {"kill", "start_kill"} : Kill(o)
  BY Zenon, <1>4 DEF Kill, Begin, Idle
<1>5. CASE SendSignal
  BY Zenon, <1>5 DEF SendSignal, Begin, Idle
<1>6. CASE \E r \in Probes : IsRunning(r)
  BY Zenon, <1>6 DEF IsRunning, Idle
<1>7. CASE CloseStdin \/ MustBeTerminated \/ MustNotBeTerminated
  BY Zenon, <1>7 DEF CloseStdin, MustBeTerminated, MustNotBeTerminated, Idle
<1>8. CASE IntoInner \/ UnwrapTerminateOnDrop
  BY Zenon, <1>8 DEF IntoInner, UnwrapTerminateOnDrop
<1>9. CASE \E f \in {"Panic", "Trace"}, p \in GracefulShutdowns(platform) : WrapTerminateOnDrop(f, p)
  BY Zenon, <1>9 DEF WrapTerminateOnDrop
<1> QED
  BY Zenon, <1>1, <1>2, <1>3, <1>4, <1>5, <1>6, <1>7, <1>8, <1>9 DEF Call

\* A call goes on to its own next step, and succeeds only with the exit status or,
\* start_kill, with a delivered kill.
LEMMA ProceedKeepsStepInv ==
  ASSUME HandleInv, StepInv, Proceed
  PROVE  StepInv' /\ SuccessStep
<1> USE DEF HandleInv, CallInv, StepInv, SuccessStep, Terminating, Dropping,
     handleVars, wrapperVars, ownerVars, opVars, phaseVars, callVars, sentVars, dropVars
<1>1. CASE WaitReaps
  BY Zenon, <1>1 DEF WaitReaps, Succeed, Return
<1>2. CASE \E r \in Probes : Preflight(r)
  BY Zenon, <1>2 DEF Preflight, TryReap, Succeed, Return
<1>3. CASE \E r \in Probes : StartKillProbe(r)
  BY Zenon, <1>3 DEF StartKillProbe, TryReap, StartKillReturns
<1>4. CASE \E r \in Probes : SignalPreflight(r)
  BY Zenon, <1>4 DEF SignalPreflight, TryReap, Succeed, Fail, Return
<1>5. CASE \E r \in Probes : SignalProbe(r)
  BY Zenon, <1>5 DEF SignalProbe, TryReap, Succeed, Return
<1>6. CASE \E ok \in BOOLEAN : GracefulPhase(ok)
  BY Zenon, <1>6 DEF GracefulPhase, WaitFor
<1>7. CASE \E ok \in BOOLEAN : ForcefulKill(ok)
  BY Zenon, <1>7 DEF ForcefulKill, WaitFor
<1>8. CASE \E ok \in BOOLEAN : KillSend(ok)
  BY Zenon, <1>8 DEF KillSend, WaitFor, Fail, Return
<1>9. CASE \E ok \in BOOLEAN : StartKillSend(ok)
  BY Zenon, <1>9, SendRecords DEF StartKillSend, StartKillReturns
<1>10. CASE \E ok \in BOOLEAN : SignalSend(ok)
  BY Zenon, <1>10 DEF SignalSend, Return
<1>11. CASE \E ok \in BOOLEAN : DropRuns(ok)
  BY Zenon, <1>11 DEF DropRuns
<1> QED
  BY Zenon, <1>1, <1>2, <1>3, <1>4, <1>5, <1>6, <1>7, <1>8, <1>9, <1>10, <1>11 DEF Proceed

\* A time-out, a failed wait or a cancellation is no success.
LEMMA OthersKeepStepInv ==
  ASSUME HandleInv, StepInv,
         \/ ChildExits \/ WaitTimesOut \/ WaitFails \/ Cancel
         \/ DropHandle \/ (\E c \in Contexts : DropWrapper(c)) \/ DropUnwinds \/ UNCHANGED vars
  PROVE  StepInv' /\ SuccessStep
<1> USE DEF HandleInv, CallInv, StepInv, SuccessStep, Terminating, Dropping,
     handleVars, wrapperVars, ownerVars, opVars, phaseVars, callVars, sentVars, dropVars
<1>1. CASE ChildExits \/ UNCHANGED vars
  BY Zenon, <1>1 DEF ChildExits, vars
<1>2. CASE WaitTimesOut
  BY Zenon, <1>2 DEF WaitTimesOut, Return, TurnToTermination, Escalate, NextPhase, KillSurvived, Fail
<1>3. CASE WaitFails
  BY Zenon, <1>3 DEF WaitFails, Return, TurnToTermination, Escalate, NextPhase, Fail
<1>4. CASE Cancel
  BY Zenon, <1>4 DEF Cancel
<1>5. CASE DropHandle
  BY Zenon, <1>5 DEF DropHandle, BeginDrop
<1>6. CASE \E c \in Contexts : DropWrapper(c)
  BY Zenon, <1>6 DEF DropWrapper, BeginDrop
<1>7. CASE DropUnwinds
  BY Zenon, <1>7 DEF DropUnwinds
<1> QED
  BY Zenon, <1>1, <1>2, <1>3, <1>4, <1>5, <1>6, <1>7

\* All steps of ProcessHandle.
LEMMA HandleNextKeepsStepInv ==
  ASSUME HandleInv, StepInv, HandleNext
  PROVE  StepInv' /\ SuccessStep
BY Zenon, CallsKeepStepInv, ProceedKeepsStepInv, OthersKeepStepInv DEF HandleNext, Finished

-----------------------------------------------------------------------------
(* Panics *)

\* A call on a handle that is not being dropped has nothing to do with panics.
LEMMA CallsKeepPanicInv ==
  ASSUME HandleInv, StepInv, PanicInv, Call
  PROVE  PanicInv'
<1> USE DEF handleVars, wrapperVars, ownerVars, opVars, phaseVars, callVars, sentVars, dropVars
<1>1. /\ pc = "idle" /\ owner \in {"handle", "wrapper"}
      /\ UNCHANGED <<context, unwinding, panics>> /\ pc' # "drop_handle"
      /\ op' = op \/ op' \notin Dropping
  BY Zenon DEF Call, WaitForCompletion, WaitFor, Terminate, Kill, SendSignal, Begin, IsRunning,
         CloseStdin, MustBeTerminated, MustNotBeTerminated, IntoInner, WrapTerminateOnDrop,
         UnwrapTerminateOnDrop, Idle, Dropping
<1>2. op \notin Dropping /\ context = "none" /\ panics = 0
  BY Zenon, <1>1 DEF StepInv, PanicInv
<1> QED
  BY Zenon, <1>1, <1>2 DEF PanicInv, Dropping

\* Before the drop of the handle, nothing has panicked.
LEMMA NoPanicYet ==
  ASSUME HandleInv, PanicInv, owner # "dropped", pc # "drop_handle"
  PROVE  panics = 0 /\ panics # 1
BY DEF PanicInv

\* A step of a call under way that neither panics nor is one of the fallback's.
LEMMA StepKeepsPanicInv ==
  ASSUME HandleInv, PanicInv, pc \notin {"idle", "drop_handle"}, op # "drop_kill",
         UNCHANGED <<owner, op, context, unwinding, panics>>
  PROVE  PanicInv'
<1>1. panics = 0 /\ panics # 1
  BY Zenon, NoPanicYet DEF HandleInv, CallInv
<1> QED
  BY Zenon, <1>1 DEF PanicInv

\* start_kill, called by the user or by the fallback: one panic at most, and not on a
\* thread that is unwinding, nor under Trace.
LEMMA StartKillKeepsPanicInv ==
  ASSUME HandleInv, StepInv, PanicInv, pc \in {"start_kill", "start_kill_probe"},
         NEW r, StartKillReturns(r), op = "drop_kill" => drop_mode' = "disarmed"
  PROVE  PanicInv'
<1>1. panics = 0 /\ op \in {"start_kill", "drop_kill"}
  BY Zenon, NoPanicYet DEF HandleInv, CallInv, StepInv
<1>2. UNCHANGED <<owner, op, context, fallback>>
  BY Zenon DEF StartKillReturns, opVars, wrapperVars
<1>3. CASE op = "drop_kill" /\ FallbackPanics
  <2>1. panics' = panics + 1 /\ unwinding' /\ pc' = "drop_handle"
    BY Zenon, <1>3 DEF StartKillReturns
  <2>2. panics' = 1
    BY <1>1, <2>1
  <2>3. context \notin {"none", "panicking"} /\ fallback # "Trace"
    BY Zenon, <1>3 DEF FallbackPanics
  <2> QED
    BY Zenon, <1>2, <1>3, <2>1, <2>2, <2>3 DEF PanicInv, Dropping
<1>4. CASE ~(op = "drop_kill" /\ FallbackPanics)
  <2>1. panics' = 0 /\ pc' = IF op = "drop_kill" THEN "drop_handle" ELSE "idle"
    BY Zenon, <1>1, <1>4 DEF StartKillReturns
  <2>2. panics' # 1
    BY <2>1
  <2>3. unwinding => unwinding'
    <3>1. unwinding' = (unwinding \/ (op = "drop_kill" /\ FallbackPanics))
      BY Zenon DEF StartKillReturns
    <3> QED
      BY Zenon, <3>1
  <2> QED
    BY Zenon, <1>1, <1>2, <2>1, <2>2, <2>3 DEF PanicInv, Dropping
<1> QED
  BY Zenon, <1>3, <1>4

\* Only the fallback, the guard and a runtime that shuts down raise a panic.
LEMMA ProceedKeepsPanicInv ==
  ASSUME HandleInv, StepInv, PanicInv, Proceed
  PROVE  PanicInv'
<1> USE DEF handleVars, wrapperVars, ownerVars, opVars, phaseVars, callVars, sentVars, dropVars
<1>1. CASE \/ WaitReaps
           \/ \E r \in Probes : Preflight(r) \/ SignalPreflight(r) \/ SignalProbe(r)
           \/ \E ok \in BOOLEAN : GracefulPhase(ok) \/ ForcefulKill(ok) \/ KillSend(ok) \/ SignalSend(ok)
  <2>1. pc \in {"waiting", "preflight", "signal_preflight", "signal_probe", "signal", "forceful",
                "kill", "signal_send"}
    BY Zenon, <1>1 DEF WaitReaps, Preflight, SignalPreflight, SignalProbe, GracefulPhase,
                       ForcefulKill, KillSend, SignalSend
  <2>2. op # "drop_kill"
    BY Zenon, <2>1 DEF StepInv, Terminating
  <2>3. UNCHANGED <<owner, op, context, unwinding, panics>>
    BY Zenon, <1>1 DEF WaitReaps, Preflight, SignalPreflight, SignalProbe, GracefulPhase,
                       ForcefulKill, KillSend, SignalSend, Succeed, Fail, Return
  <2> QED
    BY Zenon, <2>1, <2>2, <2>3, StepKeepsPanicInv
<1>2. CASE \E r \in Probes : StartKillProbe(r)
  <2>1. PICK r \in Probes : StartKillProbe(r)
    BY Zenon, <1>2
  <2> QED
    BY Zenon, <2>1, StartKillKeepsPanicInv DEF StartKillProbe
<1>3. CASE \E ok \in BOOLEAN : StartKillSend(ok)
  <2>1. PICK ok \in BOOLEAN : StartKillSend(ok)
    BY Zenon, <1>3
  <2>2. CASE ok
    BY Zenon, <2>1, <2>2, StartKillKeepsPanicInv DEF StartKillSend
  <2>3. CASE ~ok
    <3>1. pc = "start_kill" /\ pc' = "start_kill_probe"
          /\ UNCHANGED <<owner, op, context, unwinding, panics, fallback>>
      BY Zenon, <2>1, <2>3 DEF StartKillSend
    <3>2. op \in {"start_kill", "drop_kill"} /\ panics = 0
      BY Zenon, <3>1, NoPanicYet DEF StepInv, HandleInv, CallInv
    <3> QED
      BY Zenon, <3>1, <3>2 DEF PanicInv
  <2> QED
    BY Zenon, <2>2, <2>3
<1>4. CASE \E ok \in BOOLEAN : DropRuns(ok)
  <2>1. /\ pc = "drop_handle" /\ pc' = "idle" /\ owner' = "dropped"
        /\ UNCHANGED <<op, context, unwinding, fallback, drop_mode>>
        /\ panics' = IF drop_mode = "armed" /\ ~unwinding THEN panics + 1 ELSE panics
    BY Zenon, <1>4 DEF DropRuns, Guard
  <2>2. CASE drop_mode = "armed" /\ ~unwinding
    <3>1. panics = 0 /\ context # "panicking" /\ op # "drop_kill" /\ op \in Dropping
      BY Zenon, <2>1, <2>2 DEF PanicInv, StepInv
    <3>2. panics' = 1
      BY <2>1, <2>2, <3>1
    <3> QED
      BY Zenon, <2>1, <3>1, <3>2 DEF PanicInv
  <2>3. CASE ~(drop_mode = "armed" /\ ~unwinding)
    BY Zenon, <2>1, <2>3 DEF PanicInv
  <2> QED
    BY Zenon, <2>2, <2>3
<1> QED
  BY Zenon, <1>1, <1>2, <1>3, <1>4 DEF Proceed

\* A drop starts without a panic of its own.
LEMMA OthersKeepPanicInv ==
  ASSUME HandleInv, StepInv, PanicInv,
         \/ ChildExits \/ WaitTimesOut \/ WaitFails \/ Cancel
         \/ DropHandle \/ (\E c \in Contexts : DropWrapper(c)) \/ DropUnwinds \/ UNCHANGED vars
  PROVE  PanicInv'
<1> USE DEF handleVars, wrapperVars, ownerVars, opVars, phaseVars, callVars, sentVars, dropVars
<1>1. CASE ChildExits \/ UNCHANGED vars
  BY Zenon, <1>1 DEF ChildExits, vars, PanicInv
<1>2. CASE WaitTimesOut \/ WaitFails \/ Cancel
  <2>1. pc = "waiting" /\ op # "drop_kill"
    BY Zenon, <1>2 DEF WaitTimesOut, WaitFails, Cancel, StepInv, Terminating
  <2>2. UNCHANGED <<owner, op, context, unwinding, panics>>
    BY Zenon, <1>2 DEF WaitTimesOut, WaitFails, Cancel, Return, TurnToTermination, Escalate,
                       KillSurvived, Fail
  <2> QED
    BY Zenon, <2>1, <2>2, StepKeepsPanicInv
<1>3. CASE DropHandle
  <2>1. PICK c \in {"none", "panicking"} : BeginDrop("drop", c, <<>>)
    BY Zenon, <1>3 DEF DropHandle
  <2>2. panics = 0 /\ panics # 1 /\ panics' = panics /\ pc' = "drop_handle" /\ op' = "drop"
        /\ context' = c /\ unwinding' = (c = "panicking")
    BY Zenon, <1>3, <2>1, NoPanicYet DEF DropHandle, BeginDrop
  <2> QED
    BY Zenon, <2>2 DEF PanicInv, Dropping
<1>4. CASE \E c \in Contexts : DropWrapper(c)
  <2>1. PICK c \in Contexts : DropWrapper(c)
    BY Zenon, <1>4
  <2>2. panics = 0 /\ panics # 1 /\ panics' = panics /\ context' = c /\ unwinding' = (c = "panicking")
    BY Zenon, <2>1, NoPanicYet DEF DropWrapper, BeginDrop
  <2>3. \/ op' = "drop" /\ (pc' = "drop_handle" \/ (pc' = "preflight" /\ c = "multi_thread"))
        \/ op' = "drop_kill" /\ pc' = "start_kill"
    BY Zenon, <2>1 DEF DropWrapper, BeginDrop
  <2> QED
    BY Zenon, <2>2, <2>3 DEF PanicInv, Dropping
<1>5. CASE DropUnwinds
  <2>1. /\ pc = "waiting" /\ op = "drop" /\ unwinding' /\ panics' = panics + 1
        /\ pc' = "drop_handle" /\ UNCHANGED <<owner, op, context>>
    BY Zenon, <1>5 DEF DropUnwinds
  <2>2. panics = 0 /\ context = "multi_thread"
    BY Zenon, <2>1, NoPanicYet DEF HandleInv, CallInv, PanicInv
  <2>3. panics' = 1
    BY <2>1, <2>2
  <2> QED
    BY Zenon, <2>1, <2>2, <2>3 DEF PanicInv, Dropping
<1> QED
  BY Zenon, <1>1, <1>2, <1>3, <1>4, <1>5

\* All steps of ProcessHandle.
LEMMA HandleNextKeepsPanicInv ==
  ASSUME HandleInv, StepInv, PanicInv, HandleNext
  PROVE  PanicInv'
BY Zenon, CallsKeepPanicInv, ProceedKeepsPanicInv, OthersKeepPanicInv DEF HandleNext, Finished

-----------------------------------------------------------------------------
(* The escalation of terminate *)

Escalating == {"terminate", "or_terminate"}
SignalNames == {"SIGINT", "SIGTERM", "CTRL_BREAK", "SIGKILL"}
Actions == {"CheckStatus", "SendSignal", "WaitForExit"}
GracefulPhases == [signal : SignalNames, timeout : Nat]

\* The n-th signal of the escalation.
SignalOf(n) == IF n <= Len(shutdown) THEN shutdown[n].signal ELSE "SIGKILL"

\* What was tried so far is the beginning of the escalation.
TriedInOrder ==
  /\ shutdown \in Seq(GracefulPhases) /\ shutdown # <<>>
  /\ attempts \in Seq(SignalNames) /\ diagnostics \in Seq(Actions) /\ phase \in Nat
  /\ Len(attempts) <= Len(shutdown) + 1
  /\ \A n \in 1..Len(attempts) : attempts[n] = SignalOf(n)

\* Where the termination is, the signals up to there were tried.
TriedSoFar ==
  /\ pc = "preflight" \/ (pc = "waiting" /\ waiting = "completion") =>
       phase = 1 /\ attempts = <<>>
  /\ pc = "signal" => phase \in 1..Len(shutdown) /\ Len(attempts) = phase - 1
  /\ pc = "waiting" /\ waiting \in {"phase", "grace"} =>
       phase \in 1..Len(shutdown) /\ Len(attempts) = phase
  /\ pc = "forceful" => Len(attempts) = Len(shutdown)
  /\ pc = "waiting" /\ waiting \in {"killed", "kill_grace"} => Len(attempts) = Len(shutdown) + 1
  /\ pc = "waiting" /\ waiting = "kill_grace" => diagnostics # <<>>

\* A termination has no result before it is over, and fails only after the kill.
EndsRight ==
  /\ pc # "idle" => result = "none"
  /\ result = "err" => Len(attempts) = Len(shutdown) + 1 /\ diagnostics # <<>>
  /\ result = "wait_failed" => wait_failed

EscalationInv == op \in Escalating => TriedInOrder /\ TriedSoFar /\ EndsRight

\* What the elements of a sequence may be.
LEMMA SeqOfLarger ==
  ASSUME NEW S, NEW T, S \subseteq T, NEW u \in Seq(S)
  PROVE  u \in Seq(T)
<1>1. Len(u) \in Nat /\ u = [i \in 1..Len(u) |-> u[i]] /\ \A i \in 1..Len(u) : u[i] \in S
  OBVIOUS
<1>2. \A i \in 1..Len(u) : u[i] \in T
  BY Zenon, <1>1
<1> QED
  BY <1>1, <1>2

\* Every policy that can be built has a phase, whatever the platform.
LEMMA ShutdownsHavePhases ==
  \A p \in GracefulShutdowns(platform) : p \in Seq(GracefulPhases) /\ p # <<>>
<1>1. ASSUME NEW t \in Timeouts, NEW sig \in SignalNames
      PROVE  <<[signal |-> sig, timeout |-> t]>> \in Seq(GracefulPhases)
  BY ShutdownAssumption DEF GracefulPhases
<1>2. ASSUME NEW u \in UnixGracefulShutdowns
      PROVE  u \in Seq(GracefulPhases) /\ u # <<>>
  <2>1. CASE \E t \in Timeouts : u = TerminateOnly(t) \/ u = InterruptOnly(t)
    <3>1. u \in Seq(GracefulPhases)
      BY Zenon, <1>1, <2>1 DEF TerminateOnly, InterruptOnly, TerminatePhase, InterruptPhase, SignalNames
    <3> QED
      BY <2>1, <3>1 DEF TerminateOnly, InterruptOnly
  <2>2. CASE \E phases \in PhaseLists : u \in FromPhases(phases)
    <3>1. u # <<>> /\ u \in Seq([signal : {"SIGINT", "SIGTERM"}, timeout : Nat])
      BY <2>2, ShutdownAssumption DEF FromPhases
    <3>2. [signal : {"SIGINT", "SIGTERM"}, timeout : Nat] \subseteq GracefulPhases
      BY Zenon DEF GracefulPhases, SignalNames
    <3>3. u \in Seq(GracefulPhases)
      BY Zenon, <3>1, <3>2, SeqOfLarger
    <3> QED
      BY Zenon, <3>1, <3>3
  <2>3. \/ \E t \in Timeouts : u \in {TerminateOnly(t), InterruptOnly(t)}
        \/ \E phases \in PhaseLists : u \in FromPhases(phases)
    <3> DEFINE A == UNION {{TerminateOnly(t), InterruptOnly(t)} : t \in Timeouts}
               B == UNION {FromPhases(phases) : phases \in PhaseLists}
    <3>1. UnixGracefulShutdowns = A \cup B
      BY DEF UnixGracefulShutdowns
    <3>2. u \in A => \E t \in Timeouts : u \in {TerminateOnly(t), InterruptOnly(t)}
      BY Zenon
    <3>3. u \in B => \E phases \in PhaseLists : u \in FromPhases(phases)
      BY Zenon
    <3> HIDE DEF A, B
    <3> QED
      BY Zenon, <3>1, <3>2, <3>3
  <2> QED
    BY Zenon, <2>1, <2>2, <2>3
<1>3. ASSUME NEW w \in Timeouts
      PROVE  <<CtrlBreakPhase(w)>> \in Seq(GracefulPhases) /\ <<CtrlBreakPhase(w)>> # <<>>
  <2>1. <<CtrlBreakPhase(w)>> \in Seq(GracefulPhases)
    BY Zenon, <1>1 DEF CtrlBreakPhase, SignalNames
  <2> QED
    BY <2>1
<1>4. ASSUME NEW p \in GracefulShutdowns(platform)
      PROVE  p \in Seq(GracefulPhases) /\ p # <<>>
  <2>1. PICK u \in UnixGracefulShutdowns, w \in Timeouts : p = Build(platform, u, w)
    BY DEF GracefulShutdowns
  <2>2. p = u \/ p = <<CtrlBreakPhase(w)>>
    BY Zenon, <2>1 DEF Build
  <2> QED
    BY Zenon, <1>2, <1>3, <2>2
<1> QED
  BY Zenon, <1>4

\* The next signal of the escalation is tried.
LEMMA NextSignalTried ==
  ASSUME TriedInOrder, NEW sig, attempts' = Append(attempts, sig),
         sig = SignalOf(Len(attempts) + 1), Len(attempts) <= Len(shutdown),
         UNCHANGED <<shutdown, phase>>, diagnostics' \in Seq(Actions)
  PROVE  TriedInOrder' /\ Len(attempts') = Len(attempts) + 1
<1>1. Len(attempts) \in Nat /\ Len(shutdown) \in Nat
  BY DEF TriedInOrder
<1>2. sig \in SignalNames
  <2>1. CASE Len(attempts) + 1 <= Len(shutdown)
    <3>1. Len(attempts) + 1 \in 1..Len(shutdown)
      BY <1>1, <2>1
    <3>2. shutdown[Len(attempts) + 1] \in GracefulPhases
      BY <3>1 DEF TriedInOrder
    <3> QED
      BY Zenon, <2>1, <3>2 DEF SignalOf, GracefulPhases
  <2>2. CASE ~(Len(attempts) + 1 <= Len(shutdown))
    BY Zenon, <2>2 DEF SignalOf, SignalNames
  <2> QED
    BY Zenon, <2>1, <2>2
<1>3. /\ attempts' \in Seq(SignalNames) /\ Len(attempts') = Len(attempts) + 1
      /\ attempts'[Len(attempts) + 1] = sig
      /\ \A n \in 1..Len(attempts) : attempts'[n] = attempts[n]
  BY <1>2 DEF TriedInOrder
<1>4. \A n : SignalOf(n)' = SignalOf(n)
  BY Zenon DEF SignalOf
<1>5. \A n \in 1..Len(attempts') : attempts'[n] = SignalOf(n)'
  <2> TAKE n \in 1..Len(attempts')
  <2>1. n \in 1..Len(attempts) \/ n = Len(attempts) + 1
    BY <1>1, <1>3
  <2> QED
    BY Zenon, <1>3, <1>4, <2>1 DEF TriedInOrder
<1>6. Len(attempts') <= Len(shutdown') + 1
  BY <1>1, <1>3
<1> QED
  BY Zenon, <1>3, <1>5, <1>6 DEF TriedInOrder

\* A call that is given a policy starts with nothing tried.
LEMMA CallsKeepEscalationInv ==
  ASSUME StepInv, EscalationInv, Call
  PROVE  EscalationInv'
<1> USE DEF handleVars, wrapperVars, ownerVars, opVars, phaseVars, callVars, sentVars, dropVars
<1>1. CASE \E p \in GracefulShutdowns(platform) : WaitForCompletion("or_terminate", p) \/ Terminate(p)
  <2>1. PICK p \in GracefulShutdowns(platform) : WaitForCompletion("or_terminate", p) \/ Terminate(p)
    BY Zenon, <1>1
  <2>2. /\ shutdown' = p /\ phase' = 1 /\ attempts' = <<>> /\ diagnostics' = <<>> /\ result' = "none"
        /\ pc' = "preflight" \/ (pc' = "waiting" /\ waiting' = "completion")
    BY Zenon, <2>1 DEF WaitForCompletion, WaitFor, Terminate, Begin
  <2>3. p \in Seq(GracefulPhases) /\ p # <<>>
    BY Zenon, ShutdownsHavePhases
  <2>4. TriedInOrder'
    <3>1. <<>> \in Seq(SignalNames) /\ <<>> \in Seq(Actions) /\ Len(<<>>) = 0 /\ 1 \in Nat
      OBVIOUS
    <3>2. Len(p) \in Nat
      BY <2>3
    <3>3. 0 <= Len(p) + 1 /\ 1..0 = {}
      BY <3>2
    <3> QED
      BY Zenon, <2>2, <2>3, <3>1, <3>3 DEF TriedInOrder
  <2>5. TriedSoFar' /\ EndsRight'
    BY Zenon, <2>2 DEF TriedSoFar, EndsRight
  <2> QED
    BY Zenon, <2>4, <2>5 DEF EscalationInv
<1>2. CASE \/ WaitForCompletion("wait", <<>>) \/ SendSignal
           \/ \E o \in {"kill", "start_kill"} : Kill(o)
  BY Zenon, <1>2 DEF EscalationInv, Escalating, WaitForCompletion, SendSignal, Kill, Begin
<1>3. CASE \/ \E r \in Probes : IsRunning(r)
           \/ CloseStdin \/ MustBeTerminated \/ MustNotBeTerminated \/ IntoInner
           \/ \E f \in {"Panic", "Trace"}, p \in GracefulShutdowns(platform) : WrapTerminateOnDrop(f, p)
           \/ UnwrapTerminateOnDrop
  <2>1. UNCHANGED <<op, pc, waiting, shutdown, phase, attempts, diagnostics, result, wait_failed>>
    BY Zenon, <1>3 DEF IsRunning, CloseStdin, MustBeTerminated, MustNotBeTerminated, IntoInner,
                       WrapTerminateOnDrop, UnwrapTerminateOnDrop
  <2> QED
    BY Zenon, <2>1 DEF EscalationInv, TriedInOrder, TriedSoFar, EndsRight, SignalOf
<1> QED
  BY Zenon, <1>1, <1>2, <1>3 DEF Call

\* A termination that ends well has nothing more to try.
LEMMA SucceedEndsRight ==
  ASSUME EscalationInv, pc # "idle", Succeed, UNCHANGED attempts
  PROVE  EscalationInv'
<1>1. /\ UNCHANGED <<op, shutdown, phase, attempts, diagnostics, wait_failed>>
      /\ result' = IF wait_failed THEN "wait_failed" ELSE "ok"
      /\ pc' \in {"drop_handle", "idle"} /\ (op # "drop" => pc' = "idle")
  BY Zenon DEF Succeed, Return, opVars, phaseVars
<1>2. CASE op \in Escalating
  <2>1. TriedInOrder'
    BY Zenon, <1>1, <1>2 DEF EscalationInv, TriedInOrder, SignalOf
  <2>2. pc' = "idle"
    BY Zenon, <1>1, <1>2 DEF Escalating
  <2>3. TriedSoFar' /\ EndsRight'
    BY Zenon, <1>1, <2>2 DEF TriedSoFar, EndsRight
  <2> QED
    BY Zenon, <2>1, <2>3 DEF EscalationInv
<1>3. CASE op \notin Escalating
  BY Zenon, <1>1, <1>3 DEF EscalationInv
<1> QED
  BY Zenon, <1>2, <1>3

\* A termination fails once it has tried the kill, with something to report.
LEMMA FailEndsRight ==
  ASSUME EscalationInv, op \in Escalating, pc = "waiting", waiting \in {"killed", "kill_grace"},
         Return("err"), UNCHANGED attempts, diagnostics' \in Seq(Actions), diagnostics' # <<>>
  PROVE  EscalationInv'
<1>1. UNCHANGED <<op, shutdown, phase, wait_failed>> /\ result' = "err" /\ pc' = "idle"
  BY Zenon DEF Return, opVars, phaseVars, Escalating
<1>2. TriedInOrder'
  BY Zenon, <1>1 DEF EscalationInv, TriedInOrder, SignalOf
<1>3. Len(attempts) = Len(shutdown) + 1
  BY Zenon DEF EscalationInv, TriedSoFar
<1>4. TriedSoFar' /\ EndsRight'
  BY Zenon, <1>1, <1>3 DEF TriedSoFar, EndsRight
<1> QED
  BY Zenon, <1>2, <1>4 DEF EscalationInv

\* A phase that has failed is followed by the next one, the last one by the kill.
LEMMA EscalateInOrder ==
  ASSUME EscalationInv, op \in Escalating, pc = "waiting", waiting \in {"phase", "grace"},
         NEW actions \in Seq(Actions), Escalate(actions), UNCHANGED attempts
  PROVE  EscalationInv'
<1>1. /\ UNCHANGED <<op, shutdown, wait_failed, result>>
      /\ phase' = phase + 1 /\ diagnostics' = diagnostics \o actions /\ waiting' = "none"
      /\ pc' = IF phase < Len(shutdown) THEN "signal" ELSE "forceful"
  BY Zenon DEF Escalate, NextPhase, opVars
<1>2. /\ phase \in 1..Len(shutdown) /\ Len(attempts) = phase
      /\ diagnostics \in Seq(Actions) /\ Len(shutdown) \in Nat
  BY DEF EscalationInv, TriedSoFar, TriedInOrder
<1>3. phase' \in Nat /\ diagnostics' \in Seq(Actions)
  BY <1>1, <1>2
<1>4. TriedInOrder'
  BY Zenon, <1>1, <1>3 DEF EscalationInv, TriedInOrder, SignalOf
<1>5. CASE phase < Len(shutdown)
  <2>1. phase' \in 1..Len(shutdown) /\ Len(attempts) = phase' - 1
    BY <1>1, <1>2, <1>5
  <2>2. TriedSoFar'
    BY Zenon, <1>1, <1>5, <2>1 DEF TriedSoFar
  <2> QED
    BY Zenon, <1>1, <1>4, <1>5, <2>2 DEF EscalationInv, EndsRight
<1>6. CASE ~(phase < Len(shutdown))
  <2>1. Len(attempts) = Len(shutdown)
    BY <1>2, <1>6
  <2>2. TriedSoFar'
    BY Zenon, <1>1, <1>6, <2>1 DEF TriedSoFar
  <2> QED
    BY Zenon, <1>1, <1>4, <1>6, <2>2 DEF EscalationInv, EndsRight
<1> QED
  BY Zenon, <1>5, <1>6

\* A step of another call has no escalation to keep.
LEMMA OtherCallsKeepEscalationInv ==
  ASSUME op \notin Escalating, UNCHANGED op
  PROVE  EscalationInv'
BY Zenon DEF EscalationInv

\* The first probe of a termination that goes on is followed by the first signal.
LEMMA PreflightKeepsEscalationInv ==
  ASSUME EscalationInv, NEW r \in Probes, Preflight(r)
  PROVE  EscalationInv'
<1> USE DEF opVars, phaseVars, sentVars
<1>1. CASE r = "some"
  BY Zenon, <1>1, SucceedEndsRight DEF Preflight
<1>2. CASE r # "some"
  <2>1. /\ pc = "preflight" /\ pc' = "signal"
        /\ UNCHANGED <<op, waiting, shutdown, phase, attempts, result, wait_failed>>
        /\ diagnostics' = IF r = "err" THEN Append(diagnostics, "CheckStatus") ELSE diagnostics
    BY Zenon, <1>2 DEF Preflight
  <2>2. CASE op \in Escalating
    <3>1. /\ phase = 1 /\ attempts = <<>> /\ diagnostics \in Seq(Actions)
          /\ shutdown \in Seq(GracefulPhases) /\ shutdown # <<>>
      BY Zenon, <2>1, <2>2 DEF EscalationInv, TriedSoFar, TriedInOrder
    <3>2. diagnostics' \in Seq(Actions)
      BY <2>1, <3>1 DEF Actions
    <3>3. phase \in 1..Len(shutdown) /\ Len(attempts) = phase - 1
      BY <3>1
    <3>4. TriedInOrder' /\ EndsRight'
      BY Zenon, <2>1, <2>2, <3>2 DEF EscalationInv, TriedInOrder, SignalOf, EndsRight
    <3>5. TriedSoFar'
      BY Zenon, <2>1, <3>3 DEF TriedSoFar
    <3> QED
      BY Zenon, <3>4, <3>5 DEF EscalationInv
  <2> QED
    BY Zenon, <2>1, <2>2 DEF EscalationInv
<1> QED
  BY Zenon, <1>1, <1>2

\* A phase tries its own signal.
LEMMA GracefulPhaseKeepsEscalationInv ==
  ASSUME EscalationInv, NEW ok \in BOOLEAN, GracefulPhase(ok)
  PROVE  EscalationInv'
<1> USE DEF opVars, phaseVars
<1>1. /\ pc = "signal" /\ pc' = "waiting" /\ waiting' = IF ok THEN "phase" ELSE "grace"
      /\ UNCHANGED <<op, shutdown, phase, result, wait_failed>>
      /\ attempts' = Append(attempts, shutdown[phase].signal)
      /\ diagnostics' = IF ok THEN diagnostics ELSE Append(diagnostics, "SendSignal")
  BY Zenon DEF GracefulPhase, WaitFor, Send
<1>2. CASE op \in Escalating
  <2>1. /\ phase \in 1..Len(shutdown) /\ Len(attempts) = phase - 1 /\ diagnostics \in Seq(Actions)
        /\ TriedInOrder /\ EndsRight /\ Len(shutdown) \in Nat
    BY <1>1, <1>2 DEF EscalationInv, TriedSoFar, TriedInOrder
  <2>2. diagnostics' \in Seq(Actions)
    BY <1>1, <2>1 DEF Actions
  <2>3. shutdown[phase].signal = SignalOf(Len(attempts) + 1) /\ Len(attempts) <= Len(shutdown)
    BY <2>1 DEF SignalOf
  <2>4. TriedInOrder' /\ Len(attempts') = Len(attempts) + 1
    BY Zenon, <1>1, <2>1, <2>2, <2>3, NextSignalTried
  <2>5. Len(attempts') = phase'
    BY <1>1, <2>1, <2>4
  <2>6. EndsRight'
    BY Zenon, <1>1, <2>1 DEF EndsRight
  <2>7. TriedSoFar'
    BY Zenon, <1>1, <2>1, <2>5 DEF TriedSoFar
  <2> QED
    BY Zenon, <2>4, <2>6, <2>7 DEF EscalationInv
<1> QED
  BY Zenon, <1>1, <1>2 DEF EscalationInv

\* The kill comes after the last phase; a refused one leaves a diagnostic.
LEMMA ForcefulKillKeepsEscalationInv ==
  ASSUME EscalationInv, NEW ok \in BOOLEAN, ForcefulKill(ok)
  PROVE  EscalationInv'
<1> USE DEF opVars, phaseVars
<1>1. /\ pc = "forceful" /\ pc' = "waiting" /\ waiting' = IF ok THEN "killed" ELSE "kill_grace"
      /\ UNCHANGED <<op, shutdown, phase, result, wait_failed>>
      /\ attempts' = Append(attempts, "SIGKILL")
      /\ diagnostics' = IF ok THEN diagnostics ELSE Append(diagnostics, "SendSignal")
  BY Zenon DEF ForcefulKill, WaitFor, Send
<1>2. CASE op \in Escalating
  <2>1. /\ Len(attempts) = Len(shutdown) /\ diagnostics \in Seq(Actions)
        /\ TriedInOrder /\ EndsRight /\ Len(shutdown) \in Nat
    BY <1>1, <1>2 DEF EscalationInv, TriedSoFar, TriedInOrder
  <2>2. diagnostics' \in Seq(Actions) /\ (~ok => diagnostics' # <<>>)
    BY <1>1, <2>1 DEF Actions
  <2>3. "SIGKILL" = SignalOf(Len(attempts) + 1) /\ Len(attempts) <= Len(shutdown)
    BY <2>1 DEF SignalOf
  <2>4. TriedInOrder' /\ Len(attempts') = Len(attempts) + 1
    BY Zenon, <1>1, <2>1, <2>2, <2>3, NextSignalTried
  <2>5. Len(attempts') = Len(shutdown') + 1
    BY <1>1, <2>1, <2>4
  <2>6. EndsRight'
    BY Zenon, <1>1, <2>1 DEF EndsRight
  <2>7. TriedSoFar'
    BY Zenon, <1>1, <2>2, <2>5 DEF TriedSoFar
  <2> QED
    BY Zenon, <2>4, <2>6, <2>7 DEF EscalationInv
<1> QED
  BY Zenon, <1>1, <1>2 DEF EscalationInv

\* The steps of a call under way.
LEMMA ProceedKeepsEscalationInv ==
  ASSUME StepInv, EscalationInv, Proceed
  PROVE  EscalationInv'
<1> USE DEF handleVars, wrapperVars, ownerVars, opVars, phaseVars, callVars, sentVars, dropVars
<1>1. CASE WaitReaps
  BY Zenon, <1>1, SucceedEndsRight DEF WaitReaps
<1>2. CASE \/ \E r \in Probes : Preflight(r)
           \/ \E ok \in BOOLEAN : GracefulPhase(ok) \/ ForcefulKill(ok)
  BY Zenon, <1>2, PreflightKeepsEscalationInv, GracefulPhaseKeepsEscalationInv,
     ForcefulKillKeepsEscalationInv
<1>3. CASE \/ \E r \in Probes : StartKillProbe(r) \/ SignalPreflight(r) \/ SignalProbe(r)
           \/ \E ok \in BOOLEAN : KillSend(ok) \/ StartKillSend(ok) \/ SignalSend(ok) \/ DropRuns(ok)
  <2>1. op \notin Escalating
    BY Zenon, <1>3 DEF StepInv, Escalating, Dropping, StartKillProbe, SignalPreflight, SignalProbe,
                       KillSend, StartKillSend, SignalSend, DropRuns
  <2>2. UNCHANGED op
    BY Zenon, <1>3 DEF StartKillProbe, SignalPreflight, SignalProbe, KillSend, StartKillSend,
                       SignalSend, DropRuns, StartKillReturns, Succeed, Fail, Return
  <2> QED
    BY Zenon, <2>1, <2>2, OtherCallsKeepEscalationInv
<1> QED
  BY Zenon, <1>1, <1>2, <1>3 DEF Proceed

\* A wait that times out or fails escalates, turns to the termination, or ends it.
LEMMA WaitsKeepEscalationInv ==
  ASSUME StepInv, EscalationInv, WaitTimesOut \/ WaitFails
  PROVE  EscalationInv'
<1> USE DEF handleVars, wrapperVars, ownerVars, opVars, phaseVars, callVars, sentVars, dropVars
<1>1. pc = "waiting" /\ UNCHANGED attempts
  BY Zenon DEF WaitTimesOut, WaitFails
<1>2. UNCHANGED op
  BY Zenon DEF WaitTimesOut, WaitFails, Return, TurnToTermination, Escalate, KillSurvived, Fail
<1>3. CASE op \in Escalating /\ waiting = "completion"
  <2>1. op = "or_terminate" /\ \E failed \in BOOLEAN : TurnToTermination(failed)
    BY Zenon, <1>3 DEF WaitTimesOut, WaitFails, Escalating
  <2>2. /\ UNCHANGED <<shutdown, phase, diagnostics, result>> /\ pc' = "preflight"
    BY Zenon, <2>1 DEF TurnToTermination
  <2>3. /\ TriedInOrder /\ phase = 1 /\ attempts = <<>> /\ result = "none"
    BY Zenon, <1>1, <1>3 DEF EscalationInv, TriedSoFar, EndsRight
  <2> QED
    BY Zenon, <1>1, <2>2, <2>3 DEF EscalationInv, TriedInOrder, TriedSoFar, EndsRight, SignalOf
<1>4. CASE op \in Escalating /\ waiting \in {"phase", "grace"}
  <2>1. \E actions \in {<<>>, <<"WaitForExit">>, <<"CheckStatus">>} : Escalate(actions)
    BY Zenon, <1>4 DEF WaitTimesOut, WaitFails
  <2>2. \A actions \in {<<>>, <<"WaitForExit">>, <<"CheckStatus">>} : actions \in Seq(Actions)
    <3>1. <<>> \in Seq(Actions) /\ <<"WaitForExit">> \in Seq(Actions)
      BY DEF Actions
    <3>2. <<"CheckStatus">> \in Seq(Actions)
      BY DEF Actions
    <3> QED
      BY Zenon, <3>1, <3>2
  <2> QED
    BY Zenon, <1>1, <1>4, <2>1, <2>2, EscalateInOrder
<1>5. CASE op \in Escalating /\ waiting \in {"killed", "kill_grace"}
  <2>1. /\ Return("err")
        /\ \/ \E a \in {"WaitForExit", "CheckStatus"} : diagnostics' = Append(diagnostics, a)
           \/ waiting = "kill_grace" /\ UNCHANGED diagnostics
    BY Zenon, <1>5 DEF WaitTimesOut, WaitFails, KillSurvived, Fail
  <2>2. diagnostics \in Seq(Actions) /\ (waiting = "kill_grace" => diagnostics # <<>>)
    BY Zenon, <1>1, <1>5 DEF EscalationInv, TriedInOrder, TriedSoFar
  <2>3. diagnostics' \in Seq(Actions) /\ diagnostics' # <<>>
    BY <2>1, <2>2 DEF Actions
  <2> QED
    BY Zenon, <1>1, <1>5, <2>1, <2>3, FailEndsRight
<1>6. op \in Escalating => waiting \in {"completion", "phase", "grace", "killed", "kill_grace"}
  BY Zenon, <1>1 DEF StepInv, Escalating
<1> QED
  BY Zenon, <1>2, <1>3, <1>4, <1>5, <1>6, OtherCallsKeepEscalationInv

\* A cancelled call has no result to account for, and a drop is no escalation.
LEMMA OthersKeepEscalationInv ==
  ASSUME StepInv, EscalationInv,
         \/ ChildExits \/ Cancel \/ DropHandle \/ (\E c \in Contexts : DropWrapper(c))
         \/ DropUnwinds \/ UNCHANGED vars
  PROVE  EscalationInv'
<1> USE DEF handleVars, wrapperVars, ownerVars, opVars, phaseVars, callVars, sentVars, dropVars
<1>1. CASE ChildExits \/ UNCHANGED vars
  BY Zenon, <1>1 DEF ChildExits, vars, EscalationInv, TriedInOrder, TriedSoFar, EndsRight, SignalOf
<1>2. CASE Cancel
  <2>1. /\ pc' = "idle" /\ result' = "cancelled"
        /\ UNCHANGED <<op, shutdown, phase, attempts, diagnostics, wait_failed>>
    BY Zenon, <1>2 DEF Cancel
  <2> QED
    BY Zenon, <2>1 DEF EscalationInv, TriedInOrder, TriedSoFar, EndsRight, SignalOf
<1>3. CASE DropHandle \/ (\E c \in Contexts : DropWrapper(c)) \/ DropUnwinds
  BY Zenon, <1>3 DEF DropHandle, DropWrapper, BeginDrop, DropUnwinds, EscalationInv, Escalating
<1> QED
  BY Zenon, <1>1, <1>2, <1>3

\* All steps of ProcessHandle.
LEMMA HandleNextKeepsEscalationInv ==
  ASSUME StepInv, EscalationInv, HandleNext
  PROVE  EscalationInv'
BY Zenon, CallsKeepEscalationInv, ProceedKeepsEscalationInv, WaitsKeepEscalationInv,
   OthersKeepEscalationInv DEF HandleNext, Finished

\* The inductive form says what EscalationInOrder says.
LEMMA EscalationInvInOrder == EscalationInv => EscalationInOrder
<1> SUFFICES ASSUME EscalationInv, op \in Escalating
             PROVE  /\ attempts = SubSeq(Append(Signals(shutdown), "SIGKILL"), 1, Len(attempts))
                    /\ result = "err" => attempts = Append(Signals(shutdown), "SIGKILL") /\ diagnostics # <<>>
                    /\ result = "wait_failed" => wait_failed
  BY Zenon DEF EscalationInOrder, Escalating
<1> DEFINE S == Signals(shutdown)
           W == Append(S, "SIGKILL")
<1>1. TriedInOrder /\ EndsRight
  BY Zenon DEF EscalationInv
<1>2. /\ shutdown \in Seq(GracefulPhases) /\ attempts \in Seq(SignalNames)
      /\ Len(shutdown) \in Nat /\ Len(attempts) \in Nat /\ Len(attempts) <= Len(shutdown) + 1
  BY <1>1 DEF TriedInOrder
<1>3. S \in Seq(SignalNames) /\ Len(S) = Len(shutdown) /\ \A n \in 1..Len(shutdown) : S[n] = SignalOf(n)
  <2>1. \A n \in 1..Len(shutdown) : shutdown[n].signal \in SignalNames
    <3>1. \A n \in 1..Len(shutdown) : shutdown[n] \in GracefulPhases
      BY <1>2
    <3> QED
      BY Zenon, <3>1 DEF GracefulPhases
  <2>2. S = [n \in 1..Len(shutdown) |-> shutdown[n].signal]
    BY <1>2 DEF Signals
  <2> HIDE DEF S
  <2>3. S \in Seq(SignalNames) /\ Len(S) = Len(shutdown)
    BY <1>2, <2>1, <2>2
  <2>4. \A n \in 1..Len(shutdown) : n <= Len(shutdown)
    BY <1>2
  <2> QED
    BY Zenon, <2>2, <2>3, <2>4 DEF SignalOf
<1> HIDE DEF S
<1>4. /\ W \in Seq(SignalNames) /\ Len(W) = Len(shutdown) + 1
      /\ \A n \in 1..Len(shutdown) : W[n] = S[n]
      /\ W[Len(shutdown) + 1] = "SIGKILL"
  BY <1>2, <1>3 DEF SignalNames
<1>5. \A n \in 1..(Len(shutdown) + 1) : W[n] = SignalOf(n)
  <2> TAKE n \in 1..(Len(shutdown) + 1)
  <2>1. n \in 1..Len(shutdown) \/ (n = Len(shutdown) + 1 /\ ~(n <= Len(shutdown)))
    BY <1>2
  <2> QED
    BY Zenon, <1>3, <1>4, <2>1 DEF SignalOf
<1> HIDE DEF W
<1>6. \A n \in 1..Len(attempts) : attempts[n] = W[n]
  <2>1. \A n \in 1..Len(attempts) : n \in 1..(Len(shutdown) + 1)
    BY <1>2
  <2> QED
    BY Zenon, <1>1, <1>5, <2>1 DEF TriedInOrder
<1>7. attempts = SubSeq(W, 1, Len(attempts))
  BY <1>2, <1>4, <1>6
<1>8. result = "err" => attempts = W
  <2>1. result = "err" => Len(attempts) = Len(W)
    BY Zenon, <1>1, <1>4 DEF EndsRight
  <2> QED
    BY <1>2, <1>4, <1>6, <2>1
<1> QED
  BY Zenon, <1>1, <1>7, <1>8 DEF EndsRight, W, S

-----------------------------------------------------------------------------
(* The time the graceful phases take *)

\* A set of naturals has a least element: induction, for sets.
LEMMA LeastNatural ==
  ASSUME NEW T \in SUBSET Nat, T # {}
  PROVE  \E x \in T : \A y \in T : x <= y
<1>1. \E x \in T : \A y \in T : ~(<<y, x>> \in OpToRel(<, Nat))
  BY Zenon, NatLessThanWellFounded, WFMin
<1>2. \A x, y \in Nat : x < y => <<x, y>> \in OpToRel(<, Nat)
  BY Zenon DEF OpToRel
<1>3. \A x, y \in Nat : ~(y < x) => x <= y
  OBVIOUS
<1> QED
  BY Zenon, <1>1, <1>2, <1>3

\* The sums that TotalTimeout runs through.
IsSum(sum, p, m) ==
  sum = [n \in 0..m |-> IF n = 0 THEN 0 ELSE sum[n - 1] + p[n].timeout]

\* The recursion of total_timeout has a result for every number of phases.
LEMMA SumExists ==
  ASSUME NEW p \in Seq(GracefulPhases), NEW m \in 0..Len(p)
  PROVE  \E sum : IsSum(sum, p, m)
<1> DEFINE T == {n \in 0..Len(p) : ~\E sum : IsSum(sum, p, n)}
<1> SUFFICES ASSUME T # {} PROVE FALSE
  BY Zenon
<1>1. Len(p) \in Nat /\ T \in SUBSET Nat
  OBVIOUS
<1>2. PICK x \in T : \A y \in T : x <= y
  BY Zenon, <1>1, LeastNatural
<1>3. CASE x = 0
  <2>1. IsSum([n \in 0..0 |-> 0], p, 0)
    BY DEF IsSum
  <2> QED
    BY Zenon, <1>2, <1>3, <2>1
<1>4. CASE x # 0
  <2>1. x \in Nat /\ x - 1 \in 0..Len(p) /\ ~(x <= x - 1)
    BY <1>1, <1>2, <1>4
  <2>2. PICK sum : IsSum(sum, p, x - 1)
    BY Zenon, <1>2, <2>1
  <2> DEFINE g == [n \in 0..x |-> IF n = x THEN sum[x - 1] + p[x].timeout ELSE sum[n]]
  <2>3. \A n \in 0..(x - 1) : sum[n] = IF n = 0 THEN 0 ELSE sum[n - 1] + p[n].timeout
    BY Zenon, <2>2 DEF IsSum
  <2>4. \A n \in 0..x : g[n] = IF n = 0 THEN 0 ELSE g[n - 1] + p[n].timeout
    BY <1>4, <2>1, <2>3
  <2>5. IsSum(g, p, x)
    BY Zenon, <2>4 DEF IsSum
  <2> QED
    BY Zenon, <1>2, <2>5
<1> QED
  BY Zenon, <1>3, <1>4

\* The sums of p.
Sums(p) == CHOOSE sum : IsSum(sum, p, Len(p))

\* TotalTimeout is the last of them.
LEMMA TotalTimeoutIsSum ==
  ASSUME NEW p \in Seq(GracefulPhases)
  PROVE  IsSum(Sums(p), p, Len(p)) /\ TotalTimeout(p) = Sums(p)[Len(p)]
<1>1. Len(p) \in 0..Len(p)
  OBVIOUS
<1>2. IsSum(Sums(p), p, Len(p))
  BY Zenon, <1>1, SumExists DEF Sums
<1>3. TotalTimeout(p) = Sums(p)[Len(p)]
  BY Zenon DEF TotalTimeout, Sums, IsSum
<1> QED
  BY Zenon, <1>2, <1>3

\* The timeouts of the phases are naturals.
LEMMA PhaseTimeouts ==
  ASSUME NEW p \in Seq(GracefulPhases)
  PROVE  Len(p) \in Nat /\ \A n \in 1..Len(p) : p[n].timeout \in Nat
<1>1. Len(p) \in Nat /\ \A n \in 1..Len(p) : p[n] \in GracefulPhases
  OBVIOUS
<1> QED
  BY Zenon, <1>1 DEF GracefulPhases

\* The sums are naturals, start at 0, and each adds the timeout of its phase.
LEMMA SumsAdd ==
  ASSUME NEW p \in Seq(GracefulPhases)
  PROVE  /\ \A n \in 0..Len(p) : Sums(p)[n] \in Nat
         /\ Sums(p)[0] = 0
         /\ \A n \in 1..Len(p) : Sums(p)[n] = Sums(p)[n - 1] + p[n].timeout
<1> DEFINE S == Sums(p)
           T == {n \in 0..Len(p) : S[n] \notin Nat}
<1>1. \A n \in 0..Len(p) : S[n] = IF n = 0 THEN 0 ELSE S[n - 1] + p[n].timeout
  BY Zenon, TotalTimeoutIsSum DEF IsSum
<1>2. Len(p) \in Nat /\ \A n \in 1..Len(p) : p[n].timeout \in Nat
  BY Zenon, PhaseTimeouts
<1> HIDE DEF S
<1>3. S[0] = 0 /\ \A n \in 1..Len(p) : n \in 0..Len(p) /\ S[n] = S[n - 1] + p[n].timeout
  BY <1>1, <1>2
<1>4. ASSUME T # {} PROVE FALSE
  <2>1. T \in SUBSET Nat
    BY <1>2
  <2>2. PICK x \in T : \A y \in T : x <= y
    BY Zenon, <1>4, <2>1, LeastNatural
  <2>3. x \in 1..Len(p) /\ x - 1 \in 0..Len(p) /\ ~(x <= x - 1)
    BY <1>2, <1>3, <2>2
  <2>4. S[x - 1] \in Nat
    BY Zenon, <2>2, <2>3
  <2>5. S[x] \in Nat
    BY <1>2, <1>3, <2>3, <2>4
  <2> QED
    BY Zenon, <2>2, <2>5
<1> QED
  BY Zenon, <1>3, <1>4 DEF S

\* No sum is larger than the last.
LEMMA SumsGrow ==
  ASSUME NEW p \in Seq(GracefulPhases), NEW n \in 0..Len(p)
  PROVE  Sums(p)[n] <= TotalTimeout(p) /\ TotalTimeout(p) \in Nat
<1> DEFINE S == Sums(p)
           T == {k \in 0..Len(p) : ~(S[Len(p) - k] <= S[Len(p)])}
<1>1. /\ \A k \in 0..Len(p) : S[k] \in Nat
      /\ \A k \in 1..Len(p) : S[k] = S[k - 1] + p[k].timeout
  BY Zenon, SumsAdd
<1>2. Len(p) \in Nat /\ \A k \in 1..Len(p) : p[k].timeout \in Nat
  BY Zenon, PhaseTimeouts
<1>3. TotalTimeout(p) = S[Len(p)] /\ S[Len(p)] \in Nat
  <2>1. Len(p) \in 0..Len(p)
    BY <1>2
  <2> QED
    BY Zenon, <1>1, <2>1, TotalTimeoutIsSum
<1> HIDE DEF S
<1>4. ASSUME T # {} PROVE FALSE
  <2>1. T \in SUBSET Nat
    BY <1>2
  <2>2. PICK x \in T : \A y \in T : x <= y
    BY Zenon, <1>4, <2>1, LeastNatural
  <2>3. x \in 0..Len(p) /\ ~(S[Len(p) - x] <= S[Len(p)])
    BY Zenon, <2>2
  <2>4. x # 0
    BY <1>2, <1>3, <2>3
  <2>5. /\ x - 1 \in 0..Len(p) /\ ~(x <= x - 1)
        /\ Len(p) - (x - 1) \in 1..Len(p) /\ Len(p) - (x - 1) - 1 = Len(p) - x
        /\ Len(p) - x \in 0..Len(p) /\ Len(p) - (x - 1) \in 0..Len(p)
    BY <1>2, <2>3, <2>4
  <2>6. S[Len(p) - (x - 1)] <= S[Len(p)]
    BY Zenon, <2>2, <2>5
  <2>7. S[Len(p) - (x - 1)] = S[Len(p) - x] + p[Len(p) - (x - 1)].timeout
    BY Zenon, <1>1, <2>5
  <2>8. S[Len(p) - x] \in Nat /\ S[Len(p) - (x - 1)] \in Nat /\ p[Len(p) - (x - 1)].timeout \in Nat
    BY Zenon, <1>1, <1>2, <2>5
  <2> QED
    BY <1>3, <2>3, <2>6, <2>7, <2>8
<1>5. S[n] <= S[Len(p)]
  <2>1. Len(p) - n \in 0..Len(p) /\ Len(p) - (Len(p) - n) = n
    BY <1>2
  <2> QED
    BY Zenon, <1>4, <2>1
<1> QED
  BY Zenon, <1>3, <1>5 DEF S

\* Refusals are counted one by one.
LEMMA RefusalsCount ==
  ASSUME NEW d \in Seq(Actions)
  PROVE  /\ Refusals(d) \in Nat
         /\ Refusals(Append(d, "SendSignal")) = Refusals(d) + 1
         /\ \A a \in Actions \ {"SendSignal"} : Refusals(Append(d, a)) = Refusals(d)
<1> DEFINE Of(e) == {i \in DOMAIN e : e[i] = "SendSignal"}
<1>1. Len(d) \in Nat /\ DOMAIN d = 1..Len(d) /\ Len(d) + 1 \notin DOMAIN d
  OBVIOUS
<1>2. IsFiniteSet(Of(d))
  <2>1. IsFiniteSet(1..Len(d))
    BY <1>1, FS_Interval
  <2> QED
    BY Zenon, <1>1, <2>1, FS_Subset
<1>3. \A a : /\ DOMAIN Append(d, a) = 1..(Len(d) + 1)
             /\ Append(d, a)[Len(d) + 1] = a
             /\ \A i \in 1..Len(d) : Append(d, a)[i] = d[i]
  BY <1>1
<1>4. \A i : i \in 1..(Len(d) + 1) <=> i \in 1..Len(d) \/ i = Len(d) + 1
  BY <1>1
<1>5. Of(Append(d, "SendSignal")) = Of(d) \cup {Len(d) + 1}
  BY Zenon, <1>1, <1>3, <1>4
<1>6. \A a \in Actions \ {"SendSignal"} : Of(Append(d, a)) = Of(d)
  <2> TAKE a \in Actions \ {"SendSignal"}
  <2>1. a # "SendSignal"
    BY Zenon
  <2> QED
    BY Zenon, <1>1, <1>3, <1>4, <2>1
<1>7. Len(d) + 1 \notin Of(d)
  BY Zenon, <1>1
<1>8. \A e : Refusals(e) = Cardinality(Of(e))
  BY Zenon DEF Refusals
<1> HIDE DEF Of
<1>9. Cardinality(Of(d)) \in Nat
  BY Zenon, <1>2, FS_CardinalityType
<1>10. Cardinality(Of(d) \cup {Len(d) + 1}) = Cardinality(Of(d)) + 1
  BY Zenon, <1>2, <1>7, FS_AddElement
<1> QED
  BY Zenon, <1>5, <1>6, <1>8, <1>9, <1>10

\* The grace that the refused signals have cost.
Slack(actions) == Grace * Refusals(actions)

\* Up to the phase under way, the waits have taken no longer than the phases allow and
\* the refusals explain.
TimeInv ==
  /\ shutdown \in Seq(GracefulPhases) /\ diagnostics \in Seq(Actions)
  /\ phase \in Nat /\ waited \in Nat
  /\ owner = "wrapper" => drop_shutdown \in Seq(GracefulPhases) /\ drop_shutdown # <<>>
  /\ op \notin Terminating => waited = 0
  /\ op \in Terminating => waited <= TotalTimeout(shutdown) + Slack(diagnostics)
  /\ pc = "waiting" /\ waiting = "completion" =>
       phase = 1 /\ waited = 0 /\ (op = "or_terminate" => shutdown # <<>>)
  /\ pc = "preflight" => phase = 1 /\ waited = 0 /\ shutdown # <<>>
  /\ pc = "signal" \/ (pc = "waiting" /\ waiting = "phase") =>
       phase \in 1..Len(shutdown) /\ waited <= Sums(shutdown)[phase - 1] + Slack(diagnostics)
  /\ pc = "waiting" /\ waiting = "grace" =>
       phase \in 1..Len(shutdown) /\ waited + Grace <= Sums(shutdown)[phase - 1] + Slack(diagnostics)

\* A refusal costs one grace, and nothing else does.
LEMMA SlackCounts ==
  ASSUME NEW d \in Seq(Actions)
  PROVE  /\ Slack(d) \in Nat /\ Slack(Append(d, "SendSignal")) = Slack(d) + Grace
         /\ \A a \in Actions \ {"SendSignal"} : Slack(Append(d, a)) = Slack(d)
         /\ \A a \in Actions : Append(d, a) \in Seq(Actions) /\ Slack(d) <= Slack(Append(d, a))
<1>1. Grace \in Nat /\ Refusals(d) \in Nat
  BY Zenon, HandleAssumption, RefusalsCount
<1>2. \A r \in Nat : Grace * r \in Nat /\ Grace * (r + 1) = Grace * r + Grace
  BY <1>1
<1>3. Slack(d) \in Nat /\ Slack(Append(d, "SendSignal")) = Slack(d) + Grace
  BY Zenon, <1>1, <1>2, RefusalsCount DEF Slack
<1>4. \A a \in Actions \ {"SendSignal"} : Slack(Append(d, a)) = Slack(d)
  BY Zenon, RefusalsCount DEF Slack
<1>5. \A a \in Actions : Append(d, a) \in Seq(Actions)
  OBVIOUS
<1>6. Slack(d) <= Slack(d) /\ Slack(d) <= Slack(d) + Grace
  BY <1>1, <1>3
<1>7. \A a \in Actions : Slack(d) <= Slack(Append(d, a))
  BY Zenon, <1>3, <1>4, <1>6
<1> QED
  BY Zenon, <1>3, <1>4, <1>5, <1>7

\* A call or a drop starts with no time taken.
LEMMA StartKeepsTimeInv ==
  ASSUME NEW policy \in Seq(GracefulPhases), shutdown' = policy,
         phase' = 1, waited' = 0, diagnostics' = <<>>,
         owner' = "wrapper" => drop_shutdown' \in Seq(GracefulPhases) /\ drop_shutdown' # <<>>,
         pc' # "signal", pc' = "preflight" => policy # <<>>,
         pc' = "waiting" => waiting' = "completion" /\ (op' = "or_terminate" => policy # <<>>)
  PROVE  TimeInv'
<1>1. <<>> \in Seq(Actions) /\ 1 \in Nat /\ 0 \in Nat
  OBVIOUS
<1>2. Slack(<<>>) \in Nat
  BY Zenon, <1>1, SlackCounts
<1>3. TotalTimeout(policy) \in Nat
  <2>1. Len(policy) \in 0..Len(policy)
    OBVIOUS
  <2> QED
    BY Zenon, <2>1, SumsGrow
<1>4. 0 <= TotalTimeout(policy) + Slack(<<>>)
  BY <1>2, <1>3
<1> QED
  BY Zenon, <1>1, <1>4 DEF TimeInv

\* A step of a call that is no step of a graceful phase.
LEMMA FrameKeepsTimeInv ==
  ASSUME TimeInv, UNCHANGED <<op, shutdown, phase, waited>>,
         owner' = "wrapper" => owner = "wrapper" /\ UNCHANGED drop_shutdown,
         diagnostics' \in Seq(Actions), Slack(diagnostics) <= Slack(diagnostics'),
         pc' \notin {"signal", "preflight"},
         pc' = "waiting" => waiting' \notin {"completion", "phase", "grace"}
  PROVE  TimeInv'
<1>1. CASE op \in Terminating
  <2>1. TotalTimeout(shutdown) \in Nat
    <3>1. Len(shutdown) \in 0..Len(shutdown)
      BY DEF TimeInv
    <3> QED
      BY Zenon, <3>1, SumsGrow DEF TimeInv
  <2>2. Slack(diagnostics) \in Nat /\ Slack(diagnostics') \in Nat
    BY Zenon, SlackCounts DEF TimeInv
  <2>3. waited \in Nat /\ waited <= TotalTimeout(shutdown) + Slack(diagnostics)
    BY Zenon, <1>1 DEF TimeInv
  <2>4. waited <= TotalTimeout(shutdown) + Slack(diagnostics')
    BY <2>1, <2>2, <2>3
  <2> QED
    BY Zenon, <1>1, <2>4 DEF TimeInv
<1>2. CASE op \notin Terminating
  BY Zenon, <1>2 DEF TimeInv
<1> QED
  BY Zenon, <1>1, <1>2

\* The sums and the slack are naturals.
LEMMA TimesAreNaturals ==
  ASSUME TimeInv
  PROVE  /\ Len(shutdown) \in Nat /\ Grace \in Nat
         /\ Slack(diagnostics) \in Nat
         /\ \A n \in 0..Len(shutdown) : Sums(shutdown)[n] \in Nat /\ Sums(shutdown)[n] <= TotalTimeout(shutdown)
         /\ TotalTimeout(shutdown) \in Nat
         /\ \A n \in 1..Len(shutdown) :
              /\ Sums(shutdown)[n] = Sums(shutdown)[n - 1] + shutdown[n].timeout
              /\ shutdown[n].timeout \in Nat /\ n - 1 \in 0..Len(shutdown) /\ n \in 0..Len(shutdown)
<1>1. shutdown \in Seq(GracefulPhases) /\ diagnostics \in Seq(Actions)
  BY Zenon DEF TimeInv
<1>2. Len(shutdown) \in Nat /\ \A n \in 1..Len(shutdown) : shutdown[n].timeout \in Nat
  BY Zenon, <1>1, PhaseTimeouts
<1>3. Len(shutdown) \in 0..Len(shutdown)
      /\ \A n \in 1..Len(shutdown) : n - 1 \in 0..Len(shutdown) /\ n \in 0..Len(shutdown)
  BY <1>2
<1>4. Slack(diagnostics) \in Nat
  BY Zenon, <1>1, SlackCounts
<1>5. /\ \A n \in 0..Len(shutdown) : Sums(shutdown)[n] \in Nat
      /\ \A n \in 1..Len(shutdown) : Sums(shutdown)[n] = Sums(shutdown)[n - 1] + shutdown[n].timeout
  BY Zenon, <1>1, SumsAdd
<1>6. \A n \in 0..Len(shutdown) : Sums(shutdown)[n] <= TotalTimeout(shutdown) /\ TotalTimeout(shutdown) \in Nat
  BY Zenon, <1>1, SumsGrow
<1> QED
  BY Zenon, <1>2, <1>3, <1>4, <1>5, <1>6, HandleAssumption

\* Calls, and the steps that start or end the wrapper.
LEMMA CallsKeepTimeInv ==
  ASSUME TimeInv, Call
  PROVE  TimeInv'
<1> USE DEF handleVars, wrapperVars, ownerVars, opVars, phaseVars, callVars, sentVars, dropVars
<1>1. <<>> \in Seq(GracefulPhases)
  OBVIOUS
<1>2. CASE \/ WaitForCompletion("wait", <<>>) \/ SendSignal
           \/ \E o \in {"kill", "start_kill"} : Kill(o)
  <2>1. /\ shutdown' = <<>> /\ phase' = 1 /\ waited' = 0 /\ diagnostics' = <<>>
        /\ UNCHANGED <<owner, drop_shutdown>> /\ pc' \notin {"signal", "preflight"}
        /\ pc' = "waiting" => waiting' = "completion" /\ op' = "wait"
    BY Zenon, <1>2 DEF WaitForCompletion, WaitFor, SendSignal, Kill, Begin
  <2>2. owner' = "wrapper" => drop_shutdown' \in Seq(GracefulPhases) /\ drop_shutdown' # <<>>
    BY Zenon, <2>1 DEF TimeInv
  <2> QED
    BY Zenon, <1>1, <2>1, <2>2, StartKeepsTimeInv
<1>3. CASE \E p \in GracefulShutdowns(platform) : WaitForCompletion("or_terminate", p) \/ Terminate(p)
  <2>1. PICK p \in GracefulShutdowns(platform) : WaitForCompletion("or_terminate", p) \/ Terminate(p)
    BY Zenon, <1>3
  <2>2. /\ shutdown' = p /\ phase' = 1 /\ waited' = 0 /\ diagnostics' = <<>>
        /\ UNCHANGED <<owner, drop_shutdown>> /\ pc' # "signal"
        /\ pc' = "waiting" => waiting' = "completion"
    BY Zenon, <2>1 DEF WaitForCompletion, WaitFor, Terminate, Begin
  <2>3. owner' = "wrapper" => drop_shutdown' \in Seq(GracefulPhases) /\ drop_shutdown' # <<>>
    BY Zenon, <2>2 DEF TimeInv
  <2>4. p \in Seq(GracefulPhases) /\ p # <<>>
    BY Zenon, ShutdownsHavePhases
  <2> QED
    BY Zenon, <2>2, <2>3, <2>4, StartKeepsTimeInv
<1>4. CASE \/ \E r \in Probes : IsRunning(r)
           \/ CloseStdin \/ MustBeTerminated \/ MustNotBeTerminated \/ IntoInner
           \/ UnwrapTerminateOnDrop
           \/ \E f \in {"Panic", "Trace"}, p \in GracefulShutdowns(platform) : WrapTerminateOnDrop(f, p)
  <2>1. UNCHANGED <<op, pc, waiting, shutdown, phase, waited, diagnostics>>
    BY Zenon, <1>4 DEF IsRunning, CloseStdin, MustBeTerminated, MustNotBeTerminated, IntoInner,
                       WrapTerminateOnDrop, UnwrapTerminateOnDrop
  <2>2. owner' = "wrapper" => drop_shutdown' \in Seq(GracefulPhases) /\ drop_shutdown' # <<>>
    <3>1. CASE \E f \in {"Panic", "Trace"}, p \in GracefulShutdowns(platform) : WrapTerminateOnDrop(f, p)
      BY Zenon, <3>1, ShutdownsHavePhases DEF WrapTerminateOnDrop
    <3>2. CASE \/ \E r \in Probes : IsRunning(r)
               \/ CloseStdin \/ MustBeTerminated \/ MustNotBeTerminated \/ IntoInner
               \/ UnwrapTerminateOnDrop
      <4>1. owner' = "wrapper" => UNCHANGED <<owner, drop_shutdown>>
        BY Zenon, <3>2 DEF IsRunning, CloseStdin, MustBeTerminated, MustNotBeTerminated, IntoInner,
                           UnwrapTerminateOnDrop
      <4> QED
        BY Zenon, <4>1 DEF TimeInv
    <3> QED
      BY Zenon, <1>4, <3>1, <3>2
  <2> QED
    BY Zenon, <2>1, <2>2 DEF TimeInv
<1> QED
  BY Zenon, <1>2, <1>3, <1>4 DEF Call

\* The first probe of a termination takes no time.
LEMMA PreflightKeepsTimeInv ==
  ASSUME TimeInv, StepInv, NEW r \in Probes, Preflight(r)
  PROVE  TimeInv'
<1> USE DEF handleVars, wrapperVars, ownerVars, opVars, phaseVars
<1>1. /\ pc = "preflight" /\ UNCHANGED <<op, shutdown, phase, waited, owner, drop_shutdown>>
      /\ pc' \in {"signal", "idle", "drop_handle"}
      /\ diagnostics' = diagnostics \/ diagnostics' = Append(diagnostics, "CheckStatus")
  BY Zenon DEF Preflight, Succeed, Return
<1>2. diagnostics' \in Seq(Actions) /\ Slack(diagnostics) <= Slack(diagnostics')
  <2>1. diagnostics \in Seq(Actions) /\ "CheckStatus" \in Actions
    BY Zenon DEF TimeInv, Actions
  <2>2. Slack(diagnostics) \in Nat
    BY Zenon, <2>1, SlackCounts
  <2>3. Slack(diagnostics) <= Slack(diagnostics)
    BY <2>2
  <2> QED
    BY Zenon, <1>1, <2>1, <2>3, SlackCounts
<1>3. CASE pc' # "signal"
  BY Zenon, <1>1, <1>2, <1>3, FrameKeepsTimeInv
<1>4. CASE pc' = "signal"
  <2>1. /\ phase = 1 /\ waited = 0 /\ shutdown # <<>> /\ shutdown \in Seq(GracefulPhases)
        /\ op \in Terminating
    BY Zenon, <1>1 DEF TimeInv, StepInv
  <2>2. /\ phase \in 1..Len(shutdown) /\ phase - 1 = 0 /\ 0 \in 0..Len(shutdown)
    BY <2>1
  <2>3. Sums(shutdown)[0] \in Nat /\ TotalTimeout(shutdown) \in Nat
    BY Zenon, <2>2, TimesAreNaturals
  <2>4. Slack(diagnostics') \in Nat
    BY Zenon, <1>2, SlackCounts
  <2>5. /\ 0 <= Sums(shutdown)[0] + Slack(diagnostics')
        /\ 0 <= TotalTimeout(shutdown) + Slack(diagnostics')
    BY <2>3, <2>4
  <2> QED
    BY Zenon, <1>1, <1>2, <1>4, <2>1, <2>2, <2>5 DEF TimeInv
<1> QED
  BY Zenon, <1>3, <1>4

\* A phase whose signal was refused owes its grace to that refusal.
LEMMA GracefulPhaseKeepsTimeInv ==
  ASSUME TimeInv, StepInv, NEW ok \in BOOLEAN, GracefulPhase(ok)
  PROVE  TimeInv'
<1> USE DEF handleVars, wrapperVars, ownerVars, opVars, phaseVars
<1>1. /\ pc = "signal" /\ UNCHANGED <<op, shutdown, phase, waited, owner, drop_shutdown>>
      /\ pc' = "waiting" /\ waiting' = IF ok THEN "phase" ELSE "grace"
      /\ diagnostics' = IF ok THEN diagnostics ELSE Append(diagnostics, "SendSignal")
  BY Zenon DEF GracefulPhase, WaitFor
<1>2. /\ op \in Terminating /\ waited \in Nat /\ phase \in Nat /\ phase \in 1..Len(shutdown)
      /\ waited <= Sums(shutdown)[phase - 1] + Slack(diagnostics)
      /\ waited <= TotalTimeout(shutdown) + Slack(diagnostics)
      /\ diagnostics \in Seq(Actions)
  BY Zenon, <1>1 DEF TimeInv, StepInv
<1>3. /\ Grace \in Nat /\ Slack(diagnostics) \in Nat
      /\ Sums(shutdown)[phase - 1] \in Nat /\ TotalTimeout(shutdown) \in Nat
  BY Zenon, <1>2, TimesAreNaturals
<1>4. CASE ok
  BY Zenon, <1>1, <1>2, <1>4 DEF TimeInv
<1>5. CASE ~ok
  <2>1. diagnostics' = Append(diagnostics, "SendSignal") /\ waiting' = "grace"
    BY Zenon, <1>1, <1>5
  <2>2. Slack(diagnostics') = Slack(diagnostics) + Grace /\ diagnostics' \in Seq(Actions)
    BY Zenon, <1>2, <2>1, SlackCounts DEF Actions
  <2>3. /\ waited + Grace <= Sums(shutdown)[phase - 1] + Slack(diagnostics')
        /\ waited <= TotalTimeout(shutdown) + Slack(diagnostics')
    <3>1. \A w, s, d, g \in Nat : w <= s + d => w + g <= s + (d + g) /\ w <= s + (d + g)
      OBVIOUS
    <3> QED
      BY Zenon, <1>2, <1>3, <2>2, <3>1
  <2> QED
    BY Zenon, <1>1, <1>2, <2>1, <2>2, <2>3 DEF TimeInv
<1> QED
  BY Zenon, <1>4, <1>5

\* A phase that failed has taken at most its own timeout, or the grace of its refusal.
LEMMA EscalateKeepsTimeInv ==
  ASSUME TimeInv, StepInv, pc = "waiting", waiting \in {"phase", "grace"},
         NEW actions \in {<<>>, <<"WaitForExit">>, <<"CheckStatus">>}, Escalate(actions),
         UNCHANGED <<owner, drop_shutdown>>
  PROVE  TimeInv'
<1>1. /\ UNCHANGED <<op, shutdown>> /\ phase' = phase + 1 /\ waiting' = "none"
      /\ diagnostics' = diagnostics \o actions
      /\ waited' = waited + IF waiting = "phase" THEN shutdown[phase].timeout ELSE Grace
      /\ pc' = IF phase < Len(shutdown) THEN "signal" ELSE "forceful"
  BY Zenon DEF Escalate, NextPhase, opVars
<1>2. /\ op \in Terminating /\ waited \in Nat /\ phase \in Nat /\ phase \in 1..Len(shutdown)
      /\ diagnostics \in Seq(Actions)
  BY Zenon DEF TimeInv, StepInv
<1>3. /\ Len(shutdown) \in Nat /\ Grace \in Nat /\ Slack(diagnostics) \in Nat
      /\ shutdown[phase].timeout \in Nat /\ Sums(shutdown)[phase - 1] \in Nat
      /\ Sums(shutdown)[phase] = Sums(shutdown)[phase - 1] + shutdown[phase].timeout
      /\ Sums(shutdown)[phase] \in Nat /\ TotalTimeout(shutdown) \in Nat
      /\ Sums(shutdown)[phase] <= TotalTimeout(shutdown)
  BY Zenon, <1>2, TimesAreNaturals
<1>4. diagnostics' \in Seq(Actions) /\ Slack(diagnostics') = Slack(diagnostics)
  <2>1. /\ diagnostics \o <<>> = diagnostics
        /\ \A a \in Actions : diagnostics \o <<a>> = Append(diagnostics, a)
    BY <1>2
  <2>2. \/ diagnostics' = diagnostics
        \/ \E a \in Actions \ {"SendSignal"} : diagnostics' = Append(diagnostics, a)
    BY Zenon, <1>1, <2>1 DEF Actions
  <2> QED
    BY Zenon, <1>2, <2>2, SlackCounts
<1>5. waited' \in Nat /\ waited' <= Sums(shutdown)[phase] + Slack(diagnostics')
  <2>1. CASE waiting = "phase"
    <3>1. waited <= Sums(shutdown)[phase - 1] + Slack(diagnostics)
      BY Zenon, <2>1 DEF TimeInv
    <3>2. waited' = waited + shutdown[phase].timeout
      BY Zenon, <1>1, <2>1
    <3>3. \A w, s, t, d \in Nat : w <= s + d => w + t \in Nat /\ w + t <= (s + t) + d
      OBVIOUS
    <3> QED
      BY Zenon, <1>2, <1>3, <1>4, <3>1, <3>2, <3>3
  <2>2. CASE waiting = "grace"
    <3>1. waited + Grace <= Sums(shutdown)[phase - 1] + Slack(diagnostics)
      BY Zenon, <2>2 DEF TimeInv
    <3>2. waited' = waited + Grace
      BY Zenon, <1>1, <2>2
    <3>3. \A w, s, t, d, g \in Nat : w + g <= s + d => w + g \in Nat /\ w + g <= (s + t) + d
      OBVIOUS
    <3> QED
      BY Zenon, <1>2, <1>3, <1>4, <3>1, <3>2, <3>3
  <2> QED
    BY Zenon, <2>1, <2>2
<1>6. /\ waited' <= TotalTimeout(shutdown) + Slack(diagnostics')
      /\ phase' \in Nat /\ phase' - 1 = phase
      /\ phase < Len(shutdown) => phase' \in 1..Len(shutdown)
  <2>1. \A w, s, t, d \in Nat : w <= s + d /\ s <= t => w <= t + d
    OBVIOUS
  <2>2. \A n, k \in Nat : n + 1 \in Nat /\ (n + 1) - 1 = n /\ (n < k => n + 1 \in 1..k)
    OBVIOUS
  <2>3. Slack(diagnostics') \in Nat
    BY Zenon, <1>3, <1>4
  <2>4. waited' <= TotalTimeout(shutdown) + Slack(diagnostics')
    BY Zenon, <1>3, <1>5, <2>1, <2>3
  <2> QED
    BY Zenon, <1>1, <1>2, <1>3, <2>2, <2>4
<1> QED
  BY Zenon, <1>1, <1>2, <1>4, <1>5, <1>6 DEF TimeInv

\* What is only ever added to the diagnostics cannot lower the slack.
LEMMA SlackGrows ==
  ASSUME TimeInv, NEW d,
         \/ d = diagnostics
         \/ \E a \in Actions : d = Append(diagnostics, a)
         \/ d = diagnostics \o <<"SendSignal">>
         \/ d = diagnostics \o <<"SendSignal", "CheckStatus">>
  PROVE  d \in Seq(Actions) /\ Slack(diagnostics) <= Slack(d)
<1>1. diagnostics \in Seq(Actions)
  BY Zenon DEF TimeInv
<1>2. Slack(diagnostics) \in Nat
  BY Zenon, <1>1, SlackCounts
<1>3. Slack(diagnostics) <= Slack(diagnostics)
  BY <1>2
<1>4. \A a \in Actions : Append(diagnostics, a) \in Seq(Actions) /\ Slack(diagnostics) <= Slack(Append(diagnostics, a))
  BY Zenon, <1>1, SlackCounts
<1>5. "SendSignal" \in Actions /\ "CheckStatus" \in Actions
  BY Zenon DEF Actions
<1>6. /\ diagnostics \o <<"SendSignal">> = Append(diagnostics, "SendSignal")
      /\ diagnostics \o <<"SendSignal", "CheckStatus">> = Append(Append(diagnostics, "SendSignal"), "CheckStatus")
  BY <1>1, <1>5
<1> DEFINE d1 == Append(diagnostics, "SendSignal")
           d2 == Append(d1, "CheckStatus")
<1>7. d1 \in Seq(Actions) /\ d2 \in Seq(Actions) /\ Slack(diagnostics) <= Slack(d1) /\ Slack(d1) <= Slack(d2)
      /\ Slack(d1) \in Nat /\ Slack(d2) \in Nat
  BY Zenon, <1>4, <1>5, SlackCounts
<1>8. \A x, y, z \in Nat : x <= y /\ y <= z => x <= z
  OBVIOUS
<1>9. Slack(diagnostics) <= Slack(d2)
  BY Zenon, <1>2, <1>7, <1>8
<1> QED
  BY Zenon, <1>1, <1>3, <1>4, <1>6, <1>7, <1>9

\* The steps of a call under way.
LEMMA ProceedKeepsTimeInv ==
  ASSUME TimeInv, StepInv, Proceed
  PROVE  TimeInv'
<1> USE DEF handleVars, wrapperVars, ownerVars, opVars, phaseVars, callVars, sentVars, dropVars
<1>1. CASE (\E r \in Probes : Preflight(r)) \/ (\E ok \in BOOLEAN : GracefulPhase(ok))
  BY Zenon, <1>1, PreflightKeepsTimeInv, GracefulPhaseKeepsTimeInv
<1>2. CASE \/ WaitReaps
           \/ \E r \in Probes : StartKillProbe(r) \/ SignalPreflight(r) \/ SignalProbe(r)
           \/ \E ok \in BOOLEAN : ForcefulKill(ok) \/ KillSend(ok) \/ StartKillSend(ok)
                                  \/ SignalSend(ok) \/ DropRuns(ok)
  <2>1. /\ UNCHANGED <<op, shutdown, phase, waited, drop_shutdown>>
        /\ owner' = "wrapper" => owner = "wrapper"
    BY Zenon, <1>2 DEF WaitReaps, StartKillProbe, SignalPreflight, SignalProbe, ForcefulKill, KillSend,
                       StartKillSend, SignalSend, DropRuns, StartKillReturns, Succeed, Fail, Return
  <2>2. \/ diagnostics' = diagnostics
        \/ \E a \in Actions : diagnostics' = Append(diagnostics, a)
        \/ diagnostics' = diagnostics \o <<"SendSignal">>
        \/ diagnostics' = diagnostics \o <<"SendSignal", "CheckStatus">>
    BY Zenon, <1>2 DEF Actions, WaitReaps, StartKillProbe, SignalPreflight, SignalProbe, ForcefulKill,
                       KillSend, StartKillSend, SignalSend, DropRuns, Succeed, Fail
  <2>3. /\ pc' \notin {"signal", "preflight"}
        /\ pc' = "waiting" => waiting' \notin {"completion", "phase", "grace"}
    BY Zenon, <1>2 DEF WaitReaps, StartKillProbe, SignalPreflight, SignalProbe, ForcefulKill, KillSend,
                       StartKillSend, SignalSend, DropRuns, StartKillReturns, Succeed, Fail, Return, WaitFor
  <2>4. diagnostics' \in Seq(Actions) /\ Slack(diagnostics) <= Slack(diagnostics')
    BY Zenon, <2>2, SlackGrows
  <2> QED
    BY Zenon, <2>1, <2>3, <2>4, FrameKeepsTimeInv
<1> QED
  BY Zenon, <1>1, <1>2 DEF Proceed

\* A wait that times out or fails.
LEMMA WaitsKeepTimeInv ==
  ASSUME TimeInv, StepInv, WaitTimesOut \/ WaitFails
  PROVE  TimeInv'
<1> USE DEF handleVars, wrapperVars, ownerVars, opVars, phaseVars, callVars, sentVars, dropVars
<1>1. pc = "waiting" /\ UNCHANGED <<owner, drop_shutdown>>
  BY Zenon DEF WaitTimesOut, WaitFails
<1>2. CASE waiting \in {"phase", "grace"}
  <2>1. \E actions \in {<<>>, <<"WaitForExit">>, <<"CheckStatus">>} : Escalate(actions)
    BY Zenon, <1>2 DEF WaitTimesOut, WaitFails
  <2> QED
    BY Zenon, <1>1, <1>2, <2>1, EscalateKeepsTimeInv
<1>3. CASE waiting = "completion" /\ op = "or_terminate"
  <2>1. /\ UNCHANGED <<op, shutdown, phase, waited, diagnostics>> /\ pc' = "preflight"
    BY Zenon, <1>3 DEF WaitTimesOut, WaitFails, TurnToTermination
  <2> QED
    BY Zenon, <1>1, <1>3, <2>1 DEF TimeInv
<1>4. CASE waiting \notin {"phase", "grace"} /\ ~(waiting = "completion" /\ op = "or_terminate")
  <2>1. /\ UNCHANGED <<op, shutdown, phase, waited>> /\ pc' \in {"idle", "drop_handle"}
        /\ diagnostics' = diagnostics \/ \E a \in Actions : diagnostics' = Append(diagnostics, a)
    BY Zenon, <1>4 DEF WaitTimesOut, WaitFails, KillSurvived, Fail, Return, Actions
  <2>2. diagnostics' \in Seq(Actions) /\ Slack(diagnostics) <= Slack(diagnostics')
    BY Zenon, <2>1, SlackGrows
  <2> QED
    BY Zenon, <1>1, <2>1, <2>2, FrameKeepsTimeInv
<1> QED
  BY Zenon, <1>2, <1>3, <1>4

\* The child, a cancelled wait, and the drops.
LEMMA OthersKeepTimeInv ==
  ASSUME TimeInv, StepInv,
         \/ ChildExits \/ Cancel \/ DropHandle \/ (\E c \in Contexts : DropWrapper(c))
         \/ DropUnwinds \/ UNCHANGED vars
  PROVE  TimeInv'
<1> USE DEF handleVars, wrapperVars, ownerVars, opVars, phaseVars, callVars, sentVars, dropVars
<1>1. CASE ChildExits \/ UNCHANGED vars
  BY Zenon, <1>1 DEF ChildExits, vars, TimeInv
<1>2. CASE Cancel \/ DropUnwinds
  <2>1. /\ UNCHANGED <<op, shutdown, phase, waited, diagnostics, owner, drop_shutdown>>
        /\ pc' \in {"idle", "drop_handle"}
    BY Zenon, <1>2 DEF Cancel, DropUnwinds
  <2>2. diagnostics' \in Seq(Actions) /\ Slack(diagnostics) <= Slack(diagnostics')
    BY Zenon, <2>1, SlackGrows
  <2> QED
    BY Zenon, <2>1, <2>2, FrameKeepsTimeInv
<1>3. CASE DropHandle \/ \E c \in Contexts : DropWrapper(c)
  <2>1. /\ phase' = 1 /\ waited' = 0 /\ diagnostics' = <<>> /\ UNCHANGED <<owner, drop_shutdown>>
        /\ pc' \notin {"signal", "waiting"}
        /\ \/ shutdown' = <<>> /\ pc' # "preflight"
           \/ shutdown' = drop_shutdown /\ owner = "wrapper"
    BY Zenon, <1>3 DEF DropHandle, DropWrapper, BeginDrop
  <2>2. owner' = "wrapper" => drop_shutdown' \in Seq(GracefulPhases) /\ drop_shutdown' # <<>>
    BY Zenon, <2>1 DEF TimeInv
  <2>3. <<>> \in Seq(GracefulPhases)
    OBVIOUS
  <2>4. shutdown' \in Seq(GracefulPhases) /\ (pc' = "preflight" => shutdown' # <<>>)
    BY Zenon, <2>1, <2>2, <2>3
  <2> QED
    BY Zenon, <2>1, <2>2, <2>4, StartKeepsTimeInv
<1> QED
  BY Zenon, <1>1, <1>2, <1>3

\* All steps of ProcessHandle.
LEMMA HandleNextKeepsTimeInv ==
  ASSUME TimeInv, StepInv, HandleNext
  PROVE  TimeInv'
BY Zenon, CallsKeepTimeInv, ProceedKeepsTimeInv, WaitsKeepTimeInv, OthersKeepTimeInv
   DEF HandleNext, Finished

\* The inductive form says what GracefulTimeBounded says.
LEMMA TimeInvBounds == TimeInv => GracefulTimeBounded
<1> SUFFICES ASSUME TimeInv PROVE GracefulTimeBounded
  OBVIOUS
<1>1. TotalTimeout(shutdown) \in Nat /\ Slack(diagnostics) \in Nat
  BY Zenon, TimesAreNaturals
<1>2. 0 <= TotalTimeout(shutdown) + Slack(diagnostics)
  BY <1>1
<1> QED
  BY Zenon, <1>2 DEF TimeInv, GracefulTimeBounded, Slack

-----------------------------------------------------------------------------
(* The configuration of the streams *)

\* A builder starts out checked.
LEMMA NewBuilders ==
  /\ Checked(Discard) /\ Checked(Unset) /\ Usable(Unset)
  /\ \A backend \in {"broadcast", "single_subscriber"} : Checked(StreamBuilder(backend))
BY Zenon DEF Checked, Usable, Unset, Discard, StreamBuilder, Builders

\* Each stage asserts what the next ones rely on.
LEMMA StagesCheck ==
  ASSUME NEW b, Checked(b), NEW c \in Stages(b)
  PROVE  Checked(c)
<1> USE DEF Checked, Builders, RetentionValid, Usable, AssertValid
<1>1. Sizes \subseteq Nat
  BY SizeAssumption DEF Sizes
<1>2. CASE \E d \in Deliveries : b.stage = "delivery" /\ c = WithDelivery(b, d)
  BY Zenon, <1>2 DEF WithDelivery, Deliveries
<1>3. CASE \E r \in {"none", "all"} : b.stage = "replay" /\ c = WithReplay(b, r)
  BY Zenon, <1>3 DEF WithReplay
<1>4. CASE \E r \in {"chunks", "bytes"}, n \in Sizes : b.stage = "replay" /\ c = ReplayLast(b, r, n)
  <2>1. PICK r \in {"chunks", "bytes"}, n \in Sizes : b.stage = "replay" /\ c = ReplayLast(b, r, n)
    BY Zenon, <1>4
  <2>2. n \in Nat
    BY Zenon, <1>1
  <2>3. c = [b EXCEPT !.replay = r, !.retained = n,
                      !.stage = IF n > 0 THEN "read_chunk_size" ELSE "panicked"]
    BY Zenon, <2>1 DEF ReplayLast, WithReplay, After
  <2>4. c \in Builders
    BY Zenon, <2>2, <2>3
  <2>5. /\ c.stage = IF n > 0 THEN "read_chunk_size" ELSE "panicked"
        /\ c.retained = n
    BY Zenon, <2>3
  <2> QED
    BY Zenon, <2>2, <2>4, <2>5
<1>5. CASE \E n \in Sizes : b.stage = "read_chunk_size" /\ c = ReadChunkSize(b, n)
  BY Zenon, <1>1, <1>5 DEF ReadChunkSize, After
<1>6. CASE \E n \in Sizes : b.stage = "max_buffered_chunks" /\ c = MaxBufferedChunks(b, n)
  BY Zenon, <1>1, <1>6 DEF MaxBufferedChunks, After
<1> QED
  BY <1>2, <1>3, <1>4, <1>5, <1>6 DEF Stages

-----------------------------------------------------------------------------
(* spawn *)

\* A step of ProcessHandle leaves the configuration alone.
LEMMA HandleNextKeepsIInv ==
  ASSUME IInv, HandleNext, UNCHANGED spawnVars
  PROVE  IInv' /\ DisarmStep
<1>1. HandleInv' /\ DisarmStep
  BY Zenon, HandleNextKeepsHandleInv DEF IInv
<1>2. ConfigInv'
  BY Zenon DEF IInv, ConfigInv, spawnVars
<1>3. OwnerInv'
  BY Zenon, NoOwnerNoCall DEF IInv, OwnerInv, spawnVars
<1> QED
  BY Zenon, <1>1, <1>2, <1>3 DEF IInv

\* A step of the configuration or of spawn that leaves the handle alone.
LEMMA StutterKeepsHandleInv ==
  ASSUME HandleInv, UNCHANGED vars
  PROVE  HandleInv' /\ DisarmStep
BY Zenon DEF HandleInv, GuardInv, CallInv, Excused, DisarmStep, vars, handleVars, ownerVars, callVars,
       sentVars, dropVars

\* The calls on the builder: no child, no owner, and every configuration is checked.
LEMMA ConfigurationKeepsIInv ==
  ASSUME IInv,
         \/ \E streams \in {{"stdout"}, {"stderr"}, Streams} :
              \E b \in {Discard, StreamBuilder("broadcast"), StreamBuilder("single_subscriber")} :
                 Configure(streams, b)
         \/ ConfigureStep \/ Configured \/ SpawnFails \/ SpawnFinished
  PROVE  IInv' /\ DisarmStep
<1> USE DEF IInv
<1>1. UNCHANGED vars /\ (spawn' = spawn \/ spawn' \in {"failed", "panicked"})
  BY Zenon DEF Configure, ConfigureStep, Configured, SpawnFails, SpawnFinished, spawnVars
<1>2. HandleInv' /\ DisarmStep
  BY Zenon, <1>1, StutterKeepsHandleInv
<1>3. OwnerInv'
  BY Zenon, <1>1 DEF OwnerInv, vars, ownerVars, callVars
<1>4. ConfigInv'
  <2>1. CASE \E streams \in {{"stdout"}, {"stderr"}, Streams} :
               \E b \in {Discard, StreamBuilder("broadcast"), StreamBuilder("single_subscriber")} :
                  Configure(streams, b)
    BY Zenon, <2>1, NewBuilders DEF ConfigInv, Configure, Streams
  <2>2. CASE ConfigureStep
    BY Zenon, <2>2, StagesCheck DEF ConfigInv, ConfigureStep
  <2>3. CASE Configured
    BY Zenon, <2>3, NewBuilders DEF ConfigInv, Configured, Checked
  <2>4. CASE SpawnFails
    BY Zenon, <2>4 DEF ConfigInv, SpawnFails
  <2>5. CASE SpawnFinished
    BY Zenon, <2>5 DEF ConfigInv, SpawnFinished, spawnVars
  <2> QED
    BY Zenon, <2>1, <2>2, <2>3, <2>4, <2>5
<1> QED
  BY Zenon, <1>2, <1>3, <1>4

\* The steps of spawn_with_stream_configs: a child is dropped only if it was killed,
\* or if the failure to do so was reported; into_stream does not panic.
LEMMA SpawnKeepsIInv ==
  ASSUME IInv,
         Spawn \/ FromSpawnedChild \/ JobAttachmentFails \/ (\E s \in Streams : IntoStream(s)) \/ HandOver
  PROVE  IInv' /\ DisarmStep
<1> USE DEF IInv, HandleInv, GuardInv, CallInv, Excused, DisarmStep, OwnerInv,
            handleVars, ownerVars, callVars, sentVars, dropVars
<1>1. CASE Spawn
  <2>1. targets = {}
    BY Zenon, <1>1 DEF Spawn, ConfigInv
  <2>2. ConfigInv'
    BY Zenon, <1>1, <2>1 DEF Spawn, ConfigInv
  <2> QED
    BY Zenon, <1>1, <2>2 DEF Spawn
<1>2. CASE FromSpawnedChild
  <2>1. ConfigInv'
    BY Zenon, <1>2 DEF FromSpawnedChild, ConfigInv
  <2> QED
    BY Zenon, <1>2, <2>1 DEF FromSpawnedChild, vars
<1>3. CASE JobAttachmentFails
  <2>1. ConfigInv'
    BY Zenon, <1>3 DEF JobAttachmentFails, ConfigInv
  <2>2. PICK ok \in BOOLEAN : Send("SIGKILL", ok) /\ reported' = ~ok
    BY Zenon, <1>3 DEF JobAttachmentFails
  <2>3. child # "reaped" => "SIGKILL" \in delivered' \/ (refused' /\ reported')
    BY Zenon, <2>2, SendRecords
  <2> QED
    BY Zenon, <1>3, <2>1, <2>3 DEF JobAttachmentFails
<1>4. CASE \E s \in Streams : IntoStream(s)
  <2>1. PICK s \in Streams : IntoStream(s)
    BY Zenon, <1>4
  <2>2. spawn \in {"stdout", "stderr"}
    BY Zenon, <2>1 DEF IntoStream, Streams
  <2>3. ~IntoStreamPanics(config[s], pipe[s] = "piped")
    BY Zenon, <2>1, <2>2 DEF ConfigInv, IntoStreamPanics, ChildStdio, Usable
  <2>4. /\ UNCHANGED <<child, handleVars, owner, callVars, sentVars, opted_out, reported>>
        /\ UNCHANGED <<targets, builder, config, pipe>>
        /\ spawn' \in {"stderr", "hand_over"}
    BY Zenon, <2>1, <2>3 DEF IntoStream
  <2>5. ConfigInv'
    BY Zenon, <2>2, <2>4 DEF ConfigInv
  <2> QED
    BY Zenon, <2>2, <2>4, <2>5
<1>5. CASE HandOver
  <2>1. ConfigInv'
    BY Zenon, <1>5, NewBuilders DEF HandOver, ConfigInv, Checked
  <2> QED
    BY Zenon, <1>5, <2>1 DEF HandOver
<1> QED
  BY Zenon, <1>1, <1>2, <1>3, <1>4, <1>5

\* Nothing is spawned, and nothing owned, at first.
LEMMA InitIInv == Init => IInv
BY Zenon, NewBuilders DEF Init, HandleInit, IInv, HandleInv, GuardInv, CallInv, ConfigInv, OwnerInv, Checked

\* Every step, of the builder, of spawn or of the handle.
LEMMA NextKeepsIInv ==
  ASSUME IInv, [Next]_<<vars, spawnVars>>
  PROVE  IInv' /\ DisarmStep
<1>1. CASE HandleNext /\ UNCHANGED spawnVars
  BY Zenon, <1>1, HandleNextKeepsIInv
<1>2. CASE SpawnNext
  BY Zenon, <1>2, ConfigurationKeepsIInv, SpawnKeepsIInv DEF SpawnNext
<1>3. CASE UNCHANGED <<vars, spawnVars>>
  <2>1. HandleInv' /\ DisarmStep
    BY Zenon, <1>3, StutterKeepsHandleInv DEF IInv
  <2>2. ConfigInv' /\ OwnerInv'
    BY Zenon, <1>3 DEF IInv, ConfigInv, OwnerInv, spawnVars, vars, ownerVars, callVars
  <2> QED
    BY Zenon, <2>1, <2>2 DEF IInv
<1> QED
  BY Zenon, <1>1, <1>2, <1>3 DEF Next

-----------------------------------------------------------------------------
(* The pipes, and all invariants together *)

\* The delivery is chosen before any other call on the builder of a captured stream.
DeliveryChosen(b) == b.backend = "discard" \/ b.stage = "delivery" \/ b.delivery \in Deliveries

\* The streams that into_stream is through with are piped exactly if they are read.
PipeInv ==
  /\ DeliveryChosen(builder)
  /\ \A s \in Streams : config[s].backend = "discard" \/ config[s].delivery \in Deliveries
  /\ DOMAIN reader = Streams
  /\ spawn \in {"stderr", "hand_over"} => (pipe["stdout"] = "piped" <=> reader["stdout"] # "none")
  /\ spawn = "hand_over" => (pipe["stderr"] = "piped" <=> reader["stderr"] # "none")

FullInv == IInv /\ StepInv /\ PanicInv /\ EscalationInv /\ TimeInv /\ PipeInv

\* No later stage takes the delivery back.
LEMMA StagesKeepDelivery ==
  ASSUME NEW b \in Builders, DeliveryChosen(b), NEW c \in Stages(b)
  PROVE  DeliveryChosen(c)
<1>1. CASE b.stage = "delivery" /\ \E d \in Deliveries : c = WithDelivery(b, d)
  BY Zenon, <1>1 DEF WithDelivery, DeliveryChosen, Builders
<1>2. CASE b.stage # "delivery" /\ c.backend = b.backend /\ c.delivery = b.delivery
  BY Zenon, <1>2 DEF DeliveryChosen
<1>4. ASSUME \E r \in {"none", "all"} : b.stage = "replay" /\ c = WithReplay(b, r)
      PROVE  b.stage # "delivery" /\ c.backend = b.backend /\ c.delivery = b.delivery
  BY Zenon, <1>4 DEF WithReplay, Builders
<1>5. ASSUME \E r \in {"chunks", "bytes"}, n \in Sizes : b.stage = "replay" /\ c = ReplayLast(b, r, n)
      PROVE  b.stage # "delivery" /\ c.backend = b.backend /\ c.delivery = b.delivery
  BY <1>5 DEF ReplayLast, WithReplay, After, Builders
<1>6. ASSUME \E n \in Sizes : b.stage = "read_chunk_size" /\ c = ReadChunkSize(b, n)
      PROVE  b.stage # "delivery" /\ c.backend = b.backend /\ c.delivery = b.delivery
  BY <1>6 DEF ReadChunkSize, After, Builders
<1>7. ASSUME \E n \in Sizes : b.stage = "max_buffered_chunks" /\ c = MaxBufferedChunks(b, n)
      PROVE  b.stage # "delivery" /\ c.backend = b.backend /\ c.delivery = b.delivery
  BY <1>7 DEF MaxBufferedChunks, After, Builders
<1> QED
  BY <1>1, <1>2, <1>4, <1>5, <1>6, <1>7 DEF Stages

\* into_stream starts a reader for exactly the streams that have a pipe.
LEMMA ReaderForPipe ==
  ASSUME NEW c \in Builders, c.backend = "discard" \/ c.delivery \in Deliveries
  PROVE  ChildStdio(c) = "piped" <=> ReaderOf(c) # "none"
<1>1. c.backend \in {"discard", "broadcast", "single_subscriber"}
  BY Zenon DEF Builders
<1>2. CASE c.backend = "discard"
  BY <1>2 DEF ChildStdio, ReaderOf
<1>3. CASE c.backend # "discard"
  <2>1. c.delivery = "lossy" \/ c.delivery = "reliable"
    BY Zenon, <1>3 DEF Deliveries
  <2>2. ReaderOf(c) \in {"fast", "fanout", "best_effort", "reliable"}
    BY <1>1, <1>3, <2>1 DEF ReaderOf
  <2> QED
    BY Zenon, <1>3, <2>2 DEF ChildStdio
<1> QED
  BY Zenon, <1>2, <1>3

\* The steps of the builder and of spawn.
LEMMA SpawnKeepsPipeInv ==
  ASSUME IInv, PipeInv, SpawnNext
  PROVE  PipeInv'
<1>1. CASE \E streams \in {{"stdout"}, {"stderr"}, Streams} :
             \E b \in {Discard, StreamBuilder("broadcast"), StreamBuilder("single_subscriber")} :
                Configure(streams, b)
  <2>1. DeliveryChosen(Discard)
    BY Zenon DEF DeliveryChosen, Discard
  <2>2. \A backend : DeliveryChosen(StreamBuilder(backend))
    BY Zenon DEF DeliveryChosen, Discard, StreamBuilder
  <2> QED
    BY Zenon, <1>1, <2>1, <2>2 DEF Configure, PipeInv
<1>2. CASE ConfigureStep
  BY Zenon, <1>2, StagesKeepDelivery DEF ConfigureStep, PipeInv, IInv, ConfigInv, Checked
<1>3. CASE Configured
  <2>1. DeliveryChosen(Unset)
    BY Zenon DEF DeliveryChosen, Unset, Discard
  <2>2. builder.backend = "discard" \/ builder.delivery \in Deliveries
    BY Zenon, <1>3 DEF Configured, PipeInv, DeliveryChosen
  <2> QED
    BY Zenon, <1>3, <2>1, <2>2 DEF Configured, PipeInv
<1>4. CASE SpawnFails \/ Spawn \/ FromSpawnedChild \/ JobAttachmentFails \/ SpawnFinished
  BY Zenon, <1>4 DEF SpawnFails, Spawn, FromSpawnedChild, JobAttachmentFails, SpawnFinished, spawnVars, PipeInv
<1>5. CASE \E s \in Streams : IntoStream(s)
  <2>1. PICK s \in Streams : IntoStream(s)
    BY Zenon, <1>5
  <2>2. spawn = s /\ s \in {"stdout", "stderr"}
    BY Zenon, <2>1 DEF IntoStream, Streams
  <2>3. ~IntoStreamPanics(config[s], pipe[s] = "piped") /\ pipe[s] = ChildStdio(config[s])
    BY Zenon, <2>1, <2>2 DEF IInv, ConfigInv, IntoStreamPanics, ChildStdio, Usable
  <2>4. /\ UNCHANGED <<builder, config, pipe>>
        /\ reader' = [reader EXCEPT ![s] = ReaderOf(config[s])]
        /\ spawn' = IF s = "stdout" THEN "stderr" ELSE "hand_over"
    BY Zenon, <2>1, <2>3 DEF IntoStream
  <2>5. pipe[s] = "piped" <=> reader'[s] # "none"
    BY Zenon, <2>3, <2>4, ReaderForPipe DEF PipeInv, IInv, ConfigInv
  <2> QED
    BY Zenon, <2>2, <2>4, <2>5 DEF PipeInv, Streams
<1>6. CASE HandOver
  <2>1. Unset.backend = "discard"
    BY Zenon DEF Unset, Discard
  <2> QED
    BY Zenon, <1>6, <2>1 DEF HandOver, PipeInv
<1> QED
  BY Zenon, <1>1, <1>2, <1>3, <1>4, <1>5, <1>6 DEF SpawnNext

\* Until the handle is there, spawn makes no call on it, and does not panic.
LEMMA SpawnMakesNoCall ==
  ASSUME IInv, StepInv, PanicInv, SpawnNext
  PROVE  \/ UNCHANGED vars
         \/ /\ op = "none" /\ pc = "idle" /\ context = "none" /\ panics # 1 /\ owner' # "wrapper"
            /\ UNCHANGED <<callVars, wrapperVars, context, panics>>
<1> USE DEF handleVars, ownerVars, dropVars
<1>1. CASE \/ \E streams \in {{"stdout"}, {"stderr"}, Streams} :
                \E b \in {Discard, StreamBuilder("broadcast"), StreamBuilder("single_subscriber")} :
                   Configure(streams, b)
           \/ ConfigureStep \/ Configured \/ SpawnFails \/ FromSpawnedChild \/ SpawnFinished
  BY Zenon, <1>1 DEF Configure, ConfigureStep, Configured, SpawnFails, FromSpawnedChild, SpawnFinished
<1>2. CASE Spawn \/ JobAttachmentFails \/ (\E s \in Streams : IntoStream(s)) \/ HandOver
  <2>1. spawn \in {"configure", "from_spawned_child", "stdout", "stderr", "hand_over"}
    BY Zenon, <1>2 DEF Spawn, JobAttachmentFails, IntoStream, HandOver, Streams
  <2>2. owner = "none"
    BY Zenon, <2>1 DEF IInv, OwnerInv
  <2>3. op = "none" /\ pc = "idle"
    BY Zenon, <2>2 DEF StepInv
  <2>4. context = "none" /\ panics # 1
    BY Zenon, <2>2, <2>3 DEF PanicInv, Dropping
  <2>5. CASE \E s \in Streams : IntoStream(s)
    <3>1. PICK s \in Streams : IntoStream(s)
      BY Zenon, <2>5
    <3>2. spawn \in {"stdout", "stderr"} /\ spawn = s
      BY Zenon, <3>1 DEF IntoStream, Streams
    <3>3. ~IntoStreamPanics(config[s], pipe[s] = "piped")
      BY Zenon, <3>1, <3>2 DEF IInv, ConfigInv, IntoStreamPanics, ChildStdio, Usable
    <3> QED
      BY Zenon, <2>2, <2>3, <2>4, <3>1, <3>3 DEF IntoStream
  <2>6. CASE Spawn \/ JobAttachmentFails \/ HandOver
    BY Zenon, <2>2, <2>3, <2>4, <2>6 DEF Spawn, JobAttachmentFails, HandOver
  <2> QED
    BY Zenon, <1>2, <2>5, <2>6
<1> QED
  BY Zenon, <1>1, <1>2 DEF SpawnNext

\* What a step of spawn leaves to the handle's invariants.
LEMMA QuietKeepsCallInvs ==
  ASSUME StepInv, PanicInv, EscalationInv, TimeInv,
         \/ UNCHANGED vars
         \/ /\ op = "none" /\ pc = "idle" /\ context = "none" /\ panics # 1 /\ owner' # "wrapper"
            /\ UNCHANGED <<callVars, wrapperVars, context, panics>>
  PROVE  StepInv' /\ PanicInv' /\ EscalationInv' /\ TimeInv' /\ SuccessStep
<1> USE DEF handleVars, wrapperVars, ownerVars, opVars, phaseVars, callVars, sentVars, dropVars
<1>1. CASE UNCHANGED vars
  <2>1. StepInv' /\ SuccessStep
    BY Zenon, <1>1 DEF vars, StepInv, SuccessStep
  <2>2. PanicInv'
    BY Zenon, <1>1 DEF vars, PanicInv
  <2> QED
    BY Zenon, <1>1, <2>1, <2>2, OthersKeepEscalationInv, OthersKeepTimeInv
<1>2. CASE /\ op = "none" /\ pc = "idle" /\ context = "none" /\ panics # 1 /\ owner' # "wrapper"
           /\ UNCHANGED <<callVars, wrapperVars, context, panics>>
  <2>1. StepInv' /\ SuccessStep
    BY Zenon, <1>2 DEF StepInv, SuccessStep, Dropping
  <2>2. PanicInv'
    BY Zenon, <1>2 DEF PanicInv, Dropping
  <2>3. EscalationInv'
    BY Zenon, <1>2 DEF EscalationInv, Escalating
  <2>4. TimeInv'
    BY Zenon, <1>2 DEF TimeInv
  <2> QED
    BY Zenon, <2>1, <2>2, <2>3, <2>4
<1> QED
  BY Zenon, <1>1, <1>2

\* Nothing was called, tried or waited for at first.
LEMMA InitFullInv == Init => FullInv
<1> SUFFICES ASSUME Init PROVE FullInv
  OBVIOUS
<1>1. IInv
  BY Zenon, InitIInv
<1>2. StepInv
  BY Zenon DEF Init, HandleInit, StepInv, Dropping
<1>3. PanicInv
  <2>1. panics = 0 /\ panics # 1
    BY DEF Init, HandleInit
  <2> QED
    BY Zenon, <2>1 DEF Init, HandleInit, PanicInv, Dropping
<1>4. EscalationInv
  BY Zenon DEF Init, HandleInit, EscalationInv, Escalating
<1>5. TimeInv
  <2>1. <<>> \in Seq(GracefulPhases) /\ <<>> \in Seq(Actions) /\ 0 \in Nat /\ 1 \in Nat
    OBVIOUS
  <2> QED
    BY Zenon, <2>1 DEF Init, HandleInit, TimeInv, Terminating
<1>6. PipeInv
  BY Zenon DEF Init, PipeInv, DeliveryChosen, Unset, Discard
<1> QED
  BY Zenon, <1>1, <1>2, <1>3, <1>4, <1>5, <1>6 DEF FullInv

\* Every step keeps them, and does what SuccessIsReal says.
LEMMA NextKeepsFullInv ==
  ASSUME FullInv, [Next]_<<vars, spawnVars>>
  PROVE  FullInv' /\ SuccessStep
<1> USE DEF FullInv
<1>1. IInv'
  BY Zenon, NextKeepsIInv
<1>2. CASE HandleNext /\ UNCHANGED spawnVars
  <2>1. StepInv' /\ SuccessStep
    BY Zenon, <1>2, HandleNextKeepsStepInv DEF IInv
  <2>2. PanicInv'
    BY Zenon, <1>2, HandleNextKeepsPanicInv DEF IInv
  <2>3. EscalationInv' /\ TimeInv'
    BY Zenon, <1>2, HandleNextKeepsEscalationInv, HandleNextKeepsTimeInv
  <2>4. PipeInv'
    BY Zenon, <1>2 DEF PipeInv, spawnVars
  <2> QED
    BY Zenon, <1>1, <2>1, <2>2, <2>3, <2>4
<1>3. CASE SpawnNext
  BY Zenon, <1>1, <1>3, SpawnMakesNoCall, QuietKeepsCallInvs, SpawnKeepsPipeInv
<1>4. CASE UNCHANGED <<vars, spawnVars>>
  <2>1. PipeInv'
    BY Zenon, <1>4 DEF PipeInv, spawnVars
  <2> QED
    BY Zenon, <1>1, <1>4, <2>1, QuietKeepsCallInvs
<1> QED
  BY Zenon, <1>2, <1>3, <1>4 DEF Next

-----------------------------------------------------------------------------
\* The inductive invariant of a process from its builder to its drop.
THEOREM SpawnInvariant == Spec => []IInv
BY InitIInv, NextKeepsIInv, PTL DEF Spec

\* Whatever was configured, called, refused, timed out or cancelled: a child that
\* runs on after its handle is gone was killed, detached, or reported.
THEOREM LeakIsNeverSilent == Spec => []NoSilentLeak
<1>1. IInv => NoSilentLeak
  BY Zenon DEF IInv, HandleInv, GuardInv, Excused, NoSilentLeak
<1> QED
  BY <1>1, SpawnInvariant, PTL

\* No step disarms the guard, except for an exit status, a delivered kill, an
\* opt-out, or a refused kill in the fallback of the wrapper.
THEOREM GuardHolds == Spec => DisarmOnlyWhenClosed
<1>1. IInv /\ [Next]_<<vars, spawnVars>> => DisarmStep
  BY Zenon, NextKeepsIInv
<1>2. IInv /\ [Next]_<<vars, spawnVars>> =>
        [drop_mode = "armed" /\ drop_mode' = "disarmed" =>
           \/ child' = "reaped"
           \/ opted_out'
           \/ "SIGKILL" \in delivered'
           \/ op = "drop_kill" /\ refused']_vars
  BY Zenon, <1>1 DEF DisarmStep
<1> QED
  BY <1>2, SpawnInvariant, PTL DEF Spec, DisarmOnlyWhenClosed

\* The inductive invariant of a call on the handle: which step belongs to which call,
\* what was tried and waited for, who has panicked, and which pipes are read.
THEOREM CallInvariant == Spec => []FullInv
BY InitFullInv, NextKeepsFullInv, PTL DEF Spec

\* Whatever the child, the kernel and the clock do: a call that reports success has
\* reaped the child, or as start_kill delivered the kill, and has closed the guard.
THEOREM SuccessHolds == Spec => SuccessIsReal
<1>1. FullInv /\ [Next]_<<vars, spawnVars>> => SuccessStep
  BY Zenon, NextKeepsFullInv
<1>2. FullInv /\ [Next]_<<vars, spawnVars>> =>
        [pc # "idle" /\ pc' = "idle" /\ owner' # "dropped" /\ result' \in {"ok", "wait_failed"} =>
           /\ drop_mode' = "disarmed"
           /\ child' = "reaped" \/ (op = "start_kill" /\ "SIGKILL" \in delivered')]_vars
  BY Zenon, <1>1 DEF SuccessStep
<1> QED
  BY <1>2, CallInvariant, PTL DEF Spec, SuccessIsReal

\* For every policy, with any number of phases: terminate tries its signals in order,
\* each once, then the kill, and fails only after that.
THEOREM EscalatesInOrder == Spec => []EscalationInOrder
<1>1. FullInv => EscalationInOrder
  BY Zenon, EscalationInvInOrder DEF FullInv
<1> QED
  BY <1>1, CallInvariant, PTL

\* For every policy: the graceful waits take no longer than total_timeout, and one
\* grace for each signal that was refused.
THEOREM TimeIsBounded == Spec => []GracefulTimeBounded
<1>1. FullInv => GracefulTimeBounded
  BY Zenon, TimeInvBounds DEF FullInv
<1> QED
  BY <1>1, CallInvariant, PTL

\* A drop panics at most once, never on a thread that is unwinding already, and not at
\* all in the fallback that only traces.
THEOREM PanicsOnce == Spec => []PanicDiscipline
<1>1. \A n \in {0, 1} : n <= 1
  OBVIOUS
<1>2. FullInv => PanicDiscipline
  BY Zenon, <1>1 DEF FullInv, PanicInv, PanicDiscipline
<1> QED
  BY <1>2, CallInvariant, PTL

\* The handle that spawn returns has a reader for every pipe and a pipe for every reader.
THEOREM PipesAreRead == Spec => SpawnHandsOver
<1>1. FullInv /\ [Next]_<<vars, spawnVars>> =>
        [spawn # "handle" /\ spawn' = "handle" =>
           \A s \in Streams : pipe[s] = "piped" <=> reader[s] # "none"]_<<vars, spawnVars>>
  <2> SUFFICES ASSUME FullInv, Next, spawn # "handle", spawn' = "handle"
               PROVE  \A s \in Streams : pipe[s] = "piped" <=> reader[s] # "none"
    BY Zenon
  <2>1. spawn = "hand_over"
    BY Zenon DEF Next, SpawnNext, spawnVars, Configure, ConfigureStep, Configured, SpawnFails, Spawn,
                 FromSpawnedChild, JobAttachmentFails, IntoStream, HandOver, SpawnFinished, Streams
  <2> QED
    BY Zenon, <2>1 DEF FullInv, PipeInv, Streams
<1> QED
  BY <1>1, CallInvariant, PTL DEF Spec, SpawnHandsOver
=============================================================================
