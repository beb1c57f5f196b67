------------------------- MODULE GracefulShutdown -------------------------
(***************************************************************************)
(* The policies of process_handle/termination/shutdown.rs that terminate,  *)
(* or_terminate and TerminateOnDrop are given: the phases to try before    *)
(* the kill.  Durations are natural numbers.                               *)
(***************************************************************************)
EXTENDS Naturals, Sequences

CONSTANTS
  Timeouts,      \* of a phase
  PhaseLists     \* what from_phases is given

Platforms == {"unix", "windows"}

ASSUME ShutdownAssumption ==
  /\ Timeouts \subseteq Nat
  /\ PhaseLists \subseteq Seq([signal : {"SIGINT", "SIGTERM"}, timeout : Nat])

\* UnixGracefulPhase::interrupt and ::terminate.
InterruptPhase(timeout) == [signal |-> "SIGINT", timeout |-> timeout]
TerminatePhase(timeout) == [signal |-> "SIGTERM", timeout |-> timeout]

\* The one step that terminate_with_hooks makes of a WindowsGracefulShutdown.
CtrlBreakPhase(timeout) == [signal |-> "CTRL_BREAK", timeout |-> timeout]

GracefulSignals(platform) ==
  IF platform = "unix" THEN {"SIGINT", "SIGTERM"} ELSE {"CTRL_BREAK"}

\* UnixGracefulShutdown: its constructors; from_phases panics without a phase.
TerminateOnly(timeout) == <<TerminatePhase(timeout)>>
InterruptOnly(timeout) == <<InterruptPhase(timeout)>>
FromPhases(phases) == IF phases = <<>> THEN {} ELSE {phases}

UnixGracefulShutdowns ==
  (UNION {{TerminateOnly(t), InterruptOnly(t)} : t \in Timeouts})
  \cup (UNION {FromPhases(phases) : phases \in PhaseLists})

\* GracefulShutdownBuilder: unix, then windows, then build, which keeps the half
\* of the platform it is compiled for.
Build(platform, unix, windows) ==
  IF platform = "unix" THEN unix ELSE <<CtrlBreakPhase(windows)>>

GracefulShutdowns(platform) ==
  {Build(platform, u, w) : u \in UnixGracefulShutdowns, w \in Timeouts}

\* Mutant: only the last phase counts.
TotalTimeout_OfLast(shutdown) == IF shutdown = <<>> THEN 0 ELSE shutdown[Len(shutdown)].timeout

\* total_timeout.
TotalTimeout(shutdown) ==
  LET sum[n \in 0..Len(shutdown)] == IF n = 0 THEN 0 ELSE sum[n - 1] + shutdown[n].timeout
  IN  sum[Len(shutdown)]
===========================================================================
