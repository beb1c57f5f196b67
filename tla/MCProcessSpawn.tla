-------------------------- MODULE MCProcessSpawn --------------------------
(* Instances of ProcessSpawn for TLC. *)
EXTENDS ProcessSpawn

MCPhaseLists == {<<>>, <<InterruptPhase(2), TerminatePhase(1)>>}
===========================================================================
