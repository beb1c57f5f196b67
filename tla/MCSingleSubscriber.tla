------------------------ MODULE MCSingleSubscriber ------------------------
(* Instances of SingleSubscriber for TLC. *)
EXTENDS SingleSubscriber

Policy(reliable, retention, subs, bytes) ==
  [reliable |-> reliable, retention |-> retention, max_subs |-> subs, max_bytes |-> bytes]

MCPolicies == {Policy(TRUE, "bytes", 3, 2), Policy(FALSE, "none", 2, 3)}
MCReplayAll == {Policy(FALSE, "all", 3, 4)}
===========================================================================
