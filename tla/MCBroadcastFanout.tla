------------------------- MODULE MCBroadcastFanout -------------------------
(* Instances of BroadcastFanout for TLC. *)
EXTENDS BroadcastFanout

CONSTANTS s1, s2

MCSubs == {s1, s2}
MCOne == {s1}
============================================================================
