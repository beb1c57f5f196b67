---------------------------- MODULE EventStream ----------------------------
(***************************************************************************)
(* What an output-stream backend promises each of its subscriptions,       *)
(* whatever queues, replay windows and reader tasks it is built from.      *)
(*                                                                         *)
(* The child's output is a growing log of chunks 0, 1, 2, ... that may be  *)
(* ended once, by EOF or by a read error.  A subscription starts at some   *)
(* position of the log, settled when it attaches or by the first chunk it  *)
(* observes, and observes the chunks in order from there.  It may skip     *)
(* chunks only after it has been shown a Gap marker, and only when the     *)
(* delivery policy is lossy.  It observes the terminal event only when     *)
(* nothing was skipped silently before it, and at most once.  A            *)
(* subscription ends without a terminal event only when the stream object  *)
(* itself was dropped (Cut).                                               *)
(***************************************************************************)
EXTENDS Integers

CONSTANT
  Subs       \* subscriptions

VARIABLES
  lossy,     \* TRUE when the policy is LossyWithoutBackpressure; never changes
  produced,  \* number of chunks the reader has numbered so far
  ended,     \* "no", or the kind of terminal event: "eof" or "error"
  cut,       \* TRUE once the stream object is being dropped
  phase,     \* phase[s]: "idle", "open", "ended" or "left"
  pos,       \* pos[s]: the chunk s must observe next
  gapped     \* gapped[s]: the last thing s observed is a Gap marker

vars == <<lossy, produced, ended, cut, phase, pos, gapped>>

Terminals == {"eof", "error"}

\* The position of a subscription whose first chunk is not settled yet: a chunk
\* was on its way when it attached, and may or may not still reach it.
Unsettled == -1

Init ==
  /\ lossy \in BOOLEAN
  /\ produced = 0
  /\ ended = "no"
  /\ cut = FALSE
  /\ phase = [s \in Subs |-> "idle"]
  /\ pos = [s \in Subs |-> 0]
  /\ gapped = [s \in Subs |-> FALSE]

\* More chunks of the child's output are numbered.
Ingest ==
  /\ ended = "no"
  /\ produced' \in Nat /\ produced' > produced
  /\ UNCHANGED <<ended, cut, phase, pos, gapped>>

\* The child's output ends.
Finish ==
  /\ ended = "no"
  /\ ended' \in Terminals
  /\ UNCHANGED <<produced, cut, phase, pos, gapped>>

\* The stream object is dropped.
Cut ==
  /\ ~cut
  /\ cut' = TRUE
  /\ UNCHANGED <<produced, ended, phase, pos, gapped>>

\* A subscription starts at a retained chunk or at the live end of the log.
Attach(s) ==
  /\ phase[s] = "idle"
  /\ phase' = [phase EXCEPT ![s] = "open"]
  /\ \E p \in 0..produced \cup {Unsettled} : pos' = [pos EXCEPT ![s] = p]
  /\ UNCHANGED <<produced, ended, cut, gapped>>

\* The next chunk, or a later one directly after a Gap marker.
ObserveChunk(s) ==
  /\ phase[s] = "open"
  /\ \E n \in pos[s]..(produced - 1) :
        /\ n >= 0
        /\ n = pos[s] \/ gapped[s] \/ pos[s] = Unsettled
        /\ pos' = [pos EXCEPT ![s] = n + 1]
  /\ gapped' = [gapped EXCEPT ![s] = FALSE]
  /\ UNCHANGED <<produced, ended, cut, phase>>

\* A Gap marker: only a lossy stream emits one, and only for chunks that exist.
ObserveGap(s) ==
  /\ lossy
  /\ phase[s] = "open"
  /\ pos[s] < produced
  /\ gapped' = [gapped EXCEPT ![s] = TRUE]
  /\ UNCHANGED <<produced, ended, cut, phase, pos>>

\* The terminal event, after every chunk that was not announced as lost.
ObserveEnd(s) ==
  /\ phase[s] = "open"
  /\ ended \in Terminals
  /\ pos[s] \in {produced, Unsettled} \/ gapped[s]
  /\ phase' = [phase EXCEPT ![s] = "ended"]
  /\ UNCHANGED <<produced, ended, cut, pos, gapped>>

\* The end of the subscription without a terminal event.
ObserveCut(s) ==
  /\ phase[s] = "open"
  /\ cut
  /\ phase' = [phase EXCEPT ![s] = "ended"]
  /\ UNCHANGED <<produced, ended, cut, pos, gapped>>

\* The owner of the subscription drops it.
Leave(s) ==
  /\ phase[s] \in {"open", "ended"}
  /\ phase' = [phase EXCEPT ![s] = "left"]
  /\ UNCHANGED <<produced, ended, cut, pos, gapped>>

Observe(s) ==
  ObserveChunk(s) \/ ObserveGap(s) \/ ObserveEnd(s) \/ ObserveCut(s)

Next ==
  /\ UNCHANGED lossy
  /\ \/ Ingest
     \/ Finish
     \/ Cut
     \/ \E s \in Subs : Attach(s) \/ Observe(s) \/ Leave(s)

Spec == Init /\ [][Next]_vars
============================================================================
