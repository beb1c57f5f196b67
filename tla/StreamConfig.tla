--------------------------- MODULE StreamConfig ---------------------------
(***************************************************************************)
(* The staged builder of a stream's configuration: output_stream/config.rs *)
(* with the policies of policy.rs and the sizes of num_bytes.rs, as        *)
(* process/stream_config.rs wraps it for one stream of a process.  A       *)
(* builder is a record whose stage says which call comes next; a failed    *)
(* assertion leaves it in stage "panicked".                                *)
(***************************************************************************)
EXTENDS Naturals

CONSTANT MaxSize     \* the largest size that is tried
ASSUME SizeAssumption == MaxSize \in Nat \ {0}

Sizes == 0..MaxSize

\* ProcessStreamBuilder::broadcast, ::single_subscriber and ::discard.
Discard ==
  [stage |-> "ready", backend |-> "discard", delivery |-> "none", replay |-> "none",
   retained |-> 0, read_chunk_size |-> 0, max_buffered_chunks |-> 0]
StreamBuilder(backend) == [Discard EXCEPT !.stage = "delivery", !.backend = backend]

Deliveries == {"lossy", "reliable"}

\* lossy_without_backpressure, reliable_with_backpressure.
WithDelivery(b, delivery) == [b EXCEPT !.stage = "replay", !.delivery = delivery]

\* assert_non_zero and assert_max_buffered: go on, or panic.
After(n, b) == IF n > 0 THEN b ELSE [b EXCEPT !.stage = "panicked"]

\* no_replay and replay_all.
WithReplay(b, replay) == [b EXCEPT !.stage = "read_chunk_size", !.replay = replay]

\* replay_last_chunks, replay_last_bytes.
ReplayLast(b, replay, n) == After(n, [WithReplay(b, replay) EXCEPT !.retained = n])

ReadChunkSize(b, n) ==
  After(n, [b EXCEPT !.stage = "max_buffered_chunks", !.read_chunk_size = n])

MaxBufferedChunks(b, n) ==
  After(n, [b EXCEPT !.stage = "ready", !.max_buffered_chunks = n])

\* What the next call on a builder can make of it.
Stages(b) ==
  {c \in      {WithDelivery(b, d) : d \in Deliveries} : b.stage = "delivery"}
  \cup {c \in {WithReplay(b, r) : r \in {"none", "all"}} : b.stage = "replay"}
  \cup {c \in {ReplayLast(b, r, n) : r \in {"chunks", "bytes"}, n \in Sizes} : b.stage = "replay"}
  \cup {c \in {ReadChunkSize(b, n) : n \in Sizes} : b.stage = "read_chunk_size"}
  \cup {c \in {MaxBufferedChunks(b, n) : n \in Sizes} : b.stage = "max_buffered_chunks"}

-----------------------------------------------------------------------------
\* StreamConfig::assert_valid and ReplayRetention::assert_non_zero, which
\* from_stream repeats because the fields of a StreamConfig are public.
AssertValid(c) ==
  /\ c.read_chunk_size > 0
  /\ c.max_buffered_chunks > 0
  /\ c.replay \in {"chunks", "bytes"} => c.retained > 0

\* Mutant: a discarded stream is piped as well.
ChildStdio_Piped(c) == "piped"

\* ProcessStreamConfig::child_stdio.
ChildStdio(c) == IF c.backend = "discard" THEN "null" ELSE "piped"

\* ProcessStreamConfig::into_stream panics without a pipe or with an invalid
\* configuration; a discarded stream needs neither.
IntoStreamPanics(c, captured) ==
  c.backend # "discard" /\ (~captured \/ ~AssertValid(c))

\* The reader task that into_stream starts.
ReaderOf(c) ==
  CASE c.backend = "discard"                                                -> "none"
    [] c.backend = "broadcast" /\ c.delivery = "lossy" /\ c.replay = "none" -> "fast"
    [] c.backend = "broadcast" /\ ~(c.delivery = "lossy" /\ c.replay = "none") -> "fanout"
    [] c.backend = "single_subscriber" /\ c.delivery = "lossy"              -> "best_effort"
    [] c.backend = "single_subscriber" /\ c.delivery = "reliable"           -> "reliable"
===========================================================================
