-------------------------- MODULE BroadcastFanout --------------------------
(***************************************************************************)
(* The fanout/replay backend of BroadcastOutputStream: one reader task,    *)
(* the BroadcastState behind a mutex, and any number of subscriptions,     *)
(* each with its replay snapshot and its own live queue.                   *)
(*                                                                         *)
(* A step of the reader, of a subscription or of the stream's owner is one *)
(* critical section of the state mutex, one send, or one receive; between  *)
(* two steps any other thread may run.                                     *)
(*                                                                         *)
(* Data abstraction: a chunk is a byte range of the child's output, known  *)
(* by its sequence number; output[n + 1] is the offset at which chunk n    *)
(* ends.                                                                   *)
(***************************************************************************)
EXTENDS Integers, Sequences, FiniteSets

CONSTANTS
  Subs,            \* subscriptions, each used once
  NoSub,           \* no subscription
  Reliable,        \* ReliableWithBackpressure, else LossyWithoutBackpressure
  Capacity,        \* max_buffered_chunks
  Retention,       \* "none", "chunks", "bytes" or "all"
  RetainN,         \* the n of LastChunks(n) and LastBytes(n)
  ReadChunkSize,   \* read_chunk_size
  MaxRead,         \* most bytes one read can return (the buffer's capacity)
  MaxBytes         \* bound: bytes the child writes in total

\* Configurations that StreamConfig::assert_valid and the choice of backend
\* let through: a lossy stream without replay uses the fast backend.
ASSUME ConfigAssumption ==
  /\ NoSub \notin Subs
  /\ Reliable \in BOOLEAN
  /\ Capacity \in Nat \ {0}
  /\ Retention \in {"none", "chunks", "bytes", "all"}
  /\ Retention = "none" => Reliable
  /\ RetainN \in Nat \ {0}
  /\ ReadChunkSize \in Nat \ {0}
  /\ MaxRead \in Nat
  /\ MaxBytes \in Nat

VARIABLES
  \* BroadcastState, guarded by the mutex
  replay, next_seq, replay_chunk_count, replay_byte_count,
  subscribers, replay_sealed, terminal, closed,
  \* the reader task
  pc,              \* "read", "append", "send" or "stopped"
  buf,             \* bytes read and not yet split into chunks
  indexed,         \* the event being sent
  targets,         \* subscribers snapshot, those not yet sent to
  current,         \* the subscriber being sent to, or NoSub
  stale,           \* stale_subscribers
  \* the stream object
  stream,          \* "alive", "dropping" (reader aborted) or "dropped"
  \* the subscriptions
  sub,             \* "none", "open", "done" (detached) or "dropped"
  sub_replay,      \* replay snapshot not yet received
  live_start_seq,
  live_closed,     \* LiveReceiver::Closed
  queue,           \* live events buffered for the subscription
  queue_closed,    \* closed flag of its BestEffortLiveQueue
  \* history
  output,          \* end offsets of the chunks numbered so far
  pos,             \* pos[s]: sequence number after the last chunk s observed
  gapped,          \* gapped[s]: the last event s observed is a Gap
  outcome          \* "open", or how s ended: "eof", "error" or "none"

replayVars == <<replay, next_seq, replay_chunk_count, replay_byte_count, output>>
stateVars  == <<replayVars, subscribers, replay_sealed, terminal, closed>>
readerVars == <<pc, buf, indexed, targets, current, stale>>
histVars   == <<pos, gapped, outcome>>
subVars    == <<sub, sub_replay, live_start_seq, live_closed, queue, queue_closed>>
vars == <<stateVars, readerVars, stream, subVars, histVars>>

Terminals == {"eof", "error"}
Event == [seq : Nat, ev : {"chunk", "gap", "eof", "error"}]
NoEvent == [seq |-> 0, ev |-> "none"]
IsTerminal(e) == e.ev \in Terminals

\* The offset at which chunk n starts, when out are the end offsets.
Offset(out, n) == IF n = 0 THEN 0 ELSE out[n]

Init ==
  /\ replay = <<>> /\ next_seq = 0
  /\ replay_chunk_count = 0 /\ replay_byte_count = 0
  /\ subscribers = {} /\ replay_sealed = FALSE
  /\ terminal = NoEvent /\ closed = FALSE
  /\ pc = "read" /\ buf = 0 /\ indexed = NoEvent
  /\ targets = {} /\ current = NoSub /\ stale = {}
  /\ stream = "alive"
  /\ sub = [s \in Subs |-> "none"]
  /\ sub_replay = [s \in Subs |-> <<>>]
  /\ live_start_seq = [s \in Subs |-> 0]
  /\ live_closed = [s \in Subs |-> FALSE]
  /\ queue = [s \in Subs |-> <<>>]
  /\ queue_closed = [s \in Subs |-> FALSE]
  /\ output = <<>>
  /\ pos = [s \in Subs |-> 0]
  /\ gapped = [s \in Subs |-> FALSE]
  /\ outcome = [s \in Subs |-> "open"]

-----------------------------------------------------------------------------
(* The replay window *)

RetainsReplay == Retention # "none" /\ ~replay_sealed

\* The bytes of the first j of the consecutive chunks r.
PoppedBytes(out, r, j) ==
  IF j = 0 THEN 0 ELSE Offset(out, r[j].seq + 1) - Offset(out, r[1].seq)

\* Mutant: one chunk too many stays retained.
PopsFront_OffByOne(out, r, chunks, bytes, j) ==
  /\ j < Len(r)
  /\ \/ Retention = "chunks" /\ chunks - j > RetainN + 1
     \/ Retention = "bytes" /\ bytes - PoppedBytes(out, r, j + 1) > RetainN

\* After j pops, the loop of trim_replay_window pops once more; chunks and
\* bytes are the counters of the window r before the first pop.
PopsFront(out, r, chunks, bytes, j) ==
  /\ j < Len(r)
  /\ \/ Retention = "chunks" /\ chunks - j > RetainN
     \/ Retention = "bytes" /\ bytes - PoppedBytes(out, r, j + 1) >= RetainN

\* push_event for a chunk of len bytes: number it, retain it, and pop from the
\* front of the window what the retention policy no longer covers.
PushChunk(len) ==
  LET e == [seq |-> next_seq, ev |-> "chunk"]
      out == Append(output, Offset(output, next_seq) + len)
      r == Append(replay, e)
      chunks == replay_chunk_count + 1
      bytes == replay_byte_count + len
  IN
  /\ output' = out
  /\ next_seq' = next_seq + 1
  /\ indexed' = e
  /\ IF RetainsReplay
     THEN \E k \in 0..Len(r) :
            /\ \A j \in 0..(k - 1) : PopsFront(out, r, chunks, bytes, j)
            /\ ~PopsFront(out, r, chunks, bytes, k)
            /\ replay' = SubSeq(r, k + 1, Len(r))
            /\ replay_chunk_count' = chunks - k
            /\ replay_byte_count' = bytes - PoppedBytes(out, r, k)
     ELSE UNCHANGED <<replay, replay_chunk_count, replay_byte_count>>

\* push_event for EOF or a read error: number it and remember it.
PushTerminal(kind) ==
  LET e == [seq |-> next_seq, ev |-> kind] IN
  /\ next_seq' = next_seq + 1
  /\ indexed' = e
  /\ terminal' = e
  /\ UNCHANGED <<replay, replay_chunk_count, replay_byte_count, output>>

\* Mutant: the history is released but the flag is not set.
SealReplay_OnlyClears ==
  /\ stream = "alive" /\ Retention # "none"
  /\ replay' = <<>> /\ replay_chunk_count' = 0 /\ replay_byte_count' = 0
  /\ UNCHANGED <<replay_sealed, next_seq, output, subscribers, terminal, closed>>
  /\ UNCHANGED <<readerVars, stream, subVars, histVars>>

\* seal_replay: stop retaining and release what is retained.
SealReplay ==
  /\ stream = "alive"
  /\ Retention # "none"
  /\ replay_sealed' = TRUE
  /\ replay' = <<>> /\ replay_chunk_count' = 0 /\ replay_byte_count' = 0
  /\ UNCHANGED <<next_seq, output, subscribers, terminal, closed>>
  /\ UNCHANGED <<readerVars, stream, subVars, histVars>>

-----------------------------------------------------------------------------
(* The reader task: read_chunked_shared and append_event *)

\* Where the reader goes on with b bytes left in its buffer.
AfterAppend(b) == IF b > 0 THEN "append" ELSE "read"

\* read_buf returns n bytes.
ReadBytes(n) ==
  /\ pc = "read"
  /\ Offset(output, Len(output)) + n <= MaxBytes
  /\ buf' = n
  /\ pc' = "append"
  /\ UNCHANGED <<indexed, targets, current, stale>>
  /\ UNCHANGED <<stateVars, stream, subVars, histVars>>

\* Split the next chunk off the buffer and append it: number and retain it and
\* take the snapshot of the subscribers, in one critical section.
AppendChunk ==
  /\ pc = "append"
  /\ ~closed
  /\ LET split_to == IF buf < ReadChunkSize THEN buf ELSE ReadChunkSize IN
       /\ buf' = buf - split_to
       /\ PushChunk(split_to)
  /\ targets' = subscribers
  /\ pc' = "send"
  /\ UNCHANGED <<subscribers, replay_sealed, terminal, closed, current, stale>>
  /\ UNCHANGED <<stream, subVars, histVars>>

\* read_buf returns 0 bytes or fails: append the terminal event.  The registry
\* is emptied in the critical section that takes the snapshot.
AppendTerminal(kind) ==
  /\ pc = "read"
  /\ ~closed
  /\ PushTerminal(kind)
  /\ targets' = subscribers
  /\ subscribers' = {}
  /\ pc' = "send"
  /\ UNCHANGED <<replay_sealed, closed, buf, current, stale>>
  /\ UNCHANGED <<stream, subVars, histVars>>

\* append_event finds the state closed and returns; what was read is lost.
AppendChunkClosed ==
  /\ pc = "append"
  /\ closed
  /\ buf' = IF buf < ReadChunkSize THEN 0 ELSE buf - ReadChunkSize
  /\ pc' = AfterAppend(buf')
  /\ UNCHANGED <<indexed, targets, current, stale>>
  /\ UNCHANGED <<stateVars, stream, subVars, histVars>>

AppendTerminalClosed ==
  /\ pc = "read"
  /\ closed
  /\ pc' = "stopped"
  /\ UNCHANGED <<buf, indexed, targets, current, stale>>
  /\ UNCHANGED <<stateVars, stream, subVars, histVars>>

\* Go on to the next subscriber of the snapshot, in the map's order.
NextTarget(s) ==
  /\ pc = "send"
  /\ current = NoSub
  /\ s \in targets
  /\ current' = s
  /\ targets' = targets \ {s}
  /\ UNCHANGED <<pc, buf, indexed, stale>>
  /\ UNCHANGED <<stateVars, stream, subVars, histVars>>

\* mpsc::Sender::send completes: there is room in the channel.
SendReliable(s) ==
  /\ Reliable
  /\ current = s
  /\ sub[s] # "dropped"
  /\ Len(queue[s]) < Capacity
  /\ queue' = [queue EXCEPT ![s] = Append(@, indexed)]
  /\ current' = NoSub
  /\ UNCHANGED <<pc, buf, indexed, targets, stale, queue_closed>>
  /\ UNCHANGED <<sub, sub_replay, live_start_seq, live_closed>>
  /\ UNCHANGED <<stateVars, stream, histVars>>

\* The send fails: the receiver is gone, or the best-effort queue is closed.
SendStale(s) ==
  /\ current = s
  /\ IF Reliable THEN sub[s] = "dropped" ELSE queue_closed[s]
  /\ stale' = stale \cup {s}
  /\ current' = NoSub
  /\ UNCHANGED <<pc, buf, indexed, targets>>
  /\ UNCHANGED <<stateVars, stream, subVars, histVars>>

\* Mutants: the new chunk is dropped unannounced; a full queue takes one more.
BestEffortPush_DropsNewest(q, e) ==
  IF IsTerminal(e) \/ Len(q) < Capacity THEN Append(q, e) ELSE q
BestEffortPush_OneMore(q, e) ==
  IF IsTerminal(e) \/ Len(q) <= Capacity
  THEN Append(q, e) ELSE <<[seq |-> e.seq, ev |-> "gap"], e>>

\* What BestEffortLiveQueue::push makes of the queue q: a full queue is
\* replaced by a Gap marker and, if there is room for it, the new chunk.
BestEffortPush(q, e) ==
  IF IsTerminal(e) \/ Len(q) < Capacity
  THEN Append(q, e)
  ELSE LET gap == [seq |-> e.seq, ev |-> "gap"]
       IN  IF Capacity > 1 THEN <<gap, e>> ELSE <<gap>>

\* BestEffortLiveQueue::push on an open queue never waits.  What it leaves in
\* the queue of a dropped subscription can no longer be seen.
SendBestEffort(s) ==
  /\ ~Reliable
  /\ current = s
  /\ ~queue_closed[s]
  /\ queue' = [queue EXCEPT ![s] =
                 IF sub[s] = "dropped" THEN @ ELSE BestEffortPush(@, indexed)]
  /\ queue_closed' = [queue_closed EXCEPT ![s] = IsTerminal(indexed)]
  /\ current' = NoSub
  /\ UNCHANGED <<pc, buf, indexed, targets, stale>>
  /\ UNCHANGED <<sub, sub_replay, live_start_seq, live_closed>>
  /\ UNCHANGED <<stateVars, stream, histVars>>

\* Every subscriber of the snapshot was sent to: drop the stale ones from the
\* registry, and read on unless the event was terminal.
FinishAppend ==
  /\ pc = "send"
  /\ current = NoSub
  /\ targets = {}
  /\ subscribers' = IF IsTerminal(indexed) THEN subscribers
                                           ELSE subscribers \ stale
  /\ pc' = IF IsTerminal(indexed) THEN "stopped" ELSE AfterAppend(buf)
  /\ indexed' = NoEvent /\ stale' = {}
  /\ UNCHANGED <<buf, targets, current>>
  /\ UNCHANGED <<replayVars, replay_sealed, terminal, closed>>
  /\ UNCHANGED <<stream, subVars, histVars>>

\* Mutant: a reader that waits for room in a queue cannot be cancelled.
ReaderCancelled_OnlyAtRead ==
  /\ stream # "alive" /\ pc = "read"
  /\ pc' = "stopped" /\ targets' = {} /\ current' = NoSub /\ buf' = 0
  /\ indexed' = NoEvent /\ stale' = {}
  /\ UNCHANGED <<stateVars, stream, subVars, histVars>>

\* An aborted task is dropped at a suspension point: the read, or the send of a
\* reliable stream.  Its remaining senders are dropped with it.
ReaderCancelled ==
  /\ stream # "alive"
  /\ \/ pc = "read"
     \/ Reliable /\ pc = "send" /\ current # NoSub
  /\ pc' = "stopped"
  /\ targets' = {}
  /\ current' = NoSub
  /\ buf' = 0
  /\ indexed' = NoEvent /\ stale' = {}
  /\ UNCHANGED <<stateVars, stream, subVars, histVars>>

-----------------------------------------------------------------------------
(* Subscriptions *)

\* Mutant: the terminal event is not part of the snapshot.
ReplaySnapshot_NoTerminal == IF RetainsReplay THEN replay ELSE <<>>

\* replay_snapshot: the retained chunks, then the terminal event if there is one.
ReplaySnapshot ==
  LET retained == IF RetainsReplay THEN replay ELSE <<>>
  IN  IF terminal = NoEvent THEN retained ELSE Append(retained, terminal)

\* Mutant: the live part starts one event after the end of the snapshot.
TrySubscribe_StartsLate(s) ==
  /\ stream = "alive" /\ sub[s] = "none"
  /\ LET ended == closed \/ terminal # NoEvent IN
       /\ subscribers' = IF ended THEN subscribers ELSE subscribers \cup {s}
       /\ live_closed' = [live_closed EXCEPT ![s] = ended]
  /\ sub' = [sub EXCEPT ![s] = "open"]
  /\ sub_replay' = [sub_replay EXCEPT ![s] = ReplaySnapshot]
  /\ live_start_seq' = [live_start_seq EXCEPT ![s] = next_seq + 1]
  /\ pos' = [pos EXCEPT ![s] =
               IF ReplaySnapshot # <<>> /\ Head(ReplaySnapshot).ev = "chunk"
               THEN Head(ReplaySnapshot).seq ELSE Len(output)]
  /\ UNCHANGED <<queue, queue_closed, gapped, outcome>>
  /\ UNCHANGED <<replayVars, replay_sealed, terminal, closed>>
  /\ UNCHANGED <<readerVars, stream>>

\* try_subscribe: snapshot and registration in one critical section.  Once the
\* stream has ended there is nothing live left to register for.
TrySubscribe(s) ==
  /\ stream = "alive"
  /\ sub[s] = "none"
  /\ LET ended == closed \/ terminal # NoEvent IN
       /\ subscribers' = IF ended THEN subscribers ELSE subscribers \cup {s}
       /\ live_closed' = [live_closed EXCEPT ![s] = ended]
  /\ sub' = [sub EXCEPT ![s] = "open"]
  /\ sub_replay' = [sub_replay EXCEPT ![s] = ReplaySnapshot]
  /\ live_start_seq' = [live_start_seq EXCEPT ![s] = next_seq]
  /\ pos' = [pos EXCEPT ![s] =
               IF ReplaySnapshot # <<>> /\ Head(ReplaySnapshot).ev = "chunk"
               THEN Head(ReplaySnapshot).seq ELSE Len(output)]
  /\ UNCHANGED <<queue, queue_closed, gapped, outcome>>
  /\ UNCHANGED <<replayVars, replay_sealed, terminal, closed>>
  /\ UNCHANGED <<readerVars, stream>>

\* recv returns the event e to its caller; a terminal event detaches.
Returns(s, e) ==
  /\ pos' = [pos EXCEPT ![s] = IF e.ev = "chunk" THEN e.seq + 1 ELSE @]
  /\ gapped' = [gapped EXCEPT ![s] = IF IsTerminal(e) THEN @ ELSE e.ev = "gap"]
  /\ outcome' = [outcome EXCEPT ![s] = IF IsTerminal(e) THEN e.ev ELSE @]
  /\ sub' = [sub EXCEPT ![s] = IF IsTerminal(e) THEN "done" ELSE @]
  /\ subscribers' = IF IsTerminal(e) THEN subscribers \ {s} ELSE subscribers

\* recv: the snapshot comes first.
RecvReplay(s) ==
  /\ sub[s] \in {"open", "done"}
  /\ sub_replay[s] # <<>>
  /\ sub_replay' = [sub_replay EXCEPT ![s] = Tail(@)]
  /\ Returns(s, Head(sub_replay[s]))
  /\ UNCHANGED <<live_start_seq, live_closed, queue, queue_closed>>
  /\ UNCHANGED <<replayVars, replay_sealed, terminal, closed>>
  /\ UNCHANGED <<readerVars, stream>>

\* recv: then the live queue, passing over events the snapshot covered.
RecvLive(s) ==
  /\ sub[s] \in {"open", "done"}
  /\ sub_replay[s] = <<>>
  /\ ~live_closed[s]
  /\ queue[s] # <<>>
  /\ queue' = [queue EXCEPT ![s] = Tail(@)]
  /\ IF Head(queue[s]).seq < live_start_seq[s]
     THEN UNCHANGED <<histVars, sub, subscribers>>
     ELSE Returns(s, Head(queue[s]))
  /\ UNCHANGED <<sub_replay, live_start_seq, live_closed, queue_closed>>
  /\ UNCHANGED <<replayVars, replay_sealed, terminal, closed>>
  /\ UNCHANGED <<readerVars, stream>>

\* Mutant: the clone the reader sends with does not keep the channel open.
SendersGone_RegistryOnly(s) == s \notin subscribers

\* No sender of the channel of s is left, in the registry or in the reader.
SendersGone(s) == s \notin subscribers /\ s \notin targets /\ current # s

\* recv returns None: the receiver is closed and drained.
RecvNone(s) ==
  /\ sub[s] \in {"open", "done"}
  /\ sub_replay[s] = <<>>
  /\ \/ live_closed[s]
     \/ queue[s] = <<>> /\ IF Reliable THEN SendersGone(s) ELSE queue_closed[s]
  /\ outcome' = [outcome EXCEPT ![s] = IF @ = "open" THEN "none" ELSE @]
  /\ UNCHANGED <<pos, gapped>>
  /\ UNCHANGED <<stateVars, readerVars, stream, subVars>>

Recv(s) == RecvReplay(s) \/ RecvLive(s) \/ RecvNone(s)

\* Drop of a SharedSubscription: deregister, then drop the receiver.
DropSubscription(s) ==
  /\ sub[s] \in {"open", "done"}
  /\ subscribers' = IF sub[s] = "open" THEN subscribers \ {s} ELSE subscribers
  /\ sub' = [sub EXCEPT ![s] = "dropped"]
  /\ sub_replay' = [sub_replay EXCEPT ![s] = <<>>]
  /\ queue' = [queue EXCEPT ![s] = <<>>]
  /\ live_start_seq' = [live_start_seq EXCEPT ![s] = 0]
  /\ live_closed' = [live_closed EXCEPT ![s] = FALSE]
  /\ UNCHANGED queue_closed
  /\ UNCHANGED <<replayVars, replay_sealed, terminal, closed>>
  /\ UNCHANGED <<readerVars, stream, histVars>>

-----------------------------------------------------------------------------
(* Drop of the BroadcastOutputStream *)

\* First the reader task is told to abort.
DropStream ==
  /\ stream = "alive"
  /\ stream' = "dropping"
  /\ UNCHANGED <<stateVars, readerVars, subVars, histVars>>

\* Mutant: the registry keeps its senders.
CloseForDrop_KeepsRegistry ==
  /\ stream = "dropping" /\ stream' = "dropped" /\ closed' = TRUE
  /\ UNCHANGED <<subVars, subscribers>>
  /\ UNCHANGED <<replayVars, replay_sealed, terminal, readerVars, histVars>>

\* Then close_for_drop closes the state and every queue in the registry.
CloseForDrop ==
  /\ stream = "dropping"
  /\ stream' = "dropped"
  /\ closed' = TRUE
  /\ queue_closed' = [s \in Subs |->
                        queue_closed[s] \/ (~Reliable /\ s \in subscribers)]
  /\ subscribers' = {}
  /\ UNCHANGED <<sub, sub_replay, live_start_seq, live_closed, queue>>
  /\ UNCHANGED <<replayVars, replay_sealed, terminal>>
  /\ UNCHANGED <<readerVars, histVars>>

\* Nothing is left to do.
Finished ==
  /\ stream = "dropped"
  /\ pc = "stopped"
  /\ \A s \in Subs : sub[s] \in {"none", "dropped"}
  /\ UNCHANGED vars

-----------------------------------------------------------------------------
Reader ==
  \/ AppendChunk
  \/ AppendChunkClosed
  \/ \E s \in Subs : \/ NextTarget(s)
                     \/ SendReliable(s)
                     \/ SendStale(s)
                     \/ SendBestEffort(s)
  \/ FinishAppend

ReadReturns ==
  \/ \E n \in 1..MaxRead : ReadBytes(n)
  \/ \E kind \in Terminals : AppendTerminal(kind)
  \/ AppendTerminalClosed

Next ==
  \/ Reader
  \/ ReadReturns
  \/ ReaderCancelled
  \/ \E s \in Subs : TrySubscribe(s) \/ Recv(s) \/ DropSubscription(s)
  \/ SealReplay
  \/ DropStream
  \/ CloseForDrop
  \/ Finished

Spec == Init /\ [][Next]_vars

\* The runtime polls the reader whenever it can make progress and drops an
\* aborted task at a suspension point, which the cooperative budget forces even
\* when every read is ready; the drop of the stream runs to its end.  Nothing
\* makes the child write or exit, or a consumer receive.
Fairness == WF_vars(Reader) /\ SF_vars(ReaderCancelled) /\ WF_vars(CloseForDrop)

FairSpec == Spec /\ Fairness

-----------------------------------------------------------------------------
(* Properties *)

\* Types; above all, the counters of trim_replay_window never underflow.
TypeOK ==
  /\ replay \in Seq(Event) /\ next_seq \in Nat
  /\ replay_chunk_count \in Nat /\ replay_byte_count \in Nat
  /\ subscribers \subseteq Subs /\ replay_sealed \in BOOLEAN
  /\ terminal \in Event \cup {NoEvent} /\ closed \in BOOLEAN
  /\ pc \in {"read", "append", "send", "stopped"} /\ buf \in Nat
  /\ indexed \in Event \cup {NoEvent}
  /\ targets \subseteq Subs /\ current \in Subs \cup {NoSub}
  /\ stale \subseteq Subs
  /\ stream \in {"alive", "dropping", "dropped"}
  /\ sub \in [Subs -> {"none", "open", "done", "dropped"}]
  /\ sub_replay \in [Subs -> Seq(Event)]
  /\ live_start_seq \in [Subs -> Nat]
  /\ live_closed \in [Subs -> BOOLEAN]
  /\ queue \in [Subs -> Seq(Event)]
  /\ queue_closed \in [Subs -> BOOLEAN]
  /\ output \in Seq(Nat)
  /\ pos \in [Subs -> Nat]
  /\ gapped \in [Subs -> BOOLEAN]
  /\ outcome \in [Subs -> {"open", "eof", "error", "none"}]

\* The event on its way to s in the reader's hands.
InFlight(s) ==
  IF pc = "send" /\ (s \in targets \/ current = s) THEN <<indexed>> ELSE <<>>

\* Everything s will still be given, as things stand.
Pending(s) == sub_replay[s] \o queue[s] \o InFlight(s)

\* The events s has observed and will be given, from the last observed one on.
Tape(s) ==
  <<[seq |-> pos[s] - 1, ev |-> IF gapped[s] THEN "gap" ELSE "chunk"]>> \o Pending(s)

\* The move from the replay snapshot to the live queue loses and repeats
\* nothing: the events an open subscription has ahead of it are consecutive,
\* except across a Gap marker, and while the reader runs those of a registered
\* subscription reach up to the last event appended (try_subscribe, append_event,
\* recv and the best-effort push).
HandoffContinuous ==
  \A s \in Subs : sub[s] = "open" =>
    LET t == Tape(s) IN
    /\ \A i \in 2..Len(t) : \/ t[i].ev = "gap" \/ t[i - 1].ev = "gap"
                            \/ t[i].seq = t[i - 1].seq + 1
    /\ s \in subscribers /\ pc # "stopped" =>
                            \/ t[Len(t)].ev = "gap"
                            \/ t[Len(t)].seq + 1 = next_seq

\* While the stream lives, an open subscription is registered for what comes
\* or has the terminal event ahead of it: emptying the registry when the stream
\* ends, and not registering afterwards, leave nobody waiting for ever.
NobodyOrphaned ==
  \A s \in Subs : stream = "alive" /\ sub[s] = "open" =>
    \/ s \in subscribers
    \/ Pending(s) # <<>> /\ IsTerminal(Pending(s)[Len(Pending(s))])

\* Reference: chunk n is covered by the retention policy.
Covered(n) ==
  /\ RetainsReplay
  /\ \/ Retention = "all"
     \/ Retention = "chunks" /\ n >= Len(output) - RetainN
     \/ Retention = "bytes"
          /\ Offset(output, Len(output)) - Offset(output, n + 1) < RetainN

\* The replay window is what the policy says: all, the last n chunks, or the
\* shortest run of last chunks with n bytes; its counters, on which the trimming
\* loop decides, agree with its contents.
ReplayWindowExact ==
  /\ \A i \in 1..Len(replay) :
        replay[i] = [seq |-> Len(output) - Len(replay) + i - 1, ev |-> "chunk"]
  /\ \A n \in 0..(Len(output) - 1) : Covered(n) <=> n >= Len(output) - Len(replay)
  /\ replay_chunk_count = Len(replay)
  /\ replay_byte_count = Offset(output, Len(output))
                           - Offset(output, Len(output) - Len(replay))

\* A slow subscription holds at most Capacity events; only the terminal event of
\* a lossy stream may exceed the bound, by one.
QueueBounded ==
  \A s \in Subs :
    \/ Len(queue[s]) <= Capacity
    \/ /\ ~Reliable
       /\ Len(queue[s]) = Capacity + 1
       /\ IsTerminal(queue[s][Len(queue[s])])

\* A new subscription starts at the oldest chunk the policy covers, or at the
\* live end when none is: sealing and trimming never show in the middle of it.
SubscribeStartsAtWindow ==
  [][\A s \in Subs : sub[s] = "none" /\ sub'[s] = "open" =>
       /\ \A n \in 0..(Len(output) - 1) : Covered(n) <=> n >= pos'[s]
       /\ pos'[s] <= Len(output)]_vars

\* Phase of a subscription as the abstract stream sees it.
Phase(s) ==
  CASE sub[s] = "none" -> "idle"
    [] sub[s] = "dropped" -> "left"
    [] OTHER -> IF outcome[s] = "open" THEN "open" ELSE "ended"

ES == INSTANCE EventStream WITH
  lossy <- ~Reliable,
  produced <- Len(output),
  ended <- IF terminal = NoEvent THEN "no" ELSE terminal.ev,
  cut <- stream # "alive",
  phase <- [s \in Subs |-> Phase(s)]

\* The backend implements the abstract stream: in order, nothing skipped without
\* a Gap, one terminal event, and None before it only after the stream's drop.
ImplementsEventStream == ES!Spec

\* When the stream has ended or is dropped and the consumers keep receiving, every
\* subscription gets to its end.
EndReachesEveryone ==
  (\A s \in Subs : WF_vars(Recv(s))) =>
    \A s \in Subs :
      sub[s] = "open" /\ (terminal # NoEvent \/ stream # "alive")
        ~> outcome[s] # "open" \/ sub[s] = "dropped"

\* Dropping the stream stops the reader, even one held up by the full queue of
\* a consumer that never receives again.
DropStopsReader == stream # "alive" ~> pc = "stopped"
============================================================================
