-------------------------- MODULE SingleSubscriber --------------------------
(***************************************************************************)
(* The single-subscriber backend: one reader task, the replay state behind *)
(* a mutex, the active subscriber published through a watch channel, and   *)
(* subscriptions that attach one after another, each with its replay       *)
(* snapshot and its own bounded channel.                                   *)
(*                                                                         *)
(* A step is one critical section of the state mutex, one read of the      *)
(* watch channel, one send or one receive.  The watch channel is written   *)
(* only under the mutex, together with active_id, so active_id stands for  *)
(* both.  Subscriber ids are never reused: a subscription is its own id.   *)
(***************************************************************************)
EXTENDS Integers, Sequences

CONSTANTS
  Policies,        \* the policies a stream is configured with, each with its bounds
  Capacity,        \* max_buffered_chunks
  RetainN,         \* the n of LastChunks(n) and LastBytes(n)
  ReadChunkSize,   \* read_chunk_size
  MaxRead          \* most bytes one read can return

\* What StreamConfig::assert_valid lets through.
ASSUME ConfigAssumption ==
  /\ Policies \subseteq [reliable : BOOLEAN, retention : {"none", "chunks", "bytes", "all"},
                         max_subs : Nat, max_bytes : Nat]
  /\ Capacity \in Nat \ {0}
  /\ RetainN \in Nat \ {0}
  /\ ReadChunkSize \in Nat \ {0}
  /\ MaxRead \in Nat

VARIABLES
  policy,          \* of the StreamConfig, never changed
  \* ReplayState, guarded by the mutex, and the watch channel
  events, chunk_count, byte_count, replay_sealed, terminal_event, active_id,
  changed,         \* the reader has not seen the watch channel's value
  \* the reader task
  pc,              \* "read", "chunk", "gap", "send", "refresh", "yield", "stopped"
  buf,             \* bytes read and not yet split into chunks
  event,           \* the event being sent
  recorded, retried,
  cached_active,
  lag_id,          \* BestEffortLag::subscriber_id
  gap_pending,
  \* the stream object
  stream,          \* "alive", "dropping" (reader aborted) or "dropped"
  \* the subscriptions
  sub,             \* "none", "open", "dropping" or "dropped"
  sub_replay, sub_terminal,
  receiver,        \* live_receiver is Some
  queue,           \* events buffered in the channel
  \* history
  produced,        \* chunks cut from the child's output so far
  written,         \* their bytes
  pos, gapped,     \* as in EventStream
  outcome          \* "open", or how s ended: "eof", "error" or "none"

stateVars  == <<events, chunk_count, byte_count, replay_sealed, terminal_event>>
watchVars  == <<active_id, changed>>
taskVars   == <<pc, buf, event, recorded, retried>>
activeVars == <<cached_active, lag_id, gap_pending>>
subVars    == <<sub, sub_replay, sub_terminal, receiver, queue>>
logVars    == <<produced, written>>
histVars   == <<pos, gapped, outcome>>
\* All that may change.
vars == <<stateVars, watchVars, taskVars, activeVars, stream, subVars, logVars, histVars>>

\* ReliableWithBackpressure, else LossyWithoutBackpressure.
Reliable == policy.reliable
Retention == policy.retention

\* bound: subscriptions made, one after another
MaxSubs == policy.max_subs

\* bound: bytes the child writes in total
MaxBytes == policy.max_bytes

\* SubscriberId, and None.
Subs == UNION {1..p.max_subs : p \in Policies}
NoSub == 0

Terminals == {"eof", "error"}
Chunk(n, len) == [ev |-> "chunk", seq |-> n, len |-> len]
Mark(kind) == [ev |-> kind, seq |-> 0, len |-> 0]
NoEvent == Mark("none")
IsTerminal(e) == e.ev \in Terminals

Init ==
  /\ policy \in Policies
  /\ events = <<>> /\ chunk_count = 0 /\ byte_count = 0
  /\ replay_sealed = FALSE /\ terminal_event = NoEvent
  /\ active_id = NoSub /\ changed = FALSE
  /\ pc = "read" /\ buf = 0 /\ event = NoEvent
  /\ recorded = FALSE /\ retried = FALSE
  /\ cached_active = NoSub /\ lag_id = NoSub /\ gap_pending = FALSE
  /\ stream = "alive"
  /\ sub = [s \in Subs |-> "none"]
  /\ sub_replay = [s \in Subs |-> <<>>]
  /\ sub_terminal = [s \in Subs |-> NoEvent]
  /\ receiver = [s \in Subs |-> FALSE]
  /\ queue = [s \in Subs |-> <<>>]
  /\ produced = 0 /\ written = 0
  /\ pos = [s \in Subs |-> 0]
  /\ gapped = [s \in Subs |-> FALSE]
  /\ outcome = [s \in Subs |-> "open"]

-----------------------------------------------------------------------------
(* The replay state *)

RetainsReplay == Retention # "none" /\ ~replay_sealed

\* The bytes of the chunks of r.
Bytes(r) ==
  LET sum[n \in 0..Len(r)] == IF n = 0 THEN 0 ELSE sum[n - 1] + r[n].len
  IN  sum[Len(r)]

\* byte_count once push_retained_event has added e.
PushedBytes(e) == byte_count + e.len

\* Mutant: a chunk is popped only when more than the window's bytes remain.
PopsFront_OffByOne(r, chunks, bytes, j) ==
  /\ j < Len(r)
  /\ \/ Retention = "chunks" /\ chunks - j > RetainN
     \/ Retention = "bytes" /\ bytes - Bytes(SubSeq(r, 1, j + 1)) > RetainN

\* After j pops, trim_replay_window pops once more; chunks and bytes are the
\* counters of the window r before the first pop.
PopsFront(r, chunks, bytes, j) ==
  /\ j < Len(r)
  /\ \/ Retention = "chunks" /\ chunks - j > RetainN
     \/ Retention = "bytes" /\ bytes - Bytes(SubSeq(r, 1, j + 1)) >= RetainN

\* push_replay_event: remember a terminal event, retain a chunk and trim the
\* window; recorded tells whether later subscribers receive it.
PushReplayEvent(e) ==
  IF IsTerminal(e)
  THEN /\ terminal_event' = e
       /\ recorded' = TRUE
       /\ UNCHANGED <<events, chunk_count, byte_count>>
  ELSE /\ UNCHANGED terminal_event
       /\ IF RetainsReplay
          THEN LET r == Append(events, e)
                   chunks == chunk_count + 1
                   bytes == PushedBytes(e) IN
               \E k \in 0..Len(r) :
                 /\ \A j \in 0..(k - 1) : PopsFront(r, chunks, bytes, j)
                 /\ ~PopsFront(r, chunks, bytes, k)
                 /\ events' = SubSeq(r, k + 1, Len(r))
                 /\ chunk_count' = chunks - k
                 /\ byte_count' = bytes - Bytes(SubSeq(r, 1, k))
                 /\ recorded' = (events' # <<>>)
          ELSE /\ recorded' = FALSE
               /\ UNCHANGED <<events, chunk_count, byte_count>>

\* seal_replay: stop retaining and release what is retained.
SealReplay ==
  /\ stream = "alive"
  /\ Retention # "none"
  /\ replay_sealed' = TRUE
  /\ events' = <<>> /\ chunk_count' = 0 /\ byte_count' = 0
  /\ UNCHANGED <<terminal_event, watchVars, taskVars, activeVars, stream>>
  /\ UNCHANGED <<subVars, logVars, histVars>>

\* Mutant: whoever is active is cleared.
ClearActiveIfCurrent_AnyId(s) == active_id' = NoSub /\ changed' = TRUE

\* clear_active_if_current: only the subscriber it names is cleared.
ClearActiveIfCurrent(s) ==
  IF active_id = s THEN active_id' = NoSub /\ changed' = TRUE ELSE UNCHANGED watchVars

\* BestEffortLag::observe_active: a gap belongs to the subscriber that lagged.
\* The reliable reader keeps no BestEffortLag.
ObserveActive(a) ==
  /\ lag_id' = IF Reliable THEN lag_id ELSE a
  /\ gap_pending' = (gap_pending /\ lag_id = a)

-----------------------------------------------------------------------------
(* The reader task: read_chunked_best_effort and read_chunked_reliable *)

\* Where the reader goes on with b bytes left in its buffer.
AfterChunk(b) == IF b > 0 THEN "chunk" ELSE "read"

\* read_buf returns n bytes; without a cached subscriber it was raced against
\* the watch channel, which is then read.
ReadBytes(n) ==
  /\ pc = "read"
  /\ written + n <= MaxBytes
  /\ buf' = n /\ pc' = "chunk"
  /\ IF cached_active = NoSub
     THEN /\ cached_active' = active_id /\ changed' = FALSE
          /\ ObserveActive(active_id)
     ELSE UNCHANGED <<activeVars, changed>>
  /\ UNCHANGED <<event, recorded, retried, stateVars, active_id, stream>>
  /\ UNCHANGED <<subVars, logVars, histVars>>

\* A subscriber attached while the reader was waiting for output.
ActiveChanged ==
  /\ pc = "read" /\ cached_active = NoSub /\ changed
  /\ cached_active' = active_id /\ changed' = FALSE
  /\ ObserveActive(active_id)
  /\ UNCHANGED <<taskVars, stateVars, active_id, stream, subVars, logVars, histVars>>

\* record_event: record the event and read the active subscriber, in one
\* critical section.
RecordEvent(e) ==
  /\ PushReplayEvent(e)
  /\ cached_active' = active_id /\ changed' = FALSE
  /\ event' = e /\ retried' = FALSE
  /\ UNCHANGED <<replay_sealed, active_id>>

\* The gap is due before the next chunk: the loop top of the lossy reader.
GapDue == gap_pending /\ lag_id = cached_active

\* Split the next chunk off the buffer and record it.
SplitChunk ==
  /\ pc = "chunk" /\ ~GapDue
  /\ LET split_to == IF buf < ReadChunkSize THEN buf ELSE ReadChunkSize IN
       /\ buf' = buf - split_to
       /\ RecordEvent(Chunk(produced, split_to))
       /\ written' = written + split_to
  /\ produced' = produced + 1
  /\ pc' = "send"
  /\ ObserveActive(cached_active)
  /\ UNCHANGED <<stream, subVars, histVars>>

\* The gap marker goes out before the next chunk is split off.
SendGap ==
  /\ pc = "chunk" /\ GapDue
  /\ receiver[cached_active] /\ Len(queue[cached_active]) < Capacity
  /\ queue' = [queue EXCEPT ![cached_active] = Append(@, Mark("gap"))]
  /\ gap_pending' = FALSE
  /\ UNCHANGED <<taskVars, cached_active, lag_id, stateVars, watchVars, stream>>
  /\ UNCHANGED <<sub, sub_replay, sub_terminal, receiver, logVars, histVars>>

\* The subscriber is still full: everything read so far is dropped, unrecorded.
SendGapFull ==
  /\ pc = "chunk" /\ GapDue
  /\ receiver[cached_active] /\ Len(queue[cached_active]) >= Capacity
  /\ produced' = produced + (buf + ReadChunkSize - 1) \div ReadChunkSize
  /\ written' = written + buf
  /\ buf' = 0 /\ pc' = "yield"
  /\ UNCHANGED <<event, recorded, retried, activeVars, stateVars, watchVars, stream>>
  /\ UNCHANGED <<subVars, histVars>>

\* read_buf returns 0 bytes or fails: record the terminal event; a gap still
\* pending for the active subscriber goes first.
RecordTerminal(kind) ==
  /\ pc = "read"
  /\ RecordEvent(Mark(kind))
  /\ ObserveActive(active_id)
  /\ pc' = IF gap_pending' THEN "gap" ELSE "send"
  /\ UNCHANGED <<buf, stream, subVars, logVars, histVars>>

\* send_pending_gap_before_terminal waits for room.
SendPendingGap ==
  /\ pc = "gap"
  /\ receiver[cached_active] /\ Len(queue[cached_active]) < Capacity
  /\ queue' = [queue EXCEPT ![cached_active] = Append(@, Mark("gap"))]
  /\ gap_pending' = FALSE
  /\ pc' = "send"
  /\ UNCHANGED <<buf, event, recorded, retried, cached_active, lag_id>>
  /\ UNCHANGED <<stateVars, watchVars, stream, logVars, histVars>>
  /\ UNCHANGED <<sub, sub_replay, sub_terminal, receiver>>

\* The event is sent, or there is nobody to send it to: go on reading, or stop.
SendDone ==
  /\ pc' = IF IsTerminal(event) THEN "stopped" ELSE AfterChunk(buf)
  /\ event' = NoEvent /\ recorded' = FALSE /\ retried' = FALSE
  /\ cached_active' = IF IsTerminal(event) THEN NoSub ELSE cached_active
  /\ UNCHANGED buf

Inactive ==
  /\ pc = "send" /\ cached_active = NoSub
  /\ SendDone
  /\ ObserveActive(NoSub)
  /\ UNCHANGED <<stateVars, watchVars, stream, subVars, logVars, histVars>>

SendOk ==
  /\ pc = "send" /\ cached_active # NoSub
  /\ receiver[cached_active] /\ Len(queue[cached_active]) < Capacity
  /\ queue' = [queue EXCEPT ![cached_active] = Append(@, event)]
  /\ SendDone
  /\ UNCHANGED <<lag_id, gap_pending, stateVars, watchVars, stream, logVars, histVars>>
  /\ UNCHANGED <<sub, sub_replay, sub_terminal, receiver>>

\* try_send finds the channel full: the chunk is lost to the subscriber.
SendFull ==
  /\ pc = "send" /\ ~Reliable /\ ~IsTerminal(event) /\ cached_active # NoSub
  /\ receiver[cached_active] /\ Len(queue[cached_active]) >= Capacity
  /\ gap_pending' = TRUE
  /\ pc' = "yield"
  /\ event' = NoEvent /\ recorded' = FALSE /\ retried' = FALSE
  /\ UNCHANGED <<buf, cached_active, lag_id, stateVars, watchVars, stream>>
  /\ UNCHANGED <<subVars, logVars, histVars>>

Yielded ==
  /\ pc = "yield"
  /\ pc' = AfterChunk(buf)
  /\ UNCHANGED <<buf, event, recorded, retried, activeVars, stateVars, watchVars>>
  /\ UNCHANGED <<stream, subVars, logVars, histVars>>

\* A send finds the receiver dropped: deregister that subscriber ...
SendClosed ==
  /\ \/ pc \in {"send", "gap"} /\ cached_active # NoSub
     \/ pc = "chunk" /\ GapDue
  /\ ~receiver[cached_active]
  /\ ClearActiveIfCurrent(cached_active)
  /\ pc' = "refresh"
  /\ UNCHANGED <<buf, event, recorded, retried, activeVars, stateVars, stream>>
  /\ UNCHANGED <<subVars, logVars, histVars>>

\* Mutant: a recorded event is also sent to the next subscriber.
RetriesEvent_EvenRecorded == ~retried

\* The event goes to the subscriber that took over, unless that one finds it in
\* its replay; one more subscriber is tried, not two.
RetriesEvent == ~recorded /\ ~retried

\* ... then read the watch channel, whoever is registered by now.  With no event
\* in hand the send was that of a gap, after which the loop goes on; a terminal
\* event whose gap could not be sent is still to be delivered.
Refresh ==
  /\ pc = "refresh"
  /\ changed' = FALSE
  /\ \/ /\ event = NoEvent
        /\ pc' = "chunk" /\ ObserveActive(active_id)
        /\ UNCHANGED <<event, recorded, retried>>
     \/ /\ IsTerminal(event) /\ gap_pending
        /\ pc' = "send" /\ ObserveActive(active_id)
        /\ UNCHANGED <<event, recorded, retried>>
     \/ /\ event # NoEvent /\ ~(IsTerminal(event) /\ gap_pending) /\ RetriesEvent
        /\ pc' = "send" /\ retried' = TRUE
        /\ UNCHANGED <<event, recorded, lag_id, gap_pending>>
     \/ /\ event # NoEvent /\ ~(IsTerminal(event) /\ gap_pending) /\ ~RetriesEvent
        /\ pc' = IF IsTerminal(event) THEN "stopped" ELSE AfterChunk(buf)
        /\ event' = NoEvent /\ recorded' = FALSE /\ retried' = FALSE
        /\ ObserveActive(active_id)
  /\ cached_active' = IF pc' = "stopped" THEN NoSub ELSE active_id
  /\ UNCHANGED <<buf, stateVars, active_id, stream, subVars, logVars, histVars>>

\* Mutant: an aborted reader is only dropped where it reads.
ReaderCancelled_OnlyAtRead ==
  /\ stream # "alive"
  /\ pc = "read"
  /\ pc' = "stopped" /\ cached_active' = NoSub
  /\ buf' = 0 /\ event' = NoEvent /\ recorded' = FALSE /\ retried' = FALSE
  /\ UNCHANGED <<lag_id, gap_pending, stateVars, watchVars, stream>>
  /\ UNCHANGED <<subVars, logVars, histVars>>

\* An aborted task is dropped at a suspension point: the read, a send that
\* waits, or the yield after a full channel.
ReaderCancelled ==
  /\ stream # "alive"
  /\ \/ pc \in {"read", "yield", "gap"}
     \/ pc = "send" /\ cached_active # NoSub /\ (Reliable \/ IsTerminal(event))
  /\ pc' = "stopped" /\ cached_active' = NoSub
  /\ buf' = 0 /\ event' = NoEvent /\ recorded' = FALSE /\ retried' = FALSE
  /\ UNCHANGED <<lag_id, gap_pending, stateVars, watchVars, stream>>
  /\ UNCHANGED <<subVars, logVars, histVars>>

-----------------------------------------------------------------------------
(* Subscriptions *)

\* An unrecorded chunk is being sent, and goes to whoever takes over if its
\* receiver is gone.
ChunkUnderway ==
  pc \in {"send", "refresh"} /\ event.ev = "chunk" /\ ~recorded /\ cached_active # NoSub

\* next_subscriber_id is s.
NextSubscriberId(s) == s <= MaxSubs /\ sub[s] = "none" /\ \A t \in 1..(s - 1) : sub[t] # "none"

\* try_subscribe: rejected while someone is active; else the snapshot of the
\* window and of the terminal event, and the registration, in one critical section.
TrySubscribe(s) ==
  /\ stream = "alive" /\ NextSubscriberId(s)
  /\ active_id = NoSub
  /\ LET replay == IF RetainsReplay THEN events ELSE <<>> IN
       /\ sub_replay' = [sub_replay EXCEPT ![s] = replay]
       /\ pos' = [pos EXCEPT ![s] = IF replay # <<>> THEN Head(replay).seq
                                    ELSE IF ChunkUnderway THEN -1 ELSE produced]
  /\ sub_terminal' = [sub_terminal EXCEPT ![s] = terminal_event]
  /\ receiver' = [receiver EXCEPT ![s] = TRUE]
  /\ sub' = [sub EXCEPT ![s] = "open"]
  /\ active_id' = s /\ changed' = TRUE
  /\ UNCHANGED <<queue, gapped, outcome>>
  /\ UNCHANGED <<stateVars, taskVars, activeVars, stream, logVars>>

\* next_event returns the event e; Repeated is the position after a chunk that
\* the subscription has received before.
Repeated == -2
Returns(s, e) ==
  /\ pos' = [pos EXCEPT ![s] = IF e.ev # "chunk" THEN @
                               ELSE IF e.seq >= pos[s] THEN e.seq + 1 ELSE Repeated]
  /\ gapped' = [gapped EXCEPT ![s] = IF IsTerminal(e) THEN @ ELSE e.ev = "gap"]
  /\ outcome' = [outcome EXCEPT ![s] = IF IsTerminal(e) THEN e.ev ELSE @]

\* next_event: first the replay snapshot, then the terminal event it came with,
\* which closes the receiver, then the channel.
RecvReplay(s) ==
  /\ sub[s] = "open" /\ sub_replay[s] # <<>>
  /\ sub_replay' = [sub_replay EXCEPT ![s] = Tail(@)]
  /\ Returns(s, Head(sub_replay[s]))
  /\ UNCHANGED <<sub, sub_terminal, receiver, queue>>
  /\ UNCHANGED <<stateVars, watchVars, taskVars, activeVars, stream, logVars>>

\* Mutant: the receiver stays open after the terminal event of the snapshot.
RecvTerminal_KeepsReceiver(s) ==
  /\ sub[s] = "open" /\ sub_replay[s] = <<>> /\ sub_terminal[s] # NoEvent
  /\ sub_terminal' = [sub_terminal EXCEPT ![s] = NoEvent]
  /\ Returns(s, sub_terminal[s])
  /\ UNCHANGED <<sub, sub_replay, receiver, queue>>
  /\ UNCHANGED <<stateVars, watchVars, taskVars, activeVars, stream, logVars>>

RecvTerminal(s) ==
  /\ sub[s] = "open" /\ sub_replay[s] = <<>> /\ sub_terminal[s] # NoEvent
  /\ sub_terminal' = [sub_terminal EXCEPT ![s] = NoEvent]
  /\ receiver' = [receiver EXCEPT ![s] = FALSE]
  /\ queue' = [queue EXCEPT ![s] = <<>>]
  /\ Returns(s, sub_terminal[s])
  /\ UNCHANGED <<sub, sub_replay>>
  /\ UNCHANGED <<stateVars, watchVars, taskVars, activeVars, stream, logVars>>

RecvLive(s) ==
  /\ sub[s] = "open" /\ sub_replay[s] = <<>> /\ sub_terminal[s] = NoEvent
  /\ receiver[s] /\ queue[s] # <<>>
  /\ queue' = [queue EXCEPT ![s] = Tail(@)]
  /\ Returns(s, Head(queue[s]))
  /\ UNCHANGED <<sub, sub_replay, sub_terminal, receiver>>
  /\ UNCHANGED <<stateVars, watchVars, taskVars, activeVars, stream, logVars>>

\* next_event returns None: no receiver, or a drained one without senders, which
\* the watch channel and the reader hold.
RecvNone(s) ==
  /\ sub[s] = "open" /\ sub_replay[s] = <<>> /\ sub_terminal[s] = NoEvent
  /\ \/ ~receiver[s]
     \/ queue[s] = <<>> /\ active_id # s /\ cached_active # s
  /\ outcome' = [outcome EXCEPT ![s] = IF @ = "open" THEN "none" ELSE @]
  /\ UNCHANGED <<pos, gapped>>
  /\ UNCHANGED <<stateVars, watchVars, taskVars, activeVars, stream, subVars, logVars>>

Recv(s) == RecvReplay(s) \/ RecvTerminal(s) \/ RecvLive(s) \/ RecvNone(s)

\* Drop of a SingleSubscriberSubscription: first the receiver ...
DropReceiver(s) ==
  /\ sub[s] = "open"
  /\ sub' = [sub EXCEPT ![s] = "dropping"]
  /\ receiver' = [receiver EXCEPT ![s] = FALSE]
  /\ queue' = [queue EXCEPT ![s] = <<>>]
  /\ sub_replay' = [sub_replay EXCEPT ![s] = <<>>]
  /\ sub_terminal' = [sub_terminal EXCEPT ![s] = NoEvent]
  /\ UNCHANGED <<stateVars, watchVars, taskVars, activeVars, stream, logVars, histVars>>

\* ... then the registration, if it is still the current one.
DropDeregisters(s) ==
  /\ sub[s] = "dropping"
  /\ sub' = [sub EXCEPT ![s] = "dropped"]
  /\ ClearActiveIfCurrent(s)
  /\ UNCHANGED <<sub_replay, sub_terminal, receiver, queue>>
  /\ UNCHANGED <<stateVars, taskVars, activeVars, stream, logVars, histVars>>

-----------------------------------------------------------------------------
(* Drop of the SingleSubscriberOutputStream: abort the reader, clear the active *)

DropStream ==
  /\ stream = "alive"
  /\ stream' = "dropping"
  /\ UNCHANGED <<stateVars, watchVars, taskVars, activeVars, subVars, logVars, histVars>>

\* Mutant: the active subscriber stays published.
ClearActive_Forgotten ==
  /\ stream = "dropping" /\ stream' = "dropped"
  /\ UNCHANGED <<stateVars, watchVars, taskVars, activeVars, subVars, logVars, histVars>>

ClearActive ==
  /\ stream = "dropping"
  /\ stream' = "dropped"
  /\ active_id' = NoSub /\ changed' = TRUE
  /\ UNCHANGED <<stateVars, taskVars, activeVars, subVars, logVars, histVars>>

\* Nothing is left to do.
Finished ==
  /\ stream = "dropped" /\ pc = "stopped"
  /\ \A s \in Subs : sub[s] \in {"none", "dropped"}
  /\ UNCHANGED <<policy, vars>>

-----------------------------------------------------------------------------
Reader ==
  \/ ActiveChanged
  \/ SplitChunk \/ SendGap \/ SendGapFull
  \/ SendPendingGap \/ Inactive \/ SendOk \/ SendFull \/ Yielded
  \/ SendClosed \/ Refresh

ReadReturns ==
  \/ \E n \in 1..MaxRead : ReadBytes(n)
  \/ \E kind \in Terminals : RecordTerminal(kind)

Operation ==
  \/ Reader
  \/ ReadReturns
  \/ ReaderCancelled
  \/ \E s \in Subs : \/ TrySubscribe(s) \/ Recv(s)
                     \/ DropReceiver(s) \/ DropDeregisters(s)
  \/ SealReplay
  \/ DropStream
  \/ ClearActive

Next == (Operation /\ UNCHANGED policy) \/ Finished

Spec == Init /\ [][Next]_<<policy, vars>>

\* The runtime polls the reader whenever it can make progress and drops an
\* aborted task at a suspension point; a drop runs to its end.  Nothing makes the
\* child write or exit, or a consumer receive.
FairSpec ==
  /\ Spec
  /\ WF_vars(Reader)
  /\ SF_vars(ReaderCancelled)
  /\ WF_vars(ClearActive)
  /\ \A s \in Subs : WF_vars(DropDeregisters(s))

-----------------------------------------------------------------------------
(* Properties *)

\* s is consuming: not dropped, and not at its end.
Consuming(s) == sub[s] = "open" /\ outcome[s] = "open"

\* There is one consumer at a time, and while the stream lives it stays
\* registered: neither the late drop of its predecessor nor the reader's stale
\* sender deregisters it.
ExclusiveConsumer ==
  \A s \in Subs : Consuming(s) =>
    /\ \A t \in Subs \ {s} : ~Consuming(t)
    /\ stream = "alive" => active_id = s

\* Replay keeps every chunk of the child's output the policy covers, whatever
\* happened to the consumers (ReplayRetention).  (A lossy reader may discard
\* chunks before it records them: ReplayKeepsAllOutput.)
Covered(n, bytesAfter) ==
  /\ RetainsReplay
  /\ \/ Retention = "all"
     \/ Retention = "chunks" /\ n >= produced - RetainN
     \/ Retention = "bytes" /\ bytesAfter < RetainN

ReplayWindowExact == Reliable =>
  /\ \A i \in 1..Len(events) : events[i].seq = produced - Len(events) + i - 1
  /\ chunk_count = Len(events) /\ byte_count = Bytes(events)
  /\ \A i \in 1..Len(events) :
        Covered(events[i].seq, Bytes(SubSeq(events, i + 1, Len(events))))
  /\ Len(events) < produced => ~Covered(produced - Len(events) - 1, byte_count)

\* A subscription that has returned its terminal event has nothing more to
\* return, although a reader that was sending when it took over may still send
\* it the terminal event it already found in its snapshot.
NothingAfterTerminal ==
  \A s \in Subs : outcome[s] \in Terminals =>
    /\ sub_replay[s] = <<>> /\ sub_terminal[s] = NoEvent
    /\ queue[s] = <<>>

Phase(s) ==
  CASE sub[s] = "none" -> "idle"
    [] sub[s] \in {"dropping", "dropped"} -> "left"
    [] OTHER -> IF outcome[s] = "open" THEN "open" ELSE "ended"

ES == INSTANCE EventStream WITH
  lossy <- ~Reliable,
  ended <- IF terminal_event = NoEvent THEN "no" ELSE terminal_event.ev,
  cut <- stream # "alive",
  phase <- [s \in Subs |-> Phase(s)]

\* The backend implements the abstract stream: however subscribers replace one
\* another while a send is under way, each observes its chunks in order, skips
\* none without a Gap, sees one terminal event, and None before it only after
\* the stream's drop.
ImplementsEventStream == ES!Spec

\* When the stream has ended or is dropped, a subscription that keeps receiving
\* gets to its end, whatever its predecessors left behind.
EndReachesEveryone ==
  \A s \in Subs : WF_vars(Recv(s)) =>
    (Consuming(s) /\ (terminal_event # NoEvent \/ stream # "alive") ~> ~Consuming(s))

\* Dropping the stream stops the reader.
DropStopsReader == stream # "alive" ~> pc = "stopped"

\* What ReplayRetention::All documents: all output is kept for the stream's
\* lifetime (until sealed).
ReplayKeepsAllOutput ==
  Retention = "all" /\ ~replay_sealed /\ pc = "read" =>
    Len(events) = produced
=============================================================================
