# A TLA+ model of tokio-process-tools

The library spawns child processes on Tokio, reads their stdout and stderr in
background tasks, hands the output to subscribers, and owns the child until it
is waited for, terminated or explicitly given up. This directory models that
machinery, checks it with TLC on small instances, and proves its safety with
TLAPS.

## The system and its parts

| Part | Source (under `src/src/`) | Module |
|---|---|---|
| Contract of a subscription | `output_stream/mod.rs`, `event.rs` | `EventStream` (abstract) |
| Broadcast backend, fanout and replay | `output_stream/backend/broadcast/{state,subscription,fanout,mod}.rs` | `BroadcastFanout` |
| Live queue of a lossy broadcast subscriber | `.../broadcast/state.rs` | `BestEffortQueue` |
| Broadcast backend, fast path | `.../broadcast/{fast,subscription,mod}.rs` | `FastBroadcast` |
| Single-subscriber backend | `output_stream/backend/single_subscriber/` | `SingleSubscriber` |
| Consumers and their driver | `output_stream/consumer/` | `Consumer`, `ConsumerHandle` |
| Line parser and adapter | `output_stream/line/` | `LineParser` |
| Visitors: collect, write, inspect, wait | `output_stream/visitors/`, `wait_for_line` of the backends | `Visitors` |
| Stream configuration and policies | `output_stream/{config,policy,num_bytes}.rs`, `process/stream_config.rs` | `StreamConfig` |
| Process builder, spawn, process group, Job Object | `process/builder.rs`, `process_handle/spawn.rs`, `process_handle/group/` | `ProcessSpawn` |
| Graceful shutdown policies | `process_handle/termination/shutdown.rs` | `GracefulShutdown` |
| Process handle: wait, signals, termination, drop guard, `TerminateOnDrop` | `process_handle/`, `terminate_on_drop.rs`, `panic_on_drop.rs`, `async_drop.rs` | `ProcessHandle` |
| Output collection and drain | `process_handle/output_collection/`, `wait_builder.rs` | `OutputDrain` |

Per stream, one **reader task** reads the pipe, cuts what it read into chunks and
passes them to a backend. The **fanout** backend numbers every event under a
mutex, keeps a replay window and sends to one queue per subscriber, bounded with
backpressure or lossy with `Gap` markers. The **fast** path, for lossy delivery
without replay, sends on a Tokio broadcast channel. The **single-subscriber**
backend publishes its one subscriber in a watch channel, of which the reader
keeps a cached copy. A **consumer** is a task that drives a visitor over a
subscription, often through the **line parser**. The **process handle** owns the
child, and `wait_for_completion` with output starts two consumers, waits for the
process and **drains** them.

## The modules

**`EventStream`** is what a backend promises a subscription: the chunks in order
from where it attached, none skipped without a `Gap`, `Gap`s only under lossy
delivery, one terminal event, and an end without one only if the stream was
dropped. The three backends are shown to implement it (`ImplementsEventStream`
in each of them).

**`BroadcastFanout`**. The variables `replay` to `closed` are the fields of
`BroadcastState`; `pc` to `stale` are the locals of `read_chunked_shared` and
`append_event`; the rest are the subscriptions. A step is one critical section,
one send or one receive. `append_event` is `AppendChunk`/`AppendTerminal` (the
critical section), `NextTarget` with a `Send…` per subscriber, and
`FinishAppend`. The drop of the stream is `DropStream` (abort), `CloseForDrop`,
and `ReaderCancelled` at a suspension point. A chunk is its number; `output`
records where each chunk ends, which is all that byte retention needs.

**`BestEffortQueue`** opens up what `BroadcastFanout` takes for one atomic step:
`recv` enables a `Notified`, looks into the queue under the mutex, and awaits; a
push and a close change the queue under the mutex and notify after it. The future
of `recv` may be dropped anywhere.

**`FastBroadcast`**. `closed` and `read_error` are `FastClosureState`; the channel
is all that was ever sent, of which the ring still has the last `RingSize`. A
receiver behind them gets `Lagged`, which `recv` turns into a `Gap`. The closure
state and the send are separate steps of the reader, as in the code, with the
attachment of a subscriber in between.

**`SingleSubscriber`** has the lossy and the reliable reader, which share their
shape: read (racing the watch channel while nobody is cached), a `Gap` that is
due, record under the lock, send, and on a closed channel deregister, refresh and
perhaps retry. The drop of a subscription is two steps, receiver then
registration. The policy of the stream is a variable that never changes, so that
one run has several.

**`ProcessHandle`**. Calls take `&mut self`, so one runs at a time; the child, the
kernel and the clock interleave with it. A step is a system call or a completed
await. The kernel may refuse a signal and a wait may fail at any time. `Succeed`
and `Fail` are the two ways a termination ends. The drops of the handle and of
the wrapper are modelled in each context `async_drop.rs` tells apart. The platform
is a variable: Unix has a list of phases, Windows one. **`GracefulShutdown`** has
the constructors of those policies and `total_timeout`; `waited` is an upper bound
of the time a termination has spent in its graceful phases.

**`ProcessSpawn`** puts the builder before the handle: the streams are configured
in either order, or both at once, through the typed stages of **`StreamConfig`**
(a failed assertion is a panic); then the child is created, attached to its group
or Job Object, its pipes become streams with their readers, and `ProcessHandle`
takes over. Its behaviours run from `Process::new` to the drop of the handle.

**`Consumer`** has the task (`consume_sync`, `consume_async`) and the primitives
of `ConsumerWaitGuard`; **`ConsumerHandle`** adds the public operations, and
**`OutputDrain`** composes two consumers with the wait for the process. What a
visitor collects is abstracted to whether it saw the stream to its end.

**`LineParser`** is `next_line`, one loop turn per step, and the adapter around
it, compared with `Reference`, a definition of the lines of a text that knows
neither chunks nor modes. **`Visitors`** extends it with the driver and every
built-in visitor: callbacks, collectors of bytes and lines with both overflow
behaviours, writers with delimiters, partial writes and error policies, and
`wait_for_line` with its time-out. Each has a reference of its own, taken over the
text: what the limits ask for, what the writer should have got, whether a matching
line has arrived.

`MCBroadcastFanout`, `MCSingleSubscriber`, `MCProcessSpawn` and `MCVisitors` hold
the values of constants that a configuration file cannot write.

## What the runs check

| Run | Bounds | Shows |
|---|---|---|
| `fanout_reliable` | 2 subscribers, capacity 1, last chunk, chunks of 1 byte, reads of up to 2, 2 bytes | continuous handoff, nobody orphaned, a subscription starts where the policy says, implements `EventStream`; the end, or the drop, reaches everyone; the drop stops a blocked reader |
| `fanout_lossy` | 1 subscriber, capacity 2, last 2 bytes, chunks of up to 2, reads of up to 3, 6 bytes | exact window and bounded queue where a full queue turns into a `Gap` and chunks have uneven sizes; implements `EventStream` |
| `best_effort_queue` | capacity 2, 6 pushes | no wake-up is lost between the look into the queue and the await; a receive that has something to return returns |
| `fast_broadcast` | 2 subscribers, 3 buffered chunks (a ring of 4), 6 bytes | implements `EventStream` up to the repeated read error below; the end reaches everyone |
| `single` | reliable, last byte, 3 subscribers in turn, 2 bytes; and lossy, no replay, 2 subscribers, 3 bytes; capacity 1 | one consumer at a time, exact window, nothing after the end, implements `EventStream`; the end reaches everyone; the drop stops a blocked reader |
| `process_handle` | every configuration with sizes up to 1, both platforms, the phases SIGINT for 2 and SIGTERM for 1 and the named constructors, grace 1, 3 calls | every pipe has a reader, no silent leak, ordered escalation, bounded graceful time, disarming only when closed, real success, panic discipline; a termination ends |
| `consumer_handle` | 1 consumer | a returned call has released its stream; an uncancelled wait returns the whole sink; dropped tasks end; `cancel` returns |
| `output_drain` | 2 collectors | no collector outlives the call, returned output is whole, errors are real, the drain ends |
| `visitors` | line limit 2 or none, texts of 7 (6 for visitors other than `inspect_lines`), chunks of up to 4, 2 failing writes | the lines are those of the text however it is cut; collectors hold exactly what their limits ask for and flag a loss exactly when there was one; writers get the text up to the error that stops them; `wait_for_line` is right; the parsing loop ends |

Why the bounds are enough for the cases meant: with capacity 1 a second chunk
already blocks or overflows, with capacity 2 a queue has room behind its `Gap`;
two reliable subscribers make one wait behind the other, while best-effort
subscribers never wait for each other, so one is enough; a window of one chunk, or
two bytes of uneven chunks, is trimmed; six chunks overrun a ring of four and
leave it partly read. A third single-subscriber is needed for a stale registration
to meet a replacement of the replacement (their ids are given out in order, as the
code does). Three calls are needed to fail, re-arm or wrap, and act again; a size
of 0 is rejected and 1 is not, and nothing else depends on it. With a limit of 2
and chunks of 4 a line meets its limit inside, at the end of and across chunks.
Consumers are independent of each other, so one is enough. No symmetry is used.

### Disagreements between code and documentation

Three runs expect a violation.

- `single_replay_doc`: `ReplayRetention::All` is documented to keep all output. A
  lossy single-subscriber reader whose `Gap` finds the channel full discards what
  it has read without recording it.
- `output_drain_doc`: `take_ready_error_or_timeout` is documented to return an
  error that is ready. If that error is a join error, the abort that follows awaits
  the same `JoinHandle` again and panics. This needs a collector task that panicked
  and whose error is first polled at the deadline.
- `fast_repeat_doc`: `next_event` is documented to stay at `None` after a terminal
  event. The fast reader publishes a read error under the lock and sends it after
  the unlock; a subscriber that attaches in between gets it twice. The refinement
  of `EventStream` lets the second one pass as a stutter.

Met while modelling and not checked by a run of their own:

- `next_event` documents `None` only after a terminal event, and for every call
  after it. Dropping a broadcast stream ends its subscriptions with `None` alone
  (`EventStream` has `cut` for that), and on a single-subscriber stream a call
  after a live `Eof` pends while the stream lives, since the watch channel keeps
  the sender.
- `GracefulShutdown::total_timeout` is documented as an "upper bound on wall-clock
  time spent in graceful phases". A phase whose signal is refused waits for a fixed
  grace instead of its time-out, which is longer if the time-out is short;
  `GracefulTimeBounded` therefore allows one grace per refusal. The sum itself
  panics when it overflows a `Duration`.
- `from_spawned_child` is documented so that its caller "can never leak the
  just-spawned process". The kill after a failed attachment is best effort; a
  refusal is logged, which `NoSilentLeak` counts as reported.
- `max_buffered_chunks` is checked for 0 by the builder, not for the largest
  capacity a Tokio channel takes.
- `DropAdditionalData` may keep a later, shorter line after it has dropped a longer
  one; `CollectedExact` states it so.

## Fairness

The runtime polls what can make progress (`WF` on the reader, on a call under
way, on tasks, on a push that has yet to notify), fires timers, and drops an
aborted task at a suspension point (`SF`, since a busy task passes such points
again and again, and Tokio's cooperative budget makes it yield). `FairSpec`
assumes nothing of subscribers: that they keep receiving is a premise inside
`EndReachesEveryone`, and `DropStopsReader` holds without it. Nothing is assumed
of the child: it need not write, exit or die, and its pipes need not close. A
visitor's callback need not return, and a writer need not accept anything; of
`Visitors` only the parsing loop, which awaits nothing, is fair.

## What is proved

All for every value of the constants that the named assumptions admit. Those are
what `StreamConfig::assert_valid` lets through (`ConfigAssumption` of each
backend), that a Tokio broadcast ring is the capacity rounded up to a power of two
(`RingAssumption`), a queue with room (`QueueAssumption`), that there are consumers
(`ConsumersAssumption`), that time-outs and sizes are numbers
(`ShutdownAssumption`, `HandleAssumption`, `SizeAssumption`), and that the options of
a parser and of a visitor have their types (`OptionsAssumption`, `VisitorsAssumption`).
That a drain has two collectors, whose callbacks never break off, is `Collecting`, a
conjunct of `DrainInit`. TLC evaluates each of these, and every inductive invariant was model-checked before
it was proved.

**Fanout** (`BroadcastFanoutProofs`). `Handoff`: `Spec => []HandoffContinuous`, the
property the replay design turns on: from snapshot to queue to the event in the
reader's hands nothing is missing or repeated, except across a `Gap`. It is not inductive. `IInv` adds where the reader is (`ReaderInv`),
that chunks are numbered consecutively (`NumberInv`), that the window is a run of
last chunks and its counters agree with it (`WindowInv`, needed so that a snapshot
ends where the live part starts), and who may have a sender (`RegistryInv`).
`LineInv` states the handoff piecewise, as chains that are joined at their ends, so
that a step disturbs one piece: a send moves the reader's event to the end of the
queue, a receive takes the head off, an overflow starts the chain anew with a `Gap`.

The other safety properties of the fanout follow from `IInv` and one more invariant
each. `WindowIsExact` and `SubscriptionsStartAtWindow` need to know where the window
begins (`EdgeInv`): the trimming loop stops where one more pop would uncover a chunk,
and a push can only make the window too large. `QueuesAreBounded` needs that the
event beyond the capacity is a terminal one that has closed the queue (`QueueInv`).
`NobodyIsOrphaned` needs what becomes of the senders that the reader copied before it
let go of the lock (`OrphanInv`): while the stream lives, an open subscription that
is not registered has the terminal event in the reader's hands, at the end of its
queue or at the end of its snapshot, and whom the reader takes out as stale was out
of the registry before. `FanoutImplementsEventStream`: `Spec => ImplementsEventStream`. `ViewInv` says
of everything that a subscription can still be given, in snapshot, queue and hands,
that it is ascending, not passed yet and produced, and that a `Gap` or the end is
there only where the contract has room for it; continuity comes from `LineInv`.

**Fast path** (`FastBroadcastProofs`). `FastImplementsEventStream`: `Spec =>
ImplementsEventStream`. A receive may return chunk n only if n is due or a `Gap` was
returned, and the end only if nothing is left. So `IInv` says what lies ahead of a
receiver: the chunks in the channel are the last ones produced, consecutive, with the
end, if any, behind them (`TailInv`), and the first one ahead of a receiver is the one
due to it, or a later one if it has been told of the gap (`PosInv`); a lag moves the
receiver forward and sets that mark in one step. Each action is then a step of
`EventStream` or a stutter.

**Single-subscriber** (`SingleSubscriberProofs`). `OneConsumer` and
`TerminalIsLast`: `ExclusiveConsumer` and `NothingAfterTerminal` always hold. The
reader may send to, and deregister, a subscriber that is long gone. What makes this
harmless is that it deregisters only whom it found without a receiver, while a
consumer always has its receiver and the registration (`ConsumerInv`). For the end,
`EndInv` adds that a terminal event in a channel is its last and the reader has
stopped, and that one taken from the snapshot takes the receiver with it, so that
the same event sent live finds nobody.

`WindowIsExact` is proved as for the fanout (`EdgeInv`), except that the bytes of a
window are a recursively defined sum: the lemmas on it argue from the least index at
which they would fail, which well-foundedness of the naturals provides.

`SingleImplementsEventStream`: `Spec /\ Recording => ImplementsEventStream`, where
`Recording` says that the stream is reliable or retains nothing. Without it the
refinement fails: what a lossy reader discards unrecorded (see `single_replay_doc`)
is also missing, without a `Gap`, from the replay of whoever subscribes next.
`CoreInv` describes the reader between its
steps: what it holds and whether that was recorded (`ReaderInv`), whom it and the
watch channel can name (`IdInv`), and that nothing was sent to a subscriber it has
not noticed, nor is sent to one that has returned `None` (`ServiceInv`). On top of it
`ViewInv` says of the consumer that the events it holds lead it, each as the contract
allows (`Moves`, `Leads`), from its position to a place from which the reader's next
send goes on (`Stands`). A receive then takes the first of these moves, a send adds
one at the end, and a new subscription starts with those of the window.

**Best-effort queue** (`ConsumerProofs`). `WakeupNotLost`: a receiver that
sleeps has nothing to return, or its wake-up is on the way. The invariant is that
between the look and the await the `Notified` is already enabled, so that whoever
put something into the queue after the look still has its notification to give
(`Announced`).

**Process** (`ProcessSpawnProofs`). `LeakIsNeverSilent` and `GuardHolds`: from the
configuration to the drop, a child left running was sent the kill, was detached, or
refused the kill and that was said; and the guard is disarmed only on such grounds
or after the exit was observed. `GuardInv` ties the guard to the child, `CallInv`
the probe of `start_kill` to a refused kill, `OwnerInv` says that until the handle
exists nobody owns the child, and `ConfigInv` that a configuration which reached
the spawn is valid and matches its pipes. The last one is what excludes a panic of
`into_stream` while the child runs without a guard; it follows from the stages of
the builder.

`FullInv` adds what the calls need. With `StepInv` (which step belongs to which
call), `SuccessHolds` follows on every path. `EscalatesInOrder`: `EscalationInv`
relates the attempts on record to the phase the termination is in. `TimeIsBounded`:
`TimeInv` bounds the time waited by the sum of the time-outs of the phases passed,
plus one grace per refusal; that the partial sums grow to `total_timeout` is again
shown from a least index at which they would not. `PanicsOnce`: `PanicInv` says that
a panic leaves an unwinding thread, on which no later step panics, and that the
fallback of the wrapper hands over a guard that is disarmed. `PipesAreRead`:
`PipeInv` follows the two calls of `into_stream`.

**Consumers** (`ConsumerProofs`). `ReturnsAfterTask` and `WaitIsWhole`. The
invariant is local to a consumer: a task that reached `on_eof` has seen the end and
one that stopped was told to (`HandledTaskInv`), a call has joined the task before it
returns (`CallInv`), and a wait keeps the termination sender until it
has joined (`WaitInv`).

**Drain** (`ConsumerProofs`). `CollectorsEndFirst`, `CompleteOutput` and
`RealErrors`, for every order of exits, deadline and errors. `PlaceInv` says at each
point of the call how far each collector's wait or abort has got, and that before a
result is decided nothing is aborted unless the deadline has passed; an error of a
collector is then its own.

`ConsumerProofs` extends all three, which is why the initial predicate, next-state
relation and specification of `OutputDrain` and `BestEffortQueue` have names of their
own (`DrainSpec`, `QueueSpec`). `Collecting` is a hypothesis of the drain alone: what
is proved of a handle is proved for any set of consumers, whether or not their
visitors break off.

**Line parser and visitors** (`VisitorsProofs`, `CollectorProofs`, and
`VisitorsFacts` with the lemmas of both). For every text, every way to cut it
into chunks, every maximal line length, overflow behaviour and limit, and every place
a gap may fall: `ParsesText`, `CollectsExactly`, `WritesText` and `WaitsRightly`,
which are `LinesAreThoseOfText`, `CollectedExact`, `WriterGetsText` and `WaitIsRight`.
The bounds `MaxText`, `MaxChunk`, `MaxVisited` and `MaxFailures` are arbitrary.

`LineInv` says where the parser is: the text is a part P that is parsed and the rest
of the chunk, and the lines given out are those of P as the reference has them, less
what the buffer still holds. There is one such statement for each mode. In `Reading`
the buffer is what follows the last full piece of the unterminated line of P; in
`Pending` the line of P ends with a full piece, so that a newline now ends nothing
new; in `Discarding` the line of P has a gap, or is longer than the limit and its
beginning is out. Each turn of `next_line` moves some bytes of the chunk over to P.
The lemmas on the reference say what that does to it: a newline closes the
unterminated line, other bytes extend it and may complete a piece, a gap freezes it.
A visitor that breaks off has the lines of a part of the text, which lead those of
the whole.

A visitor is then related to the lines, or to the bytes of P without the gaps.
The proof for the collectors does not need to know which lines these are, only that
they are typed, and with them what the buffer holds against the limit (`BufferInv`).
`WaitInv`: a match is noted with its line and ends the wait. `WriteInv`: without a
failure the writer has the lines with their delimiters, or the bytes; an error that
stops has stopped, and only a failure breaks off. `BytesInv`: the collector holds the
first or last bytes, by case on how the chunk compares with the room. `CollectInv`:
the lines kept are those that the limits ask for. For `DropOldestData` the longest run
of last lines that fits with a new line is found by eviction because a run that fits
with the line also fits without it (`RunGrows`), and there are always lines enough to
evict because no lines at all leave room for one that is not too long
(`EnoughToEvict`).

The references flatten and filter whole texts with recursive functions. What these
compute for one element more is proved from the least index at which it would fail
(`Climb`), and everything else from those lemmas.

Only model-checked is what must eventually happen, under fairness:
`EndReachesEveryone`, `DropStopsReader`, `RecvReturns`, `TerminationReturns`,
`CancelReturns`, `DropEndsTask`, `DrainReturns` and the end of the parsing loop
(`ChunkExhausted`). This prover has no rules for fairness and `ENABLED`. The
refinement of `EventStream` by a lossy single-subscriber stream that retains output
does not hold, see `Recording`.

## What is not modelled

- **Discarded output**, beyond its configuration: a subscription that is at its
  end at once has no state.
- **Names and errors** (`process/name.rs`, `error.rs`), logging, the texts of
  panics and diagnostics, and the byte counter kept for diagnostics: no behaviour
  depends on them.
- **Delegating wrappers**: the traits, the enum over backends, the replay control
  of the handle. Each call is the call of the backend it goes to.
- **Members of a process group other than its leader.** A signal to the group is a
  signal to the leader; what descendants do with it is the kernel's.
- **Platforms** other than Unix and Windows, where terminating is not compiled.
- **Decoding of lines and capacities of buffers.** The text is ASCII. A lossy
  decoding of a line cut inside a character replaces its two halves, although
  `line/options.rs` says of that overflow behaviour "No data is dropped with this
  behavior".
- **The deadlock of a child that waits for the end of its input** while the parent
  waits for the child: `wait` closes stdin as its first statement, which is one
  step of the model.
- **One model of everything.** `OutputDrain` abstracts the process, and `Consumer`
  the backend, to what they use of each other: that a wait ends, and that a
  subscription ends or does not. The product would be out of TLC's reach without
  asking a new question.
