--------------------------- MODULE FastBroadcast ---------------------------
(***************************************************************************)
(* The fast path of the broadcast backend, for lossy delivery without      *)
(* replay: one reader task, a Tokio broadcast channel whose ring all       *)
(* receivers share, and a small closure state behind a mutex for those who *)
(* subscribe after the end.                                                *)
(*                                                                         *)
(* A step is one critical section, one send or one receive.  sent is all   *)
(* that was ever put into the ring; only its last RingSize events are      *)
(* still there, and a receiver that is behind them has lagged.             *)
(***************************************************************************)
EXTENDS Integers, Sequences, FiniteSets

CONSTANTS
  Subs,              \* subscriptions
  MaxBufferedChunks, \* max_buffered_chunks
  RingSize,          \* slots of the channel made with that capacity
  ReadChunkSize,     \* read_chunk_size
  MaxRead,           \* most bytes one read can return
  MaxBytes           \* bound: bytes the child writes in total

\* What StreamConfig::assert_valid lets through.
ASSUME ConfigAssumption ==
  /\ MaxBufferedChunks \in Nat \ {0} /\ RingSize \in Nat
  /\ ReadChunkSize \in Nat \ {0}
  /\ MaxRead \in Nat
  /\ MaxBytes \in Nat

\* broadcast::channel rounds its capacity up to a power of two.
ASSUME RingAssumption ==
  /\ \E k \in 0..RingSize : RingSize = 2 ^ k
  /\ MaxBufferedChunks \in (RingSize \div 2 + 1)..RingSize

VARIABLES
  \* FastClosureState
  closed, read_error,
  \* the channel
  sent,
  \* the reader task
  pc,                \* "read", "chunk", "error" (recorded, not sent) or "stopped"
  buf,               \* bytes read and not yet split into chunks
  \* the stream object
  stream,            \* "alive" or "dropped"
  \* the subscriptions
  sub,               \* "none", "open" or "dropped"
  emit_terminal_event,
  next,              \* Receiver::next: events of the channel it is past
  \* history
  produced,          \* chunks cut from the child's output so far
  written,           \* their bytes
  pos, gapped,       \* as in EventStream
  outcome,           \* "open", or how s ended: "eof", "error" or "none"
  extra              \* s received an event after its terminal event

stateVars == <<closed, read_error>>
taskVars  == <<pc, buf>>
subVars   == <<sub, emit_terminal_event, next>>
logVars   == <<produced, written>>
histVars  == <<pos, gapped, outcome, extra>>
vars == <<stateVars, sent, taskVars, stream, subVars, logVars, histVars>>

Terminals == {"eof", "error"}

\* A chunk is its number; a terminal event has that of the chunk it stands in for.
Event(kind) == [ev |-> kind, seq |-> produced]

Init ==
  /\ closed = FALSE /\ read_error = FALSE
  /\ sent = <<>>
  /\ pc = "read" /\ buf = 0
  /\ stream = "alive"
  /\ sub = [s \in Subs |-> "none"]
  /\ emit_terminal_event = [s \in Subs |-> "none"]
  /\ next = [s \in Subs |-> 0]
  /\ produced = 0 /\ written = 0
  /\ pos = [s \in Subs |-> 0]
  /\ gapped = [s \in Subs |-> FALSE]
  /\ outcome = [s \in Subs |-> "open"]
  /\ extra = [s \in Subs |-> FALSE]

-----------------------------------------------------------------------------
(* tokio::sync::broadcast *)

\* The receivers that the channel has.
Receivers == {s \in Subs : sub[s] = "open"}

\* Sender::send: an error, and nothing stored, if there is no receiver.
Send(e) == sent' = IF Receivers = {} THEN sent ELSE Append(sent, e)

Lagged(s) == Len(sent) - next[s] > RingSize

\* Every sender is gone: the stream's own, and the reader's clone.
AllSendersGone == stream = "dropped" /\ pc = "stopped"

-----------------------------------------------------------------------------
(* The reader task: read_chunked_fast *)

ReadBytes(n) ==
  /\ pc = "read"
  /\ written + n <= MaxBytes
  /\ buf' = n /\ pc' = "chunk"
  /\ UNCHANGED <<stateVars, sent, stream, subVars, logVars, histVars>>

\* Split the next chunk off and send it to everyone at once.
SendChunk ==
  /\ pc = "chunk"
  /\ LET split_to == IF buf < ReadChunkSize THEN buf ELSE ReadChunkSize IN
       /\ buf' = buf - split_to
       /\ written' = written + split_to
  /\ Send(Event("chunk"))
  /\ produced' = produced + 1
  /\ pc' = IF buf' > 0 THEN "chunk" ELSE "read"
  /\ UNCHANGED <<stateVars, stream, subVars, histVars>>

\* Mutant: the end is announced before it is recorded, and the task stops there.
ReadEof_NotRecorded ==
  /\ pc = "read"
  /\ Send(Event("eof"))
  /\ pc' = "stopped"
  /\ UNCHANGED <<closed, read_error, buf, stream, subVars, logVars, histVars>>

\* The end of the output: recorded and sent in one critical section.
ReadEof ==
  /\ pc = "read"
  /\ closed' = TRUE
  /\ Send(Event("eof"))
  /\ pc' = "stopped"
  /\ UNCHANGED <<read_error, buf, stream, subVars, logVars, histVars>>

\* A failed read: recorded in a critical section ...
ReadFails ==
  /\ pc = "read"
  /\ read_error' = TRUE
  /\ pc' = "error"
  /\ UNCHANGED <<closed, sent, buf, stream, subVars, logVars, histVars>>

\* ... and sent after it.
SendError ==
  /\ pc = "error"
  /\ Send(Event("error"))
  /\ pc' = "stopped"
  /\ UNCHANGED <<stateVars, buf, stream, subVars, logVars, histVars>>

\* An aborted task is dropped where it awaits, which is the read.
ReaderCancelled ==
  /\ stream = "dropped" /\ pc = "read"
  /\ pc' = "stopped"
  /\ UNCHANGED <<stateVars, sent, buf, stream, subVars, logVars, histVars>>

-----------------------------------------------------------------------------
(* Subscriptions *)

\* try_subscribe: a receiver at the tail and the terminal event, if there was
\* one, in one critical section.
TrySubscribe(s) ==
  /\ stream = "alive" /\ sub[s] = "none"
  /\ sub' = [sub EXCEPT ![s] = "open"]
  /\ next' = [next EXCEPT ![s] = Len(sent)]
  /\ emit_terminal_event' = [emit_terminal_event EXCEPT ![s] =
        IF read_error THEN "error" ELSE IF closed THEN "eof" ELSE "none"]
  /\ pos' = [pos EXCEPT ![s] = produced]
  /\ UNCHANGED <<stateVars, sent, taskVars, stream, logVars, gapped, outcome, extra>>

\* next_event returns an event of this kind; seq is the number of a chunk, and
\* Repeated the position after one that s has received before.
Repeated == -2
Returns(s, kind, seq) ==
  /\ pos' = [pos EXCEPT ![s] = IF kind # "chunk" THEN @
                               ELSE IF seq >= pos[s] THEN seq + 1 ELSE Repeated]
  /\ gapped' = [gapped EXCEPT ![s] = IF kind \in Terminals THEN @ ELSE kind = "gap"]
  /\ outcome' = [outcome EXCEPT ![s] = IF @ = "open" /\ kind \in Terminals THEN kind ELSE @]
  /\ extra' = [extra EXCEPT ![s] = outcome[s] \in Terminals]

\* recv: first the terminal event it subscribed with ...
RecvTerminal(s) ==
  /\ sub[s] = "open" /\ emit_terminal_event[s] # "none"
  /\ emit_terminal_event' = [emit_terminal_event EXCEPT ![s] = "none"]
  /\ Returns(s, emit_terminal_event[s], 0)
  /\ UNCHANGED <<stateVars, sent, taskVars, stream, sub, next, logVars>>

\* ... then the next event of the channel ...
RecvEvent(s) ==
  /\ sub[s] = "open" /\ emit_terminal_event[s] = "none"
  /\ next[s] < Len(sent) /\ ~Lagged(s)
  /\ next' = [next EXCEPT ![s] = @ + 1]
  /\ Returns(s, sent[next[s] + 1].ev, sent[next[s] + 1].seq)
  /\ UNCHANGED <<stateVars, sent, taskVars, stream, sub, emit_terminal_event, logVars>>

\* Mutant: the receiver catches up without telling the consumer.
RecvLagged_Silently(s) ==
  /\ sub[s] = "open" /\ emit_terminal_event[s] = "none" /\ Lagged(s)
  /\ next' = [next EXCEPT ![s] = Len(sent) - RingSize]
  /\ UNCHANGED <<stateVars, sent, taskVars, stream, sub, emit_terminal_event, logVars, histVars>>

\* ... or a Gap for those that were overwritten: the receiver goes on with the
\* oldest event in the ring.
RecvLagged(s) ==
  /\ sub[s] = "open" /\ emit_terminal_event[s] = "none" /\ Lagged(s)
  /\ next' = [next EXCEPT ![s] = Len(sent) - RingSize]
  /\ Returns(s, "gap", 0)
  /\ UNCHANGED <<stateVars, sent, taskVars, stream, sub, emit_terminal_event, logVars>>

\* None, once the channel is drained and its senders are gone.
RecvClosed(s) ==
  /\ sub[s] = "open" /\ emit_terminal_event[s] = "none"
  /\ next[s] = Len(sent) /\ AllSendersGone
  /\ outcome' = [outcome EXCEPT ![s] = IF @ = "open" THEN "none" ELSE @]
  /\ UNCHANGED <<stateVars, sent, taskVars, stream, subVars, logVars, pos, gapped, extra>>

Recv(s) == RecvTerminal(s) \/ RecvEvent(s) \/ RecvLagged(s) \/ RecvClosed(s)

DropSubscription(s) ==
  /\ sub[s] = "open"
  /\ sub' = [sub EXCEPT ![s] = "dropped"]
  /\ UNCHANGED <<stateVars, sent, taskVars, stream, emit_terminal_event, next, logVars, histVars>>

\* Drop of the BroadcastOutputStream: abort the reader; the sender goes with it.
DropStream ==
  /\ stream = "alive"
  /\ stream' = "dropped"
  /\ UNCHANGED <<stateVars, sent, taskVars, subVars, logVars, histVars>>

Finished ==
  /\ AllSendersGone
  /\ \A s \in Subs : sub[s] # "open"
  /\ UNCHANGED vars

-----------------------------------------------------------------------------
Reader == SendChunk \/ SendError

Next ==
  \/ Reader
  \/ \E n \in 1..MaxRead : ReadBytes(n)
  \/ ReadEof \/ ReadFails
  \/ ReaderCancelled
  \/ \E s \in Subs : TrySubscribe(s) \/ Recv(s) \/ DropSubscription(s)
  \/ DropStream
  \/ Finished

Spec == Init /\ [][Next]_vars

\* The runtime polls the reader while it has something to send, and drops an
\* aborted task at its next await.  Nothing makes the child write or exit, or a
\* consumer receive.
FairSpec == Spec /\ WF_vars(Reader) /\ SF_vars(ReaderCancelled)

-----------------------------------------------------------------------------
(* Properties *)

Phase(s) ==
  CASE sub[s] = "none" -> "idle"
    [] sub[s] = "dropped" -> "left"
    [] OTHER -> IF outcome[s] = "open" THEN "open" ELSE "ended"

Ended == IF read_error THEN "error" ELSE IF closed THEN "eof" ELSE "no"

ES == INSTANCE EventStream WITH
  lossy <- TRUE,
  ended <- Ended,
  cut <- stream = "dropped",
  phase <- [s \in Subs |-> Phase(s)]

\* Up to its terminal event a subscription of the fast path observes what an
\* EventStream promises: the chunks from where it attached, in order, none
\* overwritten in the ring without a Gap, and the end only after the last.
ImplementsEventStream == ES!Spec

\* When the stream has ended or is dropped, a subscription that keeps receiving
\* gets to its end, whether it attached before, at or after the end.
EndReachesEveryone ==
  \A s \in Subs : WF_vars(Recv(s)) =>
    (sub[s] = "open" /\ (closed \/ read_error \/ pc = "stopped" \/ stream = "dropped")
       ~> outcome[s] # "open" \/ sub[s] = "dropped")

\* What Subscription::next_event documents: after the terminal event of a
\* subscription, every call returns None.
NothingAfterTerminal == \A s \in Subs : ~extra[s]
=============================================================================
