---------------------------- MODULE ConsumerProofs ----------------------------
(***************************************************************************)
(* What holds of consumers: of the two that collect the output of a        *)
(* process (OutputDrain), of any number of them under the operations of    *)
(* their handles (ConsumerHandle), and of the queue that a lossy one       *)
(* receives from (BestEffortQueue), whatever its capacity.                 *)
(***************************************************************************)
EXTENDS OutputDrain, ConsumerHandle, BestEffortQueue, TLAPS

-----------------------------------------------------------------------------
(* The inductive invariant *)

Results == {"none", "start_failed", "process_timeout", "wait_failed", "ok", "timeout",
            "collection", "panic", "dropped"}
Places == {"stdout", "stderr", "process", "drain", "rest", "sibling", "abort", "return", "over"}

\* The types of what each collector and its guard are in, and of the call.
CollectorTypes ==
  /\ stream \in [Consumers -> {"open", "eof", "error"}]
  /\ task \in [Consumers -> {"none", "polling", "visiting", "finishing", "done"}]
  /\ exit \in [Consumers -> Exits]
  /\ aborting \in [Consumers -> BOOLEAN]
  /\ term \in [Consumers -> {"held", "taken"}]
  /\ handle \in [Consumers -> {"none", "held", "spent", "gone"}]
  /\ call \in [Consumers -> {"none", "idle", "waiting", "aborting", "joined", "over"}]
  /\ outcome \in [Consumers -> {"none", "whole", "read_error", "join_error", "aborted"}]

CallTypes ==
  /\ pc \in Places /\ deadline \in {"unset", "ahead", "passed"}
  /\ winner \in Consumers \cup {"none"} /\ result \in Results

\* A task exits for a reason: it stops or is cancelled only when it was told to.
TaskInv(c) ==
  /\ task[c] = "done" <=> exit[c] # "none"
  /\ task[c] = "finishing" \/ exit[c] = "whole" => stream[c] = "eof"
  /\ exit[c] = "stopped" => term[c] = "taken"
  /\ exit[c] = "cancelled" => aborting[c]
  /\ exit[c] # "broke"

\* Until it is joined or aborted a collector is told nothing; whoever no longer
\* holds the JoinHandle has seen the task end, and what was joined is reported.
GuardInv(c) ==
  /\ call[c] = "none" <=> task[c] = "none"
  /\ call[c] = "none" <=> handle[c] = "none"
  /\ call[c] \in {"idle", "waiting"} => handle[c] = "held"
  /\ call[c] \in {"none", "idle", "waiting"} =>
       term[c] = "held" /\ ~aborting[c] /\ outcome[c] = "none"
  /\ handle[c] \in {"spent", "gone"} /\ call[c] # "over" => task[c] = "done"
  /\ call[c] = "joined" => task[c] = "done" /\ outcome[c] # "none"
  /\ outcome[c] = "whole" => exit[c] = "whole"
  /\ outcome[c] = "read_error" => exit[c] = "read_error"
  /\ outcome[c] = "join_error" => exit[c] = "panicked"

LocalInv(c) == TaskInv(c) /\ GuardInv(c)

\* Where the call is, and what it has made of the collectors there.
PlaceInv ==
  /\ pc = "stdout" => \A c \in Consumers : call[c] = "none"
  /\ pc = "stderr" => call["stdout"] = "idle" /\ call["stderr"] = "none"
  /\ pc = "process" => \A c \in Consumers : call[c] = "idle"
  /\ pc \in {"drain", "rest", "sibling"} =>
       \A c \in Consumers : call[c] \in {"waiting", "aborting", "joined"}
  /\ pc \in {"rest", "sibling"} => winner \in Consumers /\ call[winner] = "joined"
  /\ pc = "rest" => outcome[winner] = "whole"
  /\ pc = "abort" => \A c \in Consumers :
       /\ call[c] \in {"none", "aborting", "joined"}
       /\ call[c] = "aborting" /\ handle[c] = "spent" => call[Other(c)] = "joined"
  /\ pc = "return" => \A c \in Consumers : task[c] \in {"none", "done"}
  /\ pc \in {"drain", "rest"} => \A c \in Consumers :
       call[c] = "aborting" \/ outcome[c] = "aborted" => deadline = "passed"
  /\ \A c \in Consumers : call[c] = "over" => pc = "over"

\* What the call has decided to return is so.
ResultInv ==
  /\ pc \in {"stdout", "stderr", "process", "drain", "rest"} => result = "none"
  /\ result = "ok" => /\ pc \in {"return", "over"}
                      /\ \A c \in Consumers : outcome[c] = "whole"
  /\ ErrorsAreReal
  /\ NoCollectorOutlivesCall

CollectorsInv == CollectorTypes /\ \A c \in Consumers : LocalInv(c)

IInv == CollectorsInv /\ CallTypes /\ PlaceInv /\ ResultInv

-----------------------------------------------------------------------------
(* The collectors *)

\* There are two collectors.
LEMMA TwoCollectors ==
  ASSUME Collecting, NEW c \in Consumers
  PROVE  /\ Other(c) \in Consumers /\ Other(c) # c
         /\ \A d \in Consumers : d = c \/ d = Other(c)
<1>1. \E d \in Consumers : d # c
  BY Zenon DEF Collecting
<1>2. Other(c) \in Consumers /\ Other(c) # c
  BY Zenon, <1>1 DEF Other
<1> QED BY Zenon, <1>2 DEF Collecting

\* What the invariant says of a collector depends only on its own state.
LEMMA LocalFrame ==
  ASSUME NEW d \in Consumers, LocalInv(d),
         stream'[d] = stream[d], task'[d] = task[d], exit'[d] = exit[d],
         aborting'[d] = aborting[d], term'[d] = term[d], handle'[d] = handle[d],
         call'[d] = call[d], outcome'[d] = outcome[d]
  PROVE  LocalInv(d)'
  BY Zenon DEF LocalInv, TaskInv, GuardInv

\* A step of a stream, of a task or of its visitor.
LEMMA TaskKeeps ==
  ASSUME Collecting, CollectorsInv, NEW c \in Consumers,
         StreamEnds(c) \/ TaskStep(c) \/ VisitorStep(c)
  PROVE  /\ CollectorsInv' /\ UNCHANGED callVars
         /\ \A d \in Consumers :
              /\ task[d] \in {"none", "done"} => task'[d] = task[d]
              /\ exit[d] # "none" => exit'[d] = exit[d]
<1> USE DEF StreamEnds, TaskStep, VisitorStep, TakeEnd, Finish, TakeTermination, TaskAborted,
            TakeChunk, VisitorReturns, VisitorPanics, Exit
<1>1. UNCHANGED callVars
  BY Zenon
<1>2. /\ stream' \in [Consumers -> {"open", "eof", "error"}]
      /\ task' \in [Consumers -> {"none", "polling", "visiting", "finishing", "done"}]
      /\ exit' \in [Consumers -> Exits]
      /\ \A d \in Consumers \ {c} : /\ stream'[d] = stream[d] /\ task'[d] = task[d]
                                    /\ exit'[d] = exit[d]
  BY SMTT(60) DEF CollectorsInv, CollectorTypes, Exits
<1>3. CollectorTypes'
  BY Zenon, <1>1, <1>2 DEF CollectorsInv, CollectorTypes, callVars
<1>4. \A d \in Consumers \ {c} : LocalInv(d)'
  BY Zenon, <1>1, <1>2, LocalFrame DEF CollectorsInv, callVars
<1>5. TaskInv(c) /\ GuardInv(c)
  BY Zenon DEF CollectorsInv, LocalInv
<1>6. /\ stream[c] # "open" => stream'[c] = stream[c]
      /\ task[c] \in {"none", "done"} => task'[c] = task[c] /\ exit'[c] = exit[c]
      /\ task[c] \notin {"none", "done"} => task'[c] # "none"
      /\ task'[c] = "finishing" => stream'[c] = "eof"
      /\ task'[c] = "done" <=> exit'[c] # "none"
      /\ exit'[c] = "whole" => stream'[c] = "eof"
      /\ exit'[c] = "stopped" => term[c] = "taken"
      /\ exit'[c] # "broke"
  BY SMTT(60), <1>5 DEF Collecting, CollectorsInv, CollectorTypes, TaskInv, Exits
<1>7. exit'[c] = "cancelled" => aborting[c]
  <2>1. aborting[c] \/ exit'[c] # "cancelled" \/ exit'[c] = exit[c]
    BY DEF CollectorsInv, CollectorTypes
  <2> QED BY Zenon, <1>5, <2>1 DEF TaskInv
<1>8. exit[c] # "none" => exit'[c] = exit[c]
  BY Zenon, <1>5, <1>6 DEF TaskInv
<1>9. TaskInv(c)'
  <2>1. aborting' = aborting /\ term' = term
    BY Zenon, <1>1 DEF callVars
  <2> QED BY Zenon, <1>6, <1>7, <2>1 DEF TaskInv
<1>10. GuardInv(c)'
  <2>1. UNCHANGED <<aborting, term, handle, call, outcome>>
    BY Zenon, <1>1 DEF callVars
  <2>2. task'[c] = "none" <=> task[c] = "none"
    BY Zenon, <1>2, <1>6 DEF CollectorsInv, CollectorTypes
  <2> QED BY Zenon, <1>5, <1>6, <1>8, <2>1, <2>2 DEF GuardInv
<1>11. CollectorsInv'
  BY Zenon, <1>3, <1>4, <1>9, <1>10 DEF CollectorsInv, LocalInv
<1>12. \A d \in Consumers : /\ task[d] \in {"none", "done"} => task'[d] = task[d]
                            /\ exit[d] # "none" => exit'[d] = exit[d]
  BY Zenon, <1>2, <1>6, <1>8
<1> QED BY Zenon, <1>1, <1>11, <1>12

\* ConsumerWaitGuard::abort begins for the collectors in S.
LEMMA AbortKeeps ==
  ASSUME CollectorsInv, NEW S, \A c \in Consumers : c \in S => call[c] \notin {"none", "over"},
         BeginAbort(S), UNCHANGED <<stream, task, exit, handle, outcome>>
  PROVE  /\ CollectorsInv'
         /\ \A c \in Consumers : call'[c] = IF c \in S THEN "aborting" ELSE call[c]
<1>1. aborting' \in [Consumers -> BOOLEAN]
  BY Zenon DEF BeginAbort
<1>2. CollectorTypes'
  BY Zenon, <1>1 DEF CollectorsInv, CollectorTypes, BeginAbort
<1>3. ASSUME NEW c \in Consumers PROVE LocalInv(c)'
  <2>1. TaskInv(c) /\ GuardInv(c)
    BY Zenon DEF CollectorsInv, LocalInv
  <2>2. CASE c \in S
    <3>1. /\ call'[c] = "aborting" /\ term'[c] = "taken"
          /\ call[c] \notin {"none", "over"} /\ task[c] # "none"
      BY Zenon, <2>1, <2>2 DEF CollectorsInv, CollectorTypes, BeginAbort, GuardInv
    <3>2. aborting[c] => aborting'[c]
      BY Zenon DEF BeginAbort
    <3>3. TaskInv(c)'
      BY Zenon, <2>1, <3>1, <3>2 DEF TaskInv
    <3>4. GuardInv(c)'
      BY Zenon, <2>1, <3>1 DEF GuardInv
    <3> QED BY Zenon, <3>3, <3>4 DEF LocalInv
  <2>3. CASE c \notin S
    <3>1. call'[c] = call[c] /\ term'[c] = term[c]
      BY Zenon, <2>3 DEF BeginAbort
    <3>2. aborting'[c] = aborting[c]
      <4>1. aborting[c] \in BOOLEAN
        BY Zenon DEF CollectorsInv, CollectorTypes
      <4>2. aborting'[c] = (aborting[c] \/ (c \in S /\ handle[c] \in {"held", "spent"}))
        BY Zenon DEF BeginAbort
      <4> QED BY Zenon, <2>3, <4>1, <4>2
    <3> QED BY Zenon, <3>1, <3>2, LocalFrame DEF CollectorsInv
  <2> QED BY Zenon, <2>2, <2>3
<1> QED BY Zenon, <1>2, <1>3 DEF CollectorsInv, BeginAbort

\* The guards of the collectors in S are dropped.
LEMMA DropKeeps ==
  ASSUME CollectorsInv, NEW S, \A c \in Consumers : c \in S => call[c] # "none",
         Dropped(S), UNCHANGED <<stream, task, exit, outcome>>
  PROVE  /\ CollectorsInv'
         /\ \A c \in Consumers : call'[c] = IF c \in S THEN "over" ELSE call[c]
<1>1. aborting' \in [Consumers -> BOOLEAN]
  BY Zenon DEF Dropped
<1>2. CollectorTypes'
  BY Zenon, <1>1 DEF CollectorsInv, CollectorTypes, Dropped
<1>3. ASSUME NEW c \in Consumers PROVE LocalInv(c)'
  <2>1. TaskInv(c) /\ GuardInv(c)
    BY Zenon DEF CollectorsInv, LocalInv
  <2>2. CASE c \in S
    <3>1. /\ call'[c] = "over" /\ term'[c] = "taken" /\ handle'[c] = "gone"
          /\ call[c] # "none" /\ task[c] # "none"
      BY Zenon, <2>1, <2>2 DEF CollectorsInv, CollectorTypes, Dropped, GuardInv
    <3>2. aborting[c] => aborting'[c]
      BY Zenon DEF Dropped
    <3>3. TaskInv(c)'
      BY Zenon, <2>1, <3>1, <3>2 DEF TaskInv
    <3>4. GuardInv(c)'
      BY Zenon, <2>1, <3>1 DEF GuardInv
    <3> QED BY Zenon, <3>3, <3>4 DEF LocalInv
  <2>3. CASE c \notin S
    <3>1. call'[c] = call[c] /\ term'[c] = term[c] /\ handle'[c] = handle[c]
      BY Zenon, <2>3 DEF Dropped
    <3>2. aborting'[c] = aborting[c]
      <4>1. aborting[c] \in BOOLEAN
        BY Zenon DEF CollectorsInv, CollectorTypes
      <4>2. aborting'[c] = (aborting[c] \/ (c \in S /\ handle[c] \in {"held", "spent"}))
        BY Zenon DEF Dropped
      <4> QED BY Zenon, <2>3, <4>1, <4>2
    <3> QED BY Zenon, <3>1, <3>2, LocalFrame DEF CollectorsInv
  <2> QED BY Zenon, <2>2, <2>3
<1> QED BY Zenon, <1>2, <1>3 DEF CollectorsInv, Dropped

\* ConsumerWaitGuard::wait joins the task of a collector that was told nothing: it
\* ended by itself, and the outcome says how.
LEMMA JoinKeeps ==
  ASSUME CollectorsInv, NEW c \in Consumers, Join(c)
  PROVE  /\ CollectorsInv' /\ UNCHANGED <<stream, task, exit>>
         /\ call[c] = "waiting" /\ call' = [call EXCEPT ![c] = "joined"]
         /\ outcome'[c] \in {"whole", "read_error", "join_error"}
         /\ \A d \in Consumers \ {c} : handle'[d] = handle[d] /\ outcome'[d] = outcome[d]
<1> USE DEF taskVars
<1>1. TaskInv(c) /\ GuardInv(c)
  BY Zenon DEF CollectorsInv, LocalInv
<1>2. /\ call[c] = "waiting" /\ task[c] = "done" /\ term[c] = "held" /\ ~aborting[c]
      /\ UNCHANGED <<stream, task, exit, aborting>>
      /\ call' = [call EXCEPT ![c] = "joined"]
  BY Zenon, <1>1 DEF Join, GuardInv
<1>3. exit[c] # "cancelled"
  BY Zenon, <1>1, <1>2 DEF TaskInv
<1>4. exit[c] \in {"whole", "read_error", "panicked"}
  BY Zenon, <1>1, <1>2, <1>3 DEF TaskInv, CollectorsInv, CollectorTypes, Exits
<1>5. /\ handle' \in [Consumers -> {"none", "held", "spent", "gone"}]
      /\ handle'[c] \in {"spent", "gone"}
      /\ term' \in [Consumers -> {"held", "taken"}]
      /\ outcome' \in [Consumers -> {"none", "whole", "read_error", "join_error", "aborted"}]
      /\ outcome'[c] = IF exit[c] = "panicked" THEN "join_error" ELSE exit[c]
      /\ \A d \in Consumers \ {c} : /\ handle'[d] = handle[d] /\ outcome'[d] = outcome[d]
                                    /\ term'[d] = term[d]
  BY <1>4 DEF Join, CollectorsInv, CollectorTypes
<1>6. CollectorTypes'
  BY Zenon, <1>2, <1>5 DEF CollectorsInv, CollectorTypes
<1>7. \A d \in Consumers \ {c} : LocalInv(d)'
  BY <1>2, <1>5, LocalFrame DEF CollectorsInv, CollectorTypes
<1>8. call'[c] = "joined" /\ task[c] # "none"
  BY Zenon, <1>2 DEF CollectorsInv, CollectorTypes
<1>9. TaskInv(c)'
  BY Zenon, <1>1, <1>2, <1>4 DEF TaskInv
<1>10. GuardInv(c)'
  BY Zenon, <1>1, <1>2, <1>4, <1>5, <1>8 DEF GuardInv
<1>11. outcome'[c] \in {"whole", "read_error", "join_error"}
  BY Zenon, <1>4, <1>5
<1> QED BY Zenon, <1>2, <1>5, <1>6, <1>7, <1>9, <1>10, <1>11 DEF CollectorsInv, LocalInv

\* ConsumerWaitGuard::abort has joined the task.
LEMMA AbortJoinKeeps ==
  ASSUME CollectorsInv, NEW c \in Consumers, AbortJoined(c),
         UNCHANGED <<stream, task, exit, aborting, term>>
  PROVE  /\ CollectorsInv'
         /\ call[c] = "aborting" /\ call' = [call EXCEPT ![c] = "joined"]
         /\ outcome' = [outcome EXCEPT ![c] = "aborted"]
         /\ \A d \in Consumers \ {c} : handle'[d] = handle[d]
<1>1. TaskInv(c) /\ GuardInv(c)
  BY Zenon DEF CollectorsInv, LocalInv
<1>2. /\ call[c] = "aborting" /\ call' = [call EXCEPT ![c] = "joined"]
      /\ handle' = [handle EXCEPT ![c] = "gone"]
      /\ outcome' = [outcome EXCEPT ![c] = "aborted"]
      /\ task[c] = "done"
  BY Zenon, <1>1 DEF AbortJoined, GuardInv
<1>3. CollectorTypes'
  BY Zenon, <1>2 DEF CollectorsInv, CollectorTypes
<1>4. \A d \in Consumers \ {c} : LocalInv(d)'
  BY Zenon, <1>2, LocalFrame DEF CollectorsInv, CollectorTypes
<1>5. call'[c] = "joined" /\ handle'[c] = "gone" /\ outcome'[c] = "aborted" /\ task[c] # "none"
  BY Zenon, <1>2 DEF CollectorsInv, CollectorTypes
<1>6. TaskInv(c)'
  BY Zenon, <1>1 DEF TaskInv
<1>7. GuardInv(c)'
  BY Zenon, <1>1, <1>2, <1>5 DEF GuardInv
<1>8. \A d \in Consumers \ {c} : handle'[d] = handle[d]
  BY <1>2
<1> QED BY Zenon, <1>2, <1>3, <1>4, <1>6, <1>7, <1>8 DEF CollectorsInv, LocalInv

\* A collector is started.
LEMMA SpawnKeeps ==
  ASSUME CollectorsInv, NEW c \in Consumers, call[c] = "none", Spawned(c)
  PROVE  /\ CollectorsInv' /\ call' = [call EXCEPT ![c] = "idle"]
         /\ UNCHANGED <<exit, outcome>>
<1>1. TaskInv(c) /\ GuardInv(c)
  BY Zenon DEF CollectorsInv, LocalInv
<1>2. /\ UNCHANGED <<stream, exit, aborting, term, outcome>>
      /\ task' = [task EXCEPT ![c] = "polling"] /\ handle' = [handle EXCEPT ![c] = "held"]
      /\ call' = [call EXCEPT ![c] = "idle"]
  BY Zenon DEF Spawned
<1>3. CollectorTypes'
  BY Zenon, <1>2 DEF CollectorsInv, CollectorTypes
<1>4. \A d \in Consumers \ {c} : LocalInv(d)'
  BY <1>2, LocalFrame DEF CollectorsInv, CollectorTypes
<1>5. call'[c] = "idle" /\ handle'[c] = "held" /\ task'[c] = "polling" /\ task[c] = "none"
  BY Zenon, <1>1, <1>2 DEF CollectorsInv, CollectorTypes, GuardInv
<1>6. TaskInv(c)'
  BY Zenon, <1>1, <1>2, <1>5 DEF TaskInv
<1>7. GuardInv(c)'
  BY Zenon, <1>1, <1>2, <1>5 DEF GuardInv
<1> QED BY Zenon, <1>2, <1>3, <1>4, <1>6, <1>7 DEF CollectorsInv, LocalInv

-----------------------------------------------------------------------------
(* The call *)

\* A step of a collector that the call does not see.
LEMMA TasksKeepIInv ==
  ASSUME Collecting, IInv, NEW c \in Consumers, Tasks(c) \/ Environment(c)
  PROVE  IInv'
<1>1. /\ UNCHANGED <<pc, deadline, winner, result>>
      /\ StreamEnds(c) \/ TaskStep(c) \/ VisitorStep(c)
  BY Zenon DEF Tasks, Environment
<1>2. /\ CollectorsInv' /\ UNCHANGED <<handle, call, outcome>>
      /\ \A d \in Consumers : /\ task[d] \in {"none", "done"} => task'[d] = task[d]
                              /\ exit[d] # "none" => exit'[d] = exit[d]
  BY Zenon, <1>1, TaskKeeps DEF IInv, callVars
<1>3. CallTypes'
  BY Zenon, <1>1 DEF IInv, CallTypes
<1>4. PlaceInv'
  BY <1>1, <1>2 DEF IInv, PlaceInv, Other
<1>5. ResultInv'
  BY Zenon, <1>1, <1>2 DEF IInv, ResultInv, ErrorsAreReal, NoCollectorOutlivesCall, Returned
<1> QED BY Zenon, <1>2, <1>3, <1>4, <1>5 DEF IInv

\* try_spawn_output_collectors.
LEMMA StartKeepsIInv == ASSUME Collecting, IInv, SubscribeStdout \/ SubscribeStderr PROVE IInv'
<1> USE DEF IInv
<1>c. "stdout" \in Consumers /\ "stderr" \in Consumers
      /\ \A c \in Consumers : c = "stdout" \/ c = "stderr"
  BY Zenon DEF Collecting
<1>1. CASE pc = "stdout" /\ Spawned("stdout") /\ pc' = "stderr" /\ UNCHANGED <<result, deadline, winner>>
  <2>1. \A c \in Consumers : call[c] = "none"
    BY Zenon, <1>1 DEF PlaceInv
  <2>2. CollectorsInv' /\ call' = [call EXCEPT !["stdout"] = "idle"] /\ UNCHANGED <<exit, outcome>>
    BY Zenon, <1>1, <1>c, <2>1, SpawnKeeps
  <2>3. call'["stdout"] = "idle" /\ call'["stderr"] = "none"
    BY <1>c, <2>1, <2>2 DEF CollectorsInv, CollectorTypes
  <2>4. CallTypes' /\ PlaceInv'
    BY Zenon, <1>1, <1>c, <2>3 DEF CallTypes, Places, PlaceInv
  <2>5. ResultInv'
    BY Zenon, <1>1, <2>2 DEF ResultInv, ErrorsAreReal, NoCollectorOutlivesCall, Returned
  <2> QED BY Zenon, <2>2, <2>4, <2>5
<1>2. CASE pc = "stdout" /\ pc' = "over" /\ result' = "start_failed"
           /\ UNCHANGED consumerVars /\ UNCHANGED <<deadline, winner>>
  <2> USE DEF consumerVars, taskVars, callVars
  <2>1. \A c \in Consumers : call[c] = "none" /\ task[c] = "none"
    BY Zenon, <1>2 DEF PlaceInv, CollectorsInv, LocalInv, GuardInv
  <2>2. CollectorTypes' /\ \A c \in Consumers : LocalInv(c)'
    BY Zenon, <1>2, LocalFrame DEF CollectorsInv, CollectorTypes
  <2>3. CallTypes' /\ PlaceInv'
    BY Zenon, <1>2, <2>1 DEF CallTypes, Places, Results, PlaceInv
  <2>4. ResultInv'
    BY Zenon, <1>2, <2>1 DEF ResultInv, ErrorsAreReal, NoCollectorOutlivesCall, Returned
  <2> QED BY Zenon, <2>2, <2>3, <2>4 DEF CollectorsInv
<1>3. CASE pc = "stderr" /\ Spawned("stderr") /\ pc' = "process" /\ UNCHANGED <<result, deadline, winner>>
  <2>1. call["stdout"] = "idle" /\ call["stderr"] = "none"
    BY Zenon, <1>3 DEF PlaceInv
  <2>2. CollectorsInv' /\ call' = [call EXCEPT !["stderr"] = "idle"] /\ UNCHANGED <<exit, outcome>>
    BY Zenon, <1>3, <1>c, <2>1, SpawnKeeps
  <2>3. \A c \in Consumers : call'[c] = "idle"
    BY <1>c, <2>1, <2>2 DEF CollectorsInv, CollectorTypes
  <2>4. CallTypes' /\ PlaceInv'
    BY Zenon, <1>3, <2>3 DEF CallTypes, Places, PlaceInv
  <2>5. ResultInv'
    BY Zenon, <1>3, <2>2 DEF ResultInv, ErrorsAreReal, NoCollectorOutlivesCall, Returned
  <2> QED BY Zenon, <2>2, <2>4, <2>5
<1>4. CASE pc = "stderr" /\ StderrRefused /\ result' = "start_failed"
           /\ UNCHANGED <<taskVars, timed, outcome>> /\ UNCHANGED <<deadline, winner>>
  <2>1. call["stdout"] = "idle" /\ call["stderr"] = "none" /\ handle["stdout"] = "held"
    BY Zenon, <1>4, <1>c DEF PlaceInv, CollectorsInv, LocalInv, GuardInv
  <2>2. /\ BeginAbort({"stdout"}) /\ pc' = "abort"
        /\ UNCHANGED <<stream, task, exit, handle, outcome>>
    BY Zenon, <1>4 DEF StderrRefused, taskVars
  <2>3. /\ CollectorsInv'
        /\ \A c \in Consumers : call'[c] = IF c \in {"stdout"} THEN "aborting" ELSE call[c]
    <3>1. \A c \in Consumers : c \in {"stdout"} => call[c] \notin {"none", "over"}
      BY Zenon, <2>1
    <3> QED BY Zenon, <2>2, <3>1, AbortKeeps
  <2>4. call'["stdout"] = "aborting" /\ call'["stderr"] = "none"
    BY Zenon, <1>c, <2>1, <2>3
  <2>5. CallTypes' /\ PlaceInv'
    BY Zenon, <1>4, <1>c, <2>1, <2>2, <2>4 DEF CallTypes, Places, Results, PlaceInv
  <2>6. ResultInv'
    BY Zenon, <1>4, <2>2 DEF ResultInv, ErrorsAreReal, NoCollectorOutlivesCall, Returned
  <2> QED BY Zenon, <2>3, <2>5, <2>6
<1> QED BY Zenon, <1>1, <1>2, <1>3, <1>4 DEF SubscribeStdout, SubscribeStderr

\* The wait for the process ends, times out or fails.
LEMMA ProcessKeepsIInv == ASSUME IInv, Process PROVE IInv'
<1> USE DEF IInv
<1>1. /\ pc = "process" /\ result = "none" /\ UNCHANGED <<stream, task, exit, outcome>>
      /\ \A c \in Consumers : /\ call[c] = "idle" /\ handle[c] = "held" /\ term[c] = "held"
                              /\ ~aborting[c] /\ outcome[c] = "none" /\ task[c] # "none"
  <2>1. pc = "process" /\ UNCHANGED <<stream, task, exit, outcome>>
    BY Zenon DEF Process, ProcessEnds, ProcessTimesOut, ProcessWaitFails, taskVars
  <2>2. result = "none" /\ \A c \in Consumers : call[c] = "idle"
    BY Zenon, <2>1 DEF PlaceInv, ResultInv
  <2> QED BY Zenon, <2>1, <2>2 DEF CollectorsInv, LocalInv, GuardInv
<1>2. CASE ProcessEnds
  <2>1. /\ pc' = "drain" /\ deadline' = "ahead" /\ UNCHANGED <<aborting, term, handle, winner, result>>
        /\ call' = [c \in Consumers |-> "waiting"]
    BY Zenon, <1>2 DEF ProcessEnds
  <2>2. CollectorTypes'
    BY Zenon, <1>1, <2>1 DEF CollectorsInv, CollectorTypes
  <2>3. ASSUME NEW c \in Consumers PROVE LocalInv(c)'
    <3>1. TaskInv(c) /\ GuardInv(c)
      BY Zenon DEF CollectorsInv, LocalInv
    <3>2. TaskInv(c)'
      BY Zenon, <1>1, <2>1, <3>1 DEF TaskInv
    <3>3. call'[c] = "waiting"
      BY Zenon, <2>1
    <3>4. GuardInv(c)'
      BY Zenon, <1>1, <2>1, <3>1, <3>3 DEF GuardInv
    <3> QED BY Zenon, <3>2, <3>4 DEF LocalInv
  <2>4. CallTypes' /\ PlaceInv'
    BY Zenon, <1>1, <2>1 DEF CallTypes, Places, PlaceInv
  <2>5. ResultInv'
    BY Zenon, <1>1, <2>1 DEF ResultInv, ErrorsAreReal, NoCollectorOutlivesCall, Returned
  <2> QED BY Zenon, <2>2, <2>3, <2>4, <2>5 DEF CollectorsInv
<1>3. CASE ProcessTimesOut
  <2>1. /\ BeginAbort(Consumers) /\ pc' = "abort" /\ result' = "process_timeout"
        /\ UNCHANGED <<handle, deadline, winner>>
    BY Zenon, <1>3 DEF ProcessTimesOut
  <2>2. CollectorsInv' /\ \A c \in Consumers : call'[c] = "aborting"
    <3>1. \A c \in Consumers : c \in Consumers => call[c] \notin {"none", "over"}
      BY Zenon, <1>1
    <3> QED BY Zenon, <1>1, <2>1, <3>1, AbortKeeps
  <2>3. CallTypes' /\ PlaceInv'
    BY Zenon, <1>1, <2>1, <2>2 DEF CallTypes, Places, Results, PlaceInv
  <2>4. ResultInv'
    BY Zenon, <1>1, <2>1 DEF ResultInv, ErrorsAreReal, NoCollectorOutlivesCall, Returned
  <2> QED BY Zenon, <2>2, <2>3, <2>4
<1>4. CASE ProcessWaitFails
  <2>1. /\ Dropped(Consumers) /\ pc' = "over" /\ result' = "wait_failed"
        /\ UNCHANGED <<deadline, winner>>
    BY Zenon, <1>4 DEF ProcessWaitFails
  <2>2. CollectorsInv'
    <3>1. \A c \in Consumers : c \in Consumers => call[c] # "none"
      BY Zenon, <1>1
    <3> QED BY Zenon, <1>1, <2>1, <3>1, DropKeeps
  <2>3. CallTypes' /\ PlaceInv'
    BY Zenon, <1>1, <2>1 DEF CallTypes, Places, Results, PlaceInv
  <2>4. ResultInv'
    BY Zenon, <1>1, <2>1 DEF ResultInv, ErrorsAreReal, NoCollectorOutlivesCall, Returned
  <2> QED BY Zenon, <2>2, <2>3, <2>4
<1> QED BY Zenon, <1>2, <1>3, <1>4 DEF Process

\* The collectors that are polled are the two of the drain, or the sibling of the
\* one that has been collected.
LEMMA PolledPlace ==
  ASSUME Collecting, IInv, NEW c \in Consumers, c \in Polled
  PROVE  pc = "drain" \/ (pc = "rest" /\ c # winner)
<1>1. CASE pc = "drain"
  BY Zenon, <1>1
<1>2. CASE pc = "rest"
  <2>1. Polled = {Other(winner)}
    BY Zenon, <1>2 DEF Polled
  <2>2. winner \in Consumers
    BY Zenon, <1>2 DEF IInv, PlaceInv
  <2> QED BY Zenon, <1>2, <2>1, <2>2, TwoCollectors
<1>3. CASE pc \notin {"drain", "rest"}
  BY Zenon, <1>3 DEF Polled
<1> QED BY Zenon, <1>1, <1>2, <1>3

\* A poll joins the task, starts its abort or ends it.
LEMMA PollKeepsIInv ==
  ASSUME Collecting, IInv, NEW c \in Consumers, PollJoin(c) \/ PollDeadline(c) \/ PollAbort(c)
  PROVE  IInv'
<1> USE DEF IInv
<1>1. UNCHANGED <<pc, deadline, winner, result>>
  BY Zenon DEF PollJoin, PollDeadline, PollAbort
<1>2. CallTypes'
  BY Zenon, <1>1 DEF CallTypes
<1>3. CASE PollJoin(c)
  <2>1. pc = "drain" \/ (pc = "rest" /\ c # winner)
    BY Zenon, <1>3, PolledPlace DEF PollJoin
  <2>2. /\ CollectorsInv' /\ UNCHANGED <<stream, task, exit>>
        /\ call' = [call EXCEPT ![c] = "joined"]
        /\ outcome'[c] \in {"whole", "read_error", "join_error"}
        /\ \A d \in Consumers \ {c} : handle'[d] = handle[d] /\ outcome'[d] = outcome[d]
    BY Zenon, <1>3, JoinKeeps DEF PollJoin
  <2>3. call'[c] = "joined" /\ \A d \in Consumers \ {c} : call'[d] = call[d]
    BY <2>2 DEF CollectorsInv, CollectorTypes
  <2>4. PlaceInv'
    BY <1>1, <2>1, <2>2, <2>3 DEF PlaceInv
  <2>5. ResultInv'
    BY Zenon, <1>1, <2>1, <2>2 DEF ResultInv, ErrorsAreReal, NoCollectorOutlivesCall, Returned
  <2> QED BY Zenon, <1>2, <2>2, <2>4, <2>5
<1>4. CASE PollDeadline(c)
  <2>1. /\ pc = "drain" \/ (pc = "rest" /\ c # winner)
        /\ deadline = "passed" /\ call[c] = "waiting" /\ BeginAbort({c})
        /\ UNCHANGED <<stream, task, exit, handle, outcome>>
    BY Zenon, <1>4, PolledPlace DEF PollDeadline, DeadlinePasses, taskVars
  <2>2. /\ CollectorsInv'
        /\ \A d \in Consumers : call'[d] = IF d \in {c} THEN "aborting" ELSE call[d]
    <3>1. \A d \in Consumers : d \in {c} => call[d] \notin {"none", "over"}
      BY Zenon, <2>1
    <3> QED BY Zenon, <2>1, <3>1, AbortKeeps
  <2>3. call'[c] = "aborting" /\ \A d \in Consumers \ {c} : call'[d] = call[d]
    BY Zenon, <2>2
  <2>4. PlaceInv'
    BY Zenon, <1>1, <2>1, <2>3 DEF PlaceInv
  <2>5. ResultInv'
    BY Zenon, <1>1, <2>1 DEF ResultInv, ErrorsAreReal, NoCollectorOutlivesCall, Returned
  <2> QED BY Zenon, <1>2, <2>2, <2>4, <2>5
<1>5. CASE PollAbort(c)
  <2>1. pc = "drain" \/ (pc = "rest" /\ c # winner) \/ pc = "abort"
    BY Zenon, <1>5, PolledPlace DEF PollAbort
  <2>2. /\ CollectorsInv' /\ UNCHANGED <<stream, task, exit>> /\ call[c] = "aborting"
        /\ call' = [call EXCEPT ![c] = "joined"]
        /\ outcome' = [outcome EXCEPT ![c] = "aborted"]
        /\ \A d \in Consumers \ {c} : handle'[d] = handle[d]
    BY Zenon, <1>5, AbortJoinKeeps DEF PollAbort, taskVars
  <2>3. /\ call'[c] = "joined" /\ \A d \in Consumers \ {c} : call'[d] = call[d]
        /\ \A d \in Consumers \ {c} : outcome'[d] = outcome[d]
    BY <2>2 DEF CollectorsInv, CollectorTypes
  <2>4. PlaceInv'
    <3>1. pc = "abort" => \A d \in Consumers :
            /\ call'[d] \in {"none", "aborting", "joined"}
            /\ call'[d] = "aborting" /\ handle'[d] = "spent" => call'[Other(d)] = "joined"
      <4> SUFFICES ASSUME pc = "abort", NEW d \in Consumers
                   PROVE  /\ call'[d] \in {"none", "aborting", "joined"}
                          /\ call'[d] = "aborting" /\ handle'[d] = "spent" =>
                               call'[Other(d)] = "joined"
        BY Zenon
      <4>1. Other(d) \in Consumers
        BY Zenon, TwoCollectors
      <4> QED BY <2>2, <2>3, <4>1 DEF PlaceInv
    <3>2. \A d \in Consumers : Other(d)' = Other(d)
      BY Zenon DEF Other
    <3> QED BY <1>1, <2>1, <2>2, <2>3, <3>1, <3>2 DEF PlaceInv
  <2>5. ResultInv'
    BY Zenon, <1>1, <2>1, <2>2 DEF ResultInv, ErrorsAreReal, NoCollectorOutlivesCall, Returned
  <2> QED BY Zenon, <1>2, <2>2, <2>4, <2>5
<1> QED BY Zenon, <1>3, <1>4, <1>5

\* A step that moves the call and leaves the collectors alone.
LEMMA CollectorsFrame == ASSUME CollectorsInv, UNCHANGED consumerVars PROVE CollectorsInv'
<1> USE DEF consumerVars, taskVars, callVars
<1>1. CollectorTypes'
  BY Zenon DEF CollectorsInv, CollectorTypes
<1>2. \A d \in Consumers : LocalInv(d)'
  BY Zenon, LocalFrame DEF CollectorsInv
<1> QED BY Zenon, <1>1, <1>2 DEF CollectorsInv

\* The select takes the first wait to resolve; after a time-out it polls the other.
LEMMA FirstKeepsIInv == ASSUME Collecting, IInv, NEW c \in Consumers, FirstResolves(c) PROVE IInv'
<1> USE DEF IInv
<1>1. /\ pc = "drain" /\ call[c] = "joined" /\ winner' = c /\ deadline' = deadline
      /\ \A d \in Consumers : call[d] \in {"waiting", "aborting", "joined"}
  BY Zenon DEF FirstResolves, PlaceInv
<1>2. /\ outcome[c] = "read_error" => exit[c] = "read_error"
      /\ outcome[c] = "join_error" => exit[c] = "panicked"
      /\ outcome[c] \in {"none", "whole", "read_error", "join_error", "aborted"}
  BY Zenon DEF CollectorsInv, CollectorTypes, LocalInv, GuardInv
<1>3. CASE outcome[c] \in {"whole", "broke", "stopped"} /\ FirstSink /\ UNCHANGED consumerVars
  <2>1. CollectorsInv'
    BY Zenon, <1>3, CollectorsFrame
  <2>2. pc' = "rest" /\ result' = result /\ outcome[c] = "whole" /\ UNCHANGED <<call, outcome, exit>>
    BY Zenon, <1>2, <1>3 DEF FirstSink, consumerVars, taskVars, callVars
  <2>3. CallTypes' /\ PlaceInv'
    BY Zenon, <1>1, <2>2 DEF CallTypes, Places, PlaceInv
  <2>4. ResultInv'
    BY Zenon, <1>1, <2>2 DEF ResultInv, ErrorsAreReal, NoCollectorOutlivesCall, Returned
  <2> QED BY Zenon, <2>1, <2>3, <2>4
<1>4. CASE /\ outcome[c] \in {"read_error", "join_error"}
           /\ pc' = "sibling" /\ result' = "collection" /\ UNCHANGED consumerVars
  <2>1. CollectorsInv'
    BY Zenon, <1>4, CollectorsFrame
  <2>2. UNCHANGED <<call, outcome, exit>>
    BY Zenon, <1>4 DEF consumerVars, taskVars, callVars
  <2>3. CallTypes' /\ PlaceInv'
    BY Zenon, <1>1, <1>4, <2>2 DEF CallTypes, Places, Results, PlaceInv
  <2>4. ResultInv'
    BY Zenon, <1>1, <1>2, <1>4, <2>2 DEF ResultInv, ErrorsAreReal, NoCollectorOutlivesCall, Returned
  <2> QED BY Zenon, <2>1, <2>3, <2>4
<1>5. CASE outcome[c] = "aborted" /\ TakeReadyError(Other(c)) /\ pc' = "sibling"
  <2> DEFINE o == Other(c)
  <2>1. o \in Consumers /\ o # c /\ deadline = "passed"
    BY Zenon, <1>1, <1>5, TwoCollectors DEF PlaceInv
  <2> HIDE DEF o
  <2>2. CASE /\ Join(o)
             /\ result' = IF outcome'[o] \in {"read_error", "join_error"} THEN "collection" ELSE "timeout"
    <3>1. /\ CollectorsInv' /\ UNCHANGED <<stream, task, exit>>
          /\ call' = [call EXCEPT ![o] = "joined"]
      BY Zenon, <2>1, <2>2, JoinKeeps
    <3>2. call'[c] = "joined" /\ \A d \in Consumers : call'[d] \in {"waiting", "aborting", "joined"}
      BY <1>1, <2>1, <3>1 DEF CollectorsInv, CollectorTypes
    <3>3. CallTypes' /\ PlaceInv'
      BY Zenon, <1>1, <1>5, <2>2, <3>2 DEF CallTypes, Places, Results, PlaceInv
    <3>4. /\ outcome'[o] = "read_error" => exit'[o] = "read_error"
          /\ outcome'[o] = "join_error" => exit'[o] = "panicked"
      BY Zenon, <2>1, <3>1 DEF CollectorsInv, LocalInv, GuardInv
    <3>5. ResultInv'
      BY Zenon, <1>1, <1>5, <2>1, <2>2, <3>4 DEF ResultInv, ErrorsAreReal, NoCollectorOutlivesCall, Returned
    <3> QED BY Zenon, <3>1, <3>3, <3>5
  <2>3. CASE call[o] = "waiting" /\ DeadlinePasses(o) /\ result' = "timeout"
    <3>1. BeginAbort({o}) /\ UNCHANGED <<stream, task, exit, handle, outcome>>
      BY Zenon, <2>3 DEF DeadlinePasses, taskVars
    <3>2. /\ CollectorsInv'
          /\ \A d \in Consumers : call'[d] = IF d \in {o} THEN "aborting" ELSE call[d]
      <4>1. \A d \in Consumers : d \in {o} => call[d] \notin {"none", "over"}
        BY Zenon, <2>3
      <4> QED BY Zenon, <3>1, <4>1, AbortKeeps
    <3>3. call'[c] = "joined" /\ \A d \in Consumers : call'[d] \in {"waiting", "aborting", "joined"}
      BY Zenon, <1>1, <2>1, <3>2
    <3>4. CallTypes' /\ PlaceInv'
      BY Zenon, <1>1, <1>5, <2>3, <3>3 DEF CallTypes, Places, Results, PlaceInv
    <3>5. ResultInv'
      BY Zenon, <1>1, <1>5, <2>1, <2>3 DEF ResultInv, ErrorsAreReal, NoCollectorOutlivesCall, Returned
    <3> QED BY Zenon, <3>2, <3>4, <3>5
  <2>4. CASE call[o] = "aborting" /\ result' = "timeout" /\ UNCHANGED consumerVars
    <3>1. CollectorsInv' /\ call' = call
      BY Zenon, <2>4, CollectorsFrame DEF consumerVars, callVars
    <3>2. CallTypes' /\ PlaceInv'
      BY Zenon, <1>1, <1>5, <2>4, <3>1 DEF CallTypes, Places, Results, PlaceInv
    <3>3. ResultInv'
      BY Zenon, <1>1, <1>5, <2>1, <2>4 DEF ResultInv, ErrorsAreReal, NoCollectorOutlivesCall, Returned
    <3> QED BY Zenon, <3>1, <3>2, <3>3
  <2> QED BY Zenon, <1>5, <2>2, <2>3, <2>4 DEF TakeReadyError, o
<1> QED BY Zenon, <1>3, <1>4, <1>5 DEF FirstResolves

\* drain_remaining_consumer.
LEMMA RestKeepsIInv == ASSUME Collecting, IInv, RestResolves PROVE IInv'
<1> USE DEF IInv
<1> DEFINE o == Other(winner)
<1>1. /\ pc = "rest" /\ call[o] = "joined" /\ pc' = "return"
      /\ UNCHANGED <<consumerVars, deadline, winner>>
      /\ outcome[o] = "aborted" => result' = "timeout"
      /\ outcome[o] \in {"read_error", "join_error"} => result' = "collection"
      /\ outcome[o] \notin {"aborted", "read_error", "join_error"} => result' = "ok"
  BY Zenon DEF RestResolves
<1>2. /\ winner \in Consumers /\ call[winner] = "joined" /\ outcome[winner] = "whole"
      /\ o \in Consumers /\ o # winner /\ \A d \in Consumers : d = winner \/ d = o
      /\ outcome[o] = "aborted" => deadline = "passed"
  BY Zenon, <1>1, TwoCollectors DEF PlaceInv
<1> HIDE DEF o
<1>3. /\ task[winner] = "done" /\ task[o] = "done" /\ outcome[o] # "none"
      /\ outcome[o] = "read_error" => exit[o] = "read_error"
      /\ outcome[o] = "join_error" => exit[o] = "panicked"
      /\ outcome[o] \in {"none", "whole", "read_error", "join_error", "aborted"}
  BY Zenon, <1>1, <1>2 DEF CollectorsInv, CollectorTypes, LocalInv, GuardInv
<1>4. CollectorsInv' /\ UNCHANGED <<task, exit, outcome, call>>
  BY Zenon, <1>1, CollectorsFrame DEF consumerVars, taskVars, callVars
<1>5. result' \in {"timeout", "collection", "ok"}
  BY Zenon, <1>1
<1>6. CallTypes'
  BY Zenon, <1>1, <1>5 DEF CallTypes, Places, Results
<1>7. PlaceInv'
  BY Zenon, <1>1, <1>2, <1>3, <1>4 DEF PlaceInv
<1>8. ErrorsAreReal'
  BY Zenon, <1>1, <1>2, <1>3, <1>4, <1>5 DEF ErrorsAreReal
<1>9. result' = "ok" => \A c \in Consumers : outcome'[c] = "whole"
  BY Zenon, <1>1, <1>2, <1>3, <1>4
<1>10. ResultInv'
  BY Zenon, <1>1, <1>8, <1>9 DEF ResultInv, NoCollectorOutlivesCall, Returned
<1> QED BY Zenon, <1>4, <1>6, <1>7, <1>10

\* The sibling is aborted.
LEMMA SiblingKeepsIInv == ASSUME Collecting, IInv, AbortSibling PROVE IInv'
<1> USE DEF IInv
<1> DEFINE o == Other(winner)
<1>1. /\ pc = "sibling" /\ pc' = "abort" /\ BeginAbort({o})
      /\ UNCHANGED <<stream, task, exit, handle, outcome, deadline, winner, result>>
  BY Zenon DEF AbortSibling, taskVars
<1>2. /\ winner \in Consumers /\ call[winner] = "joined"
      /\ \A d \in Consumers : call[d] \in {"waiting", "aborting", "joined"}
      /\ o \in Consumers /\ o # winner /\ \A d \in Consumers : d = winner \/ d = o
  BY Zenon, <1>1, TwoCollectors DEF PlaceInv
<1>o. Other(o) = winner
  BY Zenon, <1>2, TwoCollectors
<1> HIDE DEF o
<1>3. /\ CollectorsInv'
      /\ \A d \in Consumers : call'[d] = IF d \in {o} THEN "aborting" ELSE call[d]
  <2>1. \A d \in Consumers : d \in {o} => call[d] \notin {"none", "over"}
    BY Zenon, <1>2
  <2> QED BY Zenon, <1>1, <2>1, AbortKeeps
<1>4. call'[o] = "aborting" /\ call'[winner] = "joined"
  BY Zenon, <1>2, <1>3
<1>5. CallTypes'
  BY Zenon, <1>1 DEF CallTypes, Places
<1>6. PlaceInv'
  <2>1. \A d \in Consumers : Other(d)' = Other(d)
    BY Zenon DEF Other
  <2> QED BY Zenon, <1>1, <1>2, <1>4, <1>o, <2>1 DEF PlaceInv
<1>7. ResultInv'
  BY Zenon, <1>1 DEF ResultInv, ErrorsAreReal, NoCollectorOutlivesCall, Returned
<1> QED BY Zenon, <1>3, <1>5, <1>6, <1>7

\* The aborts are over, or one of them awaits a JoinHandle a second time.
LEMMA AbortedKeepsIInv ==
  ASSUME Collecting, IInv, Aborted \/ \E c \in Consumers : AbortPanics(c)
  PROVE  IInv'
<1> USE DEF IInv
<1>1. /\ pc = "abort" /\ pc' = "return" /\ UNCHANGED <<consumerVars, deadline, winner>>
      /\ result' = result \/ result' = "panic"
  BY Zenon DEF Aborted, AbortPanics
<1>2. CollectorsInv' /\ UNCHANGED <<task, exit, outcome, call>>
  BY Zenon, <1>1, CollectorsFrame DEF consumerVars, taskVars, callVars
<1>3. \A d \in Consumers : task[d] \in {"none", "done"}
  <2>1. \A d \in Consumers :
          /\ call[d] \in {"none", "aborting", "joined"}
          /\ call[d] = "none" => task[d] = "none"
          /\ call[d] = "joined" => task[d] = "done"
          /\ handle[d] = "spent" /\ call[d] = "aborting" => task[d] = "done"
    BY Zenon, <1>1 DEF PlaceInv, CollectorsInv, LocalInv, GuardInv
  <2>2. CASE Aborted
    BY Zenon, <2>1, <2>2 DEF Aborted
  <2>3. ASSUME NEW c \in Consumers, AbortPanics(c) PROVE \A d \in Consumers : task[d] = "done"
    <3>1. call[c] = "aborting" /\ handle[c] = "spent"
      BY Zenon, <2>3 DEF AbortPanics
    <3>2. call[Other(c)] = "joined"
      BY Zenon, <1>1, <3>1 DEF PlaceInv
    <3> QED BY Zenon, <2>1, <3>1, <3>2, TwoCollectors
  <2> QED BY Zenon, <2>2, <2>3
<1>4. CallTypes' /\ PlaceInv'
  BY Zenon, <1>1, <1>2, <1>3 DEF CallTypes, Places, Results, PlaceInv
<1>5. ResultInv'
  BY Zenon, <1>1, <1>2 DEF ResultInv, ErrorsAreReal, NoCollectorOutlivesCall, Returned
<1> QED BY Zenon, <1>2, <1>4, <1>5

\* The call returns, or its future is dropped.
LEMMA EndKeepsIInv == ASSUME IInv, ReturnResult \/ DropFuture PROVE IInv'
<1> USE DEF IInv
<1> DEFINE S == {c \in Consumers : call[c] # "none"}
<1>1. /\ pc' = "over" /\ Dropped(S)
      /\ UNCHANGED <<stream, task, exit, outcome, deadline, winner>>
      /\ \/ pc = "return" /\ result' = result
         \/ result' = "dropped"
  BY Zenon DEF ReturnResult, DropFuture, taskVars
<1>2. CollectorsInv'
  <2>1. \A c \in Consumers : c \in S => call[c] # "none"
    BY Zenon
  <2> HIDE DEF S
  <2> QED BY Zenon, <1>1, <2>1, DropKeeps
<1>3. CallTypes' /\ PlaceInv'
  BY Zenon, <1>1 DEF CallTypes, Places, Results, PlaceInv
<1>4. ResultInv'
  BY Zenon, <1>1 DEF ResultInv, ErrorsAreReal, NoCollectorOutlivesCall, Returned, PlaceInv
<1> QED BY Zenon, <1>2, <1>3, <1>4

-----------------------------------------------------------------------------
(* Theorems *)

\* The inductive invariant holds, whichever collector wins the select and whenever
\* the deadline passes or the caller drops the future.
THEOREM DrainInvariant == DrainSpec => []IInv
<1>1. DrainInit => IInv
  <2> SUFFICES ASSUME DrainInit PROVE IInv
    BY Zenon
  <2>1. aborting \in [Consumers -> BOOLEAN] /\ \A c \in Consumers : ~aborting[c]
    BY Zenon DEF DrainInit
  <2>2. CollectorTypes
    BY Zenon, <2>1 DEF DrainInit, CollectorTypes, Exits
  <2>3. \A c \in Consumers : LocalInv(c)
    BY Zenon, <2>1 DEF DrainInit, LocalInv, TaskInv, GuardInv
  <2>4. CallTypes /\ PlaceInv
    BY Zenon DEF DrainInit, CallTypes, Places, Results, PlaceInv
  <2>5. ResultInv
    BY Zenon DEF DrainInit, ResultInv, ErrorsAreReal, NoCollectorOutlivesCall, Returned
  <2> QED BY Zenon, <2>2, <2>3, <2>4, <2>5 DEF IInv, CollectorsInv
<1>2. DrainInit => Collecting
  BY Zenon DEF DrainInit
<1>3. Collecting /\ IInv /\ [DrainNext]_drainVars => IInv'
  <2> SUFFICES ASSUME Collecting, IInv, [DrainNext]_drainVars PROVE IInv'
    BY Zenon
  <2>1. CASE Call
    <3>1. CASE \E c \in Consumers : \/ PollJoin(c) \/ PollDeadline(c) \/ PollAbort(c)
                                    \/ FirstResolves(c) \/ AbortPanics(c)
      BY Zenon, <3>1, PollKeepsIInv, FirstKeepsIInv, AbortedKeepsIInv
    <3> QED BY Zenon, <2>1, <3>1, StartKeepsIInv, RestKeepsIInv, SiblingKeepsIInv, AbortedKeepsIInv,
               EndKeepsIInv DEF Call
  <2>2. CASE Process \/ DropFuture
    BY Zenon, <2>2, ProcessKeepsIInv, EndKeepsIInv
  <2>3. CASE \E c \in Consumers : Tasks(c) \/ Environment(c)
    BY Zenon, <2>3, TasksKeepIInv
  <2>4. CASE DeadlineElapses \/ UNCHANGED drainVars
    <3>1. /\ UNCHANGED <<consumerVars, pc, winner, result>>
          /\ deadline' = deadline \/ (deadline = "ahead" /\ deadline' = "passed")
      BY Zenon, <2>4 DEF DeadlineElapses, drainVars
    <3>2. CollectorsInv' /\ UNCHANGED <<task, exit, handle, call, outcome>>
      BY Zenon, <3>1, CollectorsFrame DEF IInv, consumerVars, taskVars, callVars
    <3>3. CallTypes'
      BY Zenon, <3>1 DEF IInv, CallTypes
    <3>4. PlaceInv'
      <4>1. \A d \in Consumers : Other(d)' = Other(d)
        BY Zenon DEF Other
      <4> QED BY Zenon, <3>1, <3>2, <4>1 DEF IInv, PlaceInv
    <3>5. ResultInv'
      BY Zenon, <3>1, <3>2 DEF IInv, ResultInv, ErrorsAreReal, NoCollectorOutlivesCall, Returned
    <3> QED BY Zenon, <3>2, <3>3, <3>4, <3>5 DEF IInv
  <2> QED BY Zenon, <2>1, <2>2, <2>3, <2>4 DEF DrainNext, DrainOver
<1>4. Collecting => Collecting'
  BY Zenon DEF Collecting
<1> QED BY <1>1, <1>2, <1>3, <1>4, PTL DEF DrainSpec

\* On every path on which the call returns a result, both collectors have ended:
\* a failed start, a time-out, a failed sibling, even the panic of a second await.
THEOREM CollectorsEndFirst == DrainSpec => []NoCollectorOutlivesCall
<1>1. IInv => NoCollectorOutlivesCall
  BY Zenon DEF IInv, ResultInv
<1> QED BY <1>1, DrainInvariant, PTL

\* The call returns output as complete only when both collectors have seen the end
\* of their streams: a collector that was told to stop never counts as drained.
THEOREM CompleteOutput == DrainSpec => []OutputIsWhole
<1>1. IInv => OutputIsWhole
  BY Zenon DEF IInv, ResultInv, OutputIsWhole, CollectorsInv, LocalInv, TaskInv, GuardInv
<1> QED BY <1>1, DrainInvariant, PTL

\* The drain reports a time-out only past the deadline and a collection error only
\* when a collector failed by itself, although aborting one makes its task fail too.
THEOREM RealErrors == DrainSpec => []ErrorsAreReal
<1>1. IInv => ErrorsAreReal
  BY Zenon DEF IInv, ResultInv
<1> QED BY <1>1, DrainInvariant, PTL

-----------------------------------------------------------------------------
(* The handle: any set of consumers, with visitors that break off or not *)

TypeInv ==
  /\ stream \in [Consumers -> {"open", "eof", "error"}]
  /\ task \in [Consumers -> {"none", "polling", "visiting", "finishing", "done"}]
  /\ exit \in [Consumers -> Exits]
  /\ aborting \in [Consumers -> BOOLEAN]
  /\ term \in [Consumers -> {"held", "taken"}]
  /\ handle \in [Consumers -> {"none", "held", "spent", "gone"}]
  /\ call \in [Consumers -> {"none", "idle", "waiting", "aborting", "joined", "over"}]
  /\ timed \in [Consumers -> BOOLEAN]
  /\ outcome \in [Consumers -> Exits \cup {"join_error", "aborted"}]
  /\ op \in [Consumers -> {"none", "wait", "cancel", "abort", "drop"}]

\* A task that got to on_eof has seen the end, and one that stopped was told to.
HandledTaskInv(c) ==
  /\ task[c] = "finishing" \/ exit[c] = "whole" => stream[c] = "eof"
  /\ exit[c] = "stopped" => term[c] = "taken"

\* Until a call has joined the task it holds the JoinHandle and has nothing to
\* return, and it has joined the task before it returns.
CallInv(c) ==
  /\ call[c] \in {"idle", "waiting", "aborting"} => handle[c] = "held" /\ outcome[c] = "none"
  /\ call[c] = "joined" => task[c] = "done"
  /\ call[c] = "over" /\ op[c] # "drop" => task[c] = "done"
  /\ call[c] = "idle" => op[c] = "none" /\ term[c] = "held" /\ ~timed[c]

\* A wait has no deadline and keeps the termination sender until it has joined.
WaitInv(c) ==
  op[c] = "wait" =>
    /\ ~timed[c] /\ call[c] \in {"waiting", "joined", "over"}
    /\ call[c] = "waiting" => term[c] = "held"
    /\ outcome[c] \notin {"stopped", "aborted"}
    /\ outcome[c] = "whole" => stream[c] = "eof"

HandledInv(c) == HandledTaskInv(c) /\ CallInv(c) /\ WaitInv(c)

HandleInv == TypeInv /\ \A c \in Consumers : HandledInv(c)

-----------------------------------------------------------------------------
(* The steps of a consumer and of its handle *)

\* What the invariant says of a consumer depends only on its own state.
LEMMA HandledFrame ==
  ASSUME NEW d \in Consumers, HandledInv(d),
         stream'[d] = stream[d], task'[d] = task[d], exit'[d] = exit[d],
         term'[d] = term[d], handle'[d] = handle[d], call'[d] = call[d],
         timed'[d] = timed[d], outcome'[d] = outcome[d], op'[d] = op[d]
  PROVE  HandledInv(d)'
  BY Zenon DEF HandledInv, HandledTaskInv, CallInv, WaitInv

\* Signalling the tasks in S leaves the abort flags Boolean.
LEMMA AbortingTyped ==
  ASSUME NEW S, BeginAbort(S) \/ Dropped(S)
  PROVE  aborting' \in [Consumers -> BOOLEAN]
  BY Zenon DEF BeginAbort, Dropped

\* A step of the stream, of the task or of its visitor.
LEMMA TaskKeepsHandleInv ==
  ASSUME HandleInv, NEW c \in Consumers, UNCHANGED op,
         StreamEnds(c) \/ TaskStep(c) \/ VisitorStep(c)
  PROVE  HandleInv'
<1> USE DEF callVars
<1>1. /\ UNCHANGED callVars
      /\ stream' \in [Consumers -> {"open", "eof", "error"}]
      /\ task' \in [Consumers -> {"none", "polling", "visiting", "finishing", "done"}]
      /\ exit' \in [Consumers -> Exits]
      /\ \A d \in Consumers \ {c} : /\ stream'[d] = stream[d] /\ task'[d] = task[d]
                                    /\ exit'[d] = exit[d]
  BY SMTT(60) DEF HandleInv, TypeInv, StreamEnds, TaskStep, VisitorStep,
                  TakeEnd, Finish, TakeTermination, TaskAborted,
                  TakeChunk, VisitorReturns, VisitorPanics, Exit,
                  Exits
<1>2. TypeInv'
  BY Zenon, <1>1 DEF HandleInv, TypeInv
<1>3. \A d \in Consumers \ {c} : HandledInv(d)'
  BY Zenon, <1>1, HandledFrame DEF HandleInv
<1>4. /\ stream[c] # "open" => stream'[c] = stream[c]
      /\ task'[c] = "finishing" => task[c] = "finishing" \/ stream[c] = "eof"
      /\ exit'[c] = "whole" => exit[c] = "whole" \/ task[c] = "finishing"
      /\ exit'[c] = "stopped" => exit[c] = "stopped" \/ term[c] = "taken"
      /\ task[c] = "done" => task'[c] = "done"
  BY SMTT(60) DEF HandleInv, TypeInv, StreamEnds, TaskStep, VisitorStep,
                  TakeEnd, Finish, TakeTermination, TaskAborted,
                  TakeChunk, VisitorReturns, VisitorPanics, Exit,
                  Exits
<1>5. HandledInv(c)'
  <2>1. HandledTaskInv(c)'
    BY Zenon, <1>1, <1>4 DEF HandleInv, HandledInv, HandledTaskInv
  <2>2. CallInv(c)'
    BY Zenon, <1>1, <1>4 DEF HandleInv, HandledInv, CallInv
  <2>3. WaitInv(c)'
    BY Zenon, <1>1, <1>4 DEF HandleInv, HandledInv, WaitInv
  <2> QED BY Zenon, <2>1, <2>2, <2>3 DEF HandledInv
<1> QED BY Zenon, <1>2, <1>3, <1>5 DEF HandleInv

\* An operation called on the handle.
LEMMA BeginKeepsHandleInv ==
  ASSUME HandleInv, NEW c \in Consumers,
         Wait(c) \/ Cancel(c) \/ Abort(c) \/ Drop(c)
  PROVE  HandleInv'
<1> USE DEF taskVars
<1>1. /\ UNCHANGED <<stream, task, exit, outcome>>
      /\ term' \in [Consumers -> {"held", "taken"}]
      /\ handle' \in [Consumers -> {"none", "held", "spent", "gone"}]
      /\ call' \in [Consumers -> {"none", "idle", "waiting", "aborting", "joined", "over"}]
      /\ op' \in [Consumers -> {"none", "wait", "cancel", "abort", "drop"}]
      /\ \A d \in Consumers \ {c} : /\ term'[d] = term[d] /\ handle'[d] = handle[d]
                                    /\ call'[d] = call[d] /\ op'[d] = op[d]
  BY SMTT(60) DEF HandleInv, TypeInv, Wait, Cancel, Abort, Drop,
                  BeginAbort, Dropped
<1>2. /\ aborting' \in [Consumers -> BOOLEAN] /\ timed' \in [Consumers -> BOOLEAN]
      /\ \A d \in Consumers \ {c} : timed'[d] = timed[d]
  <2>1. aborting' = aborting \/ BeginAbort({c}) \/ Dropped({c})
    BY Zenon DEF Wait, Cancel, Abort, Drop
  <2>2. timed' = timed \/ timed' = [timed EXCEPT ![c] = TRUE]
    BY Zenon DEF Wait, Cancel, Abort, Drop
  <2>3. timed \in [Consumers -> BOOLEAN] /\ aborting \in [Consumers -> BOOLEAN]
    BY Zenon DEF HandleInv, TypeInv
  <2>4. aborting' \in [Consumers -> BOOLEAN]
    BY Zenon, <2>1, <2>3, AbortingTyped
  <2>5. timed' \in [Consumers -> BOOLEAN] /\ \A d \in Consumers \ {c} : timed'[d] = timed[d]
    BY Zenon, <2>2, <2>3
  <2> QED BY Zenon, <2>4, <2>5
<1>3. TypeInv'
  BY Zenon, <1>1, <1>2 DEF HandleInv, TypeInv
<1>4. \A d \in Consumers \ {c} : HandledInv(d)'
  BY Zenon, <1>1, <1>2, HandledFrame DEF HandleInv
<1>5. HandledInv(c)
  BY Zenon DEF HandleInv
<1>6. CASE Wait(c)
  <2>1. /\ op'[c] = "wait" /\ call'[c] = "waiting" /\ term[c] = "held" /\ term'[c] = "held"
        /\ handle'[c] = "held" /\ outcome'[c] = "none"
    BY Zenon, <1>5, <1>6 DEF HandleInv, TypeInv, HandledInv, CallInv, Wait
  <2>2. ~timed'[c]
    BY Zenon, <1>5, <1>6 DEF HandledInv, CallInv, Wait
  <2>3. HandledTaskInv(c)' /\ CallInv(c)'
    BY Zenon, <1>1, <1>5, <2>1 DEF HandledInv, HandledTaskInv, CallInv
  <2>4. /\ call'[c] \in {"waiting", "joined", "over"}
        /\ outcome'[c] \notin {"stopped", "aborted"} /\ outcome'[c] # "whole"
    BY Zenon, <2>1
  <2>5. WaitInv(c)'
    BY Zenon, <2>1, <2>2, <2>4 DEF WaitInv
  <2> QED BY Zenon, <1>3, <1>4, <2>3, <2>5 DEF HandleInv, HandledInv
<1>7. CASE Cancel(c) \/ Abort(c)
  <2>1. /\ op'[c] \in {"cancel", "abort"} /\ call'[c] \in {"waiting", "aborting"}
        /\ term'[c] = "taken" /\ handle'[c] = "held" /\ outcome'[c] = "none"
    BY <1>5, <1>7 DEF HandleInv, TypeInv, HandledInv, CallInv, Cancel, Abort,
                      BeginAbort
  <2>2. HandledInv(c)'
    BY Zenon, <1>1, <1>5, <2>1 DEF HandledInv, HandledTaskInv, CallInv, WaitInv
  <2> QED BY Zenon, <1>3, <1>4, <2>2 DEF HandleInv
<1>8. CASE Drop(c)
  <2>1. op'[c] = "drop" /\ call'[c] = "over" /\ term'[c] = "taken"
    BY Zenon, <1>8 DEF HandleInv, TypeInv, Drop, Dropped
  <2>2. HandledInv(c)'
    BY Zenon, <1>1, <1>5, <2>1 DEF HandledInv, HandledTaskInv, CallInv, WaitInv
  <2> QED BY Zenon, <1>3, <1>4, <2>2 DEF HandleInv
<1> QED BY Zenon, <1>6, <1>7, <1>8

\* A step of a call under way: joining the task, its deadline, its return.
LEMMA CallKeepsHandleInv ==
  ASSUME HandleInv, NEW c \in Consumers, CallStep(c)
  PROVE  HandleInv'
<1> USE DEF taskVars
<1>1. /\ UNCHANGED <<stream, task, exit, timed, op>>
      /\ term' \in [Consumers -> {"held", "taken"}]
      /\ handle' \in [Consumers -> {"none", "held", "spent", "gone"}]
      /\ call' \in [Consumers -> {"none", "idle", "waiting", "aborting", "joined", "over"}]
      /\ outcome' \in [Consumers -> Exits \cup {"join_error", "aborted"}]
      /\ \A d \in Consumers \ {c} : /\ term'[d] = term[d] /\ handle'[d] = handle[d]
                                    /\ call'[d] = call[d] /\ outcome'[d] = outcome[d]
  <2> USE DEF HandleInv, TypeInv
  <2>1. CASE Join(c) /\ UNCHANGED op
    BY <2>1 DEF Join
  <2>2. CASE DeadlinePasses(c) /\ UNCHANGED op
    BY Zenon, <2>2 DEF DeadlinePasses, BeginAbort
  <2>3. CASE AbortJoined(c) /\ UNCHANGED <<taskVars, aborting, term, timed, op>>
    BY Zenon, <2>3 DEF AbortJoined
  <2>4. CASE Return(c)
    BY Zenon, <2>4 DEF Return, Dropped
  <2> QED BY Zenon, <2>1, <2>2, <2>3, <2>4 DEF CallStep
<1>2. aborting' \in [Consumers -> BOOLEAN]
  <2>1. aborting' = aborting \/ BeginAbort({c}) \/ Dropped({c})
    BY Zenon DEF CallStep, Join, DeadlinePasses, AbortJoined,
                 Return
  <2> QED BY Zenon, <2>1, AbortingTyped DEF HandleInv, TypeInv
<1>3. TypeInv'
  BY Zenon, <1>1, <1>2 DEF HandleInv, TypeInv
<1>4. \A d \in Consumers \ {c} : HandledInv(d)'
  BY Zenon, <1>1, HandledFrame DEF HandleInv
<1>5. HandledInv(c)
  BY Zenon DEF HandleInv
<1>6. CASE Join(c)
  <2>1. /\ call[c] = "waiting" /\ call'[c] = "joined" /\ task[c] = "done"
        /\ outcome'[c] = exit[c] \/ outcome'[c] = "join_error"
        /\ term[c] = "taken" => term'[c] = "taken"
    BY <1>6 DEF HandleInv, TypeInv, Join
  <2>2. op[c] = "wait" => exit[c] # "stopped"
    BY Zenon, <1>5, <2>1 DEF HandledInv, HandledTaskInv, WaitInv
  <2>3. outcome'[c] # "aborted"
    BY Zenon, <2>1 DEF HandleInv, TypeInv, Exits
  <2>4. HandledInv(c)'
    BY Zenon, <1>1, <1>5, <2>1, <2>2, <2>3 DEF HandledInv, HandledTaskInv, CallInv, WaitInv
  <2> QED BY Zenon, <1>3, <1>4, <2>4 DEF HandleInv
<1>7. CASE DeadlinePasses(c)
  <2>1. /\ call[c] = "waiting" /\ timed[c] /\ call'[c] = "aborting" /\ term'[c] = "taken"
        /\ UNCHANGED <<handle, outcome>>
    BY Zenon, <1>7 DEF HandleInv, TypeInv, DeadlinePasses, BeginAbort
  <2>2. op[c] # "wait"
    BY Zenon, <1>5, <2>1 DEF HandledInv, WaitInv
  <2>3. HandledInv(c)'
    BY Zenon, <1>1, <1>5, <2>1, <2>2 DEF HandledInv, HandledTaskInv, CallInv, WaitInv
  <2> QED BY Zenon, <1>3, <1>4, <2>3 DEF HandleInv
<1>8. CASE AbortJoined(c) /\ UNCHANGED <<taskVars, aborting, term, timed, op>>
  <2>1. /\ call[c] = "aborting" /\ call'[c] = "joined" /\ term'[c] = term[c]
        /\ handle[c] = "gone" \/ task[c] = "done"
    BY Zenon, <1>8 DEF HandleInv, TypeInv, AbortJoined
  <2>2. task[c] = "done" /\ op[c] # "wait"
    BY Zenon, <1>5, <2>1 DEF HandledInv, CallInv, WaitInv
  <2>3. HandledInv(c)'
    BY Zenon, <1>1, <1>5, <2>1, <2>2 DEF HandledInv, HandledTaskInv, CallInv, WaitInv
  <2> QED BY Zenon, <1>3, <1>4, <2>3 DEF HandleInv
<1>9. CASE Return(c)
  <2>1. call[c] = "joined" /\ call'[c] = "over" /\ term'[c] = "taken" /\ UNCHANGED outcome
    BY Zenon, <1>9 DEF HandleInv, TypeInv, Return, Dropped
  <2>2. HandledInv(c)'
    BY Zenon, <1>1, <1>5, <2>1 DEF HandledInv, HandledTaskInv, CallInv, WaitInv
  <2> QED BY Zenon, <1>3, <1>4, <2>2 DEF HandleInv
<1> QED BY Zenon, <1>6, <1>7, <1>8, <1>9 DEF CallStep

-----------------------------------------------------------------------------
(* Theorems about the handle *)

\* The inductive invariant holds of any number of consumers, each handled by
\* wait, cancel, abort or drop at any time.
THEOREM ConsumerInvariant == Spec => []HandleInv
<1>1. Init => HandleInv
  <2> SUFFICES ASSUME Init PROVE HandleInv
    BY Zenon
  <2>1. aborting \in [Consumers -> BOOLEAN] /\ timed \in [Consumers -> BOOLEAN]
    BY Zenon DEF Init
  <2>2. TypeInv
    BY Zenon, <2>1 DEF Init, TypeInv, Exits
  <2>3. \A c \in Consumers : ~timed[c]
    BY Zenon DEF Init
  <2>4. \A c \in Consumers : HandledInv(c)
    BY Zenon, <2>3 DEF Init, HandledInv, HandledTaskInv, CallInv, WaitInv
  <2> QED BY Zenon, <2>2, <2>4 DEF HandleInv
<1>2. HandleInv /\ [Next]_vars => HandleInv'
  <2> SUFFICES ASSUME HandleInv, [Next]_vars PROVE HandleInv'
    BY Zenon
  <2>1. CASE \E c \in Consumers : Step(c)
    <3>1. PICK c \in Consumers : Step(c)
      BY Zenon, <2>1
    <3> QED
      BY Zenon, <3>1, TaskKeepsHandleInv, BeginKeepsHandleInv, CallKeepsHandleInv DEF Step
  <2>2. CASE UNCHANGED vars
    <3>1. TypeInv'
      BY Zenon, <2>2 DEF HandleInv, TypeInv, vars, consumerVars, taskVars,
                         callVars
    <3>2. \A d \in Consumers : HandledInv(d)'
      BY Zenon, <2>2, HandledFrame DEF HandleInv, vars, consumerVars,
                                       taskVars, callVars
    <3> QED BY Zenon, <3>1, <3>2 DEF HandleInv
  <2> QED BY Zenon, <2>1, <2>2 DEF Next, Finished
<1> QED BY <1>1, <1>2, PTL DEF Spec

\* Whatever the visitor does, when wait, cancel or abort of any consumer returns
\* the task has ended: ConsumerWaitGuard joins it on every path that is not a drop.
THEOREM ReturnsAfterTask == Spec => []ReturnReleasesClaim
<1>1. HandleInv => ReturnReleasesClaim
  BY Zenon DEF HandleInv, HandledInv, CallInv, ReturnReleasesClaim
<1> QED BY <1>1, ConsumerInvariant, PTL

\* wait of any consumer returns a sink only of a task that ran to its end: the
\* guard keeps the termination sender until the task is joined.
THEOREM WaitIsWhole == Spec => []WaitReturnsWholeSink
<1>1. HandleInv => WaitReturnsWholeSink
  BY Zenon DEF HandleInv, HandledInv, WaitInv, WaitReturnsWholeSink
<1> QED BY <1>1, ConsumerInvariant, PTL

-----------------------------------------------------------------------------
(* The queue *)

\* A receiver between its look into the queue and its await holds a Notified that
\* was enabled before the look, and something that came after the look is still
\* going to be announced to it.
Announced ==
  receiver \in {"empty", "await"} /\ notified = "enabled" /\ (events # <<>> \/ closed) =>
    \E w \in Writers : writer[w] = "notify"

QInv ==
  /\ writer \in [Writers -> {"idle", "notify", "done"}]
  /\ receiver \in {"check", "empty", "await"} => notified \in {"enabled", "woken"}
  /\ Announced

\* A queue starts empty, with nobody waiting.
LEMMA InitQInv == QueueInit => QInv
  BY DEF QueueInit, QInv, Announced

\* push and close leave a writer that is about to notify.
LEMMA WritersKeepQInv ==
  ASSUME QInv,
         PushChunk \/ (\E kind \in Terminals : PushTerminal(kind))
         \/ PushRefused \/ Close
  PROVE  QInv'
<1> USE DEF QInv, Writers, Reader, Closer
<1>1. CASE PushChunk
  BY <1>1 DEF PushChunk, Announced
<1>2. CASE \E kind \in Terminals : PushTerminal(kind)
  BY <1>2 DEF PushTerminal, Announced
<1>3. CASE PushRefused
  BY <1>3 DEF PushRefused, Announced
<1>4. CASE Close
  BY <1>4 DEF Close, Announced
<1> QED BY <1>1, <1>2, <1>3, <1>4

\* notify_waiters wakes a Notified that was enabled, so that nobody is left to be
\* told.
LEMMA NotifyKeepsQInv ==
  ASSUME QInv, NEW w \in Writers, NotifyWaiters(w)
  PROVE  QInv'
  BY DEF QInv, Announced, NotifyWaiters

\* The receiver enables before it looks, and leaves the queue alone otherwise.
LEMMA ReceiverKeepsQInv ==
  ASSUME QInv, RecvBegin \/ Receiver \/ RecvDropped
  PROVE  QInv'
<1>1. CASE RecvBegin
  BY <1>1 DEF RecvBegin, QInv, Announced
<1>2. CASE RecvPops
  BY <1>2 DEF RecvPops, QInv, Announced
<1>3. CASE RecvNone
  BY <1>3 DEF RecvNone, QInv, Announced
<1>4. CASE RecvEmpty
  BY <1>4 DEF RecvEmpty, QInv, Announced
<1>5. CASE RecvAwaits
  BY <1>5 DEF RecvAwaits, QInv, Announced
<1>6. CASE RecvWoken
  BY <1>6 DEF RecvWoken, QInv, Announced
<1>7. CASE RecvDropped
  BY <1>7 DEF RecvDropped, QInv, Announced
<1> QED BY <1>1, <1>2, <1>3, <1>4, <1>5, <1>6, <1>7 DEF Receiver

\* However pushes, close and recv interleave, whatever the capacity: a receiver that
\* sleeps on something is about to be woken (BestEffortLiveQueue::recv).
THEOREM WakeupNotLost == QueueSpec => []NoLostWakeup
<1>1. QInv => NoLostWakeup
  BY DEF QInv, Announced, NoLostWakeup
<1>2. QInv /\ [QueueNext]_queueVars => QInv'
  <2> SUFFICES ASSUME QInv, [QueueNext]_queueVars PROVE QInv'
    OBVIOUS
  <2>1. CASE UNCHANGED queueVars \/ QueueOver
    BY <2>1 DEF QInv, Announced, queueVars, QueueOver
  <2>2. CASE \E w \in Writers : NotifyWaiters(w)
    BY <2>2, NotifyKeepsQInv
  <2>3. CASE QueueNext /\ ~QueueOver /\ ~(\E w \in Writers : NotifyWaiters(w))
    BY <2>3, WritersKeepQInv, ReceiverKeepsQInv DEF QueueNext
  <2> QED BY <2>1, <2>2, <2>3 DEF QueueNext
<1> QED BY <1>1, <1>2, InitQInv, PTL DEF QueueSpec
=============================================================================
