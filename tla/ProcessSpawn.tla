--------------------------- MODULE ProcessSpawn ---------------------------
(***************************************************************************)
(* From Process::new to the drop of the handle: process/builder.rs takes a *)
(* configuration for stdout and for stderr, spawn_with_stream_configs      *)
(* starts the child and turns its pipes into streams, and the handle of    *)
(* ProcessHandle takes over.  The child runs on its own from the moment    *)
(* the operating system has created it.                                    *)
(***************************************************************************)
EXTENDS ProcessHandle, StreamConfig

VARIABLES
  spawn,       \* "configure", the steps of spawn, then "handle", "failed" or "panicked"
  targets,     \* the streams that the configuration under way is for
  builder,     \* that configuration
  config,      \* stream -> its configuration, once there is one
  pipe,        \* stream -> "none", "null" or "piped", what the child was given
  reader       \* stream -> the reader task into_stream has started

spawnVars == <<spawn, targets, builder, config, pipe, reader>>

Streams == {"stdout", "stderr"}
Unset == [Discard EXCEPT !.stage = "unset"]

\* Process::new and ::name: no stream is configured yet.
Init ==
  /\ HandleInit
  /\ spawn = "configure" /\ targets = {} /\ builder = Unset
  /\ config = [s \in Streams |-> Unset]
  /\ pipe = [s \in Streams |-> "none"] /\ reader = [s \in Streams |-> "none"]

-----------------------------------------------------------------------------
(* Process: the configuration of the streams *)

\* stdout, stderr, or stdout_and_stderr: the closure starts with a backend.
Configure(streams, b) ==
  /\ spawn = "configure" /\ targets = {}
  /\ \A s \in streams : config[s] = Unset
  /\ targets' = streams /\ builder' = b
  /\ UNCHANGED <<vars, spawn, config, pipe, reader>>

\* The next call on the builder; a panic leaves the closure, and nothing is spawned.
ConfigureStep ==
  /\ targets # {}
  /\ \E b \in Stages(builder) :
       builder' = b /\ spawn' = IF b.stage = "panicked" THEN "panicked" ELSE spawn
  /\ UNCHANGED <<vars, targets, config, pipe, reader>>

\* The closure returns; both streams get a copy if it was for both.
Configured ==
  /\ targets # {} /\ builder.stage = "ready"
  /\ config' = [s \in Streams |-> IF s \in targets THEN builder ELSE config[s]]
  /\ targets' = {} /\ builder' = Unset
  /\ UNCHANGED <<vars, spawn, pipe, reader>>

-----------------------------------------------------------------------------
(* spawn_with_stream_configs *)

\* Command::spawn fails: there is no child.
SpawnFails ==
  /\ spawn = "configure" /\ \A s \in Streams : config[s] # Unset
  /\ spawn' = "failed"
  /\ UNCHANGED <<vars, targets, builder, config, pipe, reader>>

\* Command::spawn, not killed on drop, with a pipe for each stream that asks for one.
Spawn ==
  /\ spawn = "configure" /\ \A s \in Streams : config[s] # Unset
  /\ spawn' = "from_spawned_child"
  /\ child' = "running"
  /\ pipe' = [s \in Streams |-> ChildStdio(config[s])]
  /\ UNCHANGED <<handleVars, ownerVars, callVars, sentVars, dropVars>>
  /\ UNCHANGED <<targets, builder, config, reader>>

\* ProcessGroup::from_spawned_child: on Windows the child gets a Job Object.
FromSpawnedChild ==
  /\ spawn = "from_spawned_child"
  /\ spawn' = "stdout"
  /\ UNCHANGED <<vars, targets, builder, config, pipe, reader>>

\* Creating or assigning the Job Object fails: kill the child, or warn.
JobAttachmentFails ==
  /\ spawn = "from_spawned_child" /\ platform = "windows"
  /\ spawn' = "failed" /\ owner' = "dropped"
  /\ \E ok \in BOOLEAN : Send("SIGKILL", ok) /\ reported' = ~ok
  /\ UNCHANGED <<child, handleVars, platform, wrapperVars, context, unwinding, callVars>>
  /\ UNCHANGED <<opted_out, panics, targets, builder, config, pipe, reader>>

\* into_stream, of stdout and then of stderr: start the reader of a captured pipe.
\* A panic here drops the child, which nobody kills.
IntoStream(s) ==
  LET panicked == IntoStreamPanics(config[s], pipe[s] = "piped")
  IN /\ spawn = s
     /\ spawn' = IF panicked THEN "panicked" ELSE IF s = "stdout" THEN "stderr" ELSE "hand_over"
     /\ reader' = IF panicked THEN reader ELSE [reader EXCEPT ![s] = ReaderOf(config[s])]
     /\ owner' = IF panicked THEN "dropped" ELSE owner
     /\ unwinding' = panicked
     /\ panics' = IF panicked THEN panics + 1 ELSE panics
     /\ UNCHANGED <<child, handleVars, platform, wrapperVars, context, callVars, sentVars>>
     /\ UNCHANGED <<opted_out, reported, targets, builder, config, pipe>>

\* The handle is armed and owns the child; what its streams are is forgotten here.
HandOver ==
  /\ spawn = "hand_over"
  /\ spawn' = "handle"
  /\ owner' = "handle" /\ stdin' = "open" /\ drop_mode' = "armed"
  /\ config' = [s \in Streams |-> Unset]
  /\ pipe' = [s \in Streams |-> "none"] /\ reader' = [s \in Streams |-> "none"]
  /\ UNCHANGED <<child, platform, wrapperVars, context, unwinding, callVars, sentVars, dropVars>>
  /\ UNCHANGED <<targets, builder>>

\* No handle, and no child that is still running.
SpawnFinished ==
  /\ spawn \in {"failed", "panicked"} /\ child \in {"none", "exited"}
  /\ UNCHANGED <<vars, spawnVars>>

-----------------------------------------------------------------------------
SpawnNext ==
  \/ \E streams \in {{"stdout"}, {"stderr"}, Streams} :
       \E b \in {Discard, StreamBuilder("broadcast"), StreamBuilder("single_subscriber")} :
          Configure(streams, b)
  \/ ConfigureStep \/ Configured
  \/ SpawnFails \/ Spawn \/ FromSpawnedChild \/ JobAttachmentFails
  \/ \E s \in Streams : IntoStream(s)
  \/ HandOver \/ SpawnFinished

Next == (HandleNext /\ UNCHANGED spawnVars) \/ SpawnNext

Spec == Init /\ [][Next]_<<vars, spawnVars>>

\* A call that can go on is polled, and timers fire.  The child need never exit.
FairSpec == Spec /\ WF_vars(Proceed) /\ WF_vars(WaitTimesOut)

-----------------------------------------------------------------------------
(* Properties *)

\* When spawn returns a handle, the child has a pipe for a stream exactly if a task
\* reads it: it never writes into a pipe that nobody empties, and no reader waits for
\* a pipe that was not made.
SpawnHandsOver ==
  [][spawn # "handle" /\ spawn' = "handle" =>
       \A s \in Streams : pipe[s] = "piped" <=> reader[s] # "none"]_<<vars, spawnVars>>
===========================================================================
