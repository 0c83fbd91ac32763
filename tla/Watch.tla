-------------------------------- MODULE Watch --------------------------------
(***************************************************************************)
(* `shipnode deploy --watch`: cli/commands/deploy-watch.ts,                 *)
(* domain/deploy/watcher.ts and domain/deploy/hot-sync.ts. A baseline       *)
(* deploy, then a loop that ships each edit into the release that serves.   *)
(* Paths stand for the kinds of file the code tells apart: a source file, a *)
(* dependency manifest, a file that may be deleted, a file the build itself *)
(* generates among the sources, and the build output. A file's content is a *)
(* version number, 0 where there is no file; what is compiled or installed  *)
(* is the version it was made from.                                         *)
(***************************************************************************)
EXTENDS Integers, FiniteSets

CONSTANTS
    Sessions,    \* [build, frontend, polling, outDir] records: how watch is run
    MaxEdits,    \* bound: edits by the developer
    Mishaps,     \* what may happen: "fail" a command, "drop" SSH, "other" deploys
    MaxMishaps,  \* bound: how often, all together
    MaxSignals   \* bound: Ctrl-C; the second one is the last

Path == {"src", "pkg", "old", "gen", "out"}

VARIABLES
    session,     \* the command line, the app and the platform
    local, edits,    \* the developer's tree
    notices,     \* changed paths the operating system or a scan has yet to report
    watcher,     \* "none", "priming" (first poll), "on", "paused" or "closed"
    wpending,    \* the watcher's debounced paths; its timer runs iff there are any
    pending, batch,  \* the session's queue, and the paths of the running cycle
    pc, retried, \* where the session is; whether the cycle has been run again
    connected, lockHeld, sig,   \* SSH; what the signal handler knows and does
    lock,        \* deploy.lock on the server: "free", "us" or "other"
    remote,      \* the live release's files
    live,        \* [code, deps]: compiled and installed there
    running,     \* [code, deps]: what the processes (or Caddy) serve
    mishaps,
    lost         \* an edit was not recorded, or a cycle failed or was skipped

tree   == <<local, edits>>
server == <<remote, live, running>>
watch  == <<notices, watcher, wpending>>
loop   == <<pending, batch, pc, retried>>
vars   == <<session, tree, watch, loop, connected, lockHeld, sig, lock, server, mishaps, lost>>

Location == session.build
Frontend == session.frontend
BuildsHere == Location = "local" \/ (Frontend /\ Location # "none")
Stopping == sig # "none"

\* isIgnoredPath: build output, unless nothing in this process writes it.
Ignored(p) == p = "out" /\ Location # "none"

\* RSYNC_DEFAULT_EXCLUDES.
Excluded(p) == p = "out" /\ session.outDir = "dist"

\* What reaches the processes: a remote build's output, or the uploaded artifact.
Artifact(files, built) == IF Location = "remote" /\ ~Frontend THEN built ELSE files["out"]

Mishap(kind) == kind \in Mishaps /\ mishaps < MaxMishaps /\ mishaps' = mishaps + 1

-----------------------------------------------------------------------------
(* The developer. *)

\* The files the first deploy takes are not taken yet.
BeforeBaseline == IF Location = "local" THEN pc = "prebuild" ELSE pc \in {"acquireBase", "baseline"}

\* A save is noticed where a watcher runs (the poller misses a deletion), and
\* lost on the loop where none runs yet.
Save(p) ==
    /\ notices' = IF watcher \in {"on", "paused"} /\ ~(session.polling /\ local'[p] = 0)
                  THEN notices \cup {p} ELSE notices
    /\ lost' = (lost \/ (watcher \notin {"on", "paused"} /\ ~BeforeBaseline))

Edit(p) ==
    /\ edits < MaxEdits /\ pc # "exited"
    /\ p \in {"src", "pkg", "old"} /\ local[p] # 0
    /\ edits' = edits + 1
    /\ local' = [local EXCEPT ![p] = IF p = "old" THEN 0 ELSE edits + 2]
    /\ Save(p)
    /\ UNCHANGED <<session, watcher, wpending, loop, connected, lockHeld, sig, lock, server,
                   mishaps>>

\* Under `none` the developer's framework rebuilds.
DevBuild ==
    /\ Location = "none" /\ local["out"] # local["src"] /\ pc # "exited"
    /\ local' = [local EXCEPT !["out"] = local["src"]]
    /\ Save("out")
    /\ UNCHANGED <<session, edits, watcher, wpending, loop, connected, lockHeld, sig, lock,
                   server, mishaps>>

-----------------------------------------------------------------------------
(* watchProject *)

\* record: nothing is kept while paused.
Record(ps) ==
    /\ wpending' = IF watcher = "on" THEN wpending \cup {p \in ps : ~Ignored(p)} ELSE wpending
    /\ lost' = (lost \/ (watcher # "on" /\ ps \ {"gen"} # {}))

\* fs.watch calls back, one path at a time.
Notify(p) ==
    /\ p \in notices /\ watcher \in {"on", "paused"} /\ ~session.polling
    /\ notices' = notices \ {p}
    /\ Record({p})
    /\ UNCHANGED <<session, tree, watcher, loop, connected, lockHeld, sig, lock, server, mishaps>>

\* The poller compares times; its first scan only establishes the baseline.
Scan ==
    /\ session.polling /\ watcher \in {"on", "paused", "priming"}
    /\ notices # {} \/ watcher = "priming"
    /\ notices' = {}
    /\ IF watcher = "priming"
       THEN watcher' = "on" /\ UNCHANGED <<wpending, lost>>
       ELSE Record(notices) /\ UNCHANGED watcher
    /\ UNCHANGED <<session, tree, loop, connected, lockHeld, sig, lock, server, mishaps>>

\* The debounce timer, or maxWaitMs: onBatch, and drain unless it is busy.
Emit ==
    /\ wpending # {} /\ watcher = "on"
    /\ wpending' = {}
    /\ IF pc = "idle"
       THEN batch' = wpending /\ pc' = "acquire" /\ UNCHANGED pending
       ELSE pending' = pending \cup wpending /\ UNCHANGED <<batch, pc>>
    /\ UNCHANGED <<session, tree, notices, watcher, retried, connected, lockHeld, sig, lock,
                   server, mishaps, lost>>

-----------------------------------------------------------------------------
(* The baseline. *)

Goto(l) == pc' = l /\ UNCHANGED <<pending, batch, retried>>

\* buildLocally before the first deploy, when there is no watcher to suppress yet.
Prebuild ==
    /\ pc = "prebuild" /\ Goto("acquireBase")
    /\ local' = [local EXCEPT !["out"] = local["src"]]
    /\ UNCHANGED <<session, edits, watch, connected, lockHeld, sig, lock, server, mishaps, lost>>

\* A LockError ends the session.
AcquireBase ==
    /\ pc = "acquireBase"
    /\ IF lock = "free" THEN lock' = "us" /\ Goto("baseline")
       ELSE Goto("exited") /\ UNCHANGED lock
    /\ UNCHANGED <<session, tree, watch, connected, lockHeld, sig, server, mishaps, lost>>

\* DeployService.execute, skipBuild unless the loop builds on the server: see BlueGreen.
Baseline ==
    /\ pc = "baseline" /\ Goto("unlockBase")
    /\ local' = IF Frontend /\ Location = "remote" THEN [local EXCEPT !["out"] = local["src"]]
                ELSE local
    /\ remote' = [p \in Path |-> IF Excluded(p) /\ ~Frontend THEN 0 ELSE local'[p]]
    /\ live' = [code |-> Artifact(remote', local["src"]), deps |-> local["pkg"]]
    /\ running' = live'
    /\ UNCHANGED <<session, edits, watch, connected, lockHeld, sig, lock, mishaps, lost>>

\* The lock goes, and the watcher is created.
UnlockBase ==
    /\ pc = "unlockBase" /\ Goto("idle")
    /\ lock' = "free"
    /\ watcher' = IF session.polling THEN "priming" ELSE "on"
    /\ UNCHANGED <<session, tree, notices, wpending, connected, lockHeld, sig, server, mishaps, lost>>

-----------------------------------------------------------------------------
(* drain and runCycle. *)

First == IF BuildsHere THEN "build" ELSE "sync"

\* The next batch, or idle.
NextBatch_WhileStopping ==
    /\ retried' = FALSE /\ pending' = {} /\ batch' = pending
    /\ pc' = IF pending # {} THEN "acquire" ELSE "idle"
NextBatch ==
    /\ retried' = FALSE
    /\ IF pending # {} /\ ~Stopping
       THEN batch' = pending /\ pending' = {} /\ pc' = "acquire"
       ELSE batch' = {} /\ pc' = "idle" /\ UNCHANGED pending

\* lock.acquire. Neither a LockError nor a lost connection gets to syncWithReconnect,
\* and the batch is dropped.
Acquire_InsideTry ==
    /\ pc = "acquire"
    /\ IF connected /\ lock = "free"
       THEN lock' = "us" /\ Goto("took") /\ UNCHANGED lost
       ELSE Goto("release") /\ lost' = TRUE /\ UNCHANGED lock
    /\ UNCHANGED <<session, tree, watch, connected, lockHeld, sig, server, mishaps>>
Acquire ==
    /\ pc = "acquire"
    /\ IF connected /\ lock = "free"
       THEN lock' = "us" /\ Goto("took") /\ UNCHANGED lost
       ELSE NextBatch /\ lost' = TRUE /\ UNCHANGED lock
    /\ UNCHANGED <<session, tree, watch, connected, lockHeld, sig, server, mishaps>>

\* The answer arrives.
Took ==
    /\ pc = "took"
    /\ lockHeld' = TRUE
    /\ Goto(IF connected THEN First ELSE "connect")
    /\ UNCHANGED <<session, tree, watch, connected, sig, lock, server, mishaps, lost>>

Connect ==
    /\ pc = "connect"
    /\ \/ connected' = TRUE /\ Goto(First) /\ UNCHANGED <<mishaps, lost>>
       \/ /\ Mishap("fail")
          /\ lost' = TRUE /\ Goto("release") /\ UNCHANGED connected
    /\ UNCHANGED <<session, tree, watch, lockHeld, sig, lock, server>>

\* A step throws: run again if the connection is what was lost, once.
Throw ==
    IF ~connected /\ ~retried
    THEN pc' = "connect" /\ retried' = TRUE /\ UNCHANGED <<pending, batch, lost>>
    ELSE Goto("release") /\ lost' = TRUE

\* buildLocally: pause, build, resume. What was recorded until then is discarded.
Build ==
    /\ pc = "build" /\ Goto("building")
    /\ watcher' = IF watcher = "on" THEN "paused" ELSE watcher
    /\ wpending' = {}
    /\ lost' = (lost \/ wpending \ {"gen"} # {})
    /\ UNCHANGED <<session, tree, notices, connected, lockHeld, sig, lock, server, mishaps>>
Building ==
    /\ pc = "building"
    /\ watcher' = IF watcher = "paused" THEN "on" ELSE watcher
    /\ \/ /\ local' = [local EXCEPT !["out"] = local["src"], !["gen"] = local["src"]]
          /\ notices' = IF watcher = "paused" THEN notices \cup {"gen"} ELSE notices
          /\ Goto("sync") /\ UNCHANGED <<mishaps, lost>>
       \/ Mishap("fail") /\ Throw /\ UNCHANGED <<local, notices>>
    /\ UNCHANGED <<session, edits, wpending, connected, lockHeld, sig, lock, server>>

\* syncSource: the batch if every path of it still exists, else the whole tree,
\* without --delete. runFrontend mirrors the build output.
FileList == Location # "local" /\ \A p \in batch : local[p] # 0
Shipped == {p \in IF FileList THEN batch ELSE {q \in Path : local[q] # 0} : ~Excluded(p)}
NeedsInstall_Never == FALSE
NeedsInstall == "pkg" \in batch      \* touchesDependencies

Sync ==
    /\ pc = "sync"
    /\ \/ /\ remote' = IF Frontend THEN [remote EXCEPT !["out"] = local["out"]]
                       ELSE [p \in Path |-> IF p \in Shipped THEN local[p] ELSE remote[p]]
          /\ running' = IF Frontend THEN [running EXCEPT !.code = local["out"]] ELSE running
          /\ Goto(CASE Frontend -> "release"
                    [] ~Frontend /\ (NeedsInstall \/ Location = "remote") -> "prepare"
                    [] OTHER -> "reload")
          /\ UNCHANGED <<mishaps, lost>>
       \/ Mishap("fail") /\ Throw /\ UNCHANGED <<remote, running>>
    /\ UNCHANGED <<session, tree, watch, connected, lockHeld, sig, lock, live>>

\* prepareRemote, over SSH.
Prepare ==
    /\ pc = "prepare"
    /\ \/ /\ connected /\ Goto("reload")
          /\ live' = [code |-> IF Location = "remote" THEN remote["src"] ELSE live.code,
                      deps |-> IF NeedsInstall THEN remote["pkg"] ELSE live.deps]
          /\ UNCHANGED <<mishaps, lost>>
       \/ IF connected THEN Mishap("fail") /\ Throw /\ UNCHANGED live
                       ELSE Throw /\ UNCHANGED <<mishaps, live>>
    /\ UNCHANGED <<session, tree, watch, connected, lockHeld, sig, lock, remote, running>>

\* reload; the probe behind it changes nothing.
Reload ==
    /\ pc = "reload"
    /\ \/ /\ connected /\ Goto("release")
          /\ running' = [code |-> Artifact(remote, live.code), deps |-> live.deps]
          /\ UNCHANGED <<mishaps, lost>>
       \/ IF connected THEN Mishap("fail") /\ Throw /\ UNCHANGED running
                       ELSE Throw /\ UNCHANGED <<mishaps, running>>
    /\ UNCHANGED <<session, tree, watch, connected, lockHeld, sig, lock, remote, live>>

\* withLock's finally: `rm -rf`, whose failure is swallowed; then onReleased.
Release ==
    /\ pc = "release" /\ Goto("released")
    /\ lock' = IF connected THEN "free" ELSE lock
    /\ UNCHANGED <<session, tree, watch, connected, lockHeld, sig, server, mishaps, lost>>
Released ==
    /\ pc = "released" /\ NextBatch
    /\ lockHeld' = FALSE
    /\ UNCHANGED <<session, tree, watch, connected, sig, lock, server, mishaps, lost>>

-----------------------------------------------------------------------------
(* shutdown *)

Exit == Goto("exited")

Interrupt ==
    /\ pc # "exited" /\ MaxSignals > 0 /\ sig = "none"
    /\ watcher' = IF watcher = "none" THEN "none" ELSE "closed"
    /\ IF lockHeld THEN sig' = "releasing" /\ UNCHANGED <<pending, batch, pc, retried>>
                   ELSE sig' = "left" /\ Exit
    /\ UNCHANGED <<session, tree, notices, wpending, connected, lockHeld, lock, server, mishaps, lost>>

InterruptAgain ==
    /\ pc # "exited" /\ MaxSignals > 1 /\ Stopping /\ Exit
    /\ UNCHANGED <<session, tree, watch, connected, lockHeld, sig, lock, server, mishaps, lost>>

\* lock.release while the cycle goes on; five seconds later it is given up.
ShutdownRelease ==
    /\ pc # "exited" /\ sig = "releasing"
    /\ IF connected THEN lock' = "free" /\ sig' = "released" ELSE sig' = "unreached" /\ UNCHANGED lock
    /\ UNCHANGED <<session, tree, watch, loop, connected, lockHeld, server, mishaps, lost>>
ShutdownTimeout ==
    /\ pc # "exited" /\ sig = "releasing" /\ Exit
    /\ UNCHANGED <<session, tree, watch, connected, lockHeld, sig, lock, server, mishaps, lost>>
Finish_IfReleased ==
    /\ pc # "exited" /\ sig = "released" /\ Exit
    /\ UNCHANGED <<session, tree, watch, connected, lockHeld, sig, lock, server, mishaps, lost>>
Finish ==
    /\ pc # "exited" /\ sig \in {"released", "unreached"} /\ Exit
    /\ UNCHANGED <<session, tree, watch, connected, lockHeld, sig, lock, server, mishaps, lost>>

-----------------------------------------------------------------------------
(* The environment. *)

Drop ==
    /\ connected /\ pc \notin {"prebuild", "acquireBase", "baseline", "unlockBase", "exited"}
    /\ connected' = FALSE /\ Mishap("drop")
    /\ UNCHANGED <<session, tree, watch, loop, lockHeld, sig, lock, server, lost>>

\* Somebody else's deploy replaces the release this session patches.
OtherLocks ==
    /\ lock = "free"
    /\ lock' = "other" /\ Mishap("other")
    /\ UNCHANGED <<session, tree, watch, loop, connected, lockHeld, sig, server, lost>>
OtherDone ==
    /\ lock = "other" /\ lock' = "free"
    /\ remote' = [p \in Path |-> 0]
    /\ live' = [code |-> 0, deps |-> 0] /\ running' = live'
    /\ lost' = TRUE
    /\ UNCHANGED <<session, tree, watch, loop, connected, lockHeld, sig, mishaps>>

Init ==
    /\ session \in Sessions
    /\ local = [p \in Path |-> IF p = "out" /\ session.build = "remote" THEN 0 ELSE 1]
    /\ edits = 0 /\ notices = {} /\ watcher = "none" /\ wpending = {}
    /\ pending = {} /\ batch = {} /\ retried = FALSE
    /\ pc = IF session.build = "local" THEN "prebuild" ELSE "acquireBase"
    /\ connected = TRUE /\ lockHeld = FALSE /\ sig = "none" /\ lock = "free"
    /\ remote = [p \in Path |-> 0]
    /\ live = [code |-> 0, deps |-> 0] /\ running = [code |-> 0, deps |-> 0]
    /\ mishaps = 0 /\ lost = FALSE

Cycle == Acquire \/ Took \/ Connect \/ Build \/ Building \/ Sync \/ Prepare \/ Reload
            \/ Release \/ Released
Start == Prebuild \/ AcquireBase \/ Baseline \/ UnlockBase
Notice == Scan \/ \E p \in Path : Notify(p)
Shutdown == ShutdownRelease \/ ShutdownTimeout \/ Finish

Next == \/ \E p \in Path : Edit(p)
        \/ DevBuild \/ Notice \/ Emit \/ Start \/ Cycle
        \/ Interrupt \/ InterruptAgain \/ Shutdown
        \/ Drop \/ OtherLocks \/ OtherDone

Spec == Init /\ [][Next]_vars
FairSpec == /\ Spec
            /\ WF_vars(Start) /\ WF_vars(Cycle) /\ WF_vars(Emit) /\ WF_vars(Shutdown)
            /\ WF_vars(DevBuild) /\ WF_vars(Scan) /\ \A p \in Path : WF_vars(Notify(p))

-----------------------------------------------------------------------------
(* Properties. *)

\* What is served was built from the latest save, with the dependencies of the
\* latest manifest.
InSync ==
    /\ running.code = local[IF Location = "none" THEN "out" ELSE "src"]
    /\ Frontend \/ running.deps = local["pkg"]

\* Every save the watcher records is served in the end, however saves interleave
\* with debouncing, running cycles, builds, reconnects and scans: batches that
\* arrive during a cycle are not forgotten. (`lost` names the exceptions.)
EditsReachServer == <>[](InSync \/ lost \/ Stopping \/ pc = "exited")

\* "a concurrent `shipnode deploy` can never interleave with a sync": until Ctrl-C
\* the live release changes in this session's hands only under its lock, and a
\* cycle that was refused the lock never removes that of the deploy that has it.
LockRespected ==
    [][~Stopping /\ ~OtherDone =>
          /\ server' # server => lock = "us"
          /\ lock = "other" => lock' = "other"]_vars

\* "Release the deploy lock before exiting": once the handler's release is done,
\* no step of the cycle that goes on beside it takes the lock again.
CtrlCReleases == pc = "exited" /\ sig = "released" => lock # "us"

\* "a wedged release can never trap the user".
CtrlCExits == Stopping ~> pc = "exited"

=============================================================================
