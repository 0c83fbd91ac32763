----------------------------- MODULE BlueGreen -----------------------------
(***************************************************************************)
(* Zero-downtime releases of one backend app on one server, PM2 runtime:   *)
(* the deploy pipeline of domain/deploy/orchestrator.ts, the blue-green    *)
(* branch of domain/deploy/backend-strategy.ts, the persisted colour state *)
(* of domain/deploy/blue-green.ts, the release directories of              *)
(* domain/release/manager.ts and `shipnode rollback`                       *)
(* (cli/commands/rollback.ts).                                             *)
(*                                                                         *)
(* A step is one remote command. A command may fail without effect when    *)
(* its step is in FailAt, and the client may die in front of it when its   *)
(* step is in CrashAt. A client that dies after a command took effect is   *)
(* one that dies in front of the next.                                     *)
(***************************************************************************)
EXTENDS Integers, FiniteSets

CONSTANTS
    MaxRelease,   \* bound: how many releases are ever created
    Keep,         \* app.keepReleases
    Retention,    \* app.blueGreenRetention
    Conds,        \* how a freshly started web process may turn out
    FailAt,       \* steps whose command may fail
    CrashAt,      \* steps in front of which the client may die
    Overlap       \* whether a rollback may run while a deploy does

Colors      == {"blue", "green"}
NoColor     == "none"
Release     == 1 .. MaxRelease
NoRelease   == 0
AllConds    == {"healthy", "failing", "errored"}
Retentions  == {"warm", "rollback", "none"}

\* The steps of a deploy that are commands of the try block: a failure goes
\* to the catch block. The others are best effort.
BodySteps   == {"create", "stage", "switch", "resolve", "eco", "reapTarget",
                "boot", "health", "workers", "configure", "reload",
                "writeState", "afterSwitch", "record", "post"}
DeploySteps == BodySteps \cup {"cleanup", "revert", "recordFailed", "unlock"}
RollSteps   == {"rbSwitch", "rbBoot", "rbHealth", "rbConfigure", "rbReload",
                "rbWriteState", "rbReap", "rbUndo", "rbRestore"}

\* From the Caddy site being rewritten to the active colour being recorded.
FlipWindow  == {"reload", "writeState", "rbReload", "rbWriteState"}

ASSUME BoundAssumption == MaxRelease \in Nat
ASSUME KeepAssumption  == Keep \in Nat \ {0}
ASSUME ModeAssumption  == /\ Retention \in Retentions
                          /\ Conds \subseteq AllConds
                          /\ Overlap \in BOOLEAN
ASSUME FaultAssumption == /\ FailAt \subseteq DeploySteps \cup RollSteps
                          /\ CrashAt \subseteq DeploySteps \cup RollSteps

VARIABLES
    minted,       \* the newest release id handed out
    onDisk,       \* directories under releases/
    current,      \* the release the `current` symlink points at
    eco,          \* colour in each release's ecosystem.web.config.cjs
    proc,         \* the PM2 web process of each colour
    legacy,       \* an uncoloured web process still holds the blue port
    workers,      \* the release the single worker set runs
    site,         \* upstream colour in the Caddy site file
    upstream,     \* upstream colour Caddy is serving
    deployState,  \* .shipnode/deploy-state.json
    history,      \* entries of .shipnode/releases.json
    lock,         \* .shipnode/deploy.lock: free, held, or left by a dead client
    d,            \* the running deploy
    rb            \* the running rollback

files    == <<onDisk, current, eco>>
procs    == <<proc, legacy, workers>>
caddy    == <<site, upstream>>
vars     == <<minted, files, procs, caddy, deployState, history, lock, d, rb>>

-----------------------------------------------------------------------------
(* Colours, the recorded state and the target of a deploy (blue-green.ts). *)

\* Plausible bugs, put in place of the definition they precede to show that a
\* property notices them, are named after what they get wrong (..._Forgets...).

otherColor(c) == IF c = "blue" THEN "green" ELSE "blue"

NoState == [active |-> NoColor, rel |-> [c \in Colors |-> NoRelease]]

\* `state` with `color` now running `release`.
withRelease_OtherColor(st, c, r) ==
    [active |-> c, rel |-> [st.rel EXCEPT ![otherColor(c)] = r]]
withRelease_ForgetsOther(st, c, r) ==
    [active |-> c, rel |-> [NoState.rel EXCEPT ![c] = r]]
withRelease(st, c, r) ==
    [active |-> c, rel |-> [st.rel EXCEPT ![c] = r]]

\* No state (or an unreadable file): green, so that an uncoloured process keeps
\* the blue port. Otherwise the colour that is not active.
resolveTarget_Active(st) ==
    IF st.active = NoColor THEN "green" ELSE st.active
resolveTarget(st) ==
    IF st.active = NoColor THEN "green" ELSE otherColor(st.active)

reapsPreviousColour_Inverted == Retention = "rollback"
reapsPreviousColour == Retention # "rollback"

-----------------------------------------------------------------------------
(* PM2 and the ports. *)

NoProc_Stopped == [rel |-> NoRelease, cond |-> "stopped"]
NoProc == [rel |-> NoRelease, cond |-> "absent"]
Online(p) == p.cond \in {"healthy", "failing"}

\* The legacy process started by the recreate strategy before the app became
\* blue-green runs the release that `current` pointed at, which is the first.
LegacyRelease == 1

\* The process a request to the port of colour c reaches.
Answering(c) == IF c = "blue" /\ legacy
                THEN [rel |-> LegacyRelease, cond |-> "healthy"]
                ELSE proc[c]

\* `pm2 start current/ecosystem.web.config.cjs`: the colour is the one written
\* in that file, the code is the release `current` points at. The guard on the
\* port in front of it always succeeds, so a process whose port is taken starts
\* and dies of it.
StartsOn(c) == IF c = "blue" /\ legacy THEN {"errored"} ELSE Conds
Startable == current \in Release /\ eco[current] \in Colors
startCurrent == /\ Startable
                /\ \E k \in StartsOn(eco[current]) :
                     proc' = [proc EXCEPT ![eco[current]] =
                                [rel |-> current, cond |-> k]]

\* The PM2 status check rejects a missing, stopped or restarted process, the
\* HTTP check one that answers with a failure.
passesHealthCheck_StatusOnly(c) == Online(proc[c])
passesHealthCheck(c) == proc[c].cond = "healthy"

-----------------------------------------------------------------------------
(* A deploy: DeployOrchestrator.deploy and deployApp. *)

NoDeploy == [pc |-> "idle", rel |-> NoRelease, prev |-> NoRelease,
             target |-> NoColor, prevColor |-> NoColor,
             carried |-> NoState, switched |-> FALSE, flipped |-> FALSE]

Goto(pc) == d' = [d EXCEPT !.pc = pc]

\* lock.acquire(), then the id of the release. A held lock throws LockError
\* and leaves everything alone.
Acquire == /\ d.pc = "idle" /\ lock = "free"
           /\ Overlap \/ rb.pc = "idle"
           /\ minted < MaxRelease
           /\ lock' = "held"
           /\ minted' = minted + 1
           /\ d' = [NoDeploy EXCEPT !.pc = "create", !.rel = minted + 1]
           /\ UNCHANGED <<files, procs, caddy, deployState, history, rb>>

\* getCurrentReleasePath, createReleasePath, setupReleaseStructure.
Create == /\ d.pc = "create"
          /\ onDisk' = onDisk \cup {d.rel}
          /\ d' = [d EXCEPT !.pc = "stage", !.prev = current]
          /\ UNCHANGED <<minted, current, eco, procs, caddy, deployState,
                         history, lock, rb>>

\* rsync, install and build, beforeFleet and preDeploy hooks: they fill the new
\* release directory, which nothing runs from yet.
Stage == /\ d.pc = "stage"
         /\ Goto("switch")
         /\ UNCHANGED <<minted, files, procs, caddy, deployState, history,
                        lock, rb>>

SwitchSymlink == /\ d.pc = "switch"
                 /\ current' = d.rel
                 /\ d' = [d EXCEPT !.pc = "resolve", !.switched = TRUE]
                 /\ UNCHANGED <<minted, onDisk, eco, procs, caddy, deployState,
                                history, lock, rb>>

ResolveTarget == /\ d.pc = "resolve"
                 /\ d' = [d EXCEPT !.pc = "eco",
                                   !.target = resolveTarget(deployState),
                                   !.prevColor = deployState.active,
                                   !.carried = deployState]
                 /\ UNCHANGED <<minted, files, procs, caddy, deployState,
                                history, lock, rb>>

\* startBlueGreen writes the ecosystem files through `current` and relinks.
WriteEcosystem == /\ d.pc = "eco"
                  /\ eco' = [eco EXCEPT ![current] = d.target]
                  /\ Goto("reapTarget")
                  /\ UNCHANGED <<minted, onDisk, current, procs, caddy,
                                 deployState, history, lock, rb>>

\* `pm2 delete <target colour> || true`, then `pm2 start`.
ReapTarget == /\ d.pc = "reapTarget"
              /\ proc' = [proc EXCEPT ![d.target] = NoProc]
              /\ Goto("boot")
              /\ UNCHANGED <<minted, files, legacy, workers, caddy,
                             deployState, history, lock, rb>>

Boot == /\ d.pc = "boot"
        /\ startCurrent
        /\ Goto("health")
        /\ UNCHANGED <<minted, files, legacy, workers, caddy, deployState,
                       history, lock, rb>>

HealthCheck == /\ d.pc = "health"
               /\ Goto(IF passesHealthCheck(d.target) THEN "workers"
                                                      ELSE "revert")
               /\ UNCHANGED <<minted, files, procs, caddy, deployState,
                              history, lock, rb>>

\* afterHealthy: pm2 reload of current/ecosystem.workers.config.cjs.
ReloadWorkers == /\ d.pc = "workers"
                 /\ workers' = current
                 /\ Goto("configure")
                 /\ UNCHANGED <<minted, files, proc, legacy, caddy,
                                deployState, history, lock, rb>>

ConfigureBackend == /\ d.pc = "configure"
                    /\ site' = d.target
                    /\ Goto("reload")
                    /\ UNCHANGED <<minted, files, procs, upstream, deployState,
                                   history, lock, rb>>

ReloadCaddy == /\ d.pc = "reload"
               /\ upstream' = site
               /\ d' = [d EXCEPT !.pc = "writeState", !.flipped = TRUE]
               /\ UNCHANGED <<minted, files, procs, site, deployState, history,
                              lock, rb>>

WriteDeployState == /\ d.pc = "writeState"
                    /\ deployState' = withRelease(d.carried, d.target, d.rel)
                    /\ Goto("afterSwitch")
                    /\ UNCHANGED <<minted, files, procs, caddy, history, lock,
                                   rb>>

\* The shell truncates the file before it writes it, so a failed write leaves
\* a file that reads as no state.
TruncateDeployState == /\ d.pc = "writeState" /\ "writeState" \in FailAt
                       /\ deployState' = NoState
                       /\ Goto("revert")
                       /\ UNCHANGED <<minted, files, procs, caddy, history,
                                      lock, rb>>

\* afterTrafficSwitch: first deploy, the uncoloured process; later ones, the
\* colour that stopped serving, unless retention keeps it.
ReapedColor_Target == d.target
ReapedColor == d.prevColor

AfterTrafficSwitch ==
    /\ d.pc = "afterSwitch"
    /\ IF d.prevColor = NoColor
       THEN legacy' = FALSE /\ UNCHANGED proc
       ELSE /\ proc' = IF reapsPreviousColour
                       THEN [proc EXCEPT ![ReapedColor] = NoProc] ELSE proc
            /\ UNCHANGED legacy
    /\ Goto("record")
    /\ UNCHANGED <<minted, files, workers, caddy, deployState, history, lock,
                   rb>>

RecordSuccess == /\ d.pc = "record"
                 /\ history' = history \cup {<<d.rel, "success">>}
                 /\ Goto("post")
                 /\ UNCHANGED <<minted, files, procs, caddy, deployState, lock,
                                rb>>

\* postDeploy and afterFleet hooks.
PostDeploy == /\ d.pc = "post"
              /\ Goto("cleanup")
              /\ UNCHANGED <<minted, files, procs, caddy, deployState, history,
                             lock, rb>>

\* `ls -1t | tail -n +(keep + 1)`: all but the Keep newest directories. A
\* release is only written to during its own deploy, so newest first is the
\* order of the ids.
OldReleases_NewestFirst ==
    {r \in onDisk : Cardinality({s \in onDisk : s < r}) >= Keep}
OldReleases == {r \in onDisk : Cardinality({s \in onDisk : s > r}) >= Keep}

CleanupOldReleases == /\ d.pc = "cleanup"
                      /\ \/ /\ onDisk' = onDisk \ OldReleases
                            /\ eco' = [r \in Release |->
                                        IF r \in OldReleases THEN NoColor
                                                             ELSE eco[r]]
                         \/ "cleanup" \in FailAt /\ UNCHANGED <<onDisk, eco>>
                      /\ Goto("unlock")
                      /\ UNCHANGED <<minted, current, procs, caddy,
                                     deployState, history, lock, rb>>

\* A command of the try block fails: on to the catch block.
CommandFails == /\ d.pc \in BodySteps
                /\ d.pc \in FailAt \/ (d.pc = "boot" /\ ~Startable)
                /\ Goto("revert")
                /\ UNCHANGED <<minted, files, procs, caddy, deployState,
                               history, lock, rb>>

RevertsSymlink_Always == d.switched /\ d.prev # NoRelease
RevertsSymlink == d.switched /\ d.prev # NoRelease /\ ~d.flipped

Revert == /\ d.pc = "revert"
          /\ \/ current' = IF RevertsSymlink THEN d.prev ELSE current
             \/ "revert" \in FailAt /\ UNCHANGED current
          /\ Goto("recordFailed")
          /\ UNCHANGED <<minted, onDisk, eco, procs, caddy, deployState,
                         history, lock, rb>>

RecordFailed == /\ d.pc = "recordFailed"
                /\ \/ history' = history \cup {<<d.rel, "failed">>}
                   \/ "recordFailed" \in FailAt /\ UNCHANGED history
                /\ Goto("unlock")
                /\ UNCHANGED <<minted, files, procs, caddy, deployState, lock,
                               rb>>

\* recordRelease truncates releases.json too, and reads a broken one as no history.
TruncateHistory == /\ d.pc \in {"record", "recordFailed"} /\ d.pc \in FailAt
                   /\ history' = {}
                   /\ Goto(IF d.pc = "record" THEN "revert" ELSE "unlock")
                   /\ UNCHANGED <<minted, files, procs, caddy, deployState,
                                  lock, rb>>

LockAfterDeploy_OnlyOnSuccess ==
    IF <<d.rel, "success">> \in history THEN "free" ELSE lock
LockAfterDeploy == "free"

\* lock.release(), on both paths.
Unlock == /\ d.pc = "unlock"
          /\ lock' = LockAfterDeploy
          /\ d' = NoDeploy
          /\ UNCHANGED <<minted, files, procs, caddy, deployState, history, rb>>

\* The deploying client dies: nothing releases the lock.
DeployCrash == /\ d.pc \in CrashAt
               /\ lock' = "orphan"
               /\ d' = NoDeploy
               /\ UNCHANGED <<minted, files, procs, caddy, deployState,
                              history, rb>>

\* `shipnode unlock`, or a later deploy that finds the lock an hour old.
ClearOrphan == /\ lock = "orphan"
               /\ lock' = "free"
               /\ UNCHANGED <<minted, files, procs, caddy, deployState,
                              history, d, rb>>

\* Another app of the host is deployed and reloads the shared Caddy.
OtherAppReloadsCaddy == /\ upstream # site
                        /\ upstream' = site
                        /\ UNCHANGED <<minted, files, procs, site, deployState,
                                       history, lock, d, rb>>

-----------------------------------------------------------------------------
(* `shipnode rollback` of a blue-green app: rollbackBlueGreen and           *)
(* bootColourFromRelease. It does not take the deploy lock.                 *)

NoRollback == [pc |-> "idle", to |-> NoColor, st |-> NoState,
               before |-> NoRelease]

RollTo(pc) == rb' = IF pc = "idle" THEN NoRollback ELSE [rb EXCEPT !.pc = pc]

\* Reads the state and whether the idle colour is online, and asks. Refused
\* without a state, with retention none, and when the idle colour is down and
\* its release is unrecorded or gone.
StartRollback ==
    LET to == otherColor(deployState.active) IN
    /\ rb.pc = "idle"
    /\ Overlap \/ d.pc = "idle"
    /\ Retention # "none" /\ deployState.active # NoColor
    /\ \/ Online(proc[to])
       \/ deployState.rel[to] \in onDisk
    /\ rb' = [pc |-> IF Online(proc[to]) THEN "rbConfigure" ELSE "rbSwitch",
              to |-> to, st |-> deployState, before |-> NoRelease]
    /\ UNCHANGED <<minted, files, procs, caddy, deployState, history, lock, d>>

RollSwitchSymlink ==
    /\ rb.pc = "rbSwitch"
    /\ rb' = [rb EXCEPT !.pc = "rbBoot", !.before = current]
    /\ current' = rb.st.rel[rb.to]
    /\ UNCHANGED <<minted, onDisk, eco, procs, caddy, deployState, history,
                   lock, d>>

RollBoot == /\ rb.pc = "rbBoot"
            /\ startCurrent
            /\ RollTo("rbHealth")
            /\ UNCHANGED <<minted, files, legacy, workers, caddy, deployState,
                           history, lock, d>>

RollHealthCheck ==
    /\ rb.pc = "rbHealth"
    /\ RollTo(IF passesHealthCheck(rb.to) THEN "rbConfigure" ELSE "rbUndo")
    /\ UNCHANGED <<minted, files, procs, caddy, deployState, history, lock, d>>

\* The catch block of bootColourFromRelease: both commands are best effort.
RollUndo ==
    /\ rb.pc = "rbUndo"
    /\ \/ proc' = [proc EXCEPT ![rb.to] = NoProc]
       \/ "rbUndo" \in FailAt /\ UNCHANGED proc
    /\ RollTo("rbRestore")
    /\ UNCHANGED <<minted, files, legacy, workers, caddy, deployState, history,
                   lock, d>>

RestoredRelease_Recorded == rb.st.rel[rb.to]
RestoredRelease == IF rb.before # NoRelease THEN rb.before ELSE current

RollRestore ==
    /\ rb.pc = "rbRestore"
    /\ \/ current' = RestoredRelease
       \/ "rbRestore" \in FailAt /\ UNCHANGED current
    /\ RollTo("idle")
    /\ UNCHANGED <<minted, onDisk, eco, procs, caddy, deployState, history,
                   lock, d>>

RollConfigure ==
    /\ rb.pc = "rbConfigure"
    /\ site' = rb.to
    /\ RollTo("rbReload")
    /\ UNCHANGED <<minted, files, procs, upstream, deployState, history, lock,
                   d>>

RollReload ==
    /\ rb.pc = "rbReload"
    /\ upstream' = site
    /\ RollTo("rbWriteState")
    /\ UNCHANGED <<minted, files, procs, site, deployState, history, lock, d>>

RollWriteState ==
    /\ rb.pc = "rbWriteState"
    /\ deployState' = [rb.st EXCEPT !.active = rb.to]
    /\ RollTo(IF Retention = "warm" THEN "rbReap" ELSE "idle")
    /\ UNCHANGED <<minted, files, procs, caddy, history, lock, d>>

RollTruncateState ==
    /\ rb.pc = "rbWriteState" /\ "rbWriteState" \in FailAt
    /\ deployState' = NoState
    /\ RollTo("idle")
    /\ UNCHANGED <<minted, files, procs, caddy, history, lock, d>>

RollReap == /\ rb.pc = "rbReap"
            /\ proc' = [proc EXCEPT ![rb.st.active] = NoProc]
            /\ RollTo("idle")
            /\ UNCHANGED <<minted, files, legacy, workers, caddy, deployState,
                           history, lock, d>>

\* A command fails: inside the try block of bootColourFromRelease its catch
\* block runs, anywhere else the command ends there.
RollCommandFails ==
    /\ rb.pc \in RollSteps \ {"rbUndo", "rbRestore"}
    /\ rb.pc \in FailAt \/ (rb.pc = "rbBoot" /\ ~Startable)
    /\ RollTo(IF rb.pc \in {"rbBoot", "rbHealth"} THEN "rbUndo" ELSE "idle")
    /\ UNCHANGED <<minted, files, procs, caddy, deployState, history, lock, d>>

RollCrash == /\ rb.pc \in CrashAt
             /\ RollTo("idle")
             /\ UNCHANGED <<minted, files, procs, caddy, deployState, history,
                            lock, d>>

-----------------------------------------------------------------------------
(* A host that never ran the app, or one that runs its first release as an  *)
(* uncoloured process on the blue port, served by Caddy.                    *)

Init == /\ legacy \in BOOLEAN
        /\ legacy => MaxRelease >= 1
        /\ minted  = IF legacy THEN LegacyRelease ELSE NoRelease
        /\ onDisk  = IF legacy THEN {LegacyRelease} ELSE {}
        /\ current = minted
        /\ workers = minted
        /\ eco     = [r \in Release |-> NoColor]
        /\ proc    = [c \in Colors |-> NoProc]
        /\ site    = IF legacy THEN "blue" ELSE NoColor
        /\ upstream = site
        /\ deployState = NoState
        /\ history = IF legacy THEN {<<LegacyRelease, "success">>} ELSE {}
        /\ lock = "free"
        /\ d = NoDeploy
        /\ rb = NoRollback

\* What the deploying client does next, as long as it lives.
DeployStep == \/ Create \/ Stage \/ SwitchSymlink \/ ResolveTarget
              \/ WriteEcosystem \/ ReapTarget \/ Boot \/ HealthCheck
              \/ ReloadWorkers \/ ConfigureBackend \/ ReloadCaddy
              \/ WriteDeployState \/ TruncateDeployState
              \/ AfterTrafficSwitch \/ RecordSuccess \/ PostDeploy
              \/ CleanupOldReleases \/ CommandFails
              \/ Revert \/ RecordFailed \/ TruncateHistory \/ Unlock

RollStep == \/ RollSwitchSymlink \/ RollBoot \/ RollHealthCheck \/ RollUndo
            \/ RollRestore \/ RollConfigure \/ RollReload \/ RollWriteState
            \/ RollTruncateState \/ RollReap \/ RollCommandFails

Next == \/ Acquire \/ DeployStep \/ DeployCrash
        \/ StartRollback \/ RollStep \/ RollCrash
        \/ ClearOrphan \/ OtherAppReloadsCaddy

Spec == Init /\ [][Next]_vars

\* Neither client waits for anything but its own remote commands, and each of
\* them returns. Nothing makes anyone start a deploy, unlock, or reload Caddy.
FairSpec == Spec /\ WF_vars(DeployStep) /\ WF_vars(RollStep)

-----------------------------------------------------------------------------
(* Properties. *)

States == [active : Colors \cup {NoColor},
           rel : [Colors -> Release \cup {NoRelease}]]
Procs  == [rel : Release \cup {NoRelease}, cond : AllConds \cup {"absent"}]
Deploys == [pc : DeploySteps \cup {"idle"},
            rel : Release \cup {NoRelease}, prev : Release \cup {NoRelease},
            target : Colors \cup {NoColor}, prevColor : Colors \cup {NoColor},
            carried : States, switched : BOOLEAN, flipped : BOOLEAN]
Rollbacks == [pc : RollSteps \cup {"idle"}, to : Colors \cup {NoColor},
              st : States, before : Release \cup {NoRelease}]

\* Every variable has its type.
TypeOK ==
    /\ minted \in 0 .. MaxRelease
    /\ onDisk \subseteq Release
    /\ current \in Release \cup {NoRelease}
    /\ eco \in [Release -> Colors \cup {NoColor}]
    /\ proc \in [Colors -> Procs]
    /\ legacy \in BOOLEAN
    /\ workers \in Release \cup {NoRelease}
    /\ site \in Colors \cup {NoColor}
    /\ upstream \in Colors \cup {NoColor}
    /\ deployState \in States
    /\ history \subseteq Release \X {"success", "failed"}
    /\ lock \in {"free", "held", "orphan"}
    /\ d \in Deploys
    /\ rb \in Rollbacks

\* Once Caddy has an upstream, a web process answers on it: no deploy, failed
\* deploy or rollback stops the colour that serves before the other one does.
NeverDark == upstream # NoColor => Online(Answering(upstream))

\* Whatever Caddy sends traffic to has passed the health check ("health-checked,
\* and only then does traffic move").
ServesHealthy == upstream # NoColor => Answering(upstream).cond = "healthy"

\* Up to the Caddy reload a deploy has zero user impact: upstream, recorded
\* state and the process behind the upstream stay exactly as they are, whatever
\* fails on the way.
BeforeFlip == d.pc \in {"create", "stage", "switch", "resolve", "eco",
                        "reapTarget", "boot", "health", "workers", "configure"}
DeployLeavesTrafficUntilReload ==
    [][BeforeFlip => /\ upstream' = upstream
                     /\ deployState' = deployState
                     /\ upstream # NoColor =>
                          Answering(upstream)' = Answering(upstream)]_vars

\* The worker set moves only to a release whose web process has passed the
\* health check ("Reloading before health would leave workers on a bad release").
WorkersFollowHealth ==
    [][workers' # workers => \E c \in Colors :
           proc[c].rel = workers' /\ proc[c].cond = "healthy"]_vars

\* The directory of the release that serves traffic, and the one `current`
\* points at, are never pruned.
ServingReleaseOnDisk ==
    /\ current # NoRelease => current \in onDisk
    /\ upstream # NoColor /\ Online(Answering(upstream)) =>
         Answering(upstream).rel \in onDisk

\* A release recorded for a colour starts that colour: what makes a warm
\* rollback boot the process it then health-checks and flips to.
RecordedReleaseLaunchesColour ==
    \A c \in Colors : deployState.rel[c] \in onDisk =>
                        eco[deployState.rel[c]] = c

\* A deploy that reports success leaves everything on its release: current,
\* Caddy, the recorded state, a healthy web process, the workers; the previous
\* colour or the uncoloured process is gone unless retention keeps it.
SuccessfulDeployConverged ==
    d.pc = "cleanup" =>
        /\ current = d.rel /\ workers = d.rel /\ d.rel \in onDisk
        /\ upstream = d.target /\ site = d.target
        /\ deployState.active = d.target
        /\ deployState.rel[d.target] = d.rel
        /\ proc[d.target] = [rel |-> d.rel, cond |-> "healthy"]
        /\ IF d.prevColor = NoColor THEN ~legacy
           ELSE Retention # "rollback" => proc[d.prevColor] = NoProc
        /\ <<d.rel, "success">> \in history

\* A rollback that cannot start the colour leaves the app as it was: `current`
\* back where it was, the half-started colour gone, traffic and state untouched.
RollbackUndone ==
    [][RollRestore =>
         /\ current' = rb.before
         /\ proc'[rb.to] = NoProc
         /\ deployState' = rb.st
         /\ upstream' = rb.st.active]_vars

\* A deploy whose client lives lets go of the lock, on success and on failure.
DeployReleasesLock == (lock = "held") ~> (lock # "held")

-----------------------------------------------------------------------------
(* What a visitor of the site is promised: see TrafficSwitch. *)

Dark == -1

\* The release that answers: none before the first blue-green flip, Dark when
\* the process behind the upstream is down or fails.
Served == IF upstream = NoColor \/ (upstream = "blue" /\ legacy) THEN NoRelease
          ELSE IF proc[upstream].cond = "healthy" THEN proc[upstream].rel
          ELSE Dark

\* However a deploy ends, `current` ends on the release that serves: the new one
\* once traffic moved, even if a later step failed, else the one from before.
CurrentFollowsTraffic ==
    [][Unlock => IF d.flipped THEN current = d.rel /\ Served = d.rel
                 ELSE d.prev # NoRelease => current = d.prev]_vars

\* What a rollback returns to: the release recorded for the colour that is not
\* serving (between a reload and the write of the state that is the active one).
Fallback == IF deployState.active = NoColor THEN NoRelease
            ELSE IF upstream = deployState.active
                 THEN deployState.rel[otherColor(upstream)]
                 ELSE deployState.rel[deployState.active]

Traffic == INSTANCE TrafficSwitch WITH serving <- Served, fallback <- Fallback

\* Traffic goes from release to release, never to nothing, forward by a deploy
\* and back by a rollback to the release that served before.
TrafficSpec == Traffic!Spec
=============================================================================
