------------------------------ MODULE Recreate ------------------------------
(***************************************************************************)
(* Releases of a backend app without zero downtime on one server: the      *)
(* recreate path of domain/deploy/orchestrator.ts and backend-strategy.ts  *)
(* under PM2, and the systemd units of the watt runtime                    *)
(* (domain/runtime/watt.ts); the rollback that follows the history         *)
(* (cli/commands/rollback.ts), the one of the monitor                      *)
(* (cli/monitor/actions.ts), `shipnode restart` and `shipnode stop`.       *)
(* A process of an earlier PM2 deployment may hold the port of an app that *)
(* adopts watt. A step is a remote command, which may fail if its step is  *)
(* in FailAt, with or without its effect; the best-effort steps of the     *)
(* catch block and the commands behind `|| true` fail unnoticed. Processes *)
(* crash and servers reboot between commands.                              *)
(***************************************************************************)
EXTENDS Integers, Sequences, FiniteSets

CONSTANTS
    MaxRelease,  \* bound: releases that are deployed
    Keep,        \* app.keepReleases
    Runtimes,    \* subset of {"pm2", "watt"}
    Configs,     \* the process sets an operator's config may declare
    Faults,      \* the sets of processes that may be faulty in one release
    FailAt,      \* <<release, step>>: while that release is the newest, the step's
                 \* command may fail, or, where the step is "die", the client may die
    MaxEvents    \* bound: rollbacks, restarts, stops, crashes and reboots

Name    == {"web", "worker"}
Release == 1 .. MaxRelease
None    == 0

ASSUME RecreateAssumption ==
    /\ MaxRelease \in Nat /\ MaxEvents \in Nat /\ Keep \in Nat \ {0}
    /\ Runtimes \subseteq {"pm2", "watt"}
    /\ Configs \subseteq {P \in SUBSET Name : "web" \in P}

VARIABLES
    runtime, checked,  \* app.runtime, app.healthCheck.enabled
    config,            \* the processes the operator's config declares
    faulty,            \* [release]: its processes that crash, or do not answer
    eco,               \* [release]: processes in its ecosystem file or launchers
    disk, current,     \* releases/ and the symlink
    history,           \* releases.json: the ids, in order; nothing reads their status
    proc,              \* [name]: what PM2 or systemd runs under that name
    boot,              \* names in PM2's dump, or enabled units
    legacy, dumped,    \* an old PM2 process holds the port; PM2's dump has it
    minted, events,
    cmd                \* the running command

files == <<eco, disk, current>>
host  == <<proc, boot, legacy>>
input == <<runtime, checked, config, faulty, dumped>>
vars  == <<input, files, history, host, minted, events, cmd>>

Idle == [op |-> "none", pc |-> "idle", id |-> None, prev |-> None,
         switched |-> FALSE, lost |-> FALSE, was |-> <<>>]
\* lost: the catch block cannot know or change what `current` names; was: what a
\* reboot would have started before the deploy.

At(l)   == cmd.pc = l
Goto(l) == cmd' = [cmd EXCEPT !.pc = l]
May(l)  == <<minted, l>> \in FailAt
Fail(l) == May(l) /\ cmd' = [cmd EXCEPT !.pc = "revert"]

-----------------------------------------------------------------------------
(* Processes. They start in `current`, so a restart runs what it names.     *)

Absent == [rel |-> None, state |-> "absent", restarted |-> FALSE]

\* A release starts what its files declare. PM2 keeps processes they do not name,
\* which run what `current` holds, if that release can run them.
Runnable(n, r) ==
    r \in disk /\ (n \in eco[r] \/ (runtime = "pm2" /\ n \notin faulty[r]))

Launched(n, r, restarted) ==
    IF Runnable(n, r)
    THEN [rel |-> r, state |-> "online",
          restarted |-> restarted \/ (n = "worker" /\ n \in faulty[r])]
    ELSE [rel |-> r, state |-> "errored", restarted |-> restarted]

\* What would run after a reboot: its release, or None.
Survives == [n \in Name |-> IF n \in boot /\ Runnable(n, current) THEN current ELSE None]

Present == {n \in Name : proc[n].state # "absent"}

\* PM2 counts a requested restart, systemd only the restarts of its own.
Counts(n) == runtime = "pm2" /\ proc[n].state = "online"

\* `pm2 reload name`, where the name is that of the web process and of the
\* namespace: either may be meant. Under watt, the declared units there are.
Targets == (IF runtime = "pm2" THEN {{"web"} \cap Present, Present} ELSE {config \cap boot})
           \ {{}}

\* A unit started while the old process holds the port may die of that and be
\* started again.
Restarted(names) ==
    {[n \in Name |-> IF n \in names
                     THEN Launched(n, current, Counts(n) \/ (n = "web" /\ died))
                     ELSE proc[n]] : died \in {FALSE, legacy}}

\* perform: the HTTP probe, which whatever holds the port answers; then every
\* declared process is online and was not restarted.
Serves  == proc["web"].state = "online" /\ "web" \notin faulty[proc["web"].rel]
Answers == legacy \/ Serves
performStatusCheck_WebOnly ==
    proc["web"].state = "online" /\ ~proc["web"].restarted
performStatusCheck ==
    \A n \in config : proc[n].state = "online" /\ ~proc[n].restarted
Healthy == checked => Answers /\ performStatusCheck

-----------------------------------------------------------------------------
(* deployApp *)

StartDeploy ==
    /\ At("idle") /\ minted < MaxRelease
    /\ minted' = minted + 1
    /\ config' \in Configs
    /\ \E bad \in Faults : faulty' = [faulty EXCEPT ![minted'] = bad]
    /\ cmd' = [Idle EXCEPT !.op = "deploy", !.pc = "stage", !.id = minted',
                           !.was = Survives]
    /\ UNCHANGED <<runtime, checked, dumped, files, history, host, events>>

\* createReleasePath, stage, setupEnvironment, beforeFleet and preDeploy.
Stage ==
    /\ At("stage")
    /\ \/ disk' = disk \cup {cmd.id}
          /\ cmd' = [cmd EXCEPT !.pc = "switch", !.prev = current]
       \/ disk' \in {disk, disk \cup {cmd.id}} /\ Fail("stage")
    /\ UNCHANGED <<input, eco, current, history, host, minted, events>>

Switch ==
    /\ At("switch")
    /\ \/ current' = cmd.id
          /\ cmd' = [cmd EXCEPT !.pc = "files", !.switched = TRUE]
       \/ Fail("switch") /\ UNCHANGED current
       \/ /\ May("switch") /\ current' = cmd.id
          /\ cmd' = [cmd EXCEPT !.pc = "revert", !.lost = TRUE]
    /\ UNCHANGED <<input, eco, disk, history, host, minted, events>>

\* writeEcosystem, or writeWattConfigs and provisionWattProcess, which enables
\* the units; relinkPackages and the guards.
Enables == IF runtime = "watt" THEN config ELSE {}
WriteFiles ==
    /\ At("files")
    /\ \/ /\ eco' = [eco EXCEPT ![cmd.id] = config]
          /\ boot' = boot \cup Enables
          /\ Goto("start") \/ Fail("files")
       \/ Fail("files") /\ UNCHANGED <<eco, boot>>
    /\ UNCHANGED <<input, disk, current, history, proc, legacy, minted, events>>

\* pm2 delete, pm2 start, pm2 save, in one command. The deletes, of the file and
\* then of the namespace, take every process of the app, dropped workers too; they
\* may fail unnoticed. The guard on the port that follows never stops the command.
Left == IF May("delete") THEN SUBSET Present ELSE {{}}
Deleted(left) == [n \in Name |-> IF n \in left THEN proc[n] ELSE Absent]
Started(left) == [n \in Name |-> IF n \in eco[cmd.id]
                                THEN Launched(n, current, n \in left /\ Counts(n))
                                ELSE Deleted(left)[n]]
Saved_Declared(p) == boot
Saved(p) == {n \in Name : p[n].state # "absent"}

StartRecreate ==
    /\ At("start") /\ runtime = "pm2"
    /\ \E left \in Left :
          \/ /\ proc' = Started(left) /\ boot' = Saved(proc')
             /\ Goto("health") \/ Fail("start")
          \/ proc' \in {proc, Deleted(left), Started(left)} /\ UNCHANGED boot /\ Fail("start")
    /\ UNCHANGED <<input, files, history, legacy, minted, events>>

\* The web unit, the workers' units, and only then the PM2 process of the same
\* app, whose delete may fail unnoticed and does not save PM2's dump.
Retired == IF May("delete") THEN {FALSE, legacy} ELSE {FALSE}
StartWatt ==
    /\ At("start") /\ runtime = "watt"
    /\ \/ /\ proc' \in Restarted(eco[cmd.id]) /\ legacy' \in Retired
          /\ Goto("health") \/ Fail("start")
       \/ /\ Fail("start") /\ UNCHANGED legacy
          /\ \E names \in {{}, {"web"}, eco[cmd.id]} : proc' \in Restarted(names)
    /\ UNCHANGED <<input, files, history, boot, minted, events>>

\* The old process on the port may also answer badly.
HealthCheck ==
    /\ At("health")
    /\ \/ Healthy /\ Goto("record")
       \/ /\ checked /\ (legacy \/ ~Healthy \/ May("health"))
          /\ cmd' = [cmd EXCEPT !.pc = "revert"]
    /\ UNCHANGED <<input, files, history, host, minted, events>>

\* recordRelease writes over the file: a failure may leave it unreadable.
Recorded == Append(history, cmd.id)
RecordSuccess ==
    /\ At("record")
    /\ \/ history' = Recorded /\ Goto("post")
       \/ history' \in {history, <<>>} /\ Fail("record")
    /\ UNCHANGED <<input, files, host, minted, events>>

\* postDeploy and afterFleet; then cleanupOldReleases, `ls -1t | tail`.
OldReleases == {r \in disk : Cardinality({s \in disk : s > r}) >= Keep}
Finish ==
    /\ At("post")
    /\ \/ disk' = disk \ OldReleases /\ cmd' = Idle
       \/ Fail("post") /\ UNCHANGED disk
    /\ UNCHANGED <<input, eco, current, history, host, minted, events>>

\* The catch block: the processes stay as they are. Both steps are best effort, a
\* failure of either is swallowed.
Reverts_Never == FALSE
Reverts == cmd.switched /\ cmd.prev # None
Revert ==
    /\ At("revert")
    /\ \/ current' = (IF Reverts THEN cmd.prev ELSE current) /\ Goto("recordFailed")
       \/ /\ Reverts /\ May("revert") /\ current' \in {current, cmd.prev}
          /\ cmd' = [cmd EXCEPT !.pc = "recordFailed", !.lost = TRUE]
    /\ UNCHANGED <<input, eco, disk, history, host, minted, events>>
RecordFailed ==
    /\ At("recordFailed")
    /\ history' \in {Recorded} \cup (IF May("recordFailed") THEN {history, <<>>} ELSE {})
    /\ cmd' = Idle
    /\ UNCHANGED <<input, files, host, minted, events>>

Deploy == \/ Stage \/ Switch \/ WriteFiles \/ StartRecreate \/ StartWatt
          \/ HealthCheck \/ RecordSuccess \/ Finish \/ Revert \/ RecordFailed

-----------------------------------------------------------------------------
(* rollbackReplica and rollbackToRelease *)

Event == At("idle") /\ events < MaxEvents /\ events' = events + 1

\* The target is an entry of the history, whatever became of that release.
StartRollback(steps) ==
    LET index == Len(history) - steps
    IN  /\ Event
        /\ Len(history) >= 2 /\ index >= 1
        /\ cmd' = [Idle EXCEPT !.op = "rollback", !.pc = "rbSwitch", !.id = history[index]]
        /\ UNCHANGED <<input, files, history, host, minted>>

\* The monitor asks the server first whether the release is there.
Offered == disk
StartMonitorRollback(r) ==
    /\ Event
    /\ r \in Offered
    /\ cmd' = [Idle EXCEPT !.op = "monitor", !.pc = "rbSwitch", !.id = r]
    /\ UNCHANGED <<input, files, history, host, minted>>

RollbackSwitch ==
    /\ At("rbSwitch")
    /\ \/ current' = cmd.id /\ Goto("rbReload")
       \/ May("rbSwitch") /\ current' \in {current, cmd.id} /\ cmd' = Idle
    /\ UNCHANGED <<input, eco, disk, history, host, minted, events>>

\* `pm2 reload` of the release's ecosystem file starts what is missing and leaves
\* processes it does not name. Where that fails, having reloaded some or for want
\* of a file, the reload by name decides. Units are those of the config.
HasFile == runtime = "pm2" /\ current \in disk /\ eco[current] # {}
Reloads ==
    IF ~HasFile THEN Targets
    ELSE {eco[current]} \cup
         (IF May("ecosystem")
          THEN {some \cup names : some \in SUBSET eco[current], names \in Targets} ELSE {})
RollbackReload ==
    /\ At("rbReload")
    /\ \/ /\ runtime = "watt" => config \subseteq boot
          /\ \E names \in Reloads : proc' \in Restarted(names)
          /\ IF cmd.op = "rollback" THEN Goto("rbHealth") ELSE cmd' = Idle
       \/ /\ \/ Reloads = {} \/ May("rbReload")
             \/ runtime = "watt" /\ ~(config \subseteq boot)
          /\ \E names \in {{}} \cup UNION {SUBSET all : all \in Reloads} :
                 proc' \in Restarted(names)
          /\ cmd' = Idle
    /\ UNCHANGED <<input, files, history, boot, legacy, minted, events>>

\* The health check decides what is reported; nothing is undone.
RollbackHealth ==
    /\ At("rbHealth")
    /\ cmd' = Idle
    /\ UNCHANGED <<input, files, history, host, minted, events>>

Rollback == RollbackSwitch \/ RollbackReload \/ RollbackHealth

-----------------------------------------------------------------------------
(* cmdRestart, cmdStop and the environment. *)

Restart ==
    /\ Event
    /\ \E names \in Targets : proc' \in Restarted(names)
    /\ UNCHANGED <<input, files, history, boot, legacy, minted, cmd>>

Stop ==
    /\ Event
    /\ \E names \in Targets :
          proc' = [n \in Name |-> IF n \in names \cap Present
                                 THEN [proc[n] EXCEPT !.state = "stopped"] ELSE proc[n]]
    /\ UNCHANGED <<input, files, history, boot, legacy, minted, cmd>>

\* The supervisor restarts a process that died.
ProcessDies(n) ==
    /\ Event /\ proc[n].state = "online"
    /\ proc' = [proc EXCEPT ![n] = Launched(n, current, TRUE)]
    /\ UNCHANGED <<input, files, history, boot, legacy, minted, cmd>>

\* systemd starts enabled units; PM2 resurrects its dump, which still names the
\* process watt replaced: one of the two gets the port.
Reboot ==
    /\ Event
    /\ legacy' \in {FALSE, dumped}
    /\ proc' = [n \in Name |-> IF n \in boot THEN Launched(n, current, n = "web" /\ legacy')
                              ELSE Absent]
    /\ UNCHANGED <<input, files, history, boot, minted, cmd>>

\* Nothing of the running command happens any more.
ClientDies ==
    /\ ~At("idle") /\ May("die")
    /\ cmd' = Idle
    /\ UNCHANGED <<input, files, history, host, minted, events>>

Init ==
    /\ runtime \in Runtimes /\ checked \in BOOLEAN /\ config \in Configs
    /\ legacy \in (IF runtime = "watt" THEN BOOLEAN ELSE {FALSE}) /\ dumped = legacy
    /\ faulty = [r \in Release |-> {}] /\ eco = faulty
    /\ disk = {} /\ current = None /\ history = <<>>
    /\ proc = [n \in Name |-> Absent] /\ boot = {}
    /\ minted = 0 /\ events = 0 /\ cmd = Idle

Next == \/ StartDeploy \/ Deploy \/ Rollback \/ Restart \/ Stop \/ Reboot \/ ClientDies
        \/ \E steps \in 1 .. 2 : StartRollback(steps)
        \/ \E r \in Release : StartMonitorRollback(r)
        \/ \E n \in Name : ProcessDies(n)

Spec == Init /\ [][Next]_vars

-----------------------------------------------------------------------------
(* Properties. *)

Succeeds == (Finish /\ cmd'.pc = "idle") \/ (RollbackHealth /\ Healthy)
Good(n)  == proc[n].rel = current /\ proc[n].state = "online" /\ n \notin faulty[current]

\* What a command that passed its health check reports is so: the processes the
\* release declares run the release `current` names, and none of them is faulty.
\* Processes are deleted, reloaded and restarted by name, so one may be missed. An
\* old process on the port answers for the web process, of which nothing is known then.
SuccessRunsCurrent ==
    [][checked /\ Succeeds =>
         \A n \in config \cap eco[current] : (n = "web" /\ legacy) \/ Good(n)]_vars

\* After a reboot the server runs what was deployed: each process of a successful
\* deploy is in what systemd or PM2 starts at boot, and finds its release.
RebootRestoresDeploy ==
    [][Finish /\ cmd'.pc = "idle" => \A n \in config : Survives[n] = cmd.id]_vars

\* A failed deploy whose catch block knew what `current` named, and could change it,
\* leaves the next boot as it was: every process it would have started starts in the
\* same release. `pm2 save` has forgotten the workers that the new config dropped.
Dropped(n) == runtime = "pm2" /\ n \notin config /\ n \notin boot
FailedDeployRestores ==
    [][RecordFailed /\ ~cmd.lost =>
         \A n \in Name : cmd.was[n] # None => Survives[n] = cmd.was[n] \/ Dropped(n)]_vars

=============================================================================
