-------------------------------- MODULE Fleet --------------------------------
(***************************************************************************)
(* `shipnode deploy` and `shipnode rollback` over a whole workspace: the    *)
(* fan-out over servers (cli/runner.ts), accessories and single-server apps *)
(* on each of them, and the roll of each fleet app across its replicas      *)
(* (cli/commands/deploy.ts, rollback.ts, domain/deploy/fleet.ts). What one  *)
(* replica does is BlueGreen's pipeline, here its effect on the pair that   *)
(* TrafficSwitch describes; the order of lock, hooks and flip is kept.      *)
(***************************************************************************)
EXTENDS ServerTargets

CONSTANTS
    Workspaces,   \* the configurations that may be loaded
    Clients,      \* operators' shells
    Overlapped,   \* bound: those in which a second command may start meanwhile
    MaxCommands,  \* bound: [Workspaces -> Nat], how many commands are started
    FailAt,       \* the steps at which a remote command may fail
    CrashAt       \* the steps in front of which a client may die

\* Neither is the mark of a lock without an owner.
ASSUME ClientsAssumption == {"free", "orphan"} \cap Clients = {}
ASSUME WorkspacesAssumption == \A w \in Workspaces : ShipnodeConfig(w)

VARIABLES
    ws,           \* the loaded workspace
    rep,          \* [app][server]: the release that serves, and the previous one
    up,           \* accessories whose container runs
    lock,         \* [server]: who made .shipnode/deploy.lock
    migrated,     \* [app]: releases whose beforeFleet hook succeeded
    sched,        \* <<app, server>> where `placement: 'primary'` processes run
    minted,       \* number of release ids minted so far
    started,      \* number of commands started so far
    cmd           \* [client]: its command

host == <<rep, up, lock, migrated, sched>>
vars == <<ws, host, minted, started, cmd>>

All == "all"     \* no --app, or no --on

Idle == [op |-> "none", app |-> All, on |-> All, phase |-> "idle", at |-> "none",
         todo |-> <<>>, jobs |-> <<>>, fleets |-> <<>>, release |-> 0, ok |-> TRUE,
         applied |-> <<>>, failed |-> <<>>, skipped |-> <<>>, alone |-> TRUE]

Active(c) == cmd[c].phase # "idle"
At(c, l)  == cmd[c].at = l
Here(c)   == Head(cmd[c].todo)
Set(c, r) == cmd' = [cmd EXCEPT ![c] = r]
Goto(c, l) == Set(c, [cmd[c] EXCEPT !.at = l])

\* The workspace as --app narrows it.
Scope(app) == IF app = All THEN ws ELSE configForApp(ws, AppNamed(ws, app))
Narrow(servers, on) == IF on = All THEN servers ELSE Only(servers, {on})

Fleets(app)    == {a \in Apps(Scope(app)) : isFleet(Scope(app), a)}
FleetApps(app) == Only(Scope(app).apps, Fleets(app))
SoloApps(app)  == Only(Scope(app).apps, Apps(Scope(app)) \ Fleets(app))

\* The servers a fan-out visits, and its work on one of them: accessories first,
\* then the apps that are not fleets.
NonEmpty(scope, s) == LET at == configForServer(scope, s)
                      IN  at.apps # <<>> \/ at.accessories # <<>>
Targets(app, on) == Only(Narrow(getServerTargets(Scope(app)), on),
                         {s \in Known(Scope(app)) : NonEmpty(Scope(app), s)})
Jobs(app, s) ==
    LET at   == configForServer(Scope(app), s)
        Job(kind, xs) == [i \in DOMAIN xs |-> <<kind, xs[i].name>>]
    IN  Job("accessory", at.accessories)
        \o Job("app", Only(at.apps, Apps(at) \ Fleets(app)))
Replicas(app)  == getServerTargets(configForApp(ws, AppNamed(ws, app)))

-----------------------------------------------------------------------------
(* Where a command goes from one server to the next. *)

\* process.exit(1) at the end of a fan-out that failed anywhere.
Exits_Never(r) == FALSE
Exits(r) == r.failed # <<>>

FanTo(r, servers) ==
    CASE servers # <<>> ->
            [r EXCEPT !.phase = "fan", !.at = "connect", !.todo = servers, !.ok = TRUE,
                      !.jobs = Jobs(r.app, Head(servers))]
      [] servers = <<>> /\ ~Exits(r) -> [r EXCEPT !.phase = "roll", !.at = "start", !.todo = <<>>]
      [] servers = <<>> /\ Exits(r)  -> Idle

RollTo(r, servers) ==
    IF servers = <<>> THEN [r EXCEPT !.at = "report", !.todo = <<>>, !.jobs = <<>>]
    ELSE [r EXCEPT !.at = "connect", !.todo = servers, !.ok = TRUE,
                   !.jobs = <<<<"app", Head(r.fleets)>>>>]

\* A visit ends: a fan-out goes on to the next server, a roll stops at a failure.
RestOfRoll_Continue(r, ok) == Tail(r.todo)
RestOfRoll(r, ok) == IF ok THEN Tail(r.todo) ELSE <<>>

AfterVisit(r, ok) ==
    LET s    == Head(r.todo)
        rest == Tail(r.todo)
    IN  CASE r.phase = "fan" ->
               FanTo([r EXCEPT !.failed = IF ok THEN @ ELSE Append(@, s)], rest)
          [] r.phase = "roll" /\ ok ->
               RollTo([r EXCEPT !.applied = Append(@, s)], RestOfRoll(r, ok))
          [] r.phase = "roll" /\ ~ok ->
               RollTo([r EXCEPT !.failed = <<s>>, !.skipped = rest], RestOfRoll(r, ok))

\* A step fails: the catch block of DeployOrchestrator.deploy releases the lock.
AfterFailure_KeepLock(c) == AfterVisit(cmd[c], FALSE)
AfterFailure(c) == [cmd[c] EXCEPT !.at = "unlock", !.ok = FALSE]
Fails(c) == cmd[c].at \in FailAt /\ Set(c, AfterFailure(c))

-----------------------------------------------------------------------------
(* cmdDeploy *)

Quiet == \A d \in Clients : ~Active(d)

StartCommand(c, r) ==
    /\ ~Active(c) /\ started < MaxCommands[ws]
    /\ started' = started + 1
    /\ Quiet \/ ws \in Overlapped
    /\ cmd' = [d \in Clients |-> IF d = c THEN [r EXCEPT !.alone = Quiet]
                                 ELSE IF Active(d) THEN [cmd[d] EXCEPT !.alone = FALSE]
                                 ELSE cmd[d]]

StartDeploy(c, app, on) ==
    LET r == [Idle EXCEPT !.op = "deploy", !.app = app, !.on = on,
                          !.fleets = [i \in DOMAIN FleetApps(app) |-> FleetApps(app)[i].name]]
    IN  /\ on # All => on \in Known(Scope(app))
        /\ StartCommand(c, IF SoloApps(app) # <<>> \/ app = All
                           THEN FanTo(r, Targets(app, on))
                           ELSE [r EXCEPT !.phase = "roll", !.at = "start"])
        /\ UNCHANGED <<ws, host, minted>>

\* A timestamp: later than all before it.
newReleaseId_Kept == IF minted = 0 THEN 1 ELSE minted
newReleaseId == minted + 1

\* rollFleetApp: the next fleet app. A `--on` it does not run on ends the command.
StartRoll(c) ==
    LET r    == cmd[c]
        name == Head(r.fleets)
    IN  /\ r.phase = "roll" /\ At(c, "start")
        /\ IF r.fleets = <<>> \/ (r.on # All /\ ~Contains(Replicas(name), r.on))
           THEN Set(c, Idle) /\ UNCHANGED minted
           ELSE /\ minted' = newReleaseId
                /\ Set(c, RollTo([r EXCEPT !.release = newReleaseId, !.applied = <<>>],
                                 Narrow(Replicas(name), r.on)))
        /\ UNCHANGED <<ws, host, started>>

\* A roll's connection is opened outside its try block.
Connect(c) ==
    /\ At(c, "connect")
    /\ \/ Goto(c, IF cmd[c].op = "rollback" THEN "swap" ELSE "lock")
       \/ /\ "connect" \in FailAt
          /\ Set(c, IF cmd[c].phase = "fan" THEN AfterVisit(cmd[c], FALSE) ELSE Idle)
    /\ UNCHANGED <<ws, host, minted, started>>

\* DeployLock.acquire. A server with nothing but fleet apps is left again.
Lock(c) ==
    LET s == Here(c)
    IN  /\ At(c, "lock")
        /\ CASE cmd[c].jobs = <<>> -> Set(c, AfterVisit(cmd[c], TRUE)) /\ UNCHANGED lock
             [] cmd[c].jobs # <<>> /\ lock[s] = "free" ->
                    lock' = [lock EXCEPT ![s] = c] /\ Goto(c, "job")
             [] cmd[c].jobs # <<>> /\ lock[s] # "free" ->
                    Set(c, AfterVisit(cmd[c], FALSE)) /\ UNCHANGED lock
        /\ UNCHANGED <<ws, rep, up, migrated, sched, minted, started>>

JobDone(r) == LET rest == Tail(r.jobs)
              IN  [r EXCEPT !.jobs = rest, !.at = IF rest = <<>> THEN "unlock" ELSE "job"]

\* AccessoryService.ensureAll: pull, `rm -f`, run, health check.
EnsureAccessory(c) ==
    LET job == Head(cmd[c].jobs)
    IN  /\ At(c, "job") /\ job[1] = "accessory"
        /\ \/ up' = up \cup {job[2]} /\ Set(c, JobDone(cmd[c]))
           \/ up' \in {up, up \ {job[2]}, up \cup {job[2]}} /\ Fails(c)
        /\ UNCHANGED <<ws, rep, lock, migrated, sched, minted, started>>

\* The app's name, and what its orchestrator is told of this replica's place.
App(c) == Head(cmd[c].jobs)[2]
Rolling(c) == cmd[c].phase = "roll"
Roll(c) == Narrow(Replicas(App(c)), cmd[c].on)
First_Primary(c) == Rolling(c) => Here(c) = Head(Replicas(App(c)))
First(c) == Rolling(c) => Here(c) = Head(Roll(c))
IsLast_Declared(c) == Rolling(c) => Here(c) = Last(AppNamed(ws, App(c)).on)
IsLast(c)  == Rolling(c) => Here(c) = Last(Roll(c))
Primary_OfRoll(c) == Rolling(c) => Here(c) = Roll(c)[1]
Primary(c) == Rolling(c) => Here(c) = Replicas(App(c))[1]

\* createReleasePath, stage and setupEnvironment; a single-server app mints here.
Stage(c) ==
    /\ At(c, "job") /\ Head(cmd[c].jobs)[1] = "app"
    /\ minted' = IF Rolling(c) THEN minted ELSE newReleaseId
    /\ \/ Set(c, [cmd[c] EXCEPT !.at = "beforeFleet",
                                 !.release = IF Rolling(c) THEN @ ELSE newReleaseId])
       \/ Fails(c)
    /\ UNCHANGED <<ws, host, started>>

BeforeFleet(c) ==
    /\ At(c, "beforeFleet")
    /\ \/ /\ migrated' = IF First(c)
                         THEN [migrated EXCEPT ![App(c)] = @ \cup {cmd[c].release}]
                         ELSE migrated
          /\ Goto(c, "flip")
       \/ First(c) /\ Fails(c) /\ UNCHANGED migrated
    /\ UNCHANGED <<ws, rep, up, lock, sched, minted, started>>

\* preDeploy to the flip: a failure leaves the replica on its previous release.
Flip(c) ==
    LET a == App(c)
        s == Here(c)
    IN  /\ At(c, "flip")
        /\ \/ /\ rep' = [rep EXCEPT ![a][s] = [serving |-> cmd[c].release,
                                               fallback |-> @.serving]]
              /\ sched' = IF Primary(c) THEN sched \cup {<<a, s>>} ELSE sched
              /\ Goto(c, "post")
           \/ Fails(c) /\ UNCHANGED <<rep, sched>>
        /\ UNCHANGED <<ws, up, lock, migrated, minted, started>>

\* recordRelease and postDeploy, then afterFleet on the last replica, cleanup.
Post(c) ==
    /\ At(c, "post")
    /\ Set(c, JobDone(cmd[c])) \/ Fails(c)
    /\ UNCHANGED <<ws, host, minted, started>>

Unlock(c) ==
    /\ At(c, "unlock")
    /\ lock' = [lock EXCEPT ![Here(c)] = "free"]
    /\ Set(c, AfterVisit(cmd[c], cmd[c].ok))
    /\ UNCHANGED <<ws, rep, up, migrated, sched, minted, started>>

\* The outcome of a roll is printed; a failed one exits, another fleet app follows.
Report(c) ==
    /\ At(c, "report")
    /\ Set(c, IF cmd[c].failed # <<>> \/ cmd[c].op = "rollback" THEN Idle
              ELSE [cmd[c] EXCEPT !.at = "start", !.fleets = Tail(@)])
    /\ UNCHANGED <<ws, host, minted, started>>

-----------------------------------------------------------------------------
(* cmdRollback of a zero-downtime app. `--on` is not read for a single server. *)

StartRollback(c, app, on) ==
    LET all == Replicas(app)
        servers == IF Len(all) > 1 THEN Narrow(all, on) ELSE all
    IN  /\ zeroDowntime(ws, AppNamed(ws, app))
        /\ servers # <<>>
        /\ StartCommand(c, RollTo([Idle EXCEPT !.op = "rollback", !.app = app, !.on = on,
                                               !.phase = "roll", !.fleets = <<app>>], servers))
        /\ UNCHANGED <<ws, host, minted>>

\* rollbackReplica: what the previous colour runs serves again. No lock is taken.
Swap(c) ==
    LET r == rep[cmd[c].app][Here(c)]
        back == rep' = [rep EXCEPT ![cmd[c].app][Here(c)] =
                           [serving |-> r.fallback, fallback |-> r.serving]]
    IN  /\ At(c, "swap")
        /\ \/ r.fallback # 0 /\ back /\ Set(c, AfterVisit(cmd[c], TRUE))
           \/ /\ r.fallback = 0 \/ "swap" \in FailAt
              /\ UNCHANGED rep /\ Set(c, AfterVisit(cmd[c], FALSE))
        /\ UNCHANGED <<ws, up, lock, migrated, sched, minted, started>>

-----------------------------------------------------------------------------
(* The environment. *)

\* The client dies; a lock it holds stays.
Crash(c) ==
    /\ Active(c) /\ cmd[c].at \in CrashAt
    /\ lock' = [s \in DOMAIN lock |-> IF lock[s] = c THEN "orphan" ELSE lock[s]]
    /\ Set(c, Idle)
    /\ UNCHANGED <<ws, rep, up, migrated, sched, minted, started>>

\* A stale lock is taken over, or `shipnode unlock` removes it.
ClearOrphan(s) ==
    /\ lock[s] = "orphan"
    /\ lock' = [lock EXCEPT ![s] = "free"]
    /\ UNCHANGED <<ws, rep, up, migrated, sched, minted, started, cmd>>

Names(w) == {a.name : a \in Apps(w)}

Init == /\ ws \in {w \in Workspaces : Valid(w)}
        /\ rep = [a \in Names(ws) |-> [s \in Known(ws) |-> [serving |-> 0, fallback |-> 0]]]
        /\ up = {}
        /\ lock = [s \in Known(ws) |-> "free"]
        /\ migrated = [a \in Names(ws) |-> {}]
        /\ sched = {}
        /\ minted = 0 /\ started = 0
        /\ cmd = [c \in Clients |-> Idle]

Step(c) == \/ StartRoll(c) \/ Connect(c) \/ Lock(c) \/ EnsureAccessory(c) \/ Stage(c)
           \/ BeforeFleet(c) \/ Flip(c) \/ Post(c) \/ Unlock(c) \/ Report(c) \/ Swap(c)

Next == \/ \E c \in Clients :
              \/ Step(c) \/ Crash(c)
              \/ \E on \in Known(ws) \cup {All} :
                    \/ \E app \in Names(ws) \cup {All} : StartDeploy(c, app, on)
                    \/ \E app \in Names(ws) : StartRollback(c, app, on)
        \/ \E s \in Known(ws) : ClearOrphan(s)

Spec == Init /\ [][Next]_vars

-----------------------------------------------------------------------------
(* Properties of the layout. *)

\* A server needs another one first, directly or through others.
Needs(s) ==
    LET n == serverPrerequisites(ws)
        closed == {C \in SUBSET Known(ws) : n[s] \subseteq C /\ \A t \in C : n[t] \subseteq C}
    IN  {t \in Known(ws) : \A C \in closed : t \in C}

\* getServerTargets visits every server once, and where the dependencies have no
\* cycle, a server hosting an accessory before those whose apps depend on it.
DependenciesFirst ==
    LET order == getServerTargets(ws)
        pos(s) == CHOOSE i \in DOMAIN order : order[i] = s
    IN  /\ Len(order) = Len(ws.servers) /\ ToSet(order) = Known(ws)
        /\ (\A s \in Known(ws) : s \notin Needs(s)) =>
              \A s \in Known(ws) : \A t \in Needs(s) : pos(t) < pos(s)

\* In a workspace the schema accepts, every replica of an app reaches the
\* accessories it depends on at the address it is given, through the firewall of
\* their server (accessories that publish a port at all).
DependencyReachable ==
    \A a \in Apps(ws) : \A x \in Dependencies(ws, a) : \A s \in ServersOf(ws, a) :
        LET at == accessoryHostEnv(ws, a)[x.name]
        IN  \/ s = HostOf(ws, x)
            \/ publishedHostPorts(x) = {}
            \/ /\ at = ws.host[HostOf(ws, x)]
               /\ \E p \in x.ports :
                     /\ p.bind # "loopback"
                     /\ p.port # 0 => [port |-> p.port, from |-> ws.host[s]]
                                         \in fleetFirewallRules(ws, HostOf(ws, x))

\* However a command narrows the workspace, to a server or to an app and then to
\* a server, the managed database belongs to one server's configuration, the same.
DatabaseOnOneServer ==
    \A on \in ws.database :
        LET home == expandTarget(ws, on)[1]
            has(w) == {s \in Known(w) : configForServer(w, s).database # {}}
        IN  /\ has(ws) = {home}
            /\ \A a \in Apps(ws) : has(configForApp(ws, a)) = {home} \cap ServersOf(ws, a)

-----------------------------------------------------------------------------
(* Properties of the commands. *)

\* No release takes traffic anywhere before its beforeFleet migration succeeded,
\* whatever `--on` and earlier failures left of the roll.
MigratedBeforeServing ==
    \A a \in Names(ws) : \A s \in Known(ws) :
        rep[a][s].serving # 0 => rep[a][s].serving \in migrated[a]

\* afterFleet runs when every replica serves the release: a roll of all replicas
\* that nobody interfered with ("every server is now on this release").
ContractsConverged ==
    [][\A c \in Clients : Post(c) /\ cmd'[c].ok /\ IsLast(c)
                          /\ cmd[c].alone /\ cmd[c].on = All =>
          \A s \in ServersOf(ws, AppNamed(ws, App(c))) :
              rep[App(c)][s].serving = cmd[c].release]_vars

\* What a deploy reports of an undisturbed roll is true: the applied replicas serve
\* the release, those it skipped do not, each replica is in one list; a complete
\* roll is a converged fleet.
ReportTruthful ==
    \A c \in Clients : At(c, "report") /\ cmd[c].op = "deploy" /\ cmd[c].alone =>
        LET r == cmd[c]
            a == Head(r.fleets)
            serves(s) == rep[a][s].serving = r.release
        IN  /\ \A s \in ToSet(r.applied) : serves(s)
            /\ \A s \in ToSet(r.skipped) : ~serves(s)
            /\ r.applied \o r.failed \o r.skipped = Narrow(Replicas(a), r.on)
            /\ r.failed = <<>> /\ r.on = All =>
                  assessConvergence([s \in ToSet(r.applied) |-> rep[a][s].serving])

\* `placement: 'primary'` processes run on one server, though deploys of single
\* replicas come in any order: no second copy of a scheduler.
OneScheduler == \A p, q \in sched : p[1] = q[1] => p[2] = q[2]

\* A lock that is no orphan is held by the client that works on that server, and
\* by nobody else: deploys of one server exclude each other, and none leaves its
\* lock behind, whichever step fails.
WorkSteps == {"job", "beforeFleet", "flip", "post", "unlock"}
WorksOn(c, s) == cmd[c].at \in WorkSteps /\ cmd[c].todo # <<>> /\ Head(cmd[c].todo) = s
LockIffWorking ==
    \A c \in Clients : \A s \in Known(ws) : lock[s] = c <=> WorksOn(c, s)

\* A roll in a whole-workspace deploy starts with every accessory up: "the
\* accessories they depend on are already up".
FleetAfterAccessories ==
    \A c \in Clients : Rolling(c) /\ cmd[c].op = "deploy" /\ cmd[c].alone
                       /\ cmd[c].app = All /\ cmd[c].on = All =>
        {x.name : x \in ToSet(ws.accessories)} \subseteq up

\* As long as commands do not overlap, each replica of each app implements
\* TrafficSwitch: fan-outs, rolls and rollbacks that stop half-way, are narrowed
\* and repeated never put a release over itself or over a newer one.
Replica(a, s) == INSTANCE TrafficSwitch WITH serving <- rep[a][s].serving,
                                             fallback <- rep[a][s].fallback,
                                             Release <- Nat \ {0}
ReplicasSwitchTraffic ==
    [][(\A c \in Clients : Active(c) => cmd[c].alone) =>
          \A a \in Names(ws), s \in Known(ws) : [Replica(a, s)!Next]_(rep[a][s])]_vars

=============================================================================
