# Verification of shipnode's release machinery

TLA+ models of [shipnode](../src/README.md), a CLI that deploys Node.js apps to
plain servers over SSH: blue-green and plain deploys with their rollbacks, the
deploy lock, fleets of replicas, `deploy --watch`, the commands that observe a
fleet, Cloudflare tunnels and the administration of servers. TLC checks the
models on small instances; TLAPS proves theorems about them for every value of
their constants. Paths below are relative to `src/`.

- [The system](#the-system)
- [Modules](#modules)
- [How the model corresponds to the code](#how-the-model-corresponds-to-the-code)
- [Runs, bounds and fairness](#runs-bounds-and-fairness)
- [Findings](#findings)
- [Proofs](#proofs)
- [What is abstracted or left out](#what-is-abstracted-or-left-out)
- [Plan](#plan)

## The system

shipnode keeps no server of its own. Every command connects over SSH, runs shell
commands one after the other and keeps its state in files and processes of the
target host, so the state of the system is the state of the host, and each
remote command is a step after which the client may die or another client may
run.

| component | source | state it keeps | operations | what makes it correct |
|---|---|---|---|---|
| Deploy pipeline | `src/domain/deploy/orchestrator.ts`, `backend-strategy.ts`, `blue-green.ts`, `retention.ts` | `current`, ecosystem file of each release, PM2 processes, Caddy site, `deploy-state.json` | lock, stage, switch, start idle colour, health check, workers, flip, record, clean up, revert | traffic never goes to a stopped process; a failure before the flip changes nothing a visitor sees; a reported success means everything converged |
| Blue-green rollback | `src/cli/commands/rollback.ts` | the same | flip to a running idle colour, or boot it from its recorded release first | an app that cannot be rolled back stays as it was; it returns to the release that served before |
| Recreate deploy and rollback, watt units | `backend-strategy.ts`, `src/domain/runtime/watt.ts`, `rollback.ts`, `src/services/health.service.ts`, `src/cli/monitor/actions.ts` | `current`, `releases/`, `releases.json`, PM2 processes and dump, systemd units | delete and start, restart, reload, save, enable; history-driven rollback | success means the current release runs; a reboot brings back what was deployed |
| Deploy lock | `src/domain/release/manager.ts`, `src/cli/commands/unlock.ts` | `.shipnode/deploy.lock/` | acquire with takeover of a stale lock, release, operator's unlock | one deploy at a time; no lock without a holder |
| Server targets | `src/domain/servers.ts`, `networking.ts`, `src/config/schema.ts` | none: functions of the config | order servers, narrow a config, place accessories and the database | dependencies first and reachable, one home for the database |
| Fleet roll | `src/cli/runner.ts`, `src/cli/commands/deploy.ts`, `rollback.ts`, `src/domain/deploy/fleet.ts`, `convergence.ts` | what each replica serves, hooks run, locks, replicas applied, failed, skipped | fan out over servers, roll an app over its replicas, report | hooks once and in order; a true report; one scheduler; locks let go |
| Watch mode | `src/cli/commands/deploy-watch.ts`, `src/domain/deploy/watcher.ts`, `hot-sync.ts` | pending paths, lock held, connection, files of the live release | batch changes, sync, install, build, reload, reconnect, shut down | no saved file is forgotten; nothing is written without the lock; the lock is let go |
| Log stream and viewer | `src/services/observe/log-stream.ts`, `src/domain/observe/log-line.ts`, `log-filter.ts`, `src/cli/monitor/log-view-state.ts` | half lines, replay guard, buffer, filter, offset | follow, reconnect, assemble, filter, count, scroll | reconnects lose and repeat nothing; counts agree with what is seen |
| Monitor | `src/services/observe/session.ts`, `events.ts`, `src/domain/observe/*`, `src/cli/monitor/*` | snapshots, unreachable servers, streaks, the dialog | poll, absorb, alert, roll one replica back | alerts agree with what was seen; a fleet is not split |
| Cloudflare | `src/services/cloudflare.orchestrator.ts`, `src/domain/cloudflare/tunnel.ts`, `src/infrastructure/cloudflare/api.ts` | tunnels and DNS of the account; credentials, config and service of each server | find or create a tunnel, ingress, DNS, write, start | every app's name ends at its server |
| Server administration | `src/cli/commands/setup.ts`, `user.ts`, `harden.ts`, `src/infrastructure/provisioning/security.ts` | users, keys, sudoers, root login, DOCKER-USER | bootstrap, add, sync, remove, harden | nobody is locked out; container ports open to their consumers only |

`PROJECT.json` lists every component with its status and what is left out of it.

**Interactions.** The pipeline calls the strategy, which writes the ecosystem
file *through `current`* and starts PM2 with it; the health check reads the
process; Caddy is rewritten and reloaded; then the colour state is written.
Rollback reads that state and the processes a deploy left behind. Lock, state,
symlink, site file and history are shared by all clients, as is Caddy by all apps
of the host.

The fan-out runs deploys one server after the other, and every deploy is the
pipeline above under that server's lock; watch mode takes the same lock for each
cycle and writes into the release the pipeline made current. The monitor reads
`current`, the history and the lock of every server and may switch `current`
itself. Firewall rules and accessory addresses come from the same placement that
orders the servers.

**What is hard.** Interleavings of a rollback (which takes no lock) with a deploy,
of edits with a running cycle, of Ctrl-C with both; a client that dies between two
commands; each command failing on its own, with a catch block that undoes only
part; files truncated by a failed write; the lock script's check-then-act;
pruning of releases something still needs; processes addressed by names that
change between deploys; rolls that stop half-way and are narrowed the next time;
streams that break in the middle of a line. `hazards` in `PROJECT.json` lists them
line by line, with the properties that cover each.

## Modules

| module | what it is |
|---|---|
| `BlueGreen` | deploy pipeline and rollback of one zero-downtime backend on one server, PM2 runtime, with faults and crashes |
| `TrafficSwitch` | abstract specification: which release answers, and where a rollback returns to |
| `MCBlueGreen` | sets of faults and process outcomes for the runs |
| `BlueGreenProofs` | theorems about `BlueGreen`, and that it implements `TrafficSwitch` |
| `DeployLock` | the lock directory, `acquire`'s shell script command by command, `release`, `shipnode unlock` |
| `MCDeployLock` | symmetry of the clients |
| `DeployLockProofs` | theorems about `DeployLock` |
| `ServerTargets` | pure operators on a workspace: order of servers, narrowing, addresses, firewall rules, the schema's cross-field rules, convergence |
| `Fleet` | `deploy` and `rollback` of a workspace by several clients: fan-out, locks, hooks, rolls, reports |
| `MCFleet` | three workspaces with different fleets, and some hundred layouts |
| `FleetProofs` | theorems about `Fleet`'s commands |
| `LayoutProofs` | theorems about the layout of a workspace: the operators of `ServerTargets` |
| `Recreate` | deploy, rollback, restart, stop and reboot of an app without zero downtime, under PM2 or as systemd units |
| `MCRecreate` | process sets and faults |
| `RecreateProofs` | theorems about `Recreate` |
| `Watch` | `deploy --watch`: editor, watcher, session loop, hot sync, signals |
| `MCWatch` | where the build happens and which watcher runs |
| `WatchProofs` | theorems about `Watch` |
| `LogStream` | the follow loops of `logs --follow` and the monitor |
| `LogView` | what the log viewer shows of the buffered lines |
| `ObserveSession` | the monitor's polling, its events, and the rollback its dashboard offers |
| `Observe` | the three commands that observe, side by side, and their properties |
| `MCObserve` | logs, servers and lines |
| `ObserveProofs` | theorems about `Observe`: the monitor, the log stream and the log view |
| `Tunnel` | `cloudflare init` against the account |
| `Harden` | users, keys, sudo rights and the DOCKER-USER chain |
| `AdminRuns`, `Admin` | the bound `Tunnel` and `Harden` share, and their composition |
| `MCAdmin` | two servers and the consumers of two ports |
| `AdminProofs` | theorems about `Tunnel` and `Harden`, down to the rules of the firewall |

**Composition.** `BlueGreen` uses the lock as one variable (`free`, `held`,
`orphan`); the protocol behind it is `DeployLock`'s. `BlueGreen!TrafficSpec`
instantiates `TrafficSwitch` under the refinement mapping `Served`/`Fallback`;
`Fleet` keeps that same pair for every replica (`rep[app][server]`) and instantiates
`TrafficSwitch` once for each (`Replica(a, s)`): the commands of a workspace, as long
as they do not overlap, do to each of them what `TrafficSwitch` allows
(`ReplicasSwitchTraffic`) and what `BlueGreen` is shown to implement on one server. `Fleet` extends `ServerTargets` and lets every
command walk the servers in the order of `getServerTargets`. `Observe` extends
`LogStream`, `LogView` and `ObserveSession`; `Admin` extends `Tunnel` and `Harden`.

## How the model corresponds to the code

`BlueGreen` has one variable per piece of host state: `onDisk` (`releases/`),
`current`, `eco` (the colour written in each release's
`ecosystem.web.config.cjs`), `proc` (the coloured PM2 process: release and
condition), `legacy` (the uncoloured process of an app deployed before it was
blue-green, on the blue port), `workers`, `site` (Caddy's file), `upstream` (what
Caddy runs), `deployState` (`deploy-state.json`), `history` (`releases.json`) and
`lock`. The local variables of a running command are records: `d`
(`deployApp`'s `previousReleasePath`, `target`, `symlinkSwitched`,
`trafficSwitched` and the place in the pipeline) and `rb` (`rollbackBlueGreen`).

| action | code |
|---|---|
| `Acquire`, `Unlock` | `DeployOrchestrator.deploy`, `orchestrator.ts:66-93` |
| `Create` .. `SwitchSymlink` | `orchestrator.ts:118-145` |
| `ResolveTarget` | `resolveDeployTarget`, `resolveTarget` |
| `WriteEcosystem`, `ReapTarget`, `Boot` | `startBlueGreen`, `backend-strategy.ts:248-295` |
| `HealthCheck`, `ReloadWorkers` | `orchestrator.ts:161-177`, `afterHealthy` |
| `ConfigureBackend`, `ReloadCaddy`, `WriteDeployState` | `orchestrator.ts:182-200` |
| `AfterTrafficSwitch` | `afterTrafficSwitch`, `backend-strategy.ts:330-356` |
| `RecordSuccess`, `PostDeploy`, `CleanupOldReleases` | `orchestrator.ts:207-225` |
| `CommandFails`, `Revert`, `RecordFailed` | the catch block, `orchestrator.ts:226-254` |
| `StartRollback`, `Roll*` | `rollbackBlueGreen` and `bootColourFromRelease`, `rollback.ts:245-417` |
| `DeployCrash`, `RollCrash`, `ClearOrphan`, `OtherAppReloadsCaddy` | the environment |

A process turns out `healthy`, `failing` (online, but the HTTP check fails) or
`errored` when it starts; a process on a port that is taken always dies, because
the port guard in front of `pm2 start` ends in `|| true` and never refuses. A
failed `>` redirection leaves a truncated file: `deploy-state.json` then reads as
no state (`TruncateDeployState`), `releases.json` as no history
(`TruncateHistory`).

`DeployLock` splits `acquire`'s script into `mkdir`, `date >`, `[ -e ]`, `stat`,
`rm -rf` and the second `mkdir`/`date >`, for every client; the lock directory
carries the client that made it, its mtime and whether `acquired` was written.

**`Recreate`** has the files (`disk`, `current`, `eco`, `history`), what the
supervisor runs under each process name (`proc`: release, state, whether a restart
was counted), what it starts at boot (`boot`: PM2's dump or the enabled units), an old
PM2 process of an app that adopts watt (`legacy`, and `dumped`: a reboot may bring it
back), and one record for the running command. Every command of `deployApp`'s
recreate path is an action with its failure. `StartRecreate` deletes every process of
the app, those the new config dropped included, starts the declared ones and saves;
`StartWatt` restarts the units and retires the PM2 process last, without a save.
Commands behind `|| true` may fail unnoticed (`Left`, `Retired`), the port guard stops
nothing, and the probe is answered by whoever holds the port (`Answers`). The catch
block is best effort in both steps: `Revert` and `RecordFailed` may do nothing, and a
switch whose answer is lost has happened without the client knowing (`lost`).
`StartRollback` indexes the history as `rollback.ts:170-184` does; `Reloads` is
`pm2 reload` of an ecosystem file with its fallback to the namespace, `Targets` what a
reload by name may mean.

**`Fleet`** has, for each app and server, the pair `serving`/`fallback`; the locks,
the hooks that succeeded (`migrated`), where `placement: 'primary'` processes run
(`sched`) and the accessories that are up. A command is a record that walks through
`cmdDeploy`: `StartDeploy` narrows the workspace and lists the servers, `Connect`,
`Lock`, one action per job (`EnsureAccessory`, `Stage`, `BeforeFleet`, `Flip`,
`Post`) and `Unlock` visit one of them, `StartRoll` and `Report` begin and end the
roll of a fleet app, `Swap` rolls one replica back. `Fails` is the catch of
`DeployOrchestrator.deploy`, which gives the lock back.

**`Watch`** tells five kinds of path apart: sources, dependency manifests, a file
that may be deleted, a file the build generates among the sources, and the build's
output. Contents are version numbers; what is compiled, installed and running is
the version it was made from. `Notify` and `Scan` are the two watchers, `Emit` the
debounce; `Acquire` .. `Released` the cycle; `Interrupt` .. `Finish` the handler of
Ctrl-C, which runs beside the cycle. `lost` records the cases in which the code
itself forgets an edit (see Findings).

**`LogStream`** follows each source with `chan`, `sent` (lines the open channel
delivered), `half` (the assembler's rest), `guard` (the lines the replay guard
remembers and the candidates it follows) and the level it carries to continuation
lines. **`LogView`** has the pure filter functions and the keys. **`ObserveSession`**
splits a tick into `TickStart`, `Visit` (a worker takes the next server), `Answer`,
`Absorb` and `TickEnd`; `view` is what was last published, which is all the
dashboard's dialog (`OpenDialog`, `Confirm`) sees. Connections are opened once and
never again.

**`Tunnel`** has the account (tunnels, DNS), the configuration and, per server,
credentials, `config.yml` and what `cloudflared` loaded; a step of `cloudflare
init` is a request or a remote command. **`Harden`** has `users.yml`, users, keys,
sudo rights, root login and the DOCKER-USER chain with what is loaded at boot. The
script of `dockerUserRules` runs one `iptables` command per step: `RestrictPort` takes
the next port, `DeleteRule` is a `-D` whose failure the script ignores, `InsertRule` a
`-I ... 1` whose failure ends it, and `SaveRules` the best-effort save.

## Runs, bounds and fairness

| run | expects | checks |
|---|---|---|
| `bg_warm` | pass | `TypeOK`, `NeverDark`, `ServingReleaseOnDisk`, `DeployLeavesTrafficUntilReload`, `WorkersFollowHealth`, `RollbackUndone`, `CurrentFollowsTraffic`, `DeployReleasesLock` with faults outside the flip |
| `bg_traffic` | pass | `BlueGreen` implements `TrafficSwitch`, retention `rollback` |
| `bg_faults` | pass | `RecordedReleaseLaunchesColour`, `SuccessfulDeployConverged` with faults at every command |
| `bg_leftover` | violation | `ServesHealthy` |
| `bg_torn` | violation | `NeverDark`, client dies before the state is written |
| `lock` | pass | `ExclusiveUnlessRobbed`, `NoLeakedLock`, `ReleaseRemovesOwnLock` |
| `lock_excl` | violation | `MutualExclusion` |
| `recreate` | pass | `SuccessRunsCurrent`, `RebootRestoresDeploy`, `FailedDeployRestores` |
| `fleet` | pass | layout: `DependenciesFirst`, `DependencyReachable`, `DatabaseOnOneServer`; commands: `MigratedBeforeServing`, `ContractsConverged`, `ReportTruthful`, `OneScheduler`, `LockIffWorking`, `FleetAfterAccessories`, `ReplicasSwitchTraffic` |
| `watch` | pass | `EditsReachServer`, `LockRespected`, `CtrlCReleases`, `CtrlCExits` |
| `observe` | pass | `EachLineOnce`, `CatchesUp`, `CountsAndOffersHold`, `AlertsAgree`, `FleetStaysTogether` |
| `admin` | pass | `InitReachesEveryApp`, `ConfigHasCredentials`, `SetupKeepsAccess`, `RestrictedToConsumers` |

**Bounds.** `MaxRelease = 3`: a first deploy (over an empty host or a legacy
process), a second one that takes the other colour, a third that takes the first
colour back; rollbacks between and after them. With `Keep = 2` the third deploy
prunes; with `Keep = 1` (`bg_faults`) the second does, and prunes the rollback
target. `FailAt`/`CrashAt` are the commands that may fail or in front of which
the client may die: everything in `bg_faults`; everything but the flip window
(from the rewrite of Caddy's site to the write of the state) in `bg_warm`,
because the code does not survive a fault in that window (`bg_torn`). In
`bg_warm` the catch blocks themselves succeed (`Handled`), which `RollbackUndone`
and `CurrentFollowsTraffic` need. `bg_traffic` also keeps out the faults that
leave a started, unflipped process behind (`NoLeftover`): a rollback would flip
to that process (`bg_leftover`). `lock` has three clients (the lock's owner, the
one that misjudges it and the one that is robbed), time to go stale twice
(`MaxTime = 4`, `StaleAfter = 2`), an operator and a full disk.

`recreate`: three releases with two kept, so that the third deploy prunes one the
history still names; a worker that comes and goes with the config, one faulty
process per release, two rollbacks, restarts, stops, crashes or reboots in any place.
`FailAt` holds pairs of a release and a step, the faults possible while that release is
the newest: every step, the client's death, both steps of the catch block and the
rollbacks' commands while it is the second; the start of the first, so that a failed
first deploy may precede; the deletes and the hook of the third, where pruning and the
silent failures meet. A failed reload of an ecosystem file (`"ecosystem"`) is not among
them: with it `SuccessRunsCurrent` does not hold, and `SuccessRuns` has its absence as
a premise. `fleet`: two or three commands of two clients; where
the second may start while the first runs (`Overlapped`) the workspace has two
plain replicas, the larger ones (a database on the second replica, three replicas
in another order than declared) are taken one command after the other; the
layouts, all valid combinations of two apps, two accessories and a database over
three servers, run none and are there for the invariants on layouts. `watch`: two
edits, two mishaps (a failed command, a lost connection, another deploy) and two
signals; a second edit is what can fall into a running cycle, and a third repeats
it. `observe`: logs of at most four lines with a backlog of two and a guard of
three lines, so that replays overlap the guard partly and repeated lines make it
guess; two ends of a stream; two servers that share an app, one worker, three ticks
(the threshold of two failures is crossed and left) and two outside events.
`admin`: two servers, two apps and the SSH name, three tunnels, two operators and
two ports with three sources, and three commands or outside events: one that
fails, one change behind its back, one that repairs.

**Fairness.** In `BlueGreen`, weak fairness of `DeployStep` and `RollStep`: a
client that runs waits for nothing but its own remote commands, which end. Nothing
is assumed about who starts a deploy, clears an orphaned lock or reloads Caddy.
In `Watch`, weak fairness of the session's own steps, the debounce timer, the
watcher's scan and callback and the signal handler: all are timers, callbacks or
awaited commands that end. In `LogStream` and `ObserveSession`, of the
reconnection timer, the delivery of an open stream, the workers and the answers
(each exec resolves, rejects or times out). Edits, deploys, signals, lost
connections, failures and operators are never fair. The other specifications
state none. Every system here may stop, when nobody gives another command, so the
runs do not check for deadlock.

## Findings

1. **A rollback flips to an unhealthy colour** (`bg_leftover`). A deploy that
   fails its health check leaves the rejected process online; `rollbackBlueGreen`
   takes "online" for "the previous colour" and flips without a health check
   (`src/cli/commands/rollback.ts:281-291`), although its comment (236-239) says
   it is health-checked first.
2. **The serving process is deleted after a torn flip** (`bg_torn`). If the client
   dies between the Caddy reload and the write of `deploy-state.json`
   (`src/domain/deploy/orchestrator.ts:184-186`), the next deploy takes the
   serving colour for the idle one and deletes it, against "The active colour is
   never touched" (`docs/adr/0005-blue-green-zero-downtime.md`). A truncated state
   file does the same when green serves.
3. **Two clients hold the lock** (`lock_excl`): `stat ... || echo 0`
   (`src/domain/release/manager.ts:109`) makes a lock that was just released look
   56 years old, and the takeover removes a lock made since.
4. **A rollback overlaps a deploy.** Rollback takes no lock; with `Overlap = TRUE`
   `BlueGreen` violates `NeverDark`. No run is spent on it; `TrafficNeverDark`
   has the absence of overlaps as its premise.

The rest were met while modelling. The module makes the step the code makes, and a
property speaks of what the code does guarantee; `findings` in `PROJECT.json` quotes
the lines.

- *Blue-green.* The comment at `blue-green.ts:124-125` says a corrupt state makes the
  next deploy target blue; the code targets green. A full disk leaves a lock
  directory nobody owns (`manager.ts:104`, why `NoLeakedLock` speaks of completed
  locks). Cleanup prunes the release a warm rollback needs when `keepReleases` is 1
  or failed deploys fill its slots, against "Its release stays on disk"
  (`README.md:573`). An instant rollback leaves `current` on the newer release; a
  first deploy that fails after the flip leaves the legacy process on the blue port
  for good, and every later start of blue dies of it.
- *Recreate.* A rollback counts its steps in a history that lists failed and pruned
  releases (`rollback.ts:170-184`), so `current` may dangle; a good rollback is
  reported as failed because `pm2 reload` raises the restart counter the status
  check rejects (`health.service.ts:199`); `pm2 reload` leaves a worker the release
  does not declare, against "the exact process set" (`rollback.ts:209-211`,
  ADR 0001), and the fallback to the namespace hides every failure of the first
  reload, not only a missing file. A failed deploy reverts the symlink, not the
  processes; the worker that the new config dropped is gone and no longer in PM2's dump
  (`backend-strategy.ts:228-234`). A `postDeploy` hook that throws reverts the release
  (`orchestrator.ts:230`), against "Failures here log but do not roll back the release"
  (`website/.../configuration.md:204`). PM2's port guard ends in `|| true` and never
  stops a deploy (`backend-strategy.ts:225`, `286`), the fault `CHANGELOG.md:48` says
  was fixed for watt. Under watt the old PM2 process is retired after the unit has
  started on its port and without a `pm2 save` (`backend-strategy.ts:477`): a reboot
  brings it back, and it answers the health check of the next rollback.
- *Fleet.* A replica that cannot be connected to makes the roll reject without a
  report (`fleet.ts:89` against 74). A roll narrowed with `--on` runs `afterFleet`
  although "every server is now on this release" (`orchestrator.ts:222-223`) does
  not hold. The primary is the first server of an order that dependencies change
  (`servers.ts:195`), not the first the app declares (`orchestrator.ts:36-37`).
  After a half-failed roll a fleet rollback reports success and leaves replicas on
  different releases.
- *Watch.* A cycle refused the lock or failed drops its batch (`deploy-watch.ts:134`)
  although "the next save retries" (161-162); a connection lost while idle fails in
  `acquire`, before the reconnection (142-149); Ctrl-C between the acquire and
  `lockHeld` leaks the lock; the handler's release lets another deploy start while
  the cycle still writes. `dist` is excluded from every sync (`constants.ts:24`), so
  a local build into it is never shipped: the run's `Shipping` leaves that session
  out.
- *Observation.* `logs --follow` replays 100 lines past a guard that remembers 50
  (`logs.ts:217`, `log-line.ts:189`); a fragment torn off at a break enters the
  guard (`log-stream.ts:205`). `monitor --on X` sees one replica and offers to roll
  it back alone (`App.tsx:274`). The rollback dialog keeps a row, not a release; when
  its server stops answering it is no longer drawn, yet takes the keys.
- *Administration.* `cloudflare init` rewrites the path of credentials it tested
  elsewhere (`cloudflare.orchestrator.ts:108-110` against 40-43; `ByHand`). `harden`
  reports root login as disabled without an exit code (`harden.ts:137-148`) and a
  port whose consumers are gone as restricted (`security.ts:157`); `user remove` says
  "removed" although `userdel` may have been refused (`user.ts:216-218`).

## Proofs

TLAPS checks these theorems for every value of the constants that satisfies the
modules' `ASSUME`s (bounds are naturals, `FailAt` and `CrashAt` sets of commands, in
`Recreate` any set of pairs of a release and a step,
servers a non-empty sequence of names); the runs check the same formulas on the
instances above.

| theorem | premise | states |
|---|---|---|
| `BlueGreenProofs!TypeCorrect` | | `TypeOK` |
| `BlueGreenProofs!RecordedReleases` | `~Overlap` | `RecordedReleaseLaunchesColour` |
| `BlueGreenProofs!TrafficNeverDark` | `CleanFlips` | `NeverDark` |
| `BlueGreenProofs!ZeroImpact` | `CleanFlips` | `DeployLeavesTrafficUntilReload` |
| `BlueGreenProofs!SuccessConverges` | `~Overlap` | `SuccessfulDeployConverged` |
| `BlueGreenProofs!WorkersMoveLast` | `~Overlap` | `WorkersFollowHealth` |
| `BlueGreenProofs!CurrentEndsOnTraffic` | `~Overlap`, the revert does not fail | `CurrentFollowsTraffic` |
| `BlueGreenProofs!ServedReleaseKept` | `CleanFlips`, `Retention # "rollback"` | `ServingReleaseOnDisk` |
| `BlueGreenProofs!FailedRollbackUndone` | `CleanFlips`, `UndoSucceeds` | `RollbackUndone` |
| `BlueGreenProofs!TrafficRefinement` | `CleanStarts` | `TrafficSpec` |
| `DeployLockProofs!TypeCorrect` | | `TypeOK` (proved, in no run) |
| `DeployLockProofs!Exclusion` | | `ExclusiveUnlessRobbed` |
| `DeployLockProofs!LockNotLeaked` | | `NoLeakedLock` |
| `DeployLockProofs!OwnRelease` | | `ReleaseRemovesOwnLock` |
| `LayoutProofs!DependenciesReachable` | | `DependencyReachable` |
| `LayoutProofs!DatabaseHasOneHome` | | `DatabaseOnOneServer` |
| `LayoutProofs!DependenciesComeFirst` | | `DependenciesFirst` |
| `FleetProofs!LocksHeldByWorkers` | | `LockIffWorking` |
| `FleetProofs!ServedReleasesAreMigrated` | | `MigratedBeforeServing` |
| `FleetProofs!OneSchedulerPerApp` | unique app names | `OneScheduler` |
| `FleetProofs!AccessoriesBeforeFleets` | | `FleetAfterAccessories` |
| `FleetProofs!ReportsAreTrue` | | `ReportTruthful` |
| `FleetProofs!AfterFleetConverged` | unique app names | `ContractsConverged` |
| `FleetProofs!ReplicasImplementTraffic` | | `ReplicasSwitchTraffic` |
| `RecreateProofs!SuccessRuns` | `NoFallback` | `SuccessRunsCurrent` |
| `RecreateProofs!DeploySurvivesReboot` | | `RebootRestoresDeploy` |
| `RecreateProofs!FailureSurvivesReboot` | | `FailedDeployRestores` |
| `WatchProofs!ReleasedForGood` | | `CtrlCReleases` |
| `WatchProofs!SyncsUnderLock` | | `LockRespected` |
| `ObserveProofs!AlertsTrue` | | `AlertsAgree` |
| `ObserveProofs!FleetKeptTogether` | `Watched = Server` | `FleetStaysTogether` |
| `ObserveProofs!SentLinesShown` | | `NoLineLost` |
| `ObserveProofs!LinesShownOnce` | `Backlog <= Window` | `EachLineOnce` |
| `ObserveProofs!ViewPromises` | | `CountsAndOffersHold` |
| `AdminProofs!TunnelCredentials` | | `ConfigHasCredentials` |
| `AdminProofs!TunnelReach` | | `InitReachesEveryApp` |
| `AdminProofs!AccessKept` | | `SetupKeepsAccess` |
| `AdminProofs!PortsRestricted` | | `RestrictedToConsumers` |

`CleanFlips` says that no rollback overlaps a deploy and that nothing fails or
dies inside the flip window; every other command may still fail. Both halves are
needed for `NeverDark`: an overlapping rollback, or a client that dies in the
window (`bg_torn`), violates it. What the code does not guarantee is in the premise,
not in the model. The other premises, and what happens without them:

- `ServedReleaseKept`: with retention `rollback` a failed deploy's directory counts
  toward `keepReleases` and may push the warm colour's release out (see Findings); a
  flip that is cut short leaves a process of the idle colour whose release is pruned
  like any other and to which a later rollback turns.
- `CleanStarts` adds that a started process is healthy or dies, and that nothing fails
  from the health check to the flip: otherwise a rejected process stays online and a
  rollback serves it (`bg_leftover`), which `TrafficSwitch` does not allow.
- `NoFallback`: no reload of an ecosystem file fails half-way and is made good by the
  reload by name, which restarts another set of processes (`rollback.ts:215`): a
  declared worker would keep running the release before.
- Unique app names: nothing in `src/config/schema.ts` asks for them (only PM2's
  process names are checked), and two apps of one name share hooks, replicas and
  `current`.
- `Backlog <= Window`: the monitor's backlog fits its guard, that of `logs --follow`
  does not (see Findings). `SentLinesShown` needs no such premise.

**The arguments.** The invariants of `BlueGreen`, each inductive relative to
those before it:

- `TypeInv` adds to `TypeOK` that a running command has a release (or colour) to
  work on; without it `eco[d.rel]` and `proc[rb.to]` may be outside their domains
  and `TypeOK` is not inductive.
- `RecordInv` is what a command knows about the host. `deployApp` reads the state
  once and writes it several commands later; without overlap the value it carries
  is the one on disk, so the target is the colour the state does not name, and the
  new release is recorded for no colour yet. The `eco` file of a recorded release
  is therefore written only by a deploy of that release.
- `TrafficInv` says that outside the flip window the site file, Caddy and the
  recorded state agree, and that inside it the target has a running process while
  the old colour's has not been touched yet. Then the colour a deploy reaps and
  starts is never the one Caddy uses (`IdleTarget`), unless that is the legacy
  process on the blue port.
- `SessionInv` is what a deploy has done by the step it stands at: `Trail` for the
  symlink and the two flags the catch block reads, `Launched` for the order process,
  workers, site, Caddy, and `Concluded` for what follows the flip. It needs no clean
  flip: after a cut one the deploy is over, and the next starts from what it finds.
- `DiskInv` and `ServingInv` name the releases pruning must leave: that of `current`,
  of the legacy process, of what a session returns to and of every running process.
  `cleanupOldReleases` keeps the newest, and a deploy that reached it has reaped every
  process but its own.
- `RestoreInv`: a rollback that moved `current` knows where to move it back.
- `ServedInv` says that the active colour runs and that whatever runs is the healthy
  release recorded for its colour. With it `Served` and `Fallback` are functions of the
  recorded state outside a flip and swap inside it (`ServedFacts`), and `TrafficRefinement`
  follows action by action: the Caddy reload is `TrafficSwitch`'s step, a rollback's
  reload its swap, everything else a stutter.

`ZeroImpact` follows from `TrafficInv` step by step (`StepLeavesTraffic`). For
`DeployLock` the inductive invariant is `OwnersHold`: until a live client is
robbed, whoever is between its `mkdir` and its release made the directory that is
there. Every removal of the directory goes through one lemma (`RemovalKeeps`): it
either robs somebody, which `robbed` records, or nobody was granted the lock.

`WatchProofs` rests on `WatchInv`: what the loop believes of the lock by its place
(`pc`), the handler by `lockHeld` and `sig`, and what is on the server agree. Between
`Took` and `Release` the lock is this session's until the handler gives it back;
after that the loop may only run out, since `NextBatch` starts no cycle once
`stopping` is set.

`AdminProofs` proves one invariant for `Tunnel` and one for `Harden`, each left alone
by the other's steps. For `ConfigHasCredentials` it says of the tunnel a visit has
chosen that its credentials are on that server. For `InitReachesEveryApp` it says
that every server the running command is done with is covered, and which names the
file in the making routes already; no two servers own the same name (`NamesApart`),
so what the command does to the next server's names leaves the others covered. For `SetupKeepsAccess` it says that a promised
key is in the deploy user's `authorized_keys` and that the user exists and has
`NOPASSWD`, which no command but `user remove` takes back.

For `RestrictedToConsumers` the chain is any sequence of rules, with whatever earlier
hardenings left in it. `PortsDone` says that a port whose DROP is in lets nobody pass
but its consumers, and these as soon as their own rule is in (`Restricted`). The DROP
goes in first and at the head, so it cuts off everything below it; a source inserted
above it opens the port to that source alone (`PassesInsert`); and neither inserting nor
deleting another port's rules changes who passes this one (`PassesAlong`,
`PassesRemove`). A failed insert ends the script before the save.

`FleetProofs` first says what a command's record looks like at each place (`IsCmd`);
with it the lock is the client's exactly between `Lock` and `Unlock`, whichever step
fails in between (`SameWork`, `LockMoves`). For the migrations, `Knows` says what a
command may rely on: the roll of a fleet app is at its first replica, or the hook
has succeeded for the release it carries; past the hook it has. A roll goes on only
after a replica that succeeded, so the second replica finds it done. `Served` adds
that what a replica can be rolled back to was served before.

The other five theorems rest on `ShapeInv`: a running command's queues are what is left
of the narrowed workspace's servers and of an app's replicas, in that order, each once.
`AloneInv` says that a command that counts itself undisturbed is the only one that
runs. `SchedInv` places an app's scheduler on its primary and nowhere else, whatever
subset of replicas a command was narrowed to; it identifies apps by name, hence the
premise. For the accessories, `Accounted` says that each of the workspace is up or is
still to come, on this server's list of jobs or on a server to be visited, and the
fleets' rolls begin when that list is empty. For the reports, `Minted` makes the
release of a command new, so that a replica serves it only if this command flipped it,
and `TruthInv` follows the roll: the applied replicas serve it, and what those to come
serve and fall back to is older (`Older`). At the flip that is the guard of
`TrafficSwitch!Deploy`, which gives `ReplicasImplementTraffic`; commands that overlap
break it, since a roll mints its id before it takes a lock (`deploy.ts:177`), so the
property has the absence of overlaps in it.

`LayoutProofs` quantifies over every workspace `ShipnodeConfig` accepts
(`WorkspacesAssumption`). The induction principles of the library take an operator and
cannot be applied here, so `SetInduction` states induction for a *set* of numbers, from
the well-foundedness of `<`. Two recursive functions are treated that way: the elements
of a sequence at a set of positions (`AtPositions`, which stands where the standard
module's `SelectSeq` could not be reasoned about) and the order of the servers, for each
of which the set is first the lengths at which the recursion has a solution and then
those at which the solution has the property. `DependenciesComeFirst` needs that while
servers are left, one is ready when none needs itself (`SomeReady`): among those left,
take one with the fewest direct and indirect needs; a need of its that is not placed yet
would have fewer.

`RecreateProofs` has one invariant for a deploy in the making (`Progress`), one for
what it found (`WasKept`) and one for the processes (`Probed`). `WasKept`: unless an
answer was lost, each process a reboot would have started (`Kept`) can still be run by
its release, which `current` or the reverted link names, and is still enabled or in the
dump, or was dropped by the new config (`Bootable`). `Probed`: at the health check
whatever is online was started from `current`, and a faulty worker has been restarted
(`Fresh`), or else the web process is not online at all (`Ready`): a reload by name may
mean the web process only, but it stands in for a missing ecosystem file, and then the
release is gone and its web process cannot start. So a check that passes has seen no
stale and no faulty process, with one exception that is in the property: while an old
PM2 process holds the port, the probe says nothing of the web unit.

`ObserveProofs` needs of the session that a streak meets the threshold it crosses
(`StreakTold`) and that nothing is published before every observed server was polled
once (`Published`): then a view in which an app has one replica shows all there are.
With `--on` the monitor does not observe every server, and the premise is needed
(see Findings).

For the log stream, `Recorded` says that a line that stands once in its log and that the
guard remembers has been shown: then a line the guard swallows is not lost, which is
`SentLinesShown`. That none is shown twice is `Replays`: there are numbers `f` and `m`
such that the guard's memory ends with the lines `f + 1 .. m` of the log, `m` is the last
line shown, and a channel that replays from before `m` has an alignment among its
candidates at exactly the line it sends next. Lines that follow each other in the log
advance that candidate, and the guard retires when the replay reaches `m`; a backlog
within the window never starts before `f`. `HalfInv` says that what the assembler holds
is the beginning of a line of the file. `ViewPromises` speaks of the positions of the
buffer a filter selects: adding a level or a source to the filter selects as many as
were counted for it, and an offered value selects something.

**Only model-checked**: liveness under fairness (`DeployReleasesLock`, `EditsReachServer`,
`CtrlCExits`, `CatchesUp`), which the provers do not treat. Every safety property,
action property and refinement of a passing run is also a theorem, under the premise in
the table.

## What is abstracted or left out

- Release directories are numbers in order of creation. `ls -1t` sorts by mtime;
  a directory of a backend is written only by its own deploy, so the orders agree.
- A remote command takes effect or does not; "took effect and then the client
  died" is a crash in front of the next command. `reload`'s flip, `ln`+`mv` and
  `rm -rf` of old releases are one step each.
- Health checks are enabled; retries, delays and draining are one verdict. A
  process keeps the condition it starts with: later crashes, foreign processes on
  the ports and reboots are outside.
- `BlueGreen` and `Recreate` have one app on one server. Other apps appear as
  reloads of the shared Caddy; `configureAll` skips zero-downtime apps
  (`caddy.service.ts:113`). Several apps and servers are `Fleet`'s, where a deploy
  of a replica is its staging, hooks and flip.
- Not modelled: a blue-green app under the watt runtime (`watt.ts`: coloured units
  that are parked), which is neither of the two; the cold deploy of a frontend,
  which is the pipeline without processes; sites of Caddy other than the active
  upstream; the shape of single config fields, the builder and the loader; environment
  files and their links; backup, migrate, eject and package installs, shell scripts
  whose logic is in the tools they call; parsing of metrics and layout of the
  terminal interface; prompts, output and commands that only read or generate files
  (`init`, `ci`, `doctor`, `status`, `metrics`, `upgrade`, `help`).
- Files in `Watch` are kinds of file, and a build or an install takes the version
  it finds when it ends its read. rsync ships a file list or the whole tree.
- Log lines are texts that stand for what `detectLevel` and `isContinuation` say of
  them; a chunk is a line or the beginning of one.
- A source in `LogStream` is one file with one order, as a journal is. `pm2 logs` of an
  app with several processes interleaves their files (`log-source.ts:26-28`): there the
  backlog need not be a run of what was delivered, which the guard supposes
  (`log-line.ts:173-174`), and the run and the theorems do not speak of it.
- An explicit `cloudflare.tunnelName` for several servers is refused before anything
  runs (`cloudflare.ts:31-43`), so servers have tunnels of their own in `Tunnel`.
- In `Tunnel` and `Harden` operators wait for one command before the next: neither
  takes a lock, and two at once are outside.
- Hooks do not touch the modelled state.
- Ports are named by their colour: both are fixed at the first deploy.
- The prompts of a rollback are the gap between `StartRollback` and its next step.
- Liveness is checked by TLC only.

## Plan

*Done*: `BlueGreen`, `TrafficSwitch`, `DeployLock`, `ServerTargets`, `Fleet`,
`Recreate`, `Watch`, `LogStream`, `LogView`, `ObserveSession`, `Tunnel`, `Harden`.

What would add most now: the coloured watt units as a second runtime of `BlueGreen`;
what still holds of a deploy when a rollback overlaps it or its flip is cut short; the
cold deploy of a frontend.
