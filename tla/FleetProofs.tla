---------------------------- MODULE FleetProofs ----------------------------
(***************************************************************************)
(* Theorems about Fleet's commands, for any workspaces, clients, failures  *)
(* and numbers of commands: the locks (LockInv), the migrations            *)
(* (MigrationInv), the schedulers (ShapeInv, SchedInv), the accessories of *)
(* an undisturbed deploy (AloneInv, AccessoryInv) and what it reports      *)
(* (Minted, TruthInv).                                                     *)
(***************************************************************************)
EXTENDS LayoutProofs

\* What a running command's record looks like, by the place it is at.
Fields == DOMAIN Idle
IsCmd(r) ==
    /\ DOMAIN r = Fields
    /\ r.op \in {"none", "deploy", "rollback"} /\ r.phase \in {"idle", "fan", "roll"}
    /\ r.at \in {"none", "start", "connect", "lock", "swap", "report"} \cup WorkSteps
    /\ r.at \in {"connect", "lock", "swap"} \cup WorkSteps => r.todo # <<>> /\ r.phase # "idle"
    /\ r.at \in {"lock"} \cup WorkSteps => r.op = "deploy"
    /\ r.at = "swap" => r.op = "rollback"
    /\ r.phase = "fan" => r.op = "deploy"
    /\ r.phase = "roll" => r.op # "none"
    /\ r.ok \in BOOLEAN
    /\ r.phase = "roll" /\ r.at \in {"connect", "lock"} \cup (WorkSteps \ {"unlock"}) =>
          r.jobs = <<<<"app", Head(r.fleets)>>>>

CmdTypes == /\ DOMAIN cmd = Clients /\ \A c \in Clients : IsCmd(cmd[c])
            /\ DOMAIN lock = Known(ws)

USE ClientsAssumption DEF newReleaseId

LEMMA IdleIsCmd == IsCmd(Idle)
  BY DEF IsCmd, Idle, Fields, WorkSteps

\* Between two visits a command holds no lock.
LEMMA FanToIsCmd ==
    ASSUME NEW r, NEW servers, DOMAIN r = Fields, r.op = "deploy", r.ok \in BOOLEAN
    PROVE  IsCmd(FanTo(r, servers)) /\ FanTo(r, servers).at \notin WorkSteps
  <1>1. CASE servers # <<>>
    <2> DEFINE jobs == Jobs(r.app, Head(servers))
               f == [r EXCEPT !.phase = "fan", !.at = "connect", !.todo = servers, !.ok = TRUE,
                              !.jobs = jobs]
    <2>1. FanTo(r, servers) = f
      BY <1>1 DEF FanTo
    <2> HIDE DEF jobs
    <2>2. /\ DOMAIN f = Fields /\ f.op = "deploy" /\ f.phase = "fan" /\ f.at = "connect"
          /\ f.todo = servers /\ f.ok = TRUE
      BY DEF Fields, Idle
    <2> QED
      BY <1>1, <2>1, <2>2 DEF IsCmd, WorkSteps
  <1>2. CASE servers = <<>> /\ ~Exits(r)
    BY <1>2 DEF FanTo, IsCmd, Fields, Idle, WorkSteps
  <1>3. CASE servers = <<>> /\ Exits(r)
    BY <1>3, IdleIsCmd DEF FanTo, Idle, WorkSteps
  <1> QED
    BY <1>1, <1>2, <1>3

LEMMA RollToIsCmd ==
    ASSUME NEW r, NEW servers, DOMAIN r = Fields, r.op \in {"deploy", "rollback"}, r.phase = "roll",
           r.ok \in BOOLEAN
    PROVE  IsCmd(RollTo(r, servers)) /\ RollTo(r, servers).at \notin WorkSteps
  BY DEF RollTo, IsCmd, Fields, Idle, WorkSteps

LEMMA AfterVisitIsCmd ==
    ASSUME NEW r, IsCmd(r), r.phase # "idle", NEW ok \in BOOLEAN
    PROVE  IsCmd(AfterVisit(r, ok)) /\ AfterVisit(r, ok).at \notin WorkSteps
  <1>1. CASE r.phase = "fan"
    <2> DEFINE f == [r EXCEPT !.failed = IF ok THEN @ ELSE Append(@, Head(r.todo))]
    <2>1. DOMAIN f = Fields /\ f.op = "deploy" /\ f.ok \in BOOLEAN
      BY <1>1 DEF IsCmd, Fields, Idle
    <2>2. AfterVisit(r, ok) = FanTo(f, Tail(r.todo))
      BY <1>1 DEF AfterVisit
    <2> QED
      BY <2>1, <2>2, FanToIsCmd
  <1>2. CASE r.phase = "roll"
    <2> DEFINE good == [r EXCEPT !.applied = Append(@, Head(r.todo))]
               bad  == [r EXCEPT !.failed = <<Head(r.todo)>>, !.skipped = Tail(r.todo)]
    <2>1. /\ DOMAIN good = Fields /\ good.op = r.op /\ good.phase = "roll" /\ good.ok \in BOOLEAN
          /\ DOMAIN bad = Fields /\ bad.op = r.op /\ bad.phase = "roll" /\ bad.ok \in BOOLEAN
      BY <1>2 DEF IsCmd, Fields, Idle
    <2>2. \E servers : AfterVisit(r, ok) = RollTo(good, servers) \/ AfterVisit(r, ok) = RollTo(bad, servers)
      <3>1. CASE ok
        BY <1>2, <3>1 DEF AfterVisit
      <3>2. CASE ~ok
        BY <1>2, <3>2 DEF AfterVisit
      <3> QED
        BY <3>1, <3>2
    <2>3. r.op \in {"deploy", "rollback"}
      BY DEF IsCmd
    <2> HIDE DEF good, bad
    <2> QED
      BY <2>1, <2>2, <2>3, RollToIsCmd
  <1> QED
    BY <1>1, <1>2 DEF IsCmd

-----------------------------------------------------------------------------
(* The lock. *)

LockInv == CmdTypes /\ LockIffWorking

Works(r, s) == r.at \in WorkSteps /\ r.todo # <<>> /\ Head(r.todo) = s

LEMMA WorksOnIs == \A c, s : WorksOn(c, s) <=> Works(cmd[c], s)
  BY DEF WorksOn, Works

\* A step that neither begins nor ends work on a server.
LEMMA SameWork ==
    ASSUME LockInv, UNCHANGED <<ws, lock>>, NEW c \in Clients, NEW r, IsCmd(r),
           cmd' = [cmd EXCEPT ![c] = r],
           \/ cmd[c].at \notin WorkSteps /\ r.at \notin WorkSteps
           \/ cmd[c].at \in WorkSteps /\ r.at \in WorkSteps /\ r.todo = cmd[c].todo
    PROVE  LockInv'
  <1>1. \A d \in Clients : cmd'[d] = IF d = c THEN r ELSE cmd[d]
    BY DEF LockInv, CmdTypes
  <1>2. CmdTypes'
    BY <1>1 DEF LockInv, CmdTypes
  <1>3. \A d \in Clients : \A s : Works(cmd'[d], s) <=> Works(cmd[d], s)
    BY <1>1 DEF Works
  <1>4. LockIffWorking'
    BY <1>3 DEF LockInv, LockIffWorking, WorksOn, Works
  <1> QED
    BY <1>2, <1>4 DEF LockInv

\* A step into work, out of it, or the death of the client.
LEMMA LockMoves ==
    ASSUME LockInv, UNCHANGED ws, NEW c \in Clients, NEW r, IsCmd(r),
           cmd' = [cmd EXCEPT ![c] = r], DOMAIN lock' = Known(ws),
           \A d \in Clients, s \in Known(ws) :
              lock'[s] = d <=> IF d = c THEN Works(r, s) ELSE lock[s] = d
    PROVE  LockInv'
  <1>1. \A d \in Clients : cmd'[d] = IF d = c THEN r ELSE cmd[d]
    BY DEF LockInv, CmdTypes
  <1>2. CmdTypes'
    BY <1>1 DEF LockInv, CmdTypes
  <1>3. ASSUME NEW d \in Clients, NEW s \in Known(ws) PROVE lock'[s] = d <=> Works(cmd'[d], s)
    BY <1>1 DEF LockInv, LockIffWorking, WorksOn, Works
  <1>4. LockIffWorking'
    BY <1>3 DEF LockIffWorking, WorksOn, Works
  <1> QED
    BY <1>2, <1>4 DEF LockInv

LEMMA OneJob == \A y : Tail(<<y>>) = <<>> /\ Head(<<y>>) = y
  OBVIOUS

LEMMA JobDoneIsCmd ==
    ASSUME NEW r, IsCmd(r), r.at \in {"job", "post"}, r.phase = "roll" => r.at = "post"
    PROVE  IsCmd(JobDone(r)) /\ JobDone(r).at \in WorkSteps /\ JobDone(r).todo = r.todo
  <1> DEFINE rest == Tail(r.jobs)
             at == IF rest = <<>> THEN "unlock" ELSE "job"
  <1>1. r.phase = "roll" => rest = <<>>
    BY OneJob DEF IsCmd, WorkSteps
  <1>2. /\ DOMAIN JobDone(r) = Fields /\ JobDone(r).at = at /\ JobDone(r).jobs = rest
        /\ JobDone(r).op = r.op /\ JobDone(r).phase = r.phase /\ JobDone(r).todo = r.todo
        /\ JobDone(r).ok = r.ok
    BY DEF JobDone, IsCmd, Fields, Idle
  <1> QED
    BY <1>1, <1>2 DEF IsCmd, WorkSteps

LEMMA GotoIsCmd ==
    ASSUME NEW r, IsCmd(r), NEW l \in WorkSteps,
           r.at \in {"lock"} \cup (WorkSteps \ {"unlock"})
    PROVE  /\ IsCmd([r EXCEPT !.at = l]) /\ [r EXCEPT !.at = l].at = l
           /\ [r EXCEPT !.at = l].todo = r.todo
  BY DEF IsCmd, Fields, Idle, WorkSteps

LEMMA StagedIsCmd ==
    ASSUME NEW r, IsCmd(r), r.at \in WorkSteps \ {"unlock"}, NEW l \in WorkSteps, NEW n
    PROVE  IsCmd([r EXCEPT !.at = l, !.release = n])
  BY DEF IsCmd, Fields, Idle, WorkSteps

LEMMA FailureIsCmd ==
    ASSUME CmdTypes, NEW c \in Clients, cmd[c].at \in WorkSteps
    PROVE  /\ IsCmd(AfterFailure(c)) /\ AfterFailure(c).at = "unlock"
           /\ AfterFailure(c).todo = cmd[c].todo
  BY DEF AfterFailure, CmdTypes, IsCmd, Fields, Idle, WorkSteps

LEMMA NextLockInv == ASSUME LockInv, Next PROVE LockInv'
  <1> USE DEF LockInv, CmdTypes
  <1>1. ASSUME NEW c \in Clients, StartRoll(c) PROVE LockInv'
    <2>1. cmd[c].phase = "roll" /\ cmd[c].at = "start" /\ UNCHANGED <<ws, lock>>
      BY <1>1 DEF StartRoll, At, host
    <2>2. CASE Set(c, Idle)
      BY <2>1, <2>2, IdleIsCmd, SameWork DEF Set, Idle, WorkSteps
    <2>3. CASE \E n, servers : Set(c, RollTo([cmd[c] EXCEPT !.release = n, !.applied = <<>>], servers))
      <3> PICK n, servers : Set(c, RollTo([cmd[c] EXCEPT !.release = n, !.applied = <<>>], servers))
        BY <2>3
      <3> DEFINE r == [cmd[c] EXCEPT !.release = n, !.applied = <<>>]
      <3>1. /\ DOMAIN r = Fields /\ r.op \in {"deploy", "rollback"} /\ r.phase = "roll"
            /\ r.ok \in BOOLEAN
        BY <2>1 DEF IsCmd, Fields, Idle
      <3> HIDE DEF r
      <3> QED
        BY <2>1, <3>1, RollToIsCmd, SameWork DEF Set, WorkSteps, r
    <2> QED
      BY <1>1, <2>2, <2>3 DEF StartRoll
  <1>2. ASSUME NEW c \in Clients, Connect(c) PROVE LockInv'
    <2>1. cmd[c].at = "connect" /\ UNCHANGED <<ws, lock>>
      BY <1>2 DEF Connect, At, host
    <2>2. ASSUME NEW l \in {"swap", "lock"}, l = "swap" <=> cmd[c].op = "rollback", Goto(c, l)
          PROVE LockInv'
      <3>1. IsCmd([cmd[c] EXCEPT !.at = l]) /\ [cmd[c] EXCEPT !.at = l].at = l
        BY <2>1, <2>2 DEF IsCmd, Fields, Idle, WorkSteps
      <3> QED
        BY <2>1, <2>2, <3>1, SameWork DEF Goto, Set, WorkSteps
    <2>3. CASE Set(c, AfterVisit(cmd[c], FALSE))
      BY <2>1, <2>3, AfterVisitIsCmd, SameWork DEF Set, WorkSteps, IsCmd
    <2>4. CASE Set(c, Idle)
      BY <2>1, <2>4, IdleIsCmd, SameWork DEF Set, Idle, WorkSteps
    <2> QED
      BY <1>2, <2>2, <2>3, <2>4 DEF Connect
  <1>3. ASSUME NEW c \in Clients, Lock(c) PROVE LockInv'
    <2>1. cmd[c].at = "lock" /\ UNCHANGED ws
      BY <1>3 DEF Lock, At
    <2>2. ASSUME NEW ok \in BOOLEAN, Set(c, AfterVisit(cmd[c], ok)), UNCHANGED lock PROVE LockInv'
      <3> DEFINE r == AfterVisit(cmd[c], ok)
      <3>1. IsCmd(r) /\ r.at \notin WorkSteps
        BY <2>1, AfterVisitIsCmd DEF IsCmd
      <3>2. cmd' = [cmd EXCEPT ![c] = r]
        BY <2>2 DEF Set
      <3> HIDE DEF r
      <3> QED
        BY <2>1, <2>2, <3>1, <3>2, SameWork DEF WorkSteps
    <2>3. CASE /\ lock[Here(c)] = "free" /\ lock' = [lock EXCEPT ![Here(c)] = c] /\ Goto(c, "job")
               /\ cmd[c].jobs # <<>>
      <3> DEFINE r == [cmd[c] EXCEPT !.at = "job"]
      <3>1. IsCmd(r) /\ r.at = "job" /\ r.todo = cmd[c].todo /\ r.todo # <<>>
        BY <2>1 DEF IsCmd, Fields, Idle, WorkSteps
      <3>2. \A s : ~Works(cmd[c], s)
        BY <2>1 DEF Works, WorkSteps
      <3>3. \A d \in Clients, s \in Known(ws) :
               lock'[s] = d <=> IF d = c THEN Works(r, s) ELSE lock[s] = d
        BY <2>3, <3>1, <3>2, WorksOnIs DEF Works, Here, LockIffWorking, WorkSteps
      <3> QED
        BY <2>1, <2>3, <3>1, <3>3, LockMoves DEF Goto, Set
    <2> QED
      BY <1>3, <2>2, <2>3 DEF Lock
  <1>4. ASSUME NEW c \in Clients, EnsureAccessory(c) PROVE LockInv'
    <2>1. cmd[c].at = "job" /\ cmd[c].at \in WorkSteps /\ UNCHANGED <<ws, lock>>
      BY <1>4 DEF EnsureAccessory, At, WorkSteps
    <2>2. cmd[c].phase # "roll"
      BY <1>4, <2>1, OneJob DEF EnsureAccessory, IsCmd, WorkSteps
    <2>3. CASE Set(c, JobDone(cmd[c]))
      BY <2>1, <2>2, <2>3, JobDoneIsCmd, SameWork DEF Set
    <2>4. CASE Fails(c)
      BY <2>1, <2>4, FailureIsCmd, SameWork DEF Fails, Set, WorkSteps
    <2> QED
      BY <1>4, <2>3, <2>4 DEF EnsureAccessory
  <1>5. ASSUME NEW c \in Clients, Stage(c) \/ BeforeFleet(c) \/ Flip(c) PROVE LockInv'
    <2>1. /\ cmd[c].at \in WorkSteps \ {"unlock"} /\ UNCHANGED <<ws, lock>>
          /\ IsCmd(cmd[c]) /\ cmd[c].at \in WorkSteps
      BY <1>5 DEF Stage, BeforeFleet, Flip, At, WorkSteps, host
    <2>2. CASE Fails(c)
      BY <2>1, <2>2, FailureIsCmd, SameWork DEF Fails, Set, WorkSteps
    <2>3. ASSUME NEW l \in WorkSteps, NEW n, Set(c, [cmd[c] EXCEPT !.at = l, !.release = n])
          PROVE  LockInv'
      <3> DEFINE r == [cmd[c] EXCEPT !.at = l, !.release = n]
      <3>1. IsCmd(r)
        BY <2>1, StagedIsCmd
      <3>2. r.at = l /\ r.todo = cmd[c].todo
        BY <2>1 DEF IsCmd, Fields, Idle
      <3>3. cmd' = [cmd EXCEPT ![c] = r]
        BY <2>3 DEF Set
      <3> HIDE DEF r
      <3> QED
        BY <2>1, <3>1, <3>2, <3>3, SameWork
    <2>4. ASSUME NEW l \in WorkSteps, Set(c, [cmd[c] EXCEPT !.at = l]) PROVE LockInv'
      <3> DEFINE r == [cmd[c] EXCEPT !.at = l]
      <3>1. IsCmd(r) /\ r.at \in WorkSteps /\ r.todo = cmd[c].todo /\ cmd' = [cmd EXCEPT ![c] = r]
        BY <2>1, <2>4, GotoIsCmd DEF Set
      <3> HIDE DEF r
      <3> QED
        BY <2>1, <3>1, SameWork
    <2>5. Stage(c) => \/ Fails(c)
                      \/ \E n : Set(c, [cmd[c] EXCEPT !.at = "beforeFleet", !.release = n])
      BY DEF Stage
    <2> QED
      BY <1>5, <2>2, <2>3, <2>4, <2>5 DEF BeforeFleet, Flip, Goto, WorkSteps
  <1>6. ASSUME NEW c \in Clients, Post(c) PROVE LockInv'
    <2>1. cmd[c].at = "post" /\ cmd[c].at \in WorkSteps /\ UNCHANGED <<ws, lock>>
      BY <1>6 DEF Post, At, WorkSteps, host
    <2>2. CASE Set(c, JobDone(cmd[c]))
      BY <2>1, <2>2, JobDoneIsCmd, SameWork DEF Set
    <2>3. CASE Fails(c)
      BY <2>1, <2>3, FailureIsCmd, SameWork DEF Fails, Set, WorkSteps
    <2> QED
      BY <1>6, <2>2, <2>3 DEF Post
  <1>7. ASSUME NEW c \in Clients, Unlock(c) PROVE LockInv'
    <2>1. /\ cmd[c].at = "unlock" /\ UNCHANGED ws /\ lock' = [lock EXCEPT ![Here(c)] = "free"]
          /\ cmd' = [cmd EXCEPT ![c] = AfterVisit(cmd[c], cmd[c].ok)]
      BY <1>7 DEF Unlock, At, Set
    <2> DEFINE r == AfterVisit(cmd[c], cmd[c].ok)
    <2>2. IsCmd(r) /\ r.at \notin WorkSteps /\ cmd' = [cmd EXCEPT ![c] = r]
      BY <2>1, AfterVisitIsCmd DEF IsCmd, WorkSteps
    <2>3. Works(cmd[c], Here(c))
      BY <2>1 DEF Works, Here, IsCmd, WorkSteps
    <2> HIDE DEF r
    <2>4. \A s \in Known(ws), d \in Clients : lock[s] = d <=> Works(cmd[d], s)
      BY WorksOnIs DEF LockIffWorking
    <2>5. \A d \in Clients, s \in Known(ws) :
             lock'[s] = d <=> IF d = c THEN Works(r, s) ELSE lock[s] = d
      BY <2>1, <2>2, <2>3, <2>4 DEF Works
    <2> QED
      BY <2>1, <2>2, <2>5, LockMoves
  <1>8. ASSUME NEW c \in Clients, Report(c) PROVE LockInv'
    <2>1. cmd[c].at = "report" /\ UNCHANGED <<ws, lock>>
      BY <1>8 DEF Report, At, host
    <2>2. CASE Set(c, Idle)
      BY <2>1, <2>2, IdleIsCmd, SameWork DEF Set, Idle, WorkSteps
    <2>3. CASE Set(c, [cmd[c] EXCEPT !.at = "start", !.fleets = Tail(@)])
      <3> DEFINE r == [cmd[c] EXCEPT !.at = "start", !.fleets = Tail(@)]
      <3>1. IsCmd(r) /\ r.at = "start"
        BY <2>1 DEF IsCmd, Fields, Idle, WorkSteps
      <3> QED
        BY <2>1, <2>3, <3>1, SameWork DEF Set, WorkSteps
    <2> QED
      BY <1>8, <2>2, <2>3 DEF Report
  <1>9. ASSUME NEW c \in Clients, Swap(c) PROVE LockInv'
    <2>1. cmd[c].at = "swap" /\ UNCHANGED <<ws, lock>>
          /\ \E ok \in BOOLEAN : Set(c, AfterVisit(cmd[c], ok))
      BY <1>9 DEF Swap, At
    <2> PICK ok \in BOOLEAN : Set(c, AfterVisit(cmd[c], ok))
      BY <2>1
    <2> DEFINE r == AfterVisit(cmd[c], ok)
    <2>2. IsCmd(cmd[c]) /\ cmd[c].phase # "idle"
      BY <2>1 DEF IsCmd
    <2>3. IsCmd(r) /\ r.at \notin WorkSteps
      BY <2>2, AfterVisitIsCmd
    <2>4. cmd' = [cmd EXCEPT ![c] = r]
      BY DEF Set
    <2> HIDE DEF r
    <2> QED
      BY <2>1, <2>3, <2>4, SameWork DEF WorkSteps
  <1>10. ASSUME NEW c \in Clients, Crash(c) PROVE LockInv'
    <2>1. /\ UNCHANGED ws /\ cmd' = [cmd EXCEPT ![c] = Idle]
          /\ lock' = [s \in DOMAIN lock |-> IF lock[s] = c THEN "orphan" ELSE lock[s]]
      BY <1>10 DEF Crash, Set
    <2>2. \A s : ~Works(Idle, s)
      BY DEF Works, Idle, WorkSteps
    <2> QED
      BY <2>1, <2>2, IdleIsCmd, LockMoves
  <1>11. ASSUME NEW s \in Known(ws), ClearOrphan(s) PROVE LockInv'
    BY <1>11 DEF ClearOrphan, LockIffWorking, WorksOn
  <1>12. ASSUME NEW c \in Clients, NEW r, IsCmd(r), r.at \notin WorkSteps, StartCommand(c, r),
                UNCHANGED <<ws, lock>>, ~Active(c)
         PROVE  LockInv'
    <2> DEFINE starts(x) == [x EXCEPT !.alone = Quiet]
               meanwhile(x) == [x EXCEPT !.alone = FALSE]
    <2>1. \A x : IsCmd(x) => /\ IsCmd(starts(x)) /\ starts(x).at = x.at
                             /\ IsCmd(meanwhile(x)) /\ meanwhile(x).at = x.at
                             /\ meanwhile(x).todo = x.todo
      BY DEF IsCmd, Fields, Idle
    <2>2. DOMAIN cmd' = Clients /\ cmd'[c] = starts(r)
      BY <1>12 DEF StartCommand
    <2>3. \A d \in Clients \ {c} : cmd'[d] \in {cmd[d], meanwhile(cmd[d])}
      BY <1>12 DEF StartCommand
    <2> HIDE DEF starts, meanwhile
    <2>4. cmd[c].at \notin WorkSteps
      BY <1>12 DEF Active, IsCmd, WorkSteps
    <2>5. \A d \in Clients : IsCmd(cmd'[d]) /\ \A s : Works(cmd'[d], s) <=> Works(cmd[d], s)
      BY <1>12, <2>1, <2>2, <2>3, <2>4 DEF Works
    <2>6. \A d \in Clients, s \in Known(ws) : lock'[s] = d <=> Works(cmd'[d], s)
      BY <1>12, <2>5, WorksOnIs DEF LockIffWorking
    <2> QED
      BY <1>12, <2>2, <2>5, <2>6 DEF LockIffWorking, WorksOn, Works
  <1>13. ASSUME NEW c \in Clients, NEW on \in Known(ws) \cup {All}, NEW app \in Names(ws) \cup {All},
                StartDeploy(c, app, on)
         PROVE  LockInv'
    <2> DEFINE fleets == [i \in DOMAIN FleetApps(app) |-> FleetApps(app)[i].name]
               r == [Idle EXCEPT !.op = "deploy", !.app = app, !.on = on, !.fleets = fleets]
               roll == [r EXCEPT !.phase = "roll", !.at = "start"]
    <2>1. UNCHANGED <<ws, lock>> /\ ~Active(c)
          /\ \/ \E servers : StartCommand(c, FanTo(r, servers))
             \/ StartCommand(c, roll)
      BY <1>13 DEF StartDeploy, StartCommand, host
    <2> HIDE DEF fleets
    <2>2. DOMAIN r = Fields /\ r.op = "deploy" /\ r.ok \in BOOLEAN
      BY DEF Fields, Idle
    <2>3. IsCmd(roll) /\ roll.at = "start"
      BY DEF IsCmd, Fields, Idle, WorkSteps
    <2> HIDE DEF r, roll
    <2> QED
      BY <1>12, <2>1, <2>2, <2>3, FanToIsCmd DEF WorkSteps
  <1>14. ASSUME NEW c \in Clients, NEW on \in Known(ws) \cup {All}, NEW app \in Names(ws),
                StartRollback(c, app, on)
         PROVE  LockInv'
    <2> DEFINE r == [Idle EXCEPT !.op = "rollback", !.app = app, !.on = on, !.phase = "roll",
                                 !.fleets = <<app>>]
    <2>1. UNCHANGED <<ws, lock>> /\ ~Active(c) /\ \E servers : StartCommand(c, RollTo(r, servers))
      BY <1>14 DEF StartRollback, StartCommand, host
    <2>2. DOMAIN r = Fields /\ r.op = "rollback" /\ r.phase = "roll" /\ r.ok \in BOOLEAN
      BY DEF Fields, Idle
    <2> HIDE DEF r
    <2> QED
      BY <1>12, <2>1, <2>2, RollToIsCmd
  <1> QED
    BY <1>1, <1>2, <1>3, <1>4, <1>5, <1>6, <1>7, <1>8, <1>9, <1>10, <1>11, <1>13, <1>14
    DEF Next, Step

\* Two deploys never work on one server, and a lock without a worker is an orphan:
\* DeployOrchestrator.deploy acquires before its first job and releases in `finally`.
THEOREM LocksHeldByWorkers == Spec => []LockIffWorking
  <1>1. Init => LockInv
    BY IdleIsCmd DEF Init, LockInv, CmdTypes, LockIffWorking, WorksOn, Idle, WorkSteps
  <1>2. LockInv /\ [Next]_vars => LockInv'
    <2>1. ASSUME LockInv, UNCHANGED vars PROVE LockInv'
      BY <2>1 DEF vars, host, LockInv, CmdTypes, LockIffWorking, WorksOn
    <2> QED
      BY <2>1, NextLockInv
  <1>3. LockInv => LockIffWorking
    BY DEF LockInv
  <1> QED
    BY <1>1, <1>2, <1>3, PTL DEF Spec

-----------------------------------------------------------------------------
(* The migration. *)

\* What a command knows of release `r.release` at its place: a roll is at its first
\* replica, or the hook has succeeded; past the hook it has. `w` is the workspace,
\* `m` the releases each app was migrated to.
Done(w, m, a, n) == a \in Names(w) => n \in m[a]
RollOf(w, r) == Narrow(getServerTargets(configForApp(w, AppNamed(w, Head(r.fleets)))), r.on)
Knows(w, m, r) ==
    /\ r.at \in {"flip", "post"} => Done(w, m, Head(r.jobs)[2], r.release)
    /\ r.op = "deploy" /\ r.phase = "roll" =>
          /\ r.at \in {"connect", "lock", "job", "beforeFleet"} =>
                Head(r.todo) = Head(RollOf(w, r)) \/ Done(w, m, Head(r.fleets), r.release)
          /\ r.at = "unlock" /\ r.ok => Done(w, m, Head(r.fleets), r.release)

Served ==
    /\ DOMAIN migrated = Names(ws) /\ DOMAIN rep = Names(ws)
    /\ \A a \in Names(ws) :
          /\ DOMAIN rep[a] = Known(ws)
          /\ \A s \in Known(ws) : /\ rep[a][s].serving \in {0} \cup migrated[a]
                                  /\ rep[a][s].fallback \in {0} \cup migrated[a]

MigrationInv == LockInv /\ Served /\ \A c \in Clients : Knows(ws, migrated, cmd[c])

\* A step of one client in which no migration is forgotten.
LEMMA OneKnows ==
    ASSUME MigrationInv, LockInv', Served', UNCHANGED ws, NEW c \in Clients, NEW r,
           cmd' = [cmd EXCEPT ![c] = r], Knows(ws, migrated', r),
           \A a \in Names(ws) : migrated[a] \subseteq migrated'[a]
    PROVE  MigrationInv'
  <1>1. \A d \in Clients : cmd'[d] = IF d = c THEN r ELSE cmd[d]
    BY DEF MigrationInv, LockInv, CmdTypes
  <1>2. \A d \in Clients : Knows(ws, migrated', cmd[d])
    BY DEF MigrationInv, Knows, Done
  <1> QED
    BY <1>1, <1>2 DEF MigrationInv

LEMMA SameReleases ==
    ASSUME Served, UNCHANGED <<ws, rep, migrated>> PROVE Served'
  BY DEF Served

\* A step whose new record has nothing to know.
LEMMA KnowsNothing ==
    ASSUME NEW w, NEW m, NEW r,
           \/ r.at \in {"none", "start", "report"}
           \/ r.at = "unlock" /\ ~r.ok
    PROVE  Knows(w, m, r)
  BY DEF Knows

LEMMA FailureKnows ==
    ASSUME NEW w, NEW m, NEW c, IsCmd(cmd[c])
    PROVE  Knows(w, m, AfterFailure(c))
  <1> DEFINE r == AfterFailure(c)
  <1>1. r.at = "unlock" /\ r.ok = FALSE
    BY DEF AfterFailure, IsCmd, Fields, Idle
  <1> HIDE DEF r
  <1>2. Knows(w, m, r)
    BY <1>1, KnowsNothing
  <1> QED
    BY <1>2 DEF r

LEMMA JobDoneKnows ==
    ASSUME NEW w, NEW m, NEW r, IsCmd(r), Knows(w, m, r),
           r.at \in {"job", "post"}, r.phase = "roll" => r.at = "post"
    PROVE  Knows(w, m, JobDone(r))
  <1> DEFINE rest == Tail(r.jobs)
             at == IF rest = <<>> THEN "unlock" ELSE "job"
             t == JobDone(r)
  <1>0. r.phase = "roll" => r.jobs = <<<<"app", Head(r.fleets)>>>>
    BY DEF IsCmd, WorkSteps
  <1>1. r.phase = "roll" => rest = <<>> /\ Head(r.jobs)[2] = Head(r.fleets)
    <2>1. Head(<<<<"app", Head(r.fleets)>>>>) = <<"app", Head(r.fleets)>>
      BY OneJob
    <2>2. <<"app", Head(r.fleets)>>[2] = Head(r.fleets)
      OBVIOUS
    <2>3. Tail(<<<<"app", Head(r.fleets)>>>>) = <<>>
      BY OneJob
    <2> QED
      BY <1>0, <2>1, <2>2, <2>3
  <1>2. /\ t.at = at /\ t.op = r.op /\ t.phase = r.phase /\ t.fleets = r.fleets
        /\ t.release = r.release
    BY DEF JobDone, IsCmd, Fields, Idle
  <1>3. r.phase = "roll" => Done(w, m, Head(r.fleets), r.release)
    BY <1>1 DEF Knows
  <1> HIDE DEF t
  <1>4. Knows(w, m, t)
    BY <1>1, <1>2, <1>3 DEF Knows
  <1> QED
    BY <1>4 DEF t

LEMMA FanToKnows ==
    ASSUME NEW w, NEW m, NEW r, NEW servers, DOMAIN r = Fields
    PROVE  Knows(w, m, FanTo(r, servers))
  <1>1. CASE servers # <<>>
    <2> DEFINE jobs == Jobs(r.app, Head(servers))
               f == [r EXCEPT !.phase = "fan", !.at = "connect", !.todo = servers, !.ok = TRUE,
                              !.jobs = jobs]
    <2>1. FanTo(r, servers) = f
      BY <1>1 DEF FanTo
    <2> HIDE DEF jobs
    <2>2. f.phase = "fan" /\ f.at = "connect"
      BY DEF Fields, Idle
    <2> QED
      BY <2>1, <2>2 DEF Knows
  <1>2. CASE servers = <<>> /\ ~Exits(r)
    BY <1>2 DEF FanTo, Knows, Fields, Idle
  <1>3. CASE servers = <<>> /\ Exits(r)
    BY <1>3 DEF FanTo, Knows, Idle
  <1> QED
    BY <1>1, <1>2, <1>3

LEMMA RollToKnows ==
    ASSUME NEW w, NEW m, NEW r, NEW servers, DOMAIN r = Fields, r.phase = "roll",
           r.op = "deploy" /\ servers # <<>> =>
              servers = RollOf(w, r) \/ Done(w, m, Head(r.fleets), r.release)
    PROVE  Knows(w, m, RollTo(r, servers))
  <1> DEFINE t == RollTo(r, servers)
  <1>1. CASE servers = <<>>
    BY <1>1 DEF RollTo, Knows, Fields, Idle
  <1>2. CASE servers # <<>>
    <2>1. /\ t.at = "connect" /\ t.todo = servers /\ t.op = r.op /\ t.fleets = r.fleets
          /\ t.release = r.release /\ t.on = r.on
      BY <1>2 DEF RollTo, Fields, Idle
    <2> HIDE DEF t
    <2>2. Knows(w, m, t)
      BY <1>2, <2>1 DEF Knows, RollOf
    <2> QED
      BY <2>2 DEF t
  <1> QED
    BY <1>1, <1>2

LEMMA AfterVisitKnows ==
    ASSUME NEW w, NEW m, NEW r, IsCmd(r), r.phase # "idle", NEW ok \in BOOLEAN,
           r.phase = "roll" /\ r.op = "deploy" /\ ok => Done(w, m, Head(r.fleets), r.release)
    PROVE  Knows(w, m, AfterVisit(r, ok))
  <1>1. CASE r.phase = "fan"
    <2> DEFINE f == [r EXCEPT !.failed = IF ok THEN @ ELSE Append(@, Head(r.todo))]
    <2>1. DOMAIN f = Fields
      BY DEF IsCmd, Fields, Idle
    <2>2. AfterVisit(r, ok) = FanTo(f, Tail(r.todo))
      BY <1>1 DEF AfterVisit
    <2> HIDE DEF f
    <2> QED
      BY <2>1, <2>2, FanToKnows
  <1>2. CASE r.phase = "roll" /\ ok
    <2> DEFINE good == [r EXCEPT !.applied = Append(@, Head(r.todo))]
    <2>1. /\ DOMAIN good = Fields /\ good.op = r.op /\ good.phase = "roll"
          /\ good.fleets = r.fleets /\ good.release = r.release
      BY <1>2 DEF IsCmd, Fields, Idle
    <2>2. AfterVisit(r, ok) = RollTo(good, RestOfRoll(r, ok))
      BY <1>2 DEF AfterVisit
    <2> HIDE DEF good
    <2> QED
      BY <1>2, <2>1, <2>2, RollToKnows
  <1>3. CASE r.phase = "roll" /\ ~ok
    <2> DEFINE bad == [r EXCEPT !.failed = <<Head(r.todo)>>, !.skipped = Tail(r.todo)]
    <2>1. DOMAIN bad = Fields /\ bad.phase = "roll"
      BY <1>3 DEF IsCmd, Fields, Idle
    <2>2. AfterVisit(r, ok) = RollTo(bad, <<>>)
      BY <1>3 DEF AfterVisit, RestOfRoll
    <2> HIDE DEF bad
    <2> QED
      BY <2>1, <2>2, RollToKnows
  <1> QED
    BY <1>1, <1>2, <1>3 DEF IsCmd

LEMMA NextMigrationInv == ASSUME MigrationInv, Next PROVE MigrationInv'
  <1> USE DEF MigrationInv, CmdTypes
  <1>0. LockInv' /\ DOMAIN cmd = Clients /\ \A c \in Clients : IsCmd(cmd[c])
    BY NextLockInv DEF LockInv
  <1>1. ASSUME NEW c \in Clients, StartRoll(c) PROVE MigrationInv'
    <2>1. cmd[c].phase = "roll" /\ UNCHANGED <<ws, rep, migrated>>
      BY <1>1 DEF StartRoll, host
    <2>2. CASE Set(c, Idle)
      BY <1>0, <2>1, <2>2, OneKnows, SameReleases DEF Set, Idle, Knows
    <2>3. ASSUME NEW n, Set(c, RollTo([cmd[c] EXCEPT !.release = n, !.applied = <<>>],
                                      Narrow(Replicas(Head(cmd[c].fleets)), cmd[c].on)))
          PROVE  MigrationInv'
      <3> DEFINE r == [cmd[c] EXCEPT !.release = n, !.applied = <<>>]
                 t == RollTo(r, RollOf(ws, r))
      <3>1. /\ DOMAIN r = Fields /\ r.phase = "roll" /\ r.fleets = cmd[c].fleets
            /\ r.on = cmd[c].on
        BY <1>0, <2>1 DEF IsCmd, Fields, Idle
      <3>2. RollOf(ws, r) = Narrow(Replicas(Head(cmd[c].fleets)), cmd[c].on)
        BY <3>1 DEF RollOf, Replicas
      <3>3. cmd' = [cmd EXCEPT ![c] = t]
        BY <2>3, <3>2 DEF Set
      <3> HIDE DEF r
      <3>4. Knows(ws, migrated, t)
        BY <3>1, RollToKnows
      <3> HIDE DEF t
      <3> QED
        BY <1>0, <2>1, <3>3, <3>4, OneKnows, SameReleases
    <2> QED
      BY <1>1, <2>2, <2>3 DEF StartRoll
  <1>2. ASSUME NEW c \in Clients, Connect(c) PROVE MigrationInv'
    <2>1. cmd[c].at = "connect" /\ UNCHANGED <<ws, rep, migrated>>
      BY <1>2 DEF Connect, At, host
    <2>2. ASSUME NEW l \in {"swap", "lock"}, Goto(c, l) PROVE MigrationInv'
      <3> DEFINE r == [cmd[c] EXCEPT !.at = l]
      <3>1. /\ r.at = l /\ r.op = cmd[c].op /\ r.phase = cmd[c].phase /\ r.todo = cmd[c].todo
            /\ r.fleets = cmd[c].fleets /\ r.on = cmd[c].on /\ r.release = cmd[c].release
        BY <1>0 DEF IsCmd, Fields, Idle
      <3>2. Knows(ws, migrated, r)
        BY <2>1, <3>1 DEF Knows, RollOf
      <3>3. cmd' = [cmd EXCEPT ![c] = r]
        BY <2>2 DEF Goto, Set
      <3> HIDE DEF r
      <3> QED
        BY <1>0, <2>1, <3>2, <3>3, OneKnows, SameReleases
    <2>3. CASE Set(c, AfterVisit(cmd[c], FALSE))
      <3>1. IsCmd(cmd[c]) /\ cmd[c].phase # "idle"
        BY <1>0, <2>1 DEF IsCmd
      <3>2. Knows(ws, migrated, AfterVisit(cmd[c], FALSE))
        BY <3>1, AfterVisitKnows
      <3> QED
        BY <1>0, <2>1, <2>3, <3>2, OneKnows, SameReleases DEF Set
    <2>4. CASE Set(c, Idle)
      BY <1>0, <2>1, <2>4, OneKnows, SameReleases DEF Set, Idle, Knows
    <2> QED
      BY <1>2, <2>2, <2>3, <2>4 DEF Connect
  <1>3. ASSUME NEW c \in Clients, Lock(c) PROVE MigrationInv'
    <2>1. cmd[c].at = "lock" /\ UNCHANGED <<ws, rep, migrated>> /\ IsCmd(cmd[c])
      BY <1>0, <1>3 DEF Lock, At
    <2>2. ASSUME NEW ok \in BOOLEAN, Set(c, AfterVisit(cmd[c], ok)), ok => cmd[c].jobs = <<>>
          PROVE  MigrationInv'
      <3>1. cmd[c].phase # "idle" /\ (cmd[c].phase = "roll" => ~ok)
        BY <2>1, <2>2 DEF IsCmd, WorkSteps
      <3>2. Knows(ws, migrated, AfterVisit(cmd[c], ok))
        BY <2>1, <3>1, AfterVisitKnows
      <3> QED
        BY <1>0, <2>1, <2>2, <3>2, OneKnows, SameReleases DEF Set
    <2>3. CASE Goto(c, "job")
      <3> DEFINE r == [cmd[c] EXCEPT !.at = "job"]
      <3>1. /\ r.at = "job" /\ r.op = cmd[c].op /\ r.phase = cmd[c].phase /\ r.todo = cmd[c].todo
            /\ r.fleets = cmd[c].fleets /\ r.on = cmd[c].on /\ r.release = cmd[c].release
        BY <2>1 DEF IsCmd, Fields, Idle
      <3>2. Knows(ws, migrated, r)
        BY <2>1, <3>1 DEF Knows, RollOf
      <3>3. cmd' = [cmd EXCEPT ![c] = r]
        BY <2>3 DEF Goto, Set
      <3> HIDE DEF r
      <3> QED
        BY <1>0, <2>1, <3>2, <3>3, OneKnows, SameReleases
    <2> QED
      BY <1>3, <2>2, <2>3 DEF Lock
  <1>4. ASSUME NEW c \in Clients, Fails(c), UNCHANGED <<ws, rep, migrated>> PROVE MigrationInv'
    BY <1>0, <1>4, FailureKnows, OneKnows, SameReleases DEF Fails, Set
  <1>5. ASSUME NEW c \in Clients, EnsureAccessory(c) \/ Post(c) PROVE MigrationInv'
    <2>1. /\ cmd[c].at \in {"job", "post"} /\ UNCHANGED <<ws, rep, migrated>> /\ IsCmd(cmd[c])
          /\ Set(c, JobDone(cmd[c])) \/ Fails(c)
      BY <1>0, <1>5 DEF EnsureAccessory, Post, At, host
    <2>2. cmd[c].phase = "roll" => cmd[c].at = "post"
      BY <1>5, <2>1, OneJob DEF EnsureAccessory, Post, At, IsCmd, WorkSteps
    <2>3. Knows(ws, migrated, JobDone(cmd[c]))
      BY <2>1, <2>2, JobDoneKnows
    <2>4. CASE Set(c, JobDone(cmd[c]))
      BY <1>0, <2>1, <2>3, <2>4, OneKnows, SameReleases DEF Set
    <2> QED
      BY <1>4, <2>1, <2>4
  <1>6. ASSUME NEW c \in Clients, Stage(c) PROVE MigrationInv'
    <2>1. cmd[c].at = "job" /\ UNCHANGED <<ws, rep, migrated>> /\ IsCmd(cmd[c])
      BY <1>0, <1>6 DEF Stage, At, host
    <2>2. ASSUME NEW n, Rolling(c) => n = cmd[c].release,
                 Set(c, [cmd[c] EXCEPT !.at = "beforeFleet", !.release = n])
          PROVE  MigrationInv'
      <3> DEFINE r == [cmd[c] EXCEPT !.at = "beforeFleet", !.release = n]
      <3>1. /\ r.at = "beforeFleet" /\ r.op = cmd[c].op /\ r.phase = cmd[c].phase
            /\ r.todo = cmd[c].todo /\ r.fleets = cmd[c].fleets /\ r.on = cmd[c].on
            /\ r.release = n
        BY <2>1 DEF IsCmd, Fields, Idle
      <3>2. Knows(ws, migrated, r)
        BY <2>1, <2>2, <3>1 DEF Knows, RollOf, Rolling
      <3>3. cmd' = [cmd EXCEPT ![c] = r]
        BY <2>2 DEF Set
      <3> HIDE DEF r
      <3> QED
        BY <1>0, <2>1, <3>2, <3>3, OneKnows, SameReleases
    <2> QED
      BY <1>4, <1>6, <2>1, <2>2 DEF Stage
  <1>7. ASSUME NEW c \in Clients, BeforeFleet(c) PROVE MigrationInv'
    <2>1. cmd[c].at = "beforeFleet" /\ UNCHANGED <<ws, rep>> /\ IsCmd(cmd[c])
      BY <1>0, <1>7 DEF BeforeFleet, At
    <2>2. CASE Goto(c, "flip")
          /\ migrated' = IF First(c) THEN [migrated EXCEPT ![App(c)] = @ \cup {cmd[c].release}]
                         ELSE migrated
      <3> DEFINE r == [cmd[c] EXCEPT !.at = "flip"]
      <3>1. r.at = "flip" /\ r.jobs = cmd[c].jobs /\ r.release = cmd[c].release
        BY <2>1 DEF IsCmd, Fields, Idle
      <3>2. DOMAIN migrated' = Names(ws) /\ \A a \in Names(ws) : migrated[a] \subseteq migrated'[a]
        BY <2>2 DEF Served
      <3>3. Served'
        BY <2>1, <3>2 DEF Served
      <3>4. ASSUME First(c) PROVE Done(ws, migrated', App(c), cmd[c].release)
        BY <2>2, <3>4 DEF Done, Served
      <3>5. ASSUME ~First(c) PROVE Done(ws, migrated', App(c), cmd[c].release)
        <4>1. /\ cmd[c].phase = "roll" /\ cmd[c].op = "deploy" /\ App(c) = Head(cmd[c].fleets)
              /\ Head(cmd[c].todo) # Head(Roll(c))
          BY <2>1, <3>5, OneJob DEF First, Rolling, Here, App, IsCmd, WorkSteps
        <4>2. Roll(c) = RollOf(ws, cmd[c])
          BY <4>1 DEF Roll, RollOf, Replicas
        <4>3. Done(ws, migrated, App(c), cmd[c].release)
          BY <2>1, <4>1, <4>2 DEF Knows
        <4> QED
          BY <3>2, <4>3 DEF Done
      <3>6. Knows(ws, migrated', r)
        BY <3>1, <3>4, <3>5 DEF Knows, App
      <3>7. cmd' = [cmd EXCEPT ![c] = r]
        BY <2>2 DEF Goto, Set
      <3> HIDE DEF r
      <3> QED
        BY <1>0, <2>1, <3>2, <3>3, <3>6, <3>7, OneKnows
    <2> QED
      BY <1>4, <1>7, <2>1, <2>2 DEF BeforeFleet
  <1>8. ASSUME NEW c \in Clients, Flip(c) PROVE MigrationInv'
    <2>1. cmd[c].at = "flip" /\ UNCHANGED <<ws, migrated>> /\ IsCmd(cmd[c])
      BY <1>0, <1>8 DEF Flip, At
    <2>2. CASE Goto(c, "post")
          /\ rep' = [rep EXCEPT ![App(c)][Here(c)] = [serving |-> cmd[c].release,
                                                      fallback |-> @.serving]]
      <3> DEFINE r == [cmd[c] EXCEPT !.at = "post"]
      <3>1. r.at = "post" /\ r.jobs = cmd[c].jobs /\ r.release = cmd[c].release
        BY <2>1 DEF IsCmd, Fields, Idle
      <3>2. Done(ws, migrated, App(c), cmd[c].release)
        BY <2>1 DEF Knows, App
      <3>3. Knows(ws, migrated, r)
        BY <3>1, <3>2 DEF Knows, App
      <3>4. Served'
        BY <2>1, <2>2, <3>2 DEF Served, Done
      <3>5. cmd' = [cmd EXCEPT ![c] = r]
        BY <2>2 DEF Goto, Set
      <3> HIDE DEF r
      <3> QED
        BY <1>0, <2>1, <3>3, <3>4, <3>5, OneKnows
    <2> QED
      BY <1>4, <1>8, <2>1, <2>2 DEF Flip
  <1>9. ASSUME NEW c \in Clients, Unlock(c) PROVE MigrationInv'
    <2>1. /\ cmd[c].at = "unlock" /\ UNCHANGED <<ws, rep, migrated>>
          /\ IsCmd(cmd[c]) /\ cmd[c].phase # "idle" /\ cmd[c].ok \in BOOLEAN
      BY <1>0, <1>9 DEF Unlock, At, IsCmd, WorkSteps
    <2>2. Knows(ws, migrated, AfterVisit(cmd[c], cmd[c].ok))
      BY <2>1, AfterVisitKnows DEF Knows
    <2> QED
      BY <1>0, <1>9, <2>1, <2>2, OneKnows, SameReleases DEF Unlock, Set
  <1>10. ASSUME NEW c \in Clients, Report(c) PROVE MigrationInv'
    <2>1. UNCHANGED <<ws, rep, migrated>>
      BY <1>10 DEF Report, host
    <2>2. ASSUME NEW r, Set(c, r), r.at \in {"none", "start"} PROVE MigrationInv'
      <3>1. Knows(ws, migrated', r)
        BY <2>2, KnowsNothing
      <3> QED
        BY <1>0, <2>1, <2>2, <3>1, OneKnows, SameReleases DEF Set
    <2>3. [cmd[c] EXCEPT !.at = "start", !.fleets = Tail(@)].at = "start" /\ Idle.at = "none"
      BY <1>0 DEF IsCmd, Fields, Idle
    <2> QED
      BY <1>10, <2>2, <2>3 DEF Report
  <1>11. ASSUME NEW c \in Clients, Swap(c) PROVE MigrationInv'
    <2>1. cmd[c].at = "swap" /\ UNCHANGED <<ws, migrated>> /\ IsCmd(cmd[c])
          /\ \E ok \in BOOLEAN : Set(c, AfterVisit(cmd[c], ok))
      BY <1>0, <1>11 DEF Swap, At
    <2> PICK ok \in BOOLEAN : Set(c, AfterVisit(cmd[c], ok))
      BY <2>1
    <2>2. cmd[c].phase # "idle" /\ cmd[c].op = "rollback"
      BY <2>1 DEF IsCmd
    <2>3. Knows(ws, migrated, AfterVisit(cmd[c], ok))
      BY <2>1, <2>2, AfterVisitKnows
    <2>4. \/ UNCHANGED rep
          \/ LET r == rep[cmd[c].app][Here(c)]
             IN  rep' = [rep EXCEPT ![cmd[c].app][Here(c)] =
                            [serving |-> r.fallback, fallback |-> r.serving]]
      BY <1>11 DEF Swap
    <2>5. Served'
      BY <2>1, <2>4 DEF Served
    <2> QED
      BY <1>0, <2>1, <2>3, <2>5, OneKnows DEF Set
  <1>12. ASSUME NEW c \in Clients, Crash(c) PROVE MigrationInv'
    BY <1>0, <1>12, KnowsNothing, OneKnows, SameReleases DEF Crash, Set, Idle
  <1>13. ASSUME NEW s \in Known(ws), ClearOrphan(s) PROVE MigrationInv'
    <2>1. UNCHANGED <<ws, rep, migrated, cmd>>
      BY <1>13 DEF ClearOrphan
    <2> QED
      BY <1>0, <2>1, SameReleases
  <1>14. ASSUME NEW c \in Clients, NEW r, DOMAIN r = Fields, Knows(ws, migrated, r),
                StartCommand(c, r), UNCHANGED <<ws, rep, migrated>>
         PROVE  MigrationInv'
    <2> DEFINE aware(x, b) == [x EXCEPT !.alone = b]
    <2>1. ASSUME NEW x, NEW b, DOMAIN x = Fields, Knows(ws, migrated, x)
          PROVE  Knows(ws, migrated, aware(x, b))
      <3> DEFINE y == aware(x, b)
      <3>1. /\ y.at = x.at /\ y.op = x.op /\ y.phase = x.phase /\ y.todo = x.todo
            /\ y.jobs = x.jobs /\ y.fleets = x.fleets /\ y.on = x.on /\ y.release = x.release
            /\ y.ok = x.ok
        BY <2>1 DEF Fields, Idle
      <3> HIDE DEF y
      <3> QED
        BY <2>1, <3>1 DEF Knows, RollOf, y
    <2>2. cmd'[c] = aware(r, Quiet) /\ \A d \in Clients \ {c} : cmd'[d] \in {cmd[d], aware(cmd[d], FALSE)}
      BY <1>14 DEF StartCommand
    <2> HIDE DEF aware
    <2>3. \A d \in Clients : Knows(ws, migrated, cmd'[d])
      <3>1. Knows(ws, migrated, cmd'[c])
        BY <1>14, <2>1, <2>2
      <3>2. ASSUME NEW d \in Clients \ {c} PROVE Knows(ws, migrated, cmd'[d])
        <4>1. Knows(ws, migrated, cmd[d]) /\ DOMAIN cmd[d] = Fields
          BY <1>0 DEF IsCmd
        <4> QED
          <5>1. cmd'[d] = cmd[d] \/ cmd'[d] = aware(cmd[d], FALSE)
            BY <2>2
          <5>2. Knows(ws, migrated, aware(cmd[d], FALSE))
            BY <2>1, <4>1
          <5> QED
            BY <4>1, <5>1, <5>2
      <3> QED
        BY <3>1, <3>2
    <2>4. \A d \in Clients : Knows(ws', migrated', cmd'[d])
      BY <1>14, <2>3
    <2> QED
      BY <1>0, <1>14, <2>4, SameReleases
  <1>15. ASSUME NEW c \in Clients, NEW on \in Known(ws) \cup {All}, NEW app \in Names(ws) \cup {All},
                StartDeploy(c, app, on)
         PROVE  MigrationInv'
    <2> DEFINE fleets == [i \in DOMAIN FleetApps(app) |-> FleetApps(app)[i].name]
               r == [Idle EXCEPT !.op = "deploy", !.app = app, !.on = on, !.fleets = fleets]
               roll == [r EXCEPT !.phase = "roll", !.at = "start"]
    <2>1. UNCHANGED <<ws, rep, migrated>>
          /\ \/ \E servers : StartCommand(c, FanTo(r, servers))
             \/ StartCommand(c, roll)
      BY <1>15 DEF StartDeploy, host
    <2> HIDE DEF fleets
    <2>2. DOMAIN r = Fields /\ r.op = "deploy" /\ r.ok \in BOOLEAN
      BY DEF Fields, Idle
    <2>3. DOMAIN roll = Fields /\ roll.at = "start"
      BY DEF Fields, Idle
    <2> HIDE DEF r, roll
    <2>4. Knows(ws, migrated, roll)
      BY <2>3, KnowsNothing
    <2>5. \A servers : DOMAIN FanTo(r, servers) = Fields /\ Knows(ws, migrated, FanTo(r, servers))
      BY <2>2, FanToIsCmd, FanToKnows DEF IsCmd
    <2> QED
      BY <1>14, <2>1, <2>3, <2>4, <2>5
  <1>16. ASSUME NEW c \in Clients, NEW on \in Known(ws) \cup {All}, NEW app \in Names(ws),
                StartRollback(c, app, on)
         PROVE  MigrationInv'
    <2> DEFINE r == [Idle EXCEPT !.op = "rollback", !.app = app, !.on = on, !.phase = "roll",
                                 !.fleets = <<app>>]
    <2>1. UNCHANGED <<ws, rep, migrated>> /\ \E servers : StartCommand(c, RollTo(r, servers))
      BY <1>16 DEF StartRollback, host
    <2>2. DOMAIN r = Fields /\ r.op = "rollback" /\ r.phase = "roll" /\ r.ok \in BOOLEAN
      BY DEF Fields, Idle
    <2> HIDE DEF r
    <2>3. \A servers : DOMAIN RollTo(r, servers) = Fields /\ Knows(ws, migrated, RollTo(r, servers))
      BY <2>2, RollToIsCmd, RollToKnows DEF IsCmd
    <2> QED
      BY <1>14, <2>1, <2>3
  <1> QED
    BY <1>1, <1>2, <1>3, <1>5, <1>6, <1>7, <1>8, <1>9, <1>10, <1>11, <1>12, <1>13, <1>15, <1>16
    DEF Next, Step

\* A release serves on a replica only if its app's beforeFleet hook succeeded for it,
\* for rolls restricted by `--on` and for what a rollback brings back as well.
THEOREM ServedReleasesAreMigrated == Spec => []MigratedBeforeServing
  <1>1. Init => MigrationInv
    <2> SUFFICES ASSUME Init PROVE MigrationInv
      OBVIOUS
    <2>1. LockInv
      BY IdleIsCmd DEF Init, LockInv, CmdTypes, LockIffWorking, WorksOn, Idle, WorkSteps
    <2>2. Served
      BY DEF Init, Served
    <2>3. \A c \in Clients : Knows(ws, migrated, cmd[c])
      BY KnowsNothing DEF Init, Idle
    <2> QED
      BY <2>1, <2>2, <2>3 DEF MigrationInv
  <1>2. MigrationInv /\ [Next]_vars => MigrationInv'
    <2>1. ASSUME MigrationInv, UNCHANGED vars PROVE MigrationInv'
      <3>1. LockInv'
        BY <2>1 DEF vars, host, MigrationInv, LockInv, CmdTypes, LockIffWorking, WorksOn
      <3>2. Served' /\ \A c \in Clients : Knows(ws', migrated', cmd'[c])
        BY <2>1, SameReleases DEF vars, host, MigrationInv
      <3> QED
        BY <3>1, <3>2 DEF MigrationInv
    <2> QED
      BY <2>1, NextMigrationInv
  <1>3. MigrationInv => MigratedBeforeServing
    BY DEF MigrationInv, Served, MigratedBeforeServing
  <1> QED
    BY <1>1, <1>2, <1>3, PTL DEF Spec

-----------------------------------------------------------------------------
(* What a command's record says of the workspace. *)

HIDE ClientsAssumption

UniqueNames(w) == \A a, b \in Apps(w) : a.name = b.name => a = b

JobKinds(w) == ({"accessory"} \X {x.name : x \in ToSet(w.accessories)}) \cup ({"app"} \X Names(w))

\* A single-server app is deployed on the server it names.
OnItsServer(w, j, s) ==
    j[1] = "app" => /\ j[2] \in Names(w)
                    /\ UniqueNames(w) => ServersOf(w, AppNamed(w, j[2])) = {s}

\* The replicas of a roll, in order: those it has been to, and those it has to go to.
Lists(w, r) ==
    /\ r.applied \in Seq(Known(w))
    /\ r.at # "report" => r.failed = <<>> /\ r.skipped = <<>>
    /\ r.at \in {"connect", "lock"} \cup WorkSteps => r.applied \o r.todo = RollOf(w, r)
    /\ r.at = "report" => /\ r.applied \o r.failed \o r.skipped = RollOf(w, r)
                          /\ r.failed = <<>> => r.skipped = <<>>

Shape(w, r) ==
    /\ r.app \in Names(w) \cup {All}
    /\ r.phase = "idle" => r.at = "none"
    /\ r.at \in {"start", "report"} => r.phase = "roll"
    /\ r.todo \in Seq(Known(w)) /\ r.jobs \in Seq(JobKinds(w)) /\ r.fleets \in Seq(Names(w))
    /\ r.phase = "fan" => /\ \A j \in ToSet(r.jobs) : OnItsServer(w, j, Head(r.todo))
                          /\ r.applied = <<>> /\ r.skipped = <<>>
    /\ r.phase = "roll" /\ r.at # "start" => r.fleets # <<>>
    /\ r.at \in WorkSteps \ {"unlock"} => r.jobs # <<>>
    /\ r.at \in {"beforeFleet", "flip", "post"} => Head(r.jobs)[1] = "app"
    /\ r.at = "unlock" /\ r.ok => r.jobs = <<>>
    /\ r.phase = "roll" /\ r.op = "deploy" => Lists(w, r)

ShapeInv == Loads /\ LockInv /\ \A c \in Clients : Shape(ws, cmd[c])

\* Where the scheduler of an app runs.
SchedInv == \A p \in sched : /\ p[1] \in Names(ws)
                             /\ p[2] = getServerTargets(configForApp(ws, AppNamed(ws, p[1])))[1]

\* An undisturbed command is the only one.
AloneInv == \A c \in Clients : Active(c) /\ cmd[c].alone => \A d \in Clients \ {c} : ~Active(d)

Whole(r) == r.op = "deploy" /\ r.app = All /\ r.on = All /\ r.alone

\* An accessory of a whole-workspace deploy is up, or its turn comes, or the fan-out
\* has failed.
Accounted(u, r, x) ==
    \/ x.name \in u
    \/ r.failed # <<>> \/ (r.at = "unlock" /\ ~r.ok)
    \/ <<"accessory", x.name>> \in ToSet(r.jobs)
    \/ ServersOf(ws, x) \cap ToSet(Tail(r.todo)) # {}
Furnished(u, r) ==
    \A x \in ToSet(ws.accessories) :
        /\ r.phase = "fan" => Accounted(u, r, x)
        /\ r.phase = "roll" => x.name \in u
AccessoryInv == \A c \in Clients : Whole(cmd[c]) => Furnished(up, cmd[c])

\* Releases in the order they were minted.
Minted == /\ minted \in Nat /\ DOMAIN rep = Names(ws)
          /\ \A a \in Names(ws) : DOMAIN rep[a] = Known(ws)
          /\ \A a \in Names(ws), s \in Known(ws) : /\ rep[a][s].serving \in 0 .. minted
                                                   /\ rep[a][s].fallback \in 0 .. minted
          /\ \A c \in Clients : cmd[c].release \in 0 .. minted

\* What an undisturbed command knows of the replicas `p`: its release is newer than
\* what a replica it has still to flip serves and falls back to.
Older(x, n) == x.serving \in 0 .. n - 1 /\ x.fallback \in 0 .. n - 1
RollTruth(p, r) ==
    LET a == Head(r.fleets)
    IN  /\ r.release # 0
        /\ \A s \in ToSet(r.applied) : p[a][s].serving = r.release
        /\ r.at # "report" => \A s \in ToSet(Tail(r.todo)) : Older(p[a][s], r.release)
        /\ r.at \in {"connect", "lock", "job"} => Older(p[a][Head(r.todo)], r.release)
        /\ r.at = "report" => \A s \in ToSet(r.skipped) : Older(p[a][s], r.release)
        /\ r.at = "unlock" /\ r.ok => p[a][Head(r.todo)].serving = r.release
Truth(p, r) ==
    /\ r.at = "post" => p[Head(r.jobs)[2]][Head(r.todo)].serving = r.release
    /\ r.at \in {"beforeFleet", "flip"} => Older(p[Head(r.jobs)[2]][Head(r.todo)], r.release)
    /\ r.op = "deploy" /\ r.phase = "roll" /\ r.at # "start" => RollTruth(p, r)
TruthInv == \A c \in Clients : Active(c) /\ cmd[c].alone => Truth(rep, cmd[c])

-----------------------------------------------------------------------------
(* The servers of a scope. *)

LEMMA NamedApp ==
    ASSUME NEW w, NEW name \in Names(w)
    PROVE  AppNamed(w, name) \in Apps(w) /\ AppNamed(w, name).name = name
  BY DEF Names, AppNamed

LEMMA ScopeHas ==
    ASSUME Loads, NEW app \in Names(ws) \cup {All}
    PROVE  LET w == Scope(app)
           IN  /\ Named(w) /\ DOMAIN w = DOMAIN ws /\ Known(w) \subseteq Known(ws)
               /\ w.apps \in Seq(AppConfig) /\ Apps(w) \subseteq Apps(ws)
               /\ w.accessories \in Seq(AccessoryConfig)
               /\ ToSet(w.accessories) \subseteq ToSet(ws.accessories)
               /\ \A a \in Apps(w) : ServersOf(w, a) = ServersOf(ws, a)
  <1>0. ShipnodeConfig(ws) /\ Named(ws)
    BY ConfigIsNamed DEF Loads
  <1>1. CASE app = All
    BY <1>0, <1>1 DEF Scope, ShipnodeConfig
  <1>2. CASE app # All
    <2> DEFINE a == AppNamed(ws, app)
               w == configForApp(ws, a)
    <2>1. a \in Apps(ws)
      BY <1>2, NamedApp
    <2>2. a \in AppConfig /\ a.on \in Seq(STRING)
      BY <1>0, <2>1, ConfigHas
    <2>3. /\ DOMAIN w = DOMAIN ws /\ Named(w) /\ Known(w) \subseteq Known(ws) /\ w.apps = <<a>>
          /\ w.accessories = On(ws, ws.accessories, ServersOf(ws, a))
      BY <1>0, <2>2, NarrowedConfig
    <2>4. ws.accessories \in Seq(AccessoryConfig)
      BY <1>0 DEF ShipnodeConfig
    <2>5. /\ w.accessories \in Seq(AccessoryConfig)
          /\ ToSet(w.accessories) \subseteq ToSet(ws.accessories)
      BY <2>3, <2>4, OnlyHas DEF On
    <2>6. ServersOf(w, a) = ServersOf(ws, a)
      BY <1>0, <2>2, SameServers
    <2>7. \A y : ToSet(<<y>>) = {y}
      BY DEF ToSet
    <2>8. w = Scope(app)
      BY <1>2 DEF Scope
    <2> HIDE DEF w, a
    <2>9. w.apps \in Seq(AppConfig) /\ Apps(w) = {a}
      BY <2>2, <2>3, <2>7 DEF Apps
    <2> QED
      BY <2>1, <2>3, <2>5, <2>6, <2>8, <2>9
  <1> QED
    BY <1>1, <1>2

LEMMA NarrowHas ==
    ASSUME NEW T, NEW s \in Seq(T), NEW on
    PROVE  Narrow(s, on) \in Seq(T) /\ (IsInjective(s) => IsInjective(Narrow(s, on)))
  BY OnlyHas DEF Narrow

\* The servers a fan-out visits.
LEMMA TargetsHas ==
    ASSUME Loads, NEW app \in Names(ws) \cup {All}, NEW on
    PROVE  /\ Targets(app, on) \in Seq(Known(ws))
           /\ app = All /\ on = All =>
                 ToSet(Targets(app, on)) = {s \in Known(ws) : NonEmpty(ws, s)}
  <1> DEFINE w == Scope(app)
             order == getServerTargets(w)
  <1>1. Named(w) /\ Known(w) \subseteq Known(ws)
    BY ScopeHas
  <1>2. order \in Seq(Known(w)) /\ ToSet(order) = Known(w)
    BY <1>1, OrderHas
  <1> HIDE DEF order
  <1>3. order \in Seq(Known(ws))
    BY <1>1, <1>2, SeqMonotonic
  <1>4. Narrow(order, on) \in Seq(Known(ws))
    BY <1>3, NarrowHas
  <1>5. on = All => Narrow(order, on) = order
    BY DEF Narrow
  <1>6. app = All => w = ws
    BY DEF Scope
  <1>7. Targets(app, on) = Only(Narrow(order, on), {s \in Known(w) : NonEmpty(w, s)})
    BY DEF Targets, order
  <1> HIDE DEF w
  <1> QED
    BY <1>2, <1>4, <1>5, <1>6, <1>7, OnlyHas

\* A roll's servers are the app's, each once.
LEMMA ReplicasHas ==
    ASSUME Loads, NEW name \in Names(ws)
    PROVE  /\ Replicas(name) \in Seq(Known(ws)) /\ IsInjective(Replicas(name))
           /\ ToSet(Replicas(name)) = ServersOf(ws, AppNamed(ws, name))
  <1> DEFINE a == AppNamed(ws, name)
             n == configForApp(ws, a)
  <1>1. ShipnodeConfig(ws) /\ a.on \in Seq(STRING)
    BY NamedApp, ConfigHas DEF Loads
  <1>2. Named(n) /\ Known(n) = ServersOf(ws, a) /\ Known(n) \subseteq Known(ws)
    BY <1>1, NarrowedConfig
  <1>3. Replicas(name) = getServerTargets(n)
    BY DEF Replicas
  <1> HIDE DEF n
  <1> QED
    BY <1>2, <1>3, OrderHas, SeqMonotonic

-----------------------------------------------------------------------------
(* The work on one server. *)

JobsOn(kind, xs) == [i \in DOMAIN xs |-> <<kind, xs[i].name>>]

LEMMA JobsOf ==
    ASSUME NEW T, NEW xs \in Seq(T), NEW kind, NEW K, \A x \in ToSet(xs) : <<kind, x.name>> \in K
    PROVE  /\ JobsOn(kind, xs) \in Seq(K)
           /\ \A j : j \in ToSet(JobsOn(kind, xs)) <=> \E x \in ToSet(xs) : j = <<kind, x.name>>
  <1> DEFINE jobs == [i \in DOMAIN xs |-> <<kind, xs[i].name>>]
  <1>1. Len(xs) \in Nat /\ DOMAIN xs = 1 .. Len(xs) /\ \A i \in 1 .. Len(xs) : xs[i] \in ToSet(xs)
    BY DEF ToSet
  <1>2. \A i \in 1 .. Len(xs) : jobs[i] \in K
    BY <1>1
  <1>3. jobs \in Seq(K)
    BY <1>1, <1>2, SeqDef
  <1>4. \A j : j \in ToSet(jobs) <=> \E x \in ToSet(xs) : j = <<kind, x.name>>
    BY <1>1 DEF ToSet
  <1> QED
    BY <1>3, <1>4 DEF JobsOn

LEMMA ToSetConcat ==
    ASSUME NEW T, NEW s \in Seq(T), NEW t \in Seq(T)
    PROVE  s \o t \in Seq(T) /\ ToSet(s \o t) = ToSet(s) \cup ToSet(t)
  <1>1. /\ s \o t \in Seq(T) /\ Len(s \o t) = Len(s) + Len(t)
        /\ \A i \in 1 .. Len(s) : (s \o t)[i] = s[i]
        /\ \A i \in 1 .. Len(t) : (s \o t)[Len(s) + i] = t[i]
    OBVIOUS
  <1>2. ToSet(s \o t) \subseteq ToSet(s) \cup ToSet(t)
    <2> SUFFICES ASSUME NEW i \in 1 .. Len(s \o t) PROVE (s \o t)[i] \in ToSet(s) \cup ToSet(t)
      BY <1>1 DEF ToSet
    <2>1. CASE i <= Len(s)
      BY <1>1, <2>1 DEF ToSet
    <2>2. CASE i > Len(s)
      <3>1. i - Len(s) \in 1 .. Len(t) /\ i = Len(s) + (i - Len(s))
        BY <1>1, <2>2
      <3> QED
        BY <1>1, <3>1 DEF ToSet
    <2> QED
      BY <1>1, <2>1, <2>2
  <1>3. ToSet(s) \cup ToSet(t) \subseteq ToSet(s \o t)
    <2>1. \A i \in 1 .. Len(s) : i \in 1 .. Len(s \o t)
      BY <1>1
    <2>2. \A i \in 1 .. Len(t) : Len(s) + i \in 1 .. Len(s \o t)
      BY <1>1
    <2> QED
      BY <1>1, <2>1, <2>2 DEF ToSet
  <1> QED
    BY <1>1, <1>2, <1>3

\* The work of a fan-out on a server: every accessory of it, and apps that run
\* nowhere else.
LEMMA JobsHas ==
    ASSUME Loads, NEW app \in Names(ws) \cup {All}, NEW s
    PROVE  /\ Jobs(app, s) \in Seq(JobKinds(ws))
           /\ \A j \in ToSet(Jobs(app, s)) : OnItsServer(ws, j, s)
           /\ app = All => \A x \in ToSet(ws.accessories) :
                 s \in ServersOf(ws, x) => <<"accessory", x.name>> \in ToSet(Jobs(app, s))
  <1> DEFINE w    == Scope(app)
             n    == configForServer(w, s)
             solo == Only(n.apps, Apps(n) \ Fleets(app))
             accessories == JobsOn("accessory", n.accessories)
             apps == JobsOn("app", solo)
  <1>1. /\ Named(w) /\ DOMAIN w = DOMAIN ws
        /\ w.apps \in Seq(AppConfig) /\ Apps(w) \subseteq Apps(ws)
        /\ w.accessories \in Seq(AccessoryConfig)
        /\ ToSet(w.accessories) \subseteq ToSet(ws.accessories)
        /\ \A a \in Apps(w) : ServersOf(w, a) = ServersOf(ws, a)
    BY ScopeHas
  <1>2. DOMAIN ws = {"servers", "host", "apps", "accessories", "database"} /\ ShipnodeConfig(ws)
    BY DEF Loads, ShipnodeConfig
  <1>3. n.apps = On(w, w.apps, {s}) /\ n.accessories = On(w, w.accessories, {s})
    BY <1>1, <1>2 DEF configForServer
  <1>4. Jobs(app, s) = accessories \o apps
    BY DEF Jobs, JobsOn
  <1>5. app = All => w = ws
    BY DEF Scope
  <1>6. Fleets(app) = {a \in Apps(w) : isFleet(w, a)}
    BY DEF Fleets
  <1> HIDE DEF w, n
  <1>7. n.apps \in Seq(AppConfig) /\ Apps(n) = {a \in Apps(w) : s \in ServersOf(w, a)}
    <2>1. n.apps \in Seq(AppConfig)
          /\ ToSet(n.apps) = ToSet(w.apps) \cap {x \in ToSet(w.apps) : ServersOf(w, x) \cap {s} # {}}
      BY <1>1, <1>3, OnlyHas DEF On
    <2> QED
      BY <2>1 DEF Apps
  <1>8. n.accessories \in Seq(AccessoryConfig)
        /\ ToSet(n.accessories) = {x \in ToSet(w.accessories) : s \in ServersOf(w, x)}
    <2>1. n.accessories \in Seq(AccessoryConfig)
          /\ ToSet(n.accessories) = ToSet(w.accessories)
                \cap {x \in ToSet(w.accessories) : ServersOf(w, x) \cap {s} # {}}
      BY <1>1, <1>3, OnlyHas DEF On
    <2> QED
      BY <2>1
  <1>9. solo \in Seq(AppConfig) /\ ToSet(solo) = Apps(n) \ Fleets(app)
    BY <1>7, OnlyHas DEF Apps
  <1> HIDE DEF solo
  <1>10. /\ accessories \in Seq(JobKinds(ws))
         /\ \A j : j \in ToSet(accessories) <=> \E x \in ToSet(n.accessories) : j = <<"accessory", x.name>>
    <2>1. \A x \in ToSet(n.accessories) : <<"accessory", x.name>> \in JobKinds(ws)
      BY <1>1, <1>8 DEF JobKinds
    <2> QED
      BY ONLY <1>8, <2>1, JobsOf
  <1>11. /\ apps \in Seq(JobKinds(ws))
         /\ \A j : j \in ToSet(apps) <=> \E x \in ToSet(solo) : j = <<"app", x.name>>
    <2>1. \A x \in ToSet(solo) : <<"app", x.name>> \in JobKinds(ws)
      BY <1>1, <1>7, <1>9 DEF Names, JobKinds
    <2> QED
      BY ONLY <1>9, <2>1, JobsOf
  <1> HIDE DEF accessories, apps
  <1>13. /\ Jobs(app, s) \in Seq(JobKinds(ws))
         /\ ToSet(Jobs(app, s)) = ToSet(accessories) \cup ToSet(apps)
    BY <1>4, <1>10, <1>11, ToSetConcat
  <1>14. ASSUME NEW x \in ToSet(solo), UniqueNames(ws)
         PROVE  ServersOf(ws, AppNamed(ws, x.name)) = {s}
    <2>1. x \in Apps(w) /\ s \in ServersOf(w, x) /\ ~isFleet(w, x) /\ x \in Apps(ws)
      BY <1>1, <1>6, <1>7, <1>9
    <2>2. AppNamed(ws, x.name) = x
      BY <1>14, <2>1, NamedApp DEF UniqueNames, Names
    <2>3. expandTarget(w, x.on) \in Seq(Known(w)) /\ Len(expandTarget(w, x.on)) <= 1
      <3>1. x.on \in Seq(STRING)
        BY <1>2, <2>1, ConfigHas
      <3>2. expandTarget(w, x.on) \in Seq(Known(w))
        BY <1>1, <3>1, TargetHas
      <3> QED
        BY <2>1, <3>2 DEF isFleet
    <2>4. ServersOf(w, x) = {s}
      BY <2>1, <2>3, FirstOf DEF ServersOf
    <2> QED
      BY <1>1, <2>1, <2>2, <2>4
  <1>15. ASSUME NEW j \in ToSet(Jobs(app, s)) PROVE OnItsServer(ws, j, s)
    <2>1. CASE j \in ToSet(accessories)
      BY <1>10, <2>1 DEF OnItsServer
    <2>2. CASE j \in ToSet(apps)
      <3> PICK x \in ToSet(solo) : j = <<"app", x.name>>
        BY <1>11, <2>2
      <3>1. x.name \in Names(ws)
        BY <1>1, <1>7, <1>9 DEF Names
      <3> QED
        BY <1>14, <3>1 DEF OnItsServer
    <2> QED
      BY <1>13, <2>1, <2>2
  <1>16. ASSUME app = All, NEW x \in ToSet(ws.accessories), s \in ServersOf(ws, x)
         PROVE  <<"accessory", x.name>> \in ToSet(Jobs(app, s))
    BY <1>5, <1>8, <1>10, <1>13, <1>16
  <1> QED
    BY <1>13, <1>15, <1>16

-----------------------------------------------------------------------------
(* The records the operators of Fleet return. *)

LEMMA Splits ==
    ASSUME NEW T, NEW s \in Seq(T), NEW t \in Seq(T), t # <<>>
    PROVE  /\ Append(s, Head(t)) \o Tail(t) = s \o t
           /\ s \o <<Head(t)>> \o Tail(t) = s \o t
           /\ Append(s, Head(t)) \in Seq(T) /\ Tail(t) \in Seq(T) /\ Head(t) \in T
  OBVIOUS

LEMMA NoMore == ASSUME NEW T, NEW s \in Seq(T) PROVE s \o <<>> = s /\ <<>> \o s = s
  OBVIOUS

LEMMA IdleShape == Shape(ws, Idle)
  BY DEF Shape, Idle, WorkSteps

LEMMA FanToShape ==
    ASSUME Loads, NEW r, DOMAIN r = Fields, r.app \in Names(ws) \cup {All}, r.fleets \in Seq(Names(ws)),
           r.jobs \in Seq(JobKinds(ws)), r.applied = <<>>, r.skipped = <<>>,
           NEW servers \in Seq(Known(ws))
    PROVE  Shape(ws, FanTo(r, servers))
  <1>1. CASE servers # <<>>
    <2> DEFINE jobs == Jobs(r.app, Head(servers))
               f == [r EXCEPT !.phase = "fan", !.at = "connect", !.todo = servers, !.ok = TRUE,
                              !.jobs = jobs]
    <2>1. FanTo(r, servers) = f
      BY <1>1 DEF FanTo
    <2>2. /\ jobs \in Seq(JobKinds(ws))
          /\ \A j \in ToSet(jobs) : OnItsServer(ws, j, Head(servers))
      BY JobsHas
    <2> HIDE DEF jobs
    <2>3. /\ f.phase = "fan" /\ f.at = "connect" /\ f.todo = servers /\ f.jobs = jobs
          /\ f.app = r.app /\ f.fleets = r.fleets /\ f.applied = <<>> /\ f.skipped = <<>>
      BY DEF Fields, Idle
    <2> HIDE DEF f
    <2> QED
      BY <2>1, <2>2, <2>3 DEF Shape, WorkSteps
  <1>2. CASE servers = <<>> /\ ~Exits(r)
    <2> DEFINE f == [r EXCEPT !.phase = "roll", !.at = "start", !.todo = <<>>]
    <2>1. FanTo(r, servers) = f /\ r.failed = <<>>
      BY <1>2 DEF FanTo, Exits
    <2>2. /\ f.phase = "roll" /\ f.at = "start" /\ f.todo = <<>> /\ f.jobs = r.jobs
          /\ f.app = r.app /\ f.fleets = r.fleets /\ f.applied = <<>> /\ f.skipped = <<>>
          /\ f.failed = r.failed
      BY DEF Fields, Idle
    <2> HIDE DEF f
    <2> QED
      BY <2>1, <2>2 DEF Shape, Lists, WorkSteps
  <1>3. CASE servers = <<>> /\ Exits(r)
    BY <1>3, IdleShape DEF FanTo
  <1> QED
    BY <1>1, <1>2, <1>3

LEMMA RollToShape ==
    ASSUME NEW r, DOMAIN r = Fields, r.phase = "roll", r.app \in Names(ws) \cup {All},
           r.fleets \in Seq(Names(ws)), r.fleets # <<>>, NEW servers \in Seq(Known(ws)),
           r.op = "deploy" =>
              /\ r.applied \in Seq(Known(ws))
              /\ servers # <<>> => /\ r.failed = <<>> /\ r.skipped = <<>>
                                   /\ r.applied \o servers = RollOf(ws, r)
              /\ servers = <<>> => /\ r.applied \o r.failed \o r.skipped = RollOf(ws, r)
                                   /\ r.failed = <<>> => r.skipped = <<>>
    PROVE  Shape(ws, RollTo(r, servers))
  <1>1. CASE servers # <<>>
    <2> DEFINE job == <<"app", Head(r.fleets)>>
               f == [r EXCEPT !.at = "connect", !.todo = servers, !.ok = TRUE, !.jobs = <<job>>]
    <2>1. RollTo(r, servers) = f
      BY <1>1 DEF RollTo
    <2>2. job \in JobKinds(ws)
      BY DEF JobKinds
    <2> HIDE DEF job
    <2>3. /\ f.phase = "roll" /\ f.at = "connect" /\ f.todo = servers /\ f.jobs = <<job>>
          /\ f.app = r.app /\ f.fleets = r.fleets /\ f.applied = r.applied /\ f.failed = r.failed
          /\ f.skipped = r.skipped /\ f.op = r.op /\ f.on = r.on
      BY DEF Fields, Idle
    <2>4. <<job>> \in Seq(JobKinds(ws))
      BY <2>2
    <2> HIDE DEF f
    <2>5. RollOf(ws, f) = RollOf(ws, r)
      BY <2>3 DEF RollOf
    <2> QED
      BY <1>1, <2>1, <2>3, <2>4, <2>5 DEF Shape, Lists, WorkSteps
  <1>2. CASE servers = <<>>
    <2> DEFINE f == [r EXCEPT !.at = "report", !.todo = <<>>, !.jobs = <<>>]
    <2>1. RollTo(r, servers) = f
      BY <1>2 DEF RollTo
    <2>2. /\ f.phase = "roll" /\ f.at = "report" /\ f.todo = <<>> /\ f.jobs = <<>>
          /\ f.app = r.app /\ f.fleets = r.fleets /\ f.applied = r.applied /\ f.failed = r.failed
          /\ f.skipped = r.skipped /\ f.op = r.op /\ f.on = r.on
      BY DEF Fields, Idle
    <2> HIDE DEF f
    <2>3. RollOf(ws, f) = RollOf(ws, r)
      BY <2>2 DEF RollOf
    <2>4. \A T : <<>> \in Seq(T)
      OBVIOUS
    <2>5. r.op = "deploy" => Lists(ws, f)
      BY <1>2, <2>2, <2>3 DEF Lists, WorkSteps
    <2> QED
      BY <1>2, <2>1, <2>2, <2>4, <2>5 DEF Shape, WorkSteps
  <1> QED
    BY <1>1, <1>2

LEMMA AfterVisitShape ==
    ASSUME Loads, NEW r, IsCmd(r), Shape(ws, r), r.at \in {"connect", "lock", "swap"} \cup WorkSteps,
           NEW ok \in BOOLEAN
    PROVE  Shape(ws, AfterVisit(r, ok))
  <1>0. /\ r.todo \in Seq(Known(ws)) /\ r.todo # <<>> /\ r.fleets \in Seq(Names(ws))
        /\ r.app \in Names(ws) \cup {All} /\ r.jobs \in Seq(JobKinds(ws)) /\ DOMAIN r = Fields
        /\ Tail(r.todo) \in Seq(Known(ws)) /\ r.phase \in {"fan", "roll"}
    BY DEF Shape, IsCmd, WorkSteps
  <1>1. CASE r.phase = "fan"
    <2> DEFINE f == [r EXCEPT !.failed = IF ok THEN @ ELSE Append(@, Head(r.todo))]
    <2>1. /\ DOMAIN f = Fields /\ f.app = r.app /\ f.fleets = r.fleets /\ f.jobs = r.jobs
          /\ f.applied = r.applied /\ f.skipped = r.skipped
      BY <1>0 DEF Fields, Idle
    <2>2. AfterVisit(r, ok) = FanTo(f, Tail(r.todo))
      BY <1>1 DEF AfterVisit
    <2>3. r.applied = <<>> /\ r.skipped = <<>>
      BY <1>1 DEF Shape
    <2> HIDE DEF f
    <2> QED
      BY <1>0, <2>1, <2>2, <2>3, FanToShape
  <1>2. ASSUME r.phase = "roll" PROVE r.fleets # <<>>
    BY <1>2 DEF Shape, WorkSteps
  <1>3. ASSUME r.phase = "roll", r.op = "deploy"
        PROVE  /\ r.applied \in Seq(Known(ws)) /\ r.failed = <<>> /\ r.skipped = <<>>
               /\ r.applied \o r.todo = RollOf(ws, r)
    BY <1>3 DEF Shape, Lists, IsCmd, WorkSteps
  <1>4. CASE r.phase = "roll" /\ ok
    <2> DEFINE f == [r EXCEPT !.applied = Append(@, Head(r.todo))]
    <2>1. /\ DOMAIN f = Fields /\ f.app = r.app /\ f.fleets = r.fleets /\ f.phase = "roll"
          /\ f.applied = Append(r.applied, Head(r.todo)) /\ f.failed = r.failed
          /\ f.skipped = r.skipped /\ f.op = r.op /\ f.on = r.on
      BY <1>0, <1>4 DEF Fields, Idle
    <2>2. AfterVisit(r, ok) = RollTo(f, Tail(r.todo))
      BY <1>4 DEF AfterVisit, RestOfRoll
    <2> HIDE DEF f
    <2>3. RollOf(ws, f) = RollOf(ws, r)
      BY <2>1 DEF RollOf
    <2>4. ASSUME f.op = "deploy"
          PROVE  /\ f.applied \in Seq(Known(ws)) /\ f.failed = <<>> /\ f.skipped = <<>>
                 /\ f.applied \o Tail(r.todo) = RollOf(ws, f)
      <3>1. r.applied \in Seq(Known(ws)) /\ r.applied \o r.todo = RollOf(ws, r)
        BY <1>3, <1>4, <2>1, <2>4
      <3>2. /\ Append(r.applied, Head(r.todo)) \in Seq(Known(ws))
            /\ Append(r.applied, Head(r.todo)) \o Tail(r.todo) = r.applied \o r.todo
        <4> DEFINE s == r.applied
                   t == r.todo
        <4>1. s \in Seq(Known(ws)) /\ t \in Seq(Known(ws)) /\ t # <<>>
          BY <1>0, <3>1
        <4> HIDE DEF s, t
        <4>2. Append(s, Head(t)) \in Seq(Known(ws)) /\ Append(s, Head(t)) \o Tail(t) = s \o t
          BY ONLY <4>1, Splits
        <4> QED
          BY <4>2 DEF s, t
      <3> QED
        BY <1>3, <1>4, <2>1, <2>3, <2>4, <3>1, <3>2
    <2>5. ASSUME f.op = "deploy", Tail(r.todo) = <<>>
          PROVE  f.applied \o f.failed \o f.skipped = RollOf(ws, f)
      <3>1. f.applied \o <<>> = f.applied
        BY <2>4, <2>5, NoMore
      <3> QED
        BY <2>4, <2>5, <3>1
    <2> QED
      BY <1>0, <1>2, <1>4, <2>1, <2>2, <2>4, <2>5, RollToShape
  <1>5. CASE r.phase = "roll" /\ ~ok
    <2> DEFINE f == [r EXCEPT !.failed = <<Head(r.todo)>>, !.skipped = Tail(r.todo)]
    <2>1. /\ DOMAIN f = Fields /\ f.app = r.app /\ f.fleets = r.fleets /\ f.phase = "roll"
          /\ f.applied = r.applied /\ f.failed = <<Head(r.todo)>>
          /\ f.skipped = Tail(r.todo) /\ f.op = r.op /\ f.on = r.on
      BY <1>0, <1>5 DEF Fields, Idle
    <2>2. AfterVisit(r, ok) = RollTo(f, <<>>)
      BY <1>5 DEF AfterVisit, RestOfRoll
    <2> HIDE DEF f
    <2>3. RollOf(ws, f) = RollOf(ws, r)
      BY <2>1 DEF RollOf
    <2>4. ASSUME f.op = "deploy"
          PROVE  /\ f.applied \in Seq(Known(ws))
                 /\ f.applied \o f.failed \o f.skipped = RollOf(ws, f)
      <3>1. r.applied \in Seq(Known(ws)) /\ r.applied \o r.todo = RollOf(ws, r)
        BY <1>3, <1>5, <2>1, <2>4
      <3>2. r.applied \o <<Head(r.todo)>> \o Tail(r.todo) = r.applied \o r.todo
        <4> DEFINE s == r.applied
                   t == r.todo
        <4>1. s \in Seq(Known(ws)) /\ t \in Seq(Known(ws)) /\ t # <<>>
          BY <1>0, <3>1
        <4> HIDE DEF s, t
        <4>2. s \o <<Head(t)>> \o Tail(t) = s \o t
          BY ONLY <4>1, Splits
        <4> QED
          BY <4>2 DEF s, t
      <3> QED
        BY <2>1, <2>3, <3>1, <3>2
    <2>5. f.failed # <<>> /\ <<>> \in Seq(Known(ws))
      BY <2>1
    <2> QED
      BY <1>0, <1>2, <1>5, <2>1, <2>2, <2>4, <2>5, RollToShape
  <1> QED
    BY <1>0, <1>1, <1>4, <1>5

\* A record that has moved on within a visit.
LEMMA SameVisit ==
    ASSUME NEW r, NEW t, Shape(ws, r), IsCmd(r),
           t.app = r.app, t.op = r.op, t.on = r.on, t.phase = r.phase, t.todo = r.todo, t.jobs = r.jobs,
           t.fleets = r.fleets, t.applied = r.applied, t.failed = r.failed, t.skipped = r.skipped,
           r.at \in {"connect", "lock"} \cup (WorkSteps \ {"unlock"}),
           t.at \in {"lock", "swap"} \cup WorkSteps,
           t.at = "swap" => r.op = "rollback",
           t.at \in WorkSteps \ {"unlock"} => r.jobs # <<>>,
           t.at \in {"beforeFleet", "flip", "post"} => Head(r.jobs)[1] = "app",
           t.at = "unlock" => t.ok = FALSE
    PROVE  Shape(ws, t)
  <1>1. RollOf(ws, t) = RollOf(ws, r)
    BY DEF RollOf
  <1>2. r.phase \in {"fan", "roll"}
    BY DEF IsCmd, WorkSteps
  <1>3. r.phase = "roll" /\ r.op = "deploy" => Lists(ws, t)
    BY <1>1 DEF Shape, Lists, WorkSteps
  <1> QED
    BY <1>2, <1>3 DEF Shape, WorkSteps

LEMMA JobDoneShape ==
    ASSUME NEW r, Shape(ws, r), IsCmd(r), r.at \in {"job", "post"}, r.phase = "roll" => r.at = "post"
    PROVE  Shape(ws, JobDone(r))
  <1> DEFINE rest == Tail(r.jobs)
             at == IF rest = <<>> THEN "unlock" ELSE "job"
             t == JobDone(r)
  <1>1. /\ t.app = r.app /\ t.op = r.op /\ t.on = r.on /\ t.phase = r.phase /\ t.todo = r.todo
        /\ t.jobs = rest /\ t.fleets = r.fleets /\ t.applied = r.applied /\ t.failed = r.failed
        /\ t.skipped = r.skipped /\ t.at = at
    BY DEF JobDone, IsCmd, Fields, Idle
  <1>2. r.jobs \in Seq(JobKinds(ws)) /\ r.jobs # <<>> /\ r.phase \in {"fan", "roll"}
    BY DEF Shape, IsCmd, WorkSteps
  <1>3. rest \in Seq(JobKinds(ws)) /\ ToSet(rest) \subseteq ToSet(r.jobs)
    BY <1>2 DEF ToSet
  <1> HIDE DEF t, rest
  <1>4. RollOf(ws, t) = RollOf(ws, r)
    BY <1>1 DEF RollOf
  <1>5. r.phase = "roll" /\ r.op = "deploy" => Lists(ws, t)
    BY <1>1, <1>4 DEF Shape, Lists, WorkSteps
  <1>6. Shape(ws, t)
    BY <1>1, <1>2, <1>3, <1>5 DEF Shape, WorkSteps
  <1> QED
    BY <1>6 DEF t

\* A step of one client.
LEMMA OneShape ==
    ASSUME ShapeInv, UNCHANGED ws, NEW c \in Clients, NEW r, cmd' = [cmd EXCEPT ![c] = r],
           Shape(ws, r)
    PROVE  \A d \in Clients : Shape(ws', cmd'[d])
  BY DEF ShapeInv, LockInv, CmdTypes

LEMMA FailureShape ==
    ASSUME ShapeInv, UNCHANGED ws, NEW c \in Clients, cmd[c].at \in WorkSteps \ {"unlock"}, Fails(c)
    PROVE  \A d \in Clients : Shape(ws', cmd'[d])
  <1> DEFINE r == cmd[c]
             t == AfterFailure(c)
  <1>1. IsCmd(r) /\ Shape(ws, r) /\ DOMAIN r = Fields
    BY DEF ShapeInv, LockInv, CmdTypes, IsCmd
  <1>2. /\ t.app = r.app /\ t.op = r.op /\ t.on = r.on /\ t.phase = r.phase /\ t.todo = r.todo
        /\ t.jobs = r.jobs /\ t.fleets = r.fleets /\ t.applied = r.applied /\ t.failed = r.failed
        /\ t.skipped = r.skipped /\ t.at = "unlock" /\ t.ok = FALSE
    BY <1>1 DEF AfterFailure, Fields, Idle
  <1>3. cmd' = [cmd EXCEPT ![c] = t]
    BY DEF Fails, Set
  <1> HIDE DEF t
  <1>4. Shape(ws, t)
    BY <1>1, <1>2, SameVisit DEF WorkSteps
  <1> QED
    BY <1>3, <1>4, OneShape

LEMMA MoveShape ==
    ASSUME ShapeInv, UNCHANGED ws, NEW c \in Clients, NEW l \in {"lock", "swap"} \cup (WorkSteps \ {"unlock"}),
           NEW n, \/ Set(c, [cmd[c] EXCEPT !.at = l])
                  \/ Set(c, [cmd[c] EXCEPT !.at = l, !.release = n]),
           cmd[c].at \in {"connect", "lock"} \cup (WorkSteps \ {"unlock"}),
           l = "swap" => cmd[c].op = "rollback",
           l \in WorkSteps => cmd[c].jobs # <<>>,
           l \in {"beforeFleet", "flip", "post"} => Head(cmd[c].jobs)[1] = "app"
    PROVE  \A d \in Clients : Shape(ws', cmd'[d])
  <1> DEFINE r == cmd[c]
  <1>1. IsCmd(r) /\ Shape(ws, r) /\ DOMAIN r = Fields
    BY DEF ShapeInv, LockInv, CmdTypes, IsCmd
  <1>2. PICK t \in {[r EXCEPT !.at = l], [r EXCEPT !.at = l, !.release = n]} :
           cmd' = [cmd EXCEPT ![c] = t]
    BY DEF Set
  <1>3. /\ t.app = r.app /\ t.op = r.op /\ t.on = r.on /\ t.phase = r.phase /\ t.todo = r.todo
        /\ t.jobs = r.jobs /\ t.fleets = r.fleets /\ t.applied = r.applied /\ t.failed = r.failed
        /\ t.skipped = r.skipped /\ t.at = l
    BY <1>1 DEF Fields, Idle
  <1>4. Shape(ws, t)
    BY <1>1, <1>3, SameVisit DEF WorkSteps
  <1> QED
    BY <1>2, <1>4, OneShape

LEMMA NextShape == ASSUME ShapeInv, Next PROVE ShapeInv'
  <1> SUFFICES \A d \in Clients : Shape(ws', cmd'[d])
    BY LoadsStays, NextLockInv DEF ShapeInv
  <1>0. /\ Loads /\ UNCHANGED ws /\ DOMAIN cmd = Clients
        /\ \A c \in Clients : IsCmd(cmd[c]) /\ Shape(ws, cmd[c]) /\ DOMAIN cmd[c] = Fields
    BY LoadsStays DEF ShapeInv, LockInv, CmdTypes, IsCmd
  <1> DEFINE Kept == \A d \in Clients : Shape(ws', cmd'[d])
  <1>1. ASSUME NEW c \in Clients, Set(c, Idle) PROVE Kept
    BY <1>0, <1>1, IdleShape, OneShape DEF Set
  <1>2. ASSUME NEW c \in Clients, NEW ok \in BOOLEAN, Set(c, AfterVisit(cmd[c], ok)),
               cmd[c].at \in {"connect", "lock", "swap"} \cup WorkSteps
        PROVE  Kept
    BY <1>0, <1>2, AfterVisitShape, OneShape DEF Set
  <1>3. ASSUME NEW c \in Clients, StartRoll(c) PROVE Kept
    <2>1. cmd[c].phase = "roll" /\ cmd[c].at = "start"
      BY <1>3 DEF StartRoll, At
    <2> DEFINE name == Head(cmd[c].fleets)
               r == [cmd[c] EXCEPT !.release = minted + 1, !.applied = <<>>]
               servers == Narrow(Replicas(name), cmd[c].on)
    <2>2. ASSUME cmd[c].fleets # <<>>, Set(c, RollTo(r, servers)) PROVE Kept
      <3>1. /\ r.app = cmd[c].app /\ r.op = cmd[c].op /\ r.on = cmd[c].on /\ r.phase = "roll"
            /\ r.fleets = cmd[c].fleets /\ r.applied = <<>> /\ r.failed = cmd[c].failed
            /\ r.skipped = cmd[c].skipped /\ DOMAIN r = Fields
        BY <1>0, <2>1 DEF Fields, Idle
      <3> HIDE DEF r
      <3>2. name \in Names(ws) /\ cmd[c].fleets \in Seq(Names(ws)) /\ cmd[c].app \in Names(ws) \cup {All}
        BY <1>0, <2>2 DEF Shape
      <3>3. servers \in Seq(Known(ws))
        BY <1>0, <3>2, ReplicasHas, NarrowHas
      <3>4. RollOf(ws, r) = servers
        BY <3>1 DEF RollOf, Replicas
      <3> HIDE DEF name, servers
      <3>5. \A T : <<>> \in Seq(T) /\ <<>> \o servers = servers /\ <<>> \o <<>> \o <<>> = <<>>
        BY <3>3, NoMore
      <3>6. r.op = "deploy" => cmd[c].failed = <<>> /\ cmd[c].skipped = <<>>
        BY <1>0, <2>1, <3>1 DEF Shape, Lists
      <3>7. Shape(ws, RollTo(r, servers))
        BY <2>2, <3>1, <3>2, <3>3, <3>4, <3>5, <3>6, RollToShape
      <3> QED
        BY <1>0, <2>2, <3>7, OneShape DEF Set
    <2> QED
      BY <1>1, <1>3, <2>2 DEF StartRoll
  <1>4. ASSUME NEW c \in Clients, Connect(c) PROVE Kept
    <2>1. cmd[c].at = "connect"
      BY <1>4 DEF Connect, At
    <2>2. ASSUME NEW l \in {"swap", "lock"}, l = "swap" => cmd[c].op = "rollback", Goto(c, l)
          PROVE  Kept
      BY <1>0, <2>1, <2>2, MoveShape DEF Goto, WorkSteps
    <2> QED
      BY <1>1, <1>2, <1>4, <2>1, <2>2 DEF Connect
  <1>5. ASSUME NEW c \in Clients, Lock(c) PROVE Kept
    <2>1. cmd[c].at = "lock"
      BY <1>5 DEF Lock, At
    <2>2. ASSUME cmd[c].jobs # <<>>, Goto(c, "job") PROVE Kept
      <3>1. "job" \in WorkSteps \ {"unlock"} /\ "job" \notin {"beforeFleet", "flip", "post", "swap"}
        BY DEF WorkSteps
      <3>2. Set(c, [cmd[c] EXCEPT !.at = "job"])
        BY <2>2 DEF Goto
      <3> QED
        BY <1>0, <2>1, <2>2, <3>1, <3>2, MoveShape
    <2> QED
      BY <1>2, <1>5, <2>1, <2>2 DEF Lock
  <1>6. ASSUME NEW c \in Clients, Fails(c), cmd[c].at \in WorkSteps \ {"unlock"} PROVE Kept
    BY <1>0, <1>6, FailureShape
  <1>7. ASSUME NEW c \in Clients, EnsureAccessory(c) \/ Post(c) PROVE Kept
    <2>1. /\ cmd[c].at \in {"job", "post"} /\ cmd[c].at \in WorkSteps \ {"unlock"}
          /\ Set(c, JobDone(cmd[c])) \/ Fails(c)
      BY <1>7 DEF EnsureAccessory, Post, At, WorkSteps
    <2>2. cmd[c].phase = "roll" => cmd[c].at = "post"
      BY <1>0, <1>7, OneJob DEF EnsureAccessory, Post, At, IsCmd, WorkSteps
    <2>3. CASE Set(c, JobDone(cmd[c]))
      BY <1>0, <2>1, <2>2, <2>3, JobDoneShape, OneShape DEF Set
    <2> QED
      BY <1>6, <2>1, <2>3
  <1>8. ASSUME NEW c \in Clients, Stage(c) PROVE Kept
    <2>1. cmd[c].at = "job" /\ Head(cmd[c].jobs)[1] = "app" /\ cmd[c].jobs # <<>>
      BY <1>0, <1>8 DEF Stage, At, Shape, WorkSteps
    <2>2. ASSUME NEW n, Set(c, [cmd[c] EXCEPT !.at = "beforeFleet", !.release = n]) PROVE Kept
      <3>1. {"job", "beforeFleet"} \subseteq WorkSteps \ {"unlock"} /\ "beforeFleet" # "swap"
        BY DEF WorkSteps
      <3> QED
        BY <1>0, <2>1, <2>2, <3>1, MoveShape
    <2> QED
      BY <1>6, <1>8, <2>1, <2>2 DEF Stage, WorkSteps
  <1>9. ASSUME NEW c \in Clients, BeforeFleet(c) \/ Flip(c) PROVE Kept
    <2>1. /\ cmd[c].at \in {"beforeFleet", "flip"} /\ Head(cmd[c].jobs)[1] = "app"
          /\ cmd[c].jobs # <<>>
      BY <1>0, <1>9 DEF BeforeFleet, Flip, At, Shape, WorkSteps
    <2>2. ASSUME NEW l \in {"flip", "post"}, Goto(c, l) PROVE Kept
      BY <1>0, <2>1, <2>2, MoveShape DEF Goto, WorkSteps
    <2> QED
      BY <1>6, <1>9, <2>1, <2>2 DEF BeforeFleet, Flip, WorkSteps
  <1>10. ASSUME NEW c \in Clients, Unlock(c) PROVE Kept
    BY <1>0, <1>2, <1>10 DEF Unlock, At, WorkSteps, IsCmd
  <1>11. ASSUME NEW c \in Clients, Report(c) PROVE Kept
    <2> DEFINE t == [cmd[c] EXCEPT !.at = "start", !.fleets = Tail(@)]
    <2>1. CASE cmd[c].failed = <<>> /\ cmd[c].op # "rollback" /\ Set(c, t)
      <3>1. /\ t.app = cmd[c].app /\ t.op = cmd[c].op /\ t.on = cmd[c].on /\ t.phase = cmd[c].phase
            /\ t.todo = cmd[c].todo /\ t.jobs = cmd[c].jobs /\ t.fleets = Tail(cmd[c].fleets)
            /\ t.applied = cmd[c].applied /\ t.failed = cmd[c].failed /\ t.skipped = cmd[c].skipped
            /\ t.at = "start"
        BY <1>0 DEF Fields, Idle
      <3> HIDE DEF t
      <3>2. Shape(ws, cmd[c]) /\ IsCmd(cmd[c]) /\ cmd[c].at = "report"
        BY <1>0, <1>11 DEF Report, At
      <3>3. cmd[c].phase = "roll"
        BY <3>2 DEF Shape
      <3>4. Tail(cmd[c].fleets) \in Seq(Names(ws))
        BY <3>2, <3>3 DEF Shape
      <3>5. Shape(ws, t)
        BY <2>1, <3>1, <3>2, <3>3, <3>4 DEF Shape, Lists, WorkSteps
      <3> QED
        BY <1>0, <2>1, <3>5, OneShape DEF Set
    <2> QED
      BY <1>1, <1>11, <2>1 DEF Report
  <1>12. ASSUME NEW c \in Clients, Swap(c) PROVE Kept
    BY <1>2, <1>12 DEF Swap, At
  <1>13. ASSUME NEW c \in Clients, Crash(c) PROVE Kept
    BY <1>1, <1>13 DEF Crash
  <1>14. ASSUME NEW s \in Known(ws), ClearOrphan(s) PROVE Kept
    BY <1>0, <1>14 DEF ClearOrphan
  <1>15. ASSUME NEW c \in Clients, NEW r, Shape(ws, r), DOMAIN r = Fields, StartCommand(c, r)
         PROVE  Kept
    <2> DEFINE aware(x, b) == [x EXCEPT !.alone = b]
    <2>1. ASSUME NEW x, NEW b, DOMAIN x = Fields, Shape(ws, x) PROVE Shape(ws, aware(x, b))
      <3> DEFINE t == aware(x, b)
      <3>1. /\ t.app = x.app /\ t.op = x.op /\ t.on = x.on /\ t.phase = x.phase /\ t.todo = x.todo
            /\ t.jobs = x.jobs /\ t.fleets = x.fleets /\ t.applied = x.applied /\ t.failed = x.failed
            /\ t.skipped = x.skipped /\ t.at = x.at /\ t.ok = x.ok
        BY <2>1 DEF Fields, Idle
      <3> HIDE DEF t
      <3>2. RollOf(ws, t) = RollOf(ws, x)
        BY <3>1 DEF RollOf
      <3>3. Lists(ws, x) => Lists(ws, t)
        BY <3>1, <3>2 DEF Lists
      <3>4. Shape(ws, t)
        BY <2>1, <3>1, <3>3 DEF Shape
      <3> QED
        BY <3>4 DEF t
    <2>2. cmd'[c] = aware(r, Quiet) /\ \A d \in Clients \ {c} : cmd'[d] \in {cmd[d], aware(cmd[d], FALSE)}
      BY <1>15 DEF StartCommand
    <2> HIDE DEF aware
    <2>3. Shape(ws, cmd'[c])
      BY <1>15, <2>1, <2>2
    <2>4. ASSUME NEW d \in Clients \ {c} PROVE Shape(ws, cmd'[d])
      <3>1. Shape(ws, cmd[d]) /\ Shape(ws, aware(cmd[d], FALSE))
        BY <1>0, <2>1
      <3>2. cmd'[d] = cmd[d] \/ cmd'[d] = aware(cmd[d], FALSE)
        BY <2>2
      <3> QED
        BY <3>1, <3>2
    <2> QED
      BY <1>0, <2>3, <2>4
  <1>16. ASSUME NEW c \in Clients, NEW on \in Known(ws) \cup {All}, NEW app \in Names(ws) \cup {All},
                StartDeploy(c, app, on)
         PROVE  Kept
    <2> DEFINE fleets == [i \in DOMAIN FleetApps(app) |-> FleetApps(app)[i].name]
               r == [Idle EXCEPT !.op = "deploy", !.app = app, !.on = on, !.fleets = fleets]
               roll == [r EXCEPT !.phase = "roll", !.at = "start"]
    <2>1. StartCommand(c, FanTo(r, Targets(app, on))) \/ StartCommand(c, roll)
      BY <1>16 DEF StartDeploy
    <2>2. fleets \in Seq(Names(ws))
      <3> DEFINE a == FleetApps(app)
      <3>1. a \in Seq(AppConfig) /\ ToSet(a) \subseteq Apps(ws)
        BY <1>0, ScopeHas, OnlyHas DEF FleetApps, Apps
      <3> HIDE DEF a
      <3>2. Len(a) \in Nat /\ DOMAIN a = 1 .. Len(a) /\ \A i \in 1 .. Len(a) : a[i] \in Apps(ws)
        BY <3>1 DEF ToSet
      <3>3. \A i \in 1 .. Len(a) : a[i].name \in Names(ws)
        BY <3>2 DEF Names
      <3>4. [i \in DOMAIN a |-> a[i].name] \in Seq(Names(ws))
        BY <3>2, <3>3, SeqDef
      <3> QED
        BY <3>4 DEF a
    <2> HIDE DEF fleets
    <2>3. /\ r.app = app /\ r.op = "deploy" /\ r.fleets = fleets /\ r.jobs = <<>> /\ r.applied = <<>>
          /\ r.failed = <<>> /\ r.skipped = <<>> /\ r.todo = <<>> /\ DOMAIN r = Fields /\ r.ok = TRUE
      BY DEF Fields, Idle
    <2>4. /\ roll.app = app /\ roll.fleets = fleets /\ roll.jobs = <<>> /\ roll.applied = <<>>
          /\ roll.failed = <<>> /\ roll.skipped = <<>> /\ roll.todo = <<>> /\ DOMAIN roll = Fields
          /\ roll.phase = "roll" /\ roll.at = "start"
      BY DEF Fields, Idle
    <2> HIDE DEF r, roll
    <2>5. \A T : <<>> \in Seq(T)
      OBVIOUS
    <2>6. Shape(ws, roll)
      BY <2>2, <2>4, <2>5 DEF Shape, Lists, WorkSteps
    <2>7. Shape(ws, FanTo(r, Targets(app, on))) /\ DOMAIN FanTo(r, Targets(app, on)) = Fields
      <3>1. Targets(app, on) \in Seq(Known(ws))
        BY <1>0, TargetsHas
      <3>2. Shape(ws, FanTo(r, Targets(app, on)))
        BY <1>0, <2>2, <2>3, <2>5, <3>1, FanToShape
      <3> QED
        BY <2>3, <3>2, FanToIsCmd DEF IsCmd
    <2> QED
      BY <1>15, <2>1, <2>4, <2>6, <2>7
  <1>17. ASSUME NEW c \in Clients, NEW on \in Known(ws) \cup {All}, NEW app \in Names(ws),
                StartRollback(c, app, on)
         PROVE  Kept
    <2> DEFINE r == [Idle EXCEPT !.op = "rollback", !.app = app, !.on = on, !.phase = "roll",
                                 !.fleets = <<app>>]
    <2>1. PICK servers \in {Narrow(Replicas(app), on), Replicas(app)} : StartCommand(c, RollTo(r, servers))
      BY <1>17 DEF StartRollback
    <2>2. /\ DOMAIN r = Fields /\ r.op = "rollback" /\ r.phase = "roll" /\ r.ok \in BOOLEAN
          /\ r.app = app /\ r.fleets = <<app>>
      BY DEF Fields, Idle
    <2> HIDE DEF r
    <2>3. servers \in Seq(Known(ws))
      BY <1>0, ReplicasHas, NarrowHas
    <2>4. <<app>> \in Seq(Names(ws)) /\ <<app>> # <<>>
      OBVIOUS
    <2>5. Shape(ws, RollTo(r, servers))
      BY <2>2, <2>3, <2>4, RollToShape
    <2>6. DOMAIN RollTo(r, servers) = Fields
      BY <2>2, RollToIsCmd DEF IsCmd
    <2> QED
      BY <1>15, <2>1, <2>5, <2>6
  <1> QED
    BY <1>3, <1>4, <1>5, <1>7, <1>8, <1>9, <1>10, <1>11, <1>12, <1>13, <1>14, <1>16, <1>17
    DEF Next, Step

LEMMA SpecShape == Spec => []ShapeInv
  <1>1. Init => ShapeInv
    <2> SUFFICES ASSUME Init PROVE ShapeInv
      OBVIOUS
    <2>1. LockInv
      BY IdleIsCmd, ClientsAssumption DEF Init, LockInv, CmdTypes, LockIffWorking, WorksOn, Idle, WorkSteps
    <2>2. \A c \in Clients : Shape(ws, cmd[c])
      BY IdleShape DEF Init
    <2> QED
      BY <2>1, <2>2, InitLoads DEF ShapeInv
  <1>2. ShapeInv /\ [Next]_vars => ShapeInv'
    <2>1. ASSUME ShapeInv, UNCHANGED vars PROVE ShapeInv'
      <3>1. LockInv'
        BY <2>1 DEF vars, host, ShapeInv, LockInv, CmdTypes, LockIffWorking, WorksOn
      <3>2. \A c \in Clients : Shape(ws', cmd'[c])
        BY <2>1 DEF vars, ShapeInv
      <3> QED
        BY <2>1, <3>1, <3>2, LoadsStays DEF ShapeInv
    <2> QED
      BY <2>1, NextShape
  <1> QED
    BY <1>1, <1>2, PTL DEF Spec

-----------------------------------------------------------------------------
(* Commands that nobody disturbs. *)

\* What a command was given stays with it until it ends.
Follows(r, t) ==
    \/ t.phase = "idle"
    \/ /\ t.alone = r.alone /\ t.op = r.op /\ t.app = r.app /\ t.on = r.on
       /\ r.phase = "roll" => t.phase = "roll"

LEMMA FanToFollows ==
    ASSUME NEW q, NEW r, DOMAIN r = Fields, Follows(q, r), r.phase = "fan", NEW servers
    PROVE  Follows(q, FanTo(r, servers))
  <1>1. CASE servers # <<>>
    <2> DEFINE jobs == Jobs(r.app, Head(servers))
               f == [r EXCEPT !.phase = "fan", !.at = "connect", !.todo = servers, !.ok = TRUE,
                              !.jobs = jobs]
    <2>1. FanTo(r, servers) = f
      BY <1>1 DEF FanTo
    <2> HIDE DEF jobs
    <2>2. f.alone = r.alone /\ f.op = r.op /\ f.app = r.app /\ f.on = r.on
      BY DEF Fields, Idle
    <2> HIDE DEF f
    <2> QED
      BY <2>1, <2>2 DEF Follows
  <1>2. CASE servers = <<>>
    BY <1>2 DEF FanTo, Follows, Fields, Idle
  <1> QED
    BY <1>1, <1>2

LEMMA RollToFollows ==
    ASSUME NEW q, NEW r, DOMAIN r = Fields, Follows(q, r), r.phase = "roll", NEW servers
    PROVE  Follows(q, RollTo(r, servers))
  <1> DEFINE t == RollTo(r, servers)
  <1>1. t.alone = r.alone /\ t.op = r.op /\ t.app = r.app /\ t.on = r.on /\ t.phase = r.phase
    BY DEF RollTo, Fields, Idle
  <1> HIDE DEF t
  <1>2. Follows(q, t)
    BY <1>1 DEF Follows
  <1> QED
    BY <1>2 DEF t

LEMMA AfterVisitFollows ==
    ASSUME NEW r, IsCmd(r), r.phase # "idle", NEW ok \in BOOLEAN
    PROVE  Follows(r, AfterVisit(r, ok))
  <1>0. DOMAIN r = Fields
    BY DEF IsCmd
  <1>1. CASE r.phase = "fan"
    <2> DEFINE f == [r EXCEPT !.failed = IF ok THEN @ ELSE Append(@, Head(r.todo))]
    <2>1. /\ DOMAIN f = Fields /\ f.phase = r.phase
          /\ f.alone = r.alone /\ f.op = r.op /\ f.app = r.app /\ f.on = r.on
      BY <1>0 DEF Fields, Idle
    <2>2. AfterVisit(r, ok) = FanTo(f, Tail(r.todo))
      BY <1>1 DEF AfterVisit
    <2> HIDE DEF f
    <2>3. Follows(r, f)
      BY <2>1 DEF Follows
    <2> QED
      BY <1>1, <2>1, <2>2, <2>3, FanToFollows
  <1>2. CASE r.phase = "roll"
    <2> DEFINE good == [r EXCEPT !.applied = Append(@, Head(r.todo))]
               bad  == [r EXCEPT !.failed = <<Head(r.todo)>>, !.skipped = Tail(r.todo)]
    <2>1. \E f \in {good, bad} : AfterVisit(r, ok) = RollTo(f, RestOfRoll(r, ok))
      BY <1>2 DEF AfterVisit
    <2> PICK f \in {good, bad} : AfterVisit(r, ok) = RollTo(f, RestOfRoll(r, ok))
      BY <2>1
    <2>2. /\ DOMAIN f = Fields /\ f.phase = r.phase
          /\ f.alone = r.alone /\ f.op = r.op /\ f.app = r.app /\ f.on = r.on
      BY <1>0 DEF Fields, Idle
    <2>3. Follows(r, f)
      BY <2>2 DEF Follows
    <2> QED
      BY <1>2, <2>2, <2>3, RollToFollows
  <1> QED
    BY <1>1, <1>2 DEF IsCmd

LEMMA StepFollows ==
    ASSUME ShapeInv, NEW c \in Clients, Step(c) \/ Crash(c)
    PROVE  Active(c) /\ \E t : cmd' = [cmd EXCEPT ![c] = t] /\ Follows(cmd[c], t)
  <1> DEFINE r == cmd[c]
             Moves == \E t : cmd' = [cmd EXCEPT ![c] = t] /\ Follows(r, t)
  <1>0. IsCmd(r) /\ Shape(ws, r) /\ DOMAIN r = Fields
    BY DEF ShapeInv, LockInv, CmdTypes, IsCmd
  <1>1. Active(c)
    <2>1. Active(c) \/ r.at # "none"
      BY DEF Step, StartRoll, Connect, Lock, EnsureAccessory, Stage, BeforeFleet, Flip, Post, Unlock,
             Report, Swap, Crash, Active, At
    <2> QED
      BY <1>0, <2>1 DEF Active, Shape
  <1>2. ASSUME Set(c, Idle) PROVE Moves
    <2>1. Idle.phase = "idle"
      BY DEF Idle
    <2> QED
      BY <1>2, <2>1 DEF Set, Follows
  <1>3. ASSUME NEW ok \in BOOLEAN, Set(c, AfterVisit(r, ok)) PROVE Moves
    BY <1>0, <1>1, <1>3, AfterVisitFollows DEF Set, Active
  <1>4. ASSUME r.phase = "roll", NEW n, NEW servers, 
               Set(c, RollTo([r EXCEPT !.release = n, !.applied = <<>>], servers))
        PROVE  Moves
    <2> DEFINE f == [r EXCEPT !.release = n, !.applied = <<>>]
    <2>1. /\ DOMAIN f = Fields /\ f.phase = r.phase
          /\ f.alone = r.alone /\ f.op = r.op /\ f.app = r.app /\ f.on = r.on
      BY <1>0 DEF Fields, Idle
    <2>2. cmd' = [cmd EXCEPT ![c] = RollTo(f, servers)]
      BY <1>4 DEF Set
    <2> HIDE DEF f
    <2>3. Follows(r, f)
      BY <2>1 DEF Follows
    <2> QED
      BY <1>4, <2>1, <2>2, <2>3, RollToFollows
  <1>5. ASSUME NEW t, Set(c, t),
               \/ \E l : t = [r EXCEPT !.at = l]
               \/ \E l, n : t = [r EXCEPT !.at = l, !.release = n]
               \/ \E l, b : t = [r EXCEPT !.at = l, !.ok = b]
               \/ \E l, f : t = [r EXCEPT !.at = l, !.fleets = f]
               \/ \E l, j : t = [r EXCEPT !.jobs = j, !.at = l]
        PROVE  Moves
    <2>1. t.alone = r.alone /\ t.op = r.op /\ t.app = r.app /\ t.on = r.on /\ t.phase = r.phase
      BY <1>0, <1>5 DEF Fields, Idle
    <2> QED
      BY <1>5, <2>1 DEF Set, Follows
  <1>6. ASSUME StartRoll(c) PROVE Moves
    BY <1>2, <1>4, <1>6 DEF StartRoll
  <1>7. ASSUME Connect(c) PROVE Moves
    BY <1>2, <1>3, <1>5, <1>7 DEF Connect, Goto
  <1>8. ASSUME Lock(c) PROVE Moves
    BY <1>3, <1>5, <1>8 DEF Lock, Goto
  <1>9. ASSUME Fails(c) PROVE Moves
    BY <1>5, <1>9 DEF Fails, AfterFailure
  <1>10. ASSUME Set(c, JobDone(r)) PROVE Moves
    BY <1>5, <1>10 DEF JobDone
  <1>11. ASSUME EnsureAccessory(c) \/ Post(c) PROVE Moves
    BY <1>9, <1>10, <1>11 DEF EnsureAccessory, Post
  <1>12. ASSUME Stage(c) PROVE Moves
    BY <1>5, <1>9, <1>12 DEF Stage
  <1>13. ASSUME BeforeFleet(c) \/ Flip(c) PROVE Moves
    BY <1>5, <1>9, <1>13 DEF BeforeFleet, Flip, Goto
  <1>14. ASSUME Unlock(c) PROVE Moves
    BY <1>0, <1>3, <1>14 DEF Unlock, IsCmd
  <1>15. ASSUME Report(c) PROVE Moves
    BY <1>2, <1>5, <1>15 DEF Report
  <1>16. ASSUME Swap(c) PROVE Moves
    BY <1>3, <1>16 DEF Swap
  <1>17. ASSUME Crash(c) PROVE Moves
    BY <1>2, <1>17 DEF Crash
  <1>18. Moves
    BY <1>6, <1>7, <1>8, <1>11, <1>12, <1>13, <1>14, <1>15, <1>16, <1>17 DEF Step
  <1> QED
    BY <1>1, <1>18

\* The start of a command, seen by every client.
LEMMA StartSeen ==
    ASSUME ShapeInv, NEW c \in Clients, NEW r, DOMAIN r = Fields, StartCommand(c, r)
    PROVE  /\ DOMAIN cmd' = Clients /\ ~Active(c)
           /\ cmd'[c] = [r EXCEPT !.alone = Quiet] /\ cmd'[c].alone = Quiet
           /\ Quiet => \A d \in Clients \ {c} : cmd'[d] = cmd[d] /\ ~Active(d)
           /\ \A d \in Clients \ {c} : \/ ~Active(d) /\ cmd'[d] = cmd[d]
                                       \/ /\ cmd'[d] = [cmd[d] EXCEPT !.alone = FALSE]
                                          /\ ~cmd'[d].alone
  <1>1. /\ DOMAIN cmd' = Clients /\ ~Active(c) /\ cmd'[c] = [r EXCEPT !.alone = Quiet]
        /\ \A d \in Clients \ {c} : cmd'[d] = IF Active(d) THEN [cmd[d] EXCEPT !.alone = FALSE]
                                               ELSE cmd[d]
    BY DEF StartCommand
  <1>2. \A d \in Clients : [cmd[d] EXCEPT !.alone = FALSE].alone = FALSE
    BY DEF ShapeInv, LockInv, CmdTypes, IsCmd, Fields, Idle
  <1>3. [r EXCEPT !.alone = Quiet].alone = Quiet
    BY DEF Fields, Idle
  <1>4. Quiet => \A d \in Clients \ {c} : ~Active(d)
    BY DEF Quiet
  <1> QED
    BY <1>1, <1>2, <1>3, <1>4

\* A command that has not begun its work.
Fresh(r) == /\ DOMAIN r = Fields /\ r.release = 0 /\ r.at \notin {"beforeFleet", "flip", "post"}
            /\ r.op = "deploy" /\ r.phase = "roll" => r.at = "start"

LEMMA FreshFan ==
    ASSUME NEW r, DOMAIN r = Fields, r.op = "deploy", r.ok \in BOOLEAN, r.release = 0, NEW servers
    PROVE  Fresh(FanTo(r, servers))
  <1>1. DOMAIN FanTo(r, servers) = Fields
    BY FanToIsCmd DEF IsCmd
  <1>2. CASE servers # <<>>
    <2> DEFINE jobs == Jobs(r.app, Head(servers))
               f == [r EXCEPT !.phase = "fan", !.at = "connect", !.todo = servers, !.ok = TRUE,
                              !.jobs = jobs]
    <2>1. FanTo(r, servers) = f
      BY <1>2 DEF FanTo
    <2> HIDE DEF jobs
    <2>2. f.release = 0 /\ f.at = "connect" /\ f.phase = "fan"
      BY DEF Fields, Idle
    <2> HIDE DEF f
    <2> QED
      BY <1>1, <2>1, <2>2 DEF Fresh
  <1>3. CASE servers = <<>>
    <2> DEFINE t == FanTo(r, servers)
    <2>1. t.release = 0 /\ t.at \in {"start", "none"} /\ (t.at = "none" => t.phase = "idle")
      BY <1>3 DEF FanTo, Fields, Idle
    <2> HIDE DEF t
    <2>2. DOMAIN t = Fields => Fresh(t)
      BY <2>1 DEF Fresh
    <2> QED
      BY <1>1, <2>2 DEF t
  <1> QED
    BY <1>2, <1>3

\* What happens to the commands in a step.
LEMMA Happens ==
    ASSUME Next
    PROVE  \/ \E c \in Clients : Step(c) \/ Crash(c)
           \/ \E c \in Clients : \E r : Fresh(r) /\ StartCommand(c, r) /\ UNCHANGED <<ws, host, minted>>
           \/ UNCHANGED <<cmd, ws, rep, up, migrated, sched, minted>>
  <1>1. ASSUME NEW c \in Clients, NEW on \in Known(ws) \cup {All}, NEW app \in Names(ws) \cup {All},
               StartDeploy(c, app, on)
        PROVE  \E r : Fresh(r) /\ StartCommand(c, r) /\ UNCHANGED <<ws, host, minted>>
    <2> DEFINE fleets == [i \in DOMAIN FleetApps(app) |-> FleetApps(app)[i].name]
               r == [Idle EXCEPT !.op = "deploy", !.app = app, !.on = on, !.fleets = fleets]
               roll == [r EXCEPT !.phase = "roll", !.at = "start"]
    <2>1. /\ UNCHANGED <<ws, host, minted>>
          /\ StartCommand(c, FanTo(r, Targets(app, on))) \/ StartCommand(c, roll)
      BY <1>1 DEF StartDeploy
    <2> HIDE DEF fleets
    <2>2. /\ DOMAIN r = Fields /\ r.op = "deploy" /\ r.ok \in BOOLEAN /\ r.release = 0
          /\ DOMAIN roll = Fields /\ roll.release = 0 /\ roll.at = "start"
      BY DEF Fields, Idle
    <2> HIDE DEF r, roll
    <2>3. Fresh(FanTo(r, Targets(app, on))) /\ Fresh(roll)
      BY <2>2, FreshFan DEF Fresh
    <2> QED
      BY <2>1, <2>3
  <1>2. ASSUME NEW c \in Clients, NEW on \in Known(ws) \cup {All}, NEW app \in Names(ws),
               StartRollback(c, app, on)
        PROVE  \E r : Fresh(r) /\ StartCommand(c, r) /\ UNCHANGED <<ws, host, minted>>
    <2> DEFINE r == [Idle EXCEPT !.op = "rollback", !.app = app, !.on = on, !.phase = "roll",
                                 !.fleets = <<app>>]
    <2>1. UNCHANGED <<ws, host, minted>> /\ \E servers : StartCommand(c, RollTo(r, servers))
      BY <1>2 DEF StartRollback
    <2>2. DOMAIN r = Fields /\ r.op = "rollback" /\ r.release = 0
      BY DEF Fields, Idle
    <2> HIDE DEF r
    <2> PICK servers : StartCommand(c, RollTo(r, servers))
      BY <2>1
    <2> DEFINE t == RollTo(r, servers)
    <2>3. DOMAIN t = Fields /\ t.op = "rollback" /\ t.release = 0 /\ t.at \in {"report", "connect"}
      BY <2>2 DEF RollTo, Fields, Idle
    <2>4. StartCommand(c, t)
      OBVIOUS
    <2> HIDE DEF t
    <2>5. Fresh(t)
      BY <2>3 DEF Fresh
    <2> QED
      BY <2>1, <2>4, <2>5
  <1>3. ASSUME NEW s \in Known(ws), ClearOrphan(s)
        PROVE  UNCHANGED <<cmd, ws, rep, up, migrated, sched, minted>>
    BY <1>3 DEF ClearOrphan
  <1> QED
    BY <1>1, <1>2, <1>3 DEF Next

LEMMA NextAlone == ASSUME ShapeInv, AloneInv, [Next]_vars PROVE AloneInv'
  <1>0. DOMAIN cmd = Clients /\ \A d \in Clients : DOMAIN cmd[d] = Fields
    BY DEF ShapeInv, LockInv, CmdTypes, IsCmd
  <1>1. CASE UNCHANGED cmd
    BY <1>1 DEF AloneInv, Active
  <1>2. ASSUME NEW c \in Clients, Step(c) \/ Crash(c) PROVE AloneInv'
    <2>1. Active(c)
      BY <1>2, StepFollows
    <2> PICK t : cmd' = [cmd EXCEPT ![c] = t] /\ Follows(cmd[c], t)
      BY <1>2, StepFollows
    <2>2. \A d \in Clients : cmd'[d] = IF d = c THEN t ELSE cmd[d]
      BY <1>0
    <2> QED
      BY <2>1, <2>2 DEF AloneInv, Active, Follows
  <1>3. ASSUME NEW c \in Clients, NEW r, DOMAIN r = Fields, StartCommand(c, r) PROVE AloneInv'
    <2> SUFFICES ASSUME NEW d \in Clients, cmd'[d].phase # "idle", cmd'[d].alone,
                        NEW e \in Clients \ {d}
                 PROVE  cmd'[e].phase = "idle"
      BY DEF AloneInv, Active
    <2>1. d = c
      BY <1>3, StartSeen DEF Active
    <2>2. cmd'[c].alone = Quiet /\ (Quiet => cmd'[e] = cmd[e] /\ ~Active(e))
      BY <1>3, <2>1, StartSeen
    <2> QED
      BY <2>1, <2>2 DEF Active
  <1> QED
    BY <1>1, <1>2, <1>3, Happens DEF vars, Fresh

LEMMA SpecAlone == Spec => []AloneInv
  <1>1. Init => AloneInv
    BY DEF Init, AloneInv, Active, Idle
  <1>2. ShapeInv /\ AloneInv /\ [Next]_vars => AloneInv'
    BY NextAlone
  <1> QED
    BY <1>1, <1>2, SpecShape, PTL DEF Spec

-----------------------------------------------------------------------------
(* The scheduler. *)

LEMMA NextSched ==
    ASSUME ShapeInv, SchedInv, UniqueNames(ws), [Next]_vars PROVE SchedInv'
  <1>0. UNCHANGED ws /\ Loads
    BY LoadsStays DEF ShapeInv
  <1>1. CASE UNCHANGED sched
    BY <1>0, <1>1 DEF SchedInv
  <1>2. ASSUME NEW c \in Clients, Flip(c) PROVE SchedInv'
    <2> DEFINE r == cmd[c]
    <2>1. r.at = "flip" /\ Primary(c) => sched' \subseteq sched \cup {<<App(c), Here(c)>>}
      BY <1>2 DEF Flip, At
    <2>2. ~Primary(c) => UNCHANGED sched
      BY <1>2 DEF Flip
    <2>3. r.at = "flip" /\ IsCmd(r) /\ Shape(ws, r)
      BY <1>2 DEF Flip, At, ShapeInv, LockInv, CmdTypes
    <2>4. /\ r.jobs \in Seq(JobKinds(ws)) /\ r.jobs # <<>> /\ Head(r.jobs)[1] = "app"
          /\ r.phase \in {"fan", "roll"}
      BY <2>3 DEF Shape, IsCmd, WorkSteps
    <2>5. Head(r.jobs) \in JobKinds(ws) /\ Head(r.jobs) \in ToSet(r.jobs)
      BY <2>4, FirstOf
    <2>6. App(c) \in Names(ws)
      BY <2>4, <2>5 DEF App, JobKinds
    <2>7. ASSUME Primary(c) PROVE Here(c) = Replicas(App(c))[1]
      <3>1. CASE r.phase = "roll"
        BY <2>7, <3>1 DEF Primary, Rolling
      <3>2. CASE r.phase = "fan"
        <4>1. ServersOf(ws, AppNamed(ws, App(c))) = {Here(c)}
          BY <2>3, <2>4, <2>5, <3>2 DEF Shape, OnItsServer, App, Here
        <4> QED
          BY <1>0, <2>6, <4>1, ReplicasHas, FirstOf
      <3> QED
        BY <2>4, <3>1, <3>2
    <2> HIDE DEF r
    <2>8. <<App(c), Here(c)>>[1] = App(c) /\ <<App(c), Here(c)>>[2] = Here(c)
      OBVIOUS
    <2>9. CASE Primary(c)
      BY <1>0, <2>1, <2>3, <2>6, <2>7, <2>8, <2>9 DEF SchedInv, Replicas
    <2> QED
      BY <1>1, <2>2, <2>9
  <1>3. ASSUME NEW c \in Clients, Step(c), ~Flip(c) PROVE UNCHANGED sched
    BY <1>3 DEF Step, StartRoll, Connect, Lock, EnsureAccessory, Stage, BeforeFleet, Post, Unlock,
                Report, Swap, host
  <1>4. ASSUME NEW c \in Clients, Crash(c) PROVE UNCHANGED sched
    BY <1>4 DEF Crash
  <1> QED
    BY <1>1, <1>2, <1>3, <1>4, Happens DEF vars, host

\* One server runs the `placement: 'primary'` processes of an app, for deploys of the
\* whole fleet, of one replica, and by the fan-out, in any order: the place is the
\* first of getServerTargets. Apps are told apart by name, so the names are unique.
THEOREM OneSchedulerPerApp ==
    ASSUME \A w \in Workspaces : UniqueNames(w)
    PROVE  Spec => []OneScheduler
  <1>1. Init => SchedInv
    BY DEF Init, SchedInv
  <1>2. ShapeInv /\ SchedInv /\ [Next]_vars => SchedInv'
    BY NextSched DEF ShapeInv, Loads
  <1>3. SchedInv => OneScheduler
    BY DEF SchedInv, OneScheduler
  <1> QED
    BY <1>1, <1>2, <1>3, SpecShape, PTL DEF Spec

-----------------------------------------------------------------------------
(* Accessories before fleets. *)

LEMMA HeadTail ==
    ASSUME NEW T, NEW s \in Seq(T), s # <<>>
    PROVE  /\ ToSet(s) = {Head(s)} \cup ToSet(Tail(s)) /\ Tail(s) \in Seq(T) /\ Head(s) \in T
           /\ \A i \in 1 .. Len(Tail(s)) : Tail(s)[i] = s[i + 1]
           /\ Len(Tail(s)) = Len(s) - 1
  <1>1. /\ Len(s) \in Nat /\ Len(s) > 0 /\ Tail(s) \in Seq(T) /\ Len(Tail(s)) = Len(s) - 1 /\ Head(s) = s[1]
        /\ \A i \in 1 .. Len(Tail(s)) : Tail(s)[i] = s[i + 1]
    OBVIOUS
  <1>2. \A i \in 1 .. Len(s) : i = 1 \/ (i - 1 \in 1 .. Len(Tail(s)) /\ i = (i - 1) + 1)
    BY <1>1
  <1>3. \A i \in 1 .. Len(Tail(s)) : i + 1 \in 1 .. Len(s)
    BY <1>1
  <1>4. DOMAIN s = 1 .. Len(s) /\ DOMAIN Tail(s) = 1 .. Len(Tail(s)) /\ 1 \in 1 .. Len(s)
    BY <1>1
  <1>5. ToSet(s) \subseteq {Head(s)} \cup ToSet(Tail(s))
    <2> SUFFICES ASSUME NEW i \in 1 .. Len(s) PROVE s[i] \in {Head(s)} \cup ToSet(Tail(s))
      BY <1>4 DEF ToSet
    <2>1. CASE i = 1
      BY <1>1, <2>1
    <2>2. CASE i # 1
      <3>1. i - 1 \in 1 .. Len(Tail(s)) /\ s[i] = Tail(s)[i - 1]
        BY <1>1, <1>2, <2>2
      <3> QED
        BY <1>4, <3>1 DEF ToSet
    <2> QED
      BY <2>1, <2>2
  <1>6. {Head(s)} \cup ToSet(Tail(s)) \subseteq ToSet(s)
    BY <1>1, <1>3, <1>4 DEF ToSet
  <1> QED
    BY <1>1, <1>5, <1>6

LEMMA AppendHas ==
    ASSUME NEW T, NEW s \in Seq(T), NEW x \in T
    PROVE  ToSet(Append(s, x)) = ToSet(s) \cup {x}
  <1> DEFINE t == <<x>>
  <1>1. t \in Seq(T) /\ Append(s, x) = s \o t /\ ToSet(t) = {x}
    BY DEF ToSet
  <1> HIDE DEF t
  <1>2. ToSet(s \o t) = ToSet(s) \cup ToSet(t)
    BY <1>1, ToSetConcat
  <1> QED
    BY <1>1, <1>2

LEMMA FanToFurnished ==
    ASSUME Loads, NEW u, NEW r, DOMAIN r = Fields, r.app = All, NEW servers \in Seq(Known(ws)),
           \A x \in ToSet(ws.accessories) :
              x.name \in u \/ r.failed # <<>> \/ ServersOf(ws, x) \cap ToSet(servers) # {}
    PROVE  Furnished(u, FanTo(r, servers))
  <1>1. CASE servers # <<>>
    <2> DEFINE jobs == Jobs(r.app, Head(servers))
               f == [r EXCEPT !.phase = "fan", !.at = "connect", !.todo = servers, !.ok = TRUE,
                              !.jobs = jobs]
    <2>1. FanTo(r, servers) = f
      BY <1>1 DEF FanTo
    <2>2. \A x \in ToSet(ws.accessories) :
             Head(servers) \in ServersOf(ws, x) => <<"accessory", x.name>> \in ToSet(jobs)
      BY JobsHas
    <2> HIDE DEF jobs
    <2>3. f.phase = "fan" /\ f.todo = servers /\ f.jobs = jobs /\ f.failed = r.failed
      BY DEF Fields, Idle
    <2> HIDE DEF f
    <2>4. ToSet(servers) = {Head(servers)} \cup ToSet(Tail(servers))
      BY <1>1, HeadTail
    <2> QED
      BY <2>1, <2>2, <2>3, <2>4 DEF Furnished, Accounted
  <1>2. CASE servers = <<>> /\ ~Exits(r)
    <2> DEFINE f == [r EXCEPT !.phase = "roll", !.at = "start", !.todo = <<>>]
    <2>1. FanTo(r, servers) = f /\ r.failed = <<>>
      BY <1>2 DEF FanTo, Exits
    <2>2. f.phase = "roll"
      BY DEF Fields, Idle
    <2> HIDE DEF f
    <2>3. ToSet(servers) = {}
      BY <1>2 DEF ToSet
    <2> QED
      BY <2>1, <2>2, <2>3 DEF Furnished
  <1>3. CASE servers = <<>> /\ Exits(r)
    <2>1. FanTo(r, servers) = Idle /\ Idle.phase = "idle"
      BY <1>3 DEF FanTo, Idle
    <2> QED
      BY <2>1 DEF Furnished
  <1> QED
    BY <1>1, <1>2, <1>3

\* A visit of the fan-out ends.
LEMMA AfterVisitFurnished ==
    ASSUME Loads, NEW u, NEW r, IsCmd(r), Shape(ws, r), Furnished(u, r), r.phase = "fan", r.app = All,
           r.at \in {"connect", "lock"} \cup WorkSteps, NEW ok \in BOOLEAN,
           ok => r.jobs = <<>> /\ (r.at = "unlock" => r.ok)
    PROVE  Furnished(u, AfterVisit(r, ok))
  <1> DEFINE f == [r EXCEPT !.failed = IF ok THEN @ ELSE Append(@, Head(r.todo))]
  <1>1. DOMAIN f = Fields /\ f.app = All
    BY DEF IsCmd, Fields, Idle
  <1>2. f.failed = IF ok THEN r.failed ELSE Append(r.failed, Head(r.todo))
    BY DEF IsCmd, Fields, Idle
  <1>3. AfterVisit(r, ok) = FanTo(f, Tail(r.todo))
    BY DEF AfterVisit
  <1> HIDE DEF f
  <1>4. Tail(r.todo) \in Seq(Known(ws))
    BY DEF Shape, IsCmd
  <1>5. \A q, e : Append(q, e) # <<>>
    OBVIOUS
  <1>6. ASSUME NEW x \in ToSet(ws.accessories)
        PROVE  x.name \in u \/ f.failed # <<>> \/ ServersOf(ws, x) \cap ToSet(Tail(r.todo)) # {}
    <2>1. CASE ok
      <3>1. ToSet(r.jobs) = {} /\ f.failed = r.failed
        BY <1>2, <2>1 DEF ToSet
      <3>2. Accounted(u, r, x)
        BY DEF Furnished
      <3>3. ~(r.at = "unlock" /\ ~r.ok)
        BY <2>1
      <3> QED
        BY <3>1, <3>2, <3>3 DEF Accounted
    <2>2. CASE ~ok
      BY <1>2, <1>5, <2>2
    <2> QED
      BY <2>1, <2>2
  <1> QED
    BY <1>1, <1>3, <1>4, <1>6, FanToFurnished

\* A record that has moved on within a visit.
LEMMA SameVisitFurnished ==
    ASSUME NEW u, NEW r, NEW t, Furnished(u, r), r.at # "unlock", r.phase = "fan",
           t.phase = r.phase, t.failed = r.failed, t.jobs = r.jobs, t.todo = r.todo
    PROVE  Furnished(u, t)
  BY DEF Furnished, Accounted

LEMMA FailureFurnished ==
    ASSUME NEW u, NEW r, DOMAIN r = Fields, r.phase = "fan"
    PROVE  Furnished(u, [r EXCEPT !.at = "unlock", !.ok = FALSE])
  <1> DEFINE t == [r EXCEPT !.at = "unlock", !.ok = FALSE]
  <1>1. t.at = "unlock" /\ t.ok = FALSE /\ t.phase = "fan"
    BY DEF Fields, Idle
  <1> HIDE DEF t
  <1>2. Furnished(u, t)
    BY <1>1 DEF Furnished, Accounted
  <1> QED
    BY <1>2 DEF t

\* A job of the fan-out is done: an accessory of that name is up.
LEMMA JobDoneFurnished ==
    ASSUME NEW u, NEW v, NEW r, IsCmd(r), Shape(ws, r), Furnished(u, r), r.phase = "fan",
           r.at \in {"job", "post"}, u \subseteq v,
           Head(r.jobs)[1] = "accessory" => Head(r.jobs)[2] \in v
    PROVE  Furnished(v, JobDone(r))
  <1> DEFINE rest == Tail(r.jobs)
             at == IF rest = <<>> THEN "unlock" ELSE "job"
             t == JobDone(r)
  <1>1. t.phase = "fan" /\ t.todo = r.todo /\ t.jobs = rest /\ t.failed = r.failed /\ t.at = at
    BY DEF JobDone, IsCmd, Fields, Idle
  <1>2. r.jobs \in Seq(JobKinds(ws)) /\ r.jobs # <<>>
    BY DEF Shape, WorkSteps
  <1>3. ToSet(r.jobs) = {Head(r.jobs)} \cup ToSet(rest)
    BY <1>2, HeadTail
  <1> HIDE DEF t, rest
  <1>4. ASSUME NEW x \in ToSet(ws.accessories) PROVE Accounted(v, t, x)
    <2>1. Accounted(u, r, x)
      BY DEF Furnished
    <2>2. CASE Head(r.jobs) = <<"accessory", x.name>>
      <3>1. x.name \in v
        BY <2>2
      <3> QED
        BY <3>1 DEF Accounted
    <2>3. CASE Head(r.jobs) # <<"accessory", x.name>>
      BY <1>1, <1>3, <2>1, <2>3 DEF Accounted
    <2> QED
      BY <2>2, <2>3
  <1>5. Furnished(v, t)
    BY <1>1, <1>4 DEF Furnished
  <1> QED
    BY <1>5 DEF t

\* A step of the fan-out of a whole-workspace deploy.
LEMMA FanFurnished ==
    ASSUME ShapeInv, NEW c \in Clients, Step(c) \/ Crash(c), cmd[c].phase = "fan", Whole(cmd[c]),
           Furnished(up, cmd[c])
    PROVE  \E t : cmd' = [cmd EXCEPT ![c] = t] /\ Furnished(up', t)
  <1> DEFINE r == cmd[c]
             Moves == \E t : cmd' = [cmd EXCEPT ![c] = t] /\ Furnished(up', t)
  <1>1. /\ IsCmd(r) /\ Shape(ws, r) /\ DOMAIN r = Fields /\ Loads /\ r.op = "deploy" /\ r.app = All
    BY DEF ShapeInv, LockInv, CmdTypes, IsCmd, Whole
  <1>2. ASSUME Set(c, Idle) PROVE Moves
    <2>1. Idle.phase = "idle"
      BY DEF Idle
    <2> QED
      BY <1>2, <2>1 DEF Set, Furnished
  <1>3. ASSUME NEW ok \in BOOLEAN, Set(c, AfterVisit(r, ok)), UNCHANGED up,
               r.at \in {"connect", "lock"} \cup WorkSteps,
               ok => r.jobs = <<>> /\ (r.at = "unlock" => r.ok)
        PROVE  Moves
    BY <1>1, <1>3, AfterVisitFurnished DEF Set
  <1>4. ASSUME NEW t, Set(c, t), UNCHANGED up, r.at # "unlock",
               \/ \E l : t = [r EXCEPT !.at = l]
               \/ \E l, n : t = [r EXCEPT !.at = l, !.release = n]
        PROVE  Moves
    <2>1. t.phase = r.phase /\ t.failed = r.failed /\ t.jobs = r.jobs /\ t.todo = r.todo
      BY <1>1, <1>4 DEF Fields, Idle
    <2> QED
      BY <1>4, <2>1, SameVisitFurnished DEF Set
  <1>5. ASSUME Fails(c) PROVE Moves
    BY <1>1, <1>5, FailureFurnished DEF Fails, AfterFailure, Set
  <1>6. ASSUME Set(c, JobDone(r)), r.at \in {"job", "post"}, up \subseteq up',
               Head(r.jobs)[1] = "accessory" => Head(r.jobs)[2] \in up'
        PROVE  Moves
    BY <1>1, <1>6, JobDoneFurnished DEF Set
  <1>7. ASSUME Connect(c) PROVE Moves
    <2>1. r.at = "connect" /\ UNCHANGED up /\ r.at # "unlock"
      BY <1>7 DEF Connect, At, host
    <2> QED
      BY <1>2, <1>3, <1>4, <1>7, <2>1 DEF Connect, Goto
  <1>8. ASSUME Lock(c) PROVE Moves
    <2>1. r.at = "lock" /\ UNCHANGED up /\ r.at # "unlock"
      BY <1>8 DEF Lock, At
    <2> QED
      BY <1>3, <1>4, <1>8, <2>1 DEF Lock, Goto
  <1>9. ASSUME EnsureAccessory(c) PROVE Moves
    BY <1>5, <1>6, <1>9 DEF EnsureAccessory, At
  <1>10. ASSUME Post(c) PROVE Moves
    <2>1. r.at = "post" /\ UNCHANGED up
      BY <1>10 DEF Post, At, host
    <2>2. Head(r.jobs)[1] = "app"
      BY <1>1, <2>1 DEF Shape
    <2>3. Head(r.jobs)[1] # "accessory"
      BY <2>2
    <2> QED
      BY <1>5, <1>6, <1>10, <2>1, <2>3 DEF Post
  <1>11. ASSUME Stage(c) \/ BeforeFleet(c) \/ Flip(c) PROVE Moves
    <2>1. r.at \in {"job", "beforeFleet", "flip"} /\ UNCHANGED up /\ r.at # "unlock"
      BY <1>11 DEF Stage, BeforeFleet, Flip, At, host
    <2> QED
      BY <1>4, <1>5, <1>11, <2>1 DEF Stage, BeforeFleet, Flip, Goto
  <1>12. ASSUME Unlock(c) PROVE Moves
    <2>1. r.at = "unlock" /\ UNCHANGED up /\ Set(c, AfterVisit(r, r.ok)) /\ r.at \in WorkSteps
      BY <1>12 DEF Unlock, At, WorkSteps
    <2>2. r.ok \in BOOLEAN /\ (r.ok => r.jobs = <<>>)
      BY <1>1, <2>1 DEF Shape, IsCmd
    <2> QED
      BY <1>3, <2>1, <2>2
  <1>13. ASSUME Crash(c) PROVE Moves
    BY <1>2, <1>13 DEF Crash
  <1>14. ~StartRoll(c) /\ ~Report(c) /\ ~Swap(c)
    <2>1. r.at # "report" /\ r.at # "swap"
      BY <1>1 DEF Shape, IsCmd
    <2> QED
      BY <2>1 DEF StartRoll, Report, Swap, At
  <1> QED
    BY <1>7, <1>8, <1>9, <1>10, <1>11, <1>12, <1>13, <1>14 DEF Step

LEMMA NextAccessory == ASSUME ShapeInv, AloneInv, AccessoryInv, [Next]_vars PROVE AccessoryInv'
  <1>0. /\ UNCHANGED ws /\ Loads /\ DOMAIN cmd = Clients
        /\ \A d \in Clients : IsCmd(cmd[d]) /\ Shape(ws, cmd[d])
    BY LoadsStays DEF ShapeInv, LockInv, CmdTypes
  <1>1. CASE UNCHANGED <<cmd, up>>
    BY <1>0, <1>1 DEF AccessoryInv, Whole, Furnished, Accounted
  <1>2. ASSUME \A d \in Clients : Whole(cmd'[d]) /\ cmd'[d].phase # "idle" => Furnished(up', cmd'[d])
        PROVE  AccessoryInv'
    BY <1>0, <1>2 DEF AccessoryInv, Furnished, Accounted
  <1>3. ASSUME NEW c \in Clients, Step(c) \/ Crash(c) PROVE AccessoryInv'
    <2>1. Active(c)
      BY <1>3, StepFollows
    <2> PICK t : cmd' = [cmd EXCEPT ![c] = t] /\ Follows(cmd[c], t)
      BY <1>3, StepFollows
    <2>2. \A d \in Clients : cmd'[d] = IF d = c THEN t ELSE cmd[d]
      BY <1>0
    <2> SUFFICES ASSUME NEW d \in Clients, Whole(cmd'[d]), cmd'[d].phase # "idle"
                 PROVE  Furnished(up', cmd'[d])
      BY <1>2
    <2>3. d = c
      BY <2>1, <2>2 DEF AloneInv, Active, Whole
    <2>4. t.phase # "idle" /\ Whole(cmd[c]) /\ Furnished(up, cmd[c])
      BY <2>2, <2>3 DEF Follows, Whole, AccessoryInv
    <2>5. CASE cmd[c].phase = "fan"
      <3> PICK u : cmd' = [cmd EXCEPT ![c] = u] /\ Furnished(up', u)
        BY <1>3, <2>4, <2>5, FanFurnished
      <3>1. cmd'[c] = u
        BY <1>0
      <3> QED
        BY <2>3, <3>1
    <2>6. CASE cmd[c].phase = "roll"
      <3>1. t.phase = "roll"
        BY <2>4, <2>6 DEF Follows
      <3>2. ~EnsureAccessory(c)
        BY <1>0, <2>6, OneJob DEF EnsureAccessory, At, IsCmd, WorkSteps
      <3>3. UNCHANGED up
        BY <1>3, <3>2 DEF Step, StartRoll, Connect, Lock, Stage, BeforeFleet, Flip, Post, Unlock,
                          Report, Swap, Crash, host
      <3> QED
        BY <2>2, <2>3, <2>4, <2>6, <3>1, <3>3 DEF Furnished
    <2> QED
      BY <1>0, <2>1, <2>5, <2>6 DEF Active, IsCmd
  <1>4. ASSUME NEW c \in Clients, NEW r, DOMAIN r = Fields, StartCommand(c, r), UNCHANGED up,
               Whole([r EXCEPT !.alone = TRUE]) => Furnished(up, r)
        PROVE  AccessoryInv'
    <2> SUFFICES ASSUME NEW d \in Clients, Whole(cmd'[d]), cmd'[d].phase # "idle"
                 PROVE  Furnished(up', cmd'[d])
      BY <1>2
    <2>1. d = c
      BY <1>4, StartSeen DEF Active, Whole
    <2> DEFINE t == cmd'[c]
    <2>2. t = [r EXCEPT !.alone = TRUE]
      BY <1>4, <2>1, StartSeen DEF Whole
    <2>3. /\ t.phase = r.phase /\ t.failed = r.failed /\ t.jobs = r.jobs /\ t.todo = r.todo
          /\ t.at = r.at /\ t.ok = r.ok
      BY <1>4, <2>2 DEF Fields, Idle
    <2>4. Furnished(up, r)
      BY <1>4, <2>1, <2>2
    <2> HIDE DEF t
    <2>5. Furnished(up', t)
      BY <1>4, <2>3, <2>4 DEF Furnished, Accounted
    <2> QED
      BY <2>1, <2>5 DEF t
  <1>5. ASSUME NEW c \in Clients, NEW on \in Known(ws) \cup {All}, NEW app \in Names(ws) \cup {All},
               StartDeploy(c, app, on)
        PROVE  AccessoryInv'
    <2> DEFINE fleets == [i \in DOMAIN FleetApps(app) |-> FleetApps(app)[i].name]
               r == [Idle EXCEPT !.op = "deploy", !.app = app, !.on = on, !.fleets = fleets]
               fan == FanTo(r, Targets(app, on))
               roll == [r EXCEPT !.phase = "roll", !.at = "start"]
    <2>1. /\ UNCHANGED up
          /\ \/ StartCommand(c, fan)
             \/ app # All /\ StartCommand(c, roll)
      BY <1>5 DEF StartDeploy, host
    <2> HIDE DEF fleets
    <2>2. /\ DOMAIN r = Fields /\ r.op = "deploy" /\ r.ok \in BOOLEAN /\ r.app = app /\ r.on = on
          /\ r.alone = TRUE
      BY DEF Fields, Idle
    <2>3. DOMAIN roll = Fields /\ [roll EXCEPT !.alone = TRUE].app = app
      BY DEF Fields, Idle
    <2> HIDE DEF r
    <2>4. DOMAIN fan = Fields
      BY <2>2, FanToIsCmd DEF IsCmd
    <2>5. CASE app # All /\ StartCommand(c, roll)
      <3> HIDE DEF roll
      <3> QED
        BY <1>4, <2>1, <2>3, <2>5 DEF Whole
    <2>6. CASE StartCommand(c, fan)
      <3>1. ASSUME app = All, on = All PROVE Furnished(up, fan)
        <4>1. /\ Targets(app, on) \in Seq(Known(ws))
              /\ ToSet(Targets(app, on)) = {s \in Known(ws) : NonEmpty(ws, s)}
          BY <1>0, <3>1, TargetsHas
        <4>2. ASSUME NEW x \in ToSet(ws.accessories)
              PROVE  ServersOf(ws, x) \cap ToSet(Targets(app, on)) # {}
          <5>1. ShipnodeConfig(ws) /\ x.on \in Seq(STRING) /\ TargetValid(ws, x.on)
            BY <1>0, ConfigHas DEF Loads, Valid, SingleTargetValid
          <5>2. expandTarget(ws, x.on) # <<>> /\ expandTarget(ws, x.on) \in Seq(Known(ws))
                /\ ToSet(expandTarget(ws, x.on)) \subseteq Known(ws)
            BY <5>1, ValidTarget, ConfigIsNamed, TargetHas
          <5>3. ServersOf(ws, x) # {} /\ ServersOf(ws, x) \subseteq Known(ws)
            BY <5>2, FirstOf DEF ServersOf
          <5> PICK s \in ServersOf(ws, x) : TRUE
            BY <5>3
          <5>4. NonEmpty(ws, s)
            <6> DEFINE n == configForServer(ws, s)
            <6>1. n.accessories = On(ws, ws.accessories, {s})
              BY <5>1 DEF configForServer, ShipnodeConfig
            <6>2. ws.accessories \in Seq(AccessoryConfig)
              BY <5>1 DEF ShipnodeConfig
            <6> HIDE DEF n
            <6>3. x \in ToSet(n.accessories)
              BY <6>1, <6>2, OnlyHas DEF On
            <6>4. ToSet(<<>>) = {}
              BY DEF ToSet
            <6> QED
              BY <6>3, <6>4 DEF NonEmpty, n
          <5> QED
            BY <4>1, <5>3, <5>4
        <4> HIDE DEF fan
        <4>3. Furnished(up, FanTo(r, Targets(app, on)))
          BY <1>0, <2>2, <3>1, <4>1, <4>2, FanToFurnished
        <4> QED
          BY <4>3 DEF fan
      <3>2. Whole([fan EXCEPT !.alone = TRUE]) => (app = All /\ on = All) \/ fan.phase = "idle"
        <4>1. /\ [fan EXCEPT !.alone = TRUE].app = fan.app
              /\ [fan EXCEPT !.alone = TRUE].on = fan.on
          BY <2>4 DEF Fields, Idle
        <4>2. fan.phase = "idle" \/ (fan.app = app /\ fan.on = on)
          BY <2>2 DEF FanTo, Fields, Idle
        <4> QED
          BY <4>1, <4>2 DEF Whole
      <3>3. fan.phase = "idle" => Furnished(up, fan)
        BY DEF Furnished
      <3> HIDE DEF fan
      <3> QED
        BY <1>4, <2>1, <2>4, <2>6, <3>1, <3>2, <3>3
    <2> QED
      BY <2>1, <2>5, <2>6
  <1>6. ASSUME NEW c \in Clients, NEW on \in Known(ws) \cup {All}, NEW app \in Names(ws),
               StartRollback(c, app, on)
        PROVE  AccessoryInv'
    <2> DEFINE r == [Idle EXCEPT !.op = "rollback", !.app = app, !.on = on, !.phase = "roll",
                                 !.fleets = <<app>>]
    <2>1. UNCHANGED up /\ \E servers : StartCommand(c, RollTo(r, servers))
      BY <1>6 DEF StartRollback, host
    <2>2. DOMAIN r = Fields /\ r.op = "rollback" /\ r.phase = "roll" /\ r.ok \in BOOLEAN
      BY DEF Fields, Idle
    <2> HIDE DEF r
    <2>3. \A servers : DOMAIN RollTo(r, servers) = Fields /\ RollTo(r, servers).op = "rollback"
      BY <2>2 DEF RollTo, Fields, Idle
    <2> PICK servers : StartCommand(c, RollTo(r, servers))
      BY <2>1
    <2> DEFINE t == RollTo(r, servers)
    <2>4. DOMAIN t = Fields /\ t.op = "rollback"
      BY <2>3
    <2> HIDE DEF t
    <2>5. [t EXCEPT !.alone = TRUE].op = "rollback"
      BY <2>4 DEF Fields, Idle
    <2>6. StartCommand(c, t)
      BY DEF t
    <2> QED
      BY <1>4, <2>1, <2>4, <2>5, <2>6 DEF Whole
  <1>7. ASSUME NEW s \in Known(ws), ClearOrphan(s) PROVE UNCHANGED <<cmd, up>>
    BY <1>7 DEF ClearOrphan
  <1> QED
    BY <1>1, <1>3, <1>5, <1>6, <1>7 DEF Next, vars, host

\* A roll begins with every accessory up, in a deploy of the whole workspace that
\* nobody disturbs: getServerTargets leaves no accessory's server out, and runForServers
\* stops the command before its rolls if any of them failed.
THEOREM AccessoriesBeforeFleets == Spec => []FleetAfterAccessories
  <1>1. Init => AccessoryInv
    BY DEF Init, AccessoryInv, Whole, Idle
  <1>2. ShapeInv /\ AloneInv /\ AccessoryInv /\ [Next]_vars => AccessoryInv'
    BY NextAccessory
  <1>3. AccessoryInv => FleetAfterAccessories
    BY DEF AccessoryInv, Whole, Furnished, FleetAfterAccessories, Rolling
  <1> QED
    BY <1>1, <1>2, <1>3, SpecShape, SpecAlone, PTL DEF Spec

-----------------------------------------------------------------------------
(* What a roll reports. *)

\* The release a command installs is the one it was given, or one just minted.
NewRelease(r, t) == t.release \in {0, r.release} \/ (minted' = minted + 1 /\ t.release = minted + 1)

LEMMA AfterVisitRelease ==
    ASSUME NEW r, IsCmd(r), r.phase # "idle", NEW ok \in BOOLEAN
    PROVE  AfterVisit(r, ok).release \in {0, r.release}
  <1>0. DOMAIN r = Fields
    BY DEF IsCmd
  <1>1. CASE r.phase = "fan"
    <2> DEFINE f == [r EXCEPT !.failed = IF ok THEN @ ELSE Append(@, Head(r.todo))]
               jobs == Jobs(f.app, Head(Tail(r.todo)))
    <2>1. DOMAIN f = Fields /\ f.release = r.release
      BY <1>0 DEF Fields, Idle
    <2>2. AfterVisit(r, ok) = FanTo(f, Tail(r.todo))
      BY <1>1 DEF AfterVisit
    <2>3. \E g \in {Idle, [f EXCEPT !.phase = "roll", !.at = "start", !.todo = <<>>],
                    [f EXCEPT !.phase = "fan", !.at = "connect", !.todo = Tail(r.todo), !.ok = TRUE,
                              !.jobs = jobs]} : FanTo(f, Tail(r.todo)) = g
      BY DEF FanTo
    <2> HIDE DEF f, jobs
    <2> PICK g : FanTo(f, Tail(r.todo)) = g
                 /\ \/ g = Idle
                    \/ g = [f EXCEPT !.phase = "roll", !.at = "start", !.todo = <<>>]
                    \/ g = [f EXCEPT !.phase = "fan", !.at = "connect", !.todo = Tail(r.todo),
                                     !.ok = TRUE, !.jobs = jobs]
      BY <2>3
    <2>4. g.release \in {0, r.release}
      <3>1. CASE g = Idle
        BY <3>1 DEF Idle
      <3>2. CASE g # Idle
        BY <2>1, <3>2 DEF Fields, Idle
      <3> QED
        BY <3>1, <3>2
    <2> QED
      BY <2>2, <2>4
  <1>2. CASE r.phase = "roll"
    BY <1>0, <1>2 DEF AfterVisit, RollTo, Fields, Idle
  <1> QED
    BY <1>1, <1>2 DEF IsCmd

LEMMA StepRelease ==
    ASSUME ShapeInv, NEW c \in Clients, Step(c) \/ Crash(c)
    PROVE  /\ minted' \in {minted, minted + 1}
           /\ \E t : cmd' = [cmd EXCEPT ![c] = t] /\ NewRelease(cmd[c], t)
  <1> DEFINE r == cmd[c]
             Moves == /\ minted' \in {minted, minted + 1}
                      /\ \E t : cmd' = [cmd EXCEPT ![c] = t] /\ NewRelease(r, t)
  <1>0. IsCmd(r) /\ DOMAIN r = Fields /\ r.phase # "idle"
    BY StepFollows DEF ShapeInv, LockInv, CmdTypes, IsCmd, Active
  <1>1. ASSUME NEW t, Set(c, t), t.release \in {0, r.release}, minted' \in {minted, minted + 1} PROVE Moves
    BY <1>1 DEF Set, NewRelease
  <1>2. ASSUME Set(c, Idle), UNCHANGED minted PROVE Moves
    BY <1>1, <1>2 DEF Idle
  <1>3. ASSUME NEW ok \in BOOLEAN, Set(c, AfterVisit(r, ok)), UNCHANGED minted PROVE Moves
    BY <1>0, <1>1, <1>3, AfterVisitRelease
  <1>4. ASSUME NEW t, Set(c, t), minted' \in {minted, minted + 1},
               \/ \E l : t = [r EXCEPT !.at = l]
               \/ \E l, b : t = [r EXCEPT !.at = l, !.ok = b]
               \/ \E l, f : t = [r EXCEPT !.at = l, !.fleets = f]
               \/ \E l, j : t = [r EXCEPT !.jobs = j, !.at = l]
        PROVE  Moves
    <2>1. t.release = r.release
      BY <1>0, <1>4 DEF Fields, Idle
    <2> QED
      BY <1>1, <1>4, <2>1
  <1>5. ASSUME StartRoll(c) PROVE Moves
    <2>1. ASSUME NEW servers, minted' = minted + 1,
                 Set(c, RollTo([r EXCEPT !.release = minted + 1, !.applied = <<>>], servers))
          PROVE  Moves
      <3> DEFINE f == [r EXCEPT !.release = minted + 1, !.applied = <<>>]
                 t == RollTo(f, servers)
      <3>1. DOMAIN f = Fields /\ f.release = minted + 1
        BY <1>0 DEF Fields, Idle
      <3>2. Set(c, t)
        BY <2>1
      <3> HIDE DEF f
      <3>3. t.release = minted + 1
        BY <3>1 DEF RollTo, Fields, Idle
      <3> HIDE DEF t
      <3> QED
        BY <2>1, <3>2, <3>3 DEF Set, NewRelease
    <2> QED
      BY <1>2, <1>5, <2>1 DEF StartRoll
  <1>6. ASSUME Connect(c) PROVE Moves
    BY <1>2, <1>3, <1>4, <1>6 DEF Connect, Goto
  <1>7. ASSUME Lock(c) PROVE Moves
    BY <1>3, <1>4, <1>7 DEF Lock, Goto
  <1>8. ASSUME Fails(c), minted' \in {minted, minted + 1} PROVE Moves
    BY <1>4, <1>8 DEF Fails, AfterFailure
  <1>9. ASSUME Set(c, JobDone(r)), UNCHANGED minted PROVE Moves
    BY <1>4, <1>9 DEF JobDone
  <1>10. ASSUME EnsureAccessory(c) \/ Post(c) PROVE Moves
    BY <1>8, <1>9, <1>10 DEF EnsureAccessory, Post
  <1>11. ASSUME Stage(c) PROVE Moves
    <2>1. minted' \in {minted, minted + 1}
      BY <1>11 DEF Stage
    <2>2. ASSUME NEW n, Set(c, [r EXCEPT !.at = "beforeFleet", !.release = n]),
                 n = r.release \/ (n = minted + 1 /\ minted' = minted + 1)
          PROVE  Moves
      <3> DEFINE t == [r EXCEPT !.at = "beforeFleet", !.release = n]
      <3>1. t.release = n
        BY <1>0 DEF Fields, Idle
      <3>2. Set(c, t)
        BY <2>2
      <3> HIDE DEF t
      <3> QED
        BY <2>1, <2>2, <3>1, <3>2 DEF Set, NewRelease
    <2>3. \/ Fails(c)
          \/ Set(c, [r EXCEPT !.at = "beforeFleet", !.release = IF Rolling(c) THEN r.release ELSE minted + 1])
      BY <1>11 DEF Stage
    <2>4. Rolling(c) \/ minted' = minted + 1
      BY <1>11 DEF Stage
    <2> QED
      BY <1>8, <2>1, <2>2, <2>3, <2>4
  <1>12. ASSUME BeforeFleet(c) \/ Flip(c) PROVE Moves
    BY <1>4, <1>8, <1>12 DEF BeforeFleet, Flip, Goto
  <1>13. ASSUME Unlock(c) PROVE Moves
    BY <1>0, <1>3, <1>13 DEF Unlock, IsCmd
  <1>14. ASSUME Report(c) PROVE Moves
    BY <1>2, <1>4, <1>14 DEF Report
  <1>15. ASSUME Swap(c) PROVE Moves
    BY <1>3, <1>15 DEF Swap
  <1>16. ASSUME Crash(c) PROVE Moves
    BY <1>2, <1>16 DEF Crash
  <1> QED
    BY <1>5, <1>6, <1>7, <1>10, <1>11, <1>12, <1>13, <1>14, <1>15, <1>16 DEF Step

LEMMA NextMinted == ASSUME ShapeInv, Minted, [Next]_vars PROVE Minted'
  <1>0. UNCHANGED ws /\ DOMAIN cmd = Clients /\ Loads
    BY LoadsStays DEF ShapeInv, LockInv, CmdTypes
  <1> DEFINE Releases(n) == \A a \in Names(ws), s \in Known(ws) :
                               /\ rep'[a][s].serving \in 0 .. n /\ rep'[a][s].fallback \in 0 .. n
             Shaped == DOMAIN rep' = Names(ws) /\ \A a \in Names(ws) : DOMAIN rep'[a] = Known(ws)
  <1>1. CASE UNCHANGED <<cmd, rep, minted>>
    BY <1>0, <1>1 DEF Minted
  <1>2. ASSUME NEW c \in Clients, Step(c) \/ Crash(c) PROVE Minted'
    <2> PICK t : cmd' = [cmd EXCEPT ![c] = t] /\ NewRelease(cmd[c], t)
      BY <1>2, StepRelease
    <2>1. minted' \in {minted, minted + 1} /\ minted \in Nat
      BY <1>2, StepRelease DEF Minted
    <2>2. \A d \in Clients : cmd[d].release \in 0 .. minted
      BY DEF Minted
    <2>3. t.release \in 0 .. minted'
      BY <2>1, <2>2 DEF NewRelease
    <2>4. \A d \in Clients : cmd'[d].release \in 0 .. minted'
      BY <1>0, <2>1, <2>2, <2>3
    <2>5. Shaped /\ Releases(minted)
      <3>1. CASE UNCHANGED rep
        BY <3>1 DEF Minted
      <3>2. CASE Flip(c)
        <4>1. \/ UNCHANGED rep
              \/ rep' = [rep EXCEPT ![App(c)][Here(c)] = [serving |-> cmd[c].release,
                                                          fallback |-> @.serving]]
          BY <3>2 DEF Flip
        <4> QED
          BY <2>2, <4>1 DEF Minted
      <3>3. CASE Swap(c)
        <4>1. \/ UNCHANGED rep
              \/ LET r == rep[cmd[c].app][Here(c)]
                 IN  rep' = [rep EXCEPT ![cmd[c].app][Here(c)] =
                                [serving |-> r.fallback, fallback |-> r.serving]]
          BY <3>3 DEF Swap
        <4> QED
          BY <4>1 DEF Minted
      <3>4. ASSUME ~Flip(c), ~Swap(c) PROVE UNCHANGED rep
        BY <1>2, <3>4 DEF Step, StartRoll, Connect, Lock, EnsureAccessory, Stage, BeforeFleet, Post,
                          Unlock, Report, Crash, host
      <3> QED
        BY <3>1, <3>2, <3>3, <3>4
    <2>6. Releases(minted')
      BY <2>1, <2>5
    <2> QED
      BY <1>0, <2>1, <2>4, <2>5, <2>6 DEF Minted
  <1>3. ASSUME NEW c \in Clients, NEW r, Fresh(r), StartCommand(c, r), UNCHANGED <<rep, minted>>
        PROVE  Minted'
    <2>1. DOMAIN r = Fields /\ r.release = 0
      BY <1>3 DEF Fresh
    <2>2. \A d \in Clients : DOMAIN cmd[d] = Fields
      BY DEF ShapeInv, LockInv, CmdTypes, IsCmd
    <2>3. \A x : DOMAIN x = Fields => \A b : [x EXCEPT !.alone = b].release = x.release
      BY DEF Fields, Idle
    <2>4. ASSUME NEW d \in Clients PROVE cmd'[d].release \in {0, cmd[d].release}
      <3>1. CASE d = c
        <4>1. cmd'[c] = [r EXCEPT !.alone = Quiet]
          BY <1>3 DEF StartCommand
        <4> QED
          BY <2>1, <2>3, <3>1, <4>1
      <3>2. CASE d # c
        <4>1. cmd'[d] = cmd[d] \/ cmd'[d] = [cmd[d] EXCEPT !.alone = FALSE]
          BY <1>3, <3>2 DEF StartCommand
        <4> QED
          BY <2>2, <2>3, <4>1
      <3> QED
        BY <3>1, <3>2
    <2>5. \A d \in Clients : cmd'[d].release \in 0 .. minted
      BY <2>4 DEF Minted
    <2> QED
      BY <1>0, <1>3, <2>5 DEF Minted
  <1> QED
    BY <1>1, <1>2, <1>3, Happens DEF vars, host

LEMMA SpecMinted == Spec => []Minted
  <1>1. Init => Minted
    BY DEF Init, Minted, Idle
  <1>2. ShapeInv /\ Minted /\ [Next]_vars => Minted'
    BY NextMinted
  <1> QED
    BY <1>1, <1>2, SpecShape, PTL DEF Spec

\* Between visits, and within one, a command's record goes on saying what is so.
LEMMA FanToTruth ==
    ASSUME NEW p, NEW r, DOMAIN r = Fields, NEW servers
    PROVE  Truth(p, FanTo(r, servers))
  <1>1. CASE servers # <<>>
    <2> DEFINE jobs == Jobs(r.app, Head(servers))
               f == [r EXCEPT !.phase = "fan", !.at = "connect", !.todo = servers, !.ok = TRUE,
                              !.jobs = jobs]
    <2>1. FanTo(r, servers) = f
      BY <1>1 DEF FanTo
    <2> HIDE DEF jobs
    <2>2. f.phase = "fan" /\ f.at = "connect"
      BY DEF Fields, Idle
    <2> HIDE DEF f
    <2> QED
      BY <2>1, <2>2 DEF Truth
  <1>2. CASE servers = <<>>
    <2> DEFINE t == FanTo(r, servers)
    <2>1. t.at \in {"start", "none"} /\ (t.at = "none" => t.phase = "idle")
      BY <1>2 DEF FanTo, Fields, Idle
    <2> HIDE DEF t
    <2>2. Truth(p, t)
      BY <2>1 DEF Truth
    <2> QED
      BY <2>2 DEF t
  <1> QED
    BY <1>1, <1>2

LEMMA RollToTruth ==
    ASSUME NEW p, NEW r, DOMAIN r = Fields, r.phase = "roll", NEW servers \in Seq(Known(ws)),
           r.op = "deploy" =>
              /\ r.release # 0
              /\ \A s \in ToSet(r.applied) : p[Head(r.fleets)][s].serving = r.release
              /\ \A s \in ToSet(servers) : Older(p[Head(r.fleets)][s], r.release)
              /\ servers = <<>> => \A s \in ToSet(r.skipped) : Older(p[Head(r.fleets)][s], r.release)
    PROVE  Truth(p, RollTo(r, servers))
  <1> DEFINE t == RollTo(r, servers)
  <1>1. /\ t.phase = "roll" /\ t.op = r.op /\ t.fleets = r.fleets /\ t.release = r.release
        /\ t.applied = r.applied /\ t.skipped = r.skipped
    BY DEF RollTo, Fields, Idle
  <1>2. IF servers = <<>> THEN t.at = "report" ELSE t.at = "connect" /\ t.todo = servers
    BY DEF RollTo, Fields, Idle
  <1> HIDE DEF t
  <1>3. servers # <<>> => ToSet(servers) = {Head(servers)} \cup ToSet(Tail(servers))
    BY HeadTail
  <1>4. Truth(p, t)
    BY <1>1, <1>2, <1>3 DEF Truth, RollTruth
  <1> QED
    BY <1>4 DEF t

LEMMA AfterVisitTruth ==
    ASSUME Loads, NEW r, IsCmd(r), Shape(ws, r), r.at \in {"connect", "lock", "swap"} \cup WorkSteps,
           NEW p, Truth(p, r), NEW ok \in BOOLEAN,
           ok /\ r.phase = "roll" /\ r.op = "deploy" =>
              p[Head(r.fleets)][Head(r.todo)].serving = r.release
    PROVE  Truth(p, AfterVisit(r, ok))
  <1>0. /\ r.todo \in Seq(Known(ws)) /\ r.todo # <<>> /\ DOMAIN r = Fields
        /\ r.phase \in {"fan", "roll"} /\ r.at \notin {"start", "report"}
    BY DEF Shape, IsCmd, WorkSteps
  <1>1. CASE r.phase = "fan"
    <2> DEFINE f == [r EXCEPT !.failed = IF ok THEN @ ELSE Append(@, Head(r.todo))]
    <2>1. DOMAIN f = Fields
      BY <1>0 DEF Fields, Idle
    <2>2. AfterVisit(r, ok) = FanTo(f, Tail(r.todo))
      BY <1>1 DEF AfterVisit
    <2> HIDE DEF f
    <2> QED
      BY <2>1, <2>2, FanToTruth
  <1>2. ASSUME r.phase = "roll", r.op = "deploy"
        PROVE  /\ RollTruth(p, r) /\ r.applied \in Seq(Known(ws)) /\ r.skipped = <<>>
    BY <1>0, <1>2 DEF Shape, Lists, Truth
  <1>3. CASE r.phase = "roll" /\ ok
    <2> DEFINE f == [r EXCEPT !.applied = Append(@, Head(r.todo))]
    <2>1. /\ DOMAIN f = Fields /\ f.fleets = r.fleets /\ f.phase = "roll" /\ f.op = r.op
          /\ f.applied = Append(r.applied, Head(r.todo)) /\ f.skipped = r.skipped
          /\ f.release = r.release
      BY <1>0, <1>3 DEF Fields, Idle
    <2>2. AfterVisit(r, ok) = RollTo(f, Tail(r.todo))
      BY <1>3 DEF AfterVisit, RestOfRoll
    <2> HIDE DEF f
    <2>3. ASSUME f.op = "deploy"
          PROVE  /\ f.release # 0
                 /\ \A s \in ToSet(f.applied) : p[Head(f.fleets)][s].serving = f.release
                 /\ \A s \in ToSet(Tail(r.todo)) : Older(p[Head(f.fleets)][s], f.release)
                 /\ \A s \in ToSet(f.skipped) : Older(p[Head(f.fleets)][s], f.release)
      <3>1. /\ RollTruth(p, r) /\ r.applied \in Seq(Known(ws)) /\ r.skipped = <<>>
            /\ p[Head(r.fleets)][Head(r.todo)].serving = r.release
        BY <1>2, <1>3, <2>1, <2>3
      <3>2. ToSet(f.applied) = ToSet(r.applied) \cup {Head(r.todo)}
        <4> DEFINE s == r.applied
        <4>1. s \in Seq(Known(ws)) /\ Head(r.todo) \in Known(ws)
          BY <1>0, <3>1
        <4>2. ToSet(Append(s, Head(r.todo))) = ToSet(s) \cup {Head(r.todo)}
          <5> HIDE DEF s
          <5> QED
            BY <4>1, AppendHas
        <4> QED
          BY <2>1, <4>2
      <3>3. ToSet(<<>>) = {}
        BY DEF ToSet
      <3> QED
        BY <1>0, <2>1, <3>1, <3>2, <3>3 DEF RollTruth
    <2>4. Tail(r.todo) \in Seq(Known(ws))
      BY <1>0
    <2> QED
      BY <2>1, <2>2, <2>3, <2>4, RollToTruth
  <1>4. CASE r.phase = "roll" /\ ~ok
    <2> DEFINE f == [r EXCEPT !.failed = <<Head(r.todo)>>, !.skipped = Tail(r.todo)]
    <2>1. /\ DOMAIN f = Fields /\ f.fleets = r.fleets /\ f.phase = "roll" /\ f.op = r.op
          /\ f.applied = r.applied /\ f.skipped = Tail(r.todo) /\ f.release = r.release
      BY <1>0, <1>4 DEF Fields, Idle
    <2>2. AfterVisit(r, ok) = RollTo(f, <<>>)
      BY <1>4 DEF AfterVisit, RestOfRoll
    <2> HIDE DEF f
    <2>3. ASSUME f.op = "deploy"
          PROVE  /\ f.release # 0
                 /\ \A s \in ToSet(f.applied) : p[Head(f.fleets)][s].serving = f.release
                 /\ \A s \in ToSet(f.skipped) : Older(p[Head(f.fleets)][s], f.release)
      BY <1>0, <1>2, <1>4, <2>1, <2>3 DEF RollTruth
    <2>4. ToSet(<<>>) = {} /\ <<>> \in Seq(Known(ws))
      BY DEF ToSet
    <2> QED
      BY <2>1, <2>2, <2>3, <2>4, RollToTruth
  <1> QED
    BY <1>0, <1>1, <1>3, <1>4

LEMMA MoveTruth ==
    ASSUME NEW p, NEW r, NEW t, Truth(p, r), r.at \notin {"start", "report"},
           t.at \notin {"start", "report", "post", "connect"}, t.at = "unlock" => ~t.ok,
           t.at \in {"lock", "job"} => r.at \in {"connect", "lock"},
           t.at \in {"beforeFleet", "flip"} => Older(p[Head(t.jobs)[2]][Head(t.todo)], t.release),
           t.phase = r.phase, t.op = r.op, t.fleets = r.fleets, t.applied = r.applied,
           t.todo = r.todo, r.phase = "roll" => t.release = r.release
    PROVE  Truth(p, t)
  BY DEF Truth, RollTruth

\* The head of what remains is nowhere else in a list without repetitions.
LEMMA OnceOnly ==
    ASSUME NEW T, NEW s \in Seq(T), NEW t \in Seq(T), IsInjective(s \o t), t # <<>>
    PROVE  Head(t) \notin ToSet(Tail(t)) /\ Head(t) \notin ToSet(s)
  <1>1. /\ s \o t \in Seq(T) /\ Len(s \o t) = Len(s) + Len(t) /\ Len(s) \in Nat /\ Len(t) \in Nat
        /\ Len(t) > 0 /\ DOMAIN (s \o t) = 1 .. Len(s) + Len(t)
        /\ \A i \in 1 .. Len(s) : (s \o t)[i] = s[i]
        /\ \A i \in 1 .. Len(t) : (s \o t)[Len(s) + i] = t[i]
    OBVIOUS
  <1>2. Len(s) + 1 \in 1 .. Len(s) + Len(t) /\ (s \o t)[Len(s) + 1] = Head(t) /\ 1 \in 1 .. Len(t)
    BY <1>1
  <1>3. /\ Tail(t) \in Seq(T) /\ Len(Tail(t)) = Len(t) - 1
        /\ \A i \in 1 .. Len(Tail(t)) : Tail(t)[i] = t[i + 1]
    BY HeadTail
  <1>4. ASSUME NEW i \in 1 .. Len(Tail(t)) PROVE Tail(t)[i] # Head(t)
    <2>1. i + 1 \in 1 .. Len(t) /\ Len(s) + (i + 1) \in 1 .. Len(s) + Len(t)
          /\ Len(s) + (i + 1) # Len(s) + 1
      BY <1>1, <1>3
    <2>2. (s \o t)[Len(s) + (i + 1)] = Tail(t)[i]
      BY <1>1, <1>3, <2>1
    <2> QED
      BY <1>1, <1>2, <2>1, <2>2 DEF IsInjective
  <1>5. ASSUME NEW i \in 1 .. Len(s) PROVE s[i] # Head(t)
    <2>1. i \in 1 .. Len(s) + Len(t) /\ i # Len(s) + 1 /\ (s \o t)[i] = s[i]
      BY <1>1
    <2> QED
      BY <1>1, <1>2, <2>1 DEF IsInjective
  <1>6. DOMAIN s = 1 .. Len(s) /\ DOMAIN Tail(t) = 1 .. Len(Tail(t))
    BY <1>1, <1>3
  <1> QED
    BY <1>4, <1>5, <1>6 DEF ToSet

\* In a roll, the replica at hand comes once.
LEMMA OneVisit ==
    ASSUME Loads, NEW r, IsCmd(r), Shape(ws, r), r.op = "deploy", r.phase = "roll",
           r.at \in {"connect", "lock"} \cup WorkSteps
    PROVE  Head(r.todo) \notin ToSet(Tail(r.todo)) /\ Head(r.todo) \notin ToSet(r.applied)
  <1>1. /\ r.applied \in Seq(Known(ws)) /\ r.todo \in Seq(Known(ws)) /\ r.todo # <<>>
        /\ r.applied \o r.todo = RollOf(ws, r) /\ r.fleets \in Seq(Names(ws)) /\ r.fleets # <<>>
    BY DEF Shape, Lists, IsCmd, WorkSteps
  <1>2. Head(r.fleets) \in Names(ws)
    BY <1>1
  <1>3. IsInjective(RollOf(ws, r))
    BY <1>2, ReplicasHas, NarrowHas DEF RollOf, Replicas
  <1> DEFINE s == r.applied
             t == r.todo
  <1>4. s \in Seq(Known(ws)) /\ t \in Seq(Known(ws)) /\ t # <<>> /\ IsInjective(s \o t)
    BY <1>1, <1>3
  <1>5. Head(t) \notin ToSet(Tail(t)) /\ Head(t) \notin ToSet(s)
    <2> HIDE DEF s, t
    <2> QED
      BY ONLY <1>4, OnceOnly
  <1> QED
    BY <1>5

\* The app at hand, and the app of the roll.
LEMMA AppAtHand ==
    ASSUME ShapeInv, NEW c \in Clients, cmd[c].at \in {"beforeFleet", "flip", "post"}
    PROVE  /\ App(c) \in Names(ws) /\ Here(c) \in Known(ws)
           /\ cmd[c].phase = "roll" => App(c) = Head(cmd[c].fleets)
           /\ cmd[c].op = "deploy"
  <1> DEFINE r == cmd[c]
  <1>1. IsCmd(r) /\ Shape(ws, r)
    BY DEF ShapeInv, LockInv, CmdTypes
  <1>2. /\ r.jobs \in Seq(JobKinds(ws)) /\ r.jobs # <<>> /\ Head(r.jobs)[1] = "app"
        /\ r.todo \in Seq(Known(ws)) /\ r.todo # <<>>
    BY <1>1 DEF Shape, IsCmd, WorkSteps
  <1>3. Head(r.jobs) \in JobKinds(ws)
    BY <1>2
  <1>4. Head(r.jobs)[2] \in Names(ws)
    BY <1>2, <1>3 DEF JobKinds
  <1>5. r.phase = "roll" => Head(r.jobs)[2] = Head(r.fleets)
    <2>1. r.phase = "roll" => r.jobs = <<<<"app", Head(r.fleets)>>>>
      BY <1>1 DEF IsCmd, WorkSteps
    <2>2. \A x : Head(<<<<"app", x>>>>)[2] = x
      OBVIOUS
    <2> QED
      BY <2>1, <2>2
  <1> QED
    BY <1>1, <1>2, <1>4, <1>5 DEF App, Here, IsCmd, WorkSteps

LEMMA FlipTruth ==
    ASSUME ShapeInv, Minted, NEW c \in Clients, Flip(c), ~Fails(c), Truth(rep, cmd[c])
    PROVE  Truth(rep', cmd'[c])
  <1> DEFINE r == cmd[c]
             a == App(c)
             s == Here(c)
             t == [r EXCEPT !.at = "post"]
  <1>1. IsCmd(r) /\ Shape(ws, r) /\ DOMAIN cmd = Clients /\ DOMAIN r = Fields /\ r.at = "flip" /\ Loads
    BY DEF ShapeInv, LockInv, CmdTypes, IsCmd, Flip, At
  <1>2. /\ cmd' = [cmd EXCEPT ![c] = t]
        /\ rep' = [rep EXCEPT ![a][s] = [serving |-> r.release, fallback |-> @.serving]]
    BY DEF Flip, Goto, Set
  <1>3. /\ t.at = "post" /\ t.phase = r.phase /\ t.op = r.op /\ t.fleets = r.fleets
        /\ t.applied = r.applied /\ t.todo = r.todo /\ t.release = r.release /\ t.jobs = r.jobs
    BY <1>1 DEF Fields, Idle
  <1>4. cmd'[c] = t
    BY <1>1, <1>2
  <1>5. a \in Names(ws) /\ s \in Known(ws) /\ (r.phase = "roll" => a = Head(r.fleets))
    BY <1>1, AppAtHand
  <1>6. /\ rep'[a][s].serving = r.release
        /\ \A q : q # s => rep'[a][q] = rep[a][q]
    <2>1. a \in DOMAIN rep /\ s \in DOMAIN rep[a]
      BY <1>5 DEF Minted
    <2> DEFINE row == [rep[a] EXCEPT ![s] = [serving |-> r.release, fallback |-> rep[a][s].serving]]
    <2>2. rep' = [rep EXCEPT ![a] = row]
      BY <1>2
    <2>3. row[s] = [serving |-> r.release, fallback |-> rep[a][s].serving]
          /\ \A q : q # s => row[q] = rep[a][q]
      BY <2>1
    <2> HIDE DEF row, r
    <2>4. rep'[a] = row
      BY <2>1, <2>2
    <2> QED
      BY <2>3, <2>4
  <1>7. Head(t.jobs)[2] = a /\ Head(t.todo) = s
    BY <1>3 DEF App, Here
  <1>8. ASSUME r.op = "deploy", r.phase = "roll" PROVE RollTruth(rep', t)
    <2>1. s \notin ToSet(Tail(r.todo)) /\ s \notin ToSet(r.applied)
      BY <1>1, <1>8, OneVisit DEF Here, WorkSteps
    <2>2. RollTruth(rep, r)
      BY <1>1, <1>8 DEF Truth
    <2> HIDE DEF t, s
    <2>3. \A q \in ToSet(Tail(r.todo)) \cup ToSet(r.applied) : rep'[a][q] = rep[a][q]
      BY <1>6, <2>1
    <2> QED
      BY <1>1, <1>3, <1>5, <1>8, <2>2, <2>3 DEF RollTruth
  <1> HIDE DEF t
  <1> QED
    BY <1>3, <1>4, <1>6, <1>7, <1>8 DEF Truth

LEMMA StepTruth ==
    ASSUME ShapeInv, Minted, NEW c \in Clients, Step(c) \/ Crash(c), Truth(rep, cmd[c])
    PROVE  Truth(rep', cmd'[c])
  <1> DEFINE r == cmd[c]
             Told == Truth(rep', cmd'[c])
  <1>0. IsCmd(r) /\ Shape(ws, r) /\ DOMAIN cmd = Clients /\ DOMAIN r = Fields /\ Loads
    BY DEF ShapeInv, LockInv, CmdTypes, IsCmd
  <1>1. ASSUME NEW t, Set(c, t) PROVE cmd'[c] = t
    BY <1>0, <1>1 DEF Set
  <1>2. ASSUME Set(c, Idle) PROVE Told
    BY <1>1, <1>2 DEF Truth, Idle
  <1>3. ASSUME NEW ok \in BOOLEAN, Set(c, AfterVisit(r, ok)), UNCHANGED rep,
               r.at \in {"connect", "lock", "swap"} \cup WorkSteps,
               ok /\ r.phase = "roll" /\ r.op = "deploy" =>
                  rep[Head(r.fleets)][Head(r.todo)].serving = r.release
        PROVE  Told
    BY <1>0, <1>1, <1>3, AfterVisitTruth
  <1>4. ASSUME NEW l \in {"lock", "swap", "job", "flip"}, Set(c, [r EXCEPT !.at = l]),
               r.at \notin {"start", "report"}, UNCHANGED rep,
               l \in {"lock", "job"} => r.at \in {"connect", "lock"},
               l = "flip" => r.at = "beforeFleet"
        PROVE  Told
    <2> DEFINE t == [r EXCEPT !.at = l]
    <2>1. /\ t.at = l /\ t.phase = r.phase /\ t.op = r.op /\ t.fleets = r.fleets
          /\ t.applied = r.applied /\ t.todo = r.todo /\ t.release = r.release /\ t.jobs = r.jobs
      BY <1>0 DEF Fields, Idle
    <2>2. cmd'[c] = t
      BY <1>1, <1>4
    <2> HIDE DEF t
    <2>3. t.at = "flip" => Older(rep[Head(t.jobs)[2]][Head(t.todo)], t.release)
      BY <1>4, <2>1 DEF Truth
    <2>4. Truth(rep, t)
      BY <1>4, <2>1, <2>3, MoveTruth
    <2> QED
      BY <1>4, <2>2, <2>4
  <1>5. ASSUME StartRoll(c) PROVE Told
    <2> DEFINE name == Head(r.fleets)
               f == [r EXCEPT !.release = minted + 1, !.applied = <<>>]
               servers == Narrow(Replicas(name), r.on)
    <2>1. CASE Set(c, Idle)
      BY <1>2, <2>1
    <2>2. CASE ~Set(c, Idle)
      <3>1. r.phase = "roll" /\ r.at = "start" /\ r.fleets # <<>> /\ Set(c, RollTo(f, servers))
            /\ UNCHANGED rep
        BY <1>5, <2>2 DEF StartRoll, At, host
      <3>2. /\ DOMAIN f = Fields /\ f.phase = "roll" /\ f.release = minted + 1 /\ f.applied = <<>>
            /\ f.fleets = r.fleets /\ f.skipped = r.skipped /\ f.op = r.op
        BY <1>0, <3>1 DEF Fields, Idle
      <3>3. name \in Names(ws)
        <4>1. r.fleets \in Seq(Names(ws))
          BY <1>0 DEF Shape
        <4> QED
          BY <3>1, <4>1
      <3>4. servers \in Seq(Known(ws))
        BY <1>0, <3>3, ReplicasHas, NarrowHas
      <3> HIDE DEF servers, f
      <3>5. ToSet(servers) \subseteq Known(ws)
        BY <3>4 DEF ToSet
      <3>6. \A s \in Known(ws) : Older(rep[name][s], minted + 1)
        BY <3>3 DEF Minted, Older
      <3>7. minted + 1 # 0
        BY DEF Minted
      <3>8. ToSet(<<>>) = {}
        BY DEF ToSet
      <3>9. r.op = "deploy" => r.skipped = <<>>
        BY <1>0, <3>1 DEF Shape, Lists
      <3>10. Truth(rep, RollTo(f, servers))
        BY <3>2, <3>4, <3>5, <3>6, <3>7, <3>8, <3>9, RollToTruth
      <3> QED
        BY <1>1, <3>1, <3>10
    <2> QED
      BY <2>1, <2>2
  <1>6. ASSUME Connect(c) PROVE Told
    <2>1. UNCHANGED rep /\ r.at = "connect"
      BY <1>6 DEF Connect, At, host
    <2> QED
      BY <1>2, <1>3, <1>4, <1>6, <2>1 DEF Connect, Goto, WorkSteps
  <1>7. ASSUME Lock(c) PROVE Told
    <2>1. UNCHANGED rep /\ r.at = "lock"
      BY <1>7 DEF Lock, At
    <2>2. r.phase = "roll" => r.jobs # <<>>
      <3>1. r.phase = "roll" => r.jobs = <<<<"app", Head(r.fleets)>>>>
        BY <1>0, <2>1 DEF IsCmd
      <3>2. \A x : <<x>> # <<>>
        OBVIOUS
      <3> QED
        BY <3>1, <3>2
    <2>3. \/ Set(c, AfterVisit(r, TRUE)) /\ r.jobs = <<>>
          \/ Set(c, [r EXCEPT !.at = "job"])
          \/ Set(c, AfterVisit(r, FALSE))
      BY <1>7 DEF Lock, Goto
    <2>4. CASE Set(c, [r EXCEPT !.at = "job"])
      BY <1>4, <2>1, <2>4 DEF WorkSteps
    <2>5. CASE Set(c, AfterVisit(r, TRUE)) /\ r.jobs = <<>>
      BY <1>3, <2>1, <2>2, <2>5
    <2>6. CASE Set(c, AfterVisit(r, FALSE))
      BY <1>3, <2>1, <2>6
    <2> QED
      BY <2>3, <2>4, <2>5, <2>6
  <1>8. ASSUME Fails(c), UNCHANGED rep, r.at \in WorkSteps PROVE Told
    <2> DEFINE t == [r EXCEPT !.at = "unlock", !.ok = FALSE]
    <2>1. /\ t.at = "unlock" /\ ~t.ok /\ t.phase = r.phase /\ t.op = r.op /\ t.fleets = r.fleets
          /\ t.applied = r.applied /\ t.todo = r.todo /\ t.release = r.release
      BY <1>0 DEF Fields, Idle
    <2>2. cmd'[c] = t
      BY <1>1, <1>8 DEF Fails, AfterFailure
    <2> HIDE DEF t
    <2>3. Truth(rep, t)
      BY <1>8, <2>1, MoveTruth DEF WorkSteps
    <2> QED
      BY <1>8, <2>2, <2>3
  <1>9. ASSUME Set(c, JobDone(r)), UNCHANGED rep, r.at \in {"job", "post"},
               r.phase = "roll" => r.at = "post"
        PROVE  Told
    <2> DEFINE t == JobDone(r)
    <2>1. /\ t.at \in {"job", "unlock"} /\ t.phase = r.phase /\ t.op = r.op /\ t.fleets = r.fleets
          /\ t.applied = r.applied /\ t.todo = r.todo /\ t.release = r.release
          /\ Tail(r.jobs) = <<>> => t.at = "unlock"
      BY <1>0 DEF JobDone, Fields, Idle
    <2> HIDE DEF t
    <2>5. r.phase = "roll" => t.at = "unlock"
      <3>1. r.phase = "roll" => r.jobs = <<<<"app", Head(r.fleets)>>>>
        BY <1>0, <1>9 DEF IsCmd, WorkSteps
      <3>2. \A x : Tail(<<x>>) = <<>>
        OBVIOUS
      <3> QED
        BY <2>1, <3>1, <3>2
    <2>2. r.phase = "roll" => rep[Head(r.fleets)][Head(r.todo)].serving = r.release
      BY <1>9, AppAtHand DEF Truth, App, ShapeInv
    <2>3. ASSUME r.phase = "roll", r.op = "deploy" PROVE RollTruth(rep, t)
      BY <1>9, <2>1, <2>2, <2>3, <2>5 DEF Truth, RollTruth
    <2>4. Truth(rep, t)
      BY <2>1, <2>3 DEF Truth
    <2> QED
      BY <1>1, <1>9, <2>4 DEF t
  <1>10. ASSUME EnsureAccessory(c) PROVE Told
    <2>1. UNCHANGED rep /\ r.at = "job" /\ r.jobs # <<>> /\ Head(r.jobs)[1] = "accessory"
      BY <1>0, <1>10 DEF EnsureAccessory, At, Shape, WorkSteps
    <2>2. r.phase # "roll"
      <3>1. r.phase = "roll" => r.jobs = <<<<"app", Head(r.fleets)>>>>
        BY <1>0, <2>1 DEF IsCmd, WorkSteps
      <3>2. \A x : Head(<<<<"app", x>>>>)[1] = "app"
        OBVIOUS
      <3> QED
        BY <2>1, <3>1, <3>2
    <2> QED
      BY <1>8, <1>9, <1>10, <2>1, <2>2 DEF EnsureAccessory, WorkSteps
  <1>11. ASSUME Post(c) PROVE Told
    <2>1. UNCHANGED rep /\ r.at = "post"
      BY <1>11 DEF Post, At, host
    <2> QED
      BY <1>8, <1>9, <1>11, <2>1 DEF Post, WorkSteps
  <1>12. ASSUME Stage(c) PROVE Told
    <2>1. UNCHANGED rep /\ r.at = "job"
      BY <1>12 DEF Stage, At, host
    <2> DEFINE n == IF Rolling(c) THEN r.release ELSE minted + 1
    <2>2. Fails(c) \/ Set(c, [r EXCEPT !.at = "beforeFleet", !.release = n])
      BY <1>12 DEF Stage
    <2>3. r.phase = "roll" => n = r.release
      BY DEF Rolling
    <2>6. Older(rep[Head(r.jobs)[2]][Head(r.todo)], n)
      <3>1. CASE r.phase = "roll"
        <4>1. r.jobs = <<<<"app", Head(r.fleets)>>>> /\ r.op = "deploy"
          BY <1>0, <2>1, <3>1 DEF IsCmd, WorkSteps
        <4>2. \A x : Head(<<<<"app", x>>>>)[2] = x
          OBVIOUS
        <4> QED
          BY <2>1, <2>3, <3>1, <4>1, <4>2 DEF Truth, RollTruth
      <3>2. CASE r.phase # "roll"
        <4>1. r.jobs \in Seq(JobKinds(ws)) /\ r.jobs # <<>> /\ Head(r.jobs)[1] = "app"
              /\ r.todo \in Seq(Known(ws)) /\ r.todo # <<>>
          BY <1>0, <1>12, <2>1 DEF Stage, Shape, IsCmd, WorkSteps
        <4>2. Head(r.jobs) \in JobKinds(ws) /\ Head(r.todo) \in Known(ws)
          BY <4>1
        <4>3. Head(r.jobs)[2] \in Names(ws)
          BY <4>1, <4>2 DEF JobKinds
        <4>4. n = minted + 1
          BY <3>2 DEF Rolling
        <4>5. minted \in Nat /\ n - 1 = minted
          BY <4>4 DEF Minted
        <4> HIDE DEF n
        <4> QED
          BY <4>2, <4>3, <4>5 DEF Minted, Older
      <3> QED
        BY <3>1, <3>2
    <2> HIDE DEF n
    <2>4. CASE Fails(c)
      BY <1>8, <2>1, <2>4 DEF WorkSteps
    <2>5. CASE Set(c, [r EXCEPT !.at = "beforeFleet", !.release = n])
      <3> DEFINE t == [r EXCEPT !.at = "beforeFleet", !.release = n]
      <3>1. /\ t.at = "beforeFleet" /\ t.phase = r.phase /\ t.op = r.op /\ t.fleets = r.fleets
            /\ t.applied = r.applied /\ t.todo = r.todo /\ t.release = n /\ t.jobs = r.jobs
        BY <1>0 DEF Fields, Idle
      <3>2. cmd'[c] = t
        BY <1>1, <2>5
      <3> HIDE DEF t
      <3>3. Truth(rep, t)
        BY <2>1, <2>3, <2>6, <3>1, MoveTruth
      <3> QED
        BY <2>1, <3>2, <3>3
    <2> QED
      BY <2>2, <2>4, <2>5
  <1>13. ASSUME BeforeFleet(c) PROVE Told
    <2>1. UNCHANGED rep /\ r.at = "beforeFleet"
      BY <1>13 DEF BeforeFleet, At
    <2> QED
      BY <1>4, <1>8, <1>13, <2>1 DEF BeforeFleet, Goto, WorkSteps
  <1>14. ASSUME Flip(c) PROVE Told
    <2>1. CASE Fails(c)
      <3>1. r.at = "flip" /\ Set(c, [r EXCEPT !.at = "unlock", !.ok = FALSE])
        BY <1>14, <2>1 DEF Flip, At, Fails, AfterFailure
      <3>2. cmd'[c] = [r EXCEPT !.at = "unlock", !.ok = FALSE]
        BY <1>1, <3>1
      <3>3. [r EXCEPT !.at = "unlock", !.ok = FALSE].at = "unlock"
        BY <1>0 DEF Fields, Idle
      <3>4. [r EXCEPT !.at = "post"].at = "post"
        BY <1>0 DEF Fields, Idle
      <3>5. ~Goto(c, "post")
        BY <1>1, <3>2, <3>3, <3>4 DEF Goto
      <3>6. UNCHANGED rep
        BY <1>14, <3>5 DEF Flip
      <3> QED
        BY <1>8, <2>1, <3>1, <3>6 DEF WorkSteps
    <2>2. CASE ~Fails(c)
      BY <1>14, <2>2, FlipTruth
    <2> QED
      BY <2>1, <2>2
  <1>15. ASSUME Unlock(c) PROVE Told
    <2>1. UNCHANGED rep /\ r.at = "unlock" /\ Set(c, AfterVisit(r, r.ok)) /\ r.ok \in BOOLEAN
      BY <1>0, <1>15 DEF Unlock, At, IsCmd
    <2>2. r.ok /\ r.phase = "roll" /\ r.op = "deploy" =>
             rep[Head(r.fleets)][Head(r.todo)].serving = r.release
      BY <2>1 DEF Truth, RollTruth
    <2> QED
      BY <1>3, <2>1, <2>2 DEF WorkSteps
  <1>16. ASSUME Report(c) PROVE Told
    <2>1. CASE Set(c, Idle)
      BY <1>2, <2>1
    <2>2. CASE Set(c, [r EXCEPT !.at = "start", !.fleets = Tail(@)])
      <3>1. cmd'[c] = [r EXCEPT !.at = "start", !.fleets = Tail(@)]
        BY <1>1, <2>2
      <3>2. cmd'[c].at = "start"
        BY <1>0, <3>1 DEF Fields, Idle
      <3> QED
        BY <3>2 DEF Truth
    <2> QED
      BY <1>16, <2>1, <2>2 DEF Report
  <1>17. ASSUME Swap(c) PROVE Told
    <2>1. r.at = "swap" /\ r.op = "rollback" /\ r.phase = "roll"
      BY <1>0, <1>17 DEF Swap, At, IsCmd
    <2> PICK ok \in BOOLEAN : Set(c, AfterVisit(r, ok))
      BY <1>17 DEF Swap
    <2>2. Truth(rep', r)
      BY <2>1 DEF Truth
    <2>3. Truth(rep', AfterVisit(r, ok))
      BY <1>0, <2>1, <2>2, AfterVisitTruth
    <2> QED
      BY <1>1, <2>3
  <1>18. ASSUME Crash(c) PROVE Told
    BY <1>2, <1>18 DEF Crash
  <1> QED
    BY <1>5, <1>6, <1>7, <1>10, <1>11, <1>12, <1>13, <1>14, <1>15, <1>16, <1>17, <1>18 DEF Step

LEMMA NextTruth ==
    ASSUME ShapeInv, AloneInv, Minted, TruthInv, [Next]_vars PROVE TruthInv'
  <1>0. /\ UNCHANGED ws /\ DOMAIN cmd = Clients
        /\ \A c \in Clients : IsCmd(cmd[c]) /\ DOMAIN cmd[c] = Fields
    BY LoadsStays DEF ShapeInv, LockInv, CmdTypes, IsCmd
  <1>1. CASE UNCHANGED <<cmd, rep>>
    BY <1>0, <1>1 DEF TruthInv, Active
  <1>2. ASSUME NEW c \in Clients, Step(c) \/ Crash(c) PROVE TruthInv'
    <2> SUFFICES ASSUME NEW d \in Clients, cmd'[d].phase # "idle", cmd'[d].alone
                 PROVE  Truth(rep', cmd'[d])
      BY DEF TruthInv, Active
    <2> PICK t : cmd' = [cmd EXCEPT ![c] = t] /\ Follows(cmd[c], t)
      BY <1>2, StepFollows
    <2>1. Active(c) /\ cmd'[c] = t
      BY <1>0, <1>2, StepFollows
    <2>2. CASE d = c
      <3>1. cmd[c].alone
        BY <2>1, <2>2 DEF Follows
      <3> QED
        BY <1>2, <2>1, <2>2, <3>1, StepTruth DEF TruthInv
    <2>3. CASE d # c
      <3>1. cmd'[d] = cmd[d]
        BY <1>0, <2>3
      <3>2. ~Active(c)
        BY <2>3, <3>1 DEF AloneInv, Active
      <3> QED
        BY <2>1, <3>2
    <2> QED
      BY <2>2, <2>3
  <1>3. ASSUME NEW c \in Clients, NEW r, Fresh(r), StartCommand(c, r), UNCHANGED rep
        PROVE  TruthInv'
    <2>1. DOMAIN r = Fields
      BY <1>3 DEF Fresh
    <2> SUFFICES ASSUME NEW d \in Clients, cmd'[d].phase # "idle", cmd'[d].alone
                 PROVE  Truth(rep', cmd'[d])
      BY DEF TruthInv, Active
    <2>2. CASE d = c
      <3> DEFINE t == [r EXCEPT !.alone = Quiet]
      <3>1. cmd'[c] = t
        BY <1>3 DEF StartCommand
      <3>2. t.at = r.at /\ t.op = r.op /\ t.phase = r.phase
        BY <2>1 DEF Fields, Idle
      <3> HIDE DEF t
      <3>3. Truth(rep', t)
        BY <1>3, <3>2 DEF Fresh, Truth
      <3> QED
        BY <2>2, <3>1, <3>3
    <2>3. CASE d # c
      BY <1>3, <2>1, <2>3, StartSeen DEF Active
    <2> QED
      BY <2>2, <2>3
  <1> QED
    BY <1>1, <1>2, <1>3, Happens DEF vars, host

LEMMA SpecTruth == Spec => []TruthInv
  <1>1. Init => TruthInv
    BY DEF Init, TruthInv, Active, Idle
  <1>2. ShapeInv /\ AloneInv /\ Minted /\ TruthInv /\ [Next]_vars => TruthInv'
    BY NextTruth
  <1> QED
    BY <1>1, <1>2, SpecShape, SpecAlone, SpecMinted, PTL DEF Spec

\* What a deploy that nobody disturbs reports of a roll is true, wherever the roll was
\* stopped: the replicas it calls updated serve the release, those it calls skipped do
\* not, and the lists make up the roll.
THEOREM ReportsAreTrue == Spec => []ReportTruthful
  <1>1. ShapeInv /\ Minted /\ TruthInv => ReportTruthful
    <2> SUFFICES ASSUME ShapeInv, Minted, TruthInv, NEW c \in Clients, cmd[c].at = "report",
                        cmd[c].op = "deploy", cmd[c].alone
                 PROVE  LET r == cmd[c]
                            a == Head(r.fleets)
                            serves(s) == rep[a][s].serving = r.release
                        IN  /\ \A s \in ToSet(r.applied) : serves(s)
                            /\ \A s \in ToSet(r.skipped) : ~serves(s)
                            /\ r.applied \o r.failed \o r.skipped = Narrow(Replicas(a), r.on)
                            /\ r.failed = <<>> /\ r.on = All =>
                                  assessConvergence([s \in ToSet(r.applied) |-> rep[a][s].serving])
      BY DEF ReportTruthful, At
    <2> DEFINE r == cmd[c]
               a == Head(r.fleets)
    <2>1. Shape(ws, r) /\ r.phase = "roll"
      BY DEF ShapeInv, Shape
    <2>2. r.applied \o r.failed \o r.skipped = Narrow(Replicas(a), r.on)
      BY <2>1 DEF Shape, Lists, RollOf, Replicas
    <2>3. /\ r.release # 0
          /\ \A s \in ToSet(r.applied) : rep[a][s].serving = r.release
          /\ \A s \in ToSet(r.skipped) : rep[a][s].serving # r.release
      <3>1. /\ r.release # 0
            /\ \A s \in ToSet(r.applied) : rep[a][s].serving = r.release
            /\ \A s \in ToSet(r.skipped) : Older(rep[a][s], r.release)
        BY <2>1 DEF TruthInv, Active, Truth, RollTruth
      <3>2. r.release \in Nat
        BY DEF Minted
      <3> QED
        BY <3>1, <3>2 DEF Older
    <2>4. assessConvergence([s \in ToSet(r.applied) |-> rep[a][s].serving])
      <3> DEFINE serving == [s \in ToSet(r.applied) |-> rep[a][s].serving]
                 seen == {serving[s] : s \in DOMAIN serving}
      <3>1. seen \in {{}, {r.release}} /\ 0 \notin seen
        BY <2>3
      <3> HIDE DEF seen
      <3>2. Cardinality(seen) <= 1
        <4>1. CASE seen = {}
          BY <4>1, FS_EmptySet
        <4>2. CASE seen = {r.release}
          <5> HIDE DEF r
          <5>1. Cardinality({r.release}) = 1
            BY ONLY FS_Singleton
          <5> QED
            BY <4>2, <5>1
        <4> QED
          BY <3>1, <4>1, <4>2
      <3> QED
        BY <3>1, <3>2 DEF assessConvergence, seen
    <2> QED
      BY <2>2, <2>3, <2>4
  <1> QED
    BY <1>1, SpecShape, SpecMinted, SpecTruth, PTL

\* A list without repetitions that ends with the head of what remains has nothing after it.
LEMMA LastOne ==
    ASSUME NEW T, NEW s \in Seq(T), NEW t \in Seq(T), IsInjective(s \o t), t # <<>>,
           Head(t) = Last(s \o t)
    PROVE  ToSet(s \o t) = ToSet(s) \cup {Head(t)}
  <1>1. /\ Len(s \o t) = Len(s) + Len(t) /\ Len(s) \in Nat /\ Len(t) \in Nat /\ Len(t) > 0
        /\ \A i \in 1 .. Len(t) : (s \o t)[Len(s) + i] = t[i]
    OBVIOUS
  <1>2. Tail(t) \in Seq(T) /\ Len(Tail(t)) = Len(t) - 1 /\ ToSet(t) = {Head(t)} \cup ToSet(Tail(t))
        /\ \A i \in 1 .. Len(Tail(t)) : Tail(t)[i] = t[i + 1]
    BY HeadTail
  <1>3. Len(Tail(t)) = 0
    <2> SUFFICES ASSUME Len(Tail(t)) # 0 PROVE FALSE
      OBVIOUS
    <2>1. Len(t) - 1 \in 1 .. Len(Tail(t)) /\ (Len(t) - 1) + 1 = Len(t) /\ Len(t) \in 1 .. Len(t)
      BY <1>1, <1>2
    <2>2. Tail(t)[Len(t) - 1] = Head(t)
      BY <1>1, <1>2, <2>1 DEF Last
    <2>3. Head(t) \in ToSet(Tail(t))
      <3>1. DOMAIN Tail(t) = 1 .. Len(Tail(t))
        BY <1>2
      <3> QED
        BY <2>1, <2>2, <3>1 DEF ToSet
    <2> QED
      BY <2>3, OnceOnly
  <1>4. ToSet(Tail(t)) = {}
    <2>1. Tail(t) = <<>>
      <3> DEFINE u == Tail(t)
      <3>1. u \in Seq(T) /\ Len(u) = 0
        BY <1>2, <1>3
      <3> HIDE DEF u
      <3>2. u = <<>>
        BY <3>1
      <3> QED
        BY <3>2 DEF u
    <2>2. ToSet(<<>>) = {}
      BY DEF ToSet
    <2> QED
      BY <2>1, <2>2
  <1>5. ToSet(s \o t) = ToSet(s) \cup ToSet(t)
    BY ToSetConcat
  <1> QED
    BY <1>2, <1>4, <1>5

\* When a deploy that nobody disturbs runs afterFleet, every server of the app serves the
\* release: the orchestrator that is told it is the last of the roll is the last.
THEOREM AfterFleetConverged ==
    ASSUME \A w \in Workspaces : UniqueNames(w)
    PROVE  Spec => ContractsConverged
  <1> DEFINE Converged == \A c \in Clients :
                 Post(c) /\ cmd'[c].ok /\ IsLast(c) /\ cmd[c].alone /\ cmd[c].on = All =>
                 \A s \in ServersOf(ws, AppNamed(ws, App(c))) :
                     rep[App(c)][s].serving = cmd[c].release
  <1>1. ShapeInv /\ TruthInv => Converged
    <2> SUFFICES ASSUME ShapeInv, TruthInv, NEW c \in Clients, Post(c), IsLast(c), cmd[c].alone,
                        cmd[c].on = All, NEW s \in ServersOf(ws, AppNamed(ws, App(c)))
                 PROVE  rep[App(c)][s].serving = cmd[c].release
      OBVIOUS
    <2> DEFINE r == cmd[c]
    <2>1. /\ r.at = "post" /\ IsCmd(r) /\ Shape(ws, r) /\ r.op = "deploy" /\ Loads
          /\ r.phase \in {"fan", "roll"}
      BY DEF Post, At, ShapeInv, LockInv, CmdTypes, IsCmd, WorkSteps
    <2>2. rep[App(c)][Here(c)].serving = r.release /\ Truth(rep, r)
      BY <2>1 DEF TruthInv, Active, Truth, App, Here
    <2>3. CASE r.phase = "fan"
      <3>1. r.jobs \in Seq(JobKinds(ws)) /\ r.jobs # <<>> /\ Head(r.jobs)[1] = "app"
            /\ \A j \in ToSet(r.jobs) : OnItsServer(ws, j, Head(r.todo))
        BY <2>1, <2>3 DEF Shape, WorkSteps
      <3>2. Head(r.jobs) \in ToSet(r.jobs)
        BY <3>1, FirstOf
      <3>3. UniqueNames(ws)
        BY <2>1 DEF Loads
      <3>4. ServersOf(ws, AppNamed(ws, App(c))) = {Here(c)}
        BY <3>1, <3>2, <3>3 DEF OnItsServer, App, Here
      <3> QED
        BY <2>2, <3>4
    <2>4. CASE r.phase = "roll"
      <3>1. /\ r.applied \in Seq(Known(ws)) /\ r.todo \in Seq(Known(ws)) /\ r.todo # <<>>
            /\ r.applied \o r.todo = RollOf(ws, r)
        BY <2>1, <2>4 DEF Shape, Lists, IsCmd, WorkSteps
      <3>2. App(c) \in Names(ws) /\ App(c) = Head(r.fleets)
        BY <2>1, <2>4, AppAtHand
      <3>3. RollOf(ws, r) = Replicas(App(c)) /\ Roll(c) = Replicas(App(c))
        BY <3>2 DEF RollOf, Roll, Narrow, Replicas
      <3>4. IsInjective(Replicas(App(c)))
            /\ ToSet(Replicas(App(c))) = ServersOf(ws, AppNamed(ws, App(c)))
        BY <2>1, <3>2, ReplicasHas
      <3>5. Head(r.todo) = Last(Replicas(App(c)))
        BY <2>4, <3>3 DEF IsLast, Rolling, Here
      <3>6. ToSet(Replicas(App(c))) = ToSet(r.applied) \cup {Head(r.todo)}
        <4> DEFINE x == r.applied
                   t == r.todo
        <4>1. x \in Seq(Known(ws)) /\ t \in Seq(Known(ws)) /\ t # <<>> /\ IsInjective(x \o t)
              /\ Head(t) = Last(x \o t)
          BY <3>1, <3>3, <3>4, <3>5
        <4>2. ToSet(x \o t) = ToSet(x) \cup {Head(t)}
          <5> HIDE DEF x, t
          <5> QED
            BY ONLY <4>1, LastOne
        <4> QED
          BY <3>1, <3>3, <4>2
      <3>7. \A q \in ToSet(r.applied) : rep[App(c)][q].serving = r.release
        BY <2>1, <2>2, <2>4, <3>2 DEF Truth, RollTruth
      <3> QED
        BY <2>2, <3>4, <3>6, <3>7 DEF Here
    <2> QED
      BY <2>1, <2>3, <2>4
  <1>2. ContractsConverged <=> [][Converged]_vars
    BY DEF ContractsConverged
  <1> QED
    BY <1>1, <1>2, SpecShape, SpecTruth, PTL
\* Every step of commands that do not overlap is, on every replica, a step of
\* TrafficSwitch: for any workspace, and wherever earlier commands stopped.
THEOREM ReplicasImplementTraffic == Spec => ReplicasSwitchTraffic
  <1>1. ASSUME ShapeInv, Minted, TruthInv, [Next]_vars, \A c \in Clients : Active(c) => cmd[c].alone,
               NEW a \in Names(ws), NEW s \in Known(ws)
        PROVE  [Replica(a, s)!Next]_(rep[a][s])
    <2>0. DOMAIN rep = Names(ws) /\ DOMAIN rep[a] = Known(ws)
      BY <1>1 DEF Minted
    <2>1. CASE UNCHANGED rep
      BY <2>1
    <2>2. ASSUME NEW c \in Clients, Flip(c), ~UNCHANGED rep PROVE [Replica(a, s)!Next]_(rep[a][s])
      <3> DEFINE r == cmd[c]
                 x == rep[a][s]
                 y == [serving |-> r.release, fallback |-> x.serving]
      <3>1. r.at = "flip" /\ rep' = [rep EXCEPT ![App(c)][Here(c)] =
                                       [serving |-> r.release, fallback |-> @.serving]]
        BY <2>2 DEF Flip, At
      <3>2. rep'[a][s] = x \/ (App(c) = a /\ Here(c) = s /\ rep'[a][s] = y)
        BY <2>0, <3>1
      <3>3. r.phase # "idle"
        BY <1>1, <3>1 DEF ShapeInv, Shape
      <3>4. Older(rep[App(c)][Here(c)], r.release)
        BY <1>1, <3>1, <3>3 DEF TruthInv, Active, Truth, App, Here
      <3>5. r.release \in Nat /\ x.serving \in Nat /\ x.fallback \in Nat
        BY <1>1 DEF Minted
      <3> HIDE DEF r
      <3>6. CASE App(c) = a /\ Here(c) = s /\ rep'[a][s] = y
        <4>1. x.serving < r.release /\ x.fallback < r.release
          BY <3>4, <3>5, <3>6 DEF Older
        <4>2. rep'[a][s].serving = r.release /\ rep'[a][s].fallback = x.serving
          BY <3>6
        <4>3. r.release \in Nat \ {0} /\ r.release > x.serving /\ r.release > x.fallback
          BY <3>5, <4>1
        <4>4. Replica(a, s)!Deploy
          BY <4>2, <4>3 DEF Replica!Deploy
        <4> QED
          BY <4>4 DEF Replica!Next
      <3> QED
        BY <3>2, <3>6
    <2>3. ASSUME NEW c \in Clients, Swap(c), ~UNCHANGED rep PROVE [Replica(a, s)!Next]_(rep[a][s])
      <3> DEFINE b == cmd[c].app
                 x == rep[b][Here(c)]
                 y == [serving |-> x.fallback, fallback |-> x.serving]
      <3>1. x.fallback # 0 /\ rep' = [rep EXCEPT ![b][Here(c)] = y]
        BY <2>3 DEF Swap
      <3>2. rep'[a][s] = rep[a][s] \/ (b = a /\ Here(c) = s /\ rep'[a][s] = y)
        BY <2>0, <3>1
      <3>3. CASE b = a /\ Here(c) = s /\ rep'[a][s] = y
        <4>1. /\ rep'[a][s].serving = rep[a][s].fallback /\ rep'[a][s].fallback = rep[a][s].serving
              /\ rep[a][s].fallback # 0
          BY <3>1, <3>3
        <4>2. Replica(a, s)!Rollback
          BY <4>1 DEF Replica!Rollback
        <4> QED
          BY <4>2 DEF Replica!Next
      <3> QED
        BY <3>2, <3>3
    <2>4. ASSUME ~UNCHANGED rep PROVE \E c \in Clients : Flip(c) \/ Swap(c)
      BY <1>1, <2>4, Happens DEF vars, host, Step, StartRoll, Connect, Lock, EnsureAccessory, Stage,
            BeforeFleet, Post, Unlock, Report, Crash
    <2> QED
      BY <2>1, <2>2, <2>3, <2>4
  <1>2. ShapeInv /\ Minted /\ TruthInv /\ [Next]_vars =>
           [(\A c \in Clients : Active(c) => cmd[c].alone) =>
              \A a \in Names(ws), s \in Known(ws) : [Replica(a, s)!Next]_(rep[a][s])]_vars
    BY <1>1
  <1> QED
    BY <1>2, SpecShape, SpecMinted, SpecTruth, PTL DEF Spec, ReplicasSwitchTraffic

=============================================================================
