--------------------------- MODULE RecreateProofs ---------------------------
(***************************************************************************)
(* Theorems about Recreate, for any number of releases, config, fault and  *)
(* failure: what a success means for the processes, what a reboot brings   *)
(* back after a deploy, and what a failed deploy leaves of that.           *)
(***************************************************************************)
EXTENDS Recreate, TLAPS

Places == {"stage", "switch", "files", "start", "health", "record", "post",
           "revert", "recordFailed"}

HostInv ==
    /\ minted \in Nat /\ minted <= MaxRelease
    /\ disk \subseteq 1 .. minted
    /\ DOMAIN eco = Release /\ DOMAIN faulty = Release
    /\ config \subseteq Name /\ "web" \in config /\ runtime \in {"pm2", "watt"}
    /\ DOMAIN cmd = DOMAIN Idle /\ cmd.switched \in BOOLEAN
    /\ cmd.pc \in Places => cmd.id = minted /\ minted \in Release

\* How far the deploy has come.
Progress ==
    /\ cmd.pc \in {"stage", "switch"} => ~cmd.switched
    /\ cmd.pc = "switch" => cmd.prev = current
    /\ cmd.pc \in {"switch", "files", "start", "health", "record", "post"} => cmd.id \in disk
    /\ cmd.pc \in {"files", "start", "health", "record", "post"} => current = cmd.id
    /\ cmd.pc \in {"start", "health", "record", "post"} =>
          /\ eco[cmd.id] = config
          /\ runtime = "watt" => config \subseteq boot
    /\ cmd.pc \in {"health", "record", "post"} => config \subseteq boot

\* What the reboot before the deploy would have brought up can still be brought up,
\* and the catch block knows where.
Bootable(n) == n \in boot \/ Dropped(n)
Kept(n) ==
    LET r == cmd.was[n]
    IN  /\ Runnable(n, r) /\ Bootable(n) /\ r # cmd.id
        /\ cmd.pc = "recordFailed" => current = r
        /\ cmd.pc # "recordFailed" => IF cmd.switched THEN cmd.prev = r ELSE current = r
WasKept == cmd.pc \in Places /\ ~cmd.lost =>
               \A n \in Name : cmd.was[n] # None => Kept(n)

\* Before a health check a process that is online was started from `current`, and a
\* faulty worker has been restarted, or the web process is not online at all; the
\* check leaves the good ones. A rollback owes this to the release's own file.
NoFallback == \A r \in Nat : <<r, "ecosystem">> \notin FailAt
Fresh(n) ==
    proc[n].state = "online" =>
        /\ proc[n].rel = current
        /\ n = "worker" /\ n \in faulty[current] => proc[n].restarted
Ready == \/ proc["web"].state # "online"
         \/ \A n \in config \cap eco[current] : Fresh(n)
AllGood == \A n \in config \cap eco[current] : (n = "web" /\ legacy) \/ Good(n)
Probed ==
    /\ cmd.pc = "health" \/ (cmd.pc = "rbHealth" /\ NoFallback) => Ready
    /\ cmd.pc \in {"record", "post"} /\ checked => AllGood

RecreateInv == HostInv /\ Progress /\ WasKept /\ Probed

USE RecreateAssumption

LEMMA HealthyIsGood ==
    ASSUME config \subseteq Name, "web" \in config, Ready, checked, Healthy
    PROVE  AllGood
  BY DEF Ready, AllGood, Fresh, Good, Healthy, Answers, Serves, performStatusCheck, Name

LEMMA LaunchedIsFresh ==
    ASSUME NEW n, NEW b \in BOOLEAN, proc'[n] = Launched(n, current, b),
           UNCHANGED <<current, faulty>>
    PROVE  Fresh(n)'
  <1> SUFFICES ASSUME proc'[n].state = "online"
               PROVE  /\ proc'[n].rel = current
                      /\ n = "worker" /\ n \in faulty[current] => proc'[n].restarted
    BY DEF Fresh
  <1> DEFINE again == b \/ (n = "worker" /\ n \in faulty[current])
  <1>1. proc'[n] = [rel |-> current, state |-> "online", restarted |-> again]
    <2>1. CASE Runnable(n, current)
      BY <2>1 DEF Launched
    <2>2. CASE ~Runnable(n, current)
      <3>1. Launched(n, current, b) = [rel |-> current, state |-> "errored", restarted |-> b]
        BY <2>2 DEF Launched
      <3> QED
        BY <3>1
    <2> QED
      BY <2>1, <2>2
  <1> HIDE DEF again
  <1>2. proc'[n].rel = current /\ proc'[n].restarted = again
    BY <1>1
  <1>3. n = "worker" /\ n \in faulty[current] => again = TRUE
    BY DEF again
  <1> QED
    BY <1>2, <1>3

LEMMA RestartedLaunches ==
    ASSUME NEW names, proc' \in Restarted(names), NEW n \in names \cap Name
    PROVE  \E b \in BOOLEAN : proc'[n] = Launched(n, current, b)
  <1>1. PICK died : proc' = [m \in Name |-> IF m \in names
                                THEN Launched(m, current, Counts(m) \/ (m = "web" /\ died))
                                ELSE proc[m]]
    BY DEF Restarted
  <1>2. proc'[n] = Launched(n, current, Counts(n) \/ (n = "web" /\ died))
    BY <1>1
  <1>3. (Counts(n) \/ (n = "web" /\ died)) \in BOOLEAN
    BY DEF Counts
  <1> QED
    BY <1>2, <1>3

\* Outside a deploy only the releases matter, and a rollback's fresh processes.
LEMMA Aside ==
    ASSUME HostInv, UNCHANGED <<minted, config, faulty, eco, runtime>>, disk' \subseteq disk,
           DOMAIN cmd' = DOMAIN Idle, cmd'.switched \in BOOLEAN,
           cmd'.pc \in {"idle", "rbSwitch", "rbReload", "rbHealth"},
           cmd'.pc = "rbHealth" /\ NoFallback => Ready'
    PROVE  RecreateInv'
  BY DEF RecreateInv, HostInv, Progress, WasKept, Probed, Places

LEMMA InitInv == Init => RecreateInv
  BY DEF Init, RecreateInv, HostInv, Progress, WasKept, Probed, Idle, Places, Release, Name

LEMMA NextInv == ASSUME RecreateInv, Next PROVE RecreateInv'
  <1> USE DEF RecreateInv, HostInv, Places, At, Goto, Fail
  <1>1. CASE StartDeploy
    <2>1. /\ cmd.pc = "idle" /\ minted < MaxRelease /\ minted' = minted + 1
          /\ config' \in Configs /\ cmd' = [Idle EXCEPT !.op = "deploy", !.pc = "stage",
                                                        !.id = minted', !.was = Survives]
          /\ UNCHANGED <<runtime, checked, eco, disk, current, boot>>
          /\ \E bad : faulty' = [faulty EXCEPT ![minted'] = bad]
      BY <1>1 DEF StartDeploy, files, host
    <2>2. /\ DOMAIN cmd' = DOMAIN Idle /\ cmd'.switched = FALSE /\ cmd'.pc = "stage"
          /\ cmd'.id = minted' /\ cmd'.was = Survives
      BY <2>1 DEF Idle
    <2>3. HostInv'
      <3>1. minted' \in Release /\ disk' \subseteq 1 .. minted' /\ minted' <= MaxRelease
        BY <2>1 DEF Release
      <3>2. config' \subseteq Name /\ "web" \in config'
        BY <2>1
      <3> QED
        <4>1. minted' \in Nat /\ DOMAIN eco' = Release /\ runtime' \in {"pm2", "watt"}
               /\ DOMAIN faulty' = Release
          BY <2>1
        <4>2. cmd'.switched \in BOOLEAN /\ cmd'.id = minted' /\ DOMAIN cmd' = DOMAIN Idle
          BY <2>2
        <4> HIDE DEF Places
        <4> QED
          BY <3>1, <3>2, <4>1, <4>2
    <2>4. Progress' /\ Probed'
      BY <2>2 DEF Progress, Probed
    <2>5. ASSUME NEW n \in Name, cmd'.was[n] # None PROVE Kept(n)'
      <3>1. n \in boot /\ Runnable(n, current) /\ cmd'.was[n] = current
        BY <2>2, <2>5 DEF Survives
      <3>2. current \in Release /\ current # minted'
        BY <2>1, <3>1 DEF Runnable, Release
      <3>3. faulty'[current] = faulty[current]
        BY <2>1, <3>2
      <3>4. Runnable(n, current)'
        BY <2>1, <3>1, <3>3 DEF Runnable
      <3> QED
        BY <2>1, <2>2, <3>1, <3>2, <3>4 DEF Kept, Bootable
    <2> QED
      BY <2>3, <2>4, <2>5 DEF WasKept
  <1>2. CASE Stage
    <2>1. /\ cmd.pc = "stage" /\ disk \subseteq disk' /\ disk' \subseteq disk \cup {cmd.id}
          /\ UNCHANGED <<minted, config, faulty, eco, current, boot, runtime>>
          /\ \/ cmd.id \in disk' /\ cmd' = [cmd EXCEPT !.pc = "switch", !.prev = current]
             \/ cmd' = [cmd EXCEPT !.pc = "revert"]
      BY <1>2 DEF Stage, input, host
    <2>2. /\ DOMAIN cmd' = DOMAIN Idle /\ UNCHANGED <<cmd.switched, cmd.lost, cmd.id, cmd.was>>
          /\ \/ cmd'.pc = "switch" /\ cmd'.prev = current /\ cmd.id \in disk'
             \/ cmd'.pc = "revert"
      BY <2>1 DEF Idle
    <2>3. HostInv' /\ Progress' /\ Probed'
      BY <2>1, <2>2 DEF Progress, Probed, Release
    <2>4. WasKept'
      BY <2>1, <2>2 DEF WasKept, Kept, Progress, Runnable, Bootable, Dropped
    <2> QED
      BY <2>3, <2>4
  <1>3. CASE Switch
    <2>1. /\ cmd.pc = "switch"
          /\ UNCHANGED <<minted, config, faulty, eco, disk, boot, runtime>>
          /\ \/ current' = cmd.id /\ cmd' = [cmd EXCEPT !.pc = "files", !.switched = TRUE]
             \/ current' = current /\ cmd' = [cmd EXCEPT !.pc = "revert"]
             \/ cmd' = [cmd EXCEPT !.pc = "revert", !.lost = TRUE]
      BY <1>3 DEF Switch, input, host
    <2>2. /\ DOMAIN cmd' = DOMAIN Idle /\ UNCHANGED <<cmd.prev, cmd.id, cmd.was>>
          /\ \/ /\ current' = cmd.id /\ cmd'.pc = "files" /\ cmd'.switched = TRUE
                /\ cmd'.lost = cmd.lost
             \/ /\ current' = current /\ cmd'.pc = "revert" /\ cmd'.switched = cmd.switched
                /\ cmd'.lost = cmd.lost
             \/ cmd'.lost = TRUE /\ cmd'.pc = "revert" /\ cmd'.switched = cmd.switched
      BY <2>1 DEF Idle
    <2>3. HostInv' /\ Progress' /\ Probed'
      BY <2>1, <2>2 DEF Progress, Probed
    <2>4. WasKept'
      BY <2>1, <2>2 DEF WasKept, Kept, Progress, Runnable, Bootable, Dropped
    <2> QED
      BY <2>3, <2>4
  \* Steps of a deploy that leave the symlink alone.
  <1>4. ASSUME cmd.pc \in {"files", "start", "health", "record", "post"},
               UNCHANGED <<minted, config, faulty, current, runtime, disk>>,
               DOMAIN eco' = Release, NEW l, cmd' = [cmd EXCEPT !.pc = l],
               l \in {"files", "start", "health", "record", "post", "revert"},
               \A r \in Release \ {cmd.id} : eco'[r] = eco[r],
               \A n \in Name : Bootable(n) => Bootable(n)'
        PROVE  /\ HostInv' /\ WasKept' /\ cmd'.pc = l
               /\ UNCHANGED <<cmd.switched, cmd.lost, cmd.prev, cmd.id, cmd.was>>
    <2>1. /\ DOMAIN cmd' = DOMAIN Idle /\ cmd'.pc = l
          /\ UNCHANGED <<cmd.switched, cmd.lost, cmd.prev, cmd.id, cmd.was>>
      BY <1>4 DEF Idle
    <2>2. HostInv'
      BY <1>4, <2>1
    <2>3. WasKept'
      <3> SUFFICES ASSUME NEW n \in Name, cmd.was[n] # None, ~cmd.lost PROVE Kept(n)'
        BY <1>4, <2>1 DEF WasKept
      <3>1. Kept(n)
        <4>1. cmd.pc \in Places
          BY <1>4
        <4> QED
          BY <4>1 DEF WasKept
      <3>2. cmd.was[n] \in Release \ {cmd.id}
        <4>1. cmd.was[n] \in 1 .. minted /\ cmd.was[n] # cmd.id
          BY <3>1 DEF Kept, Runnable
        <4> QED
          BY <4>1 DEF Release
      <3>3. Runnable(n, cmd.was[n])'
        BY <1>4, <2>1, <3>1, <3>2 DEF Kept, Runnable
      <3>4. Bootable(n)'
        BY <1>4, <3>1 DEF Kept
      <3> QED
        BY <1>4, <2>1, <3>1, <3>2, <3>3, <3>4 DEF Kept
    <2> QED
      BY <2>1, <2>2, <2>3
  <1>5. CASE WriteFiles
    <2>1. /\ cmd.pc = "files" /\ UNCHANGED <<minted, config, faulty, disk, current, runtime>>
          /\ \/ /\ eco' = [eco EXCEPT ![cmd.id] = config] /\ boot' = boot \cup Enables
                /\ cmd' = [cmd EXCEPT !.pc = "start"] \/ cmd' = [cmd EXCEPT !.pc = "revert"]
             \/ UNCHANGED <<eco, boot>> /\ cmd' = [cmd EXCEPT !.pc = "revert"]
      BY <1>5 DEF WriteFiles, input
    <2>2. PICK l \in {"start", "revert"} : cmd' = [cmd EXCEPT !.pc = l]
      BY <2>1
    <2>3. \A n \in Name : Bootable(n) => Bootable(n)'
      BY <2>1 DEF Bootable, Dropped, Enables
    <2>4. /\ HostInv' /\ WasKept' /\ cmd'.pc = l
          /\ UNCHANGED <<cmd.switched, cmd.prev, cmd.id, cmd.was>>
      BY <1>4, <2>1, <2>2, <2>3
    <2>5. l = "start" => eco'[cmd.id] = config /\ (runtime = "watt" => config \subseteq boot')
      <3>1. l = "start" => eco' = [eco EXCEPT ![cmd.id] = config] /\ boot' = boot \cup Enables
        <4>1. [cmd EXCEPT !.pc = "revert"].pc = "revert"
          BY DEF Idle
        <4> QED
          BY <2>1, <2>4, <4>1
      <3> QED
        BY <2>1, <3>1 DEF Enables
    <2>6. Progress' /\ Probed'
      BY <2>1, <2>4, <2>5 DEF Progress, Probed
    <2> QED
      BY <2>4, <2>6
  <1>6. CASE StartRecreate \/ StartWatt
    <2>1. /\ cmd.pc = "start"
          /\ UNCHANGED <<minted, config, disk, eco, current, runtime, checked, faulty>>
      BY <1>6 DEF StartRecreate, StartWatt, input, files
    <2>2. eco[cmd.id] = config /\ current = cmd.id
      BY <2>1 DEF Progress
    <2>3. ASSUME \A n \in Name : Bootable(n) => Bootable(n)', cmd' = [cmd EXCEPT !.pc = "revert"]
          PROVE  RecreateInv'
      <3>1. HostInv' /\ WasKept' /\ cmd'.pc = "revert"
        BY <1>4, <2>1, <2>3
      <3> QED
        BY <3>1 DEF Progress, Probed
    <2>4. ASSUME config \subseteq boot', cmd' = [cmd EXCEPT !.pc = "health"],
                 \A n \in Name : Bootable(n) => Bootable(n)',
                 \A n \in config : \E b \in BOOLEAN : proc'[n] = Launched(n, current, b)
          PROVE  RecreateInv'
      <3>1. /\ HostInv' /\ WasKept' /\ cmd'.pc = "health"
            /\ UNCHANGED <<cmd.switched, cmd.prev, cmd.id, cmd.was>>
        BY <1>4, <2>1, <2>4
      <3>2. Progress'
        BY <2>1, <2>4, <3>1 DEF Progress
      <3>3. \A n \in config : Fresh(n)'
        BY <2>1, <2>4, LaunchedIsFresh
      <3>4. Probed'
        BY <2>1, <3>1, <3>3 DEF Probed, Ready
      <3> QED
        BY <3>1, <3>2, <3>4
    <2>5. CASE StartRecreate
      <3>1. runtime = "pm2"
        BY <2>5 DEF StartRecreate
      <3>2. CASE UNCHANGED boot /\ cmd' = [cmd EXCEPT !.pc = "revert"]
        BY <2>1, <2>3, <3>2 DEF Bootable, Dropped
      <3>3. ASSUME NEW left, proc' = Started(left), boot' = Saved(proc'),
                   cmd' = [cmd EXCEPT !.pc = "health"] \/ cmd' = [cmd EXCEPT !.pc = "revert"]
            PROVE  RecreateInv'
        <4>1. \A n \in config : \E b \in BOOLEAN : proc'[n] = Launched(n, current, b)
          BY <2>2, <3>3 DEF Started, Counts
        <4>2. \A n \in config : proc'[n].state # "absent"
          <5>1. \A n \in config, b \in BOOLEAN : Launched(n, current, b).state # "absent"
            BY DEF Launched
          <5> QED
            BY <4>1, <5>1
        <4>3. config \subseteq boot'
          BY <3>3, <4>2 DEF Saved
        <4>4. \A n \in Name : Bootable(n)'
          BY <2>1, <3>1, <4>3 DEF Bootable, Dropped
        <4> QED
          BY <2>3, <2>4, <3>3, <4>1, <4>3, <4>4
      <3> QED
        BY <2>5, <3>2, <3>3 DEF StartRecreate
    <2>6. CASE StartWatt
      <3>1. runtime = "watt" /\ UNCHANGED boot
        BY <2>6 DEF StartWatt
      <3>2. \A n \in Name : Bootable(n) => Bootable(n)'
        BY <2>1, <3>1 DEF Bootable, Dropped
      <3>3. CASE cmd' = [cmd EXCEPT !.pc = "revert"]
        BY <2>3, <3>2, <3>3
      <3>4. CASE proc' \in Restarted(eco[cmd.id]) /\ cmd' = [cmd EXCEPT !.pc = "health"]
        <4>1. \A n \in config : \E b \in BOOLEAN : proc'[n] = Launched(n, current, b)
          BY <2>2, <3>4, RestartedLaunches
        <4>2. config \subseteq boot'
          BY <2>1, <3>1 DEF Progress
        <4> QED
          BY <2>4, <3>2, <3>4, <4>1, <4>2
      <3> QED
        BY <2>6, <3>3, <3>4 DEF StartWatt
    <2> QED
      BY <1>6, <2>5, <2>6
  <1>7. CASE HealthCheck
    <2>1. /\ cmd.pc = "health"
          /\ UNCHANGED <<config, runtime, checked, faulty, disk, eco, current, proc, boot, legacy,
                        minted>>
          /\ \/ Healthy /\ cmd' = [cmd EXCEPT !.pc = "record"]
             \/ cmd' = [cmd EXCEPT !.pc = "revert"]
      BY <1>7 DEF HealthCheck, input, files, host
    <2>4. \A n \in Name : Bootable(n) => Bootable(n)'
      BY <2>1 DEF Bootable, Dropped
    <2>2. CASE Healthy /\ cmd' = [cmd EXCEPT !.pc = "record"]
      <3>1. /\ HostInv' /\ WasKept' /\ cmd'.pc = "record"
            /\ UNCHANGED <<cmd.switched, cmd.prev, cmd.id, cmd.was>>
        BY <1>4, <2>1, <2>2, <2>4
      <3>2. Progress'
        BY <2>1, <3>1 DEF Progress
      <3>3. checked => AllGood
        BY <2>1, <2>2, HealthyIsGood DEF Probed
      <3>4. Probed'
        BY <2>1, <3>1, <3>3 DEF Probed, AllGood, Good
      <3> QED
        BY <3>1, <3>2, <3>4
    <2>3. CASE cmd' = [cmd EXCEPT !.pc = "revert"]
      <3>1. HostInv' /\ WasKept' /\ cmd'.pc = "revert"
        BY <1>4, <2>1, <2>3, <2>4
      <3> QED
        BY <3>1 DEF Progress, Probed
    <2> QED
      BY <2>1, <2>2, <2>3
  <1>8. CASE RecordSuccess
    <2>1. /\ cmd.pc = "record"
          /\ UNCHANGED <<config, runtime, checked, faulty, disk, eco, current, proc, boot, legacy,
                        minted>>
          /\ \E l \in {"post", "revert"} : cmd' = [cmd EXCEPT !.pc = l]
      BY <1>8 DEF RecordSuccess, input, files, host
    <2>2. PICK l \in {"post", "revert"} : cmd' = [cmd EXCEPT !.pc = l]
      BY <2>1
    <2>3. /\ HostInv' /\ WasKept' /\ cmd'.pc = l
          /\ UNCHANGED <<cmd.switched, cmd.prev, cmd.id, cmd.was>>
      BY <1>4, <2>1, <2>2 DEF Bootable, Dropped
    <2>4. Progress' /\ Probed'
      BY <2>1, <2>3 DEF Progress, Probed, AllGood, Good
    <2> QED
      BY <2>3, <2>4
  <1>9. CASE Finish
    <2>1. cmd.pc = "post" /\ UNCHANGED <<input, eco, current, host, minted>>
      BY <1>9 DEF Finish
    <2>2. CASE disk' = disk \ OldReleases /\ cmd' = Idle
      BY <2>1, <2>2, Aside DEF Idle, input
    <2>3. CASE UNCHANGED disk /\ cmd' = [cmd EXCEPT !.pc = "revert"]
      <3>1. HostInv' /\ WasKept' /\ cmd'.pc = "revert"
        BY <1>4, <2>1, <2>3 DEF input, host, Bootable, Dropped
      <3> QED
        BY <3>1 DEF Progress, Probed
    <2> QED
      BY <1>9, <2>2, <2>3 DEF Finish
  <1>10. CASE Revert
    <2>1. /\ cmd.pc = "revert" /\ UNCHANGED <<input, eco, disk, host, minted>>
          /\ \/ /\ current' = IF cmd.switched /\ cmd.prev # None THEN cmd.prev ELSE current
                /\ cmd' = [cmd EXCEPT !.pc = "recordFailed"]
             \/ cmd' = [cmd EXCEPT !.pc = "recordFailed", !.lost = TRUE]
      BY <1>10 DEF Revert, Reverts
    <2>2. /\ DOMAIN cmd' = DOMAIN Idle /\ UNCHANGED <<cmd.switched, cmd.prev, cmd.id, cmd.was>>
          /\ cmd'.pc = "recordFailed"
          /\ ~cmd'.lost => /\ ~cmd.lost
                           /\ current' = IF cmd.switched /\ cmd.prev # None
                                         THEN cmd.prev ELSE current
      BY <2>1 DEF Idle
    <2>3. HostInv' /\ Progress' /\ Probed'
      BY <2>1, <2>2 DEF Progress, Probed, input
    <2>4. ASSUME NEW n \in Name, cmd.was[n] # None, ~cmd'.lost PROVE Kept(n)'
      <3>1. Kept(n)
        BY <2>1, <2>2, <2>4 DEF WasKept
      <3>2. current' = cmd.was[n]
        BY <2>1, <2>2, <2>4, <3>1 DEF Kept
      <3> QED
        BY <2>1, <2>2, <3>1, <3>2 DEF Kept, Runnable, Bootable, Dropped, host, input
    <2> QED
      BY <2>1, <2>2, <2>3, <2>4 DEF WasKept, input
  <1>11. CASE RecordFailed \/ RollbackHealth \/ ClientDies
    <2>1. UNCHANGED <<input, files, host, minted>> /\ cmd' = Idle
      BY <1>11 DEF RecordFailed, RollbackHealth, ClientDies
    <2> QED
      BY <2>1, Aside DEF Idle, input, files
  <1>12. ASSUME NEW op, NEW r, cmd' = [Idle EXCEPT !.op = op, !.pc = "rbSwitch", !.id = r],
                UNCHANGED <<input, files, minted>>
         PROVE  RecreateInv'
    <2>1. DOMAIN cmd' = DOMAIN Idle /\ cmd'.switched = FALSE /\ cmd'.pc = "rbSwitch"
      BY <1>12 DEF Idle
    <2> QED
      BY <1>12, <2>1, Aside DEF input, files
  <1>13. ASSUME NEW steps, StartRollback(steps) PROVE RecreateInv'
    BY <1>12, <1>13 DEF StartRollback
  <1>14. ASSUME NEW r, StartMonitorRollback(r) PROVE RecreateInv'
    BY <1>12, <1>14 DEF StartMonitorRollback
  <1>15. CASE RollbackSwitch
    <2>1. /\ UNCHANGED <<input, eco, disk, minted>>
          /\ cmd' = [cmd EXCEPT !.pc = "rbReload"] \/ cmd' = Idle
      BY <1>15 DEF RollbackSwitch
    <2>2. CASE cmd' = [cmd EXCEPT !.pc = "rbReload"]
      <3>1. DOMAIN cmd' = DOMAIN Idle /\ cmd'.switched = cmd.switched /\ cmd'.pc = "rbReload"
        BY <2>2 DEF Idle
      <3> QED
        BY <2>1, <3>1, Aside DEF input
    <2>3. CASE cmd' = Idle
      BY <2>1, <2>3, Aside DEF Idle, input
    <2> QED
      BY <2>1, <2>2, <2>3
  <1>16. CASE RollbackReload
    <2>1. UNCHANGED <<input, files, boot, minted>>
      BY <1>16 DEF RollbackReload
    <2>2. CASE cmd' = Idle
      BY <2>1, <2>2, Aside DEF Idle, input, files
    <2>3. ASSUME NEW names \in Reloads, runtime = "watt" => config \subseteq boot,
                 proc' \in Restarted(names), cmd' = [cmd EXCEPT !.pc = "rbHealth"]
          PROVE  RecreateInv'
      <3>1. DOMAIN cmd' = DOMAIN Idle /\ cmd'.switched = cmd.switched /\ cmd'.pc = "rbHealth"
        BY <2>3 DEF Idle
      <3>2. ASSUME NoFallback PROVE Ready'
        <4>1. \A n \in names \cap Name : Fresh(n)'
          BY <2>1, <2>3, RestartedLaunches, LaunchedIsFresh DEF input, files
        <4>2. CASE config \cap eco[current] \subseteq names
          BY <2>1, <4>1, <4>2 DEF Ready, input, files
        <4>3. CASE ~HasFile /\ runtime = "pm2" /\ config \cap eco[current] # {}
          <5>1. current \notin disk
            BY <4>3 DEF HasFile
          <5>2. "web" \in Present => "web" \in names
            BY <2>3, <4>3 DEF Reloads, Targets
          <5>3. CASE "web" \in names
            <6>1. PICK b \in BOOLEAN : proc'["web"] = Launched("web", current, b)
              BY <2>3, <5>3, RestartedLaunches DEF Name
            <6> QED
              BY <5>1, <6>1 DEF Ready, Launched, Runnable
          <5>4. CASE "web" \notin names
            <6>1. proc'["web"] = proc["web"]
              BY <2>3, <5>4 DEF Restarted, Name
            <6> QED
              BY <5>2, <5>4, <6>1 DEF Ready, Present, Name
          <5> QED
            BY <5>3, <5>4
        <4>4. CASE HasFile
          <5>1. <<minted, "ecosystem">> \notin FailAt
            BY <3>2 DEF NoFallback
          <5> QED
            BY <2>3, <4>2, <4>4, <5>1 DEF Reloads, May
        <4>5. CASE runtime = "watt"
          BY <2>3, <4>2, <4>5 DEF Reloads, HasFile, Targets
        <4> QED
          BY <4>2, <4>3, <4>4, <4>5
      <3> QED
        BY <2>1, <3>1, <3>2, Aside DEF input, files
    <2>4. CASE cmd' # Idle
      <3>1. /\ runtime = "watt" => config \subseteq boot
            /\ \E names \in Reloads : proc' \in Restarted(names)
            /\ IF cmd.op = "rollback" THEN cmd' = [cmd EXCEPT !.pc = "rbHealth"] ELSE cmd' = Idle
        BY <1>16, <2>4 DEF RollbackReload
      <3>2. cmd' = [cmd EXCEPT !.pc = "rbHealth"]
        BY <2>4, <3>1
      <3> QED
        BY <2>3, <3>1, <3>2
    <2> QED
      BY <2>2, <2>4
  <1>17. CASE Restart \/ Stop \/ Reboot \/ \E n \in Name : ProcessDies(n)
    <2>1. cmd.pc = "idle" /\ UNCHANGED <<input, files, minted, cmd>>
      BY <1>17 DEF Restart, Stop, Reboot, ProcessDies, Event
    <2> QED
      BY <2>1, Aside DEF input, files
  <1> QED
    BY <1>1, <1>2, <1>3, <1>5, <1>6, <1>7, <1>8, <1>9, <1>10, <1>11, <1>13, <1>14, <1>15,
       <1>16, <1>17
    DEF Next, Deploy, Rollback

LEMMA StutterInv == ASSUME RecreateInv, UNCHANGED vars PROVE RecreateInv'
  BY DEF vars, input, files, host, RecreateInv, HostInv, Progress, WasKept, Kept, Bootable,
         Dropped, Runnable, Probed, Ready, AllGood, Fresh, Good

THEOREM Invariant == Spec => []RecreateInv
  <1> QED
    BY InitInv, NextInv, StutterInv, PTL DEF Spec

\* A deploy or a rollback that passed its health check runs the release `current`
\* names, in every process that release declares, whatever was left running before; of
\* the web process only if no old process answers on its port. The reload by name must
\* not have stood in for a failed reload of the release's ecosystem file.
THEOREM SuccessRuns == ASSUME NoFallback PROVE Spec => SuccessRunsCurrent
  <1>1. RecreateInv /\ [Next]_vars =>
          [checked /\ Succeeds =>
             \A n \in config \cap eco[current] : (n = "web" /\ legacy) \/ Good(n)]_vars
    <2> SUFFICES ASSUME RecreateInv, checked, Finish \/ (RollbackHealth /\ Healthy)
                 PROVE  AllGood
      BY DEF AllGood, Succeeds
    <2>1. CASE Finish
      BY <2>1 DEF Finish, At, RecreateInv, Probed
    <2>2. CASE RollbackHealth /\ Healthy
      BY <2>2, HealthyIsGood DEF RollbackHealth, At, RecreateInv, Probed, HostInv
    <2> QED
      BY <2>1, <2>2
  <1> QED
    BY <1>1, Invariant, PTL DEF Spec, SuccessRunsCurrent

\* After a successful deploy a reboot starts every declared process in the new release:
\* `pm2 save` and `systemctl enable` come before the end of every deploy.
THEOREM DeploySurvivesReboot == Spec => RebootRestoresDeploy
  <1>1. RecreateInv /\ [Next]_vars =>
          [Finish /\ cmd'.pc = "idle" => \A n \in config : Survives[n] = cmd.id]_vars
    <2> SUFFICES ASSUME RecreateInv, Finish, NEW n \in config PROVE Survives[n] = cmd.id
      OBVIOUS
    <2>1. /\ current = cmd.id /\ cmd.id \in disk /\ eco[cmd.id] = config /\ n \in boot
          /\ n \in Name
      BY DEF Finish, At, RecreateInv, Progress, HostInv
    <2> QED
      BY <2>1 DEF Survives, Runnable
  <1> QED
    BY <1>1, Invariant, PTL DEF Spec, RebootRestoresDeploy

\* A deploy that fails, before or after it switched, stopped, started and saved, leaves
\* the next boot as it was, as long as its catch block can still switch `current` back:
\* what was to start starts in its release, workers that the new config dropped excepted.
THEOREM FailureSurvivesReboot == Spec => FailedDeployRestores
  <1>1. RecreateInv /\ [Next]_vars =>
          [RecordFailed /\ ~cmd.lost =>
             \A n \in Name : cmd.was[n] # None => Survives[n] = cmd.was[n] \/ Dropped(n)]_vars
    <2> SUFFICES ASSUME RecreateInv, RecordFailed, ~cmd.lost,
                        NEW n \in Name, cmd.was[n] # None, ~Dropped(n)
                 PROVE  Survives[n] = cmd.was[n]
      OBVIOUS
    <2>1. Kept(n) /\ cmd.pc = "recordFailed"
      BY DEF RecordFailed, At, RecreateInv, WasKept, Places
    <2> QED
      BY <2>1 DEF Kept, Bootable, Survives
  <1> QED
    BY <1>1, Invariant, PTL DEF Spec, FailedDeployRestores
=============================================================================
