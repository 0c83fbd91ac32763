-------------------------- MODULE BlueGreenProofs --------------------------
(***************************************************************************)
(* Theorems about BlueGreen, for every number of releases, keepReleases,   *)
(* retention, set of outcomes and set of faults. The invariants build on   *)
(* one another: TypeInv; RecordInv and SessionInv (without overlapping     *)
(* rollbacks); TrafficInv, DiskInv, RestoreInv and ServedInv (when moreover *)
(* nothing fails inside the flip window). The last part proves that        *)
(* BlueGreen implements TrafficSwitch.                                     *)
(***************************************************************************)
EXTENDS BlueGreen, FiniteSetTheorems, TLAPS

USE BoundAssumption, KeepAssumption, ModeAssumption, FaultAssumption
    DEF Release, NoRelease, LegacyRelease, Colors, NoColor

-----------------------------------------------------------------------------
(* Type correctness. *)

LEMMA StateTypes ==
    /\ NoState \in States
    /\ NoProc \in Procs
    /\ NoDeploy \in Deploys
    /\ NoRollback \in Rollbacks
  BY DEF NoState, NoProc, NoDeploy, NoRollback, States, Procs, Deploys,
         Rollbacks, DeploySteps, BodySteps, RollSteps, AllConds

LEMMA OtherColorType == \A c \in Colors : otherColor(c) \in Colors /\ otherColor(c) # c
  BY DEF otherColor

LEMMA WithReleaseType ==
    ASSUME NEW st \in States, NEW c \in Colors \cup {NoColor},
           NEW r \in Release \cup {NoRelease}
    PROVE  withRelease(st, c, r) \in States
  BY DEF withRelease, States

\* Moving a session to another step keeps its type, and its release or target.
LEMMA GotoType ==
    ASSUME d \in Deploys, NEW pc \in DeploySteps, Goto(pc)
    PROVE  d' \in Deploys /\ d'.rel = d.rel
  BY DEF Goto, Deploys

LEMMA RollToType ==
    ASSUME rb \in Rollbacks, NEW pc \in RollSteps \cup {"idle"}, RollTo(pc)
    PROVE  rb' \in Rollbacks /\ (rb'.pc # "idle" => rb'.to = rb.to)
  BY StateTypes DEF RollTo, Rollbacks, NoRollback

LEMMA StartCurrentType ==
    ASSUME proc \in [Colors -> Procs], startCurrent
    PROVE  proc' \in [Colors -> Procs]
  BY DEF startCurrent, Startable, StartsOn, Procs, AllConds

\* A session that runs has a release, or a colour, to work on: what makes
\* TypeOK inductive.
TypeInv == /\ TypeOK
           /\ d.pc # "idle" => d.rel \in Release
           /\ rb.pc # "idle" => rb.to \in Colors

LEMMA InitTypeInv == Init => TypeInv
  BY StateTypes DEF Init, TypeInv, TypeOK, Procs, NoDeploy, NoRollback

LEMMA DeployTypeInv == TypeInv /\ (Acquire \/ DeployStep \/ DeployCrash) => TypeInv'
  <1> SUFFICES ASSUME TypeInv, Acquire \/ DeployStep \/ DeployCrash
               PROVE  TypeInv'
    OBVIOUS
  <1> USE StateTypes DEF TypeInv, TypeOK, files, procs, caddy
  <1>1. CASE Acquire
    <2>1. minted + 1 \in Release /\ minted' \in 0 .. MaxRelease
      BY <1>1 DEF Acquire
    <2>2. d' \in Deploys /\ d'.rel \in Release
      BY <1>1, <2>1 DEF Acquire, NoDeploy, Deploys, DeploySteps, BodySteps
    <2> QED
      BY <1>1, <2>1, <2>2 DEF Acquire
  <1>2. CASE Create
    <2>1. d' \in Deploys /\ d'.rel \in Release
      BY <1>2 DEF Create, Deploys, DeploySteps, BodySteps
    <2> QED
      BY <1>2, <2>1 DEF Create
  <1>3. CASE Stage
    BY <1>3, GotoType DEF Stage, Deploys, DeploySteps, BodySteps
  <1>4. CASE SwitchSymlink
    <2>1. d' \in Deploys /\ d'.rel \in Release
      BY <1>4 DEF SwitchSymlink, Deploys, DeploySteps, BodySteps
    <2> QED
      BY <1>4, <2>1 DEF SwitchSymlink
  <1>5. CASE ResolveTarget
    <2>1. deployState.active \in Colors \cup {NoColor}
      BY DEF States
    <2>2. resolveTarget(deployState) \in Colors
      BY <2>1 DEF resolveTarget, otherColor
    <2>3. d' \in Deploys /\ d'.rel \in Release
      BY <1>5, <2>1, <2>2 DEF ResolveTarget, Deploys, DeploySteps, BodySteps
    <2> QED
      BY <1>5, <2>3 DEF ResolveTarget
  <1>6. CASE WriteEcosystem
    <2>1. d' \in Deploys /\ d'.rel \in Release
      BY <1>6, GotoType DEF WriteEcosystem, DeploySteps, BodySteps
    <2>2. eco' \in [Release -> Colors \cup {NoColor}]
      BY <1>6 DEF WriteEcosystem, Deploys
    <2> QED
      BY <1>6, <2>1, <2>2 DEF WriteEcosystem
  <1>7. CASE ReapTarget
    <2>1. d' \in Deploys /\ d'.rel \in Release
      BY <1>7, GotoType DEF ReapTarget, DeploySteps, BodySteps
    <2>2. proc' \in [Colors -> Procs]
      BY <1>7 DEF ReapTarget
    <2> QED
      BY <1>7, <2>1, <2>2 DEF ReapTarget
  <1>8. CASE Boot
    BY <1>8, GotoType, StartCurrentType DEF Boot, Deploys, DeploySteps, BodySteps
  <1>9. CASE HealthCheck
    BY <1>9, GotoType DEF HealthCheck, Deploys, DeploySteps, BodySteps
  <1>10. CASE ReloadWorkers
    BY <1>10, GotoType DEF ReloadWorkers, Deploys, DeploySteps, BodySteps
  <1>11. CASE ConfigureBackend
    BY <1>11, GotoType DEF ConfigureBackend, Deploys, DeploySteps, BodySteps
  <1>12. CASE ReloadCaddy
    BY <1>12 DEF ReloadCaddy, Deploys, DeploySteps, BodySteps, States
  <1>13. CASE WriteDeployState
    <2>1. d' \in Deploys /\ d'.rel \in Release
      BY <1>13, GotoType DEF WriteDeployState, DeploySteps, BodySteps
    <2>2. deployState' \in States
      BY <1>13, WithReleaseType DEF WriteDeployState, Deploys
    <2> QED
      BY <1>13, <2>1, <2>2 DEF WriteDeployState
  <1>14. CASE TruncateDeployState
    BY <1>14, GotoType DEF TruncateDeployState, Deploys, DeploySteps, BodySteps
  <1>15. CASE AfterTrafficSwitch
    <2>1. d' \in Deploys /\ d'.rel \in Release
      BY <1>15, GotoType DEF AfterTrafficSwitch, DeploySteps, BodySteps
    <2>2. proc' \in [Colors -> Procs] /\ legacy' \in BOOLEAN
      BY <1>15 DEF AfterTrafficSwitch
    <2> QED
      BY <1>15, <2>1, <2>2 DEF AfterTrafficSwitch
  <1>16. CASE RecordSuccess
    BY <1>16, GotoType DEF RecordSuccess, Deploys, DeploySteps, BodySteps
  <1>17. CASE PostDeploy
    BY <1>17, GotoType DEF PostDeploy, Deploys, DeploySteps, BodySteps
  <1>18. CASE CleanupOldReleases
    <2>1. d' \in Deploys /\ d'.rel \in Release
      BY <1>18, GotoType DEF CleanupOldReleases, DeploySteps, BodySteps
    <2>2. onDisk' \subseteq Release
      BY <1>18 DEF CleanupOldReleases
    <2>3. eco' \in [Release -> Colors \cup {NoColor}]
      BY <1>18 DEF CleanupOldReleases
    <2> QED
      BY <1>18, <2>1, <2>2, <2>3 DEF CleanupOldReleases
  <1>19. CASE CommandFails
    BY <1>19, GotoType DEF CommandFails, Deploys, DeploySteps, BodySteps
  <1>20. CASE Revert
    BY <1>20, GotoType DEF Revert, Deploys, DeploySteps, BodySteps, RevertsSymlink
  <1>21. CASE RecordFailed
    BY <1>21, GotoType DEF RecordFailed, Deploys, DeploySteps, BodySteps
  <1>24. CASE TruncateHistory
    BY <1>24, GotoType DEF TruncateHistory, Deploys, DeploySteps, BodySteps
  <1>22. CASE Unlock
    BY <1>22 DEF Unlock, NoDeploy, LockAfterDeploy
  <1>23. CASE DeployCrash
    BY <1>23 DEF DeployCrash, NoDeploy
  <1> QED
    BY <1>1, <1>2, <1>3, <1>4, <1>5, <1>6, <1>7, <1>8, <1>9, <1>10, <1>11,
       <1>12, <1>13, <1>14, <1>15, <1>16, <1>17, <1>18, <1>19, <1>20, <1>21,
       <1>22, <1>23, <1>24
       DEF DeployStep

LEMMA RollTypeInv == TypeInv /\ (StartRollback \/ RollStep \/ RollCrash) => TypeInv'
  <1> SUFFICES ASSUME TypeInv, StartRollback \/ RollStep \/ RollCrash
               PROVE  TypeInv'
    OBVIOUS
  <1> USE StateTypes DEF TypeInv, TypeOK, files, procs, caddy
  <1>1. CASE StartRollback
    BY <1>1 DEF StartRollback, Rollbacks, RollSteps, States, otherColor
  <1>2. CASE RollSwitchSymlink
    BY <1>2 DEF RollSwitchSymlink, Rollbacks, RollSteps, States
  <1>3. CASE RollBoot
    BY <1>3, RollToType, StartCurrentType DEF RollBoot, RollSteps
  <1>4. CASE RollHealthCheck
    BY <1>4, RollToType DEF RollHealthCheck, RollSteps
  <1>5. CASE RollUndo
    BY <1>5, RollToType DEF RollUndo, RollSteps
  <1>6. CASE RollRestore
    BY <1>6, RollToType DEF RollRestore, RollSteps, RestoredRelease, Rollbacks
  <1>7. CASE RollConfigure
    BY <1>7, RollToType DEF RollConfigure, RollSteps
  <1>8. CASE RollReload
    BY <1>8, RollToType DEF RollReload, RollSteps
  <1>9. CASE RollWriteState
    BY <1>9, RollToType DEF RollWriteState, RollSteps, Rollbacks, States
  <1>10. CASE RollTruncateState
    BY <1>10, RollToType DEF RollTruncateState, RollSteps
  <1>11. CASE RollReap
    BY <1>11, RollToType DEF RollReap, RollSteps
  <1>12. CASE RollCommandFails
    BY <1>12, RollToType DEF RollCommandFails, RollSteps
  <1>13. CASE RollCrash
    BY <1>13 DEF RollCrash, RollTo, NoRollback
  <1> QED
    BY <1>1, <1>2, <1>3, <1>4, <1>5, <1>6, <1>7, <1>8, <1>9, <1>10, <1>11,
       <1>12, <1>13
       DEF RollStep

LEMMA NextTypeInv == TypeInv /\ [Next]_vars => TypeInv'
  <1> SUFFICES ASSUME TypeInv, [Next]_vars
               PROVE  TypeInv'
    OBVIOUS
  <1>1. CASE Acquire \/ DeployStep \/ DeployCrash
    BY <1>1, DeployTypeInv
  <1>2. CASE StartRollback \/ RollStep \/ RollCrash
    BY <1>2, RollTypeInv
  <1>3. CASE ClearOrphan \/ OtherAppReloadsCaddy
    BY <1>3 DEF ClearOrphan, OtherAppReloadsCaddy, TypeInv, TypeOK, files,
                procs, caddy
  <1>4. CASE UNCHANGED vars
    BY <1>4 DEF vars, TypeInv, TypeOK, files, procs, caddy
  <1> QED
    BY <1>1, <1>2, <1>3, <1>4 DEF Next

\* Every variable keeps its type, whatever fails and however a rollback
\* overlaps a deploy.
THEOREM TypeCorrect == Spec => []TypeOK
  <1>1. TypeInv => TypeOK
    BY DEF TypeInv
  <1> QED
    BY <1>1, InitTypeInv, NextTypeInv, PTL DEF Spec

-----------------------------------------------------------------------------
(* What a session knows about the host, as long as rollbacks and deploys do   *)
(* not overlap: whatever fails, the state it read is the one on disk, and the *)
(* releases on disk start the colour they are recorded for.                   *)

\* A deploy or a rollback runs, never both.
Exclusive == d.pc = "idle" \/ rb.pc = "idle"
Staging == {"create", "stage", "switch", "resolve"}
Switching == {"eco", "reapTarget", "boot", "health", "workers", "configure",
              "reload", "writeState"}
\* Until it writes the state, a deploy's view of it is current, its release is
\* recorded for no colour, and the ecosystem file it wrote names its target.
DeploySession ==
    /\ d.pc # "idle" => d.rel <= minted
    /\ d.pc \in Staging \cup Switching =>
         \A c \in Colors : deployState.rel[c] # d.rel
    /\ d.pc \in Switching => /\ d.target = resolveTarget(deployState)
                             /\ d.prevColor = deployState.active
                             /\ d.carried = deployState
    /\ d.pc \in {"resolve", "eco", "reapTarget", "boot"} => current = d.rel
    /\ d.pc \in Switching \ {"eco"} => eco[d.rel] = d.target
\* A rollback turns to the other colour; its release is on disk when current
\* moves there, and current starts that colour when the rollback boots it.
RollSession ==
    /\ rb.pc \in RollSteps \ {"rbReap"} =>
         /\ rb.st = deployState /\ deployState.active \in Colors
         /\ rb.to = otherColor(deployState.active)
    /\ rb.pc = "rbSwitch" => deployState.rel[rb.to] \in onDisk
    /\ rb.pc = "rbBoot" => current \in Release /\ eco[current] = rb.to
RecordInv == /\ Exclusive
             /\ DeploySession
             /\ RollSession
             /\ \A c \in Colors : deployState.rel[c] <= minted
             /\ RecordedReleaseLaunchesColour

\* Moving on leaves the rest of the session's record alone.
LEMMA GotoKeeps ==
    ASSUME d \in Deploys, NEW pc, Goto(pc)
    PROVE  /\ d'.pc = pc /\ d'.rel = d.rel /\ d'.target = d.target
           /\ d'.prevColor = d.prevColor /\ d'.carried = d.carried
  BY DEF Goto, Deploys

LEMMA RollToKeeps ==
    ASSUME rb \in Rollbacks, NEW pc, RollTo(pc)
    PROVE  /\ rb'.pc = pc
           /\ pc # "idle" => rb'.to = rb.to /\ rb'.st = rb.st
  BY DEF RollTo, Rollbacks, NoRollback

LEMMA StateFacts ==
    ASSUME NEW st \in States
    PROVE  /\ st.active \in Colors \cup {NoColor}
           /\ \A c \in Colors : st.rel[c] \in Release \cup {NoRelease}
  BY DEF States

LEMMA WithReleaseFacts ==
    ASSUME NEW st \in States, NEW c \in Colors, NEW r
    PROVE  /\ withRelease(st, c, r).active = c
           /\ \A b \in Colors : withRelease(st, c, r).rel[b] =
                                  IF b = c THEN r ELSE st.rel[b]
  BY DEF withRelease, States

LEMMA TargetType ==
    \A st \in States : /\ resolveTarget(st) \in Colors
                       /\ resolveTarget(st) # st.active
  BY StateFacts DEF resolveTarget, otherColor

LEMMA NoStateFacts ==
    /\ NoState \in States /\ NoState.active = NoColor
    /\ \A c \in Colors : NoState.rel[c] = NoRelease
  BY StateTypes DEF NoState

LEMMA InitRecordInv == Init => RecordInv
  <1> SUFFICES ASSUME Init PROVE RecordInv
    OBVIOUS
  <1>1. d.pc = "idle" /\ rb.pc = "idle"
    BY DEF Init, NoDeploy, NoRollback
  <1>2. Exclusive /\ DeploySession /\ RollSession
    BY <1>1 DEF Exclusive, DeploySession, RollSession, Staging, Switching,
                RollSteps
  <1>3. minted \in Nat /\ onDisk \subseteq Release
    BY InitTypeInv DEF TypeInv, TypeOK
  <1>4. \A c \in Colors : deployState.rel[c] = NoRelease
    BY NoStateFacts DEF Init
  <1> QED
    BY <1>2, <1>3, <1>4 DEF RecordInv, RecordedReleaseLaunchesColour

LEMMA DeployRecordInv ==
    ASSUME ~Overlap, TypeInv, RecordInv, Acquire \/ DeployStep \/ DeployCrash
    PROVE  RecordInv'
  <1> USE GotoKeeps, StateFacts
      DEF TypeInv, TypeOK, RecordInv, Exclusive, DeploySession, RollSession,
          Staging, Switching, RecordedReleaseLaunchesColour, RollSteps, files,
          procs, caddy
  <1>1. CASE Acquire
    BY <1>1 DEF Acquire, NoDeploy
  <1>2. CASE Create
    BY <1>2 DEF Create, Deploys
  <1>3. CASE Stage
    BY <1>3 DEF Stage
  <1>4. CASE SwitchSymlink
    BY <1>4 DEF SwitchSymlink, Deploys
  <1>5. CASE ResolveTarget
    BY <1>5, TargetType DEF ResolveTarget, Deploys
  <1>6. CASE WriteEcosystem
    BY <1>6, TargetType DEF WriteEcosystem
  <1>7. CASE ReapTarget
    BY <1>7 DEF ReapTarget
  <1>8. CASE Boot
    BY <1>8 DEF Boot
  <1>9. CASE HealthCheck
    BY <1>9 DEF HealthCheck
  <1>10. CASE ReloadWorkers
    BY <1>10 DEF ReloadWorkers
  <1>11. CASE ConfigureBackend
    BY <1>11 DEF ConfigureBackend
  <1>12. CASE ReloadCaddy
    BY <1>12 DEF ReloadCaddy, Deploys
  <1>13. CASE WriteDeployState
    <2>1. /\ d.rel \in Release /\ d.rel <= minted /\ d.target \in Colors
          /\ eco[d.rel] = d.target
      BY <1>13, TargetType DEF WriteDeployState
    <2>2. \A c \in Colors : deployState'.rel[c] =
                            IF c = d.target THEN d.rel ELSE deployState.rel[c]
      BY <1>13, <2>1, WithReleaseFacts DEF WriteDeployState
    <2>3. d'.pc = "afterSwitch" /\ d'.rel = d.rel /\ rb.pc = "idle"
      BY <1>13 DEF WriteDeployState
    <2>4. \A c \in Colors : deployState'.rel[c] <= minted
      BY <2>1, <2>2
    <2>5. \A c \in Colors : deployState'.rel[c] \in onDisk =>
                            eco[deployState'.rel[c]] = c
      BY <2>1, <2>2
    <2> QED
      BY <1>13, <2>1, <2>3, <2>4, <2>5 DEF WriteDeployState
  <1>14. CASE TruncateDeployState
    BY <1>14, NoStateFacts DEF TruncateDeployState
  <1>15. CASE AfterTrafficSwitch
    BY <1>15 DEF AfterTrafficSwitch
  <1>16. CASE RecordSuccess
    BY <1>16 DEF RecordSuccess
  <1>17. CASE PostDeploy
    BY <1>17 DEF PostDeploy
  <1>18. CASE CleanupOldReleases
    <2>1. onDisk' \subseteq onDisk /\ \A r \in onDisk' : eco'[r] = eco[r]
      BY <1>18 DEF CleanupOldReleases
    <2> QED
      BY <1>18, <2>1 DEF CleanupOldReleases
  <1>19. CASE CommandFails
    BY <1>19 DEF CommandFails, BodySteps
  <1>20. CASE Revert
    BY <1>20 DEF Revert
  <1>21. CASE RecordFailed
    BY <1>21 DEF RecordFailed
  <1>22. CASE TruncateHistory
    BY <1>22 DEF TruncateHistory
  <1>23. CASE Unlock
    BY <1>23 DEF Unlock, NoDeploy
  <1>24. CASE DeployCrash
    BY <1>24 DEF DeployCrash, NoDeploy
  <1> QED
    BY <1>1, <1>2, <1>3, <1>4, <1>5, <1>6, <1>7, <1>8, <1>9, <1>10, <1>11,
       <1>12, <1>13, <1>14, <1>15, <1>16, <1>17, <1>18, <1>19, <1>20, <1>21,
       <1>22, <1>23, <1>24
       DEF DeployStep

LEMMA RollRecordInv ==
    ASSUME ~Overlap, TypeInv, RecordInv, StartRollback \/ RollStep \/ RollCrash
    PROVE  RecordInv'
  <1> USE RollToKeeps, StateFacts
      DEF TypeInv, TypeOK, RecordInv, Exclusive, DeploySession, RollSession,
          Staging, Switching, RecordedReleaseLaunchesColour, RollSteps, files,
          procs, caddy
  <1>1. CASE StartRollback
    BY <1>1 DEF StartRollback, otherColor
  <1>2. CASE RollSwitchSymlink
    BY <1>2 DEF RollSwitchSymlink, Rollbacks
  <1>3. CASE RollBoot
    BY <1>3 DEF RollBoot
  <1>4. CASE RollHealthCheck
    BY <1>4 DEF RollHealthCheck
  <1>5. CASE RollUndo
    BY <1>5 DEF RollUndo
  <1>6. CASE RollRestore
    BY <1>6 DEF RollRestore
  <1>7. CASE RollConfigure
    BY <1>7 DEF RollConfigure
  <1>8. CASE RollReload
    BY <1>8 DEF RollReload
  <1>9. CASE RollWriteState
    BY <1>9 DEF RollWriteState, States
  <1>10. CASE RollTruncateState
    BY <1>10 DEF RollTruncateState, NoState
  <1>11. CASE RollReap
    BY <1>11 DEF RollReap
  <1>12. CASE RollCommandFails
    BY <1>12 DEF RollCommandFails
  <1>13. CASE RollCrash
    BY <1>13 DEF RollCrash
  <1> QED
    BY <1>1, <1>2, <1>3, <1>4, <1>5, <1>6, <1>7, <1>8, <1>9, <1>10, <1>11,
       <1>12, <1>13
       DEF RollStep

LEMMA NextRecordInv ==
    ASSUME ~Overlap
    PROVE  TypeInv /\ RecordInv /\ [Next]_vars => RecordInv'
  <1> SUFFICES ASSUME TypeInv, RecordInv, [Next]_vars
               PROVE  RecordInv'
    OBVIOUS
  <1>1. CASE Acquire \/ DeployStep \/ DeployCrash
    BY <1>1, DeployRecordInv
  <1>2. CASE StartRollback \/ RollStep \/ RollCrash
    BY <1>2, RollRecordInv
  <1>3. CASE ClearOrphan \/ OtherAppReloadsCaddy \/ UNCHANGED vars
    BY <1>3 DEF ClearOrphan, OtherAppReloadsCaddy, vars, RecordInv, Exclusive,
                DeploySession, RollSession, RecordedReleaseLaunchesColour,
                files, procs, caddy
  <1> QED
    BY <1>1, <1>2, <1>3 DEF Next

\* A release recorded for a colour and still on disk starts that colour, whatever
\* fails, as long as no rollback overlaps a deploy.
THEOREM RecordedReleases ==
    ASSUME ~Overlap
    PROVE  Spec => []RecordedReleaseLaunchesColour
  <1>1. TypeInv /\ RecordInv => RecordedReleaseLaunchesColour
    BY DEF RecordInv
  <1> QED
    BY <1>1, InitTypeInv, NextTypeInv, InitRecordInv, NextRecordInv, PTL DEF Spec

-----------------------------------------------------------------------------
(* Traffic, when moreover nothing fails between the rewrite of the Caddy site *)
(* and the write of the colour state: outside that window Caddy, its site     *)
(* file and the recorded state agree, inside it both colours answer.          *)

CleanFlips == ~Overlap /\ FlipWindow \cap (FailAt \cup CrashAt) = {}

\* A command is inside its flip window; outside, site file, Caddy and recorded
\* state agree (before the first flip traffic goes to the legacy app, if any).
Flipping == d.pc \in FlipWindow \/ rb.pc \in FlipWindow
Agreed == /\ site = upstream
          /\ IF deployState.active = NoColor
             THEN upstream = NoColor \/ (upstream = "blue" /\ legacy)
             ELSE upstream = deployState.active
\* In the window the target has a running process, and site file, Caddy and state
\* have reached it in that order; what is reaped afterwards serves no traffic.
DeployFlip ==
    /\ d.pc \in {"workers", "configure", "reload", "writeState"} =>
         Online(proc[d.target])
    /\ d.pc \in {"reload", "writeState"} => site = d.target
    /\ d.pc = "writeState" => upstream = d.target
    /\ d.pc = "afterSwitch" =>
         /\ deployState.active = d.target /\ d.target \in Colors
         /\ d.target # d.prevColor
         /\ d.prevColor = NoColor => d.target = "green"
RollFlip ==
    /\ rb.pc \in {"rbConfigure", "rbReload", "rbWriteState"} =>
         Online(proc[rb.to])
    /\ rb.pc \in {"rbReload", "rbWriteState"} => site = rb.to
    /\ rb.pc = "rbWriteState" => upstream = rb.to
    /\ rb.pc = "rbReap" => /\ deployState.active = rb.to
                           /\ rb.st.active = otherColor(rb.to)
TrafficInv == /\ NeverDark /\ (Flipping \/ Agreed)
              /\ DeployFlip /\ RollFlip

\* The colour a deploy starts, or a rollback starts, is not the one Caddy uses,
\* unless the uncoloured process answers there.
LEMMA IdleTarget ==
    ASSUME deployState \in States, Agreed, upstream # NoColor
    PROVE  (upstream = "blue" /\ legacy) \/ upstream # resolveTarget(deployState)
  BY TargetType DEF Agreed

\* Who answers changes only with Caddy, the uncoloured process or that colour's.
LEMMA StillAnswering ==
    ASSUME upstream' = upstream, legacy' = legacy,
           (upstream = "blue" /\ legacy) \/ proc'[upstream] = proc[upstream]
    PROVE  Answering(upstream)' = Answering(upstream)
  BY DEF Answering

\* A running process of a colour means that somebody answers there.
LEMMA OnlineAnswers == \A c \in Colors : Online(proc[c]) => Online(Answering(c))
  BY DEF Answering, Online

LEMMA InitTrafficInv == Init => TrafficInv
  BY NoStateFacts DEF Init, TrafficInv, NeverDark, Answering, Online, Agreed,
     Flipping, DeployFlip, RollFlip, FlipWindow, NoDeploy, NoRollback

LEMMA DeployTrafficInv ==
    ASSUME CleanFlips, TypeInv, RecordInv, TrafficInv,
           Acquire \/ DeployStep \/ DeployCrash
    PROVE  TrafficInv'
  <1> USE GotoKeeps, StateFacts
      DEF TypeInv, TypeOK, RecordInv, Exclusive, DeploySession, Switching,
          CleanFlips, TrafficInv, Flipping, FlipWindow, DeployFlip, RollFlip,
          files, procs, caddy
  <1>1. CASE Acquire
    BY <1>1 DEF Acquire, NoDeploy, NeverDark, Answering, Agreed
  <1>2. CASE Create
    BY <1>2 DEF Create, Deploys, NeverDark, Answering, Agreed
  <1>3. CASE Stage
    BY <1>3 DEF Stage, NeverDark, Answering, Agreed
  <1>4. CASE SwitchSymlink
    BY <1>4 DEF SwitchSymlink, Deploys, NeverDark, Answering, Agreed
  <1>5. CASE ResolveTarget
    BY <1>5 DEF ResolveTarget, Deploys, NeverDark, Answering, Agreed
  <1>6. CASE WriteEcosystem
    BY <1>6 DEF WriteEcosystem, NeverDark, Answering, Agreed
  <1>7. CASE ReapTarget
    <2>1. Agreed /\ d.target = resolveTarget(deployState) /\ d.target \in Colors
      BY <1>7, TargetType DEF ReapTarget
    <2>2. upstream # NoColor => Answering(upstream)' = Answering(upstream)
      BY <1>7, <2>1, IdleTarget, StillAnswering DEF ReapTarget
    <2>3. NeverDark'
      BY <1>7, <2>2 DEF ReapTarget, NeverDark
    <2> QED
      BY <1>7, <2>1, <2>3 DEF ReapTarget, Agreed
  <1>8. CASE Boot
    <2>1. Agreed /\ d.target = resolveTarget(deployState) /\ d.target \in Colors
      BY <1>8, TargetType DEF Boot
    <2>2. eco[current] = d.target
      BY <1>8 DEF Boot
    <2>3. upstream # NoColor => Answering(upstream)' = Answering(upstream)
      BY <1>8, <2>1, <2>2, IdleTarget, StillAnswering DEF Boot, startCurrent
    <2>4. NeverDark'
      BY <1>8, <2>3 DEF Boot, NeverDark
    <2> QED
      BY <1>8, <2>1, <2>4 DEF Boot, Agreed
  <1>9. CASE HealthCheck
    BY <1>9 DEF HealthCheck, passesHealthCheck, Online, NeverDark, Answering,
                Agreed
  <1>10. CASE ReloadWorkers
    BY <1>10 DEF ReloadWorkers, NeverDark, Answering, Agreed
  <1>11. CASE ConfigureBackend
    BY <1>11 DEF ConfigureBackend, NeverDark, Answering, Agreed
  <1>12. CASE ReloadCaddy
    <2>1. /\ site = d.target /\ d.target \in Colors /\ Online(proc[d.target])
          /\ d.pc = "reload" /\ rb.pc = "idle"
      BY <1>12, TargetType DEF ReloadCaddy
    <2>2. d'.pc = "writeState" /\ d'.target = d.target
      BY <1>12 DEF ReloadCaddy, Deploys
    <2>3. upstream' = d.target /\ site' = site /\ UNCHANGED <<proc, legacy, rb>>
      BY <1>12, <2>1 DEF ReloadCaddy
    <2>4. NeverDark'
      BY <2>1, <2>3, OnlineAnswers DEF NeverDark, Answering
    <2> QED
      BY <2>1, <2>2, <2>3, <2>4
  <1>13. CASE WriteDeployState
    <2>1. /\ site = d.target /\ upstream = d.target /\ d.target \in Colors
          /\ d.target # d.prevColor /\ d.pc = "writeState" /\ rb.pc = "idle"
          /\ d.prevColor = NoColor => d.target = "green"
      BY <1>13, TargetType DEF WriteDeployState, resolveTarget
    <2>2. deployState'.active = d.target
      BY <1>13, <2>1, WithReleaseFacts DEF WriteDeployState
    <2>3. /\ d'.pc = "afterSwitch" /\ d'.target = d.target
          /\ d'.prevColor = d.prevColor
      BY <1>13 DEF WriteDeployState
    <2>4. UNCHANGED <<site, upstream, proc, legacy, rb>>
      BY <1>13 DEF WriteDeployState
    <2>5. NeverDark' /\ Agreed'
      BY <2>1, <2>2, <2>4 DEF NeverDark, Answering, Agreed
    <2> QED
      BY <2>1, <2>2, <2>3, <2>4, <2>5
  <1>14. CASE TruncateDeployState
    BY <1>14 DEF TruncateDeployState, NoState, NeverDark, Answering, Agreed
  <1>15. CASE AfterTrafficSwitch
    BY <1>15 DEF AfterTrafficSwitch, NeverDark, Answering, Agreed, ReapedColor
  <1>16. CASE RecordSuccess
    BY <1>16 DEF RecordSuccess, NeverDark, Answering, Agreed
  <1>17. CASE PostDeploy
    BY <1>17 DEF PostDeploy, NeverDark, Answering, Agreed
  <1>18. CASE CleanupOldReleases
    BY <1>18 DEF CleanupOldReleases, NeverDark, Answering, Agreed
  <1>19. CASE CommandFails
    BY <1>19 DEF CommandFails, BodySteps, NeverDark, Answering, Agreed
  <1>20. CASE Revert
    BY <1>20 DEF Revert, NeverDark, Answering, Agreed
  <1>21. CASE RecordFailed
    BY <1>21 DEF RecordFailed, NeverDark, Answering, Agreed
  <1>22. CASE TruncateHistory
    BY <1>22 DEF TruncateHistory, NeverDark, Answering, Agreed
  <1>23. CASE Unlock
    BY <1>23 DEF Unlock, NoDeploy, NeverDark, Answering, Agreed
  <1>24. CASE DeployCrash
    BY <1>24 DEF DeployCrash, NoDeploy, NeverDark, Answering, Agreed
  <1> QED
    BY <1>1, <1>2, <1>3, <1>4, <1>5, <1>6, <1>7, <1>8, <1>9, <1>10, <1>11,
       <1>12, <1>13, <1>14, <1>15, <1>16, <1>17, <1>18, <1>19, <1>20, <1>21,
       <1>22, <1>23, <1>24
       DEF DeployStep

LEMMA RollTrafficInv ==
    ASSUME CleanFlips, TypeInv, RecordInv, TrafficInv,
           StartRollback \/ RollStep \/ RollCrash
    PROVE  TrafficInv'
  <1> USE RollToKeeps, StateFacts
      DEF TypeInv, TypeOK, RecordInv, Exclusive, RollSession, RollSteps,
          CleanFlips, TrafficInv, Flipping, FlipWindow, DeployFlip, RollFlip,
          files, procs, caddy
  <1>1. CASE StartRollback
    BY <1>1 DEF StartRollback, otherColor, NeverDark, Answering, Agreed
  <1>2. CASE RollSwitchSymlink
    BY <1>2 DEF RollSwitchSymlink, Rollbacks, NeverDark, Answering, Agreed
  <1>3. CASE RollBoot
    <2>1. /\ Agreed /\ rb.to # upstream /\ upstream \in Colors /\ d.pc = "idle"
      BY <1>3 DEF RollBoot, Agreed, otherColor
    <2>2. eco[current] = rb.to
      BY <1>3 DEF RollBoot
    <2>3. Answering(upstream)' = Answering(upstream)
      BY <1>3, <2>1, <2>2, StillAnswering DEF RollBoot, startCurrent
    <2>4. NeverDark' /\ Agreed'
      BY <1>3, <2>1, <2>3 DEF RollBoot, NeverDark, Agreed
    <2> QED
      BY <1>3, <2>1, <2>4 DEF RollBoot
  <1>4. CASE RollHealthCheck
    BY <1>4 DEF RollHealthCheck, passesHealthCheck, Online, NeverDark,
                Answering, Agreed
  <1>5. CASE RollUndo
    <2>1. /\ Agreed /\ rb.to # upstream /\ upstream \in Colors /\ d.pc = "idle"
      BY <1>5 DEF RollUndo, Agreed, otherColor
    <2>2. Answering(upstream)' = Answering(upstream)
      BY <1>5, <2>1, StillAnswering DEF RollUndo
    <2>3. NeverDark' /\ Agreed'
      BY <1>5, <2>1, <2>2 DEF RollUndo, NeverDark, Agreed
    <2> QED
      BY <1>5, <2>1, <2>3 DEF RollUndo
  <1>6. CASE RollRestore
    BY <1>6 DEF RollRestore, NeverDark, Answering, Agreed
  <1>7. CASE RollConfigure
    BY <1>7 DEF RollConfigure, NeverDark, Answering, Agreed
  <1>8. CASE RollReload
    <2>1. /\ site = rb.to /\ rb.to \in Colors /\ Online(proc[rb.to])
          /\ rb.pc = "rbReload" /\ d.pc = "idle"
      BY <1>8 DEF RollReload
    <2>2. rb'.pc = "rbWriteState" /\ rb'.to = rb.to
      BY <1>8 DEF RollReload
    <2>3. upstream' = rb.to /\ site' = site /\ UNCHANGED <<proc, legacy, d>>
      BY <1>8, <2>1 DEF RollReload
    <2>4. NeverDark'
      BY <2>1, <2>3, OnlineAnswers DEF NeverDark, Answering
    <2> QED
      BY <2>1, <2>2, <2>3, <2>4
  <1>9. CASE RollWriteState
    <2>1. /\ site = rb.to /\ upstream = rb.to /\ rb.to \in Colors
          /\ rb.st.active = otherColor(rb.to)
          /\ rb.pc = "rbWriteState" /\ d.pc = "idle"
      BY <1>9 DEF RollWriteState, otherColor
    <2>2. deployState'.active = rb.to
      BY <1>9 DEF RollWriteState, States, Rollbacks
    <2>3. /\ rb'.pc \in {"rbReap", "idle"}
          /\ rb'.pc = "rbReap" => rb'.to = rb.to /\ rb'.st = rb.st
      BY <1>9 DEF RollWriteState
    <2>4. UNCHANGED <<site, upstream, proc, legacy, d>>
      BY <1>9 DEF RollWriteState
    <2>5. NeverDark' /\ Agreed'
      BY <2>1, <2>2, <2>4 DEF NeverDark, Answering, Agreed
    <2> QED
      BY <2>1, <2>2, <2>3, <2>4, <2>5
  <1>10. CASE RollTruncateState
    BY <1>10 DEF RollTruncateState, NoState, NeverDark, Answering, Agreed
  <1>11. CASE RollReap
    <2>1. /\ Agreed /\ rb.st.active # upstream /\ upstream \in Colors
          /\ d.pc = "idle"
      BY <1>11 DEF RollReap, Agreed, otherColor
    <2>2. Answering(upstream)' = Answering(upstream)
      BY <1>11, <2>1, StillAnswering DEF RollReap
    <2>3. NeverDark' /\ Agreed'
      BY <1>11, <2>1, <2>2 DEF RollReap, NeverDark, Agreed
    <2> QED
      BY <1>11, <2>1, <2>3 DEF RollReap
  <1>12. CASE RollCommandFails
    BY <1>12 DEF RollCommandFails, NeverDark, Answering, Agreed
  <1>13. CASE RollCrash
    BY <1>13 DEF RollCrash, NeverDark, Answering, Agreed
  <1> QED
    BY <1>1, <1>2, <1>3, <1>4, <1>5, <1>6, <1>7, <1>8, <1>9, <1>10, <1>11,
       <1>12, <1>13
       DEF RollStep

LEMMA NextTrafficInv ==
    ASSUME CleanFlips
    PROVE  TypeInv /\ RecordInv /\ TrafficInv /\ [Next]_vars => TrafficInv'
  <1> SUFFICES ASSUME TypeInv, RecordInv, TrafficInv, [Next]_vars
               PROVE  TrafficInv'
    OBVIOUS
  <1> USE DEF TrafficInv, Flipping, DeployFlip, RollFlip, Agreed
  <1>1. CASE Acquire \/ DeployStep \/ DeployCrash
    BY <1>1, DeployTrafficInv
  <1>2. CASE StartRollback \/ RollStep \/ RollCrash
    BY <1>2, RollTrafficInv
  <1>3. CASE OtherAppReloadsCaddy
    <2>1. /\ upstream # site /\ ~Agreed
          /\ \/ d.pc = "reload" /\ rb.pc = "idle"
             \/ rb.pc = "rbReload" /\ d.pc = "idle"
      BY <1>3 DEF OtherAppReloadsCaddy, FlipWindow, RecordInv, Exclusive,
                  TypeInv, TypeOK, Deploys, DeploySteps, BodySteps, Rollbacks,
                  RollSteps
    <2>2. site \in Colors /\ Online(proc[site])
      BY <2>1, TargetType DEF RecordInv, DeploySession, Switching, TypeInv, TypeOK
    <2>3. upstream' = site /\ UNCHANGED <<site, proc, legacy, d, rb>>
      BY <1>3 DEF OtherAppReloadsCaddy, files, procs
    <2>4. NeverDark'
      BY <2>2, <2>3, OnlineAnswers DEF NeverDark, Answering
    <2> QED
      BY <2>1, <2>3, <2>4 DEF FlipWindow
  <1>4. CASE ClearOrphan \/ UNCHANGED vars
    BY <1>4 DEF ClearOrphan, vars, NeverDark, Answering, files, procs, caddy
  <1> QED
    BY <1>1, <1>2, <1>3, <1>4 DEF Next

\* Traffic never goes to a colour whose process is stopped, for any number of
\* releases and any retention, whatever else fails: no rollback overlaps a deploy
\* and nothing fails inside the flip window.
THEOREM TrafficNeverDark ==
    ASSUME CleanFlips
    PROVE  Spec => []NeverDark
  <1>1. ~Overlap
    BY DEF CleanFlips
  <1>2. TypeInv /\ RecordInv /\ [Next]_vars => RecordInv'
    BY <1>1, NextRecordInv
  <1>3. TypeInv /\ RecordInv /\ TrafficInv /\ [Next]_vars => TrafficInv'
    BY NextTrafficInv
  <1>4. TrafficInv => NeverDark
    BY DEF TrafficInv
  <1> QED
    BY <1>2, <1>3, <1>4, InitTypeInv, NextTypeInv, InitRecordInv,
       InitTrafficInv, PTL DEF Spec

LEMMA StepLeavesTraffic ==
    ASSUME CleanFlips, TypeInv, RecordInv, TrafficInv, BeforeFlip, Next
    PROVE  /\ upstream' = upstream /\ deployState' = deployState
           /\ upstream # NoColor => Answering(upstream)' = Answering(upstream)
  <1> USE DEF files, procs, caddy
  <1>1. /\ Agreed /\ rb.pc = "idle" /\ ~Overlap /\ d.target \in Colors \cup {NoColor}
        /\ proc \in [Colors -> Procs] /\ deployState \in States
    BY DEF BeforeFlip, CleanFlips, TrafficInv, Flipping, FlipWindow, RecordInv,
           Exclusive, TypeInv, TypeOK, Deploys
  <1>2. CASE UNCHANGED <<upstream, deployState, proc, legacy>>
    BY <1>2 DEF Answering
  <1>3. CASE ReapTarget
    <2>1. d.target = resolveTarget(deployState)
      BY <1>3 DEF ReapTarget, RecordInv, DeploySession, Switching
    <2> QED
      BY <1>1, <1>3, <2>1, IdleTarget, StillAnswering DEF ReapTarget
  <1>4. CASE Boot
    <2>1. d.target = resolveTarget(deployState) /\ eco[current] = d.target
      BY <1>4 DEF Boot, RecordInv, DeploySession, Switching
    <2> QED
      BY <1>1, <1>4, <2>1, IdleTarget, StillAnswering DEF Boot, startCurrent
  <1>5. CASE DeployStep
    <2>1. ReapTarget \/ Boot \/ UNCHANGED <<upstream, deployState, proc, legacy>>
      BY <1>5 DEF DeployStep, BeforeFlip, Create, Stage, SwitchSymlink,
         ResolveTarget, WriteEcosystem, HealthCheck, ReloadWorkers,
         ConfigureBackend, ReloadCaddy, WriteDeployState, TruncateDeployState,
         AfterTrafficSwitch, RecordSuccess, PostDeploy, CleanupOldReleases,
         CommandFails, Revert, RecordFailed, TruncateHistory, Unlock
    <2> QED
      BY <2>1, <1>2, <1>3, <1>4
  <1>6. CASE Acquire \/ DeployCrash \/ ClearOrphan \/ StartRollback
    <2>1. UNCHANGED <<upstream, deployState, proc, legacy>>
      BY <1>6 DEF Acquire, DeployCrash, ClearOrphan, StartRollback
    <2> QED
      BY <2>1, <1>2
  <1>7. ~(RollStep \/ OtherAppReloadsCaddy)
    BY <1>1 DEF RollStep, OtherAppReloadsCaddy, Agreed, RollSwitchSymlink,
       RollBoot, RollHealthCheck, RollUndo, RollRestore, RollConfigure,
       RollReload, RollWriteState, RollTruncateState, RollReap,
       RollCommandFails, RollSteps
  <1>8. CASE RollCrash
    BY <1>8, <1>2 DEF RollCrash
  <1> QED
    BY <1>5, <1>6, <1>7, <1>8 DEF Next

\* Up to the Caddy reload a deploy leaves upstream, recorded state and the
\* process behind the upstream as they are, under the same conditions.
THEOREM ZeroImpact ==
    ASSUME CleanFlips
    PROVE  Spec => DeployLeavesTrafficUntilReload
  <1>1. ~Overlap
    BY DEF CleanFlips
  <1>2. TypeInv /\ RecordInv /\ [Next]_vars => RecordInv'
    BY <1>1, NextRecordInv
  <1>3. TypeInv /\ RecordInv /\ TrafficInv /\ [Next]_vars => TrafficInv'
    BY NextTrafficInv
  <1>4. TypeInv /\ RecordInv /\ TrafficInv /\ [Next]_vars =>
          [BeforeFlip => /\ upstream' = upstream
                         /\ deployState' = deployState
                         /\ upstream # NoColor =>
                              Answering(upstream)' = Answering(upstream)]_vars
    BY StepLeavesTraffic
  <1> QED
    BY <1>2, <1>3, <1>4, InitTypeInv, NextTypeInv, InitRecordInv,
       InitTrafficInv, PTL DEF Spec, DeployLeavesTrafficUntilReload

-----------------------------------------------------------------------------
(* What a deploy has done by the step it stands at.                         *)

\* Nothing of a deploy outlives it.
Fresh == d.pc = "idle" => d = NoDeploy
\* `switched` and `flipped` record how far it came, and `current` follows them:
\* the new release once switched, back to the old one after a revert.
Trail ==
    /\ d.pc \in {"create", "stage", "switch"} => ~d.switched
    /\ d.pc \in Switching \cup {"resolve"} => d.switched
    /\ BeforeFlip \/ d.pc = "reload" => ~d.flipped
    /\ d.pc \in {"writeState", "afterSwitch", "record", "post", "cleanup"}
         => d.flipped
    /\ d.flipped => d.switched /\ current = d.rel
    /\ d.switched /\ d.pc \notin {"recordFailed", "unlock"} => current = d.rel
    /\ ~d.switched /\ d.prev # NoRelease => current = d.prev
    /\ /\ d.pc \in {"recordFailed", "unlock"} /\ ~d.flipped
       /\ d.prev # NoRelease /\ "revert" \notin FailAt
       => current = d.prev
\* The new colour runs the new release from its health check on, then workers,
\* site file and Caddy follow, in this order.
Launched ==
    /\ d.pc = "health" => proc[d.target].rel = d.rel
    /\ d.pc \in {"workers", "configure", "reload"} \/ d.flipped =>
         /\ d.target \in Colors /\ d.target # d.prevColor
         /\ proc[d.target] = [rel |-> d.rel, cond |-> "healthy"]
    /\ d.pc \in {"configure", "reload"} \/ d.flipped => workers = d.rel
    /\ d.pc = "reload" \/ d.flipped => site = d.target
    /\ d.flipped => upstream = d.target
\* After the flip come the recorded state, the end of the previous colour or of
\* the uncoloured process, and the entry in the history.
Concluded ==
    /\ d.pc \in {"afterSwitch", "record", "post", "cleanup"} =>
         deployState.active = d.target /\ deployState.rel[d.target] = d.rel
    /\ d.pc \in {"record", "post", "cleanup"} =>
         IF d.prevColor = NoColor THEN ~legacy
         ELSE Retention # "rollback" => proc[d.prevColor] = NoProc
    /\ d.pc \in {"post", "cleanup"} => <<d.rel, "success">> \in history
\* A deploy works on the newest release, which it keeps on disk; nothing starts
\* on the blue port while the uncoloured process holds it.
SessionInv ==
    /\ Fresh /\ Trail /\ Launched /\ Concluded
    /\ d.pc # "idle" => d.rel = minted
    /\ onDisk \subseteq 1 .. minted
    /\ d.switched \/ d.pc \in {"stage", "switch"} => d.rel \in onDisk
    /\ legacy => ~Online(proc["blue"])

LEMMA InitSessionInv == Init => SessionInv
  <1> SUFFICES ASSUME Init PROVE SessionInv
    OBVIOUS
  <1>1. /\ d = NoDeploy /\ d.pc = "idle" /\ d.prev = NoRelease
        /\ ~d.switched /\ ~d.flipped
    BY DEF Init, NoDeploy
  <1>2. Fresh /\ Trail /\ Launched /\ Concluded
    BY <1>1 DEF Fresh, Trail, Launched, Concluded, Switching,
                BeforeFlip
  <1>3. onDisk \subseteq 1 .. minted
    BY DEF Init
  <1>4. ~Online(proc["blue"])
    BY DEF Init, NoProc, Online
  <1> QED
    BY <1>1, <1>2, <1>3, <1>4 DEF SessionInv

LEMMA GotoKeepsAll ==
    ASSUME d \in Deploys, NEW pc, Goto(pc)
    PROVE  /\ d'.pc = pc /\ d'.rel = d.rel /\ d'.prev = d.prev
           /\ d'.target = d.target /\ d'.prevColor = d.prevColor
           /\ d'.carried = d.carried
           /\ d'.switched = d.switched /\ d'.flipped = d.flipped
  BY DEF Goto, Deploys

\* Pruning keeps at least one release, the newest.
LEMMA NewestKept ==
    ASSUME minted \in Nat, onDisk \subseteq 1 .. minted
    PROVE  minted \notin OldReleases
  <1>1. {s \in onDisk : s > minted} = {}
    <2> SUFFICES ASSUME NEW s \in onDisk PROVE ~(s > minted)
      OBVIOUS
    <2> QED
      BY s \in 1 .. minted
  <1>2. Cardinality({}) = 0
    BY FS_EmptySet
  <1> QED
    BY <1>1, <1>2 DEF OldReleases

LEMMA DeploySessionInv ==
    ASSUME ~Overlap, TypeInv, RecordInv, SessionInv,
           Acquire \/ DeployStep \/ DeployCrash
    PROVE  SessionInv'
  <1> USE GotoKeepsAll, StateFacts
      DEF TypeInv, TypeOK, RecordInv, Exclusive, DeploySession, Staging,
          Switching, SessionInv, Fresh, Trail, Launched, Concluded, BeforeFlip, Online,
          files, procs, caddy
  <1>1. CASE Acquire
    BY <1>1 DEF Acquire, NoDeploy
  <1>2. CASE Create
    <2>1. /\ d'.pc = "stage" /\ d'.rel = d.rel /\ d'.prev = current
          /\ d'.target = d.target /\ d'.prevColor = d.prevColor
          /\ ~d'.switched /\ ~d'.flipped
      BY <1>2 DEF Create, Deploys
    <2>2. d.rel \in 1 .. minted
      BY <1>2 DEF Create
    <2>3. /\ onDisk' = onDisk \cup {d.rel}
          /\ UNCHANGED <<minted, current, eco, procs, caddy, deployState, history, rb>>
      BY <1>2 DEF Create
    <2>4. onDisk' \subseteq 1 .. minted' /\ d'.rel \in onDisk'
      BY <2>1, <2>2, <2>3
    <2> QED
      BY <1>2, <2>1, <2>3, <2>4 DEF Create
  <1>3. CASE Stage
    BY <1>3 DEF Stage
  <1>4. CASE SwitchSymlink
    BY <1>4 DEF SwitchSymlink, Deploys
  <1>5. CASE ResolveTarget
    <2>1. /\ d'.pc = "eco" /\ d'.rel = d.rel /\ d'.prev = d.prev
          /\ d'.switched = d.switched /\ d'.flipped = d.flipped
          /\ d.switched /\ ~d.flipped
      BY <1>5 DEF ResolveTarget, Deploys
    <2>2. UNCHANGED <<minted, files, procs, caddy, deployState, history, rb>>
      BY <1>5 DEF ResolveTarget
    <2> QED
      BY <1>5, <2>1, <2>2 DEF ResolveTarget
  <1>6. CASE WriteEcosystem
    BY <1>6 DEF WriteEcosystem
  <1>7. CASE ReapTarget
    <2>1. d.target \in Colors /\ ~d.flipped /\ d.pc = "reapTarget"
      BY <1>7, TargetType DEF ReapTarget
    <2>2. legacy' => ~Online(proc'["blue"])
      BY <1>7, <2>1 DEF ReapTarget, NoProc
    <2> QED
      BY <1>7, <2>1, <2>2 DEF ReapTarget
  <1>8. CASE Boot
    <2>1. /\ d.target \in Colors /\ ~d.flipped /\ d.pc = "boot"
          /\ current = d.rel /\ eco[current] = d.target
      BY <1>8, TargetType DEF Boot
    <2>2. PICK k \in StartsOn(d.target) :
            proc' = [proc EXCEPT ![d.target] = [rel |-> d.rel, cond |-> k]]
      <3>1. startCurrent
        BY <1>8 DEF Boot
      <3> QED
        BY ONLY <2>1, <3>1 DEF startCurrent
    <2>3. proc'[d.target].rel = d.rel
      BY <2>1, <2>2
    <2>4. legacy' => ~Online(proc'["blue"])
      BY <1>8, <2>1, <2>2 DEF Boot, StartsOn
    <2> QED
      BY <1>8, <2>1, <2>3, <2>4 DEF Boot
  <1>9. CASE HealthCheck
    <2>1. d.target \in Colors /\ d.target # d.prevColor /\ d.pc = "health"
      BY <1>9, TargetType DEF HealthCheck
    <2>2. d'.pc = "workers" => proc[d.target] = [rel |-> d.rel, cond |-> "healthy"]
      BY <1>9, <2>1 DEF HealthCheck, passesHealthCheck, Procs
    <2>3. d'.pc \in {"workers", "revert"}
      BY <1>9 DEF HealthCheck
    <2> QED
      BY <1>9, <2>1, <2>2, <2>3 DEF HealthCheck
  <1>10. CASE ReloadWorkers
    BY <1>10 DEF ReloadWorkers
  <1>11. CASE ConfigureBackend
    BY <1>11 DEF ConfigureBackend
  <1>12. CASE ReloadCaddy
    BY <1>12 DEF ReloadCaddy, Deploys
  <1>13. CASE WriteDeployState
    <2>1. /\ deployState'.active = d.target
          /\ deployState'.rel[d.target] = d.rel
      BY <1>13, WithReleaseFacts DEF WriteDeployState
    <2>2. UNCHANGED <<minted, files, procs, caddy, history, rb>>
      BY <1>13 DEF WriteDeployState
    <2>3. d.pc = "writeState" /\ d'.pc = "afterSwitch"
      BY <1>13 DEF WriteDeployState
    <2> QED
      BY <1>13, <2>1, <2>2, <2>3 DEF WriteDeployState
  <1>14. CASE TruncateDeployState
    BY <1>14 DEF TruncateDeployState
  <1>15. CASE AfterTrafficSwitch
    <2>1. /\ d.pc = "afterSwitch" /\ d.flipped /\ d.target \in Colors
          /\ d.target # d.prevColor /\ d.prevColor \in Colors \cup {NoColor}
      BY <1>15 DEF AfterTrafficSwitch, Deploys
    <2>2. proc'[d.target] = proc[d.target]
      BY <1>15, <2>1 DEF AfterTrafficSwitch, ReapedColor
    <2>3. IF d.prevColor = NoColor THEN ~legacy'
          ELSE Retention # "rollback" => proc'[d.prevColor] = NoProc
      BY <1>15, <2>1 DEF AfterTrafficSwitch, ReapedColor, reapsPreviousColour
    <2>4. legacy' => ~Online(proc'["blue"])
      <3>1. /\ legacy' => legacy
            /\ \/ proc'["blue"] = proc["blue"]
               \/ proc'["blue"] = NoProc
        BY <1>15, <2>1 DEF AfterTrafficSwitch, ReapedColor
      <3> QED
        BY <3>1 DEF NoProc
    <2>5. UNCHANGED <<minted, files, workers, caddy, deployState, history, rb>>
      BY <1>15 DEF AfterTrafficSwitch
    <2>6. d'.pc = "record"
      BY <1>15 DEF AfterTrafficSwitch
    <2>7. Fresh' /\ Trail'
      BY <1>15, <2>1, <2>5, <2>6 DEF AfterTrafficSwitch
    <2>8. Launched'
      <3>1. /\ d'.rel = d.rel /\ d'.target = d.target
            /\ d'.prevColor = d.prevColor /\ d'.flipped
        BY <1>15, <2>1 DEF AfterTrafficSwitch
      <3> QED
        BY ONLY SessionInv, <2>1, <2>2, <2>5, <2>6, <3>1
    <2>9. Concluded'
      BY <1>15, <2>1, <2>3, <2>5, <2>6 DEF AfterTrafficSwitch
    <2> QED
      BY <1>15, <2>1, <2>4, <2>5, <2>6, <2>7, <2>8, <2>9 DEF AfterTrafficSwitch
  <1>16. CASE RecordSuccess
    BY <1>16 DEF RecordSuccess
  <1>17. CASE PostDeploy
    <2>1. /\ d.pc = "post" /\ d'.pc = "cleanup"
          /\ UNCHANGED <<minted, files, procs, caddy, deployState, history, rb>>
      BY <1>17 DEF PostDeploy
    <2>2. Fresh' /\ Trail' /\ Launched'
      BY <1>17, <2>1 DEF PostDeploy
    <2>3. d'.rel = d.rel /\ d'.target = d.target /\ d'.prevColor = d.prevColor
      BY <1>17 DEF PostDeploy
    <2>4. Concluded'
      BY ONLY SessionInv, <2>1, <2>3
    <2> QED
      BY <1>17, <2>1, <2>2, <2>4 DEF PostDeploy
  <1>18. CASE CleanupOldReleases
    <2>1. d.pc = "cleanup" /\ d.rel = minted /\ d.flipped
      BY <1>18 DEF CleanupOldReleases
    <2>2. onDisk' \subseteq onDisk /\ d.rel \in onDisk'
      BY <1>18, <2>1, NewestKept DEF CleanupOldReleases
    <2>3. UNCHANGED <<minted, current, procs, caddy, deployState, history, rb>>
      BY <1>18 DEF CleanupOldReleases
    <2>4. d'.pc = "unlock"
      BY <1>18 DEF CleanupOldReleases
    <2>5. Fresh' /\ Trail' /\ Launched' /\ Concluded'
      BY <1>18, <2>1, <2>3, <2>4 DEF CleanupOldReleases
    <2>6. d'.rel = d.rel
      BY <1>18 DEF CleanupOldReleases
    <2> QED
      BY ONLY SessionInv, <2>1, <2>2, <2>3, <2>4, <2>5, <2>6
  <1>19. CASE CommandFails
    <2>1. /\ d'.pc = "revert" /\ d.pc \notin {"idle", "recordFailed", "unlock"}
          /\ UNCHANGED <<minted, files, procs, caddy, deployState, history, rb>>
      BY <1>19 DEF CommandFails, BodySteps
    <2> QED
      BY <1>19, <2>1 DEF CommandFails
  <1>20. CASE Revert
    BY <1>20 DEF Revert, RevertsSymlink
  <1>21. CASE RecordFailed
    BY <1>21 DEF RecordFailed
  <1>22. CASE TruncateHistory
    BY <1>22 DEF TruncateHistory
  <1>23. CASE Unlock
    BY <1>23 DEF Unlock, NoDeploy
  <1>24. CASE DeployCrash
    BY <1>24 DEF DeployCrash, NoDeploy
  <1> QED
    BY <1>1, <1>2, <1>3, <1>4, <1>5, <1>6, <1>7, <1>8, <1>9, <1>10, <1>11, <1>12, <1>13, <1>14, <1>15, <1>16, <1>17, <1>18, <1>19, <1>20, <1>21, <1>22, <1>23, <1>24
       DEF DeployStep

LEMMA RollStepPc == RollStep \/ RollCrash => rb.pc # "idle" /\ d' = d
  BY FaultAssumption DEF RollStep, RollSwitchSymlink, RollBoot, RollHealthCheck,
     RollUndo, RollRestore, RollConfigure, RollReload, RollWriteState,
     RollTruncateState, RollReap, RollCommandFails, RollCrash, RollSteps,
     DeploySteps, BodySteps

LEMMA RollSessionInv ==
    ASSUME ~Overlap, TypeInv, RecordInv, SessionInv,
           StartRollback \/ RollStep \/ RollCrash
    PROVE  SessionInv'
  <1>1. d.pc = "idle" /\ d' = d
    BY RollStepPc DEF RecordInv, Exclusive, StartRollback
  <1>2. /\ d = NoDeploy /\ d.prev = NoRelease
        /\ ~d.switched /\ ~d.flipped
    BY <1>1 DEF SessionInv, Fresh, NoDeploy
  <1>3. UNCHANGED <<minted, onDisk, legacy>>
    BY DEF StartRollback, RollStep, RollCrash, RollSwitchSymlink, RollBoot,
       RollHealthCheck, RollUndo, RollRestore, RollConfigure, RollReload,
       RollWriteState, RollTruncateState, RollReap, RollCommandFails, files, procs
  <1>4. Fresh' /\ Trail' /\ Launched' /\ Concluded'
    BY <1>1, <1>2 DEF Fresh, Trail, Launched, Concluded, Switching, BeforeFlip
  <1>5. legacy' => ~Online(proc'["blue"])
    <2> USE <1>3 DEF SessionInv, TypeInv, TypeOK
    <2>1. CASE UNCHANGED proc
      BY <2>1
    <2>2. CASE RollBoot
      BY <2>2 DEF RollBoot, startCurrent, StartsOn, Startable, Online
    <2>3. CASE RollUndo \/ RollReap
      BY <2>3 DEF RollUndo, RollReap, NoProc, Online
    <2> QED
      BY <2>1, <2>2, <2>3 DEF StartRollback, RollStep, RollCrash,
         RollSwitchSymlink, RollHealthCheck, RollRestore, RollConfigure,
         RollReload, RollWriteState, RollTruncateState, RollCommandFails, procs
  <1> QED
    BY <1>1, <1>2, <1>3, <1>4, <1>5 DEF SessionInv

LEMMA NextSessionInv ==
    ASSUME ~Overlap
    PROVE  TypeInv /\ RecordInv /\ SessionInv /\ [Next]_vars => SessionInv'
  <1> SUFFICES ASSUME TypeInv, RecordInv, SessionInv, [Next]_vars
               PROVE  SessionInv'
    OBVIOUS
  <1>1. CASE Acquire \/ DeployStep \/ DeployCrash
    BY <1>1, DeploySessionInv
  <1>2. CASE StartRollback \/ RollStep \/ RollCrash
    BY <1>2, RollSessionInv
  <1>3. CASE ClearOrphan \/ UNCHANGED vars
    <2>1. UNCHANGED <<minted, files, procs, caddy, deployState, history, d, rb>>
      BY <1>3 DEF ClearOrphan, vars
    <2> QED
      BY <2>1 DEF SessionInv, Fresh, Trail, Launched, Concluded, Switching,
         BeforeFlip, files, procs, caddy
  <1>4. CASE OtherAppReloadsCaddy
    <2>1. ~d.flipped
      BY <1>4 DEF OtherAppReloadsCaddy, SessionInv, Launched
    <2>2. UNCHANGED <<minted, files, procs, site, deployState, history, d, rb>>
      BY <1>4 DEF OtherAppReloadsCaddy
    <2> QED
      BY <2>1, <2>2 DEF SessionInv, Fresh, Trail, Launched, Concluded, Switching,
         BeforeFlip, files, procs
  <1> QED
    BY <1>1, <1>2, <1>3, <1>4 DEF Next

\* A deploy that reports success has left everything on its release, whatever
\* fails on the way there, as long as no rollback overlaps it.
THEOREM SuccessConverges ==
    ASSUME ~Overlap
    PROVE  Spec => []SuccessfulDeployConverged
  <1>1. SessionInv => SuccessfulDeployConverged
    BY DEF SessionInv, Trail, Launched, Concluded, SuccessfulDeployConverged
  <1> QED
    BY <1>1, InitTypeInv, NextTypeInv, InitRecordInv, NextRecordInv,
       InitSessionInv, NextSessionInv, PTL DEF Spec

\* The workers move only to a release whose web process passed the health
\* check, whatever fails, as long as no rollback overlaps a deploy.
THEOREM WorkersMoveLast ==
    ASSUME ~Overlap
    PROVE  Spec => WorkersFollowHealth
  <1>1. TypeInv /\ SessionInv /\ Next /\ workers' # workers =>
          \E c \in Colors : proc[c].rel = workers' /\ proc[c].cond = "healthy"
    <2> SUFFICES ASSUME TypeInv, SessionInv, Next, workers' # workers
                 PROVE  \E c \in Colors : /\ proc[c].rel = workers'
                                          /\ proc[c].cond = "healthy"
      OBVIOUS
    <2>1. ReloadWorkers
      BY DEF Next, DeployStep, RollStep, files, procs, caddy, Acquire, Create,
         Stage, SwitchSymlink, ResolveTarget, WriteEcosystem, ReapTarget, Boot,
         HealthCheck, ConfigureBackend, ReloadCaddy, WriteDeployState,
         TruncateDeployState, AfterTrafficSwitch, RecordSuccess, PostDeploy,
         CleanupOldReleases, CommandFails, Revert, RecordFailed,
         TruncateHistory, Unlock, DeployCrash, StartRollback, RollCrash,
         ClearOrphan, OtherAppReloadsCaddy, RollSwitchSymlink, RollBoot,
         RollHealthCheck, RollUndo, RollRestore, RollConfigure, RollReload,
         RollWriteState, RollTruncateState, RollReap, RollCommandFails
    <2> QED
      BY <2>1 DEF ReloadWorkers, SessionInv, Trail, Launched, Switching
  <1>2. TypeInv /\ SessionInv /\ [Next]_vars =>
          [workers' # workers => \E c \in Colors :
              proc[c].rel = workers' /\ proc[c].cond = "healthy"]_vars
    BY <1>1
  <1> QED
    BY <1>2, InitTypeInv, NextTypeInv, InitRecordInv, NextRecordInv,
       InitSessionInv, NextSessionInv, PTL DEF Spec, WorkersFollowHealth

\* When the command that reverts the symlink succeeds, `current` ends on the
\* release that serves, however a deploy that no rollback overlaps ends.
THEOREM CurrentEndsOnTraffic ==
    ASSUME ~Overlap, "revert" \notin FailAt
    PROVE  Spec => CurrentFollowsTraffic
  <1>1. SessionInv /\ Unlock =>
          IF d.flipped THEN current = d.rel /\ Served = d.rel
          ELSE d.prev # NoRelease => current = d.prev
    BY DEF SessionInv, Trail, Launched, Unlock, Served, Online
  <1>2. SessionInv /\ [Next]_vars =>
          [Unlock => IF d.flipped THEN current = d.rel /\ Served = d.rel
                     ELSE d.prev # NoRelease => current = d.prev]_vars
    BY <1>1
  <1> QED
    BY <1>2, InitTypeInv, NextTypeInv, InitRecordInv, NextRecordInv,
       InitSessionInv, NextSessionInv, PTL DEF Spec, CurrentFollowsTraffic

-----------------------------------------------------------------------------
(* What pruning leaves on disk, when moreover nothing fails inside the flip   *)
(* window.                                                                    *)

\* Neither `current`, nor what a session returns to, nor the release of the
\* uncoloured process, which no deploy replaces once blue has been active.
DiskInv ==
    /\ current # NoRelease => current \in onDisk
    /\ d.prev # NoRelease /\ d.pc # "unlock" => d.prev \in onDisk
    /\ rb.before # NoRelease => rb.before \in onDisk
    /\ rb.pc = "idle" => rb = NoRollback
    /\ legacy => /\ LegacyRelease \in onDisk
                 /\ deployState.active # "blue" /\ d.prevColor # "blue"
\* Nor the release of a running process, when the colour that stops serving is
\* reaped; as long as no colour is active, none but green was ever started.
ServingInv ==
    /\ \A c \in Colors : Online(proc[c]) => proc[c].rel \in onDisk
    /\ deployState.active = NoColor => ~Online(proc["blue"])
    /\ d.flipped /\ d.prevColor = NoColor =>
         d.target = "green" /\ ~Online(proc["blue"])

LEMMA InitDiskInv == Init => DiskInv /\ ServingInv
  BY NoStateFacts DEF Init, DiskInv, ServingInv, NoDeploy, NoRollback, NoProc, Online

LEMMA RollToBefore ==
    ASSUME rb \in Rollbacks, NEW pc, RollTo(pc)
    PROVE  /\ rb'.before = rb.before \/ rb'.before = NoRelease
           /\ pc = "idle" => rb' = NoRollback
  BY DEF RollTo, Rollbacks, NoRollback

LEMMA DeployDiskInv ==
    ASSUME CleanFlips, TypeInv, RecordInv, TrafficInv, SessionInv, DiskInv,
           Acquire \/ DeployStep \/ DeployCrash
    PROVE  DiskInv'
  <1> USE GotoKeepsAll, StateFacts
      DEF TypeInv, TypeOK, RecordInv, Exclusive, CleanFlips, FlipWindow, SessionInv,
          DiskInv, files, procs, caddy
  <1>1. CASE Acquire
    BY <1>1 DEF Acquire, NoDeploy
  <1>2. CASE Create
    BY <1>2 DEF Create, Deploys
  <1>3. CASE Stage
    BY <1>3 DEF Stage
  <1>4. CASE SwitchSymlink
    BY <1>4 DEF SwitchSymlink, Deploys
  <1>5. CASE ResolveTarget
    BY <1>5 DEF ResolveTarget, Deploys
  <1>6. CASE WriteEcosystem
    BY <1>6 DEF WriteEcosystem
  <1>7. CASE ReapTarget
    BY <1>7 DEF ReapTarget
  <1>8. CASE Boot
    BY <1>8 DEF Boot
  <1>9. CASE HealthCheck
    BY <1>9 DEF HealthCheck
  <1>10. CASE ReloadWorkers
    BY <1>10 DEF ReloadWorkers
  <1>11. CASE ConfigureBackend
    BY <1>11 DEF ConfigureBackend
  <1>12. CASE ReloadCaddy
    BY <1>12 DEF ReloadCaddy, Deploys
  <1>13. CASE WriteDeployState
    <2>1. d.target = "blue" => ~legacy
      BY <1>13 DEF WriteDeployState, Trail, Launched, Online
    <2>2. deployState'.active = d.target
      <3>1. d.target \in Colors /\ d.carried \in States
        BY <1>13 DEF WriteDeployState, Trail, Launched, Deploys
      <3>2. deployState' = withRelease(d.carried, d.target, d.rel)
        BY <1>13 DEF WriteDeployState
      <3> QED
        BY <3>1, <3>2, WithReleaseFacts
    <2>3. /\ d'.pc = "afterSwitch" /\ d'.prev = d.prev
          /\ d'.prevColor = d.prevColor
      BY <1>13 DEF WriteDeployState
    <2>4. UNCHANGED <<minted, files, procs, caddy, rb>>
      BY <1>13 DEF WriteDeployState
    <2> QED
      BY <1>13, <2>1, <2>2, <2>3, <2>4 DEF WriteDeployState
  <1>14. CASE TruncateDeployState
    BY <1>14 DEF TruncateDeployState
  <1>15. CASE AfterTrafficSwitch
    BY <1>15 DEF AfterTrafficSwitch
  <1>16. CASE RecordSuccess
    BY <1>16 DEF RecordSuccess
  <1>17. CASE PostDeploy
    BY <1>17 DEF PostDeploy
  <1>18. CASE CleanupOldReleases
    <2>1. /\ d.flipped /\ d.rel = minted /\ current = d.rel /\ ~legacy
          /\ rb.before = NoRelease
      <3>1. /\ d.pc = "cleanup" /\ d.flipped /\ rb.pc = "idle"
            /\ d.prevColor \in Colors \cup {NoColor}
        BY <1>18 DEF CleanupOldReleases, Trail, Deploys
      <3>2. legacy => d.prevColor # NoColor /\ d.prevColor # "blue" /\ d.target # "blue"
        BY <3>1 DEF Trail, Launched, Concluded, Online
      <3> QED
        BY <3>1, <3>2 DEF Trail, Launched, NoRollback
    <2>2. current \in onDisk'
      BY <1>18, <2>1, NewestKept DEF CleanupOldReleases, Trail
    <2>3. d'.pc = "unlock"
      BY <1>18 DEF CleanupOldReleases
    <2>4. UNCHANGED <<minted, current, procs, caddy, deployState, history, rb>>
      BY <1>18 DEF CleanupOldReleases
    <2> QED
      BY <2>1, <2>2, <2>3, <2>4
  <1>19. CASE CommandFails
    BY <1>19 DEF CommandFails, BodySteps
  <1>20. CASE Revert
    BY <1>20 DEF Revert, RevertsSymlink
  <1>21. CASE RecordFailed
    BY <1>21 DEF RecordFailed
  <1>22. CASE TruncateHistory
    BY <1>22 DEF TruncateHistory
  <1>23. CASE Unlock
    BY <1>23 DEF Unlock, NoDeploy
  <1>24. CASE DeployCrash
    BY <1>24 DEF DeployCrash, NoDeploy
  <1> QED
    BY <1>1, <1>2, <1>3, <1>4, <1>5, <1>6, <1>7, <1>8, <1>9, <1>10, <1>11, <1>12, <1>13, <1>14, <1>15, <1>16, <1>17, <1>18, <1>19, <1>20, <1>21, <1>22, <1>23, <1>24
       DEF DeployStep

LEMMA RollDiskInv ==
    ASSUME CleanFlips, TypeInv, RecordInv, TrafficInv, SessionInv, DiskInv,
           StartRollback \/ RollStep \/ RollCrash
    PROVE  DiskInv'
  <1> USE RollToKeeps, RollToBefore, StateFacts
      DEF TypeInv, TypeOK, RecordInv, Exclusive, RollSession, RollSteps, CleanFlips,
          FlipWindow, DiskInv, files, procs, caddy
  <1>1. CASE StartRollback
    BY <1>1 DEF StartRollback
  <1>2. CASE RollSwitchSymlink
    BY <1>2 DEF RollSwitchSymlink, Rollbacks
  <1>3. CASE RollBoot
    BY <1>3 DEF RollBoot
  <1>4. CASE RollHealthCheck
    BY <1>4 DEF RollHealthCheck
  <1>5. CASE RollUndo
    BY <1>5 DEF RollUndo
  <1>6. CASE RollRestore
    BY <1>6 DEF RollRestore, RestoredRelease
  <1>7. CASE RollConfigure
    BY <1>7 DEF RollConfigure
  <1>8. CASE RollReload
    BY <1>8 DEF RollReload
  <1>9. CASE RollWriteState
    <2>1. rb.to = "blue" => ~legacy
      BY <1>9 DEF RollWriteState, TrafficInv, RollFlip, SessionInv
    <2>2. deployState'.active = rb.to
      BY <1>9 DEF RollWriteState, States, Rollbacks
    <2> QED
      BY <1>9, <2>1, <2>2 DEF RollWriteState
  <1>10. CASE RollTruncateState
    BY <1>10 DEF RollTruncateState
  <1>11. CASE RollReap
    BY <1>11 DEF RollReap
  <1>12. CASE RollCommandFails
    BY <1>12 DEF RollCommandFails
  <1>13. CASE RollCrash
    BY <1>13 DEF RollCrash
  <1> QED
    BY <1>1, <1>2, <1>3, <1>4, <1>5, <1>6, <1>7, <1>8, <1>9, <1>10, <1>11, <1>12, <1>13
       DEF RollStep

LEMMA DeployServingInv ==
    ASSUME CleanFlips, Retention # "rollback", TypeInv, RecordInv, TrafficInv,
           SessionInv, DiskInv, ServingInv, Acquire \/ DeployStep \/ DeployCrash
    PROVE  ServingInv'
  <1> USE GotoKeepsAll, StateFacts
      DEF TypeInv, TypeOK, RecordInv, DeploySession, Switching, CleanFlips, FlipWindow,
          SessionInv, ServingInv, Online, files, procs, caddy
  <1>1. CASE Acquire
    BY <1>1 DEF Acquire, NoDeploy
  <1>2. CASE Create
    BY <1>2 DEF Create, Deploys
  <1>3. CASE Stage
    BY <1>3 DEF Stage
  <1>4. CASE SwitchSymlink
    BY <1>4 DEF SwitchSymlink, Deploys
  <1>5. CASE ResolveTarget
    <2>1. ~d.flipped /\ d'.flipped = d.flipped
      BY <1>5 DEF ResolveTarget, Trail, BeforeFlip, Deploys
    <2> QED
      BY <1>5, <2>1 DEF ResolveTarget
  <1>6. CASE WriteEcosystem
    BY <1>6 DEF WriteEcosystem
  <1>7. CASE ReapTarget
    BY <1>7 DEF ReapTarget, NoProc
  <1>8. CASE Boot
    <2>1. /\ d.pc = "boot" /\ ~d.flipped /\ d.rel \in onDisk /\ current = d.rel
          /\ d.target = resolveTarget(deployState) /\ eco[current] = d.target
      BY <1>8 DEF Boot, Trail, BeforeFlip
    <2>2. \A c \in Colors : proc'[c] = proc[c] \/ (c = d.target /\ proc'[c].rel = d.rel)
      BY <1>8, <2>1 DEF Boot, startCurrent
    <2>3. deployState.active = NoColor => d.target = "green"
      BY <2>1 DEF resolveTarget
    <2>4. UNCHANGED <<files, deployState>> /\ ~d'.flipped
      BY <1>8, <2>1 DEF Boot
    <2> QED
      BY <2>1, <2>2, <2>3, <2>4
  <1>9. CASE HealthCheck
    BY <1>9 DEF HealthCheck
  <1>10. CASE ReloadWorkers
    BY <1>10 DEF ReloadWorkers
  <1>11. CASE ConfigureBackend
    BY <1>11 DEF ConfigureBackend
  <1>12. CASE ReloadCaddy
    <2>1. /\ d.pc = "reload" /\ d.prevColor = deployState.active
          /\ d.target = resolveTarget(deployState)
      BY <1>12 DEF ReloadCaddy
    <2>2. deployState.active = NoColor => d.target = "green"
      BY <2>1 DEF resolveTarget
    <2>3. d'.target = d.target /\ d'.prevColor = d.prevColor
      BY <1>12 DEF ReloadCaddy, Deploys
    <2>4. UNCHANGED <<files, procs, deployState>>
      BY <1>12 DEF ReloadCaddy
    <2> QED
      BY <2>1, <2>2, <2>3, <2>4
  <1>13. CASE WriteDeployState
    <2>1. deployState'.active # NoColor
      <3>1. d.target \in Colors /\ d.carried \in States
        BY <1>13 DEF WriteDeployState, Trail, Launched, Deploys
      <3>2. deployState' = withRelease(d.carried, d.target, d.rel)
        BY <1>13 DEF WriteDeployState
      <3> QED
        BY <3>1, <3>2, WithReleaseFacts
    <2> QED
      BY <1>13, <2>1 DEF WriteDeployState
  <1>14. CASE TruncateDeployState
    BY <1>14 DEF TruncateDeployState
  <1>15. CASE AfterTrafficSwitch
    <2>1. \A c \in Colors : proc'[c] = proc[c] \/ proc'[c] = NoProc
      BY <1>15 DEF AfterTrafficSwitch, ReapedColor
    <2>2. UNCHANGED <<files, deployState>> /\ d'.flipped = d.flipped
      BY <1>15 DEF AfterTrafficSwitch
    <2>3. d'.prevColor = d.prevColor /\ d'.target = d.target
      BY <1>15 DEF AfterTrafficSwitch
    <2> QED
      BY <2>1, <2>2, <2>3 DEF NoProc
  <1>16. CASE RecordSuccess
    BY <1>16 DEF RecordSuccess
  <1>17. CASE PostDeploy
    BY <1>17 DEF PostDeploy
  <1>18. CASE CleanupOldReleases
    <2>1. /\ d.pc = "cleanup" /\ d.flipped /\ d.target \in Colors
          /\ d.prevColor \in Colors \cup {NoColor} /\ d.target # d.prevColor
          /\ proc[d.target].rel = d.rel /\ d.rel = minted
      BY <1>18 DEF CleanupOldReleases, Trail, Launched, Deploys
    <2>2. \A c \in Colors : Online(proc[c]) => c = d.target
      BY <2>1 DEF Concluded, NoProc
    <2>3. d.rel \in onDisk'
      BY <1>18, <2>1, NewestKept DEF CleanupOldReleases, Trail
    <2>4. UNCHANGED <<procs, deployState>> /\ d'.flipped = d.flipped
      BY <1>18 DEF CleanupOldReleases
    <2>5. d'.prevColor = d.prevColor /\ d'.target = d.target
      BY <1>18 DEF CleanupOldReleases
    <2> QED
      BY <2>1, <2>2, <2>3, <2>4, <2>5
  <1>19. CASE CommandFails
    BY <1>19 DEF CommandFails, BodySteps
  <1>20. CASE Revert
    BY <1>20 DEF Revert
  <1>21. CASE RecordFailed
    BY <1>21 DEF RecordFailed
  <1>22. CASE TruncateHistory
    BY <1>22 DEF TruncateHistory
  <1>23. CASE Unlock
    BY <1>23 DEF Unlock, NoDeploy
  <1>24. CASE DeployCrash
    BY <1>24 DEF DeployCrash, NoDeploy
  <1> QED
    BY <1>1, <1>2, <1>3, <1>4, <1>5, <1>6, <1>7, <1>8, <1>9, <1>10, <1>11, <1>12, <1>13, <1>14, <1>15, <1>16, <1>17, <1>18, <1>19, <1>20, <1>21, <1>22, <1>23, <1>24
       DEF DeployStep

LEMMA RollServingInv ==
    ASSUME CleanFlips, Retention # "rollback", TypeInv, RecordInv, TrafficInv,
           SessionInv, DiskInv, ServingInv, StartRollback \/ RollStep \/ RollCrash
    PROVE  ServingInv'
  <1> USE RollToKeeps, StateFacts
      DEF TypeInv, TypeOK, RecordInv, Exclusive, RollSession, RollSteps, CleanFlips,
          FlipWindow, SessionInv, ServingInv, Online, files, procs, caddy
  <1>1. CASE StartRollback
    BY <1>1 DEF StartRollback
  <1>2. CASE RollSwitchSymlink
    BY <1>2 DEF RollSwitchSymlink
  <1>3. CASE RollBoot
    <2>1. \A c \in Colors : proc'[c] = proc[c] \/ proc'[c].rel \in onDisk
      BY <1>3 DEF RollBoot, startCurrent, Startable, DiskInv
    <2>2. deployState.active # NoColor /\ d.pc = "idle" /\ ~d.flipped
      BY <1>3 DEF RollBoot, Fresh, NoDeploy
    <2> QED
      BY <1>3, <2>1, <2>2 DEF RollBoot
  <1>4. CASE RollHealthCheck
    BY <1>4 DEF RollHealthCheck
  <1>5. CASE RollUndo
    BY <1>5 DEF RollUndo, NoProc
  <1>6. CASE RollRestore
    BY <1>6 DEF RollRestore
  <1>7. CASE RollConfigure
    BY <1>7 DEF RollConfigure
  <1>8. CASE RollReload
    BY <1>8 DEF RollReload
  <1>9. CASE RollWriteState
    BY <1>9 DEF RollWriteState
  <1>10. CASE RollTruncateState
    BY <1>10 DEF RollTruncateState
  <1>11. CASE RollReap
    BY <1>11 DEF RollReap, NoProc
  <1>12. CASE RollCommandFails
    BY <1>12 DEF RollCommandFails
  <1>13. CASE RollCrash
    BY <1>13 DEF RollCrash
  <1> QED
    BY <1>1, <1>2, <1>3, <1>4, <1>5, <1>6, <1>7, <1>8, <1>9, <1>10, <1>11, <1>12, <1>13
       DEF RollStep

LEMMA NextDiskInv ==
    ASSUME CleanFlips
    PROVE  TypeInv /\ RecordInv /\ TrafficInv /\ SessionInv /\ DiskInv /\ [Next]_vars
             => DiskInv'
  <1> SUFFICES ASSUME TypeInv, RecordInv, TrafficInv, SessionInv, DiskInv,
                      [Next]_vars
               PROVE  DiskInv'
    OBVIOUS
  <1>1. CASE Acquire \/ DeployStep \/ DeployCrash
    BY <1>1, DeployDiskInv
  <1>2. CASE StartRollback \/ RollStep \/ RollCrash
    BY <1>2, RollDiskInv
  <1>3. CASE ClearOrphan \/ OtherAppReloadsCaddy \/ UNCHANGED vars
    BY <1>3 DEF ClearOrphan, OtherAppReloadsCaddy, vars, DiskInv, files, procs
  <1> QED
    BY <1>1, <1>2, <1>3 DEF Next

LEMMA NextServingInv ==
    ASSUME CleanFlips, Retention # "rollback"
    PROVE  TypeInv /\ RecordInv /\ TrafficInv /\ SessionInv /\ DiskInv /\ ServingInv
             /\ [Next]_vars => ServingInv'
  <1> SUFFICES ASSUME TypeInv, RecordInv, TrafficInv, SessionInv, DiskInv,
                      ServingInv, [Next]_vars
               PROVE  ServingInv'
    OBVIOUS
  <1>1. CASE Acquire \/ DeployStep \/ DeployCrash
    BY <1>1, DeployServingInv
  <1>2. CASE StartRollback \/ RollStep \/ RollCrash
    BY <1>2, RollServingInv
  <1>3. CASE ClearOrphan \/ OtherAppReloadsCaddy \/ UNCHANGED vars
    BY <1>3 DEF ClearOrphan, OtherAppReloadsCaddy, vars, ServingInv, files, procs
  <1> QED
    BY <1>1, <1>2, <1>3 DEF Next

\* Pruning spares the release that serves and the one `current` points at, for
\* every keepReleases, when the colour that stops serving is reaped: no rollback
\* overlaps a deploy and nothing fails inside the flip window.
THEOREM ServedReleaseKept ==
    ASSUME CleanFlips, Retention # "rollback"
    PROVE  Spec => []ServingReleaseOnDisk
  <1>1. ~Overlap
    BY DEF CleanFlips
  <1>2. TypeInv /\ RecordInv /\ [Next]_vars => RecordInv'
    BY <1>1, NextRecordInv
  <1>3. TypeInv /\ RecordInv /\ SessionInv /\ [Next]_vars => SessionInv'
    BY <1>1, NextSessionInv
  <1>4. TypeInv /\ DiskInv /\ ServingInv => ServingReleaseOnDisk
    BY DEF DiskInv, ServingInv, ServingReleaseOnDisk, Answering, TypeInv, TypeOK
  <1> QED
    BY <1>2, <1>3, <1>4, InitTypeInv, NextTypeInv, InitRecordInv, InitTrafficInv,
       NextTrafficInv, InitSessionInv, InitDiskInv, NextDiskInv, NextServingInv,
       PTL DEF Spec

-----------------------------------------------------------------------------
(* What a rollback that cannot start its colour undoes. *)

\* An app with an active colour has a release that `current` points at; a
\* rollback that moved `current` knows it, and stops what it started.
RestoreInv ==
    /\ deployState.active # NoColor => current # NoRelease
    /\ rb.pc \in {"rbBoot", "rbHealth", "rbUndo", "rbRestore"} => rb.before # NoRelease
    /\ rb.pc = "rbRestore" => proc[rb.to] = NoProc

UndoSucceeds == {"rbUndo", "rbRestore"} \cap FailAt = {}

LEMMA RollToBefore2 ==
    ASSUME rb \in Rollbacks, NEW pc, RollTo(pc)
    PROVE  pc # "idle" => rb'.before = rb.before
  BY DEF RollTo, Rollbacks, NoRollback

LEMMA DeployRestoreInv ==
    ASSUME ~Overlap, TypeInv, RecordInv, SessionInv, RestoreInv,
           Acquire \/ DeployStep \/ DeployCrash
    PROVE  RestoreInv'
  <1> USE DEF TypeInv, TypeOK, files, procs, caddy
  <1>1. rb'.pc = "idle"
    BY DEF RecordInv, Exclusive, Acquire, DeployStep, Create, Stage,
       SwitchSymlink, ResolveTarget, WriteEcosystem, ReapTarget, Boot,
       HealthCheck, ReloadWorkers, ConfigureBackend, ReloadCaddy,
       WriteDeployState, TruncateDeployState, AfterTrafficSwitch, RecordSuccess,
       PostDeploy, CleanupOldReleases, CommandFails, Revert, RecordFailed,
       TruncateHistory, Unlock, DeployCrash, DeploySteps, BodySteps, RollSteps
  <1>2. CASE WriteDeployState
    BY <1>1, <1>2 DEF WriteDeployState, SessionInv, Trail, RestoreInv
  <1>3. CASE TruncateDeployState
    BY <1>1, <1>3 DEF TruncateDeployState, NoState, RestoreInv
  <1>4. CASE SwitchSymlink
    BY <1>1, <1>4 DEF SwitchSymlink, RestoreInv
  <1>5. CASE Revert
    BY <1>1, <1>5 DEF Revert, RevertsSymlink, RestoreInv
  <1>6. CASE UNCHANGED <<current, deployState>>
    BY <1>1, <1>6 DEF RestoreInv
  <1> QED
    BY <1>2, <1>3, <1>4, <1>5, <1>6 DEF Acquire, DeployStep, Create, Stage,
       ResolveTarget, WriteEcosystem, ReapTarget, Boot, HealthCheck,
       ReloadWorkers, ConfigureBackend, ReloadCaddy, AfterTrafficSwitch,
       RecordSuccess, PostDeploy, CleanupOldReleases, CommandFails,
       RecordFailed, TruncateHistory, Unlock, DeployCrash

LEMMA RollRestoreInv ==
    ASSUME CleanFlips, UndoSucceeds, TypeInv, RecordInv, DiskInv, RestoreInv,
           StartRollback \/ RollStep \/ RollCrash
    PROVE  RestoreInv'
  <1> USE RollToKeeps, RollToBefore2, StateFacts
      DEF TypeInv, TypeOK, RecordInv, RollSession, RollSteps, CleanFlips,
          FlipWindow, UndoSucceeds, RestoreInv, files, procs, caddy
  <1>1. CASE StartRollback
    BY <1>1 DEF StartRollback
  <1>2. CASE RollSwitchSymlink
    BY <1>2 DEF RollSwitchSymlink, Rollbacks
  <1>3. CASE RollBoot
    BY <1>3 DEF RollBoot
  <1>4. CASE RollHealthCheck
    BY <1>4 DEF RollHealthCheck
  <1>5. CASE RollUndo
    <2>1. proc'[rb.to] = NoProc
      BY <1>5 DEF RollUndo
    <2> QED
      BY <1>5, <2>1 DEF RollUndo
  <1>6. CASE RollRestore
    BY <1>6 DEF RollRestore, RestoredRelease
  <1>7. CASE RollConfigure
    BY <1>7 DEF RollConfigure
  <1>8. CASE RollReload
    BY <1>8 DEF RollReload
  <1>9. CASE RollWriteState
    <2>1. /\ rb'.pc \in {"rbReap", "idle"}
          /\ current # NoRelease /\ UNCHANGED current
      BY <1>9 DEF RollWriteState
    <2> QED
      BY <2>1
  <1>10. CASE RollTruncateState
    BY <1>10 DEF RollTruncateState
  <1>11. CASE RollReap
    BY <1>11 DEF RollReap
  <1>12. CASE RollCommandFails
    BY <1>12 DEF RollCommandFails
  <1>13. CASE RollCrash
    BY <1>13 DEF RollCrash
  <1> QED
    BY <1>1, <1>2, <1>3, <1>4, <1>5, <1>6, <1>7, <1>8, <1>9, <1>10, <1>11, <1>12, <1>13
       DEF RollStep

LEMMA NextRestoreInv ==
    ASSUME CleanFlips, UndoSucceeds
    PROVE  TypeInv /\ RecordInv /\ SessionInv /\ DiskInv /\ RestoreInv /\ [Next]_vars
             => RestoreInv'
  <1> SUFFICES ASSUME TypeInv, RecordInv, SessionInv, DiskInv, RestoreInv,
                      [Next]_vars
               PROVE  RestoreInv'
    OBVIOUS
  <1>1. CASE Acquire \/ DeployStep \/ DeployCrash
    BY <1>1, DeployRestoreInv DEF CleanFlips
  <1>2. CASE StartRollback \/ RollStep \/ RollCrash
    BY <1>2, RollRestoreInv
  <1>3. CASE ClearOrphan \/ OtherAppReloadsCaddy \/ UNCHANGED vars
    BY <1>3 DEF ClearOrphan, OtherAppReloadsCaddy, vars, RestoreInv, files, procs
  <1> QED
    BY <1>1, <1>2, <1>3 DEF Next

\* A rollback that cannot start its colour leaves `current`, traffic and the
\* recorded state as they were and stops what it started, when the two commands
\* of its catch block succeed and nothing fails inside the flip window.
THEOREM FailedRollbackUndone ==
    ASSUME CleanFlips, UndoSucceeds
    PROVE  Spec => RollbackUndone
  <1>1. ~Overlap
    BY DEF CleanFlips
  <1>2. TypeInv /\ RecordInv /\ [Next]_vars => RecordInv'
    BY <1>1, NextRecordInv
  <1>3. TypeInv /\ RecordInv /\ SessionInv /\ [Next]_vars => SessionInv'
    BY <1>1, NextSessionInv
  <1>4. TypeInv /\ RecordInv /\ TrafficInv /\ RestoreInv /\ RollRestore =>
          /\ current' = rb.before /\ proc'[rb.to] = NoProc
          /\ deployState' = rb.st /\ upstream' = rb.st.active
    BY DEF RollRestore, RestoredRelease, RestoreInv, RecordInv, Exclusive,
       RollSession, RollSteps, TrafficInv, Flipping, FlipWindow, Agreed,
       UndoSucceeds, procs, caddy
  <1>5. TypeInv /\ RecordInv /\ TrafficInv /\ RestoreInv /\ [Next]_vars =>
          [RollRestore =>
             /\ current' = rb.before /\ proc'[rb.to] = NoProc
             /\ deployState' = rb.st /\ upstream' = rb.st.active]_vars
    BY <1>4
  <1>6. Init => RestoreInv
    BY NoStateFacts DEF Init, RestoreInv, NoRollback
  <1> QED
    BY <1>2, <1>3, <1>5, <1>6, InitTypeInv, NextTypeInv, InitRecordInv,
       InitTrafficInv, NextTrafficInv, InitSessionInv, InitDiskInv, NextDiskInv,
       NextRestoreInv, PTL DEF Spec, RollbackUndone

-----------------------------------------------------------------------------
(* BlueGreen implements TrafficSwitch, when moreover a started process either *)
(* passes the health check or dies, and nothing fails from the health check   *)
(* of a new colour to the flip: no unhealthy or unrecorded process is left    *)
(* behind for a rollback to turn to.                                          *)

CleanStarts ==
    /\ CleanFlips /\ "failing" \notin Conds
    /\ {"health", "workers", "configure"} \cap (FailAt \cup CrashAt) = {}

\* From the start of the new colour to the write of the state.
Starting == {"health", "workers", "configure", "reload", "writeState"}
\* Caddy uses the recorded colour (before the first flip none, or the port of
\* the uncoloured process).
Steady == IF deployState.active = NoColor THEN upstream \in {NoColor, "blue"}
          ELSE upstream = deployState.active
\* The active colour runs, and whatever runs is the healthy release recorded for
\* its colour, but for the colour a deploy is starting; traffic is on the
\* recorded colour or already on the one a session flips to.
ServedInv ==
    /\ deployState.active = NoColor => deployState = NoState
    /\ deployState.active # NoColor => Online(proc[deployState.active])
    /\ \A c \in Colors :
         Online(proc[c]) /\ ~(d.pc \in Starting /\ c = d.target) =>
           /\ deployState.rel[c] \in Release
           /\ proc[c] = [rel |-> deployState.rel[c], cond |-> "healthy"]
    /\ d.pc = "health" => proc[d.target].cond # "failing"
    /\ rb.pc = "rbBoot" => current = deployState.rel[rb.to]
    /\ upstream = "blue" /\ deployState.active = NoColor => legacy
    /\ \/ Steady
       \/ d.pc \in {"reload", "writeState"} /\ upstream = d.target
       \/ rb.pc \in {"rbReload", "rbWriteState"} /\ upstream = rb.to

LEMMA InitServedInv == Init => ServedInv
  BY NoStateFacts DEF Init, ServedInv, Steady, NoDeploy, NoRollback, NoProc,
     Online, Starting

LEMMA DeployServedInv ==
    ASSUME CleanStarts, TypeInv, RecordInv, TrafficInv, SessionInv, ServedInv,
           Acquire \/ DeployStep \/ DeployCrash
    PROVE  ServedInv'
  <1> USE GotoKeepsAll, StateFacts
      DEF TypeInv, TypeOK, RecordInv, Exclusive, DeploySession, Switching, CleanStarts,
          CleanFlips, FlipWindow, SessionInv, ServedInv, Steady, Starting, Online,
          files, procs, caddy
  <1>1. CASE Acquire
    BY <1>1 DEF Acquire, NoDeploy
  <1>2. CASE Create
    BY <1>2 DEF Create, Deploys
  <1>3. CASE Stage
    BY <1>3 DEF Stage
  <1>4. CASE SwitchSymlink
    BY <1>4 DEF SwitchSymlink, Deploys
  <1>5. CASE ResolveTarget
    BY <1>5 DEF ResolveTarget, Deploys
  <1>6. CASE WriteEcosystem
    BY <1>6 DEF WriteEcosystem
  <1>7. CASE ReapTarget
    <2>1. /\ d.pc = "reapTarget" /\ d.target \in Colors
          /\ d.target # deployState.active
      BY <1>7, TargetType DEF ReapTarget
    <2>2. /\ ~Online(proc'[d.target])
          /\ \A c \in Colors \ {d.target} : proc'[c] = proc[c]
      BY <1>7, <2>1 DEF ReapTarget, NoProc
    <2>3. d'.pc = "boot"
      BY <1>7 DEF ReapTarget
    <2> QED
      BY <1>7, <2>1, <2>2, <2>3 DEF ReapTarget
  <1>8. CASE Boot
    <2>1. /\ d.pc = "boot" /\ d.target \in Colors
          /\ d.target # deployState.active /\ eco[current] = d.target
      BY <1>8, TargetType DEF Boot
    <2>2. /\ proc'[d.target].cond # "failing"
          /\ \A c \in Colors \ {d.target} : proc'[c] = proc[c]
      BY <1>8, <2>1 DEF Boot, startCurrent, StartsOn
    <2>3. d'.pc = "health" /\ d'.target = d.target
      BY <1>8 DEF Boot
    <2> QED
      BY <1>8, <2>1, <2>2, <2>3 DEF Boot
  <1>9. CASE HealthCheck
    <2>1. /\ d.pc = "health" /\ d'.pc \in {"workers", "revert"}
          /\ d'.pc = "revert" => ~Online(proc[d.target])
      BY <1>9 DEF HealthCheck, passesHealthCheck
    <2>2. d'.target = d.target
      BY <1>9 DEF HealthCheck
    <2> QED
      BY <1>9, <2>1, <2>2 DEF HealthCheck
  <1>10. CASE ReloadWorkers
    BY <1>10 DEF ReloadWorkers
  <1>11. CASE ConfigureBackend
    BY <1>11 DEF ConfigureBackend
  <1>12. CASE ReloadCaddy
    <2>1. /\ d.pc = "reload" /\ d'.pc = "writeState" /\ d'.target = d.target
          /\ d.target # "blue" \/ deployState.active # NoColor
      BY <1>12 DEF ReloadCaddy, Deploys, resolveTarget
    <2>2. upstream' = d.target
      BY <1>12, <2>1 DEF ReloadCaddy, Launched
    <2>3. UNCHANGED <<minted, files, procs, site, deployState, rb>>
      BY <1>12 DEF ReloadCaddy
    <2> QED
      BY <2>1, <2>2, <2>3
  <1>13. CASE WriteDeployState
    <2>1. /\ d.pc = "writeState" /\ d.target \in Colors /\ d.rel \in Release
          /\ d.carried = deployState /\ d'.pc = "afterSwitch"
          /\ upstream = d.target
          /\ proc[d.target] = [rel |-> d.rel, cond |-> "healthy"]
      BY <1>13 DEF WriteDeployState, Trail, Launched
    <2>2. /\ deployState'.active = d.target
          /\ \A c \in Colors : deployState'.rel[c] =
                IF c = d.target THEN d.rel ELSE deployState.rel[c]
      BY <1>13, <2>1, WithReleaseFacts DEF WriteDeployState
    <2>3. UNCHANGED <<minted, files, procs, caddy, rb>>
      BY <1>13 DEF WriteDeployState
    <2> QED
      BY <2>1, <2>2, <2>3
  <1>14. CASE TruncateDeployState
    BY <1>14 DEF TruncateDeployState
  <1>15. CASE AfterTrafficSwitch
    <2>1. /\ d.pc = "afterSwitch" /\ d'.pc = "record"
          /\ deployState.active = d.target /\ d.target \in Colors
          /\ d.target # d.prevColor
      BY <1>15 DEF AfterTrafficSwitch, Trail, Launched, Concluded
    <2>2. \A c \in Colors : \/ proc'[c] = proc[c]
                            \/ c # d.target /\ ~Online(proc'[c])
      BY <1>15, <2>1 DEF AfterTrafficSwitch, ReapedColor, NoProc
    <2>3. UNCHANGED <<files, caddy, deployState, rb>>
      BY <1>15 DEF AfterTrafficSwitch
    <2> QED
      BY <2>1, <2>2, <2>3
  <1>16. CASE RecordSuccess
    BY <1>16 DEF RecordSuccess
  <1>17. CASE PostDeploy
    BY <1>17 DEF PostDeploy
  <1>18. CASE CleanupOldReleases
    BY <1>18 DEF CleanupOldReleases
  <1>19. CASE CommandFails
    BY <1>19 DEF CommandFails, BodySteps
  <1>20. CASE Revert
    BY <1>20 DEF Revert
  <1>21. CASE RecordFailed
    BY <1>21 DEF RecordFailed
  <1>22. CASE TruncateHistory
    BY <1>22 DEF TruncateHistory
  <1>23. CASE Unlock
    BY <1>23 DEF Unlock, NoDeploy
  <1>24. CASE DeployCrash
    BY <1>24 DEF DeployCrash, NoDeploy
  <1> QED
    BY <1>1, <1>2, <1>3, <1>4, <1>5, <1>6, <1>7, <1>8, <1>9, <1>10, <1>11, <1>12, <1>13, <1>14, <1>15, <1>16, <1>17, <1>18, <1>19, <1>20, <1>21, <1>22, <1>23, <1>24
       DEF DeployStep

LEMMA RollServedInv ==
    ASSUME CleanStarts, TypeInv, RecordInv, TrafficInv, SessionInv, ServedInv,
           StartRollback \/ RollStep \/ RollCrash
    PROVE  ServedInv'
  <1> USE RollToKeeps, StateFacts
      DEF TypeInv, TypeOK, RecordInv, Exclusive, RollSession, RollSteps, CleanStarts,
          CleanFlips, FlipWindow, ServedInv, Steady, Starting, Online, files, procs,
          caddy
  <1>1. CASE StartRollback
    BY <1>1 DEF StartRollback
  <1>2. CASE RollSwitchSymlink
    BY <1>2 DEF RollSwitchSymlink, Rollbacks
  <1>3. CASE RollBoot
    <2>1. /\ d.pc = "idle" /\ rb.pc = "rbBoot" /\ rb'.pc = "rbHealth"
          /\ rb.to \in Colors /\ rb.to # deployState.active
          /\ eco[current] = rb.to /\ current = deployState.rel[rb.to]
      BY <1>3 DEF RollBoot, otherColor
    <2>2. /\ \A c \in Colors \ {rb.to} : proc'[c] = proc[c]
          /\ Online(proc'[rb.to]) =>
               /\ current \in Release
               /\ proc'[rb.to] = [rel |-> current, cond |-> "healthy"]
      BY <1>3, <2>1 DEF RollBoot, startCurrent, Startable, StartsOn, AllConds
    <2>3. UNCHANGED <<files, caddy, legacy, deployState, d>>
      BY <1>3 DEF RollBoot
    <2> QED
      BY <2>1, <2>2, <2>3
  <1>4. CASE RollHealthCheck
    BY <1>4 DEF RollHealthCheck
  <1>5. CASE RollUndo
    <2>1. /\ d.pc = "idle" /\ rb'.pc = "rbRestore"
          /\ rb.to \in Colors /\ rb.to # deployState.active
      BY <1>5 DEF RollUndo, otherColor
    <2>2. \A c \in Colors : \/ proc'[c] = proc[c]
                            \/ c = rb.to /\ ~Online(proc'[c])
      BY <1>5, <2>1 DEF RollUndo, NoProc
    <2>3. UNCHANGED <<files, caddy, legacy, deployState, d>>
      BY <1>5 DEF RollUndo
    <2> QED
      BY <1>5, <2>1, <2>2, <2>3 DEF RollUndo
  <1>6. CASE RollRestore
    BY <1>6 DEF RollRestore
  <1>7. CASE RollConfigure
    BY <1>7 DEF RollConfigure
  <1>8. CASE RollReload
    BY <1>8 DEF RollReload, TrafficInv, RollFlip
  <1>9. CASE RollWriteState
    <2>1. /\ d.pc = "idle" /\ rb'.pc \in {"rbReap", "idle"}
          /\ rb.to \in Colors /\ upstream = rb.to /\ Online(proc[rb.to])
          /\ rb.st = deployState
      BY <1>9 DEF RollWriteState, TrafficInv, RollFlip
    <2>2. deployState'.active = rb.to /\ deployState'.rel = deployState.rel
      BY <1>9, <2>1 DEF RollWriteState, States
    <2>3. UNCHANGED <<files, caddy, procs, d>>
      BY <1>9 DEF RollWriteState
    <2> QED
      BY <2>1, <2>2, <2>3
  <1>10. CASE RollTruncateState
    BY <1>10 DEF RollTruncateState
  <1>11. CASE RollReap
    <2>1. /\ d.pc = "idle" /\ rb'.pc = "idle"
          /\ rb.st.active \in Colors /\ rb.st.active # deployState.active
      BY <1>11 DEF RollReap, TrafficInv, RollFlip, otherColor
    <2>2. \A c \in Colors : \/ proc'[c] = proc[c]
                            \/ c = rb.st.active /\ ~Online(proc'[c])
      BY <1>11, <2>1 DEF RollReap, NoProc
    <2>3. UNCHANGED <<files, caddy, legacy, deployState, d>>
      BY <1>11 DEF RollReap
    <2> QED
      BY <1>11, <2>1, <2>2, <2>3 DEF RollReap
  <1>12. CASE RollCommandFails
    BY <1>12 DEF RollCommandFails
  <1>13. CASE RollCrash
    BY <1>13 DEF RollCrash
  <1> QED
    BY <1>1, <1>2, <1>3, <1>4, <1>5, <1>6, <1>7, <1>8, <1>9, <1>10, <1>11, <1>12, <1>13
       DEF RollStep

LEMMA NextServedInv ==
    ASSUME CleanStarts
    PROVE  TypeInv /\ RecordInv /\ TrafficInv /\ SessionInv /\ ServedInv
             /\ [Next]_vars => ServedInv'
  <1> SUFFICES ASSUME TypeInv, RecordInv, TrafficInv, SessionInv, ServedInv,
                      [Next]_vars
               PROVE  ServedInv'
    OBVIOUS
  <1> USE DEF ServedInv, Steady
  <1>1. CASE Acquire \/ DeployStep \/ DeployCrash
    BY <1>1, DeployServedInv
  <1>2. CASE StartRollback \/ RollStep \/ RollCrash
    BY <1>2, RollServedInv
  <1>3. CASE OtherAppReloadsCaddy
    <2>1. /\ upstream # site
          /\ UNCHANGED <<minted, files, procs, site, deployState, d, rb>>
      BY <1>3 DEF OtherAppReloadsCaddy
    <2>2. \/ d.pc = "reload" /\ site = d.target /\ d.target = resolveTarget(deployState)
          \/ /\ rb.pc = "rbReload" /\ site = rb.to
             /\ deployState.active \in Colors
      <3>1. d.pc = "reload" \/ rb.pc = "rbReload"
        BY <2>1 DEF TrafficInv, Flipping, FlipWindow, Agreed, DeployFlip, RollFlip,
           TypeInv, TypeOK, Deploys, DeploySteps, BodySteps, Rollbacks, RollSteps
      <3>2. d.pc = "reload" => site = d.target /\ d.target = resolveTarget(deployState)
        BY DEF TrafficInv, DeployFlip, RecordInv, DeploySession, Switching
      <3>3. rb.pc = "rbReload" => site = rb.to /\ deployState.active \in Colors
        BY DEF TrafficInv, RollFlip, RecordInv, RollSession, RollSteps
      <3> QED
        BY <3>1, <3>2, <3>3
    <2>3. upstream' = site
      BY <1>3 DEF OtherAppReloadsCaddy
    <2>4. upstream' = "blue" => deployState.active # NoColor
      BY <2>2, <2>3 DEF resolveTarget
    <2> QED
      BY <2>1, <2>2, <2>3, <2>4 DEF files, procs
  <1>4. CASE ClearOrphan \/ UNCHANGED vars
    BY <1>4 DEF ClearOrphan, vars, files, procs, caddy
  <1> QED
    BY <1>1, <1>2, <1>3, <1>4 DEF Next

\* What serves and what a rollback would return to, outside and inside a flip.
Live  == IF deployState.active = NoColor THEN NoRelease
         ELSE deployState.rel[deployState.active]
Prior == IF deployState.active = NoColor THEN NoRelease
         ELSE deployState.rel[otherColor(deployState.active)]
ServedFacts ==
    /\ Served = IF Steady THEN Live
                ELSE IF d.pc \in {"reload", "writeState"} THEN d.rel ELSE Prior
    /\ Fallback = IF Steady THEN Prior ELSE Live

MapInv == TypeInv /\ RecordInv /\ TrafficInv /\ SessionInv /\ ServedInv

LEMMA MapsTo == MapInv => ServedFacts
  <1> SUFFICES ASSUME MapInv PROVE ServedFacts
    OBVIOUS
  <1> USE StateFacts DEF MapInv, TypeInv, TypeOK, SessionInv, ServedInv, ServedFacts,
          Served, Fallback, Live, Prior
  <1>1. CASE Steady /\ deployState.active = NoColor
    BY <1>1 DEF Steady
  <1>2. CASE Steady /\ deployState.active # NoColor
    <2>1. upstream = deployState.active /\ upstream \in Colors
      BY <1>2 DEF Steady
    <2>2. ~(d.pc \in Starting /\ upstream = d.target)
      BY <2>1, TargetType DEF Starting, RecordInv, DeploySession, Switching
    <2>3. /\ proc[upstream] = [rel |-> deployState.rel[upstream], cond |-> "healthy"]
          /\ ~(upstream = "blue" /\ legacy)
      BY <2>1, <2>2
    <2> QED
      BY <1>2, <2>1, <2>3
  <1>3. CASE ~Steady /\ d.pc \in {"reload", "writeState"}
    <2>1. /\ upstream = d.target /\ upstream \in Colors
          /\ upstream # deployState.active
          /\ proc[upstream] = [rel |-> d.rel, cond |-> "healthy"]
      BY <1>3, TargetType DEF Launched, RecordInv, Exclusive, RollSteps,
         DeploySession, Switching, Trail
    <2>2. ~(upstream = "blue" /\ legacy)
      BY <2>1 DEF Online
    <2> QED
      BY <1>3, <2>1, <2>2
  <1>4. CASE ~Steady /\ d.pc \notin {"reload", "writeState"}
    <2>1. /\ rb.pc \in {"rbReload", "rbWriteState"} /\ upstream = rb.to
          /\ d.pc = "idle" /\ deployState.active \in Colors
          /\ upstream = otherColor(deployState.active)
          /\ Online(proc[upstream])
      BY <1>4 DEF RecordInv, Exclusive, RollSession, RollSteps, TrafficInv, RollFlip
    <2>2. upstream \in Colors /\ upstream # deployState.active
      BY <2>1, OtherColorType
    <2>3. /\ proc[upstream] = [rel |-> deployState.rel[upstream], cond |-> "healthy"]
          /\ ~(upstream = "blue" /\ legacy)
      BY <2>1, <2>2 DEF Starting
    <2> QED
      BY <1>4, <2>1, <2>2, <2>3
  <1> QED
    BY <1>1, <1>2, <1>3, <1>4

\* Only the write of the state changes it.
LEMMA StateStep ==
    ASSUME CleanFlips, Next, deployState' # deployState
    PROVE  WriteDeployState \/ RollWriteState
  BY DEF CleanFlips, FlipWindow, Next, DeployStep, RollStep, Acquire, Create,
     Stage, SwitchSymlink, ResolveTarget, WriteEcosystem, ReapTarget, Boot,
     HealthCheck, ReloadWorkers, ConfigureBackend, ReloadCaddy,
     TruncateDeployState, AfterTrafficSwitch, RecordSuccess, PostDeploy,
     CleanupOldReleases, CommandFails, Revert, RecordFailed, TruncateHistory,
     Unlock, DeployCrash, StartRollback, RollCrash, ClearOrphan,
     OtherAppReloadsCaddy, RollSwitchSymlink, RollBoot, RollHealthCheck,
     RollUndo, RollRestore, RollConfigure, RollReload, RollTruncateState,
     RollReap, RollCommandFails

\* Only a reload moves traffic.
LEMMA UpstreamStep ==
    ASSUME Next, upstream' # upstream
    PROVE  ReloadCaddy \/ RollReload \/ OtherAppReloadsCaddy
  BY DEF Next, DeployStep, RollStep, Acquire, Create, Stage, SwitchSymlink,
     ResolveTarget, WriteEcosystem, ReapTarget, Boot, HealthCheck,
     ReloadWorkers, ConfigureBackend, WriteDeployState, TruncateDeployState,
     AfterTrafficSwitch, RecordSuccess, PostDeploy, CleanupOldReleases,
     CommandFails, Revert, RecordFailed, TruncateHistory, Unlock, DeployCrash,
     StartRollback, RollCrash, ClearOrphan, RollSwitchSymlink, RollBoot,
     RollHealthCheck, RollUndo, RollRestore, RollConfigure, RollWriteState,
     RollTruncateState, RollReap, RollCommandFails, caddy

\* Inside the window a deploy stays in it until the state is written.
LEMMA WindowStep ==
    ASSUME CleanFlips, TypeInv, RecordInv, Next, d.pc \in {"reload", "writeState"},
           deployState' = deployState
    PROVE  \/ d'.pc \in {"reload", "writeState"} /\ d'.rel = d.rel
           \/ WriteDeployState
  <1>1. rb.pc = "idle"
    BY DEF RecordInv, Exclusive
  <1>2. CASE ReloadCaddy
    BY <1>2 DEF ReloadCaddy, TypeInv, TypeOK, Deploys
  <1>3. CASE ClearOrphan \/ OtherAppReloadsCaddy \/ StartRollback \/ RollStep \/ RollCrash
    BY <1>1, <1>3, RollStepPc DEF ClearOrphan, OtherAppReloadsCaddy, StartRollback
  <1> QED
    BY <1>2, <1>3 DEF Next, DeployStep, CleanFlips, FlipWindow, Acquire, Create,
       Stage, SwitchSymlink, ResolveTarget, WriteEcosystem, ReapTarget, Boot,
       HealthCheck, ReloadWorkers, ConfigureBackend, TruncateDeployState,
       AfterTrafficSwitch, RecordSuccess, PostDeploy, CleanupOldReleases,
       CommandFails, Revert, RecordFailed, TruncateHistory, Unlock, DeployCrash

LEMMA TrafficStep ==
    ASSUME CleanStarts, MapInv, MapInv', ServedFacts, ServedFacts', Next
    PROVE  [Traffic!Next]_(Traffic!vars)
  <1> USE StateFacts DEF MapInv, TypeInv, TypeOK, ServedFacts
  <1>0. CleanFlips /\ deployState.active \in Colors \cup {NoColor}
    BY DEF CleanStarts
  <1>1. CASE WriteDeployState
    <2>1. /\ d.pc = "writeState" /\ d.carried = deployState
          /\ d.target = resolveTarget(deployState) /\ d.target \in Colors
          /\ upstream = d.target /\ d.target # deployState.active
      BY <1>1, TargetType DEF WriteDeployState, RecordInv, DeploySession, Switching,
                  SessionInv, Trail, Launched
    <2>2. /\ deployState'.active = d.target
          /\ \A c \in Colors : deployState'.rel[c] =
                IF c = d.target THEN d.rel ELSE deployState.rel[c]
      BY <1>1, <2>1, WithReleaseFacts DEF WriteDeployState
    <2>3. upstream' = upstream
      BY <1>1 DEF WriteDeployState, caddy
    <2>4. ~Steady /\ Steady'
      BY <2>1, <2>2, <2>3 DEF Steady, resolveTarget
    <2>5. Served = d.rel /\ Fallback = Live /\ Served' = Live' /\ Fallback' = Prior'
      BY <2>1, <2>4
    <2>6. Live' = d.rel
      BY <2>1, <2>2 DEF Live
    <2>7. Prior' = deployState.rel[otherColor(d.target)]
      BY <2>1, <2>2, OtherColorType DEF Prior
    <2>8. CASE deployState.active = NoColor
      BY <2>1, <2>5, <2>6, <2>7, <2>8, OtherColorType, NoStateFacts
         DEF Live, ServedInv, Traffic!vars
    <2>9. CASE deployState.active # NoColor
      <3>1. otherColor(d.target) = deployState.active
        BY <1>0, <2>1, <2>9 DEF otherColor
      <3> QED
        BY <2>5, <2>6, <2>7, <2>9, <3>1 DEF Live, Traffic!vars
    <2> QED
      BY <2>8, <2>9
  <1>2. CASE RollWriteState
    <2>1. /\ rb.pc = "rbWriteState" /\ d.pc = "idle" /\ rb.st = deployState
          /\ deployState.active \in Colors /\ rb.to = otherColor(deployState.active)
          /\ upstream = rb.to
      BY <1>2 DEF RollWriteState, RecordInv, Exclusive, RollSession, RollSteps,
                  TrafficInv, RollFlip
    <2>2. /\ rb.to \in Colors /\ rb.to # deployState.active
          /\ otherColor(rb.to) = deployState.active
      BY <2>1 DEF otherColor
    <2>3. deployState'.active = rb.to /\ deployState'.rel = deployState.rel
      BY <1>2, <2>1 DEF RollWriteState, States
    <2>4. upstream' = upstream
      BY <1>2 DEF RollWriteState, caddy
    <2>5. ~Steady /\ Steady'
      BY <2>1, <2>2, <2>3, <2>4 DEF Steady
    <2>6. Served = Prior /\ Fallback = Live /\ Served' = Live' /\ Fallback' = Prior'
      BY <2>1, <2>5
    <2>7. Live' = Prior /\ Prior' = Live
      BY <2>1, <2>2, <2>3 DEF Live, Prior
    <2> QED
      BY <2>6, <2>7 DEF Traffic!vars
  <1>3. CASE deployState' = deployState /\ upstream' # upstream
    <2>1. Live' = Live /\ Prior' = Prior
      BY <1>3 DEF Live, Prior
    <2>2. CASE d.pc = "reload"
      <3>1. /\ upstream' = d.target /\ d.target = resolveTarget(deployState)
            /\ d.target # deployState.active /\ site = d.target /\ rb.pc = "idle"
        BY <1>3, <2>2, UpstreamStep, TargetType DEF ReloadCaddy, RollReload,
           OtherAppReloadsCaddy, RecordInv, Exclusive, DeploySession, Switching,
           SessionInv, Launched
      <3>2. Steady /\ ~Steady'
        BY <1>3, <2>2, <3>1 DEF Steady, ServedInv, resolveTarget
      <3>3. d'.pc \in {"reload", "writeState"} /\ d'.rel = d.rel
        BY <1>0, <1>3, <2>2, <3>2, WindowStep DEF WriteDeployState
      <3>4. Served = Live /\ Fallback = Prior /\ Served' = d.rel /\ Fallback' = Live
        BY <2>1, <3>2, <3>3
      <3>5. d.rel \in Release /\ d.rel > Live /\ d.rel > Prior
        BY <1>0, <2>2, OtherColorType DEF Live, Prior, RecordInv, DeploySession,
           Switching, SessionInv
      <3> QED
        BY <3>4, <3>5 DEF Traffic!Next, Traffic!Deploy
    <2>3. CASE d.pc # "reload"
      <3>1. /\ rb.pc = "rbReload" /\ d.pc = "idle" /\ site = rb.to
            /\ deployState.active \in Colors /\ rb.to = otherColor(deployState.active)
            /\ Online(proc[rb.to]) /\ upstream' = rb.to
        BY <1>3, <2>3, UpstreamStep DEF ReloadCaddy, RollReload,
           OtherAppReloadsCaddy, RecordInv, Exclusive, RollSession, RollSteps,
           TrafficInv, Flipping, FlipWindow, Agreed, RollFlip, DeployFlip, Deploys,
           DeploySteps, BodySteps, Rollbacks
      <3>2. Steady /\ ~Steady' /\ rb.to \in Colors
        BY <1>3, <3>1, OtherColorType DEF Steady, ServedInv
      <3>3. d'.pc = "idle"
        BY <1>3, <3>1, UpstreamStep DEF ReloadCaddy, RollReload, OtherAppReloadsCaddy
      <3>4. Served = Live /\ Fallback = Prior /\ Served' = Prior /\ Fallback' = Live
        BY <2>1, <3>2, <3>3
      <3>5. Prior # 0
        BY <3>1, <3>2 DEF Prior, ServedInv, Starting
      <3> QED
        BY <3>4, <3>5 DEF Traffic!Next, Traffic!Rollback
    <2> QED
      BY <2>2, <2>3
  <1>4. CASE deployState' = deployState /\ upstream' = upstream /\ ~WriteDeployState
    <2>1. /\ Live' = Live /\ Prior' = Prior /\ Steady' = Steady
      BY <1>4 DEF Live, Prior, Steady
    <2>2. CASE Steady
      BY <2>1, <2>2 DEF Traffic!vars
    <2>3. CASE ~Steady /\ d.pc \in {"reload", "writeState"}
      <3>1. d'.pc \in {"reload", "writeState"} /\ d'.rel = d.rel
        BY <1>0, <1>4, <2>3, WindowStep
      <3> QED
        BY <2>1, <2>3, <3>1 DEF Traffic!vars
    <2>4. CASE ~Steady /\ d.pc \notin {"reload", "writeState"}
      <3>1. rb.pc \in {"rbReload", "rbWriteState"} /\ d.pc = "idle"
        BY <2>4 DEF ServedInv, RecordInv, Exclusive, RollSteps
      <3>2. d'.pc \notin {"reload", "writeState"}
        <4>1. ~DeployStep
          BY <3>1 DEF DeployStep, Create, Stage, SwitchSymlink, ResolveTarget,
             WriteEcosystem, ReapTarget, Boot, HealthCheck, ReloadWorkers,
             ConfigureBackend, ReloadCaddy, WriteDeployState,
             TruncateDeployState, AfterTrafficSwitch, RecordSuccess, PostDeploy,
             CleanupOldReleases, CommandFails, Revert, RecordFailed,
             TruncateHistory, Unlock, BodySteps
        <4>2. CASE Acquire \/ DeployCrash
          <5>1. CASE Acquire
            BY <5>1, StateTypes DEF Acquire, Deploys
          <5>2. CASE DeployCrash
            BY <5>2 DEF DeployCrash, NoDeploy
          <5> QED
            BY <4>2, <5>1, <5>2
        <4>3. CASE StartRollback \/ RollStep \/ RollCrash \/ ClearOrphan \/ OtherAppReloadsCaddy
          BY <3>1, <4>3, RollStepPc DEF StartRollback, ClearOrphan, OtherAppReloadsCaddy
        <4> QED
          BY <4>1, <4>2, <4>3 DEF Next
      <3> QED
        BY <2>1, <2>4, <3>2 DEF Traffic!vars
    <2> QED
      BY <2>2, <2>3, <2>4
  <1> QED
    BY <1>0, <1>1, <1>2, <1>3, <1>4, StateStep

\* BlueGreen implements TrafficSwitch, for every number of releases, keepReleases
\* and retention: requests are answered by one release after another, a deploy
\* moves them to a newer one and a rollback back to the one before, whatever
\* else fails.
THEOREM TrafficRefinement ==
    ASSUME CleanStarts
    PROVE  Spec => TrafficSpec
  <1>1. CleanFlips /\ ~Overlap
    BY DEF CleanStarts, CleanFlips
  <1>2. TypeInv /\ RecordInv /\ [Next]_vars => RecordInv'
    BY <1>1, NextRecordInv
  <1>3. TypeInv /\ RecordInv /\ TrafficInv /\ [Next]_vars => TrafficInv'
    BY <1>1, NextTrafficInv
  <1>4. TypeInv /\ RecordInv /\ SessionInv /\ [Next]_vars => SessionInv'
    BY <1>1, NextSessionInv
  <1>5. Init => MapInv
    BY InitTypeInv, InitRecordInv, InitTrafficInv, InitSessionInv, InitServedInv
       DEF MapInv
  <1>6. MapInv /\ [Next]_vars => MapInv'
    BY <1>2, <1>3, <1>4, NextTypeInv, NextServedInv DEF MapInv
  <1>7. Init => Traffic!Init
    BY NoStateFacts DEF Init, Traffic!Init, Served, Fallback
  <1>8. MapInv /\ MapInv' /\ ServedFacts /\ ServedFacts' /\ [Next]_vars =>
          [Traffic!Next]_(Traffic!vars)
    <2>1. CASE Next
      BY <2>1, TrafficStep
    <2>2. CASE UNCHANGED vars
      BY <2>2 DEF vars, files, procs, caddy, Traffic!vars, Served, Fallback
    <2> QED
      BY <2>1, <2>2
  <1> QED
    BY <1>5, <1>6, <1>7, <1>8, MapsTo, PTL DEF Spec, TrafficSpec, Traffic!Spec

=============================================================================
