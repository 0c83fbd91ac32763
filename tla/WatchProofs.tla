----------------------------- MODULE WatchProofs -----------------------------
(***************************************************************************)
(* Theorems about Watch: the deploy lock in `shipnode deploy --watch`, for *)
(* any sessions, edits, mishaps and numbers of them.                       *)
(***************************************************************************)
EXTENDS Watch, TLAPS

\* Where the session has the lock, and where the signal handler knows of it.
Locked == {"baseline", "unlockBase", "took", "connect", "build", "building", "sync",
           "prepare", "reload", "release"}
Known  == {"connect", "build", "building", "sync", "prepare", "reload", "release",
           "released", "exited"}

\* The handler closes the watcher, so no batch starts a cycle behind its back.
NoNewCycle   == Stopping => watcher \in {"none", "closed"}
HandlerKnows == lockHeld => pc \in Known
HandlerWaits == Stopping => pc \in Known \cup {"idle"}
LockGone     == sig = "released" => lock # "us"
LockedInCycle == ~Stopping /\ pc \in Locked => lock = "us"

WatchInv == /\ NoNewCycle /\ HandlerKnows /\ HandlerWaits /\ LockGone /\ LockedInCycle

LEMMA InitWatchInv == Init => WatchInv
  BY DEF Init, WatchInv, NoNewCycle, HandlerKnows, HandlerWaits, LockGone, LockedInCycle,
         Stopping, Locked, Known

LEMMA CycleKeeps == ASSUME WatchInv, Cycle PROVE WatchInv'
  <1> USE DEF WatchInv, NoNewCycle, HandlerKnows, HandlerWaits, LockGone, LockedInCycle,
              Stopping, Locked, Known, Goto
  <1>1. CASE Acquire
    BY <1>1 DEF Acquire, NextBatch, watch
  <1>2. CASE Took
    BY <1>2 DEF Took, First, watch
  <1>3. CASE Connect
    BY <1>3 DEF Connect, First, watch
  <1>4. CASE Build
    BY <1>4 DEF Build
  <1>5. CASE Building
    BY <1>5 DEF Building, Throw
  <1>6. CASE Sync
    BY <1>6 DEF Sync, Throw, watch
  <1>7. CASE Prepare
    BY <1>7 DEF Prepare, Throw, watch
  <1>8. CASE Reload
    BY <1>8 DEF Reload, Throw, watch
  <1>9. CASE Release
    BY <1>9 DEF Release, watch
  <1>10. CASE Released
    BY <1>10 DEF Released, NextBatch, watch
  <1> QED
    BY <1>1, <1>2, <1>3, <1>4, <1>5, <1>6, <1>7, <1>8, <1>9, <1>10 DEF Cycle

LEMMA NextWatchInv == WatchInv /\ [Next]_vars => WatchInv'
  <1> SUFFICES ASSUME WatchInv, [Next]_vars PROVE WatchInv'
    OBVIOUS
  <1> USE DEF WatchInv, NoNewCycle, HandlerKnows, HandlerWaits, LockGone, LockedInCycle,
              Stopping, Locked, Known, Goto, watch, loop
  <1>1. ASSUME NEW p \in Path, Edit(p) \/ Notify(p) PROVE WatchInv'
    BY <1>1 DEF Edit, Notify
  <1>2. CASE DevBuild \/ Scan
    BY <1>2 DEF DevBuild, Scan
  <1>3. CASE Emit
    BY <1>3 DEF Emit
  <1>4. CASE Start
    BY <1>4 DEF Start, Prebuild, AcquireBase, Baseline, UnlockBase
  <1>5. CASE Interrupt \/ InterruptAgain
    BY <1>5 DEF Interrupt, InterruptAgain, Exit
  <1>6. CASE Shutdown
    BY <1>6 DEF Shutdown, ShutdownRelease, ShutdownTimeout, Finish, Exit
  <1>7. CASE Drop \/ OtherLocks \/ OtherDone
    BY <1>7 DEF Drop, OtherLocks, OtherDone
  <1>8. CASE UNCHANGED vars
    BY <1>8 DEF vars
  <1> QED
    BY <1>1, <1>2, <1>3, <1>4, <1>5, <1>6, <1>7, <1>8, CycleKeeps DEF Next, Notice

THEOREM LockInvariant == Spec => []WatchInv
  <1> QED
    BY InitWatchInv, NextWatchInv, PTL DEF Spec

\* Ctrl-C: once the handler's release of the deploy lock is done, the cycle that
\* still runs beside it never leaves the lock with this session when it exits.
THEOREM ReleasedForGood == Spec => []CtrlCReleases
  <1>1. WatchInv => CtrlCReleases
    BY DEF WatchInv, LockGone, CtrlCReleases
  <1> QED
    BY <1>1, LockInvariant, PTL

\* Until Ctrl-C, the server changes in the session's hands only under the deploy
\* lock, and the lock of another deploy is never removed.
THEOREM SyncsUnderLock == Spec => LockRespected
  <1>1. ASSUME WatchInv, [Next]_vars, ~Stopping, ~OtherDone
        PROVE  /\ server' # server => lock = "us"
               /\ lock = "other" => lock' = "other"
    <2> USE <1>1 DEF WatchInv, LockedInCycle, Locked, Goto
    <2>1. ASSUME NEW p \in Path, Edit(p) \/ Notify(p)
          PROVE  server' = server /\ lock' = lock
      BY <2>1 DEF Edit, Notify, server
    <2>2. CASE DevBuild \/ Scan \/ Emit \/ Interrupt \/ InterruptAgain \/ Drop
      BY <2>2 DEF DevBuild, Scan, Emit, Interrupt, InterruptAgain, Drop, server
    <2>3. CASE Start
      BY <2>3 DEF Start, Prebuild, AcquireBase, Baseline, UnlockBase, server
    <2>4. CASE Cycle
      BY <2>4 DEF Cycle, Acquire, Took, Connect, Build, Building, Sync, Prepare, Reload,
                  Release, Released, server
    <2>5. CASE Shutdown
      BY <2>5 DEF Shutdown, ShutdownRelease, ShutdownTimeout, Finish, Stopping, server
    <2>6. CASE OtherLocks
      BY <2>6 DEF OtherLocks, server
    <2>7. CASE UNCHANGED vars
      BY <2>7 DEF vars, server
    <2> QED
      BY <1>1, <2>1, <2>2, <2>3, <2>4, <2>5, <2>6, <2>7 DEF Next, Notice
  <1>2. WatchInv /\ [Next]_vars =>
          [~Stopping /\ ~OtherDone =>
             /\ server' # server => lock = "us"
             /\ lock = "other" => lock' = "other"]_vars
    BY <1>1
  <1> QED
    BY <1>2, LockInvariant, PTL DEF Spec, LockRespected
=============================================================================
