----------------------------- MODULE DeployLock -----------------------------
(***************************************************************************)
(* The deploy lock of domain/release/manager.ts: a directory on the server *)
(* made with `mkdir`, taken over once it is an hour old, and removed by    *)
(* `rm -rf`. Several clients run acquire's shell script and release at the *)
(* same time; `shipnode unlock` (cli/commands/unlock.ts) removes the lock  *)
(* for an operator. A step is one command of a script.                     *)
(***************************************************************************)
EXTENDS Integers, FiniteSets

CONSTANTS
    Clients,     \* invocations of `shipnode deploy`
    StaleAfter,  \* staleAfterSeconds, in ticks
    MaxTime,     \* bound: the clock stops here
    Operator,    \* whether an operator may run `shipnode unlock`
    DiskFull     \* whether the disk may be too full for a new file

ASSUME TimeAssumption == /\ StaleAfter \in Nat \ {0}
                         /\ MaxTime \in Nat
                         /\ Operator \in BOOLEAN /\ DiskFull \in BOOLEAN
ASSUME ClientAssumption == "nobody" \notin Clients

VARIABLES
    now,         \* the server's clock
    lockDir,     \* .shipnode/deploy.lock: the client that made it, its mtime,
                 \* and whether the file `acquired` is in it
    pc,          \* where each client is
    unlock,      \* the operator's `shipnode unlock`: idle, or lock found
    robbed       \* history: some live client has had its lock removed

vars == <<now, lockDir, pc, unlock, robbed>>

NoLock == [owner |-> "nobody", mtime |-> 0, dated |-> FALSE]
Exists == lockDir # NoLock

\* Where a client that made the lock directory goes on to hold the lock.
Grants == {"date", "date2", "holding"}
PCs    == Grants \cup {"idle", "mkdir", "exists", "stat", "rmStale", "mkdir2",
                       "dead"}

Goto(c, l) == pc' = [pc EXCEPT ![c] = l]

\* The lock directory is removed, whoever made it.
Remover(c) == lockDir.owner \in Clients \ {c} /\ pc[lockDir.owner] \in Grants
RemoveLock(c) == /\ lockDir' = NoLock
                 /\ robbed' = (robbed \/ Remover(c))

-----------------------------------------------------------------------------
(* DeployLock.acquire: acquire_lock, and once more after clearing a lock     *)
(* that looks stale.                                                         *)

Start(c) == /\ pc[c] = "idle"
            /\ Goto(c, "mkdir")
            /\ UNCHANGED <<now, lockDir, unlock, robbed>>

\* The time stamped on the directory is the server's.
Stamp == now

\* `mkdir`, which only one client can win.
mkdirWins_Parents == TRUE
mkdirWins == ~Exists

Mkdir(c, from, won, lost) ==
    /\ pc[c] = from
    /\ \/ /\ mkdirWins
          /\ lockDir' = [owner |-> c, mtime |-> Stamp, dated |-> FALSE]
          /\ Goto(c, won)
       \/ Exists /\ ~mkdirWins /\ UNCHANGED lockDir /\ Goto(c, lost)
       \/ ~Exists /\ DiskFull /\ UNCHANGED lockDir /\ Goto(c, lost)
    /\ UNCHANGED <<now, unlock, robbed>>

\* `date > deploy.lock/acquired` writes into whichever directory is there; a new
\* file there moves the directory's mtime. It fails once the directory has gone,
\* or on a full disk, and then nothing removes the directory.
WriteDate(c, from, lost) ==
    /\ pc[c] = from
    /\ \/ /\ Exists
          /\ lockDir' = [lockDir EXCEPT !.dated = TRUE,
                            !.mtime = IF lockDir.dated THEN @ ELSE Stamp]
          /\ Goto(c, "holding")
       \/ ~Exists /\ UNCHANGED lockDir /\ Goto(c, lost)
       \/ Exists /\ DiskFull /\ UNCHANGED lockDir /\ Goto(c, lost)
    /\ UNCHANGED <<now, unlock, robbed>>

\* `[ -e deploy.lock ]`: no lock means LOCKED:0, the client gives up.
TestExists(c) == /\ pc[c] = "exists"
                 /\ Goto(c, IF Exists THEN "stat" ELSE "idle")
                 /\ UNCHANGED <<now, lockDir, unlock, robbed>>

\* `stat -c %Y deploy.lock || echo 0`: a lock that has gone since is as old as
\* the epoch. A younger one is LOCKED:age, and the client gives up.
IsStale == Exists => now - lockDir.mtime >= StaleAfter

StatAge(c) == /\ pc[c] = "stat"
              /\ Goto(c, IF IsStale THEN "rmStale" ELSE "idle")
              /\ UNCHANGED <<now, lockDir, unlock, robbed>>

RemoveStale(c) == /\ pc[c] = "rmStale"
                  /\ RemoveLock(c)
                  /\ Goto(c, "mkdir2")
                  /\ UNCHANGED <<now, unlock>>

Acquire(c) == \/ Mkdir(c, "mkdir", "date", "exists")
              \/ WriteDate(c, "date", "exists")
              \/ TestExists(c)
              \/ StatAge(c)
              \/ RemoveStale(c)
              \/ Mkdir(c, "mkdir2", "date2", "idle")
              \/ WriteDate(c, "date2", "idle")

-----------------------------------------------------------------------------

\* DeployLock.release: `rm -rf deploy.lock`, without a look at whose it is.
LockAfterRelease_IfFresh(c) ==
    IF IsStale THEN UNCHANGED <<lockDir, robbed>> ELSE RemoveLock(c)
LockAfterRelease(c) == RemoveLock(c)

Release(c) == /\ pc[c] = "holding"
              /\ LockAfterRelease(c)
              /\ Goto(c, "idle")
              /\ UNCHANGED <<now, unlock>>

\* The deploying client dies while it holds the lock, or loses the server:
\* release swallows that.
Crash(c) == /\ pc[c] = "holding"
            /\ Goto(c, "dead")
            /\ UNCHANGED <<now, lockDir, unlock, robbed>>

\* `shipnode unlock` looks, asks the operator, and removes.
UnlockCheck == /\ Operator /\ unlock = "idle" /\ Exists
               /\ unlock' = "found"
               /\ UNCHANGED <<now, lockDir, pc, robbed>>

UnlockClear == /\ unlock = "found"
               /\ RemoveLock("nobody")
               /\ unlock' = "idle"
               /\ UNCHANGED <<now, pc>>

UnlockCancel == /\ unlock = "found"
                /\ unlock' = "idle"
                /\ UNCHANGED <<now, lockDir, pc, robbed>>

Tick == /\ now < MaxTime
        /\ now' = now + 1
        /\ UNCHANGED <<lockDir, pc, unlock, robbed>>

Init == /\ now = 0
        /\ lockDir = NoLock
        /\ pc = [c \in Clients |-> "idle"]
        /\ unlock = "idle"
        /\ robbed = FALSE

Next == \/ Tick \/ UnlockCheck \/ UnlockClear \/ UnlockCancel
        \/ \E c \in Clients : Start(c) \/ Acquire(c) \/ Release(c) \/ Crash(c)

Spec == Init /\ [][Next]_vars

-----------------------------------------------------------------------------
(* Properties. *)

LockDirs == [owner : Clients \cup {"nobody"}, mtime : 0 .. MaxTime,
             dated : BOOLEAN]

\* Every variable has its type.
TypeOK == /\ now \in 0 .. MaxTime
          /\ lockDir \in LockDirs
          /\ pc \in [Clients -> PCs]
          /\ unlock \in {"idle", "found"}
          /\ robbed \in BOOLEAN

\* "An atomic mkdir-based lock preventing concurrent deployments."
MutualExclusion ==
    \A a, b \in Clients : pc[a] = "holding" /\ pc[b] = "holding" => a = b

\* Until a live client has its lock removed, by a takeover or by an operator,
\* at most one client holds it, and a takeover from a dead client is safe.
ExclusiveUnlessRobbed == ~robbed => MutualExclusion

\* A lock directory that was completed (`acquired` written) is left behind by a
\* dead client only: however clients rob each other, somebody who holds the lock
\* is still there to remove it. (One left by a full disk has no such file.)
NoLeakedLock ==
    lockDir.dated => \E c \in Clients : pc[c] \in {"holding", "dead"}

\* As long as nobody was robbed, release removes the client's own lock, so the
\* first robbery is a takeover or an operator's.
ReleaseRemovesOwnLock ==
    [][\A c \in Clients : Release(c) /\ ~robbed => lockDir.owner = c]_vars
=============================================================================
