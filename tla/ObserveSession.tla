--------------------------- MODULE ObserveSession ---------------------------
(***************************************************************************)
(* `shipnode monitor`: the polling session of services/observe/session.ts   *)
(* over the collectors of domain/observe/collector.ts, the view of a fleet  *)
(* it derives (domain/observe/pivot.ts, cli/monitor/fleet-model.ts) and the *)
(* rollback of one replica the dashboard offers (cli/monitor/App.tsx,       *)
(* actions.ts). SSH is opened once, before the first tick (cli/observe.ts), *)
(* and never again.                                                         *)
(***************************************************************************)
EXTENDS Integers, FiniteSets, SequencesExt

CONSTANTS
    Hosts,        \* [Server -> SUBSET App], the configuration
    Targets,      \* the servers observed, a sequence: all of them, or --on's
    Probed,       \* the app with an HTTP health check
    Threshold,    \* HEALTH_ALERT_THRESHOLD
    Width,        \* MAX_CONCURRENT_POLLS
    Cadence,      \* ticks between two samples of the accessories
    MaxTicks,     \* bound: polls
    MaxOutside    \* bound: deploys, timeouts and closed connections, all together

Server == DOMAIN Hosts
App    == UNION {Hosts[s] : s \in Server}
Watched == ToSet(Targets)
Replicas(a) == {s \in Server : a \in Hosts[s]}
Probe  == {"ok", "fail", "none"}

ASSUME SessionAssumption ==
    /\ IsFiniteSet(Server) /\ Targets \in Seq(Server) /\ IsInjective(Targets)
    /\ Threshold \in Nat \ {0} /\ Width \in Nat \ {0} /\ Cadence \in Nat \ {0}

VARIABLES
    link,         \* each server's connection: "up", "closed" or "never" opened
    release,      \* what `current` points at, per server and app
    newest,       \* the newest of its releases; they are 1 .. newest
    locked,       \* the servers a deploy is at work on
    snap,         \* the session's last snapshot of each server
    unreachable,
    streak,       \* healthStreaks, of the probed app
    polling, queue, answer, ticks, sampling,
    view,         \* the snapshots as last published
    dialog,       \* the open rollback dialog
    told,         \* what the events last said of a server: "up" or "down"
    toldSick,     \* the servers whose probed app they last called failing
    parted,       \* apps a rollback from the dashboard has split
    outside

world   == <<link, release, newest, locked>>
session == <<snap, unreachable, streak, told, toldSick>>
poll    == <<polling, queue, answer, ticks, sampling>>
sessionVars == <<world, session, poll, view, dialog, parted, outside>>

Unread(kind) == [kind |-> kind, release |-> <<>>, newest |-> <<>>, locked |-> FALSE,
                 accessories |-> FALSE]
NoSnap   == Unread("none")
NoAnswer == [kind |-> "none"]
Asked    == [kind |-> "asked"]
NoDialog == [server |-> "none", app |-> "none", row |-> 0]

-----------------------------------------------------------------------------
(* The servers. *)

BeginDeploy(s) ==
    /\ s \notin locked /\ locked' = locked \cup {s}
    /\ outside < MaxOutside /\ outside' = outside + 1
    /\ UNCHANGED <<link, release, newest, session, poll, view, dialog, parted>>

EndDeploy(s) ==
    /\ s \in locked /\ locked' = locked \ {s}
    /\ \E a \in Hosts[s] :
        /\ newest' = [newest EXCEPT ![s][a] = @ + 1]
        /\ release' = [release EXCEPT ![s][a] = newest[s][a] + 1]
    /\ UNCHANGED <<link, session, poll, view, dialog, parted, outside>>

CloseLink(s) ==
    /\ link[s] = "up" /\ outside < MaxOutside
    /\ link' = [link EXCEPT ![s] = "closed"] /\ outside' = outside + 1
    /\ UNCHANGED <<release, newest, locked, session, poll, view, dialog, parted>>

-----------------------------------------------------------------------------
(* tick and forEachTarget *)

TickStart ==
    /\ ~polling /\ ticks < MaxTicks
    /\ polling' = TRUE /\ view' = snap
    /\ sampling' = (ticks % Cadence = 0)
    /\ ticks' = ticks + 1 /\ queue' = Targets
    /\ UNCHANGED <<world, session, answer, dialog, parted, outside>>

\* Each of the workers takes the head of the queue and awaits its answer.
InFlight == {s \in Watched : answer[s] # NoAnswer}

Visit ==
    /\ queue # <<>> /\ Cardinality(InFlight) < Width
    /\ answer' = [answer EXCEPT ![Head(queue)] = Asked]
    /\ queue' = Tail(queue)
    /\ UNCHANGED <<world, session, polling, ticks, sampling, view, dialog, parted, outside>>

\* collect: the script reads the server in one go.
Reading(s, probe) ==
    [kind |-> "ok", release |-> release[s], newest |-> newest[s], locked |-> s \in locked,
     accessories |-> sampling, probe |-> probe]

\* exec on a closed connection rejects; a host never reached has a stub.
Unconnected(s) == link[s] # "up"

Answer(s) ==
    /\ answer[s] = Asked
    /\ \/ /\ link[s] = "up"
          /\ \E probe \in IF Probed \in Hosts[s] THEN Probe ELSE {"none"} :
                answer' = [answer EXCEPT ![s] = Reading(s, probe)]
          /\ UNCHANGED outside
       \/ /\ link[s] = "up" /\ outside < MaxOutside /\ outside' = outside + 1
          /\ answer' = [answer EXCEPT ![s] = Unread("error")]
       \/ /\ Unconnected(s) /\ UNCHANGED outside
          /\ answer' = [answer EXCEPT ![s] = Unread("error")]
    /\ UNCHANGED <<world, session, polling, queue, ticks, sampling, view, dialog, parted>>

nextHealthFailStreak(previous, probe) ==
    CASE probe = "none" -> previous
      [] probe = "fail" -> previous + 1
      [] probe = "ok"   -> 0

\* trackHealth: only a crossing of the threshold is told.
trackHealth_EveryFail(s, new) ==
    toldSick' = IF new = Threshold /\ streak[s] < Threshold THEN toldSick \cup {s} ELSE toldSick

trackHealth(s, new) ==
    toldSick' = IF new = Threshold /\ streak[s] < Threshold THEN toldSick \cup {s}
                ELSE IF new = 0 /\ streak[s] >= Threshold THEN toldSick \ {s}
                ELSE toldSick

\* absorb: accessories that were not sampled are carried over.
Absorb(s) ==
    /\ answer[s] \notin {NoAnswer, Asked}
    /\ answer' = [answer EXCEPT ![s] = NoAnswer]
    /\ snap' = [snap EXCEPT ![s] =
            [kind |-> answer[s].kind, release |-> answer[s].release, newest |-> answer[s].newest,
             locked |-> answer[s].locked,
             accessories |-> answer[s].accessories \/ snap[s].accessories]]
    /\ IF answer[s].kind = "error"
       THEN /\ unreachable' = unreachable \cup {s}
            /\ told' = IF s \in unreachable THEN told ELSE [told EXCEPT ![s] = "down"]
            /\ UNCHANGED <<streak, toldSick>>
       ELSE /\ unreachable' = unreachable \ {s}
            /\ told' = IF s \in unreachable THEN [told EXCEPT ![s] = "up"] ELSE told
            /\ LET new == nextHealthFailStreak(streak[s], answer[s].probe) IN
               /\ streak' = [streak EXCEPT ![s] = new]
               /\ trackHealth(s, new)
    /\ UNCHANGED <<world, polling, queue, ticks, sampling, view, dialog, parted, outside>>

TickEnd ==
    /\ polling /\ queue = <<>> /\ InFlight = {}
    /\ polling' = FALSE /\ view' = snap
    /\ UNCHANGED <<world, session, queue, answer, ticks, sampling, dialog, parted, outside>>

-----------------------------------------------------------------------------
(* pivotByApp and buildFleetRows, over what is published. *)

Answering(a)  == {s \in Watched : view[s].kind = "ok" /\ a \in Hosts[s]}
\* The apps a failed server was planned to run.
Failing(a)    == {s \in Watched : view[s].kind = "error" /\ a \in Hosts[s]}

replicated_Answering(a) == Cardinality(Answering(a)) > 1

replicated(a) == Cardinality(Answering(a)) + Cardinality(Failing(a)) > 1

-----------------------------------------------------------------------------
(* The rollback of one replica from its detail view. A release is picked by *)
(* its row, counted from the newest: a publish moves the rows under the     *)
(* open dialog.                                                             *)

Row(s, a, row) == view[s].newest[a] - row

OpenDialog(s, a) ==
    /\ dialog = NoDialog /\ s \in Answering(a)
    /\ ~view[s].locked /\ ~replicated(a)
    /\ \E row \in 0 .. view[s].newest[a] - 1 :
        /\ Row(s, a, row) # view[s].release[a]
        /\ dialog' = [server |-> s, app |-> a, row |-> row]
    /\ UNCHANGED <<world, session, poll, view, parted, outside>>

\* Without a snapshot there is no row, and the dialog is not drawn; it stays
\* open, and no other key is answered while it is.
Drawn == dialog # NoDialog /\ view[dialog.server].kind = "ok"

Cancel ==
    /\ Drawn /\ dialog' = NoDialog
    /\ UNCHANGED <<world, session, poll, view, parted, outside>>

\* rollbackToRelease takes no lock; it may fail at any of its commands. The
\* notice before it publishes what the session has so far.
Confirm ==
    /\ Drawn /\ dialog' = NoDialog
    /\ LET s == dialog.server
           a == dialog.app IN
       /\ \/ link[s] = "up" /\ release' = [release EXCEPT ![s][a] = Row(s, a, dialog.row)]
          \/ UNCHANGED release
       /\ parted' = IF /\ \A u \in Replicas(a) : release[u][a] = release[s][a]
                       /\ \E t \in Replicas(a) : release'[t][a] # release'[s][a]
                    THEN parted \cup {a} ELSE parted
    /\ view' = snap
    /\ UNCHANGED <<link, newest, locked, session, poll, outside>>

-----------------------------------------------------------------------------
SessionInit ==
    /\ link \in [Server -> {"up", "never"}]
    /\ newest = [s \in Server |-> [a \in Hosts[s] |-> 2]] /\ release = newest /\ locked = {}
    /\ snap = [s \in Server |-> NoSnap] /\ unreachable = {}
    /\ streak = [s \in Server |-> 0] /\ toldSick = {}
    /\ told = [s \in Server |-> "up"]
    /\ polling = FALSE /\ queue = <<>> /\ answer = [s \in Server |-> NoAnswer]
    /\ ticks = 0 /\ sampling = FALSE
    /\ view = snap /\ dialog = NoDialog /\ parted = {} /\ outside = 0

Tick == TickStart \/ Visit \/ TickEnd \/ \E s \in Server : Answer(s) \/ Absorb(s)
Operator == Cancel \/ Confirm \/ \E s \in Server : \E a \in Hosts[s] : OpenDialog(s, a)
Remote == \E s \in Server : BeginDeploy(s) \/ EndDeploy(s) \/ CloseLink(s)
SessionNext == Tick \/ Operator \/ Remote

\* Every exec resolves, rejects or times out, and the workers await nothing else.
SessionFairness ==
    /\ WF_sessionVars(Visit) /\ WF_sessionVars(TickEnd)
    /\ \A s \in Server : WF_sessionVars(Answer(s)) /\ WF_sessionVars(Absorb(s))

=============================================================================
