------------------------------- MODULE Observe -------------------------------
(***************************************************************************)
(* The commands that observe a fleet: `shipnode logs --follow` runs a log   *)
(* stream, `shipnode monitor` a polling session, and its log view filters   *)
(* the buffer a stream fills. Each runs in a process of its own.            *)
(***************************************************************************)
EXTENDS LogStream, ObserveSession, LogView

VARIABLE command     \* "logs", "monitor" or "view"

vars == <<command, streamVars, sessionVars, viewVars>>

\* No stream runs.
StreamOff ==
    /\ ssh = "closed" /\ log = [s \in Source |-> <<>>] /\ written = [s \in Source |-> 0]
    /\ StreamIdle /\ chan = [s \in Source |-> "done"] /\ aborted = TRUE

Init ==
    /\ command \in {"logs", "monitor", "view"}
    /\ IF command = "logs" THEN StreamInit ELSE StreamOff
    /\ IF command = "monitor" THEN SessionInit ELSE SessionInit /\ \A s \in Server : link[s] = "up"
    /\ ViewInit

Next ==
    /\ UNCHANGED command
    /\ \/ command = "logs" /\ StreamNext /\ UNCHANGED <<sessionVars, viewVars>>
       \/ command = "monitor" /\ SessionNext /\ UNCHANGED <<streamVars, viewVars>>
       \/ command = "view" /\ ViewNext /\ UNCHANGED <<streamVars, sessionVars>>

FairSpec == Init /\ [][Next]_vars /\ StreamFairness /\ SessionFairness

-----------------------------------------------------------------------------

(* LogStream. A line of a log is printed once across all reconnects: at     *)
(* most once where no two lines are alike, because the guard takes replayed *)
(* lines out, and at least once if no line is like it and a stream offered  *)
(* it, because the guard takes nothing else out. A stream broken in the     *)
(* middle of a line may repeat: its fragment enters what the guard knows.   *)
Unlike(s, i) == log[s][i] # "blank" /\ \A j \in DOMAIN log[s] \ {i} : log[s][j] # log[s][i]

EachLineOnce == \A s \in Source :
    /\ (s \notin torn /\ \A i \in DOMAIN log[s] : Unlike(s, i)) =>
          \A i \in DOMAIN log[s] : shown[s][i] <= 1
    /\ \A i \in offered[s] : (Unlike(s, i) /\ i <= sent[s]) => shown[s][i] >= 1

(* LogStream. While the connection stands and nobody stops it, every line   *)
(* written is offered, or has fallen out of the backlog, and the loop is    *)
(* back to following: no stream stays behind, and none stays "reconnecting".*)
CatchesUp == \A s \in Source :
    (command = "logs") ~>
        (aborted \/ ssh = "closed" \/ (chan[s] = "open" /\ sent[s] = written[s] /\ health[s] = "live"))

(* LogView. The count beside a level is the number of lines with that level *)
(* of their own one would see by switching to it, and a value offered for a *)
(* dimension leaves something to see, levels and search aside.              *)
CountsAndOffersHold ==
    /\ \A level \in LogLevel \ {"debug"} :
        countLevels(Backing, filter)[level] =
            Cardinality({i \in Shown(Backing, [filter EXCEPT !.minLevel = level]) :
                Backing[i].level = level /\ (Backing[i].levelKnown \/ level = "info")})
    /\ \A dimension \in {"server", "app", "process"} :
        \A value \in Offered(live, filter, dimension) :
            Shown(live, [Pick(filter, dimension, value) EXCEPT !.minLevel = All, !.query = Everything])
                # {}

(* ObserveSession. The events tell what the session saw: a server was last  *)
(* said to be unreachable iff its last poll failed, and its app to be       *)
(* failing iff that many probes in a row have; so alerts alternate and none *)
(* is left standing.                                                        *)
AlertsAgree == \A s \in Server :
    /\ told[s] = "down" <=> snap[s].kind = "error"
    /\ s \in toldSick <=> streak[s] >= Threshold

(* The dashboard never splits a fleet that was on one release: a replica of *)
(* a fleet is never rolled back alone, even while the others do not answer. *)
FleetStaysTogether == parted = {}

=============================================================================
