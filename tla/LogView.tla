------------------------------- MODULE LogView -------------------------------
(***************************************************************************)
(* What the log viewer shows of the buffered lines: the pure functions of   *)
(* domain/observe/log-filter.ts and the key handling of                     *)
(* cli/monitor/log-view-state.ts. A query is the set of texts it matches;   *)
(* the empty query and an invalid one match everything.                     *)
(***************************************************************************)
EXTENDS Integers, FiniteSets, SequencesExt

CONSTANTS
    Lines,       \* the lines that may arrive: [server, app, process, level, levelKnown, text]
    Queries,     \* the searches typed
    Height,      \* rows of the viewer
    MaxLines     \* bound: lines buffered

VARIABLES
    live,        \* the buffer
    filter,
    frozen,      \* the buffer as it was when the view was frozen, or Following
    offset       \* lines scrolled back from the newest

viewVars == <<live, filter, frozen, offset>>

Rank == [debug |-> 0, info |-> 1, warn |-> 2, error |-> 3]
LogLevel == DOMAIN Rank
All == "all"                    \* null in the source
Everything == {"all texts"}     \* no matcher

EmptyFilter == [server |-> All, app |-> All, process |-> All, minLevel |-> All,
                query |-> Everything, mode |-> "hide"]

Matches(line, query) == query = Everything \/ line.text \in query

\* matchesScope: every dimension but the query.
InScope(line, f) ==
    /\ f.server  \in {All, line.server}
    /\ f.app     \in {All, line.app}
    /\ f.process \in {All, line.process}
    /\ f.minLevel # All => Rank[line.level] >= Rank[f.minLevel]

\* applyLogFilter, the positions of the lines it keeps: dim mode keeps what the
\* query does not match.
Shown(lines, f) ==
    {i \in DOMAIN lines : InScope(lines[i], f) /\ (Matches(lines[i], f.query) \/ f.mode = "dim")}

Counted_Frames(line) == TRUE

\* A frame is shown at its inherited level but not tallied again.
Counted(line) == line.levelKnown \/ line.level = "info"

countLevels(lines, f) ==
    [level \in LogLevel |->
        Cardinality({i \in DOMAIN lines :
            /\ InScope(lines[i], [f EXCEPT !.minLevel = All])
            /\ f.mode = "hide" => Matches(lines[i], f.query)
            /\ Counted(lines[i]) /\ lines[i].level = level})]

\* logFacets: each dimension offers what the ones before it leave.
Offered(lines, f, dimension) ==
    {line[dimension] : line \in {l \in ToSet(lines) :
        /\ dimension = "server" \/ f.server \in {All, l.server}
        /\ dimension = "process" => f.app \in {All, l.app} /\ l.process # All}}

\* Picking a server forgets the app and the process, picking an app the process.
Pick(f, dimension, value) ==
    CASE dimension = "server"  -> [f EXCEPT !.server = value, !.app = All, !.process = All]
      [] dimension = "app"     -> [f EXCEPT !.app = value, !.process = All]
      [] dimension = "process" -> [f EXCEPT !.process = value]

-----------------------------------------------------------------------------
(* logViewReducer and the keys of cli/monitor/App.tsx. *)

Following == [following |-> TRUE]
Frozen(lines) == [following |-> FALSE, lines |-> lines]
Backing == IF frozen.following THEN live ELSE frozen.lines
Filtered == Shown(Backing, filter)

Arrive(line) ==
    /\ Len(live) < MaxLines /\ live' = Append(live, line)
    /\ UNCHANGED <<filter, frozen, offset>>

\* s, a, p: the next or previous one offered, or all of them.
Cycle(dimension) ==
    /\ \E value \in Offered(live, filter, dimension) \cup {All} :
        filter' = Pick(filter, dimension, value)
    /\ UNCHANGED <<live, frozen, offset>>

\* v, m and the search; the view is filtered as the query is typed.
CycleLevel ==
    /\ filter' = [filter EXCEPT !.minLevel = CASE @ = All -> "warn" [] @ = "warn" -> "error"
                                               [] OTHER -> All]
    /\ UNCHANGED <<live, frozen, offset>>
ToggleMode ==
    /\ filter' = [filter EXCEPT !.mode = IF @ = "hide" THEN "dim" ELSE "hide"]
    /\ UNCHANGED <<live, frozen, offset>>
Search ==
    /\ \E query \in Queries \cup {Everything} : filter' = [filter EXCEPT !.query = query]
    /\ UNCHANGED <<live, frozen, offset>>
ClearFilters ==
    /\ filter' = [EmptyFilter EXCEPT !.mode = filter.mode]
    /\ UNCHANGED <<live, frozen, offset>>

TogglePause ==
    /\ frozen' = IF frozen.following THEN Frozen(live) ELSE Following
    /\ offset' = 0 /\ UNCHANGED <<live, filter>>
Resume ==
    /\ frozen' = Following /\ offset' = 0
    /\ UNCHANGED <<live, filter>>

\* The first scroll up freezes the view.
Scroll(delta) ==
    /\ ~frozen.following \/ delta > 0
    /\ frozen' = IF frozen.following THEN Frozen(live) ELSE frozen
    /\ LET max == IF Cardinality(Filtered) > Height THEN Cardinality(Filtered) - Height ELSE 0
           to  == IF offset + delta < 0 THEN 0 ELSE offset + delta IN
       offset' = IF to > max THEN max ELSE to
    /\ UNCHANGED <<live, filter>>

\* C, and entering the view from a replica or an app.
Clear == live' = <<>> /\ frozen' = Following /\ offset' = 0 /\ UNCHANGED filter
Enter ==
    /\ \E server \in {l.server : l \in Lines} \cup {All}, app \in {l.app : l \in Lines} \cup {All} :
        filter' = [EmptyFilter EXCEPT !.server = server, !.app = app]
    /\ frozen' = Following /\ offset' = 0 /\ UNCHANGED live

ViewInit == live = <<>> /\ filter = EmptyFilter /\ frozen = Following /\ offset = 0

ViewNext ==
    \/ \E line \in Lines : Arrive(line)
    \/ \E dimension \in {"server", "app", "process"} : Cycle(dimension)
    \/ CycleLevel \/ ToggleMode \/ Search \/ ClearFilters
    \/ TogglePause \/ Resume \/ Scroll(1) \/ Scroll(-1) \/ Clear \/ Enter
=============================================================================
