------------------------------ MODULE LogStream ------------------------------
(***************************************************************************)
(* The log stream of services/observe/log-stream.ts, with the line          *)
(* assembler, replay guard and level detection of                           *)
(* domain/observe/log-line.ts: every source is followed over the SSH        *)
(* connection its server already has, a stream that ends is followed again, *)
(* and the backlog it then replays is recognised and dropped.               *)
(*                                                                         *)
(* A source is one file: a unit's journal, Caddy's log, or a PM2 app that   *)
(* writes one. The follow command of a PM2 app with several replays one     *)
(* file after another, which is no run of what it delivered before.         *)
(*                                                                         *)
(* A log is a sequence of texts, and a text stands for what detectLevel and *)
(* isContinuation say of it. A chunk is a line or the beginning of one.     *)
(***************************************************************************)
EXTENDS Integers, FiniteSets, SequencesExt

CONSTANTS
    Source,      \* the followed sources, all on one server
    Logs,        \* the logs the sources may write, functions from Source
    Backlog,     \* lines a follow command replays first
    Window,      \* lines the replay guard remembers
    Capacity,    \* lines the merged buffer holds
    MaxEnds      \* bound: streams that end while the connection is up

ASSUME StreamAssumption ==
    /\ Backlog \in Nat \ {0} /\ Window \in Nat \ {0} /\ Capacity \in Nat \ {0} /\ MaxEnds \in Nat
    /\ Logs \subseteq [Source -> Seq(STRING)]

VARIABLES
    ssh,         \* the connection: "up", or "closed" for good
    log,         \* what each source writes, in the end
    written,     \* how much of it is in the file
    chan,        \* of each follow loop: "idle", "open", "backoff" or "done"
    sent,        \* lines the open channel has delivered or skipped
    half,        \* whether the assembler holds the beginning of the next line
    guard,       \* its replay guard
    lastLevel,   \* the level its last line with one announced
    health,      \* what the viewer is told of it
    buffer,      \* the newest lines of all sources
    aborted,     \* stop() was called
    ends,
    shown,       \* how often each line of each log was pushed
    offered,     \* the lines of each log some channel offered, or may still offer
    torn         \* a source whose stream ended in the middle of a line

files  == <<log, written>>
follow == <<chan, sent, half, guard, lastLevel, health>>
seenBy == <<shown, offered, torn>>
streamVars == <<ssh, files, follow, buffer, aborted, ends, seenBy>>

-----------------------------------------------------------------------------
(* domain/observe/log-line.ts *)

\* Half a line is another text than the line.
Whole(t) == [text |-> t, part |-> FALSE]
Part(t)  == [text |-> t, part |-> TRUE]

detectLevel(line) == IF line.part THEN "none"
                     ELSE CASE line.text = "boom" -> "error"
                            [] line.text = "slow" -> "warn"
                            [] line.text = "note" -> "info"
                            [] OTHER -> "none"

isContinuation(line) == line.text = "frame"

\* `at` holds the positions of the replay each surviving alignment expects
\* next: one past the end is an alignment that has nothing left to match.
NoReplay == [seen |-> <<>>, replay |-> <<>>, at |-> {}]

arm(g) == [g EXCEPT !.replay = g.seen, !.at = DOMAIN g.seen]

Newest(seq, n) == SubSeq(seq, Len(seq) - n + 1, Len(seq))

LastOf(seq, n) == IF Len(seq) > n THEN Newest(seq, n) ELSE seq

Advanced_FirstGuess(g, line) ==
    {i + 1 : i \in {j \in g.at : /\ j \in DOMAIN g.replay /\ g.replay[j] = line
                                 /\ \A k \in g.at : j <= k}}

Advanced(g, line) ==
    {i + 1 : i \in {j \in g.at : j \in DOMAIN g.replay /\ g.replay[j] = line}}

Accepts(g, line) == Advanced(g, line) = {}

accept(g, line) ==
    IF Accepts(g, line)
    THEN [seen |-> LastOf(Append(g.seen, line), Window), replay |-> <<>>, at |-> {}]
    ELSE [g EXCEPT !.at = Advanced(g, line)]

-----------------------------------------------------------------------------
(* ingest, in the order of its steps: guard, level, push *)

Level(s, line) ==
    IF detectLevel(line) # "none" THEN detectLevel(line)
    ELSE IF isContinuation(line) /\ lastLevel[s] # "none" THEN lastLevel[s]
    ELSE "info"

push(s, line, i) ==
    /\ buffer' = LastOf(Append(buffer, [source |-> s, line |-> line, level |-> Level(s, line),
                                        levelKnown |-> detectLevel(line) # "none"]), Capacity)
    /\ shown' = IF line.part THEN shown ELSE [shown EXCEPT ![s][i] = @ + 1]

\* A blank line is dropped before the guard sees it.
ingest(s, line, i) ==
    IF line.text = "blank" THEN UNCHANGED <<guard, lastLevel, buffer, shown>>
    ELSE /\ guard' = [guard EXCEPT ![s] = accept(@, line)]
         /\ IF Accepts(guard[s], line)
            THEN /\ lastLevel' = IF detectLevel(line) = "none" THEN lastLevel
                                 ELSE [lastLevel EXCEPT ![s] = detectLevel(line)]
                 /\ push(s, line, i)
            ELSE UNCHANGED <<lastLevel, buffer, shown>>

-----------------------------------------------------------------------------
(* The sources and the connection. *)

Write(s) ==
    /\ written[s] < Len(log[s])
    /\ written' = [written EXCEPT ![s] = @ + 1]
    /\ UNCHANGED <<ssh, log, follow, buffer, aborted, ends, seenBy>>

\* Nothing opens it again: the stream runs on the connection it was given.
Drop ==
    /\ ssh = "up" /\ ssh' = "closed"
    /\ UNCHANGED <<files, follow, buffer, aborted, ends, seenBy>>

-----------------------------------------------------------------------------
(* follow, one loop per source *)

\* The top of the loop. On a closed connection exec rejects at once.
Connect(s) ==
    /\ chan[s] \in {"idle", "backoff"} /\ ~aborted
    /\ LET first == chan[s] = "idle" IN
       /\ guard' = IF first THEN guard ELSE [guard EXCEPT ![s] = arm(@)]
       /\ half' = [half EXCEPT ![s] = FALSE]
       /\ IF ssh = "up"
          THEN LET from == IF written[s] > Backlog THEN written[s] - Backlog ELSE 0 IN
               /\ chan' = [chan EXCEPT ![s] = "open"]
               /\ sent' = [sent EXCEPT ![s] = from]
               /\ offered' = [offered EXCEPT ![s] = @ \cup (from + 1) .. Len(log[s])]
               /\ health' = [health EXCEPT ![s] = IF first THEN "connecting" ELSE "reconnecting"]
          ELSE /\ chan' = [chan EXCEPT ![s] = "backoff"]
               /\ health' = [health EXCEPT ![s] = "reconnecting"]
               /\ UNCHANGED <<sent, offered>>
    /\ UNCHANGED <<ssh, files, lastLevel, buffer, aborted, ends, shown, torn>>

BecomeLive_OnData(s) == FALSE

\* liveAfterMs without data.
BecomeLive(s) ==
    /\ chan[s] = "open" /\ health[s] # "live" /\ ~aborted
    /\ health' = [health EXCEPT ![s] = "live"]
    /\ UNCHANGED <<ssh, files, chan, sent, half, guard, lastLevel, buffer, aborted, ends, seenBy>>

\* onData
Receive(s) ==
    /\ chan[s] = "open" /\ ssh = "up" /\ ~aborted /\ sent[s] < written[s]
    /\ health' = [health EXCEPT ![s] = "live"]
    /\ \/ /\ ~half[s]
          /\ half' = [half EXCEPT ![s] = TRUE]
          /\ UNCHANGED <<sent, guard, lastLevel, buffer, shown>>
       \/ /\ half' = [half EXCEPT ![s] = FALSE]
          /\ sent' = [sent EXCEPT ![s] = @ + 1]
          /\ ingest(s, Whole(log[s][sent[s] + 1]), sent[s] + 1)
    /\ UNCHANGED <<ssh, files, chan, aborted, ends, offered, torn>>

\* exec returned: what the assembler still holds is taken as a line. When it
\* rejected instead, it is not.
TakeTail(s) ==
    /\ half' = [half EXCEPT ![s] = FALSE]
    /\ torn' = IF half[s] THEN torn \cup {s} ELSE torn
    /\ \/ half[s] /\ ingest(s, Part(log[s][sent[s] + 1]), sent[s] + 1)
       \/ UNCHANGED <<guard, lastLevel, buffer, shown>>

\* The lines the channel had yet to send are lost with it, and offered again
\* only if they are still among the last ones when it is opened next.
Unoffer(s) == offered' = [offered EXCEPT ![s] = @ \ (sent[s] + 1) .. Len(log[s])]

\* The remote command ended, or the connection closed under it.
End(s) ==
    /\ chan[s] = "open" /\ ~aborted
    /\ ssh = "closed" \/ ends < MaxEnds
    /\ ends' = IF ssh = "closed" THEN ends ELSE ends + 1
    /\ TakeTail(s)
    /\ Unoffer(s)
    /\ chan' = [chan EXCEPT ![s] = "backoff"]
    /\ health' = [health EXCEPT ![s] = "reconnecting"]
    /\ UNCHANGED <<ssh, files, sent, aborted>>

\* Ctrl-C, or the dashboard goes away. clear() is for the viewer only.
Stop ==
    /\ ~aborted /\ aborted' = TRUE
    /\ UNCHANGED <<ssh, files, follow, buffer, ends, seenBy>>

\* The signal closes the channel or cuts the backoff short; exec still returns.
Wind(s) ==
    /\ aborted /\ chan[s] # "done"
    /\ IF chan[s] = "open" THEN TakeTail(s)
       ELSE UNCHANGED <<half, guard, lastLevel, buffer, shown, torn>>
    /\ Unoffer(s)
    /\ chan' = [chan EXCEPT ![s] = "done"]
    /\ UNCHANGED <<ssh, files, sent, health, aborted, ends>>

-----------------------------------------------------------------------------
StreamIdle ==
    /\ sent = [s \in Source |-> 0]
    /\ half = [s \in Source |-> FALSE] /\ guard = [s \in Source |-> NoReplay]
    /\ lastLevel = [s \in Source |-> "none"] /\ health = [s \in Source |-> "connecting"]
    /\ buffer = <<>> /\ ends = 0
    /\ shown = [s \in Source |-> [i \in DOMAIN log[s] |-> 0]]
    /\ offered = [s \in Source |-> {}] /\ torn = {}

StreamInit ==
    /\ ssh = "up" /\ log \in Logs
    /\ written = [s \in Source |-> IF Len(log[s]) > Backlog THEN Backlog ELSE 0]
    /\ StreamIdle /\ chan = [s \in Source |-> "idle"] /\ aborted = FALSE

Loop(s) == Connect(s) \/ BecomeLive(s) \/ Receive(s) \/ End(s) \/ Wind(s)
StreamNext == Drop \/ Stop \/ \E s \in Source : Write(s) \/ Loop(s)

\* The event loop runs the callbacks and timers of each source. Nothing makes
\* a log grow, a stream end or anyone stop.
StreamFairness == \A s \in Source :
    /\ WF_streamVars(Connect(s))
    /\ WF_streamVars(Receive(s) /\ sent'[s] # sent[s])
    /\ WF_streamVars(BecomeLive(s)) /\ WF_streamVars(Wind(s))
    /\ WF_streamVars(End(s) /\ ssh = "closed")

=============================================================================
