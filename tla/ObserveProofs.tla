---------------------------- MODULE ObserveProofs ----------------------------
(***************************************************************************)
(* Theorems about Observe. The monitor, for any servers, apps, threshold   *)
(* and number of workers: its events agree with what it saw, and if it     *)
(* observes every server its dashboard never splits a fleet. The log       *)
(* stream, for any logs: no line it is sent is lost, and none repeats in a *)
(* log without repetitions if the guard remembers at least the backlog.    *)
(***************************************************************************)
EXTENDS Observe, FiniteSetTheorems, SequenceTheorems, TLAPS

USE SessionAssumption

Kinds(f) == DOMAIN f = Server /\ \A s \in Server : f[s].kind \in {"none", "ok", "error"}

\* What the events said follows the last snapshot and the streak.
Told ==
    /\ \A s \in Server : s \in unreachable <=> snap[s].kind = "error"
    /\ DOMAIN told = Server /\ DOMAIN streak = Server
    /\ \A s \in Server : streak[s] \in Nat
    /\ AlertsAgree

Answers ==
    /\ DOMAIN answer = Server
    /\ \A s \in Server : \/ answer[s] \in {NoAnswer, Asked}
                         \/ answer[s].kind = "error"
                         \/ answer[s].kind = "ok" /\ answer[s].probe \in Probe

SessionInv == Kinds(snap) /\ Kinds(view) /\ Answers /\ Told

\* nextHealthFailStreak rises by one at a time, so it meets the threshold it crosses.
LEMMA StreakTold ==
    ASSUME NEW s \in Server, NEW old \in Nat, NEW probe \in Probe
    PROVE  LET new == nextHealthFailStreak(old, probe)
           IN  /\ new \in Nat /\ new \in {0, old, old + 1}
               /\ new >= Threshold <=> \/ new = Threshold /\ old < Threshold
                                       \/ ~(new = 0 /\ old >= Threshold) /\ old >= Threshold
  BY DEF nextHealthFailStreak, Probe

LEMMA SessionStep == ASSUME SessionInv, SessionNext PROVE SessionInv'
  <1> USE DEF SessionInv, Kinds, Answers
  <1>1. CASE \/ TickStart \/ TickEnd \/ Operator \/ Remote
    <2>1. UNCHANGED <<session, answer>> /\ view' \in {view, snap}
      BY <1>1 DEF TickStart, TickEnd, Operator, Remote, Cancel, Confirm, OpenDialog,
                  BeginDeploy, EndDeploy, CloseLink, poll
    <2>2. Told'
      BY <2>1 DEF Told, AlertsAgree, session
    <2> QED
      BY <2>1, <2>2 DEF session
  <1>2. CASE Visit
    <2>1. UNCHANGED <<session, view>> /\ \E s : answer' = [answer EXCEPT ![s] = Asked]
      BY <1>2 DEF Visit
    <2>2. Told'
      BY <2>1 DEF Told, AlertsAgree, session
    <2> QED
      BY <2>1, <2>2 DEF session
  <1>3. ASSUME NEW s \in Server, Answer(s) PROVE SessionInv'
    <2>1. UNCHANGED <<session, view>>
          /\ \E r : /\ r.kind = "error" \/ (r.kind = "ok" /\ r.probe \in Probe)
                   /\ answer' = [answer EXCEPT ![s] = r]
      <3>1. \A probe \in Probe : Reading(s, probe).kind = "ok" /\ Reading(s, probe).probe \in Probe
        BY DEF Reading
      <3>2. Unread("error").kind = "error"
        BY DEF Unread
      <3>3. (IF Probed \in Hosts[s] THEN Probe ELSE {"none"}) \subseteq Probe
        BY DEF Probe
      <3> QED
        BY <1>3, <3>1, <3>2, <3>3 DEF Answer
    <2>2. Told'
      BY <2>1 DEF Told, AlertsAgree, session
    <2> QED
      BY <2>1, <2>2 DEF session
  <1>4. ASSUME NEW s \in Server, Absorb(s) PROVE SessionInv'
    <2>1. /\ answer[s].kind \in {"ok", "error"} /\ answer' = [answer EXCEPT ![s] = NoAnswer]
          /\ view' = view
          /\ \E r : r.kind = answer[s].kind /\ snap' = [snap EXCEPT ![s] = r]
      BY <1>4 DEF Absorb
    <2>2. Kinds(snap)' /\ Kinds(view)' /\ Answers'
      BY <2>1
    <2>3. CASE answer[s].kind = "error"
      <3>1. /\ unreachable' = unreachable \cup {s} /\ UNCHANGED <<streak, toldSick>>
            /\ told' = IF s \in unreachable THEN told ELSE [told EXCEPT ![s] = "down"]
        BY <1>4, <2>3 DEF Absorb
      <3> QED
        BY <2>1, <2>2, <2>3, <3>1 DEF Told, AlertsAgree
    <2>4. CASE answer[s].kind = "ok"
      <3> DEFINE new == nextHealthFailStreak(streak[s], answer[s].probe)
      <3>1. /\ unreachable' = unreachable \ {s} /\ streak' = [streak EXCEPT ![s] = new]
            /\ told' = IF s \in unreachable THEN [told EXCEPT ![s] = "up"] ELSE told
            /\ trackHealth(s, new)
        BY <1>4, <2>4 DEF Absorb
      <3>2. answer[s].probe \in Probe
        BY <1>4, <2>4 DEF Absorb, NoAnswer, Asked
      <3>3. /\ new \in Nat /\ new \in {0, streak[s], streak[s] + 1}
            /\ new >= Threshold <=> \/ new = Threshold /\ streak[s] < Threshold
                                    \/ ~(new = 0 /\ streak[s] >= Threshold) /\ streak[s] >= Threshold
        BY <3>2, StreakTold DEF Told
      <3> HIDE DEF new
      <3>4. \A t \in Server \ {s} : t \in toldSick' <=> t \in toldSick
        BY <3>1 DEF trackHealth
      <3>5. s \in toldSick' <=> new >= Threshold
        BY <3>1, <3>3 DEF trackHealth, Told, AlertsAgree
      <3>6. /\ DOMAIN streak' = Server /\ streak'[s] = new
            /\ \A t \in Server \ {s} : streak'[t] = streak[t]
        BY <3>1 DEF Told
      <3>7. \A t \in Server : streak'[t] \in Nat /\ (t \in toldSick' <=> streak'[t] >= Threshold)
        BY <3>3, <3>4, <3>5, <3>6 DEF Told, AlertsAgree
      <3>8. /\ snap'[s].kind = "ok" /\ s \notin unreachable'
            /\ \A t \in Server \ {s} : /\ snap'[t] = snap[t] /\ told'[t] = told[t]
                                       /\ t \in unreachable' <=> t \in unreachable
        BY <2>1, <2>4, <3>1 DEF Told
      <3>9. DOMAIN told' = Server /\ told'[s] # "down"
        <4>1. s \notin unreachable => told[s] # "down"
          BY DEF Told, AlertsAgree
        <4> QED
          BY <3>1, <4>1 DEF Told
      <3>10. \A t \in Server : t \in unreachable' <=> snap'[t].kind = "error"
        BY <3>8 DEF Told
      <3>11. \A t \in Server : told'[t] = "down" <=> snap'[t].kind = "error"
        BY <3>8, <3>9 DEF Told, AlertsAgree
      <3>12. Told'
        BY <3>6, <3>7, <3>9, <3>10, <3>11 DEF Told, AlertsAgree
      <3> QED
        BY <2>2, <3>12
    <2> QED
      BY <2>1, <2>3, <2>4
  <1> QED
    BY <1>1, <1>2, <1>3, <1>4 DEF SessionNext, Tick

LEMMA OtherCommands ==
    ASSUME UNCHANGED sessionVars, SessionInv PROVE SessionInv'
  BY DEF sessionVars, session, poll, world, SessionInv, Kinds, Answers, Told, AlertsAgree

LEMMA InitSession == Init => SessionInv
  BY DEF Init, SessionInit, SessionInv, Kinds, Answers, Told, AlertsAgree, NoSnap, Unread

\* The monitor's alerts alternate and end with what the last poll saw: nobody is told
\* of an outage that is over, or left without word of one that is not.
THEOREM AlertsTrue == FairSpec => []AlertsAgree
  <1>1. SessionInv /\ [Next]_vars => SessionInv'
    BY SessionStep, OtherCommands DEF Next, vars
  <1>2. SessionInv => AlertsAgree
    BY DEF SessionInv, Told
  <1> QED
    BY InitSession, <1>1, <1>2, PTL DEF FairSpec

-----------------------------------------------------------------------------
(* The dashboard. *)

\* Before the end of the first tick nothing is published; then something of everyone.
Blank(f) == \A s \in Server : f[s].kind = "none"
Seen(f)  == \A s \in Server : f[s].kind # "none"
Queued(s) == \E i \in 1 .. Len(queue) : queue[i] = s
Alone(a, s) == Replicas(a) = {s}

Published ==
    /\ queue \in Seq(Server)
    /\ Blank(view) \/ (Seen(view) /\ Seen(snap))
    /\ ~polling => /\ Blank(snap) \/ Seen(snap)
                   /\ queue = <<>> /\ \A s \in Server : answer[s] = NoAnswer
    /\ polling => \A s \in Server : snap[s].kind # "none" \/ Queued(s) \/ answer[s] # NoAnswer

DialogAlone == dialog # NoDialog => /\ dialog.server \in Server
                                    /\ Alone(dialog.app, dialog.server)
                                    /\ Seen(view)

DashboardInv == SessionInv /\ Published /\ DialogAlone /\ FleetStaysTogether

\* An app that is not replicated in a view of every server has one replica.
LEMMA NotReplicated ==
    ASSUME Kinds(view), Seen(view), Watched = Server, NEW s, NEW a, s \in Answering(a), ~replicated(a)
    PROVE  Alone(a, s)
  <1>1. IsFiniteSet(Answering(a)) /\ IsFiniteSet(Failing(a))
    BY FS_Subset DEF Answering, Failing
  <1>2. Cardinality(Answering(a)) \in Nat /\ Cardinality(Failing(a)) \in Nat
    BY <1>1, FS_CardinalityType
  <1>3. Cardinality(Answering(a)) # 0
    BY <1>1, FS_EmptySet
  <1>4. Cardinality(Failing(a)) = 0 /\ Cardinality(Answering(a)) = 1
    BY <1>2, <1>3 DEF replicated
  <1>5. Failing(a) = {}
    BY <1>1, <1>4, FS_EmptySet
  <1>6. PICK x : Answering(a) = {x}
    BY <1>1, <1>4, FS_Singleton
  <1>7. Replicas(a) = Answering(a)
    BY <1>5 DEF Kinds, Seen, Replicas, Answering, Failing
  <1> QED
    BY <1>6, <1>7 DEF Alone

LEMMA TargetsQueued ==
    ASSUME Watched = Server, queue' = Targets, NEW s \in Server PROVE Queued(s)'
  BY DEF Queued, Watched, ToSet

LEMMA DashboardStep ==
    ASSUME DashboardInv, Watched = Server, SessionNext PROVE DashboardInv'
  <1> USE DEF DashboardInv
  <1>1. SessionInv'
    BY SessionStep
  <1>2. CASE TickStart
    <2>1. /\ polling' = TRUE /\ view' = snap /\ queue' = Targets /\ ~polling
          /\ UNCHANGED <<snap, answer, dialog, parted>>
      BY <1>2 DEF TickStart, session
    <2>2. Published'
      BY <2>1, TargetsQueued DEF Published, Blank, Seen
    <2>3. DialogAlone'
      BY <2>1 DEF DialogAlone, Published, Blank, Seen, Alone
    <2> QED
      BY <1>1, <2>1, <2>2, <2>3 DEF FleetStaysTogether
  <1>3. CASE Visit
    <2>1. /\ queue # <<>> /\ queue' = Tail(queue) /\ answer' = [answer EXCEPT ![Head(queue)] = Asked]
          /\ UNCHANGED <<snap, view, polling, dialog, parted>>
      BY <1>3 DEF Visit, session
    <2>2. \A s \in Server : Queued(s) => s = Head(queue) \/ Queued(s)'
      <3> SUFFICES ASSUME NEW s \in Server, NEW i \in 1 .. Len(queue), queue[i] = s, i # 1
                   PROVE  Queued(s)'
        BY <2>1 DEF Queued, Published
      <3>1. i - 1 \in 1 .. Len(Tail(queue)) /\ Tail(queue)[i - 1] = s
        BY <2>1 DEF Published
      <3> QED
        BY <2>1, <3>1 DEF Queued
    <2>3. Asked # NoAnswer
      BY DEF Asked, NoAnswer
    <2>4. \A s \in Server : answer[s] # NoAnswer \/ s = Head(queue) => answer'[s] # NoAnswer
      BY <2>1, <2>3 DEF SessionInv, Answers
    <2>6a. polling
      BY <2>1 DEF Published
    <2>5. queue' \in Seq(Server)
      BY <2>1 DEF Published
    <2>6. Published'
      BY <2>1, <2>2, <2>4, <2>5, <2>6a DEF Published, Blank, Seen
    <2> QED
      BY <1>1, <2>1, <2>6 DEF DialogAlone, Alone, Seen, FleetStaysTogether
  <1>4. ASSUME NEW s \in Server, Answer(s) PROVE DashboardInv'
    <2>1. UNCHANGED <<snap, view, polling, queue, dialog, parted>>
          /\ answer' = [answer EXCEPT ![s] = answer'[s]] /\ answer'[s].kind # "none"
      BY <1>4 DEF Answer, session, Reading, Unread, SessionInv, Answers
    <2>2. \A t \in Server : answer[t] # NoAnswer => answer'[t] # NoAnswer
      BY <2>1 DEF NoAnswer, SessionInv, Answers
    <2>6a. polling
      BY <1>4 DEF Answer, Published, Asked, NoAnswer
    <2>3. Published'
      BY <2>1, <2>2, <2>6a DEF Published, Queued, Blank, Seen
    <2> QED
      BY <1>1, <2>1, <2>3 DEF DialogAlone, Alone, Seen, FleetStaysTogether
  <1>5. ASSUME NEW s \in Server, Absorb(s) PROVE DashboardInv'
    <2>1. /\ UNCHANGED <<view, polling, queue, dialog, parted>>
          /\ answer[s].kind \in {"ok", "error"} /\ answer[s] # NoAnswer
          /\ \A t \in Server \ {s} : snap'[t] = snap[t] /\ answer'[t] = answer[t]
          /\ snap'[s].kind = answer[s].kind
      BY <1>5 DEF Absorb, SessionInv, Answers, Kinds
    <2>2. polling
      BY <2>1 DEF Published
    <2>3. \A t \in Server : snap[t].kind # "none" => snap'[t].kind # "none"
      BY <2>1
    <2>4. Published'
      BY <2>1, <2>2, <2>3 DEF Published, Queued, Blank, Seen
    <2> QED
      BY <1>1, <2>1, <2>4 DEF DialogAlone, Alone, Seen, FleetStaysTogether
  <1>6. CASE TickEnd
    <2>1. /\ polling /\ queue = <<>> /\ InFlight = {} /\ polling' = FALSE /\ view' = snap
          /\ UNCHANGED <<snap, answer, queue, dialog, parted>>
      BY <1>6 DEF TickEnd, session
    <2>2. Seen(snap) /\ \A s \in Server : answer[s] = NoAnswer
      BY <2>1 DEF Published, Queued, InFlight, Seen
    <2> QED
      BY <1>1, <2>1, <2>2 DEF Published, DialogAlone, Alone, Seen, FleetStaysTogether
  <1>7. ASSUME NEW s \in Server, NEW a, OpenDialog(s, a) PROVE DashboardInv'
    <2>1. s \in Answering(a) /\ ~replicated(a) /\ dialog'.server = s /\ dialog'.app = a
          /\ UNCHANGED <<snap, view, polling, queue, answer, parted>>
      BY <1>7 DEF OpenDialog, session, poll
    <2>2. Seen(view)
      BY <2>1 DEF Published, Blank, Answering, SessionInv, Kinds
    <2>3. Alone(a, s)
      BY <2>1, <2>2, NotReplicated DEF SessionInv
    <2> QED
      BY <1>1, <2>1, <2>2, <2>3 DEF Published, Queued, Blank, Seen, DialogAlone, Alone, FleetStaysTogether
  <1>8. CASE Cancel
    BY <1>1, <1>8 DEF Cancel, session, poll, Published, Queued, Blank, Seen, DialogAlone, FleetStaysTogether
  <1>9. CASE Confirm
    <2>1. dialog # NoDialog /\ dialog' = NoDialog /\ view' = snap
          /\ UNCHANGED <<snap, polling, queue, answer>>
      BY <1>9 DEF Confirm, Drawn, session, poll
    <2>2. Alone(dialog.app, dialog.server) /\ Seen(snap)
      BY <2>1 DEF DialogAlone, Published, Blank, Seen
    <2>3. parted' = parted
      BY <1>9, <2>2 DEF Confirm, Alone
    <2> QED
      BY <1>1, <2>1, <2>2, <2>3 DEF Published, Queued, Blank, Seen, DialogAlone, FleetStaysTogether
  <1>10. CASE Remote
    <2>1. UNCHANGED <<snap, view, polling, queue, answer, dialog, parted>>
      BY <1>10 DEF Remote, BeginDeploy, EndDeploy, CloseLink, session, poll
    <2> QED
      BY <1>1, <2>1 DEF Published, Queued, Blank, Seen, DialogAlone, Alone, FleetStaysTogether
  <1> QED
    BY <1>2, <1>3, <1>4, <1>5, <1>6, <1>7, <1>8, <1>9, <1>10 DEF SessionNext, Tick, Operator

\* A monitor of every server never rolls one replica of a fleet back alone, whichever
\* of its servers stopped answering before or while the dialog was open.
THEOREM FleetKeptTogether ==
    ASSUME Watched = Server PROVE FairSpec => []FleetStaysTogether
  <1>1. Init => DashboardInv
    <2> SUFFICES ASSUME Init PROVE DashboardInv
      OBVIOUS
    <2>1. SessionInit
      BY DEF Init
    <2>2. Blank(snap) /\ Blank(view) /\ queue \in Seq(Server) /\ queue = <<>>
          /\ \A s \in Server : answer[s] = NoAnswer
      BY <2>1 DEF SessionInit, Blank, NoSnap, Unread
    <2> QED
      BY <2>1, <2>2, InitSession DEF SessionInit, DashboardInv, Published, DialogAlone, FleetStaysTogether
  <1>2. DashboardInv /\ [Next]_vars => DashboardInv'
    <2>1. ASSUME DashboardInv, UNCHANGED sessionVars PROVE DashboardInv'
      BY <2>1, OtherCommands DEF sessionVars, session, poll, DashboardInv, Published, Queued,
         Blank, Seen, DialogAlone, Alone, FleetStaysTogether
    <2> QED
      BY <2>1, DashboardStep DEF Next, vars
  <1>3. DashboardInv => FleetStaysTogether
    BY DEF DashboardInv
  <1> QED
    BY <1>1, <1>2, <1>3, PTL DEF FairSpec

-----------------------------------------------------------------------------
(* The log stream. *)

HIDE SessionAssumption

Line  == [text : STRING, part : BOOLEAN]
Guard == [seen : Seq(Line), replay : Seq(Line), at : SUBSET Nat]

Domains ==
    /\ log \in [Source -> Seq(STRING)]
    /\ DOMAIN written = Source /\ DOMAIN chan = Source /\ DOMAIN sent = Source
    /\ DOMAIN guard = Source /\ DOMAIN shown = Source /\ DOMAIN offered = Source

\* A text that stands once in the log `l`.
Once(l, i) == l[i] # "blank" /\ \A j \in DOMAIN l \ {i} : l[j] # l[i]

\* What the guard `g` of a source knows was shown (`sh`). What a stream offered (`of`)
\* was shown, or the open channel (`ch`) has yet to send it.
Heard(g) == ToSet(g.seen) \cup ToSet(g.replay)
Recorded(l, g, sh, of, ch, n) ==
    /\ \A i \in DOMAIN l : Once(l, i) /\ Whole(l[i]) \in Heard(g) => sh[i] >= 1
    /\ \A i \in of : /\ i \in DOMAIN l
                     /\ Once(l, i) => sh[i] >= 1 \/ (ch = "open" /\ i > n)

\* The line before the backlog.
Start(w) == IF w > Backlog THEN w - Backlog ELSE 0

\* The guard's memory of a log without repetitions ends with the lines f + 1 .. m of it,
\* as far as the window reaches; m is the last line shown, and a channel at line n < m
\* replays from there: one of the alignments stands at the line it sends next.
Replays(l, w, g, sh, ch, n, m, f) ==
    /\ m <= w /\ f <= Start(w)
    /\ \A i \in DOMAIN l : sh[i] <= 1 /\ (i > m => sh[i] = 0)
    /\ \A x \in ToSet(g.seen) : \E i \in 1 .. m : x = Whole(l[i])
    /\ \A k \in 0 .. Window - 1 :
          m - k > f => k < Len(g.seen) /\ g.seen[Len(g.seen) - k] = Whole(l[m - k])
    /\ g.replay \in {<<>>, g.seen}
    /\ ch = "open" =>
          /\ n >= f
          /\ n > m => n <= Start(w)
          /\ n < m => /\ g.replay = g.seen /\ m - n <= Window
                      /\ Len(g.seen) - (m - n - 1) \in g.at

Exact(l, w, g, sh, ch, n) ==
    (\A i \in DOMAIN l : Once(l, i)) => \E m, f \in Nat : Replays(l, w, g, sh, ch, n, m, f)

\* Before the first channel there is nothing to remember.
Fresh(l, g, sh, ch) == ch = "idle" => g = NoReplay /\ \A i \in DOMAIN l : sh[i] = 0

Held(l, w, g, sh, of, ch, n) ==
    /\ w \in 0 .. Len(l) /\ n \in 0 .. w /\ g \in Guard /\ sh \in [DOMAIN l -> Nat]
    /\ Fresh(l, g, sh, ch) /\ Recorded(l, g, sh, of, ch, n)

HeldAt(s)  == Held(log[s], written[s], guard[s], shown[s], offered[s], chan[s], sent[s])
ExactAt(s) == Backlog <= Window /\ s \notin torn =>
                  Exact(log[s], written[s], guard[s], shown[s], chan[s], sent[s])

StreamInv == Domains /\ \A s \in Source : HeldAt(s) /\ ExactAt(s)

-----------------------------------------------------------------------------
(* The replay guard. *)

LEMMA LastOfHas ==
    ASSUME NEW T, NEW q \in Seq(T), NEW n \in Nat \ {0}
    PROVE  /\ LastOf(q, n) \in Seq(T)
           /\ Len(LastOf(q, n)) = IF Len(q) > n THEN n ELSE Len(q)
           /\ \A k \in 0 .. Len(LastOf(q, n)) - 1 :
                 LastOf(q, n)[Len(LastOf(q, n)) - k] = q[Len(q) - k]
           /\ ToSet(LastOf(q, n)) \subseteq ToSet(q)
  <1>1. CASE Len(q) <= n
    BY <1>1 DEF LastOf
  <1>2. CASE Len(q) > n
    <2> DEFINE a == Len(q) - n + 1
               r == SubSeq(q, a, Len(q))
    <2>1. Len(q) \in Nat /\ a \in 1 .. Len(q) /\ Len(q) - a + 1 = n
      BY <1>2
    <2>2. LastOf(q, n) = r
      BY <1>2, <2>1 DEF LastOf, Newest
    <2>0. \A i \in a .. Len(q) : q[i] \in T
      BY <2>1
    <2>3. r \in Seq(T) /\ Len(r) = n /\ \A i \in 1 .. n : r[i] = q[a + i - 1]
      BY <2>1, <2>0, SubSeqProperties
    <2> HIDE DEF r
    <2>4. \A k \in 0 .. n - 1 : n - k \in 1 .. n /\ a + (n - k) - 1 = Len(q) - k
      BY <2>1
    <2>5. \A i \in 1 .. n : a + i - 1 \in 1 .. Len(q)
      BY <2>1
    <2>6. DOMAIN r = 1 .. n /\ DOMAIN q = 1 .. Len(q)
      BY <2>1, <2>3
    <2>7. ToSet(r) \subseteq ToSet(q)
      <3> SUFFICES ASSUME NEW i \in 1 .. n PROVE r[i] \in ToSet(q)
        BY <2>6 DEF ToSet
      <3>1. a + i - 1 \in DOMAIN q /\ r[i] = q[a + i - 1]
        BY <2>3, <2>5, <2>6
      <3> QED
        BY <3>1 DEF ToSet
    <2>8. \A k \in 0 .. n - 1 : r[n - k] = q[Len(q) - k]
      BY <2>3, <2>4
    <2> QED
      BY <1>2, <2>2, <2>3, <2>7, <2>8
  <1>3. Len(q) \in Nat
    OBVIOUS
  <1> QED
    BY <1>1, <1>2, <1>3

\* A line the guard takes out is one it expected; any other is remembered.
LEMMA AcceptHas ==
    ASSUME NEW g \in Guard, NEW x \in Line
    PROVE  /\ accept(g, x) \in Guard
           /\ ~Accepts(g, x) => /\ accept(g, x).seen = g.seen /\ accept(g, x).replay = g.replay
                                /\ accept(g, x).at = Advanced(g, x) /\ x \in ToSet(g.replay)
           /\ Accepts(g, x) => /\ accept(g, x).seen = LastOf(Append(g.seen, x), Window)
                               /\ accept(g, x).replay = <<>>
  <1>1. Advanced(g, x) \subseteq Nat
    BY DEF Advanced, Guard
  <1>2. Append(g.seen, x) \in Seq(Line)
    BY DEF Guard
  <1>3. LastOf(Append(g.seen, x), Window) \in Seq(Line)
    BY <1>2, LastOfHas, StreamAssumption
  <1>4. Advanced(g, x) # {} => x \in ToSet(g.replay)
    BY DEF Advanced, ToSet
  <1>5. CASE Accepts(g, x)
    <2>1. accept(g, x) = [seen |-> LastOf(Append(g.seen, x), Window), replay |-> <<>>, at |-> {}]
      BY <1>5 DEF accept
    <2>2. <<>> \in Seq(Line) /\ {} \subseteq Nat
      OBVIOUS
    <2> QED
      BY <1>3, <1>5, <2>1, <2>2 DEF Guard
  <1>6. CASE ~Accepts(g, x)
    <2>1. accept(g, x) = [g EXCEPT !.at = Advanced(g, x)]
      BY <1>6 DEF accept
    <2> QED
      BY <1>1, <1>4, <1>6, <2>1 DEF Guard, Accepts
  <1> QED
    BY <1>5, <1>6

LEMMA ArmHas ==
    ASSUME NEW g \in Guard
    PROVE  /\ arm(g) \in Guard /\ arm(g).seen = g.seen /\ arm(g).replay = g.seen
           /\ arm(g).at = 1 .. Len(g.seen)
  <1>1. g.seen \in Seq(Line) /\ DOMAIN g.seen = 1 .. Len(g.seen)
    BY DEF Guard
  <1>2. arm(g).seen = g.seen /\ arm(g).replay = g.seen /\ arm(g).at = DOMAIN g.seen
    BY DEF arm, Guard
  <1>3. DOMAIN g.seen \subseteq Nat
    BY <1>1
  <1> QED
    BY <1>1, <1>2, <1>3 DEF arm, Guard

\* What the guard remembers once it has accepted a line.
LEMMA AppendHas ==
    ASSUME NEW T, NEW q \in Seq(T), NEW x \in T
    PROVE  /\ Append(q, x) \in Seq(T) /\ Len(Append(q, x)) = Len(q) + 1
           /\ Append(q, x)[Len(q) + 1] = x /\ \A i \in 1 .. Len(q) : Append(q, x)[i] = q[i]
           /\ ToSet(Append(q, x)) = ToSet(q) \cup {x}
  <1>1. /\ Append(q, x) \in Seq(T) /\ Len(Append(q, x)) = Len(q) + 1 /\ Len(q) \in Nat
        /\ Append(q, x)[Len(q) + 1] = x /\ \A i \in 1 .. Len(q) : Append(q, x)[i] = q[i]
        /\ DOMAIN q = 1 .. Len(q) /\ DOMAIN Append(q, x) = 1 .. Len(q) + 1
    OBVIOUS
  <1>2. \A i : i \in 1 .. Len(q) + 1 <=> i \in 1 .. Len(q) \/ i = Len(q) + 1
    BY <1>1
  <1>3. ToSet(Append(q, x)) = ToSet(q) \cup {x}
    BY <1>1, <1>2 DEF ToSet
  <1> QED
    BY <1>1, <1>3

LEMMA WholeIsLine == ASSUME NEW t \in STRING PROVE Whole(t) \in Line /\ Part(t) \in Line
  BY DEF Whole, Part, Line

LEMMA WholeDiffers ==
    ASSUME NEW t, NEW u PROVE Whole(t) # Part(u) /\ (Whole(t) = Whole(u) => t = u)
  <1>1. Whole(t).part = FALSE /\ Whole(t).text = t /\ Part(u).part = TRUE /\ Whole(u).text = u
    BY DEF Whole, Part
  <1> QED
    BY <1>1

-----------------------------------------------------------------------------
(* At least once: what a step of a follow loop leaves recorded. *)

LEMMA RecordedLine ==
    ASSUME NEW l \in Seq(STRING), NEW g \in Guard, NEW sh \in [DOMAIN l -> Nat], NEW of,
           NEW n \in Nat, n < Len(l), Recorded(l, g, sh, of, "open", n), l[n + 1] # "blank"
    PROVE  LET x == Whole(l[n + 1]) IN
           /\ Accepts(g, x) => Recorded(l, accept(g, x), [sh EXCEPT ![n + 1] = @ + 1], of, "open", n + 1)
           /\ ~Accepts(g, x) => Recorded(l, accept(g, x), sh, of, "open", n + 1)
  <1> DEFINE x == Whole(l[n + 1])
             r == accept(g, x)
             sh1 == [sh EXCEPT ![n + 1] = @ + 1]
  <1>1. n + 1 \in DOMAIN l /\ l[n + 1] \in STRING
    OBVIOUS
  <1>2. x \in Line
    BY <1>1, WholeIsLine
  <1>3. \A i \in DOMAIN l : Whole(l[i]) = x => l[i] = l[n + 1]
    BY WholeDiffers
  <1>4. \A i \in DOMAIN l : Once(l, i) /\ l[i] = l[n + 1] => i = n + 1
    BY <1>1 DEF Once
  <1>5. \A i \in of : i \in DOMAIN l /\ i \in Nat
    BY DEF Recorded
  <1>6. ASSUME Accepts(g, x) PROVE Recorded(l, r, sh1, of, "open", n + 1)
    <2>1. r.seen = LastOf(Append(g.seen, x), Window) /\ r.replay = <<>>
      BY <1>2, <1>6, AcceptHas
    <2>2. g.seen \in Seq(Line)
      BY DEF Guard
    <2>3. ToSet(r.seen) \subseteq ToSet(g.seen) \cup {x}
      <3> DEFINE q == Append(g.seen, x)
      <3>1. q \in Seq(Line) /\ ToSet(q) = ToSet(g.seen) \cup {x}
        BY <1>2, <2>2, AppendHas
      <3>2. r.seen = LastOf(q, Window)
        BY <2>1
      <3> HIDE DEF q, x, r
      <3>3. ToSet(LastOf(q, Window)) \subseteq ToSet(q)
        BY <3>1, LastOfHas, StreamAssumption
      <3> QED
        BY <3>1, <3>2, <3>3
    <2>4. Heard(r) \subseteq Heard(g) \cup {x}
      BY <2>1, <2>3 DEF Heard, ToSet
    <2>5. \A i \in DOMAIN l : sh1[i] \in Nat /\ sh[i] \in Nat /\ sh1[i] >= sh[i]
      OBVIOUS
    <2>6. sh1[n + 1] >= 1
      BY <1>1
    <2> HIDE DEF x, r, sh1
    <2>7. ASSUME NEW i \in DOMAIN l, Once(l, i), Whole(l[i]) \in Heard(r) PROVE sh1[i] >= 1
      <3>1. CASE Whole(l[i]) \in Heard(g)
        BY <2>5, <2>7, <3>1 DEF Recorded
      <3>2. CASE Whole(l[i]) = x
        BY <1>3, <1>4, <2>6, <2>7, <3>2
      <3> QED
        BY <2>4, <2>7, <3>1, <3>2
    <2>8. ASSUME NEW i \in of, Once(l, i) PROVE sh1[i] >= 1 \/ i > n + 1
      <3>1. sh[i] >= 1 \/ i > n
        BY <2>8 DEF Recorded
      <3> QED
        BY <1>5, <2>5, <2>6, <3>1
    <2> QED
      BY <1>5, <2>7, <2>8 DEF Recorded
  <1>7. ASSUME ~Accepts(g, x) PROVE Recorded(l, r, sh, of, "open", n + 1)
    <2>1. Heard(r) = Heard(g) /\ x \in Heard(g)
      BY <1>2, <1>7, AcceptHas DEF Heard
    <2> HIDE DEF r
    <2>2. ASSUME NEW i \in of, Once(l, i) PROVE sh[i] >= 1 \/ i > n + 1
      <3>1. sh[i] >= 1 \/ i > n
        BY <2>2 DEF Recorded
      <3>2. CASE i = n + 1
        BY <1>1, <2>1, <2>2, <3>2 DEF Recorded
      <3> QED
        BY <1>5, <3>1, <3>2
    <2> QED
      BY <1>5, <2>1, <2>2 DEF Recorded
  <1> QED
    BY <1>6, <1>7

LEMMA RecordedBlank ==
    ASSUME NEW l \in Seq(STRING), NEW g, NEW sh, NEW of,
           NEW n \in Nat, Recorded(l, g, sh, of, "open", n), l[n + 1] = "blank"
    PROVE  Recorded(l, g, sh, of, "open", n + 1)
  <1>1. \A i \in of : i \in DOMAIN l /\ i \in Nat
    BY DEF Recorded
  <1>2. \A i \in DOMAIN l : Once(l, i) => i # n + 1
    BY DEF Once
  <1> QED
    BY <1>1, <1>2 DEF Recorded

\* A fragment is like no line.
LEMMA HeardFragment ==
    ASSUME NEW g \in Guard, NEW t \in STRING, NEW u, Whole(u) \in Heard(accept(g, Part(t)))
    PROVE  Whole(u) \in Heard(g)
  <1> DEFINE x == Part(t)
  <1>1. x \in Line /\ Whole(u) # x
    BY WholeIsLine, WholeDiffers
  <1> HIDE DEF x
  <1>2. CASE Accepts(g, x)
    <2>1. accept(g, x).seen = LastOf(Append(g.seen, x), Window) /\ accept(g, x).replay = <<>>
      BY <1>1, <1>2, AcceptHas
    <2>2. g.seen \in Seq(Line)
      BY DEF Guard
    <2>3. ToSet(accept(g, x).seen) \subseteq ToSet(g.seen) \cup {x}
      <3> DEFINE q == Append(g.seen, x)
      <3>1. q \in Seq(Line) /\ ToSet(q) = ToSet(g.seen) \cup {x}
        BY <1>1, <2>2, AppendHas
      <3>2. accept(g, x).seen = LastOf(q, Window)
        BY <2>1
      <3> HIDE DEF q, x
      <3>3. ToSet(LastOf(q, Window)) \subseteq ToSet(q)
        BY <3>1, LastOfHas, StreamAssumption
      <3> QED
        BY <3>1, <3>2, <3>3
    <2> QED
      BY <1>1, <2>1, <2>3 DEF Heard, ToSet, x
  <1>3. CASE ~Accepts(g, x)
    BY <1>1, <1>3, AcceptHas DEF Heard, x
  <1> QED
    BY <1>2, <1>3

LEMMA RecordedEnd ==
    ASSUME NEW l \in Seq(STRING), NEW g, NEW g1, NEW sh, NEW of, NEW ch, NEW ch1, NEW n \in Nat,
           Recorded(l, g, sh, of, ch, n), \A u : Whole(u) \in Heard(g1) => Whole(u) \in Heard(g)
    PROVE  Recorded(l, g1, sh, of \ (n + 1) .. Len(l), ch1, n)
  <1>1. \A i \in of : i \in 1 .. Len(l)
    BY DEF Recorded
  <1> QED
    BY <1>1 DEF Recorded

LEMMA RecordedConnect ==
    ASSUME NEW l \in Seq(STRING), NEW g \in Guard, NEW g1 \in {g, arm(g)}, NEW sh, NEW of, NEW ch,
           ch # "open", NEW n, Recorded(l, g, sh, of, ch, n), NEW from \in Nat
    PROVE  /\ Recorded(l, g1, sh, of \cup (from + 1) .. Len(l), "open", from)
           /\ Recorded(l, g1, sh, of, "backoff", n)
  <1>1. Heard(g1) \subseteq Heard(g)
    BY ArmHas DEF Heard
  <1>2. \A i \in (from + 1) .. Len(l) : i \in DOMAIN l /\ i > from
    OBVIOUS
  <1> QED
    BY <1>1, <1>2 DEF Recorded

-----------------------------------------------------------------------------
(* At most once: what it does to the alignments. *)

\* A line of the replay meets the alignment that stands at it.
LEMMA ReplayedLine ==
    ASSUME NEW l \in Seq(STRING), NEW w \in 0 .. Len(l), NEW g \in Guard,
           NEW sh \in [DOMAIN l -> Nat], NEW n \in Nat, n < w, NEW m \in Nat, NEW f \in Nat,
           Replays(l, w, g, sh, "open", n, m, f), n < m
    PROVE  LET x == Whole(l[n + 1])
           IN  ~Accepts(g, x) /\ Replays(l, w, accept(g, x), sh, "open", n + 1, m, f)
  <1> DEFINE x == Whole(l[n + 1])
             r == accept(g, x)
             k == m - n - 1
             p == Len(g.seen) - k
  <1>1. l[n + 1] \in STRING
    OBVIOUS
  <1>2. x \in Line
    BY <1>1, WholeIsLine
  <1>3. /\ n >= f /\ g.replay = g.seen /\ m - n <= Window /\ p \in g.at
    BY DEF Replays
  <1>4. k \in 0 .. Window - 1 /\ m - k > f /\ m - k = n + 1
    BY <1>3, StreamAssumption
  <1>5. k < Len(g.seen) /\ g.seen[p] = x
    BY <1>4 DEF Replays
  <1>6. g.seen \in Seq(Line) /\ DOMAIN g.seen = 1 .. Len(g.seen) /\ Len(g.seen) \in Nat
    BY DEF Guard
  <1>7. p \in DOMAIN g.replay /\ g.replay[p] = x
    BY <1>3, <1>4, <1>5, <1>6
  <1>8. p + 1 \in Advanced(g, x)
    BY <1>3, <1>7 DEF Advanced
  <1>9. ~Accepts(g, x)
    BY <1>8 DEF Accepts
  <1>10. r.seen = g.seen /\ r.replay = g.replay /\ r.at = Advanced(g, x)
    BY <1>2, <1>9, AcceptHas
  <1>11. n + 1 < m => m - (n + 1) <= Window /\ Len(r.seen) - (m - (n + 1) - 1) = p + 1
    BY <1>3, <1>6, <1>10, StreamAssumption
  <1> HIDE DEF x, r, k, p
  <1>12. Replays(l, w, r, sh, "open", n + 1, m, f)
    BY <1>3, <1>8, <1>10, <1>11 DEF Replays
  <1> QED
    BY <1>9, <1>12 DEF x, r

\* A line past the last one shown is none the guard remembers.
LEMMA NewLine ==
    ASSUME NEW l \in Seq(STRING), \A i \in DOMAIN l : Once(l, i), NEW w \in 0 .. Len(l),
           NEW g \in Guard, NEW sh \in [DOMAIN l -> Nat], NEW n \in Nat, n < w,
           NEW m \in Nat, NEW f \in Nat, Replays(l, w, g, sh, "open", n, m, f), n >= m
    PROVE  LET x == Whole(l[n + 1])
           IN  /\ Accepts(g, x)
               /\ Replays(l, w, accept(g, x), [sh EXCEPT ![n + 1] = @ + 1], "open", n + 1,
                          n + 1, IF n = m THEN f ELSE n)
  <1> DEFINE x == Whole(l[n + 1])
             r == accept(g, x)
             q == Append(g.seen, x)
             f1 == IF n = m THEN f ELSE n
             sh1 == [sh EXCEPT ![n + 1] = @ + 1]
  <1>1. l[n + 1] \in STRING /\ n + 1 \in DOMAIN l
    OBVIOUS
  <1>2. x \in Line
    BY <1>1, WholeIsLine
  <1>3. x \notin ToSet(g.seen)
    <2> SUFFICES ASSUME x \in ToSet(g.seen) PROVE FALSE
      OBVIOUS
    <2>1. PICK i \in 1 .. m : x = Whole(l[i])
      BY DEF Replays
    <2>2. l[i] = l[n + 1]
      BY <2>1, WholeDiffers
    <2>3. i \in DOMAIN l /\ i # n + 1
      OBVIOUS
    <2> QED
      BY <1>1, <2>2, <2>3 DEF Once
  <1>4. Accepts(g, x)
    <2>1. x \notin ToSet(g.replay)
      BY <1>3 DEF Replays, ToSet
    <2> QED
      BY <1>2, <2>1, AcceptHas
  <1>5. r.seen = LastOf(q, Window) /\ r.replay = <<>>
    BY <1>2, <1>4, AcceptHas
  <1>6. g.seen \in Seq(Line) /\ Len(g.seen) \in Nat
    BY DEF Guard
  <1>7. /\ q \in Seq(Line) /\ Len(q) = Len(g.seen) + 1 /\ q[Len(g.seen) + 1] = x
        /\ \A i \in 1 .. Len(g.seen) : q[i] = g.seen[i]
        /\ ToSet(q) = ToSet(g.seen) \cup {x}
    BY <1>2, <1>6, AppendHas
  <1> HIDE DEF q
  <1>8. /\ Len(r.seen) = IF Len(q) > Window THEN Window ELSE Len(q)
        /\ \A k \in 0 .. Len(r.seen) - 1 : r.seen[Len(r.seen) - k] = q[Len(q) - k]
        /\ ToSet(r.seen) \subseteq ToSet(g.seen) \cup {x}
    <2>1. /\ Len(LastOf(q, Window)) = IF Len(q) > Window THEN Window ELSE Len(q)
          /\ \A k \in 0 .. Len(LastOf(q, Window)) - 1 :
                LastOf(q, Window)[Len(LastOf(q, Window)) - k] = q[Len(q) - k]
          /\ ToSet(LastOf(q, Window)) \subseteq ToSet(q)
      BY <1>7, LastOfHas, StreamAssumption
    <2> HIDE DEF r, x
    <2> QED
      BY <1>5, <1>7, <2>1
  <1> HIDE DEF r
  <1>9. n + 1 <= w /\ f1 \in Nat /\ f1 <= Start(w) /\ n + 1 >= f1
    BY DEF Replays
  <1>10. \A i \in DOMAIN l : sh1[i] <= 1 /\ (i > n + 1 => sh1[i] = 0)
    <2>1. sh[n + 1] = 0
      BY <1>1 DEF Replays
    <2>2. \A i \in DOMAIN l : sh1[i] = IF i = n + 1 THEN 1 ELSE sh[i]
      BY <2>1
    <2> QED
      BY <2>2 DEF Replays
  <1>11. \A y \in ToSet(r.seen) : \E i \in 1 .. n + 1 : y = Whole(l[i])
    <2> SUFFICES ASSUME NEW y \in ToSet(r.seen) PROVE \E i \in 1 .. n + 1 : y = Whole(l[i])
      OBVIOUS
    <2>1. CASE y = x
      <3>1. n + 1 \in 1 .. n + 1
        OBVIOUS
      <3> QED
        BY <2>1, <3>1
    <2>2. CASE y \in ToSet(g.seen)
      <3>1. PICK i \in 1 .. m : y = Whole(l[i])
        BY <2>2 DEF Replays
      <3>2. i \in 1 .. n + 1
        OBVIOUS
      <3> QED
        BY <3>1, <3>2
    <2> QED
      BY <1>8, <2>1, <2>2
  <1>12. ASSUME NEW k \in 0 .. Window - 1, n + 1 - k > f1
         PROVE  k < Len(r.seen) /\ r.seen[Len(r.seen) - k] = Whole(l[n + 1 - k])
    <2>1. CASE k = 0
      <3>1. 0 < Len(r.seen)
        BY <1>6, <1>7, <1>8, StreamAssumption
      <3>2. 0 \in 0 .. Len(r.seen) - 1 /\ Len(q) - 0 = Len(g.seen) + 1 /\ n + 1 - 0 = n + 1
        BY <1>6, <1>7, <1>8, <3>1, StreamAssumption
      <3>3. r.seen[Len(r.seen) - 0] = x
        BY <1>7, <1>8, <3>2
      <3> QED
        BY <2>1, <3>1, <3>2, <3>3
    <2>2. CASE k > 0
      <3>1. n = m /\ f1 = f
        BY <1>12, <2>2
      <3>2. k - 1 \in 0 .. Window - 1 /\ m - (k - 1) > f /\ m - (k - 1) = n + 1 - k
        BY <1>12, <2>2, <3>1, StreamAssumption
      <3>3. k - 1 < Len(g.seen) /\ g.seen[Len(g.seen) - (k - 1)] = Whole(l[n + 1 - k])
        BY <3>2 DEF Replays
      <3>4. k < Len(r.seen) /\ k \in 0 .. Len(r.seen) - 1
        BY <1>6, <1>7, <1>8, <2>2, <3>3, StreamAssumption
      <3>5. Len(q) - k = Len(g.seen) - (k - 1) /\ Len(q) - k \in 1 .. Len(g.seen)
        BY <1>6, <1>7, <2>2, <3>3
      <3> QED
        BY <1>7, <1>8, <3>3, <3>4, <3>5
    <2> QED
      BY <2>1, <2>2
  <1> HIDE DEF x, f1, sh1
  <1>13. Replays(l, w, r, sh1, "open", n + 1, n + 1, f1)
    BY <1>5, <1>9, <1>10, <1>11, <1>12 DEF Replays
  <1> QED
    BY <1>4, <1>13 DEF x, r, f1, sh1

LEMMA ExactLine ==
    ASSUME NEW l \in Seq(STRING), NEW w \in 0 .. Len(l), NEW g \in Guard,
           NEW sh \in [DOMAIN l -> Nat], NEW n \in Nat, n < w, Exact(l, w, g, sh, "open", n)
    PROVE  LET x == Whole(l[n + 1]) IN
           /\ Accepts(g, x) => Exact(l, w, accept(g, x), [sh EXCEPT ![n + 1] = @ + 1], "open", n + 1)
           /\ ~Accepts(g, x) => Exact(l, w, accept(g, x), sh, "open", n + 1)
  <1> DEFINE x == Whole(l[n + 1])
  <1> SUFFICES ASSUME \A i \in DOMAIN l : Once(l, i)
               PROVE  /\ Accepts(g, x) => \E m, f \in Nat :
                             Replays(l, w, accept(g, x), [sh EXCEPT ![n + 1] = @ + 1], "open", n + 1, m, f)
                      /\ ~Accepts(g, x) => \E m, f \in Nat :
                             Replays(l, w, accept(g, x), sh, "open", n + 1, m, f)
    BY DEF Exact
  <1>1. PICK m \in Nat, f \in Nat : Replays(l, w, g, sh, "open", n, m, f)
    BY DEF Exact
  <1>2. CASE n < m
    BY <1>1, <1>2, ReplayedLine
  <1>3. CASE n >= m
    <2>1. n + 1 \in Nat /\ (IF n = m THEN f ELSE n) \in Nat
      OBVIOUS
    <2> QED
      BY <1>1, <1>3, <2>1, NewLine
  <1>4. n < m \/ n >= m
    OBVIOUS
  <1> HIDE DEF x
  <1> QED
    BY <1>2, <1>3, <1>4

\* A new channel replays at most the backlog, which the guard remembers whole.
LEMMA ExactConnect ==
    ASSUME NEW l \in Seq(STRING), NEW w \in 0 .. Len(l), NEW g \in Guard, NEW sh, NEW ch,
           NEW n, Backlog <= Window, Exact(l, w, g, sh, ch, n), ch # "open"
    PROVE  Exact(l, w, arm(g), sh, "open", Start(w)) /\ Exact(l, w, arm(g), sh, "backoff", n)
  <1> SUFFICES ASSUME \A i \in DOMAIN l : Once(l, i)
               PROVE  \E m, f \in Nat : /\ Replays(l, w, arm(g), sh, "open", Start(w), m, f)
                                        /\ Replays(l, w, arm(g), sh, "backoff", n, m, f)
    BY DEF Exact
  <1>1. PICK m \in Nat, f \in Nat : Replays(l, w, g, sh, ch, n, m, f)
    BY DEF Exact
  <1> DEFINE r == arm(g)
  <1>2. r.seen = g.seen /\ r.replay = g.seen /\ r.at = 1 .. Len(g.seen) /\ Len(g.seen) \in Nat
    BY ArmHas DEF Guard
  <1> HIDE DEF r
  <1>3. Start(w) \in Nat /\ Start(w) >= f /\ w - Start(w) <= Backlog /\ m <= w
    BY <1>1, StreamAssumption DEF Start, Replays
  <1>4. ASSUME Start(w) < m
        PROVE  /\ m - Start(w) <= Window
               /\ Len(g.seen) - (m - Start(w) - 1) \in 1 .. Len(g.seen)
    <2> DEFINE k == m - Start(w) - 1
    <2>1. k \in 0 .. Window - 1 /\ m - k > f
      BY <1>3, <1>4, StreamAssumption
    <2>2. k < Len(g.seen)
      BY <1>1, <2>1 DEF Replays
    <2> QED
      BY <1>2, <1>3, <1>4, <2>1, <2>2, StreamAssumption
  <1>5. Replays(l, w, r, sh, "open", Start(w), m, f)
    BY <1>1, <1>2, <1>3, <1>4 DEF Replays
  <1>6. Replays(l, w, r, sh, "backoff", n, m, f)
    BY <1>1, <1>2 DEF Replays
  <1> QED
    BY <1>5, <1>6 DEF r

LEMMA ExactFirst ==
    ASSUME NEW l, NEW w \in Nat, NEW g, NEW sh, NEW n, NEW ch \in {"idle", "open", "backoff", "done"},
           ch = "open" => n = Start(w), g = NoReplay, \A i \in DOMAIN l : sh[i] = 0
    PROVE  Exact(l, w, g, sh, ch, n)
  <1>1. /\ g.seen = <<>> /\ g.replay = <<>> /\ ToSet(g.seen) = {}
    BY DEF NoReplay, ToSet
  <1>2. Start(w) \in Nat
    BY StreamAssumption DEF Start
  <1>3. \A k \in 0 .. Window - 1 : ~(0 - k > 0)
    BY StreamAssumption
  <1>4. Replays(l, w, g, sh, ch, n, 0, 0)
    BY <1>1, <1>2, <1>3 DEF Replays
  <1> QED
    BY <1>4 DEF Exact

\* A closed channel, or one that is as far as it was, while the file grows.
LEMMA ExactRest ==
    ASSUME NEW l, NEW w \in Nat, NEW w1 \in {w, w + 1}, NEW g, NEW sh, NEW ch,
           NEW ch1, ch1 = ch \/ ch1 # "open", NEW n \in Nat, Exact(l, w, g, sh, ch, n)
    PROVE  Exact(l, w1, g, sh, ch1, n)
  <1>1. Start(w) \in Nat /\ Start(w1) \in Nat /\ Start(w) <= Start(w1) /\ w <= w1
    BY StreamAssumption DEF Start
  <1>2. ASSUME NEW m \in Nat, NEW f \in Nat, Replays(l, w, g, sh, ch, n, m, f)
        PROVE  Replays(l, w1, g, sh, ch1, n, m, f)
    BY <1>1, <1>2 DEF Replays
  <1> QED
    BY <1>2 DEF Exact

-----------------------------------------------------------------------------
(* The steps of the stream. *)

LEMMA HeldTypes ==
    ASSUME StreamInv, NEW s \in Source
    PROVE  /\ log[s] \in Seq(STRING) /\ written[s] \in 0 .. Len(log[s]) /\ sent[s] \in 0 .. written[s]
           /\ written[s] \in Nat /\ sent[s] \in Nat
           /\ guard[s] \in Guard /\ shown[s] \in [DOMAIN log[s] -> Nat]
           /\ Fresh(log[s], guard[s], shown[s], chan[s])
           /\ Recorded(log[s], guard[s], shown[s], offered[s], chan[s], sent[s])
  <1>1. log[s] \in Seq(STRING) /\ Len(log[s]) \in Nat
    BY DEF StreamInv, Domains
  <1> QED
    BY <1>1 DEF StreamInv, HeldAt, Held

\* The sources that do not move keep their records.
LEMMA OtherSources ==
    ASSUME StreamInv, log' = log, NEW t \in Source, t \in torn => t \in torn',
           UNCHANGED <<written[t], guard[t], shown[t], offered[t], chan[t], sent[t]>>
    PROVE  (HeldAt(t) /\ ExactAt(t))'
  <1>1. HeldAt(t) /\ ExactAt(t)
    BY DEF StreamInv
  <1> QED
    BY <1>1 DEF HeldAt, ExactAt

LEMMA LineStep ==
    ASSUME StreamInv, NEW s \in Source, chan[s] = "open", sent[s] < written[s],
           ingest(s, Whole(log[s][sent[s] + 1]), sent[s] + 1),
           sent' = [sent EXCEPT ![s] = @ + 1], UNCHANGED <<log, written, chan, offered, torn>>
    PROVE  StreamInv'
  <1> DEFINE l == log[s]
             n == sent[s]
             g == guard[s]
             sh == shown[s]
             w == written[s]
             x == Whole(l[n + 1])
  <1>1. /\ l \in Seq(STRING) /\ w \in 0 .. Len(l) /\ n \in 0 .. w /\ n \in Nat /\ n < w /\ g \in Guard
        /\ sh \in [DOMAIN l -> Nat] /\ Recorded(l, g, sh, offered[s], "open", n)
    BY HeldTypes
  <1>2. s \notin torn /\ Backlog <= Window => Exact(l, w, g, sh, "open", n)
    BY DEF StreamInv, ExactAt
  <1>3. x.text = l[n + 1] /\ x.part = FALSE
    BY DEF Whole
  <1>4. n + 1 \in DOMAIN l /\ l[n + 1] \in STRING /\ n < Len(l) /\ n + 1 \in 0 .. w
    BY <1>1
  <1>5. DOMAIN sent = Source /\ DOMAIN guard = Source /\ DOMAIN shown = Source
    BY DEF StreamInv, Domains
  <1>6. sent'[s] = n + 1 /\ \A t \in Source \ {s} : sent'[t] = sent[t]
    BY <1>5
  <1>7. /\ DOMAIN guard' = Source /\ DOMAIN shown' = Source
        /\ \A t \in Source \ {s} : guard'[t] = guard[t] /\ shown'[t] = shown[t]
    BY <1>5 DEF ingest, push
  <1>8. /\ Held(l, w, guard'[s], shown'[s], offered[s], "open", n + 1)
        /\ s \notin torn /\ Backlog <= Window => Exact(l, w, guard'[s], shown'[s], "open", n + 1)
    <2>1. CASE l[n + 1] = "blank"
      <3>1. guard'[s] = g /\ shown'[s] = sh
        BY <1>3, <2>1 DEF ingest
      <3>2. ~Once(l, n + 1)
        BY <2>1 DEF Once
      <3>3. Exact(l, w, g, sh, "open", n + 1)
        BY <1>4, <3>2 DEF Exact
      <3>4. Recorded(l, g, sh, offered[s], "open", n + 1)
        BY <1>1, <2>1, RecordedBlank
      <3> HIDE DEF l, n, g, sh, w, x
      <3> QED
        BY <1>1, <1>4, <3>1, <3>3, <3>4 DEF Held, Fresh
    <2>2. CASE l[n + 1] # "blank"
      <3>1. guard'[s] = accept(g, x)
        BY <1>3, <1>5, <2>2 DEF ingest
      <3>2. x \in Line /\ accept(g, x) \in Guard
        BY <1>1, <1>4, WholeIsLine, AcceptHas
      <3>3. CASE Accepts(g, x)
        <4> DEFINE sh1 == [sh EXCEPT ![n + 1] = @ + 1]
        <4>1. push(s, x, n + 1)
          BY <1>3, <2>2, <3>3 DEF ingest
        <4>2. shown' = [shown EXCEPT ![s][n + 1] = @ + 1]
          BY <1>3, <4>1 DEF push
        <4>3. shown'[s] = sh1
          BY <1>5, <4>2
        <4>4. Recorded(l, accept(g, x), sh1, offered[s], "open", n + 1)
          BY <1>1, <1>4, <2>2, <3>3, RecordedLine
        <4>5. sh1 \in [DOMAIN l -> Nat]
          BY <1>1, <1>4
        <4>6. s \notin torn /\ Backlog <= Window => Exact(l, w, accept(g, x), sh1, "open", n + 1)
          BY <1>1, <1>2, <3>3, ExactLine
        <4> HIDE DEF l, n, g, sh, w, x, sh1
        <4> QED
          BY <1>1, <1>4, <3>1, <3>2, <4>3, <4>4, <4>5, <4>6 DEF Held, Fresh
      <3>4. CASE ~Accepts(g, x)
        <4>1. shown'[s] = sh
          BY <1>3, <2>2, <3>4 DEF ingest
        <4>2. Recorded(l, accept(g, x), sh, offered[s], "open", n + 1)
          BY <1>1, <1>4, <2>2, <3>4, RecordedLine
        <4>3. s \notin torn /\ Backlog <= Window => Exact(l, w, accept(g, x), sh, "open", n + 1)
          BY <1>1, <1>2, <3>4, ExactLine
        <4> HIDE DEF l, n, g, sh, w, x
        <4> QED
          BY <1>1, <1>4, <3>1, <3>2, <4>1, <4>2, <4>3 DEF Held, Fresh
      <3> QED
        BY <3>3, <3>4
    <2> QED
      BY <2>1, <2>2
  <1>9. (HeldAt(s) /\ ExactAt(s))'
    <2> HIDE DEF n
    <2> QED
      BY <1>6, <1>8 DEF HeldAt, ExactAt
  <1> HIDE DEF l, n, g, sh, w, x
  <1>10. \A t \in Source \ {s} : (HeldAt(t) /\ ExactAt(t))'
    BY <1>6, <1>7, OtherSources
  <1>11. Domains'
    BY <1>5, <1>7 DEF StreamInv, Domains
  <1> QED
    BY <1>9, <1>10, <1>11 DEF StreamInv

LEMMA ConnectStep ==
    ASSUME StreamInv, NEW s \in Source, Connect(s) PROVE StreamInv'
  <1> DEFINE l == log[s]
             n == sent[s]
             g == guard[s]
             sh == shown[s]
             w == written[s]
             g1 == IF chan[s] = "idle" THEN g ELSE arm(g)
  <1>1. /\ l \in Seq(STRING) /\ w \in 0 .. Len(l) /\ n \in 0 .. w /\ n \in Nat /\ g \in Guard
        /\ sh \in [DOMAIN l -> Nat] /\ Recorded(l, g, sh, offered[s], chan[s], n)
        /\ Fresh(l, g, sh, chan[s]) /\ w \in Nat
    BY HeldTypes
  <1>2. s \notin torn /\ Backlog <= Window => Exact(l, w, g, sh, chan[s], n)
    BY DEF StreamInv, ExactAt
  <1>3. chan[s] \in {"idle", "backoff"} /\ UNCHANGED <<log, written, shown, torn>>
    BY DEF Connect, files
  <1>4. /\ DOMAIN sent = Source /\ DOMAIN guard = Source /\ DOMAIN chan = Source
        /\ DOMAIN offered = Source
    BY DEF StreamInv, Domains
  <1>5. guard' = IF chan[s] = "idle" THEN guard ELSE [guard EXCEPT ![s] = arm(@)]
    BY DEF Connect
  <1>6. guard'[s] = g1 /\ DOMAIN guard' = Source /\ \A t \in Source \ {s} : guard'[t] = guard[t]
    BY <1>4, <1>5
  <1>7. g1 \in {g, arm(g)} /\ g1 \in Guard
    BY <1>1, ArmHas
  <1>8. Start(w) \in 0 .. w
    BY <1>1, StreamAssumption DEF Start
  <1>9. CASE ssh = "up"
    <2>1. /\ chan' = [chan EXCEPT ![s] = "open"]
          /\ sent' = [sent EXCEPT ![s] = Start(w)]
          /\ offered' = [offered EXCEPT ![s] = @ \cup (Start(w) + 1) .. Len(l)]
      BY <1>9 DEF Connect, Start
    <2>2. chan'[s] = "open" /\ sent'[s] = Start(w) /\ offered'[s] = offered[s] \cup (Start(w) + 1) .. Len(l)
      BY <1>4, <2>1
    <2>3. Recorded(l, g1, sh, offered'[s], "open", Start(w))
      <3>1. chan[s] # "open" /\ Start(w) \in Nat
        BY <1>1, <1>3, <1>8
      <3>2. Recorded(l, g1, sh, offered[s] \cup (Start(w) + 1) .. Len(l), "open", Start(w))
        BY <1>1, <1>7, <3>1, RecordedConnect
      <3> HIDE DEF l, n, g, sh, w, g1
      <3> QED
        BY <2>2, <3>2
    <2>4. s \notin torn /\ Backlog <= Window => Exact(l, w, g1, sh, "open", Start(w))
      <3>1. CASE chan[s] = "idle"
        BY <1>1, <3>1, ExactFirst DEF Fresh
      <3>2. CASE chan[s] # "idle"
        BY <1>1, <1>2, <1>3, <3>2, ExactConnect
      <3> QED
        BY <3>1, <3>2
    <2>5. (HeldAt(s) /\ ExactAt(s))'
      <3> HIDE DEF g1
      <3>1. Held(l, w, g1, sh, offered'[s], "open", Start(w))
        BY <1>1, <1>7, <1>8, <2>3 DEF Held, Fresh
      <3> QED
        BY <1>3, <1>6, <2>2, <2>4, <3>1 DEF HeldAt, ExactAt
    <2> HIDE DEF l, n, g, sh, w, g1
    <2>6. \A t \in Source \ {s} : (HeldAt(t) /\ ExactAt(t))'
      BY <1>3, <1>6, <2>1, OtherSources
    <2>7. Domains'
      BY <1>3, <1>6, <2>1 DEF StreamInv, Domains
    <2> QED
      BY <2>5, <2>6, <2>7 DEF StreamInv
  <1>10. CASE ssh # "up"
    <2>1. chan' = [chan EXCEPT ![s] = "backoff"] /\ sent' = sent /\ offered' = offered
      BY <1>10 DEF Connect
    <2>2. chan'[s] = "backoff"
      BY <1>4, <2>1
    <2>3. Recorded(l, g1, sh, offered[s], "backoff", n)
      BY <1>1, <1>3, <1>7, <1>8, RecordedConnect
    <2>4. s \notin torn /\ Backlog <= Window => Exact(l, w, g1, sh, "backoff", n)
      <3>1. CASE chan[s] = "idle"
        BY <1>1, <3>1, ExactFirst DEF Fresh
      <3>2. CASE chan[s] # "idle"
        BY <1>1, <1>2, <1>3, <3>2, ExactConnect
      <3> QED
        BY <3>1, <3>2
    <2>5. (HeldAt(s) /\ ExactAt(s))'
      <3> HIDE DEF g1
      <3>1. Held(l, w, g1, sh, offered[s], "backoff", n)
        BY <1>1, <1>7, <2>3 DEF Held, Fresh
      <3> QED
        BY <1>3, <1>6, <2>1, <2>2, <2>4, <3>1 DEF HeldAt, ExactAt
    <2> HIDE DEF l, n, g, sh, w, g1
    <2>6. \A t \in Source \ {s} : (HeldAt(t) /\ ExactAt(t))'
      BY <1>3, <1>6, <2>1, OtherSources
    <2>7. Domains'
      BY <1>3, <1>6, <2>1 DEF StreamInv, Domains
    <2> QED
      BY <2>5, <2>6, <2>7 DEF StreamInv
  <1> QED
    BY <1>9, <1>10

\* The end of a channel: the fragment the assembler held, if it is taken, is like no line.
LEMMA TailStep ==
    ASSUME StreamInv, NEW s \in Source, TakeTail(s) \/ UNCHANGED <<guard, shown, torn>>,
           offered' = [offered EXCEPT ![s] = @ \ (sent[s] + 1) .. Len(log[s])],
           NEW last \in {"backoff", "done"}, chan' = [chan EXCEPT ![s] = last],
           sent[s] < Len(log[s]) \/ ~half[s], UNCHANGED <<log, written, sent>>
    PROVE  StreamInv'
  <1> DEFINE l == log[s]
             n == sent[s]
             g == guard[s]
             sh == shown[s]
             w == written[s]
             x == Part(l[n + 1])
  <1>1. /\ l \in Seq(STRING) /\ w \in 0 .. Len(l) /\ n \in 0 .. w /\ n \in Nat /\ g \in Guard
        /\ sh \in [DOMAIN l -> Nat] /\ Recorded(l, g, sh, offered[s], chan[s], n) /\ w \in Nat
    BY HeldTypes
  <1>2. s \notin torn /\ Backlog <= Window => Exact(l, w, g, sh, chan[s], n)
    BY DEF StreamInv, ExactAt
  <1>3. DOMAIN guard = Source /\ DOMAIN chan = Source /\ DOMAIN offered = Source
    BY DEF StreamInv, Domains
  <1>4. x.part = TRUE
    BY DEF Part
  <1>5. chan'[s] = last /\ offered'[s] = offered[s] \ (n + 1) .. Len(l)
    BY <1>3
  <1>6. \A t \in Source : t \in torn => t \in torn'
    BY DEF TakeTail
  <1>7. /\ shown' = shown /\ DOMAIN guard' = Source /\ \A t \in Source \ {s} : guard'[t] = guard[t]
        /\ guard'[s] \in {g, accept(g, x)} /\ (guard'[s] # g => half[s])
        /\ half[s] /\ TakeTail(s) => s \in torn'
    <2>1. CASE UNCHANGED <<guard, shown>>
      BY <1>3, <2>1 DEF TakeTail
    <2>2. CASE TakeTail(s) /\ half[s] /\ ingest(s, x, n + 1)
      BY <1>3, <1>4, <2>2 DEF TakeTail, ingest, push
    <2> QED
      BY <2>1, <2>2 DEF TakeTail
  <1>8. guard'[s] # g => s \in torn' /\ l[n + 1] \in STRING
    BY <1>1, <1>7
  <1>9. guard'[s] \in Guard /\ \A u : Whole(u) \in Heard(guard'[s]) => Whole(u) \in Heard(g)
    <2>1. CASE guard'[s] = g
      BY <1>1, <2>1
    <2>2. CASE guard'[s] # g
      <3>1. x \in Line /\ guard'[s] = accept(g, x)
        BY <1>7, <1>8, <2>2, WholeIsLine
      <3> QED
        BY <1>1, <1>8, <2>2, <3>1, AcceptHas, HeardFragment
    <2> QED
      BY <2>1, <2>2
  <1>10. Recorded(l, guard'[s], sh, offered'[s], last, n)
    <2>1. Recorded(l, guard'[s], sh, offered[s] \ (n + 1) .. Len(l), last, n)
      BY <1>1, <1>9, RecordedEnd
    <2> HIDE DEF l, n, g, sh, w
    <2> QED
      BY <1>5, <2>1
  <1>11. s \notin torn' /\ Backlog <= Window => Exact(l, w, guard'[s], sh, last, n)
    <2> SUFFICES ASSUME s \notin torn', Backlog <= Window PROVE Exact(l, w, guard'[s], sh, last, n)
      OBVIOUS
    <2>1. guard'[s] = g /\ Exact(l, w, g, sh, chan[s], n)
      BY <1>2, <1>6, <1>8
    <2> QED
      BY <1>1, <2>1, ExactRest
  <1>12. Held(l, w, guard'[s], sh, offered'[s], last, n)
    BY <1>1, <1>9, <1>10 DEF Held, Fresh
  <1>13. (HeldAt(s) /\ ExactAt(s))'
    BY <1>5, <1>7, <1>11, <1>12 DEF HeldAt, ExactAt
  <1> HIDE DEF l, n, g, sh, w, x
  <1>14. \A t \in Source \ {s} : (HeldAt(t) /\ ExactAt(t))'
    BY <1>3, <1>6, <1>7, OtherSources
  <1>15. Domains'
    BY <1>3, <1>7 DEF StreamInv, Domains
  <1> QED
    BY <1>13, <1>14, <1>15 DEF StreamInv

LEMMA WriteStep ==
    ASSUME StreamInv, NEW s \in Source, Write(s) PROVE StreamInv'
  <1> DEFINE w == written[s]
             w1 == written'[s]
  <1>1. DOMAIN written = Source
    BY DEF StreamInv, Domains
  <1>2. /\ w < Len(log[s]) /\ written' = [written EXCEPT ![s] = @ + 1]
        /\ UNCHANGED <<log, guard, shown, offered, chan, sent, torn>>
    BY DEF Write, follow, seenBy
  <1>3. w1 = w + 1 /\ DOMAIN written' = Source /\ \A t \in Source \ {s} : written'[t] = written[t]
    BY <1>1, <1>2
  <1>4. /\ log[s] \in Seq(STRING) /\ w \in 0 .. Len(log[s]) /\ sent[s] \in 0 .. w
        /\ w \in Nat /\ sent[s] \in Nat
        /\ guard[s] \in Guard /\ shown[s] \in [DOMAIN log[s] -> Nat]
        /\ Fresh(log[s], guard[s], shown[s], chan[s])
        /\ Recorded(log[s], guard[s], shown[s], offered[s], chan[s], sent[s])
    BY HeldTypes
  <1>5. w1 \in 0 .. Len(log[s]) /\ sent[s] \in 0 .. w1 /\ w1 \in {w, w + 1}
    BY <1>2, <1>3, <1>4
  <1> HIDE DEF w1
  <1>6. Held(log[s], w1, guard[s], shown[s], offered[s], chan[s], sent[s])
    BY <1>4, <1>5 DEF Held
  <1>7. s \notin torn /\ Backlog <= Window =>
            Exact(log[s], w1, guard[s], shown[s], chan[s], sent[s])
    <2>1. s \notin torn /\ Backlog <= Window => Exact(log[s], w, guard[s], shown[s], chan[s], sent[s])
      BY DEF StreamInv, ExactAt
    <2> QED
      BY <1>4, <1>5, <2>1, ExactRest
  <1>8. (HeldAt(s) /\ ExactAt(s))'
    BY <1>2, <1>6, <1>7 DEF HeldAt, ExactAt, w1
  <1>9. \A t \in Source \ {s} : (HeldAt(t) /\ ExactAt(t))'
    BY <1>2, <1>3, OtherSources
  <1>10. Domains'
    BY <1>2, <1>3 DEF StreamInv, Domains
  <1> QED
    BY <1>8, <1>9, <1>10 DEF StreamInv

LEMMA StreamRests ==
    ASSUME StreamInv, UNCHANGED <<log, written, guard, shown, offered, chan, sent, torn>>
    PROVE  StreamInv'
  <1>1. \A t \in Source : (HeldAt(t) /\ ExactAt(t))'
    BY OtherSources
  <1>2. Domains'
    BY DEF StreamInv, Domains
  <1> QED
    BY <1>1, <1>2 DEF StreamInv

\* What the assembler holds is the beginning of a line that is in the file.
HalfInv == DOMAIN half = Source /\ \A s \in Source : half[s] => sent[s] < written[s]

LEMMA HalfStep == ASSUME StreamInv, HalfInv, StreamNext PROVE HalfInv'
  <1> USE DEF HalfInv
  <1>1. DOMAIN written = Source /\ DOMAIN sent = Source
    BY DEF StreamInv, Domains
  <1>2. \A s \in Source : written[s] \in Nat /\ sent[s] \in Nat
    BY HeldTypes
  <1>3. CASE Drop \/ Stop
    BY <1>3 DEF Drop, Stop, follow, files
  <1>4. ASSUME NEW s \in Source, Write(s) PROVE HalfInv'
    <2>1. written' = [written EXCEPT ![s] = @ + 1] /\ UNCHANGED <<half, sent>>
      BY <1>4 DEF Write, follow
    <2> QED
      BY <1>1, <1>2, <2>1
  <1>5. ASSUME NEW s \in Source, Connect(s) PROVE HalfInv'
    <2>1. half' = [half EXCEPT ![s] = FALSE] /\ UNCHANGED written
          /\ \A t \in Source \ {s} : sent'[t] = sent[t]
      BY <1>1, <1>5 DEF Connect, files
    <2> QED
      BY <2>1
  <1>6. ASSUME NEW s \in Source, BecomeLive(s) PROVE HalfInv'
    BY <1>6 DEF BecomeLive, files
  <1>7. ASSUME NEW s \in Source, Receive(s) PROVE HalfInv'
    <2>1. sent[s] < written[s] /\ UNCHANGED written
      BY <1>7 DEF Receive, files
    <2>2. \/ half' = [half EXCEPT ![s] = TRUE] /\ UNCHANGED sent
          \/ half' = [half EXCEPT ![s] = FALSE] /\ sent' = [sent EXCEPT ![s] = @ + 1]
      BY <1>7 DEF Receive
    <2> QED
      BY <1>1, <2>1, <2>2
  <1>8. ASSUME NEW s \in Source, End(s) \/ Wind(s) PROVE HalfInv'
    <2>1. UNCHANGED <<written, sent>> /\ half' \in {half, [half EXCEPT ![s] = FALSE]}
      BY <1>8 DEF End, Wind, TakeTail, files
    <2> QED
      BY <2>1
  <1> QED
    BY <1>3, <1>4, <1>5, <1>6, <1>7, <1>8 DEF StreamNext, Loop

LEMMA StreamStep == ASSUME StreamInv, HalfInv, StreamNext PROVE StreamInv'
  <1>1. CASE Drop \/ Stop
    BY <1>1, StreamRests DEF Drop, Stop, files, follow, seenBy
  <1>2. ASSUME NEW s \in Source, BecomeLive(s) PROVE StreamInv'
    BY <1>2, StreamRests DEF BecomeLive, files, seenBy
  <1>3. ASSUME NEW s \in Source, Receive(s) PROVE StreamInv'
    <2>1. chan[s] = "open" /\ sent[s] < written[s] /\ UNCHANGED <<log, written, chan, offered, torn>>
      BY <1>3 DEF Receive, files
    <2>2. CASE UNCHANGED <<sent, guard, shown>>
      BY <2>1, <2>2, StreamRests
    <2>3. CASE /\ sent' = [sent EXCEPT ![s] = @ + 1]
               /\ ingest(s, Whole(log[s][sent[s] + 1]), sent[s] + 1)
      BY <2>1, <2>3, LineStep
    <2> QED
      BY <1>3, <2>2, <2>3 DEF Receive
  <1>4. ASSUME NEW s \in Source, End(s) PROVE StreamInv'
    <2>1. /\ TakeTail(s) /\ chan' = [chan EXCEPT ![s] = "backoff"]
          /\ offered' = [offered EXCEPT ![s] = @ \ (sent[s] + 1) .. Len(log[s])]
          /\ UNCHANGED <<log, written, sent>>
      BY <1>4 DEF End, Unoffer, files
    <2>2. sent[s] < Len(log[s]) \/ ~half[s]
      BY HeldTypes DEF HalfInv
    <2> QED
      BY <2>1, <2>2, TailStep
  <1>5. ASSUME NEW s \in Source, Wind(s) PROVE StreamInv'
    <2>1. /\ TakeTail(s) \/ UNCHANGED <<guard, shown, torn>>
          /\ chan' = [chan EXCEPT ![s] = "done"]
          /\ offered' = [offered EXCEPT ![s] = @ \ (sent[s] + 1) .. Len(log[s])]
          /\ UNCHANGED <<log, written, sent>>
      BY <1>5 DEF Wind, Unoffer, files
    <2>2. sent[s] < Len(log[s]) \/ ~half[s]
      BY HeldTypes DEF HalfInv
    <2> QED
      BY <2>1, <2>2, TailStep
  <1> QED
    BY <1>1, <1>2, <1>3, <1>4, <1>5, WriteStep, ConnectStep DEF StreamNext, Loop

LEMMA StreamStarts == Init => StreamInv /\ HalfInv
  <1> SUFFICES ASSUME Init PROVE StreamInv /\ HalfInv
    OBVIOUS
  <1>1. StreamIdle /\ chan \in {[s \in Source |-> "idle"], [s \in Source |-> "done"]}
    BY DEF Init, StreamInit, StreamOff
  <1>2. /\ log \in [Source -> Seq(STRING)] /\ DOMAIN written = Source
        /\ \A s \in Source : written[s] \in 0 .. Len(log[s])
    <2>1. CASE StreamInit
      BY <2>1, StreamAssumption DEF StreamInit
    <2>2. CASE StreamOff
      BY <2>2 DEF StreamOff
    <2> QED
      BY <2>1, <2>2 DEF Init
  <1>3. Domains /\ HalfInv
    BY <1>1, <1>2 DEF Domains, HalfInv, StreamIdle
  <1>4. ASSUME NEW s \in Source PROVE HeldAt(s) /\ ExactAt(s)
    <2>1. /\ guard[s] = NoReplay /\ sent[s] = 0 /\ offered[s] = {} /\ chan[s] \in {"idle", "done"}
          /\ shown[s] = [i \in DOMAIN log[s] |-> 0]
      BY <1>1 DEF StreamIdle
    <2>2. NoReplay \in Guard /\ Heard(NoReplay) = {}
      BY DEF NoReplay, Guard, Heard, ToSet
    <2>3. log[s] \in Seq(STRING) /\ written[s] \in 0 .. Len(log[s]) /\ written[s] \in Nat
      BY <1>2
    <2>4. Recorded(log[s], guard[s], shown[s], offered[s], chan[s], sent[s])
      BY <2>1, <2>2 DEF Recorded
    <2>5. Exact(log[s], written[s], guard[s], shown[s], chan[s], sent[s])
      BY <2>1, <2>3, ExactFirst
    <2> QED
      BY <2>1, <2>2, <2>3, <2>4, <2>5 DEF HeldAt, ExactAt, Held, Fresh
  <1> QED
    BY <1>3, <1>4 DEF StreamInv

LEMMA StreamAlways == FairSpec => [](StreamInv /\ HalfInv)
  <1>1. StreamInv /\ HalfInv /\ [Next]_vars => (StreamInv /\ HalfInv)'
    <2>1. ASSUME StreamInv, HalfInv, UNCHANGED streamVars PROVE (StreamInv /\ HalfInv)'
      BY <2>1, StreamRests DEF streamVars, files, follow, seenBy, HalfInv
    <2> QED
      BY <2>1, HalfStep, StreamStep DEF Next, vars
  <1> QED
    BY <1>1, StreamStarts, PTL DEF FairSpec

\* A line that stands once in a log and that a stream has sent is shown: whatever ended,
\* was cut in half or replayed before it, the guard never takes a new line for an old one.
NoLineLost == \A s \in Source : \A i \in offered[s] :
    Unlike(s, i) /\ i <= sent[s] => shown[s][i] >= 1

LEMMA UnlikeIsOnce == ASSUME NEW s, NEW i PROVE Unlike(s, i) <=> Once(log[s], i)
  BY DEF Unlike, Once

THEOREM SentLinesShown == FairSpec => []NoLineLost
  <1>1. StreamInv => NoLineLost
    <2> SUFFICES ASSUME StreamInv, NEW s \in Source, NEW i \in offered[s],
                        Unlike(s, i), i <= sent[s]
                 PROVE  shown[s][i] >= 1
      BY DEF NoLineLost
    <2>1. Recorded(log[s], guard[s], shown[s], offered[s], chan[s], sent[s]) /\ sent[s] \in Nat
          /\ log[s] \in Seq(STRING)
      BY HeldTypes
    <2>2. i \in DOMAIN log[s] /\ (shown[s][i] >= 1 \/ i > sent[s])
      BY <2>1, UnlikeIsOnce DEF Recorded
    <2> QED
      BY <2>1, <2>2
  <1> QED
    BY <1>1, StreamAlways, PTL

\* Where the guard remembers at least the backlog, each line of a log without repetitions
\* is shown at most once across all reconnects, however much the file grew while the
\* stream was away; and each line sent is shown.
THEOREM LinesShownOnce == ASSUME Backlog <= Window PROVE FairSpec => []EachLineOnce
  <1>1. StreamInv /\ NoLineLost => EachLineOnce
    <2>1. ASSUME StreamInv, NEW s \in Source, s \notin torn, \A i \in DOMAIN log[s] : Unlike(s, i),
                 NEW i \in DOMAIN log[s]
          PROVE  shown[s][i] <= 1
      <3>1. Exact(log[s], written[s], guard[s], shown[s], chan[s], sent[s])
        BY <2>1 DEF StreamInv, ExactAt
      <3>2. \A j \in DOMAIN log[s] : Once(log[s], j)
        BY <2>1, UnlikeIsOnce
      <3> QED
        BY <3>1, <3>2 DEF Exact, Replays
    <2> QED
      BY <2>1 DEF EachLineOnce, NoLineLost
  <1> QED
    BY <1>1, StreamAlways, SentLinesShown, PTL

-----------------------------------------------------------------------------
(* The log view. *)

FilterInv ==
    /\ filter \in [server : {filter.server}, app : {filter.app}, process : {filter.process},
                   minLevel : {filter.minLevel}, query : {filter.query}, mode : {"hide", "dim"}]

LEMMA FilterStep == ASSUME FilterInv, ViewNext PROVE FilterInv'
  <1> USE DEF FilterInv
  <1>1. ASSUME NEW line, Arrive(line) PROVE FilterInv'
    BY <1>1 DEF Arrive
  <1>2. ASSUME NEW dimension \in {"server", "app", "process"}, Cycle(dimension) PROVE FilterInv'
    BY <1>2 DEF Cycle, Pick
  <1>3. CASE CycleLevel
    BY <1>3 DEF CycleLevel
  <1>4. CASE ToggleMode
    BY <1>4 DEF ToggleMode
  <1>5. CASE Search
    BY <1>5 DEF Search
  <1>6. CASE ClearFilters
    BY <1>6 DEF ClearFilters, EmptyFilter
  <1>7. CASE Enter
    BY <1>7 DEF Enter, EmptyFilter
  <1>8. CASE TogglePause \/ Resume \/ Scroll(1) \/ Scroll(-1) \/ Clear
    BY <1>8 DEF TogglePause, Resume, Scroll, Clear
  <1> QED
    BY <1>1, <1>2, <1>3, <1>4, <1>5, <1>6, <1>7, <1>8 DEF ViewNext

\* The count and the view keep the same lines of a level.
LEMMA CountHolds ==
    ASSUME FilterInv, NEW lines, NEW level \in LogLevel
    PROVE  countLevels(lines, filter)[level] =
               Cardinality({i \in Shown(lines, [filter EXCEPT !.minLevel = level]) :
                   lines[i].level = level /\ (lines[i].levelKnown \/ level = "info")})
  <1> DEFINE f == [filter EXCEPT !.minLevel = level]
             a == [filter EXCEPT !.minLevel = All]
  <1>1. /\ f.server = filter.server /\ f.app = filter.app /\ f.process = filter.process
        /\ f.minLevel = level /\ f.query = filter.query /\ f.mode = filter.mode
    BY DEF FilterInv
  <1>2. /\ a.server = filter.server /\ a.app = filter.app /\ a.process = filter.process
        /\ a.minLevel = All
    BY DEF FilterInv
  <1>3. filter.mode \in {"hide", "dim"}
    BY DEF FilterInv
  <1>4. Rank[level] >= Rank[level]
    BY DEF LogLevel, Rank
  <1> HIDE DEF f, a
  <1>5. \A line : line.level = level => (InScope(line, f) <=> InScope(line, a))
    BY <1>1, <1>2, <1>4 DEF InScope
  <1>6. \A line : (filter.mode = "hide" => Matches(line, filter.query)) <=>
                  Matches(line, f.query) \/ f.mode = "dim"
    BY <1>1, <1>3
  <1>7. {i \in DOMAIN lines : /\ InScope(lines[i], a)
                              /\ filter.mode = "hide" => Matches(lines[i], filter.query)
                              /\ Counted(lines[i]) /\ lines[i].level = level}
        = {i \in Shown(lines, f) : lines[i].level = level /\ (lines[i].levelKnown \/ level = "info")}
    BY <1>5, <1>6 DEF Shown, Counted
  <1> QED
    BY <1>7 DEF countLevels, f, a

\* A line that offered a value is shown once the value is picked.
LEMMA OfferHolds ==
    ASSUME FilterInv, NEW lines, NEW dimension \in {"server", "app", "process"},
           NEW value \in Offered(lines, filter, dimension)
    PROVE  Shown(lines, [Pick(filter, dimension, value) EXCEPT !.minLevel = All, !.query = Everything])
               # {}
  <1> DEFINE f == [Pick(filter, dimension, value) EXCEPT !.minLevel = All, !.query = Everything]
  <1>1. PICK i \in DOMAIN lines :
            /\ value = lines[i][dimension]
            /\ dimension = "server" \/ filter.server \in {All, lines[i].server}
            /\ dimension = "process" => filter.app \in {All, lines[i].app}
    BY DEF Offered, ToSet
  <1>2. f.minLevel = All /\ f.query = Everything
    BY DEF FilterInv, Pick
  <1>3. f.server \in {All, lines[i].server}
    BY <1>1 DEF FilterInv, Pick
  <1>4. f.app \in {All, lines[i].app}
    BY <1>1 DEF FilterInv, Pick
  <1>5. f.process \in {All, lines[i].process}
    <2>1. CASE dimension = "process"
      <3>1. f.process = value /\ value = lines[i].process
        BY <1>1, <2>1 DEF FilterInv, Pick
      <3> QED
        BY <3>1
    <2>2. CASE dimension \in {"server", "app"}
      BY <2>2 DEF FilterInv, Pick
    <2> QED
      BY <2>1, <2>2
  <1> HIDE DEF f
  <1>6. InScope(lines[i], f) /\ Matches(lines[i], f.query)
    BY <1>2, <1>3, <1>4, <1>5 DEF InScope, Matches
  <1>7. i \in Shown(lines, f)
    BY <1>6 DEF Shown
  <1> QED
    BY <1>7 DEF f

\* The viewer's counts and offers keep their promise under every filter, frozen or not.
THEOREM ViewPromises == FairSpec => []CountsAndOffersHold
  <1>1. Init => FilterInv
    BY DEF Init, ViewInit, FilterInv, EmptyFilter
  <1>2. FilterInv /\ [Next]_vars => FilterInv'
    <2>1. ASSUME FilterInv, UNCHANGED viewVars PROVE FilterInv'
      BY <2>1 DEF viewVars, FilterInv
    <2> QED
      BY <2>1, FilterStep DEF Next, vars
  <1>3. FilterInv => CountsAndOffersHold
    BY CountHolds, OfferHolds DEF CountsAndOffersHold
  <1> QED
    BY <1>1, <1>2, <1>3, PTL DEF FairSpec
=============================================================================
