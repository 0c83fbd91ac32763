---------------------------- MODULE LayoutProofs ----------------------------
(***************************************************************************)
(* Theorems about the layout of a workspace: the operators of ServerTargets *)
(* that Fleet's commands walk along, and Fleet's properties of the loaded   *)
(* workspace, for any workspace the schema accepts.                         *)
(***************************************************************************)
EXTENDS Fleet, FunctionTheorems, FiniteSetTheorems, SequenceTheorems, TLAPS

-----------------------------------------------------------------------------
(* Induction over numbers, as a fact about sets of them. *)

Less == {p \in Nat \X Nat : p[1] < p[2]}

LEMMA SetInduction ==
    ASSUME NEW N \in SUBSET Nat, 0 \in N, \A n \in N : n + 1 \in N
    PROVE  N = Nat
  <1>1. SUFFICES ASSUME Nat \ N # {} PROVE FALSE
    OBVIOUS
  <1>2. IsWellFoundedOn(Less, Nat)
    BY NatLessThanWellFounded DEF OpToRel, Less
  <1>3. PICK x \in Nat \ N : \A y \in Nat \ N : <<y, x>> \notin Less
    BY <1>1, <1>2, WFMin
  <1>4. x - 1 \in Nat /\ <<x - 1, x>> \in Less /\ (x - 1) + 1 = x
    BY <1>3 DEF Less
  <1>5. x - 1 \in N
    BY <1>3, <1>4
  <1> QED
    BY <1>3, <1>4, <1>5

\* The least element of a set of numbers.
LEMMA Least == ASSUME NEW N \in SUBSET Nat, N # {} PROVE \E n \in N : \A m \in N : n <= m
  <1>1. IsWellFoundedOn(Less, Nat)
    BY NatLessThanWellFounded DEF OpToRel, Less
  <1>2. PICK n \in N : \A m \in N : <<m, n>> \notin Less
    BY <1>1, WFMin
  <1>3. ASSUME NEW m \in N PROVE n <= m
    <2>1. m \in Nat /\ n \in Nat /\ <<m, n>> \notin Less
      BY <1>2
    <2> QED
      BY <2>1 DEF Less
  <1> QED
    BY <1>3

-----------------------------------------------------------------------------
(* The elements at some positions of a sequence. *)

KeptStep(s, I, f, n) == IF n = 0 THEN <<>>
                        ELSE IF n \in I THEN Append(f[n - 1], s[n]) ELSE f[n - 1]

\* The recursion in AtPositions has a solution.
LEMMA AtPositionsIs ==
    ASSUME NEW s, Len(s) \in Nat, NEW I
    PROVE  \E f : f = [n \in 0 .. Len(s) |-> KeptStep(s, I, f, n)] /\ AtPositions(s, I) = f[Len(s)]
  <1> DEFINE Upto(f, m) == f = [n \in 0 .. m |-> KeptStep(s, I, f, n)]
             N == {m \in Nat : \E f : Upto(f, m)}
  <1>1. 0 \in N
    <2>1. Upto([n \in 0 .. 0 |-> <<>>], 0)
      BY DEF KeptStep
    <2> QED
      BY <2>1
  <1>2. ASSUME NEW m \in N PROVE m + 1 \in N
    <2>1. PICK f : Upto(f, m)
      OBVIOUS
    <2> DEFINE g == [n \in 0 .. (m + 1) |-> KeptStep(s, I, f, n)]
    <2>2. \A n \in 0 .. m : g[n] = f[n]
      BY <2>1
    <2>3. ASSUME NEW n \in 0 .. (m + 1) PROVE KeptStep(s, I, g, n) = KeptStep(s, I, f, n)
      <3>1. CASE n = 0
        BY <3>1 DEF KeptStep
      <3>2. CASE n # 0
        <4>1. n - 1 \in 0 .. m
          BY <3>2
        <4>2. g[n - 1] = f[n - 1]
          BY <2>2, <4>1
        <4> HIDE DEF g
        <4> QED
          BY <3>2, <4>2 DEF KeptStep
      <3> QED
        BY <3>1, <3>2
    <2> QED
      BY <2>3
  <1>3. N = Nat
    <2> HIDE DEF N
    <2>1. N \in SUBSET Nat
      BY DEF N
    <2> QED
      BY <1>1, <1>2, <2>1, SetInduction
  <1> DEFINE kept[n \in 0 .. Len(s)] ==
                 IF n = 0 THEN <<>>
                 ELSE IF n \in I THEN Append(kept[n - 1], s[n]) ELSE kept[n - 1]
  <1>4. AtPositions(s, I) = kept[Len(s)]
    BY DEF AtPositions
  <1>5. kept = CHOOSE f : Upto(f, Len(s))
    BY DEF KeptStep
  <1>6. \E f : Upto(f, Len(s))
    BY <1>3
  <1> HIDE DEF kept
  <1>7. Upto(kept, Len(s))
    BY <1>5, <1>6
  <1> QED
    BY <1>4, <1>7

Apart(s, I) == \A i, j \in I : s[i] = s[j] => i = j

LEMMA AtPositionsHas ==
    ASSUME NEW T, NEW s \in Seq(T), NEW I \in SUBSET DOMAIN s
    PROVE  /\ AtPositions(s, I) \in Seq(T)
           /\ ToSet(AtPositions(s, I)) = {s[i] : i \in I}
           /\ Apart(s, I) => IsInjective(AtPositions(s, I))
  <1> PICK f : f = [n \in 0 .. Len(s) |-> KeptStep(s, I, f, n)] /\ AtPositions(s, I) = f[Len(s)]
    BY AtPositionsIs
  <1> DEFINE Has(n) == /\ f[n] \in Seq(T)
                       /\ ToSet(f[n]) = {s[i] : i \in I \cap (1 .. n)}
                       /\ Apart(s, I) => IsInjective(f[n])
             N == {n \in Nat : n <= Len(s) => Has(n)}
  <1>1. Has(0)
    BY DEF KeptStep, ToSet, IsInjective
  <1>2. ASSUME NEW n \in Nat, n + 1 <= Len(s), Has(n) PROVE Has(n + 1)
    <2>1. f[n + 1] = IF n + 1 \in I THEN Append(f[n], s[n + 1]) ELSE f[n]
      <3>1. n + 1 \in 0 .. Len(s) /\ n + 1 # 0 /\ (n + 1) - 1 = n
        BY <1>2
      <3>2. f[n + 1] = KeptStep(s, I, f, n + 1)
        BY <3>1
      <3> QED
        BY <3>1, <3>2 DEF KeptStep
    <2>2. CASE n + 1 \notin I
      <3>1. I \cap (1 .. n + 1) = I \cap (1 .. n)
        BY <2>2
      <3> QED
        BY <1>2, <2>1, <2>2, <3>1
    <2>3. CASE n + 1 \in I
      <3> DEFINE p == f[n]
                 q == Append(p, s[n + 1])
      <3>1. p \in Seq(T) /\ s[n + 1] \in T /\ f[n + 1] = q
        <4>1. s[n + 1] \in T
          BY <1>2
        <4>2. f[n] \in Seq(T)
          BY <1>2
        <4> QED
          BY <2>1, <2>3, <4>1, <4>2
      <3>2. I \cap (1 .. n + 1) = (I \cap (1 .. n)) \cup {n + 1}
        BY <2>3
      <3> HIDE DEF p
      <3>3. /\ q \in Seq(T) /\ Len(q) = Len(p) + 1 /\ Len(p) \in Nat
            /\ \A k \in 1 .. Len(p) : q[k] = p[k]
            /\ q[Len(p) + 1] = s[n + 1]
        BY <3>1
      <3> HIDE DEF q
      <3>4. DOMAIN p = 1 .. Len(p) /\ DOMAIN q = 1 .. Len(p) + 1
        BY <3>1, <3>3
      <3>5. ToSet(q) = ToSet(p) \cup {s[n + 1]}
        BY <3>3, <3>4 DEF ToSet
      <3>6. ToSet(p) = {s[i] : i \in I \cap (1 .. n)}
        BY <1>2 DEF p
      <3>7. ASSUME Apart(s, I) PROVE IsInjective(q)
        <4>1. \A k \in 1 .. Len(p) : p[k] # s[n + 1]
          BY <2>3, <3>4, <3>6, <3>7 DEF ToSet, Apart
        <4>2. IsInjective(p)
          BY <1>2, <3>7 DEF p
        <4> QED
          BY <3>3, <3>4, <4>1, <4>2 DEF IsInjective
      <3>8. ToSet(q) = {s[i] : i \in I \cap (1 .. n + 1)}
        BY <3>2, <3>5, <3>6
      <3> QED
        BY <3>1, <3>3, <3>7, <3>8
    <2> QED
      BY <2>2, <2>3
  <1>3. N = Nat
    <2> HIDE DEF Has
    <2>1. 0 \in N /\ \A n \in N : n + 1 \in N
      BY <1>1, <1>2
    <2> HIDE DEF N
    <2>2. N \in SUBSET Nat
      BY DEF N
    <2> QED
      BY <2>1, <2>2, SetInduction
  <1>4. Has(Len(s))
    <2> HIDE DEF Has
    <2> QED
      BY <1>3
  <1>5. I \cap (1 .. Len(s)) = I
    OBVIOUS
  <1> QED
    BY <1>4, <1>5

LEMMA OnlyHas ==
    ASSUME NEW T, NEW s \in Seq(T), NEW S
    PROVE  /\ Only(s, S) \in Seq(T)
           /\ ToSet(Only(s, S)) = ToSet(s) \cap S
           /\ IsInjective(s) => IsInjective(Only(s, S))
  <1> DEFINE I == {i \in DOMAIN s : s[i] \in S}
  <1>1. {s[i] : i \in I} = ToSet(s) \cap S
    BY DEF ToSet
  <1>2. IsInjective(s) => Apart(s, I)
    BY DEF IsInjective, Apart
  <1> HIDE DEF I
  <1> QED
    BY <1>1, <1>2, AtPositionsHas DEF Only, I

\* A sequence with an element has a first one.
LEMMA FirstOf ==
    ASSUME NEW T, NEW s \in Seq(T)
    PROVE  /\ s # <<>> <=> ToSet(s) # {}
           /\ s # <<>> => s[1] \in ToSet(s) /\ Head(s) = s[1]
           /\ \A x \in ToSet(s) : \E i \in 1 .. Len(s) : s[i] = x
           /\ Len(s) <= 1 => \A x, y \in ToSet(s) : x = y
  BY DEF ToSet

LEMMA InRange ==
    ASSUME NEW T, NEW s \in Seq(T), NEW S, ToSet(s) \subseteq S
    PROVE  s \in Seq(S)
  <1>1. Len(s) \in Nat /\ s = [i \in 1 .. Len(s) |-> s[i]] /\ \A i \in 1 .. Len(s) : s[i] \in S
    BY DEF ToSet
  <1> QED
    BY <1>1, SeqDef

-----------------------------------------------------------------------------
(* Targets. *)

Named(w) == w.servers \in Seq(STRING) /\ IsInjective(w.servers)

\* expandTarget names known servers, each once, and all that the target names.
LEMMA TargetHas ==
    ASSUME NEW w, Named(w), NEW on \in Seq(STRING)
    PROVE  /\ expandTarget(w, on) \in Seq(Known(w))
           /\ IsInjective(expandTarget(w, on))
           /\ ToSet(expandTarget(w, on)) \subseteq Known(w)
           /\ on # Unset => ToSet(expandTarget(w, on)) = ToSet(on) \cap Known(w)
           /\ on = Unset => expandTarget(w, on) = IF Default \in Known(w) THEN <<Default>>
                                                  ELSE IF Len(w.servers) = 1 THEN w.servers
                                                  ELSE <<>>
  <1>1. CASE on # Unset
    <2> DEFINE I == {i \in DOMAIN on : /\ on[i] \in Known(w)
                                       /\ \A j \in 1 .. i - 1 : on[j] # on[i]}
    <2>1. expandTarget(w, on) = AtPositions(on, I)
      BY <1>1 DEF expandTarget
    <2>2. Apart(on, I)
      <3>1. ASSUME NEW i \in I, NEW j \in I, i < j, on[i] = on[j] PROVE FALSE
        <4>1. i \in 1 .. j - 1
          BY <3>1
        <4> QED
          BY <3>1, <4>1
      <3>2. ASSUME NEW i \in I, NEW j \in I, on[i] = on[j] PROVE i = j
        <4>1. i \in Nat /\ j \in Nat
          OBVIOUS
        <4>2. ~(i < j) /\ ~(j < i)
          BY <3>1, <3>2
        <4> QED
          BY <4>1, <4>2
      <3> QED
        BY <3>2 DEF Apart
    <2>3. {on[i] : i \in I} = ToSet(on) \cap Known(w)
      <3>1. ASSUME NEW x \in ToSet(on) \cap Known(w) PROVE x \in {on[i] : i \in I}
        <4> DEFINE N == {i \in 1 .. Len(on) : on[i] = x}
        <4>1. N \in SUBSET Nat /\ N # {}
          BY DEF ToSet
        <4>2. PICK i \in N : \A j \in N : i <= j
          BY <4>1, Least
        <4>3. ASSUME NEW j \in 1 .. i - 1 PROVE on[j] # on[i]
          <5>1. j \in 1 .. Len(on) /\ ~(i <= j)
            BY <4>3
          <5> QED
            BY <4>2, <5>1
        <4> QED
          BY <4>3
      <3> QED
        BY <3>1 DEF ToSet
    <2> HIDE DEF I
    <2>4. I \in SUBSET DOMAIN on
      BY DEF I
    <2> DEFINE t == AtPositions(on, I)
    <2>5. /\ t \in Seq(STRING) /\ ToSet(t) = ToSet(on) \cap Known(w) /\ IsInjective(t)
      BY <2>2, <2>3, <2>4, AtPositionsHas
    <2> HIDE DEF t
    <2>6. t \in Seq(Known(w))
      BY <2>5, InRange
    <2> QED
      BY <1>1, <2>1, <2>5, <2>6 DEF t
  <1>2. CASE on = Unset
    <2>1. expandTarget(w, on) = IF Default \in Known(w) THEN <<Default>>
                                ELSE IF Len(w.servers) = 1 THEN w.servers ELSE <<>>
      BY <1>2 DEF expandTarget
    <2>2. \A e : <<e>> \in Seq({e}) /\ IsInjective(<<e>>) /\ ToSet(<<e>>) = {e}
      BY DEF IsInjective, ToSet
    <2>3. /\ \A e \in Known(w) : <<e>> \in Seq(Known(w))
          /\ <<>> \in Seq(Known(w)) /\ IsInjective(<<>>) /\ ToSet(<<>>) = {}
      BY DEF IsInjective, ToSet
    <2>4. w.servers \in Seq(Known(w)) /\ ToSet(w.servers) = Known(w) /\ IsInjective(w.servers)
      BY InRange DEF Known, Named
    <2> QED
      BY <1>2, <2>1, <2>2, <2>3, <2>4 DEF Named
  <1> QED
    BY <1>1, <1>2

LEMMA ConfigIsNamed == ASSUME NEW w, ShipnodeConfig(w) PROVE Named(w)
  BY DEF ShipnodeConfig, Named

LEMMA ConfigHas ==
    ASSUME NEW w, ShipnodeConfig(w)
    PROVE  /\ \A a \in Apps(w) : a \in AppConfig /\ a.on \in Seq(STRING)
           /\ \A x \in ToSet(w.accessories) : x \in AccessoryConfig /\ x.on \in Seq(STRING)
  <1>1. w.apps \in Seq(AppConfig) /\ w.accessories \in Seq(AccessoryConfig)
    BY DEF ShipnodeConfig
  <1>2. \A T : \A s \in Seq(T) : ToSet(s) \subseteq T
    BY DEF ToSet
  <1>3. Apps(w) \subseteq AppConfig /\ ToSet(w.accessories) \subseteq AccessoryConfig
    BY <1>1, <1>2 DEF Apps
  <1>4. /\ \A a \in AppConfig : a.on \in Seq(STRING)
        /\ \A x \in AccessoryConfig : x.on \in Seq(STRING)
    BY DEF AppConfig, AccessoryConfig
  <1> QED
    BY <1>3, <1>4

\* A dependency has a host, which runs it.
LEMMA HostRuns ==
    ASSUME NEW w, ShipnodeConfig(w), NEW a, NEW x \in Dependencies(w, a)
    PROVE  x \in ToSet(w.accessories) /\ HostOf(w, x) \in ServersOf(w, x)
  <1>1. x \in ToSet(w.accessories) /\ ServersOf(w, x) # {}
    BY DEF Dependencies
  <1>2. expandTarget(w, x.on) \in Seq(Known(w))
    BY <1>1, ConfigHas, ConfigIsNamed, TargetHas
  <1> QED
    BY <1>1, <1>2, FirstOf DEF HostOf, ServersOf

-----------------------------------------------------------------------------
(* The workspace that was loaded. *)

Loads == ws \in Workspaces /\ Valid(ws) /\ ShipnodeConfig(ws)

LEMMA LoadsStays == ASSUME Loads, [Next]_vars PROVE Loads' /\ UNCHANGED ws
  <1>1. UNCHANGED ws
    BY DEF Next, vars, Step, StartRoll, Connect, Lock, EnsureAccessory, Stage, BeforeFleet,
           Flip, Post, Unlock, Report, Swap, Crash, StartDeploy, StartRollback, ClearOrphan
  <1> QED
    BY <1>1 DEF Loads, Valid, AppValid, TargetValid, SingleTargetValid, DependencyValid

LEMMA InitLoads == Init => Loads
  BY WorkspacesAssumption DEF Init, Loads

LEMMA SpecLoads == Spec => []Loads
  <1>1. Loads /\ [Next]_vars => Loads'
    BY LoadsStays
  <1> QED
    BY <1>1, InitLoads, PTL DEF Spec

\* superRefine leaves no target without a server.
LEMMA ValidTarget ==
    ASSUME NEW w, ShipnodeConfig(w), NEW on \in Seq(STRING), TargetValid(w, on)
    PROVE  expandTarget(w, on) # <<>>
  <1>1. Named(w)
    BY ConfigIsNamed
  <1>2. expandTarget(w, on) \in Seq(Known(w)) /\ ToSet(expandTarget(w, on)) \subseteq Known(w)
    BY <1>1, TargetHas
  <1>3. CASE on # Unset
    BY <1>1, <1>2, <1>3, TargetHas, FirstOf DEF TargetValid, Unset
  <1>4. CASE on = Unset
    <2>1. <<Default>> # <<>> /\ (Len(w.servers) = 1 => w.servers # <<>>)
      OBVIOUS
    <2> QED
      BY <1>1, <1>4, <2>1, TargetHas DEF TargetValid
  <1> QED
    BY <1>3, <1>4

\* Every replica of an app reaches its accessories where it is told to look for
\* them: superRefine refuses the layouts in which it would not.
THEOREM DependenciesReachable == Spec => []DependencyReachable
  <1>1. ASSUME Loads PROVE DependencyReachable
    <2> SUFFICES ASSUME NEW a \in Apps(ws), NEW x \in Dependencies(ws, a), NEW s \in ServersOf(ws, a),
                        s # HostOf(ws, x), publishedHostPorts(x) # {}
                 PROVE  /\ accessoryHostEnv(ws, a)[x.name] = ws.host[HostOf(ws, x)]
                        /\ \E p \in x.ports :
                              /\ p.bind # "loopback"
                              /\ p.port # 0 => [port |-> p.port, from |-> ws.host[s]]
                                                  \in fleetFirewallRules(ws, HostOf(ws, x))
      BY DEF DependencyReachable
    <2>0. ShipnodeConfig(ws) /\ Valid(ws)
      BY <1>1 DEF Loads
    <2>1. x \in ToSet(ws.accessories) /\ HostOf(ws, x) \in ServersOf(ws, x) /\ x.name \in a.deps
      BY <2>0, HostRuns DEF Dependencies
    <2>2. accessoryHostEnv(ws, a)[x.name] = ws.host[HostOf(ws, x)]
      <3> DEFINE names == {y.name : y \in Dependencies(ws, a)}
                 y(name) == CHOOSE z \in Dependencies(ws, a) : z.name = name
      <3>1. y(x.name) = x
        <4>1. \A z \in Dependencies(ws, a) : z.name = x.name => z = x
          BY <2>0, <2>1 DEF ShipnodeConfig, Dependencies
        <4> QED
          BY <4>1
      <3>2. accessoryHostEnv(ws, a) =
               [name \in names |-> IF ServersOf(ws, a) = {HostOf(ws, y(name))} THEN Loopback
                                   ELSE ws.host[HostOf(ws, y(name))]]
        BY DEF accessoryHostEnv
      <3>3. x.name \in names
        OBVIOUS
      <3> HIDE DEF y, names
      <3> QED
        BY <3>1, <3>2, <3>3
    <2>3. PICK p \in x.ports : p.bind # "loopback"
      <3>1. ~isLoopbackOnly(x)
        BY <2>0 DEF Valid, DependencyValid
      <3>2. x.ports # {}
        BY DEF publishedHostPorts
      <3> QED
        BY <3>1, <3>2 DEF isLoopbackOnly
    <2>4. ASSUME p.port # 0
          PROVE  [port |-> p.port, from |-> ws.host[s]] \in fleetFirewallRules(ws, HostOf(ws, x))
      <3>1. p.port \in publishedHostPorts(x)
        BY <2>4 DEF publishedHostPorts
      <3>2. s \in (UNION {ServersOf(ws, b) : b \in {c \in Apps(ws) : x.name \in c.deps}}) \ {HostOf(ws, x)}
        <4>1. a \in {c \in Apps(ws) : x.name \in c.deps} /\ s \in ServersOf(ws, a)
          BY <2>1
        <4>2. s \in UNION {ServersOf(ws, b) : b \in {c \in Apps(ws) : x.name \in c.deps}}
          BY <4>1
        <4> QED
          BY <4>2
      <3> QED
        BY <2>1, <3>1, <3>2 DEF fleetFirewallRules
    <2> QED
      BY <2>2, <2>3, <2>4
  <1> QED
    BY <1>1, SpecLoads, PTL

-----------------------------------------------------------------------------
(* A workspace narrowed to one app. *)

LEMMA NarrowedConfig ==
    ASSUME NEW w, ShipnodeConfig(w), NEW a, a.on \in Seq(STRING)
    PROVE  LET n == configForApp(w, a)
           IN  /\ DOMAIN n = DOMAIN w /\ Named(n)
               /\ n.servers = expandTarget(w, a.on) /\ Known(n) = ServersOf(w, a)
               /\ Known(n) \subseteq Known(w)
               /\ n.apps = <<a>>
               /\ n.accessories = On(w, w.accessories, ServersOf(w, a))
               /\ n.database = serviceForServers(w, ServersOf(w, a))
  <1> DEFINE n == configForApp(w, a)
             t == expandTarget(w, a.on)
  <1>1. /\ DOMAIN n = DOMAIN w /\ n.servers = t /\ n.apps = <<a>>
        /\ n.accessories = On(w, w.accessories, ToSet(t))
        /\ n.database = serviceForServers(w, ToSet(t))
    BY DEF configForApp, ShipnodeConfig
  <1>2. t \in Seq(Known(w)) /\ IsInjective(t) /\ ToSet(t) \subseteq Known(w)
    BY ConfigIsNamed, TargetHas
  <1>3. Known(w) \subseteq STRING
    BY DEF Known, ToSet, ShipnodeConfig
  <1> HIDE DEF t, n
  <1>4. t \in Seq(STRING)
    BY <1>2, <1>3, SeqMonotonic
  <1> QED
    BY <1>1, <1>2, <1>4 DEF Named, Known, ServersOf, n, t

\* A target that keeps a server in the narrowed workspace keeps exactly those of
\* its servers that are still there.
LEMMA NarrowedTarget ==
    ASSUME NEW w, Named(w), NEW n, Named(n), Known(n) \subseteq Known(w), NEW on \in Seq(STRING),
           ToSet(expandTarget(w, on)) \cap Known(n) # {}
    PROVE  ToSet(expandTarget(n, on)) = ToSet(expandTarget(w, on)) \cap Known(n)
  <1>1. CASE on # Unset
    BY <1>1, TargetHas
  <1>2. CASE on = Unset
    <2>1. \A e : ToSet(<<e>>) = {e}
      BY DEF ToSet
    <2>2. ToSet(<<>>) = {}
      BY DEF ToSet
    <2>3. CASE Default \in Known(w)
      <3>1. expandTarget(w, on) = <<Default>>
        BY <1>2, <2>3, TargetHas
      <3>2. Default \in Known(n)
        BY <2>1, <3>1
      <3>3. expandTarget(n, on) = <<Default>>
        BY <1>2, <3>2, TargetHas
      <3> QED
        BY <2>1, <3>1, <3>2, <3>3
    <2>4. CASE Default \notin Known(w)
      <3>1. Len(w.servers) = 1 /\ expandTarget(w, on) = w.servers
        BY <1>2, <2>2, <2>4, TargetHas
      <3>2. \A x, y \in Known(w) : x = y
        BY <3>1, FirstOf DEF Known, Named
      <3>3. Len(n.servers) = 1
        <4>1. n.servers \in Seq(STRING) /\ IsInjective(n.servers) /\ ToSet(n.servers) = Known(n)
          BY DEF Named, Known
        <4>2. Len(n.servers) \in Nat /\ Len(n.servers) # 0
          BY <4>1, FirstOf
        <4>3. ASSUME Len(n.servers) >= 2 PROVE FALSE
          <5>1. n.servers[1] \in Known(w) /\ n.servers[2] \in Known(w)
            BY <4>1, <4>3 DEF ToSet
          <5> QED
            BY <3>2, <4>1, <4>3, <5>1 DEF IsInjective
        <4>4. \A k \in Nat : k # 0 /\ ~(k >= 2) => k = 1
          OBVIOUS
        <4> QED
          BY <4>2, <4>3, <4>4, Zenon
      <3>4. expandTarget(n, on) = n.servers
        <4>1. Default \notin Known(n)
          BY <2>4
        <4> QED
          BY <1>2, <3>3, <4>1, TargetHas
      <3>5. ToSet(expandTarget(n, on)) = Known(n) /\ ToSet(expandTarget(w, on)) = Known(w)
        BY <3>1, <3>4 DEF Known
      <3> QED
        BY <3>5
    <2> QED
      BY <2>3, <2>4
  <1> QED
    BY <1>1, <1>2

\* The app itself is not narrowed.
LEMMA SameServers ==
    ASSUME NEW w, ShipnodeConfig(w), NEW a, a.on \in Seq(STRING)
    PROVE  ServersOf(configForApp(w, a), a) = ServersOf(w, a)
  <1> DEFINE n == configForApp(w, a)
  <1>1. Named(w) /\ Named(n) /\ Known(n) = ServersOf(w, a) /\ Known(n) \subseteq Known(w)
    BY ConfigIsNamed, NarrowedConfig
  <1> HIDE DEF n
  <1>2. CASE ServersOf(w, a) # {}
    <2>1. ToSet(expandTarget(w, a.on)) \cap Known(n) = ServersOf(w, a)
      BY <1>1 DEF ServersOf
    <2>2. ToSet(expandTarget(n, a.on)) = ServersOf(w, a)
      BY <1>1, <1>2, <2>1, NarrowedTarget
    <2> QED
      BY <2>2 DEF ServersOf, n
  <1>3. CASE ServersOf(w, a) = {}
    <2>1. ToSet(expandTarget(n, a.on)) \subseteq Known(n)
      BY <1>1, TargetHas
    <2> QED
      BY <1>1, <1>3, <2>1 DEF ServersOf, n
  <1> QED
    BY <1>2, <1>3

\* serviceForServers keeps the one database with its server.
THEOREM DatabaseHasOneHome == Spec => []DatabaseOnOneServer
  <1>1. ASSUME Loads PROVE DatabaseOnOneServer
    <2> DEFINE home(on) == expandTarget(ws, on)[1]
               has(w) == {s \in Known(w) : configForServer(w, s).database # {}}
    <2> SUFFICES ASSUME NEW on \in ws.database
                 PROVE  /\ has(ws) = {home(on)}
                        /\ \A a \in Apps(ws) : has(configForApp(ws, a)) = {home(on)} \cap ServersOf(ws, a)
      BY DEF DatabaseOnOneServer
    <2>1. ShipnodeConfig(ws) /\ Named(ws)
      BY <1>1, ConfigIsNamed DEF Loads
    <2>2. on \in Seq(STRING) /\ ws.database = {on}
      BY <2>1 DEF ShipnodeConfig
    <2>3. TargetValid(ws, on) /\ Len(expandTarget(ws, on)) <= 1
      BY <1>1 DEF Loads, Valid, SingleTargetValid
    <2>4. /\ expandTarget(ws, on) # <<>> /\ home(on) \in Known(ws)
          /\ ToSet(expandTarget(ws, on)) = {home(on)}
      <3>1. expandTarget(ws, on) \in Seq(Known(ws)) /\ ToSet(expandTarget(ws, on)) \subseteq Known(ws)
        BY <2>1, <2>2, TargetHas
      <3>2. expandTarget(ws, on) # <<>>
        BY <2>1, <2>2, <2>3, ValidTarget
      <3> QED
        BY <2>3, <3>1, <3>2, FirstOf
    <2>5. ASSUME NEW w, DOMAIN w = DOMAIN ws, NEW s
          PROVE  configForServer(w, s).database =
                    {o \in w.database : expandTarget(w, o) # <<>> /\ expandTarget(w, o)[1] = s}
      BY <2>1, <2>5 DEF configForServer, serviceForServers, ShipnodeConfig
    <2>6. has(ws) = {home(on)}
      <3>1. \A s : configForServer(ws, s).database =
                      {o \in {on} : expandTarget(ws, o) # <<>> /\ home(o) = s}
        BY <2>2, <2>5
      <3>2. \A s : configForServer(ws, s).database # {} <=> home(on) = s
        BY <2>4, <3>1
      <3> QED
        BY <2>4, <3>2
    <2>7. ASSUME NEW a \in Apps(ws)
          PROVE  has(configForApp(ws, a)) = {home(on)} \cap ServersOf(ws, a)
      <3> DEFINE n == configForApp(ws, a)
      <3>0. a.on \in Seq(STRING)
        BY <2>1, ConfigHas
      <3>1. /\ DOMAIN n = DOMAIN ws /\ Named(n) /\ Known(n) = ServersOf(ws, a)
            /\ Known(n) \subseteq Known(ws) /\ n.database = serviceForServers(ws, ServersOf(ws, a))
        BY <2>1, <3>0, NarrowedConfig
      <3> HIDE DEF n
      <3>2. n.database = IF home(on) \in Known(n) THEN {on} ELSE {}
        BY <2>2, <2>4, <3>1 DEF serviceForServers
      <3>3. \A s : configForServer(n, s).database =
                      {o \in n.database : expandTarget(n, o) # <<>> /\ expandTarget(n, o)[1] = s}
        BY <2>5, <3>1
      <3>4. CASE home(on) \notin Known(n)
        BY <3>1, <3>2, <3>3, <3>4 DEF n
      <3>5. CASE home(on) \in Known(n)
        <4>1. ToSet(expandTarget(n, on)) = {home(on)}
          BY <2>1, <2>2, <2>4, <3>1, <3>5, NarrowedTarget
        <4>2. expandTarget(n, on) \in Seq(Known(n))
          BY <2>2, <3>1, TargetHas
        <4>3. expandTarget(n, on) # <<>> /\ expandTarget(n, on)[1] = home(on)
          BY <4>1, <4>2, FirstOf
        <4> QED
          BY <3>1, <3>2, <3>3, <3>5, <4>3 DEF n
      <3> QED
        BY <3>4, <3>5
    <2> QED
      BY <2>6, <2>7
  <1> QED
    BY <1>1, SpecLoads, PTL

-----------------------------------------------------------------------------
(* The order of the servers. *)

LEMMA InjectiveSize ==
    ASSUME NEW T, NEW s \in Seq(T), IsInjective(s)
    PROVE  IsFiniteSet(ToSet(s)) /\ Cardinality(ToSet(s)) = Len(s)
  <1>1. Len(s) \in Nat /\ s \in [1 .. Len(s) -> ToSet(s)] /\ DOMAIN s = 1 .. Len(s)
    BY DEF ToSet
  <1>2. s \in Bijection(1 .. Len(s), ToSet(s))
    BY <1>1, Fun_IsBij DEF IsInjective, ToSet
  <1>3. ExistsBijection(1 .. Len(s), ToSet(s))
    BY <1>2, Fun_ExistsBij
  <1> QED
    BY <1>1, <1>3, FS_NatBijection, FS_CountingElements

\* What is placed next in getServerTargets: `w` is the workspace, p what is placed.
Left(w, p)  == Only(w.servers, Known(w) \ ToSet(p))
Ready(w, p) == Only(Left(w, p), {s \in Known(w) : serverPrerequisites(w)[s] \subseteq ToSet(p)})
Place(w, p) == Append(p, IF Ready(w, p) = <<>> THEN Left(w, p)[1] ELSE Ready(w, p)[1])
PlaceStep(w, f, n) == IF n = 0 THEN <<>> ELSE Place(w, f[n - 1])

LEMMA OrderIs ==
    ASSUME NEW w, Len(w.servers) \in Nat
    PROVE  \E f : /\ f = [n \in 0 .. Len(w.servers) |-> PlaceStep(w, f, n)]
                  /\ getServerTargets(w) =
                        IF \A s \in Known(w) : serverPrerequisites(w)[s] = {} THEN w.servers
                        ELSE f[Len(w.servers)]
  <1> DEFINE Upto(f, m) == f = [n \in 0 .. m |-> PlaceStep(w, f, n)]
             N == {m \in Nat : \E f : Upto(f, m)}
  <1>1. 0 \in N
    <2>1. Upto([n \in 0 .. 0 |-> <<>>], 0)
      BY DEF PlaceStep
    <2> QED
      BY <2>1
  <1>2. ASSUME NEW m \in N PROVE m + 1 \in N
    <2>1. PICK f : Upto(f, m)
      OBVIOUS
    <2> DEFINE g == [n \in 0 .. (m + 1) |-> PlaceStep(w, f, n)]
    <2>2. \A n \in 0 .. m : g[n] = f[n]
      BY <2>1
    <2>3. ASSUME NEW n \in 0 .. (m + 1) PROVE PlaceStep(w, g, n) = PlaceStep(w, f, n)
      <3>1. CASE n = 0
        BY <3>1 DEF PlaceStep
      <3>2. CASE n # 0
        <4>1. n - 1 \in 0 .. m
          BY <3>2
        <4>2. g[n - 1] = f[n - 1]
          BY <2>2, <4>1
        <4> HIDE DEF g
        <4> QED
          BY <3>2, <4>2 DEF PlaceStep
      <3> QED
        BY <3>1, <3>2
    <2> QED
      BY <2>3
  <1>3. N = Nat
    <2> HIDE DEF N
    <2>1. N \in SUBSET Nat
      BY DEF N
    <2> QED
      BY <1>1, <1>2, <2>1, SetInduction
  <1> DEFINE needs == serverPrerequisites(w)
             order[n \in 0 .. Len(w.servers)] ==
                 IF n = 0 THEN <<>>
                 ELSE LET placed == order[n - 1]
                          left   == Only(w.servers, Known(w) \ ToSet(placed))
                          ready  == Only(left, {s \in Known(w) : needs[s] \subseteq ToSet(placed)})
                      IN  Append(placed, IF ready = <<>> THEN left[1] ELSE ready[1])
  <1>4. getServerTargets(w) = IF \A s \in Known(w) : needs[s] = {} THEN w.servers
                              ELSE order[Len(w.servers)]
    BY DEF getServerTargets
  <1>5. order = CHOOSE f : Upto(f, Len(w.servers))
    BY DEF PlaceStep, Place, Left, Ready
  <1>6. \E f : Upto(f, Len(w.servers))
    BY <1>3
  <1> HIDE DEF order
  <1>7. Upto(order, Len(w.servers))
    BY <1>5, <1>6
  <1> QED
    BY <1>4, <1>7

\* p is a beginning of an order of the servers.
Placed(w, p, n) == p \in Seq(Known(w)) /\ Len(p) = n /\ IsInjective(p)

\* While servers are left, one of them is next, a ready one if there is one.
LEMMA PlaceHas ==
    ASSUME NEW w, Named(w), NEW n \in Nat, n < Len(w.servers), NEW p, Placed(w, p, n)
    PROVE  \E x \in Known(w) \ ToSet(p) :
              /\ Place(w, p) = Append(p, x) /\ Placed(w, Place(w, p), n + 1)
              /\ (\E y \in Known(w) \ ToSet(p) : serverPrerequisites(w)[y] \subseteq ToSet(p))
                    => serverPrerequisites(w)[x] \subseteq ToSet(p)
  <1> DEFINE needs == serverPrerequisites(w)
             ready == {s \in Known(w) : needs[s] \subseteq ToSet(p)}
             left == Left(w, p)
  <1>1. w.servers \in Seq(Known(w)) /\ IsInjective(w.servers) /\ ToSet(w.servers) = Known(w)
    BY InRange DEF Named, Known
  <1>2. left \in Seq(Known(w)) /\ ToSet(left) = Known(w) \ ToSet(p)
    BY <1>1, OnlyHas DEF Left
  <1>3. Ready(w, p) \in Seq(Known(w)) /\ ToSet(Ready(w, p)) = ToSet(left) \cap ready
    BY <1>2, OnlyHas DEF Ready
  <1>4. Known(w) \ ToSet(p) # {}
    <2>1. Cardinality(Known(w)) = Len(w.servers) /\ IsFiniteSet(Known(w))
      BY <1>1, InjectiveSize
    <2>2. Cardinality(ToSet(p)) = n /\ IsFiniteSet(ToSet(p))
      BY InjectiveSize DEF Placed
    <2>3. ASSUME Known(w) \subseteq ToSet(p) PROVE FALSE
      <3>1. Cardinality(Known(w)) <= Cardinality(ToSet(p))
        BY <2>2, <2>3, FS_Subset
      <3>2. Len(w.servers) \in Nat
        BY <1>1
      <3> QED
        BY <2>1, <2>2, <3>1, <3>2
    <2> QED
      BY <2>3
  <1> DEFINE x == IF Ready(w, p) = <<>> THEN left[1] ELSE Ready(w, p)[1]
  <1>5. x \in Known(w) \ ToSet(p)
    BY <1>2, <1>3, <1>4, FirstOf
  <1>6. ASSUME NEW y \in Known(w) \ ToSet(p), needs[y] \subseteq ToSet(p)
        PROVE  needs[x] \subseteq ToSet(p)
    <2>1. y \in ToSet(Ready(w, p))
      BY <1>2, <1>3, <1>6
    <2>2. x \in ToSet(Ready(w, p))
      BY <1>3, <2>1, FirstOf
    <2> QED
      BY <1>3, <2>2
  <1>7. Place(w, p) = Append(p, x)
    BY DEF Place
  <1> HIDE DEF x
  <1>8. Placed(w, Append(p, x), n + 1)
    <2> DEFINE q == Append(p, x)
    <2>1. p \in Seq(Known(w)) /\ Len(p) = n /\ DOMAIN p = 1 .. n
      BY DEF Placed
    <2>2. /\ q \in Seq(Known(w)) /\ Len(q) = n + 1 /\ DOMAIN q = 1 .. n + 1
          /\ \A i \in 1 .. n : q[i] = p[i]
          /\ q[n + 1] = x
      BY <1>5, <2>1
    <2>3. \A i \in 1 .. n : p[i] # x
      BY <1>5, <2>1 DEF ToSet
    <2> HIDE DEF q
    <2>4. IsInjective(q)
      BY <2>1, <2>2, <2>3 DEF IsInjective, Placed
    <2> QED
      BY <2>2, <2>4 DEF Placed, q
  <1> QED
    BY <1>5, <1>6, <1>7, <1>8

\* Every server is visited once.
LEMMA OrderHas ==
    ASSUME NEW w, Named(w)
    PROVE  /\ getServerTargets(w) \in Seq(Known(w)) /\ IsInjective(getServerTargets(w))
           /\ Len(getServerTargets(w)) = Len(w.servers)
           /\ ToSet(getServerTargets(w)) = Known(w)
  <1>1. /\ w.servers \in Seq(Known(w)) /\ IsInjective(w.servers) /\ ToSet(w.servers) = Known(w)
        /\ Len(w.servers) \in Nat
    BY InRange DEF Named, Known
  <1>2. PICK f : /\ f = [n \in 0 .. Len(w.servers) |-> PlaceStep(w, f, n)]
                 /\ getServerTargets(w) =
                       IF \A s \in Known(w) : serverPrerequisites(w)[s] = {} THEN w.servers
                       ELSE f[Len(w.servers)]
    BY <1>1, OrderIs
  <1> DEFINE N == {n \in Nat : n <= Len(w.servers) => Placed(w, f[n], n)}
  <1>3. 0 \in N
    BY <1>2 DEF PlaceStep, Placed, IsInjective
  <1>4. ASSUME NEW n \in N PROVE n + 1 \in N
    <2> SUFFICES ASSUME n + 1 <= Len(w.servers) PROVE Placed(w, f[n + 1], n + 1)
      OBVIOUS
    <2>1. n \in Nat /\ n < Len(w.servers) /\ Placed(w, f[n], n)
      BY <1>1
    <2>2. n + 1 \in 0 .. Len(w.servers) /\ n + 1 # 0 /\ (n + 1) - 1 = n
      BY <2>1
    <2>3. f[n + 1] = Place(w, f[n])
      BY <1>2, <2>2 DEF PlaceStep
    <2> QED
      BY <2>1, <2>3, PlaceHas
  <1>5. N = Nat
    <2> HIDE DEF N
    <2>1. N \in SUBSET Nat
      BY DEF N
    <2> QED
      BY <1>3, <1>4, <2>1, SetInduction
  <1>6. Placed(w, f[Len(w.servers)], Len(w.servers))
    BY <1>1, <1>5
  <1>7. ASSUME NEW p, Placed(w, p, Len(w.servers)) PROVE ToSet(p) = Known(w)
    <2>1. p \in Seq(Known(w)) /\ ToSet(p) \in SUBSET Known(w)
      BY <1>7 DEF Placed, ToSet
    <2>2. Cardinality(ToSet(p)) = Len(w.servers)
      BY <1>7, InjectiveSize DEF Placed
    <2>3. Cardinality(Known(w)) = Len(w.servers) /\ IsFiniteSet(Known(w))
      BY <1>1, InjectiveSize
    <2> QED
      BY <2>1, <2>2, <2>3, FS_Subset
  <1> QED
    BY <1>1, <1>2, <1>6, <1>7 DEF Placed

LEMMA PrerequisitesKnown ==
    ASSUME NEW w, ShipnodeConfig(w), NEW s \in Known(w)
    PROVE  serverPrerequisites(w)[s] \subseteq Known(w)
  <1>1. ASSUME NEW a, NEW x \in Dependencies(w, a) PROVE HostOf(w, x) \in Known(w)
    <2>1. HostOf(w, x) \in ServersOf(w, x) /\ x.on \in Seq(STRING)
      BY HostRuns, ConfigHas
    <2> QED
      BY <2>1, ConfigIsNamed, TargetHas DEF ServersOf
  <1> QED
    BY <1>1 DEF serverPrerequisites

\* Needs is the least set closed under the prerequisites.
LEMMA NeedsHas ==
    ASSUME ShipnodeConfig(ws), NEW s \in Known(ws)
    PROVE  LET needs == serverPrerequisites(ws)
           IN  /\ Needs(s) \subseteq Known(ws) /\ needs[s] \subseteq Needs(s)
               /\ \A t \in Needs(s) : needs[t] \subseteq Needs(s)
               /\ \A C \in SUBSET Known(ws) :
                     needs[s] \subseteq C /\ (\A t \in C : needs[t] \subseteq C) => Needs(s) \subseteq C
  <1> DEFINE needs == serverPrerequisites(ws)
             closed == {C \in SUBSET Known(ws) : needs[s] \subseteq C /\ \A t \in C : needs[t] \subseteq C}
  <1>1. Needs(s) = {t \in Known(ws) : \A C \in closed : t \in C}
    BY DEF Needs
  <1>2. \A t \in Known(ws) : needs[t] \subseteq Known(ws)
    BY PrerequisitesKnown
  <1> HIDE DEF needs
  <1> QED
    BY <1>1, <1>2 DEF needs

\* Without a cycle something is always ready.
LEMMA SomeReady ==
    ASSUME ShipnodeConfig(ws), \A s \in Known(ws) : s \notin Needs(s),
           NEW P, Known(ws) \ P # {}
    PROVE  \E y \in Known(ws) \ P : serverPrerequisites(ws)[y] \subseteq P
  <1> DEFINE needs == serverPrerequisites(ws)
             L == Known(ws) \ P
             N == {Cardinality(Needs(s)) : s \in L}
  <1>0. IsFiniteSet(Known(ws))
    <2>1. ws.servers \in Seq(STRING) /\ IsInjective(ws.servers)
      BY DEF ShipnodeConfig
    <2> QED
      BY <2>1, InjectiveSize DEF Known
  <1>1. \A s \in L : IsFiniteSet(Needs(s)) /\ Cardinality(Needs(s)) \in Nat
    BY <1>0, NeedsHas, FS_Subset, FS_CardinalityType
  <1>2. PICK s \in L : \A t \in L : Cardinality(Needs(s)) <= Cardinality(Needs(t))
    <2>1. N \in SUBSET Nat /\ N # {}
      BY <1>1
    <2>2. PICK n \in N : \A m \in N : n <= m
      BY <2>1, Least
    <2> QED
      BY <2>2
  <1>3. ASSUME ~(needs[s] \subseteq P) PROVE FALSE
    <2>1. PICK t \in needs[s] : t \notin P
      BY <1>3
    <2>2. t \in Needs(s) /\ t \in L /\ needs[t] \subseteq Needs(s) /\ Needs(s) \in SUBSET Known(ws)
          /\ \A u \in Needs(s) : needs[u] \subseteq Needs(s)
      BY <2>1, NeedsHas
    <2>3. Needs(t) \in SUBSET Needs(s)
      BY <2>2, NeedsHas
    <2>4. t \notin Needs(t)
      BY <2>2
    <2>5. Cardinality(Needs(t)) <= Cardinality(Needs(s)) /\ Cardinality(Needs(t)) # Cardinality(Needs(s))
      BY <1>1, <2>2, <2>3, <2>4, FS_Subset
    <2>6. Cardinality(Needs(s)) <= Cardinality(Needs(t))
      BY <1>2, <2>2
    <2>7. Cardinality(Needs(t)) \in Nat /\ Cardinality(Needs(s)) \in Nat
      BY <1>1, <2>2
    <2> QED
      BY <2>5, <2>6, <2>7
  <1> QED
    BY <1>3

\* Each element of p comes after what it needs.
InOrder(p) == \A i \in 1 .. Len(p) :
                 serverPrerequisites(ws)[p[i]] \subseteq {p[j] : j \in 1 .. i - 1}

LEMMA AcyclicOrder ==
    ASSUME ShipnodeConfig(ws), \A s \in Known(ws) : s \notin Needs(s)
    PROVE  InOrder(getServerTargets(ws))
  <1> DEFINE needs == serverPrerequisites(ws)
  <1>0. Named(ws)
    BY ConfigIsNamed
  <1>1. ws.servers \in Seq(Known(ws)) /\ Len(ws.servers) \in Nat
    BY <1>0, InRange DEF Named, Known
  <1>2. PICK f : /\ f = [n \in 0 .. Len(ws.servers) |-> PlaceStep(ws, f, n)]
                 /\ getServerTargets(ws) =
                       IF \A s \in Known(ws) : needs[s] = {} THEN ws.servers
                       ELSE f[Len(ws.servers)]
    BY <1>1, OrderIs
  <1> DEFINE Has(n) == Placed(ws, f[n], n) /\ InOrder(f[n])
             N == {n \in Nat : n <= Len(ws.servers) => Has(n)}
  <1>3. 0 \in N
    BY <1>2 DEF PlaceStep, Placed, IsInjective, InOrder
  <1>4. ASSUME NEW n \in Nat, n + 1 <= Len(ws.servers), Has(n) PROVE Has(n + 1)
    <2>1. n < Len(ws.servers) /\ n + 1 \in 0 .. Len(ws.servers) /\ n + 1 # 0 /\ (n + 1) - 1 = n
      BY <1>1, <1>4
    <2> DEFINE p == f[n]
    <2>2. f[n + 1] = Place(ws, p)
      BY <1>2, <2>1 DEF PlaceStep
    <2>3. Placed(ws, p, n) /\ InOrder(p)
      BY <1>4
    <2> HIDE DEF p
    <2>4. PICK x \in Known(ws) \ ToSet(p) :
              /\ Place(ws, p) = Append(p, x) /\ Placed(ws, Place(ws, p), n + 1)
              /\ (\E y \in Known(ws) \ ToSet(p) : needs[y] \subseteq ToSet(p))
                    => needs[x] \subseteq ToSet(p)
      BY <1>0, <2>1, <2>3, PlaceHas
    <2>5. needs[x] \subseteq ToSet(p)
      BY <2>4, SomeReady
    <2> DEFINE q == Append(p, x)
    <2>6. /\ p \in Seq(Known(ws)) /\ Len(p) = n /\ ToSet(p) = {p[j] : j \in 1 .. n}
      BY <2>3 DEF Placed, ToSet
    <2>7. Len(q) = n + 1 /\ q[n + 1] = x /\ \A i \in 1 .. n : q[i] = p[i]
      BY <2>4, <2>6
    <2> HIDE DEF q
    <2>8. ASSUME NEW i \in 1 .. Len(q) PROVE needs[q[i]] \subseteq {q[j] : j \in 1 .. i - 1}
      <3>1. \A j \in 1 .. i - 1 : j \in 1 .. n /\ q[j] = p[j]
        BY <2>7
      <3>2. {q[j] : j \in 1 .. i - 1} = {p[j] : j \in 1 .. i - 1}
        BY <3>1
      <3>3. CASE i = n + 1
        BY <2>5, <2>6, <2>7, <3>2, <3>3
      <3>4. CASE i # n + 1
        <4>1. i \in 1 .. Len(p) /\ q[i] = p[i]
          BY <2>6, <2>7, <3>4
        <4> QED
          BY <2>3, <3>2, <4>1 DEF InOrder
      <3> QED
        BY <3>3, <3>4
    <2> QED
      BY <2>2, <2>4, <2>8 DEF InOrder, q
  <1>5. N = Nat
    <2> HIDE DEF Has
    <2>1. \A n \in N : n + 1 \in N
      BY <1>1, <1>4
    <2> HIDE DEF N
    <2>2. N \in SUBSET Nat
      BY DEF N
    <2> QED
      BY <1>3, <2>1, <2>2, SetInduction
  <1>6. InOrder(f[Len(ws.servers)])
    BY <1>1, <1>5
  <1>7. CASE \A s \in Known(ws) : needs[s] = {}
    <2>1. \A i \in 1 .. Len(ws.servers) : ws.servers[i] \in Known(ws)
      BY <1>1
    <2> QED
      BY <1>2, <1>7, <2>1 DEF InOrder
  <1> QED
    BY <1>2, <1>6, <1>7

\* getServerTargets visits every server once, and each after all it depends on when
\* that is possible: whatever the number of servers and the layout.
THEOREM DependenciesComeFirst == Spec => []DependenciesFirst
  <1>1. ASSUME Loads PROVE DependenciesFirst
    <2> DEFINE order == getServerTargets(ws)
               needs == serverPrerequisites(ws)
               pos(s) == CHOOSE i \in DOMAIN order : order[i] = s
    <2>0. ShipnodeConfig(ws) /\ Named(ws)
      BY <1>1, ConfigIsNamed DEF Loads
    <2>1. /\ order \in Seq(Known(ws)) /\ IsInjective(order)
          /\ Len(order) = Len(ws.servers) /\ ToSet(order) = Known(ws)
      BY <2>0, OrderHas
    <2> HIDE DEF order
    <2>2. DOMAIN order = 1 .. Len(order) /\ Len(order) \in Nat
      BY <2>1
    <2>3. \A i \in 1 .. Len(order) : pos(order[i]) = i
      BY <2>1, <2>2 DEF IsInjective
    <2>4. ASSUME \A s \in Known(ws) : s \notin Needs(s),
                 NEW s \in Known(ws), NEW t \in Needs(s)
          PROVE  pos(t) < pos(s)
      <3>1. PICK i \in 1 .. Len(order) : order[i] = s
        BY <2>1, FirstOf
      <3> DEFINE C == {order[j] : j \in 1 .. i - 1}
      <3>2. InOrder(order)
        BY <2>0, <2>4, AcyclicOrder DEF order
      <3>3. needs[s] \subseteq C
        BY <3>1, <3>2 DEF InOrder
      <3>4. ASSUME NEW u \in C PROVE needs[u] \subseteq C
        <4>1. PICK j \in 1 .. i - 1 : u = order[j]
          OBVIOUS
        <4>2. j \in 1 .. Len(order)
          BY <2>2
        <4>3. needs[u] \subseteq {order[k] : k \in 1 .. j - 1}
          BY <3>2, <4>1, <4>2 DEF InOrder
        <4> QED
          BY <4>3
      <3>5. C \in SUBSET Known(ws)
        BY <2>1, <2>2
      <3> HIDE DEF C
      <3>6. t \in C
        BY <2>0, <3>3, <3>4, <3>5, NeedsHas
      <3>7. PICK j \in 1 .. i - 1 : t = order[j]
        BY <3>6 DEF C
      <3>8. j \in 1 .. Len(order) /\ j < i
        BY <2>2
      <3> HIDE DEF pos
      <3> QED
        BY <2>3, <3>1, <3>7, <3>8
    <2> QED
      BY <2>1, <2>4 DEF DependenciesFirst, order
  <1> QED
    BY <1>1, SpecLoads, PTL
=============================================================================
