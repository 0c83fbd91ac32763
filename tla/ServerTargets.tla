---------------------------- MODULE ServerTargets ----------------------------
(***************************************************************************)
(* Where a workspace's apps and accessories live: domain/servers.ts,       *)
(* domain/networking.ts and the cross-field rules of config/schema.ts. Pure *)
(* operators on a workspace record                                         *)
(*   servers      names of the declared servers, in declaration order      *)
(*   host         the address of each server                               *)
(*   apps         apps in order: [name, on, deps, backend, web, domain, zd]; *)
(*                `zd` is zeroDowntime: "on", "off" or "unset"             *)
(*   accessories  in order: [name, on, ports], ports a set of [bind, port] *)
(*   database     the `on` of the managed database; {}: none declared      *)
(* `on` is a sequence of server names; the schema forbids an empty list.   *)
(***************************************************************************)
EXTENDS Integers, FiniteSets, SequencesExt

AppConfig == [name : STRING, on : Seq(STRING), deps : SUBSET STRING, backend : BOOLEAN,
              web : BOOLEAN, domain : BOOLEAN, zd : {"on", "off", "unset"}]
AccessoryConfig == [name : STRING, on : Seq(STRING),
                    ports : SUBSET [bind : {"any", "loopback"}, port : Nat]]

\* A workspace. Servers and accessories are keyed by their names.
ShipnodeConfig(ws) ==
    /\ DOMAIN ws = {"servers", "host", "apps", "accessories", "database"}
    /\ ws.servers \in Seq(STRING) /\ IsInjective(ws.servers)
    /\ ws.apps \in Seq(AppConfig)
    /\ ws.accessories \in Seq(AccessoryConfig)
    /\ \A x, y \in ToSet(ws.accessories) : x.name = y.name => x = y
    /\ ws.database \subseteq Seq(STRING) /\ \A on1, on2 \in ws.database : on1 = on2

Unset    == <<>>
Default  == "default"
Loopback == "127.0.0.1"

Known(ws)  == ToSet(ws.servers)
Apps(ws)   == ToSet(ws.apps)
AppNamed(ws, name) == CHOOSE a \in Apps(ws) : a.name = name

\* The elements of s at the positions I, and those in S, in their order. (SelectSeq
\* takes an operator, which would put what follows out of reach of a proof.)
AtPositions(s, I) ==
    LET kept[n \in 0 .. Len(s)] ==
            IF n = 0 THEN <<>>
            ELSE IF n \in I THEN Append(kept[n - 1], s[n]) ELSE kept[n - 1]
    IN  kept[Len(s)]
Only(s, S) == AtPositions(s, {i \in DOMAIN s : s[i] \in S})

-----------------------------------------------------------------------------
(* domain/servers.ts *)

\* The servers a target names, in the target's order and once each; unknown names
\* are dropped.
expandTarget(ws, on) ==
    CASE on # Unset -> AtPositions(on, {i \in DOMAIN on : /\ on[i] \in Known(ws)
                                                         /\ \A j \in 1 .. i - 1 : on[j] # on[i]})
      [] on = Unset /\ Default \in Known(ws) -> <<Default>>
      [] on = Unset /\ Default \notin Known(ws) ->
            IF Len(ws.servers) = 1 THEN ws.servers ELSE <<>>

ServersOf(ws, x) == ToSet(expandTarget(ws, x.on))
isFleet(ws, app) == Len(expandTarget(ws, app.on)) > 1

\* The accessories an app depends on that are declared and placed.
Dependencies(ws, app) ==
    {x \in ToSet(ws.accessories) : x.name \in app.deps /\ ServersOf(ws, x) # {}}
HostOf(ws, x) == expandTarget(ws, x.on)[1]

\* The other servers a server needs first.
serverPrerequisites(ws) ==
    [s \in Known(ws) |->
        {HostOf(ws, x) : x \in UNION {Dependencies(ws, a) :
                              a \in {b \in Apps(ws) : s \in ServersOf(ws, b)}}} \ {s}]

getServerTargets_Declared(ws) == ws.servers
\* Every server, one hosting an accessory before those whose apps depend on it,
\* in declaration order otherwise; when nothing is ready, the first one left.
getServerTargets(ws) ==
    LET needs == serverPrerequisites(ws)
        order[n \in 0 .. Len(ws.servers)] ==
            IF n = 0 THEN <<>>
            ELSE LET placed == order[n - 1]
                     left   == Only(ws.servers, Known(ws) \ ToSet(placed))
                     ready  == Only(left, {s \in Known(ws) : needs[s] \subseteq ToSet(placed)})
                 IN  Append(placed, IF ready = <<>> THEN left[1] ELSE ready[1])
    IN  IF \A s \in Known(ws) : needs[s] = {} THEN ws.servers
        ELSE order[Len(ws.servers)]

On(ws, things, servers) ==
    Only(things, {x \in ToSet(things) : ServersOf(ws, x) \cap servers # {}})

serviceForServers_Verbatim(ws, servers) == ws.database
serviceForServers(ws, servers) ==
    {on \in ws.database : expandTarget(ws, on) # <<>> /\ expandTarget(ws, on)[1] \in servers}

\* The workspace narrowed to one server, and to one app and its servers.
configForServer(ws, s) ==
    [ws EXCEPT !.apps = On(ws, @, {s}), !.accessories = On(ws, @, {s}),
               !.database = serviceForServers(ws, {s})]

configForApp(ws, app) ==
    LET names == expandTarget(ws, app.on)
    IN  [ws EXCEPT !.servers = names, !.apps = <<app>>,
                   !.accessories = On(ws, @, ToSet(names)),
                   !.database = serviceForServers(ws, ToSet(names))]

-----------------------------------------------------------------------------
(* domain/networking.ts *)

isLoopbackOnly(x) == x.ports # {} /\ \A p \in x.ports : p.bind = "loopback"

accessoryHostEnv_AnyReplica(ws, app) ==
    [name \in {x.name : x \in Dependencies(ws, app)} |->
        LET x == CHOOSE y \in Dependencies(ws, app) : y.name = name
        IN  IF HostOf(ws, x) \in ServersOf(ws, app) THEN Loopback
            ELSE ws.host[HostOf(ws, x)]]
\* SHIPNODE_<ACCESSORY>_HOST: loopback only if every replica is co-located.
accessoryHostEnv(ws, app) ==
    [name \in {x.name : x \in Dependencies(ws, app)} |->
        LET x == CHOOSE y \in Dependencies(ws, app) : y.name = name
        IN  IF ServersOf(ws, app) = {HostOf(ws, x)} THEN Loopback
            ELSE ws.host[HostOf(ws, x)]]

\* A mapping without a host port gets an ephemeral one, which no rule can name.
publishedHostPorts(x) == {p.port : p \in x.ports} \ {0}

\* The addresses a server's firewall has to let through, and to which port.
fleetFirewallRules(ws, s) ==
    UNION {{[port |-> p, from |-> ws.host[r]] :
               p \in publishedHostPorts(x),
               r \in (UNION {ServersOf(ws, a) : a \in {b \in Apps(ws) : x.name \in b.deps}}) \ {s}} :
           x \in {y \in ToSet(ws.accessories) : s \in ServersOf(ws, y)}}

-----------------------------------------------------------------------------
(* config/schema.ts *)

\* Per-app refinements.
AppValid(app) ==
    /\ app.domain /\ app.backend => app.web
    /\ app.zd = "on" => app.backend /\ app.domain /\ app.web

TargetValid(ws, on) ==
    IF on = Unset THEN Default \in Known(ws) \/ Len(ws.servers) = 1
    ELSE ToSet(on) \subseteq Known(ws)

\* validateSingleTarget: a managed service is not replicated.
SingleTargetValid(ws, on) == TargetValid(ws, on) /\ Len(expandTarget(ws, on)) <= 1

DependencyValid_FirstReplica(ws, app, x) ==
    expandTarget(ws, app.on)[1] = HostOf(ws, x) \/ ~isLoopbackOnly(x)
\* An accessory on another server than some replica is not bound to loopback.
DependencyValid(ws, app, x) ==
    ServersOf(ws, app) \subseteq {HostOf(ws, x)} \/ ~isLoopbackOnly(x)

\* superRefine: the configurations `shipnode` loads.
Valid(ws) ==
    /\ ws.servers # <<>> /\ ws.apps # <<>>
    /\ \A a \in Apps(ws) : /\ AppValid(a) /\ TargetValid(ws, a.on)
                           /\ a.deps \subseteq {x.name : x \in ToSet(ws.accessories)}
    /\ \A x \in ToSet(ws.accessories) : SingleTargetValid(ws, x.on)
    /\ \A on \in ws.database : SingleTargetValid(ws, on)
    /\ \A a \in Apps(ws) : \A x \in Dependencies(ws, a) : DependencyValid(ws, a, x)

\* transform: a backend behind Caddy is blue-green unless told otherwise.
zeroDowntime(ws, app) ==
    \/ app.zd = "on"
    \/ app.zd = "unset" /\ app.backend /\ app.web /\ (app.domain \/ isFleet(ws, app))

-----------------------------------------------------------------------------
(* domain/deploy/convergence.ts *)

\* `releases`: the release of each replica, 0 where there is none.
assessConvergence(releases) ==
    LET seen == {releases[s] : s \in DOMAIN releases}
    IN  0 \notin seen /\ Cardinality(seen) <= 1
=============================================================================
