------------------------------- MODULE Tunnel -------------------------------
(***************************************************************************)
(* `shipnode cloudflare init`: services/cloudflare.orchestrator.ts on every *)
(* server in turn (cli/commands/cloudflare.ts), the tunnel file of          *)
(* domain/cloudflare/tunnel.ts and the account behind                       *)
(* infrastructure/cloudflare/api.ts. A tunnel is a number; its name is the  *)
(* server it was made for. A step is an API request or a remote command,    *)
(* and any of them may fail. Between commands the operator moves apps,      *)
(* deletes tunnels in the dashboard and tunnel files on servers.            *)
(***************************************************************************)
EXTENDS AdminRuns, Integers, Sequences, FiniteSets

CONSTANTS
    Host,         \* sequence of servers; the first owns the ssh hostname
    Domain,       \* domains of apps with a web process
    SshName,      \* cloudflare.sshHostname
    MaxTunnel     \* bound: tunnels that are made

ASSUME TunnelAssumption ==
    /\ Host \in Seq(STRING) /\ Host # <<>>
    /\ SshName \notin Domain /\ MaxTunnel \in Nat \ {0}

None    == 0
Hosts   == {Host[i] : i \in DOMAIN Host}
Names   == Domain \cup {SshName}
Tunnels == 1 .. MaxTunnel

VARIABLES
    place, zero,       \* [domain]: its app's server, and is it zeroDowntime
    named, live,       \* [tunnel]: the server it is named for; tunnels that exist
    dns,               \* [name]: the tunnel its CNAME points at
    creds, file, svc,  \* [server]: credentials <<tunnel, directory>>, config.yml with
                       \* those it names, what cloudflared loaded
    run                \* the running command

config    == <<place, zero>>
account   == <<named, live, dns>>
server    == <<creds, file, svc>>

NoFile == [id |-> None, dir |-> "etc", route |-> [n \in Names |-> "none"]]
Done   == [at |-> "idle", todo |-> <<>>, names |-> {}, tunnel |-> NoFile, ok |-> TRUE]

On(l) == run.at = l
Here  == Head(run.todo)
Then(l) == run' = [run EXCEPT !.at = l]

\* runRemoteCommandForTargets goes on with the next server.
NextServer(ok) == run' = [Done EXCEPT !.at = "visit", !.todo = Tail(run.todo),
                                 !.ok = run.ok /\ ok]
Throw == NextServer(FALSE)

-----------------------------------------------------------------------------
(* configForServer and manageSshHostname: the names this server routes. *)

AppsOn(h) == {d \in Domain : place[d] = h}
Owned(h)  == AppsOn(h) \cup (IF h = Host[1] THEN {SshName} ELSE {})

\* addAppIngress: blue-green apps through Caddy, which follows the colours.
addAppIngress(n) == CASE n = SshName -> "ssh" [] n # SshName /\ zero[n] -> "caddy"
                      [] n # SshName /\ ~zero[n] -> "port"

\* addIngress: an entry of the hostname is replaced.
addIngress_First(t, n) ==
    IF t.route[n] = "none" THEN [t EXCEPT !.route[n] = addAppIngress(n)] ELSE t
addIngress(t, n) == [t EXCEPT !.route[n] = addAppIngress(n)]

findTunnel(h) == {t \in live : named[t] = h}

-----------------------------------------------------------------------------
(* init *)

InitAll ==
    /\ On("idle") /\ OneMore
    /\ run' = [Done EXCEPT !.at = "visit", !.todo = Host]
    /\ UNCHANGED <<config, account, server>>

\* A server without apps is passed over, the owner of the ssh hostname too.
Visit ==
    /\ On("visit")
    /\ \/ /\ run.todo # <<>> /\ AppsOn(Here) # {}
          /\ Then("host") \/ Throw
       \/ /\ run.todo # <<>> /\ AppsOn(Here) = {}
          /\ run' = [run EXCEPT !.todo = Tail(@)]
       \/ run.todo = <<>> /\ run' = Done
    /\ UNCHANGED <<config, account, server, runs>>

WithTunnel(t) == run' = [run EXCEPT !.at = "dns", !.names = Owned(Here), !.tunnel = t]

\* The tunnel the server's file names comes first, if its credentials are there.
Has(h, t) == <<t.id, t.dir>> \in creds[h]
HostTunnel ==
    /\ On("host")
    /\ \/ file[Here].id = None /\ Then("api")
       \/ Has(Here, file[Here]) /\ WithTunnel(file[Here])
       \/ file[Here].id # None /\ ~Has(Here, file[Here]) /\ Throw
    /\ UNCHANGED <<config, account, server, runs>>

\* Otherwise the one of this server's name, if its credentials are there.
credsExist_Assumed(t) == TRUE
credsExist(t) == <<t, "etc">> \in creds[Here]
ApiTunnel ==
    /\ On("api")
    /\ \/ \E t \in findTunnel(Here) :
             IF credsExist(t) THEN WithTunnel([NoFile EXCEPT !.id = t]) ELSE Throw
       \/ findTunnel(Here) = {} /\ Then("create")
       \/ Throw
    /\ UNCHANGED <<config, account, server, runs>>

\* Or a new one. Its secret is known here only: if the credentials are not
\* written, they are lost.
CreateTunnel ==
    /\ On("create")
    /\ \/ \E t \in Tunnels :
             /\ named[t] = "unmade" /\ \A u \in Tunnels : u < t => named[u] # "unmade"
             /\ named' = [named EXCEPT ![t] = Here] /\ live' = live \cup {t}
             /\ \/ /\ creds' = [creds EXCEPT ![Here] = @ \cup {<<t, "etc">>}]
                   /\ WithTunnel([NoFile EXCEPT !.id = t])
                \/ Throw /\ UNCHANGED creds
       \/ Throw /\ UNCHANGED <<named, live, creds>>
    /\ UNCHANGED <<config, dns, file, svc, runs>>

\* An ingress entry and its DNS record, one name after the other.
UpsertDns(n) ==
    /\ On("dns") /\ n \in run.names
    /\ \/ /\ dns' = [dns EXCEPT ![n] = run.tunnel.id]
          /\ run' = [run EXCEPT !.names = @ \ {n}, !.tunnel = addIngress(@, n)]
       \/ Throw /\ UNCHANGED dns
    /\ UNCHANGED <<config, named, live, server, runs>>

\* The credentials of /etc/cloudflared are named, whichever the old file named. A
\* failed write leaves the file empty.
WriteConfig ==
    /\ On("dns") /\ run.names = {}
    /\ \/ file' = [file EXCEPT ![Here] = [run.tunnel EXCEPT !.dir = "etc"]] /\ Then("start")
       \/ file' \in {file, [file EXCEPT ![Here] = NoFile]} /\ Throw
    /\ UNCHANGED <<config, account, creds, svc, runs>>

\* cloudflared is up once the account knows the tunnel and its credentials.
Starts(h) == file[h].id \in live /\ Has(h, file[h])
StartService ==
    /\ On("start")
    /\ \/ /\ Starts(Here) /\ svc' = [svc EXCEPT ![Here] = file[Here]]
          /\ NextServer(TRUE) \/ Throw       \* lockdownFirewall, verifyToken
       \/ svc' \in {svc, [svc EXCEPT ![Here] = NoFile]} /\ Throw
    /\ UNCHANGED <<config, account, creds, file, runs>>

-----------------------------------------------------------------------------
(* The operator and the machines. *)

Apart == On("idle") /\ OneMore

EditApp(d) ==
    /\ Apart
    /\ \/ place' \in {[place EXCEPT ![d] = h] : h \in Hosts} /\ UNCHANGED zero
       \/ zero' = [zero EXCEPT ![d] = ~@] /\ UNCHANGED place
    /\ UNCHANGED <<account, server, run>>

DeleteTunnel(t) ==
    /\ Apart /\ t \in live
    /\ live' = live \ {t}
    /\ svc' = [h \in Hosts |-> IF svc[h].id = t THEN NoFile ELSE svc[h]]
    /\ UNCHANGED <<config, named, dns, creds, file, run>>

DeleteFile(h) ==
    /\ Apart
    /\ file' = [file EXCEPT ![h] = NoFile]
    /\ UNCHANGED <<config, account, creds, svc, run>>

Reboot(h) ==
    /\ Apart
    /\ svc' = [svc EXCEPT ![h] = IF Starts(h) THEN file[h] ELSE NoFile]
    /\ UNCHANGED <<config, account, creds, file, run>>

-----------------------------------------------------------------------------
\* A server may come with a tunnel made by hand, whose credentials cloudflared
\* keeps in the home directory unless told otherwise.
OwnTunnel(own, dir) ==
    /\ named = [t \in Tunnels |-> IF t \in own THEN "by hand" ELSE "unmade"]
    /\ live = own
    /\ creds = [h \in Hosts |-> IF h = Host[1] THEN own \X {dir} ELSE {}]
    /\ file = [h \in Hosts |-> IF h = Host[1] /\ own # {}
                               THEN [NoFile EXCEPT !.id = 1, !.dir = dir] ELSE NoFile]
    /\ svc = file

TunnelInit ==
    /\ place \in [Domain -> Hosts] /\ zero = [d \in Domain |-> FALSE]
    /\ \E own \in {{}, {1}}, dir \in {"etc", "home"} : OwnTunnel(own, dir)
    /\ dns = [n \in Names |-> None]
    /\ run = Done

TunnelNext ==
    \/ InitAll \/ Visit \/ HostTunnel \/ ApiTunnel \/ CreateTunnel \/ WriteConfig \/ StartService
    \/ \E n \in Names : UpsertDns(n)
    \/ \E d \in Domain : EditApp(d)
    \/ \E t \in Tunnels : DeleteTunnel(t)
    \/ \E h \in Hosts : DeleteFile(h) \/ Reboot(h)

-----------------------------------------------------------------------------
(* Properties. *)

\* Requests for a name end at the app: its CNAME points at the tunnel the app's
\* server runs, which routes the name the way the app is deployed now.
Reaches(n, h) == /\ dns[n] = svc[h].id /\ svc[h].id \in live
                 /\ svc[h].route[n] = addAppIngress(n)

\* A `cloudflare init` without a failure leaves every app reachable, whatever
\* failed before it and whichever server it came to last: no server takes another
\* one's names, keeps an old route or starts with another tunnel's credentials.
InitReachesEveryApp ==
    On("visit") /\ run.todo = <<>> /\ run.ok =>
        \A h \in Hosts : AppsOn(h) # {} => \A n \in Owned(h) : Reaches(n, h)

\* "a silent id/creds mismatch ... takes every app offline": a server's file names
\* credentials that are there. Where a tunnel made by hand keeps them elsewhere,
\* WriteConfig itself makes the mismatch.
ByHand(t) == t \in Tunnels /\ named[t] = "by hand"
ConfigHasCredentials ==
    \A h \in Hosts : file[h].id = None \/ Has(h, file[h]) \/ ByHand(file[h].id)
=============================================================================
