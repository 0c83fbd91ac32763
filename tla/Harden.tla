------------------------------- MODULE Harden -------------------------------
(***************************************************************************)
(* Who gets into a server and what reaches its containers: `shipnode setup` *)
(* (the deploy user, cli/commands/setup.ts), `shipnode user`                *)
(* (cli/commands/user.ts with the users.yml the operators share) and        *)
(* `shipnode harden` (cli/commands/harden.ts with the commands of           *)
(* infrastructure/provisioning/security.ts). A step is a remote command,    *)
(* which may fail. Sessions use keys; `sudo` must not ask for a password.   *)
(***************************************************************************)
EXTENDS AdminRuns, Integers, FiniteSets, SequencesExt

CONSTANTS
    Key,         \* the operators' keys, one each
    RootKeys,    \* those root has from the start
    Port,        \* ports accessories publish
    Source,      \* addresses
    Declared     \* set of [Port -> SUBSET Source]: the consumers a config declares

ASSUME HardenAssumption ==
    /\ RootKeys \subseteq Key
    /\ IsFiniteSet(Port) /\ IsFiniteSet(Source) /\ "drop" \notin Source
    /\ Declared \subseteq [Port -> SUBSET Source]

User == {"deploy", "dev"}

VARIABLES
    yml,          \* users.yml: [user -> key or "none"]
    exists, keys, \* users of the server and their authorized_keys
    sudoers,      \* members of group sudo
    nopasswd,     \* /etc/sudoers.d/shipnode-deploy is written
    rootLogin,    \* PermitRootLogin
    promised,     \* keys whose setup ended, since the deploy user was last removed
    consumers,    \* [port]: fleetFirewallRules of the config
    chain, saved, \* DOCKER-USER, and what netfilter-persistent loads at boot
    job           \* the running command

access     == <<yml, exists, keys, sudoers, nopasswd, rootLogin, promised>>
firewall   == <<consumers, chain, saved>>
hardenVars == <<access, firewall, job, runs>>

Idle == [at |-> "idle", key |-> "none", as |-> "none", users |-> {},
         ports |-> <<>>, del |-> <<>>, ins |-> <<>>]

AtStep(l) == job.at = l
GoTo(l)   == job' = [job EXCEPT !.at = l]
GiveUp    == job' = Idle

\* Who a session can be, and who can use sudo without a password.
LoginAs(u, k) == IF u = "root" THEN rootLogin /\ k \in keys["root"]
                 ELSE u \in exists /\ k \in keys[u]
Sudo(u) == u = "root" \/ (u = "deploy" /\ nopasswd)

Begin(l, k, u, users) ==
    /\ AtStep("idle") /\ OneMore
    /\ LoginAs(u, k)
    /\ job' = [Idle EXCEPT !.at = l, !.key = k, !.as = u, !.users = users]

-----------------------------------------------------------------------------
(* user.ts *)

\* upsertUser: one entry per name.
upsertUser(u, k) == [yml EXCEPT ![u] = k]

\* syncUsers: `useradd` unless there is such a user, then one line more in
\* authorized_keys. A step of the chain may fail.
Authorized_Replaced(u, k) == [keys EXCEPT ![u] = {k}]
Authorized(u, k) == [keys EXCEPT ![u] = @ \cup {k}]
SyncUser(u) ==
    /\ AtStep("sync") /\ u \in job.users
    /\ \/ /\ Sudo(job.as)
          /\ exists' = exists \cup {u}
          /\ \/ UNCHANGED sudoers
             \/ u \notin exists /\ sudoers' = sudoers \cup {u}     \* its `sudo: true`
          /\ \/ /\ keys' = Authorized(u, yml[u])
                /\ job' = [job EXCEPT !.users = @ \ {u}]
             \/ keys' \in {keys, Authorized(u, yml[u])} /\ GiveUp
       \/ GiveUp /\ UNCHANGED <<exists, sudoers, keys>>
    /\ UNCHANGED <<yml, nopasswd, rootLogin, promised, firewall, runs>>

UserAdd(k, u, name, new) ==
    /\ Begin("sync", k, u, {name})
    /\ yml' = upsertUser(name, new)
    /\ UNCHANGED <<exists, keys, sudoers, nopasswd, rootLogin, promised, firewall>>

UserSync(k, u) ==
    /\ {v \in User : yml[v] # "none"} # {}
    /\ Begin("sync", k, u, {v \in User : yml[v] # "none"})
    /\ UNCHANGED <<access, firewall>>

Synced ==
    /\ AtStep("sync") /\ job.users = {} /\ GiveUp
    /\ UNCHANGED <<access, firewall, runs>>

\* `userdel -r || true` is refused without the right to, and while that user is
\* logged in or has processes; the command reports success all the same.
UserRemove(k, u, gone) ==
    /\ AtStep("idle") /\ OneMore
    /\ LoginAs(u, k)
    /\ \/ /\ Sudo(u) /\ u # gone
          /\ exists' = exists \ {gone} /\ sudoers' = sudoers \ {gone}
          /\ keys' = [keys EXCEPT ![gone] = {}]
          /\ promised' = IF gone = "deploy" THEN {} ELSE promised
       \/ UNCHANGED <<exists, sudoers, keys, promised>>
    /\ UNCHANGED <<yml, nopasswd, rootLogin, firewall, job>>

-----------------------------------------------------------------------------
(* setup.ts: bootstrapDeployUser, then buildTasks. *)

\* sshFallback: root, where the server turns the deploy user away.
StartSetup(k) ==
    /\ \E u \in {"root", "deploy"} :
          /\ u = "root" => ~LoginAs("deploy", k)
          /\ Begin("create", k, u, {})
    /\ yml' = upsertUser("deploy", k)
    /\ UNCHANGED <<exists, keys, sudoers, nopasswd, rootLogin, promised, firewall>>

\* syncUsers of the one entry.
CreateDeployUser ==
    /\ AtStep("create")
    /\ \/ /\ Sudo(job.as)
          /\ exists' = exists \cup {"deploy"}
          /\ sudoers' = IF "deploy" \in exists THEN sudoers ELSE sudoers \cup {"deploy"}
          /\ \/ keys' = Authorized("deploy", job.key) /\ GoTo("grant")
             \/ keys' \in {keys, Authorized("deploy", job.key)} /\ GiveUp
       \/ GiveUp /\ UNCHANGED <<exists, sudoers, keys>>
    /\ UNCHANGED <<yml, nopasswd, rootLogin, promised, firewall, runs>>

\* NOPASSWD for the deploy user.
GrantSudo ==
    /\ AtStep("grant")
    /\ \/ Sudo(job.as) /\ nopasswd' = TRUE /\ GoTo("tasks")
       \/ UNCHANGED nopasswd /\ GiveUp
    /\ UNCHANGED <<yml, exists, keys, sudoers, rootLogin, promised, firewall, runs>>

\* buildTasks changes nothing here; with it setup ends: "optional: disable root".
SetupTasks ==
    /\ AtStep("tasks")
    /\ promised' \in {promised, promised \cup {job.key}}
    /\ GiveUp
    /\ UNCHANGED <<yml, exists, keys, sudoers, nopasswd, rootLogin, firewall, runs>>

-----------------------------------------------------------------------------
(* harden.ts *)

StartHarden(k, u) ==
    /\ Begin("ssh", k, u, {})
    /\ UNCHANGED <<access, firewall>>

\* Root login goes only where some user is in group sudo; exit codes are not read.
HardenSsh ==
    /\ AtStep("ssh")
    /\ \/ rootLogin' = FALSE /\ sudoers # {} /\ Sudo(job.as)
       \/ UNCHANGED rootLogin
    /\ LET ports == {p \in Port : consumers[p] # {}}
       IN  \/ ports # {} /\ job' = [job EXCEPT !.at = "docker", !.ports = SetToSeq(ports)]
          \/ GiveUp
    /\ UNCHANGED <<yml, exists, keys, sudoers, nopasswd, promised, firewall, runs>>

\* dockerUserRules, a port at a time: take the rules away that will be added, then
\* insert each at the top, the DROP first.
Drop(p) == <<p, "drop">>
Allow(p) == SetToSeq({<<p, s>> : s \in consumers[p]})
Deletes(p) == Append(Allow(p), Drop(p))
Inserts_DropLast(p) == Append(Allow(p), Drop(p))
Inserts(p) == <<Drop(p)>> \o Allow(p)

RestrictPort ==
    /\ AtStep("docker") /\ job.ports # <<>> /\ job.del = <<>> /\ job.ins = <<>>
    /\ LET p == Head(job.ports)
       IN  job' = [job EXCEPT !.ports = Tail(@), !.del = Deletes(p), !.ins = Inserts(p)]
    /\ UNCHANGED <<access, firewall, runs>>

\* `iptables -D ... || true`: the first such rule, if there is one and it can be.
DeleteRule ==
    /\ AtStep("docker") /\ job.del # <<>>
    /\ job' = [job EXCEPT !.del = Tail(@)]
    /\ \/ /\ Sudo(job.as)
          /\ \E i \in DOMAIN chain :
                /\ chain[i] = Head(job.del) /\ \A j \in 1 .. i - 1 : chain[j] # Head(job.del)
                /\ chain' = RemoveAt(chain, i)
       \/ UNCHANGED chain
    /\ UNCHANGED <<access, consumers, saved, runs>>

\* `iptables -I DOCKER-USER 1 ... || exit 1`
InsertRule ==
    /\ AtStep("docker") /\ job.del = <<>> /\ job.ins # <<>>
    /\ \/ /\ Sudo(job.as) /\ chain' = <<Head(job.ins)>> \o chain
          /\ job' = [job EXCEPT !.ins = Tail(@)]
       \/ UNCHANGED chain /\ GiveUp
    /\ UNCHANGED <<access, consumers, saved, runs>>

\* The save is best effort: "container ports restricted" is printed without it.
SaveRules ==
    /\ AtStep("docker") /\ job.ports = <<>> /\ job.del = <<>> /\ job.ins = <<>>
    /\ saved' \in {saved, chain}
    /\ GiveUp
    /\ UNCHANGED <<access, consumers, chain, runs>>

-----------------------------------------------------------------------------
EditConsumers ==
    /\ AtStep("idle") /\ OneMore
    /\ consumers' \in Declared
    /\ UNCHANGED <<access, chain, saved, job>>

RebootServer ==
    /\ AtStep("idle") /\ OneMore
    /\ chain' = saved
    /\ UNCHANGED <<access, consumers, saved, job>>

HardenInit ==
    /\ yml = [u \in User |-> "none"]
    /\ exists = {} /\ sudoers = {} /\ nopasswd = FALSE /\ rootLogin = TRUE
    /\ keys = [u \in User \cup {"root"} |-> IF u = "root" THEN RootKeys ELSE {}]
    /\ promised = {}
    /\ consumers \in Declared /\ chain = <<>> /\ saved = <<>>
    /\ job = Idle

Sessions == User \cup {"root"}
HardenNext ==
    \/ \E u \in User : SyncUser(u)
    \/ \E k \in Key, u \in Sessions : \/ UserSync(k, u) \/ StartHarden(k, u)
                                      \/ \E v \in User : UserRemove(k, u, v)
                                      \/ \E v \in User, new \in Key : UserAdd(k, u, v, new)
    \/ \E k \in Key : StartSetup(k)
    \/ Synced \/ CreateDeployUser \/ GrantSudo \/ SetupTasks
    \/ HardenSsh \/ RestrictPort \/ DeleteRule \/ InsertRule \/ SaveRules
    \/ EditConsumers \/ RebootServer

-----------------------------------------------------------------------------
(* Properties. *)

\* An operator whose setup ended keeps a session with root's rights, whatever
\* setups and syncs of others, with other keys, and hardening that follow, until
\* the deploy user is removed.
SetupKeepsAccess == \A k \in promised : LoginAs("deploy", k) /\ Sudo("deploy")

\* iptables: the first rule of the chain that matches decides.
Passes(c, p, s) ==
    LET hits == {i \in DOMAIN c : c[i] \in {<<p, s>>, Drop(p)}}
    IN  hits # {} => \E i \in hits : c[i] # Drop(p) /\ \A j \in hits : i <= j

\* "container ports restricted to their declared consumers", whatever hardening
\* with other consumers, failures and reboots left in the chain.
RestrictedToConsumers ==
    [][SaveRules => \A p \in Port : consumers[p] # {} =>
          \A s \in Source : Passes(chain, p, s) <=> s \in consumers[p]]_hardenVars
=============================================================================
