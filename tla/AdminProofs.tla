----------------------------- MODULE AdminProofs -----------------------------
(***************************************************************************)
(* Theorems about Admin: `shipnode cloudflare init` on any sequence of     *)
(* servers and set of apps, and setup, users, hardening and its firewall   *)
(* with any keys, ports and consumers, without a bound on commands.        *)
(***************************************************************************)
EXTENDS Admin, FiniteSetTheorems, TLAPS

USE TunnelAssumption

-----------------------------------------------------------------------------
(* Tunnel *)

Route      == {"none", "ssh", "caddy", "port"}
Dir        == {"etc", "home"}
TunnelFile == [id : Nat, dir : Dir, route : [Names -> Route]]
Places     == {"idle", "visit", "host", "api", "create", "dns", "start"}
Run        == [at : Places, todo : Seq(Hosts), names : SUBSET Names,
               tunnel : TunnelFile, ok : BOOLEAN]

TunnelTypes ==
    /\ place \in [Domain -> Hosts] /\ zero \in [Domain -> BOOLEAN]
    /\ live \in SUBSET Nat /\ dns \in [Names -> Nat]
    /\ creds \in [Hosts -> SUBSET (Nat \X Dir)]
    /\ DOMAIN named = Tunnels
    /\ file \in [Hosts -> TunnelFile] /\ svc \in [Hosts -> TunnelFile]
    /\ run \in Run
    /\ run.at \in Places \ {"idle", "visit"} => run.todo # <<>>

\* The tunnel a visit has chosen is one whose credentials are in /etc/cloudflared,
\* or one made by hand; nobody else keeps any in the home directory.
ChosenHasCredentials ==
    On("dns") => <<run.tunnel.id, "etc">> \in creds[Here] \/ ByHand(run.tunnel.id)
HomeIsByHand == \A h \in Hosts, t \in Nat : <<t, "home">> \in creds[h] => ByHand(t)

CredsInv == TunnelTypes /\ ChosenHasCredentials /\ HomeIsByHand /\ ConfigHasCredentials

LEMMA Servers == Hosts # {} /\ Host \in Seq(Hosts) /\ Host[1] \in Hosts
  BY DEF Hosts

LEMMA AppIngressTypes ==
    ASSUME TunnelTypes, NEW n \in Names PROVE addAppIngress(n) \in Route
  BY DEF TunnelTypes, addAppIngress, Names, Route

LEMMA NoFileType == NoFile \in TunnelFile /\ NoFile.id = None /\ None = 0
  BY DEF NoFile, TunnelFile, Route, None, Dir

LEMMA NamedFile == \A t \in Nat : /\ [NoFile EXCEPT !.id = t] \in TunnelFile
                                  /\ [NoFile EXCEPT !.id = t].id = t
  BY DEF NoFile, TunnelFile, Route, None, Dir

LEMMA EtcFile ==
    ASSUME NEW t \in TunnelFile
    PROVE  LET u == [t EXCEPT !.dir = "etc"]
           IN  u \in TunnelFile /\ u.id = t.id /\ u.dir = "etc" /\ u.route = t.route
  BY DEF TunnelFile, Dir

LEMMA InitCreds == TunnelInit => CredsInv
  <1> SUFFICES ASSUME TunnelInit PROVE CredsInv
    OBVIOUS
  <1> PICK own \in {{}, {1}}, dir \in Dir : OwnTunnel(own, dir)
    BY DEF TunnelInit, Dir
  <1>0. /\ own \subseteq Nat /\ own \subseteq {1} /\ dir \in Dir
        /\ named = [t \in Tunnels |-> IF t \in own THEN "by hand" ELSE "unmade"]
        /\ live = own
        /\ creds = [h \in Hosts |-> IF h = Host[1] THEN own \X {dir} ELSE {}]
        /\ file = [h \in Hosts |-> IF h = Host[1] /\ own # {}
                                   THEN [NoFile EXCEPT !.id = 1, !.dir = dir] ELSE NoFile]
        /\ svc = file
    <2>1. /\ own \subseteq Nat /\ own \subseteq {1} /\ dir \in Dir
      OBVIOUS
    <2> QED
      BY <2>1 DEF OwnTunnel
  <1>1. run = Done /\ Done.at = "idle"
    BY DEF TunnelInit, Done
  <1>2. /\ [NoFile EXCEPT !.id = 1, !.dir = dir] \in TunnelFile
        /\ [NoFile EXCEPT !.id = 1, !.dir = dir].id = 1
        /\ [NoFile EXCEPT !.id = 1, !.dir = dir].dir = dir
    BY DEF NoFile, TunnelFile, Route, Dir
  <1>3. 1 \in Tunnels /\ (1 \in own => ByHand(1))
    <2>1. 1 \in Tunnels
      BY DEF Tunnels
    <2> QED
      BY <1>0, <2>1 DEF ByHand
  <1>4. TunnelTypes
    <2>1. file \in [Hosts -> TunnelFile] /\ svc \in [Hosts -> TunnelFile]
      BY <1>0, <1>2, NoFileType
    <2>2. run \in Run
      <3>1. Done \in Run
        BY NoFileType DEF Done, Places, Run
      <3> QED
        BY <1>1, <3>1
    <2>3. zero \in [Domain -> BOOLEAN] /\ dns \in [Names -> Nat] /\ place \in [Domain -> Hosts]
      BY DEF TunnelInit, None
    <2>4. live \in SUBSET Nat /\ DOMAIN named = Tunnels
      BY <1>0
    <2>5. creds \in [Hosts -> SUBSET (Nat \X Dir)]
      <3>1. own \X {dir} \in SUBSET (Nat \X Dir)
        BY <1>0
      <3> QED
        BY <1>0, <3>1
    <2> QED
      BY <1>1, <2>1, <2>2, <2>3, <2>4, <2>5 DEF TunnelTypes
  <1>5. ConfigHasCredentials
    <2> SUFFICES ASSUME NEW h \in Hosts, file[h].id # None PROVE ByHand(file[h].id)
      BY DEF ConfigHasCredentials
    <2> QED
      BY <1>0, <1>2, <1>3, NoFileType
  <1>6. HomeIsByHand
    <2> SUFFICES ASSUME NEW h \in Hosts, NEW t \in Nat, <<t, "home">> \in creds[h]
                 PROVE  ByHand(t)
      BY DEF HomeIsByHand
    <2>1. <<t, "home">> \in own \X {dir}
      BY <1>0
    <2> QED
      BY <1>0, <1>3, <2>1
  <1> QED
    BY <1>1, <1>4, <1>5, <1>6 DEF CredsInv, ChosenHasCredentials, On

\* Steps of `init` keep the types; a step that keeps the file, the credentials and
\* the chosen tunnel keeps the rest.
LEMMA TunnelNextTypes == ASSUME TunnelTypes, TunnelNext PROVE TunnelTypes'
  <1> USE DEF TunnelTypes
  <1> DEFINE Busy == run' \in Run /\ run'.todo # <<>>
  <1>1. run.todo # <<>> => Here \in Hosts /\ Tail(run.todo) \in Seq(Hosts)
    BY DEF Here, Run
  <1>2. \A ok \in BOOLEAN, todo \in Seq(Hosts) :
          /\ [Done EXCEPT !.at = "visit", !.todo = todo, !.ok = ok] \in Run
          /\ [Done EXCEPT !.at = "visit", !.todo = todo, !.ok = ok].at = "visit"
          /\ [Done EXCEPT !.at = "visit", !.todo = todo] \in Run
          /\ [Done EXCEPT !.at = "visit", !.todo = todo].at = "visit"
    BY NoFileType DEF Done, Places, Run
  <1>3. ASSUME NEW ok \in BOOLEAN, NextServer(ok), run.todo # <<>>
        PROVE  run' \in Run /\ run'.at = "visit"
    <2>1. (run.ok /\ ok) \in BOOLEAN
      OBVIOUS
    <2> QED
      BY <1>1, <1>2, <1>3, <2>1 DEF NextServer
  <1>4. Throw /\ run.todo # <<>> => run' \in Run /\ run'.at = "visit"
    BY <1>3 DEF Throw
  <1>5. ASSUME NEW l \in Places, Then(l), run.todo # <<>> PROVE Busy
    BY <1>5 DEF Then, Run
  <1>6. ASSUME NEW t \in TunnelFile, WithTunnel(t), run.todo # <<>> PROVE Busy
    <2>1. Owned(Here) \in SUBSET Names
      BY DEF Owned, AppsOn, Names
    <2> QED
      BY <1>6, <2>1 DEF WithTunnel, Run, Places
  <1>7. CASE InitAll
    BY <1>2, <1>7, Servers DEF InitAll, config, account, server
  <1>8. CASE Visit
    <2>1. CASE run.todo = <<>>
      <3>1. run' = Done /\ UNCHANGED <<config, account, server, runs>>
        BY <2>1, <1>8 DEF Visit
      <3>2. Done \in Run /\ Done.at = "idle"
        BY NoFileType DEF Done, Places, Run
      <3> QED
        BY <3>1, <3>2 DEF config, account, server
    <2>2. CASE run.todo # <<>> /\ AppsOn(Here) = {}
      BY <2>2, <1>1, <1>8 DEF Visit, config, account, server, On, Run
    <2>3. CASE run.todo # <<>> /\ AppsOn(Here) # {}
      BY <2>3, <1>4, <1>5, <1>8 DEF Visit, config, account, server, Places
    <2> QED
      BY <2>1, <2>2, <2>3
  <1>9. CASE HostTunnel
    <2>1. run.todo # <<>> /\ file[Here] \in TunnelFile
      BY <1>1, <1>9 DEF HostTunnel, On, Run, Places
    <2> QED
      BY <1>4, <1>5, <1>6, <1>9, <2>1 DEF HostTunnel, config, account, server, Places
  <1>10. CASE ApiTunnel
    <2>1. run.todo # <<>>
      BY <1>10 DEF ApiTunnel, On, Run, Places
    <2> QED
      BY <1>4, <1>5, <1>6, <1>10, <2>1, NamedFile
         DEF ApiTunnel, config, account, server, Places, findTunnel
  <1>11. CASE CreateTunnel
    <2>1. run.todo # <<>>
      BY <1>11 DEF CreateTunnel, On, Run, Places
    <2>2. CASE Throw /\ UNCHANGED <<named, live, creds>>
      BY <1>4, <1>11, <2>1, <2>2 DEF CreateTunnel, config
    <2>3. ASSUME NEW t \in Tunnels, live' = live \cup {t},
                 \/ /\ creds' = [creds EXCEPT ![Here] = @ \cup {<<t, "etc">>}]
                    /\ WithTunnel([NoFile EXCEPT !.id = t])
                 \/ Throw /\ UNCHANGED creds
          PROVE  TunnelTypes'
      <3>1. t \in Nat
        BY DEF Tunnels
      <3>2. run' \in Run /\ (run'.at \in Places \ {"idle", "visit"} => run'.todo # <<>>)
        BY <1>4, <1>6, <2>1, <2>3, <3>1, NamedFile
      <3>3. live' \in SUBSET Nat /\ creds' \in [Hosts -> SUBSET (Nat \X Dir)]
        <4>1. <<t, "etc">> \in Nat \X Dir
          BY <3>1 DEF Dir
        <4> QED
          BY <2>3, <4>1
      <3> QED
        BY <1>11, <3>2, <3>3 DEF CreateTunnel, config
    <2> QED
      BY <1>11, <2>2, <2>3 DEF CreateTunnel
  <1>12. ASSUME NEW n \in Names, UpsertDns(n) PROVE TunnelTypes'
    <2>1. run.todo # <<>>
      BY <1>12 DEF UpsertDns, On, Run, Places
    <2>2. addIngress(run.tunnel, n) \in TunnelFile
      BY AppIngressTypes DEF addIngress, TunnelFile, Run
    <2>3. CASE Throw /\ UNCHANGED dns
      BY <1>4, <1>12, <2>1, <2>3 DEF UpsertDns, config, server
    <2>4. CASE /\ dns' = [dns EXCEPT ![n] = run.tunnel.id]
               /\ run' = [run EXCEPT !.names = @ \ {n}, !.tunnel = addIngress(@, n)]
      <3>1. run' \in Run /\ run'.todo = run.todo
        BY <2>2, <2>4 DEF Run
      <3>2. dns' \in [Names -> Nat]
        BY <2>4 DEF Run, TunnelFile
      <3> QED
        BY <1>12, <2>1, <3>1, <3>2 DEF UpsertDns, config, server
    <2> QED
      BY <1>12, <2>3, <2>4 DEF UpsertDns
  <1>13. CASE WriteConfig
    <2>1. run.todo # <<>> /\ [run.tunnel EXCEPT !.dir = "etc"] \in TunnelFile
      BY <1>13, EtcFile DEF WriteConfig, On, Run, Places
    <2>2. file' \in [Hosts -> TunnelFile]
      BY <1>13, <2>1, NoFileType DEF WriteConfig
    <2>3. run' \in Run /\ (run'.at \in Places \ {"idle", "visit"} => run'.todo # <<>>)
      BY <1>4, <1>5, <1>13, <2>1 DEF WriteConfig, Places
    <2> QED
      BY <1>13, <2>2, <2>3 DEF WriteConfig, config, account
  <1>17. CASE StartService
    <2>1. run.todo # <<>>
      BY <1>17 DEF StartService, On, Run, Places
    <2> QED
      BY <1>1, <1>3, <1>4, <1>5, <1>17, <2>1, NoFileType
         DEF StartService, config, account, Run, Places
  <1>14. ASSUME NEW d \in Domain, EditApp(d) PROVE TunnelTypes'
    BY <1>14 DEF EditApp, account, server
  <1>15. ASSUME NEW t \in Tunnels, DeleteTunnel(t) PROVE TunnelTypes'
    BY <1>15, NoFileType DEF DeleteTunnel, config
  <1>16. ASSUME NEW h \in Hosts, DeleteFile(h) \/ Reboot(h) PROVE TunnelTypes'
    BY <1>16, NoFileType DEF DeleteFile, Reboot, config, account
  <1> QED
    BY <1>7, <1>8, <1>9, <1>10, <1>11, <1>12, <1>13, <1>14, <1>15, <1>16, <1>17
       DEF TunnelNext

\* Credentials are only added, to /etc/cloudflared, and a tunnel made by hand
\* stays one.
Grows == /\ \A h \in Hosts : creds[h] \subseteq creds'[h]
         /\ \A t \in Nat : ByHand(t) => ByHand(t)'

LEMMA CredsGrow == ASSUME TunnelTypes, HomeIsByHand, TunnelNext PROVE Grows /\ HomeIsByHand'
  <1>1. CASE CreateTunnel
    <2>1. PICK t \in Tunnels : /\ named' = named \/ (/\ named[t] = "unmade"
                                                     /\ named' = [named EXCEPT ![t] = Here])
                               /\ creds' \in {creds, [creds EXCEPT ![Here] = @ \cup {<<t, "etc">>}]}
      <3>1. 1 \in Tunnels
        BY DEF Tunnels
      <3> QED
        BY <1>1, <3>1 DEF CreateTunnel
    <2>2. \A u \in Nat : ByHand(u) => ByHand(u)'
      BY <2>1 DEF ByHand, TunnelTypes
    <2>3. \A h \in Hosts : /\ creds[h] \subseteq creds'[h]
                           /\ creds'[h] \subseteq creds[h] \cup {<<t, "etc">>}
      BY <2>1 DEF TunnelTypes
    <2>4. \A u \in Nat : <<u, "home">> # <<t, "etc">>
      OBVIOUS
    <2> QED
      BY <2>2, <2>3, <2>4 DEF Grows, HomeIsByHand
  <1>2. CASE creds' = creds /\ named' = named
    BY <1>2 DEF Grows, HomeIsByHand, ByHand
  <1>3. CASE InitAll \/ Visit \/ HostTunnel \/ ApiTunnel \/ WriteConfig \/ StartService
    BY <1>2, <1>3
       DEF InitAll, Visit, HostTunnel, ApiTunnel, WriteConfig, StartService, account, server
  <1>4. ASSUME NEW n \in Names, UpsertDns(n) PROVE creds' = creds /\ named' = named
    BY <1>4 DEF UpsertDns, server
  <1>5. ASSUME NEW d \in Domain, EditApp(d) PROVE creds' = creds /\ named' = named
    BY <1>5 DEF EditApp, account, server
  <1>6. ASSUME NEW t \in Tunnels, DeleteTunnel(t) PROVE creds' = creds /\ named' = named
    BY <1>6 DEF DeleteTunnel
  <1>7. ASSUME NEW h \in Hosts, DeleteFile(h) \/ Reboot(h)
        PROVE  creds' = creds /\ named' = named
    BY <1>7 DEF DeleteFile, Reboot, account
  <1> QED
    BY <1>1, <1>2, <1>3, <1>4, <1>5, <1>6, <1>7 DEF TunnelNext

\* A visit chooses a tunnel whose own credentials are there, or one made by hand.
LEMMA TunnelNextCreds == ASSUME CredsInv, TunnelNext PROVE CredsInv'
  <1>1. TunnelTypes' /\ HomeIsByHand' /\ Grows
    BY TunnelNextTypes, CredsGrow DEF CredsInv
  <1> USE DEF CredsInv
  \* A file that stays, or goes, needs nothing.
  <1> DEFINE Kept == \A h \in Hosts : file'[h] \in {file[h], NoFile}
             Chosen == run'.at = "dns" => /\ run'.tunnel.id = run.tunnel.id
                                          /\ run'.todo = run.todo /\ run.at = "dns"
  <1>2. ASSUME NEW h \in Hosts, NEW t \in TunnelFile, file'[h] = t,
               Has(h, t) \/ ByHand(t.id) \/ t.id = None
        PROVE  file'[h].id = None \/ Has(h, file[h])' \/ ByHand(file[h].id)'
    <2>1. t.id \in Nat
      BY DEF TunnelFile
    <2> QED
      BY <1>1, <1>2, <2>1 DEF Has, Grows, ByHand
  <1>3. ASSUME Kept PROVE ConfigHasCredentials'
    <2> SUFFICES ASSUME NEW h \in Hosts
                 PROVE  file'[h].id = None \/ Has(h, file[h])' \/ ByHand(file[h].id)'
      BY DEF ConfigHasCredentials
    <2>1. CASE file'[h] = NoFile
      BY <1>2, <2>1, NoFileType
    <2>2. CASE file'[h] = file[h]
      <3>1. file[h] \in TunnelFile
        BY DEF TunnelTypes
      <3>2. Has(h, file[h]) \/ ByHand(file[h].id) \/ file[h].id = None
        BY DEF ConfigHasCredentials
      <3> QED
        BY <1>2, <2>2, <3>1, <3>2
    <2> QED
      BY <1>3, <2>1, <2>2
  <1>4. ASSUME Chosen PROVE ChosenHasCredentials'
    <2> SUFFICES ASSUME run'.at = "dns"
                 PROVE  \/ <<run.tunnel.id, "etc">> \in creds'[Here]
                        \/ run.tunnel.id \in Tunnels /\ named'[run.tunnel.id] = "by hand"
      BY <1>4 DEF ChosenHasCredentials, On, Here, ByHand
    <2>1. run.todo # <<>> /\ run.tunnel.id \in Nat /\ run.at = "dns"
      BY <1>4 DEF TunnelTypes, Run, TunnelFile
    <2>2. Here \in Hosts
      BY <2>1 DEF Here, TunnelTypes, Run
    <2>3. ByHand(run.tunnel.id) => (run.tunnel.id \in Tunnels /\ named'[run.tunnel.id] = "by hand")
      BY <1>1, <2>1 DEF Grows, ByHand
    <2>4. <<run.tunnel.id, "etc">> \in creds[Here] => <<run.tunnel.id, "etc">> \in creds'[Here]
      BY <1>1, <2>2 DEF Grows
    <2> QED
      BY <2>1, <2>3, <2>4 DEF ChosenHasCredentials, On
  <1>5. ASSUME Kept, Chosen PROVE CredsInv'
    BY <1>1, <1>3, <1>4, <1>5
  <1>6. file' = file => Kept
    OBVIOUS
  <1>7. ASSUME NEW ok \in BOOLEAN, NextServer(ok) PROVE run'.at = "visit"
    BY <1>7 DEF NextServer, Done
  <1>8. Throw => run'.at = "visit"
    BY <1>7 DEF Throw
  <1>9. ASSUME NEW l \in Places \ {"dns"}, Then(l) PROVE run'.at = l
    BY <1>9 DEF Then, TunnelTypes, Run
  <1>10. ASSUME NEW t \in TunnelFile, WithTunnel(t), file' = file, run.todo # <<>>,
                <<t.id, "etc">> \in creds'[Here] \/ ByHand(t.id)
         PROVE  CredsInv'
    <2>1. run'.tunnel = t /\ run'.todo = run.todo /\ t.id \in Nat
      BY <1>10 DEF WithTunnel, TunnelTypes, Run, TunnelFile
    <2>2. ByHand(t.id) => ByHand(t.id)'
      BY <1>1, <2>1 DEF Grows
    <2>3. ChosenHasCredentials'
      BY <1>10, <2>1, <2>2 DEF ChosenHasCredentials, Here, ByHand
    <2> QED
      BY <1>1, <1>3, <1>6, <1>10, <2>3
  <1>11. CASE InitAll \/ Visit
    <2>1. file' = file
      BY <1>11 DEF InitAll, Visit, server
    <2>2. CASE InitAll \/ (Visit /\ run.todo = <<>>)
      <3>1. run' \in {Done, [Done EXCEPT !.at = "visit", !.todo = Host]}
        BY <2>2 DEF InitAll, Visit
      <3>2. /\ Done.at = "idle"
            /\ [Done EXCEPT !.at = "visit", !.todo = Host].at = "visit"
        BY DEF Done
      <3>3. run'.at # "dns"
        BY <3>1, <3>2
      <3> QED
        BY <1>5, <1>6, <2>1, <3>3
    <2>3. CASE Visit /\ run.todo # <<>>
      <3>1. CASE run' = [run EXCEPT !.todo = Tail(@)]
        BY <1>5, <1>6, <2>1, <2>3, <3>1 DEF Visit, On, TunnelTypes, Run
      <3>2. CASE Then("host") \/ Throw
        BY <1>5, <1>6, <1>8, <1>9, <2>1, <3>2 DEF Places
      <3> QED
        BY <2>3, <3>1, <3>2 DEF Visit
    <2> QED
      BY <1>11, <2>2, <2>3
  <1>12. CASE HostTunnel
    <2>1. run.todo # <<>> /\ Here \in Hosts /\ file[Here] \in TunnelFile /\ file' = file
      BY <1>12 DEF HostTunnel, On, Here, TunnelTypes, Run, Places, server
    <2>2. CASE Throw \/ Then("api")
      BY <1>5, <1>6, <1>8, <1>9, <2>1, <2>2 DEF Places
    <2>3. CASE Has(Here, file[Here]) /\ WithTunnel(file[Here])
      <3>1. file[Here].id \in Nat /\ file[Here].dir \in Dir
        BY <2>1 DEF TunnelFile
      <3>2. <<file[Here].id, "etc">> \in creds'[Here] \/ ByHand(file[Here].id)
        BY <1>1, <2>1, <2>3, <3>1 DEF Has, HomeIsByHand, Grows, Dir
      <3> QED
        BY <1>10, <2>1, <2>3, <3>2
    <2> QED
      BY <1>12, <2>2, <2>3 DEF HostTunnel
  <1>13. CASE ApiTunnel
    <2>1. run.todo # <<>> /\ Here \in Hosts /\ file' = file
      BY <1>13 DEF ApiTunnel, On, Here, TunnelTypes, Run, Places, server
    <2>2. CASE Throw \/ Then("create")
      BY <1>5, <1>6, <1>8, <1>9, <2>1, <2>2 DEF Places
    <2>3. ASSUME NEW t \in findTunnel(Here), credsExist(t), WithTunnel([NoFile EXCEPT !.id = t])
          PROVE  CredsInv'
      <3>1. t \in Nat
        BY <2>3 DEF findTunnel, TunnelTypes
      <3>2. [NoFile EXCEPT !.id = t] \in TunnelFile /\ [NoFile EXCEPT !.id = t].id = t
        BY <3>1, NamedFile
      <3>3. <<t, "etc">> \in creds'[Here]
        BY <1>1, <2>1, <2>3 DEF credsExist, Grows
      <3> HIDE DEF CredsInv
      <3> QED
        BY <1>10, <2>1, <2>3, <3>2, <3>3
    <2> QED
      BY <1>13, <2>2, <2>3 DEF ApiTunnel
  <1>14. CASE CreateTunnel
    <2>1. run.todo # <<>> /\ Here \in Hosts /\ file' = file
      BY <1>14 DEF CreateTunnel, On, Here, TunnelTypes, Run, Places
    <2>2. CASE Throw
      BY <1>5, <1>6, <1>8, <2>1, <2>2
    <2>3. ASSUME NEW t \in Tunnels, creds' = [creds EXCEPT ![Here] = @ \cup {<<t, "etc">>}],
                 WithTunnel([NoFile EXCEPT !.id = t])
          PROVE  CredsInv'
      <3>1. [NoFile EXCEPT !.id = t] \in TunnelFile /\ [NoFile EXCEPT !.id = t].id = t
        BY NamedFile DEF Tunnels
      <3>2. <<t, "etc">> \in creds'[Here]
        BY <2>1, <2>3 DEF TunnelTypes
      <3> HIDE DEF CredsInv
      <3> QED
        BY <1>10, <2>1, <2>3, <3>1, <3>2
    <2> QED
      BY <1>14, <2>2, <2>3 DEF CreateTunnel
  <1>15. ASSUME NEW n \in Names, UpsertDns(n) PROVE CredsInv'
    <2>1. file' = file
      BY <1>15 DEF UpsertDns, server
    <2>2. CASE Throw
      BY <1>5, <1>6, <1>8, <2>1, <2>2
    <2>3. CASE run' = [run EXCEPT !.names = @ \ {n}, !.tunnel = addIngress(@, n)]
      <3>1. run'.tunnel = addIngress(run.tunnel, n) /\ run'.todo = run.todo
        BY <2>3 DEF TunnelTypes, Run
      <3>2. addIngress(run.tunnel, n).id = run.tunnel.id
        BY DEF addIngress, TunnelTypes, Run, TunnelFile
      <3> QED
        BY <1>5, <1>6, <1>15, <2>1, <3>1, <3>2 DEF UpsertDns, On
    <2> QED
      BY <1>15, <2>2, <2>3 DEF UpsertDns
  <1>16. CASE WriteConfig
    <2> DEFINE Etc == [run.tunnel EXCEPT !.dir = "etc"]
    <2>1. run'.at # "dns" /\ run.tunnel \in TunnelFile /\ Here \in Hosts
      <3>1. run'.at # "dns"
        BY <1>8, <1>9, <1>16 DEF WriteConfig, Places
      <3> QED
        BY <1>16, <3>1 DEF WriteConfig, Places, On, Here, TunnelTypes, Run
    <2>2. file' \in {file, [file EXCEPT ![Here] = Etc], [file EXCEPT ![Here] = NoFile]}
      BY <1>16 DEF WriteConfig
    <2>3. Etc \in TunnelFile /\ (Has(Here, Etc) \/ ByHand(Etc.id))
      BY <1>16, <2>1, EtcFile DEF WriteConfig, ChosenHasCredentials, Has
    <2> HIDE DEF Etc
    <2>4. CASE Kept
      BY <1>5, <2>1, <2>4
    <2>5. CASE file' = [file EXCEPT ![Here] = Etc]
      <3> SUFFICES ASSUME NEW h \in Hosts
                   PROVE  file'[h].id = None \/ Has(h, file[h])' \/ ByHand(file[h].id)'
        BY <1>1, <1>4, <2>1 DEF ConfigHasCredentials
      <3>1. file'[h] = IF h = Here THEN Etc ELSE file[h]
        BY <2>5 DEF TunnelTypes
      <3>2. file[h] \in TunnelFile /\ (Has(h, file[h]) \/ ByHand(file[h].id) \/ file[h].id = None)
        BY DEF TunnelTypes, ConfigHasCredentials
      <3>3. CASE h = Here
        BY <1>2, <2>3, <3>1, <3>3
      <3>4. CASE h # Here
        BY <1>2, <3>1, <3>2, <3>4
      <3> QED
        BY <3>3, <3>4
    <2> QED
      BY <2>2, <2>4, <2>5 DEF TunnelTypes
  <1>17. CASE StartService
    <2>1. run'.at # "dns" /\ file' = file
      BY <1>7, <1>8, <1>17 DEF StartService
    <2> QED
      BY <1>5, <1>6, <2>1
  <1>18. ASSUME NEW d \in Domain, EditApp(d) PROVE CredsInv'
    BY <1>5, <1>6, <1>18 DEF EditApp, server, Apart, On
  <1>19. ASSUME NEW t \in Tunnels, DeleteTunnel(t) PROVE CredsInv'
    BY <1>5, <1>6, <1>19 DEF DeleteTunnel, Apart, On
  <1>20. ASSUME NEW h \in Hosts, DeleteFile(h) \/ Reboot(h) PROVE CredsInv'
    <2>1. Kept
      BY <1>20 DEF DeleteFile, Reboot, TunnelTypes
    <2> QED
      BY <1>5, <1>20, <2>1 DEF DeleteFile, Reboot, Apart, On
  <1> QED
    BY <1>11, <1>12, <1>13, <1>14, <1>15, <1>16, <1>17, <1>18, <1>19, <1>20 DEF TunnelNext

-----------------------------------------------------------------------------
(* What a `cloudflare init` that has not failed so far has reached. *)

Listed(s)  == {s[i] : i \in 1 .. Len(s)}
Covered(h) == AppsOn(h) # {} => \A n \in Owned(h) : Reaches(n, h)

\* The servers that are behind; the names the file in the making routes already,
\* and all of them once it is written.
BehindCovered == run.at # "idle" /\ run.ok => \A h \in Hosts \ Listed(run.todo) : Covered(h)
Routed(t, names) == \A n \in names : dns[n] = t.id /\ t.route[n] = addAppIngress(n)
NamesRouted == On("dns") => /\ run.names \subseteq Owned(Here)
                            /\ Routed(run.tunnel, Owned(Here) \ run.names)
FileRoutes == On("start") => Routed(file[Here], Owned(Here))

ReachInv == TunnelTypes /\ BehindCovered /\ NamesRouted /\ FileRoutes

\* No two servers route the same name.
LEMMA NamesApart ==
    ASSUME TunnelTypes, NEW g \in Hosts, NEW h \in Hosts, g # h
    PROVE  Owned(g) \cap Owned(h) = {}
  BY DEF Owned, AppsOn

LEMMA OthersCovered ==
    ASSUME TunnelTypes, config' = config, live \subseteq live', NEW h \in Hosts,
           svc'[h] = svc[h], \A n \in Owned(h) : dns'[n] = dns[n], Covered(h)
    PROVE  Covered(h)'
  <1>1. AppsOn(h)' = AppsOn(h) /\ Owned(h)' = Owned(h)
    BY DEF AppsOn, Owned, config
  <1>2. \A n \in Owned(h) : addAppIngress(n)' = addAppIngress(n)
    BY DEF addAppIngress, config
  <1> QED
    BY <1>1, <1>2 DEF Covered, Reaches

LEMMA ListedTail ==
    ASSUME NEW s \in Seq(Hosts), s # <<>>
    PROVE  \A h \in Hosts \ Listed(Tail(s)) : h = Head(s) \/ h \notin Listed(s)
  <1> SUFFICES ASSUME NEW h \in Hosts, h # Head(s), NEW i \in 1 .. Len(s), h = s[i]
               PROVE  h \in Listed(Tail(s))
    BY DEF Listed
  <1>1. i # 1 /\ i - 1 \in 1 .. Len(Tail(s)) /\ Tail(s)[i - 1] = s[i]
    OBVIOUS
  <1> QED
    BY <1>1 DEF Listed

\* The server a visit works on is the only one that a step changes, and nothing of
\* what is behind.
LEMMA VisitKeepsBehind ==
    ASSUME ReachInv, run.todo # <<>>, config' = config, live \subseteq live',
           \A h \in Hosts \ {Here} : svc'[h] = svc[h],
           \A n \in Names \ Owned(Here) : dns'[n] = dns[n],
           run.at # "idle", run.ok
    PROVE  \A h \in Hosts \ Listed(run.todo) : Covered(h)'
  <1> SUFFICES ASSUME NEW h \in Hosts \ Listed(run.todo) PROVE Covered(h)'
    OBVIOUS
  <1>1. Here \in Hosts /\ h # Here
    <2>1. run.todo \in Seq(Hosts) /\ Len(run.todo) >= 1
      BY DEF ReachInv, TunnelTypes, Run
    <2> QED
      BY <2>1 DEF Here, Listed
  <1>2. \A n \in Owned(h) : dns'[n] = dns[n]
    <2>1. Owned(h) \subseteq Names
      BY DEF Owned, AppsOn, Names
    <2> QED
      BY <1>1, <2>1, NamesApart DEF ReachInv
  <1> QED
    BY <1>1, <1>2, OthersCovered DEF ReachInv, BehindCovered

LEMMA TunnelNextReach == ASSUME ReachInv, TunnelNext PROVE ReachInv'
  <1>1. TunnelTypes /\ TunnelTypes'
    BY TunnelNextTypes DEF ReachInv
  <1> USE DEF ReachInv
  <1> DEFINE Frame == /\ config' = config /\ live \subseteq live'
                      /\ \A h \in Hosts \ {Here} : svc'[h] = svc[h]
                      /\ \A n \in Names \ Owned(Here) : dns'[n] = dns[n]
             Stays == run'.ok = run.ok /\ run'.todo = run.todo
             Scope == Owned(Here)' = Owned(Here) /\ Here' = Here
             Work  == {"host", "api", "create"}
  \* A step of the visit keeps what is behind.
  <1>2. ASSUME Frame, Stays, run.at # "idle", run.todo # <<>> PROVE BehindCovered'
    BY <1>2, VisitKeepsBehind DEF BehindCovered
  <1>3. ASSUME run'.ok = FALSE \/ run'.at = "idle", run'.at \in {"visit", "idle"}
        PROVE  ReachInv'
    BY <1>1, <1>3 DEF BehindCovered, NamesRouted, FileRoutes, On
  <1>4. Throw => run'.ok = FALSE /\ run'.at = "visit"
    BY DEF Throw, NextServer, Done
  <1>5. Throw => ReachInv'
    BY <1>3, <1>4
  <1>6. ASSUME NEW l \in Places, Then(l) PROVE run'.at = l /\ Stays
    BY <1>1, <1>6 DEF Then, TunnelTypes, Run
  <1>7. ASSUME Stays, config' = config PROVE Scope
    BY <1>7 DEF Here, Owned, AppsOn, config
  <1>8. ASSUME Frame, run.at # "idle", run.todo # <<>>, NEW l \in Work, Then(l) PROVE ReachInv'
    BY <1>1, <1>2, <1>6, <1>8 DEF Places, NamesRouted, FileRoutes, On
  <1>9. ASSUME Frame, run.at # "idle", run.todo # <<>>,
               NEW t \in TunnelFile, WithTunnel(t)
        PROVE  ReachInv'
    <2>1. run'.at = "dns" /\ run'.names = Owned(Here) /\ Stays
      BY <1>1, <1>9 DEF WithTunnel, TunnelTypes, Run
    <2>2. NamesRouted'
      BY <1>7, <1>9, <2>1 DEF NamesRouted, Routed
    <2> QED
      BY <1>1, <1>2, <1>9, <2>1, <2>2 DEF FileRoutes, On
  <1>10. CASE InitAll
    <2>1. run'.todo = Host /\ run'.at = "visit"
      BY <1>10 DEF InitAll, Done
    <2>2. Hosts \ Listed(Host) = {}
      BY DEF Hosts, Listed
    <2> QED
      BY <1>1, <2>1, <2>2 DEF BehindCovered, NamesRouted, FileRoutes, On
  <1>11. CASE Visit
    <2>1. config' = config /\ dns' = dns /\ live' = live /\ svc' = svc
      BY <1>11 DEF Visit, config, account, server
    <2>2. CASE run.todo = <<>>
      <3>1. run' = Done
        BY <1>11, <2>2 DEF Visit
      <3>2. Done.at = "idle"
        BY DEF Done
      <3> QED
        BY <1>3, <3>1, <3>2
    <2>3. CASE run.todo # <<>> /\ AppsOn(Here) # {}
      BY <1>5, <1>8, <1>11, <2>1, <2>3 DEF Visit, On
    <2>4. CASE run.todo # <<>> /\ AppsOn(Here) = {}
      <3>1. run' = [run EXCEPT !.todo = Tail(@)] /\ run.at = "visit"
        BY <1>11, <2>4 DEF Visit, On
      <3>2. run'.todo = Tail(run.todo) /\ run'.at = "visit" /\ run'.ok = run.ok
        BY <1>1, <3>1 DEF TunnelTypes, Run
      <3>3. PICK g \in Hosts : g = Head(run.todo) /\ g = Here
        BY <1>1, <2>4 DEF Here, TunnelTypes, Run
      <3>4. Covered(g)'
        <4>1. AppsOn(g)' = {}
          BY <2>1, <2>4, <3>3 DEF AppsOn, config
        <4> QED
          BY <4>1 DEF Covered
      <3>5. ASSUME run.ok, NEW h \in Hosts \ Listed(Tail(run.todo)) PROVE Covered(h)'
        <4>1. CASE h = g
          BY <3>4, <4>1
        <4>2. CASE h \notin Listed(run.todo)
          BY <2>1, <2>4, <3>1, <3>5, <4>2, VisitKeepsBehind
        <4> QED
          BY <1>1, <2>4, <3>3, <3>5, <4>1, <4>2, ListedTail DEF TunnelTypes, Run
      <3> QED
        BY <1>1, <3>2, <3>5 DEF BehindCovered, NamesRouted, FileRoutes, On
    <2> QED
      BY <2>2, <2>3, <2>4
  <1>12. CASE HostTunnel
    <2>1. /\ run.at = "host" /\ run.todo # <<>> /\ file[Here] \in TunnelFile
          /\ config' = config /\ dns' = dns /\ live' = live /\ svc' = svc
      BY <1>1, <1>12 DEF HostTunnel, On, Here, TunnelTypes, Run, Places, config, account, server
    <2> QED
      BY <1>5, <1>8, <1>9, <1>12, <2>1 DEF HostTunnel
  <1>13. CASE ApiTunnel
    <2>1. /\ run.at = "api" /\ run.todo # <<>>
          /\ config' = config /\ dns' = dns /\ live' = live /\ svc' = svc
      BY <1>1, <1>13 DEF ApiTunnel, On, TunnelTypes, Run, Places, config, account, server
    <2>2. findTunnel(Here) \subseteq Nat
      BY <1>1 DEF findTunnel, TunnelTypes
    <2> QED
      BY <1>5, <1>8, <1>9, <1>13, <2>1, <2>2, NamedFile DEF ApiTunnel
  <1>14. CASE CreateTunnel
    <2>1. /\ run.at = "create" /\ run.todo # <<>>
          /\ config' = config /\ dns' = dns /\ live \subseteq live' /\ svc' = svc
      BY <1>1, <1>14 DEF CreateTunnel, On, TunnelTypes, Run, Places, config
    <2>2. Throw \/ \E t \in Tunnels : WithTunnel([NoFile EXCEPT !.id = t])
      BY <1>14 DEF CreateTunnel
    <2>3. Tunnels \subseteq Nat
      BY DEF Tunnels
    <2> QED
      BY <1>5, <1>9, <2>1, <2>2, <2>3, NamedFile
  <1>15. ASSUME NEW n \in Names, UpsertDns(n) PROVE ReachInv'
    <2>1. CASE Throw
      BY <1>5, <2>1
    <2>2. CASE /\ dns' = [dns EXCEPT ![n] = run.tunnel.id]
               /\ run' = [run EXCEPT !.names = @ \ {n}, !.tunnel = addIngress(@, n)]
      <3>1. /\ run.at = "dns" /\ run.todo # <<>> /\ n \in run.names
            /\ config' = config /\ live' = live /\ svc' = svc
        BY <1>1, <1>15 DEF UpsertDns, On, TunnelTypes, Run, Places, config, server
      <3>2. /\ run'.at = "dns" /\ Stays /\ run'.names = run.names \ {n}
            /\ run'.tunnel = addIngress(run.tunnel, n)
        BY <1>1, <2>2, <3>1 DEF TunnelTypes, Run
      <3>3. /\ run.names \subseteq Owned(Here)
            /\ \A m \in Owned(Here) \ run.names : /\ dns[m] = run.tunnel.id
                                                  /\ run.tunnel.route[m] = addAppIngress(m)
        BY <3>1 DEF NamesRouted, Routed, On
      <3>4. /\ run'.tunnel.id = run.tunnel.id
            /\ \A m \in Names : run'.tunnel.route[m] = IF m = n THEN addAppIngress(n)
                                                       ELSE run.tunnel.route[m]
        BY <1>1, <3>2 DEF addIngress, TunnelTypes, Run, TunnelFile
      <3>5. \A m \in Names : dns'[m] = IF m = n THEN run.tunnel.id ELSE dns[m]
        BY <1>1, <2>2 DEF TunnelTypes
      <3>6. \A m \in Names : addAppIngress(m)' = addAppIngress(m)
        BY <3>1 DEF addAppIngress, config
      <3>7. Owned(Here) \subseteq Names
        BY DEF Owned, AppsOn, Names
      <3>8. NamesRouted'
        <4>1. Scope
          BY <1>7, <3>1, <3>2
        <4>2. run'.names \subseteq Owned(Here)
          BY <3>2, <3>3
        <4>3. ASSUME NEW m \in Owned(Here) \ run'.names
              PROVE  dns'[m] = run'.tunnel.id /\ run'.tunnel.route[m] = addAppIngress(m)'
          BY <3>2, <3>3, <3>4, <3>5, <3>6, <3>7, <4>3
        <4> QED
          BY <4>1, <4>2, <4>3 DEF NamesRouted, Routed
      <3>9. BehindCovered'
        BY <1>2, <3>1, <3>2, <3>3, <3>5
      <3> QED
        BY <1>1, <3>2, <3>8, <3>9 DEF FileRoutes, On
    <2> QED
      BY <1>15, <2>1, <2>2 DEF UpsertDns
  <1>16. CASE WriteConfig
    <2>1. CASE Throw
      BY <1>5, <2>1
    <2>2. CASE /\ file' = [file EXCEPT ![Here] = [run.tunnel EXCEPT !.dir = "etc"]]
               /\ Then("start")
      <3>1. /\ run.at = "dns" /\ run.todo # <<>> /\ run.names = {}
            /\ config' = config /\ live' = live /\ svc' = svc /\ dns' = dns
        BY <1>1, <1>16 DEF WriteConfig, On, TunnelTypes, Run, Places, config, account
      <3>2. run'.at = "start" /\ Stays
        BY <1>6, <2>2 DEF Places
      <3>3. /\ Scope /\ file'[Here] = [run.tunnel EXCEPT !.dir = "etc"]
            /\ file'[Here].id = run.tunnel.id /\ file'[Here].route = run.tunnel.route
        <4>1. Here \in Hosts /\ run.tunnel \in TunnelFile
          BY <3>1 DEF Here, ReachInv, TunnelTypes, Run
        <4>2. Scope
          BY <1>7, <3>1, <3>2
        <4> QED
          BY <2>2, <4>1, <4>2, EtcFile DEF ReachInv, TunnelTypes
      <3>4. FileRoutes'
        <4>1. Routed(run.tunnel, Owned(Here))
          BY <3>1 DEF NamesRouted, On
        <4>2. \A m \in Names : addAppIngress(m)' = addAppIngress(m)
          BY <3>1 DEF addAppIngress, config
        <4>3. Owned(Here) \subseteq Names
          BY DEF Owned, AppsOn, Names
        <4> QED
          BY <3>1, <3>3, <4>1, <4>2, <4>3 DEF FileRoutes, Routed
      <3> QED
        BY <1>1, <1>2, <3>1, <3>2, <3>4 DEF NamesRouted, On
    <2> QED
      BY <1>16, <2>1, <2>2 DEF WriteConfig
  <1>17. CASE StartService
    <2>1. CASE Throw
      BY <1>5, <2>1
    <2>2. CASE Starts(Here) /\ svc' = [svc EXCEPT ![Here] = file[Here]] /\ NextServer(TRUE)
      <3>1. /\ run.at = "start" /\ run.todo # <<>>
            /\ config' = config /\ live' = live /\ dns' = dns
        BY <1>1, <1>17 DEF StartService, On, TunnelTypes, Run, Places, config, account
      <3>2. /\ run' = [Done EXCEPT !.at = "visit", !.todo = Tail(run.todo), !.ok = run.ok /\ TRUE]
            /\ run.ok \in BOOLEAN
        BY <1>1, <2>2 DEF NextServer, TunnelTypes, Run
      <3>3. run'.todo = Tail(run.todo) /\ run'.at = "visit" /\ run'.ok = run.ok
        BY <3>2 DEF Done
      <3>4. PICK g \in Hosts : g = Head(run.todo) /\ g = Here
        BY <1>1, <3>1 DEF Here, TunnelTypes, Run
      <3>5. svc'[g] = file[g] /\ svc'[g].id \in live /\ \A h \in Hosts \ {g} : svc'[h] = svc[h]
        BY <1>1, <2>2, <3>4 DEF Starts, TunnelTypes
      <3>6. Covered(g)'
        <4>1. AppsOn(g)' = AppsOn(g) /\ Owned(g)' = Owned(g)
          BY <3>1 DEF AppsOn, Owned, config
        <4>2. \A m \in Owned(g) : addAppIngress(m)' = addAppIngress(m)
          BY <3>1 DEF addAppIngress, config
        <4>3. Routed(file[g], Owned(g))
          BY <3>1, <3>4 DEF FileRoutes, On
        <4> QED
          BY <3>1, <3>5, <4>1, <4>2, <4>3 DEF Covered, Reaches, Routed
      <3>7. ASSUME run.ok, NEW h \in Hosts \ Listed(Tail(run.todo)) PROVE Covered(h)'
        <4>1. CASE h = g
          BY <3>6, <4>1
        <4>2. CASE h \notin Listed(run.todo)
          BY <3>1, <3>4, <3>5, <3>7, <4>2, VisitKeepsBehind
        <4> QED
          BY <1>1, <3>1, <3>4, <3>7, <4>1, <4>2, ListedTail DEF TunnelTypes, Run
      <3> QED
        BY <1>1, <3>3, <3>7 DEF BehindCovered, NamesRouted, FileRoutes, On
    <2> QED
      BY <1>17, <2>1, <2>2 DEF StartService
  <1>18. ASSUME run.at = "idle", run' = run PROVE ReachInv'
    BY <1>1, <1>18 DEF BehindCovered, NamesRouted, FileRoutes, On
  <1>19. CASE \/ \E d \in Domain : EditApp(d)
              \/ \E t \in Tunnels : DeleteTunnel(t)
              \/ \E h \in Hosts : DeleteFile(h) \/ Reboot(h)
    BY <1>18, <1>19 DEF EditApp, DeleteTunnel, DeleteFile, Reboot, Apart, On
  <1> QED
    BY <1>10, <1>11, <1>12, <1>13, <1>14, <1>15, <1>16, <1>17, <1>19 DEF TunnelNext

-----------------------------------------------------------------------------
(* Harden *)

\* Of the firewall's part of the running command nothing is said.
AccessTypes ==
    /\ keys \in [Sessions -> SUBSET (Key \cup {"none"})]
    /\ yml \in [User -> Key \cup {"none"}]
    /\ job \in [at : {"idle", "sync", "create", "grant", "tasks", "ssh", "docker"},
                key : Key \cup {"none"}, as : Sessions \cup {"none"},
                users : SUBSET User, ports : {job.ports}, del : {job.del}, ins : {job.ins}]

\* What setup has done by now for the operator it runs for.
SetupSoFar ==
    /\ job.at \in {"grant", "tasks"} => "deploy" \in exists /\ job.key \in keys["deploy"]
    /\ job.at = "tasks" => nopasswd

AccessInv == AccessTypes /\ SetupSoFar /\ SetupKeepsAccess

LEMMA InitAccess == HardenInit => AccessInv
  BY HardenAssumption DEF HardenInit, AccessInv, AccessTypes, SetupSoFar, SetupKeepsAccess, Sessions, Idle, User

\* Steps that take nobody's key, user or right away.
LEMMA AccessGrows ==
    ASSUME AccessInv, AccessTypes', SetupSoFar', promised' = promised,
           exists \subseteq exists', keys["deploy"] \subseteq keys'["deploy"],
           nopasswd => nopasswd'
    PROVE  AccessInv'
  BY Zenon DEF AccessInv, SetupKeepsAccess, LoginAs, Sudo

LEMMA HardenNextAccess == ASSUME AccessInv, HardenNext PROVE AccessInv'
  <1> USE DEF AccessInv
  <1>1. ASSUME NEW u \in User, SyncUser(u) PROVE AccessInv'
    <2>1. /\ keys' \in {keys, Authorized(u, yml[u])}
          /\ exists \subseteq exists' /\ promised' = promised /\ nopasswd' = nopasswd
          /\ yml' = yml
      BY <1>1 DEF SyncUser
    <2>2. /\ keys' \in [Sessions -> SUBSET (Key \cup {"none"})]
          /\ keys["deploy"] \subseteq keys'["deploy"]
      BY <2>1 DEF AccessTypes, Authorized, Sessions, User
    <2>3. job' \in {Idle, [job EXCEPT !.users = @ \ {u}]} /\ job.at = "sync"
      BY <1>1 DEF SyncUser, GiveUp, AtStep
    <2>4. AccessTypes' /\ SetupSoFar'
      BY <2>1, <2>2, <2>3 DEF AccessTypes, SetupSoFar, Idle
    <2> QED
      BY <2>1, <2>2, <2>4, AccessGrows
  <1>2. ASSUME access' = access, job' = job \/ job'.at \notin {"grant", "tasks"},
               job' \in [at : {"idle", "sync", "create", "grant", "tasks", "ssh", "docker"},
                         key : Key \cup {"none"}, as : Sessions \cup {"none"},
                         users : SUBSET User, ports : {job'.ports},
                         del : {job'.del}, ins : {job'.ins}]
        PROVE  AccessInv'
    BY <1>2, AccessGrows DEF access, AccessTypes, SetupSoFar
  <1>3. Idle \in [at : {"idle"}, key : {"none"}, as : {"none"}, users : SUBSET User,
                  ports : {Idle.ports}, del : {Idle.del}, ins : {Idle.ins}]
    BY DEF Idle
  <1>4. ASSUME NEW k \in Key, NEW u \in Sessions, NEW users \in SUBSET User,
               NEW l \in {"sync", "create", "ssh"}, Begin(l, k, u, users)
        PROVE  /\ job' \in [at : {l}, key : {k}, as : {u}, users : {users}, ports : {job'.ports},
                         del : {job'.del}, ins : {job'.ins}]
    BY <1>4 DEF Begin, Idle
  <1>5. ASSUME NEW k \in Key, NEW u \in Sessions, UserSync(k, u) \/ StartHarden(k, u)
        PROVE  AccessInv'
    BY <1>2, <1>4, <1>5 DEF UserSync, StartHarden
  <1>6. ASSUME NEW k \in Key, NEW u \in Sessions, NEW v \in User, UserRemove(k, u, v)
        PROVE  AccessInv'
    <2>1. /\ job' = job /\ job.at = "idle" /\ yml' = yml /\ nopasswd' = nopasswd
          /\ \/ /\ exists' = exists \ {v} /\ keys' = [keys EXCEPT ![v] = {}]
                /\ promised' = IF v = "deploy" THEN {} ELSE promised
             \/ exists' = exists /\ keys' = keys /\ promised' = promised
      BY <1>6 DEF UserRemove, AtStep
    <2>2. AccessTypes' /\ SetupSoFar'
      BY <2>1 DEF AccessTypes, SetupSoFar, Sessions
    <2>3. CASE v = "deploy" /\ promised' = {}
      BY <2>2, <2>3 DEF SetupKeepsAccess
    <2>4. CASE promised' = promised /\ keys'["deploy"] = keys["deploy"]
               /\ ("deploy" \in exists => "deploy" \in exists')
      BY Zenon, <2>1, <2>2, <2>4 DEF SetupKeepsAccess, LoginAs, Sudo
    <2>5. ASSUME v # "deploy" PROVE keys'["deploy"] = keys["deploy"]
      BY <2>1, <2>5 DEF AccessTypes, Sessions, User
    <2> QED
      BY <2>1, <2>3, <2>4, <2>5
  <1>7. ASSUME NEW k \in Key, NEW u \in Sessions, NEW v \in User, NEW new \in Key,
               UserAdd(k, u, v, new)
        PROVE  AccessInv'
    <2>1. AccessTypes' /\ SetupSoFar'
      BY <1>4, <1>7 DEF UserAdd, AccessTypes, SetupSoFar, upsertUser, firewall
    <2> QED
      BY <1>7, <2>1, AccessGrows DEF UserAdd
  <1>8. ASSUME NEW k \in Key, StartSetup(k) PROVE AccessInv'
    <2>1. AccessTypes' /\ SetupSoFar'
      BY <1>4, <1>8 DEF StartSetup, AccessTypes, SetupSoFar, upsertUser, User, Sessions
    <2> QED
      BY <1>8, <2>1, AccessGrows DEF StartSetup
  <1>9. CASE CreateDeployUser
    <2>1. /\ keys' \in {keys, Authorized("deploy", job.key)} /\ exists \subseteq exists'
          /\ promised' = promised /\ nopasswd' = nopasswd /\ yml' = yml
      BY <1>9 DEF CreateDeployUser
    <2>2. /\ keys' \in [Sessions -> SUBSET (Key \cup {"none"})]
          /\ keys["deploy"] \subseteq keys'["deploy"]
      BY <2>1 DEF AccessTypes, Authorized, Sessions, User
    <2>3. CASE job' = Idle
      BY <1>3, <2>1, <2>2, <2>3, AccessGrows DEF AccessTypes, SetupSoFar
    <2>4. CASE /\ job' = [job EXCEPT !.at = "grant"] /\ exists' = exists \cup {"deploy"}
               /\ keys' = Authorized("deploy", job.key)
      <3>1. job.key \in keys'["deploy"] /\ job'.key = job.key /\ job'.at = "grant"
        BY <2>4 DEF AccessTypes, Authorized, Sessions, User
      <3>2. AccessTypes'
        BY <2>1, <2>2, <2>4 DEF AccessTypes
      <3> QED
        BY <2>1, <2>2, <2>4, <3>1, <3>2, AccessGrows DEF SetupSoFar
    <2> QED
      BY <1>9, <2>3, <2>4 DEF CreateDeployUser, GiveUp, GoTo
  <1>10. CASE GrantSudo
    <2>1. /\ keys' = keys /\ exists' = exists /\ promised' = promised /\ yml' = yml
          /\ job.at = "grant"
      BY <1>10 DEF GrantSudo, AtStep
    <2>2. \/ job' = Idle /\ nopasswd' = nopasswd
          \/ job' = [job EXCEPT !.at = "tasks"] /\ nopasswd' = TRUE
      BY <1>10 DEF GrantSudo, GiveUp, GoTo
    <2>3. AccessTypes'
      BY <1>3, <2>1, <2>2 DEF AccessTypes
    <2>4. SetupSoFar'
      BY <1>3, <2>1, <2>2 DEF AccessTypes, SetupSoFar
    <2>5. nopasswd => nopasswd'
      BY <2>2
    <2> QED
      BY <2>1, <2>3, <2>4, <2>5, AccessGrows
  <1>11. CASE SetupTasks
    <2>1. /\ keys' = keys /\ exists' = exists /\ yml' = yml /\ nopasswd' = nopasswd
          /\ job.at = "tasks" /\ job' = Idle /\ promised' \in {promised, promised \cup {job.key}}
      BY <1>11 DEF SetupTasks, AtStep, GiveUp
    <2>2. AccessTypes' /\ SetupSoFar'
      BY <1>3, <2>1 DEF AccessTypes, SetupSoFar
    <2>3. job.key \in keys["deploy"] /\ "deploy" \in exists /\ nopasswd
      BY <2>1 DEF SetupSoFar
    <2> QED
      BY Zenon, <2>1, <2>2, <2>3 DEF SetupKeepsAccess, LoginAs, Sudo
  <1>12. CASE HardenSsh
    <2>1. /\ keys' = keys /\ exists' = exists /\ promised' = promised /\ yml' = yml
          /\ nopasswd' = nopasswd
      BY <1>12 DEF HardenSsh
    <2>2. PICK ports : job' \in {Idle, [job EXCEPT !.at = "docker", !.ports = ports]}
      BY <1>12 DEF HardenSsh, GiveUp
    <2>3. AccessTypes' /\ SetupSoFar'
      BY <1>3, <2>1, <2>2 DEF AccessTypes, SetupSoFar
    <2> QED
      BY <2>1, <2>3, AccessGrows
  <1>13. CASE RestrictPort \/ DeleteRule \/ InsertRule
    <2>1. access' = access /\ job.at = "docker"
      BY <1>13 DEF RestrictPort, DeleteRule, InsertRule, AtStep
    <2>2. PICK ports, del, ins : job' \in {Idle, [job EXCEPT !.ports = ports, !.del = del, !.ins = ins],
                                          [job EXCEPT !.del = del], [job EXCEPT !.ins = ins]}
      BY <1>13 DEF RestrictPort, DeleteRule, InsertRule, GiveUp
    <2> QED
      BY <1>2, <1>3, <2>1, <2>2 DEF AccessTypes
  <1>14. CASE Synced \/ SaveRules
    BY <1>2, <1>3, <1>14 DEF Synced, SaveRules, GiveUp
  <1>15. CASE EditConsumers \/ RebootServer
    BY <1>2, <1>15 DEF EditConsumers, RebootServer, AccessTypes
  <1> QED
    BY <1>1, <1>5, <1>6, <1>7, <1>8, <1>9, <1>10, <1>11, <1>12, <1>13, <1>14, <1>15
       DEF HardenNext

-----------------------------------------------------------------------------
(* The theorems. *)

LEMMA AdminInvariant == Spec => [](CredsInv /\ ReachInv /\ AccessInv)
  <1>1. Init => CredsInv /\ ReachInv /\ AccessInv
    <2> SUFFICES ASSUME Init PROVE CredsInv /\ ReachInv /\ AccessInv
      OBVIOUS
    <2>1. CredsInv /\ AccessInv
      BY InitCreds, InitAccess DEF Init
    <2>2. run.at = "idle"
      BY DEF Init, TunnelInit, Done
    <2> QED
      BY <2>1, <2>2 DEF CredsInv, ReachInv, BehindCovered, NamesRouted, FileRoutes, On
  <1>2. CredsInv /\ ReachInv /\ AccessInv /\ [Next]_vars => (CredsInv /\ ReachInv /\ AccessInv)'
    <2> SUFFICES ASSUME CredsInv, ReachInv, AccessInv, [Next]_vars
                 PROVE  (CredsInv /\ ReachInv /\ AccessInv)'
      OBVIOUS
    <2>1. ASSUME UNCHANGED <<config, account, server, run>> PROVE CredsInv' /\ ReachInv'
      <3>1. TunnelTypes' /\ ChosenHasCredentials' /\ HomeIsByHand' /\ ConfigHasCredentials'
        BY <2>1 DEF CredsInv, TunnelTypes, ChosenHasCredentials, HomeIsByHand, ConfigHasCredentials,
                    Has, ByHand, On, Here, config, account, server
      <3>2. BehindCovered' /\ NamesRouted' /\ FileRoutes'
        BY <2>1 DEF ReachInv, BehindCovered, NamesRouted, FileRoutes, On, Here, Covered, Routed,
                    Owned, AppsOn, Reaches, addAppIngress, config, account, server
      <3> QED
        BY <3>1, <3>2 DEF CredsInv, ReachInv
    <2>2. ASSUME UNCHANGED <<access, firewall, job>> PROVE AccessInv'
      BY <2>2 DEF AccessInv, AccessTypes, SetupSoFar, SetupKeepsAccess, LoginAs, Sudo, access
    <2>3. CASE TunnelNext /\ UNCHANGED <<access, firewall, job>>
      BY <2>2, <2>3, TunnelNextCreds, TunnelNextReach
    <2>4. CASE HardenNext /\ UNCHANGED <<config, account, server, run>>
      BY <2>1, <2>4, HardenNextAccess
    <2>5. CASE UNCHANGED vars
      BY <2>1, <2>2, <2>5 DEF vars
    <2> QED
      BY <2>3, <2>4, <2>5 DEF Next
  <1> QED
    BY <1>1, <1>2, PTL DEF Spec

\* "A silent id/creds mismatch ... takes every app offline": on every server, the
\* tunnel that config.yml names is one whose credentials are there.
THEOREM TunnelCredentials == Spec => []ConfigHasCredentials
  <1>1. CredsInv => ConfigHasCredentials
    BY DEF CredsInv
  <1> QED
    BY <1>1, AdminInvariant, PTL

\* A `cloudflare init` that ends without a failure leaves the names of every server
\* with apps at that server's tunnel, for any number of servers, apps and tunnels,
\* and whatever earlier runs that failed half-way left in the account.
THEOREM TunnelReach == Spec => []InitReachesEveryApp
  <1>1. ReachInv => InitReachesEveryApp
    <2> SUFFICES ASSUME ReachInv, On("visit"), run.todo = <<>>, run.ok, NEW h \in Hosts,
                        AppsOn(h) # {}, NEW n \in Owned(h)
                 PROVE  Reaches(n, h)
      BY DEF InitReachesEveryApp
    <2>1. Listed(run.todo) = {}
      BY DEF Listed
    <2> QED
      BY <2>1 DEF ReachInv, BehindCovered, Covered, On
  <1> QED
    BY <1>1, AdminInvariant, PTL

\* An operator whose setup ended keeps a session and sudo without a password until
\* the deploy user is removed, for any number of operators, keys and commands.
THEOREM AccessKept == Spec => []SetupKeepsAccess
  <1>1. AccessInv => SetupKeepsAccess
    BY DEF AccessInv
  <1> QED
    BY <1>1, AdminInvariant, PTL

HIDE TunnelAssumption

-----------------------------------------------------------------------------
(* The chain of a server's firewall: which of its rules decides. *)

Rule == Port \X (Source \cup {"drop"})
Hits(c, p, s) == {i \in DOMAIN c : c[i] \in {<<p, s>>, Drop(p)}}

LEMMA Distinct ==
    ASSUME NEW p, NEW s \in Source PROVE <<p, s>> # Drop(p)
  BY HardenAssumption DEF Drop

\* A chain that holds the rules of a shorter one in their order, and no other rule of
\* this port and source, decides alike.
LEMMA PassesAlong ==
    ASSUME NEW c, NEW d, NEW p, NEW s, DOMAIN c \subseteq Nat, DOMAIN d \subseteq Nat,
           NEW m \in [DOMAIN d -> DOMAIN c],
           \A j, k \in DOMAIN d : j <= k <=> m[j] <= m[k],
           \A k \in DOMAIN d : d[k] = c[m[k]],
           \A i \in Hits(c, p, s) : \E k \in DOMAIN d : m[k] = i
    PROVE  Passes(d, p, s) <=> Passes(c, p, s)
  <1>1. \A k \in DOMAIN d : k \in Hits(d, p, s) <=> m[k] \in Hits(c, p, s)
    BY DEF Hits
  <1>2. \A k \in Hits(d, p, s) : k \in DOMAIN d
    BY DEF Hits
  <1>3. \A e : Passes(e, p, s) <=>
            (Hits(e, p, s) # {} =>
                 \E i \in Hits(e, p, s) : e[i] # Drop(p) /\ \A j \in Hits(e, p, s) : i <= j)
    BY DEF Passes, Hits
  <1>4. Hits(d, p, s) # {} <=> Hits(c, p, s) # {}
    BY <1>1, <1>2
  <1>5. ASSUME NEW k \in Hits(d, p, s), d[k] # Drop(p), \A j \in Hits(d, p, s) : k <= j
        PROVE  \E i \in Hits(c, p, s) : c[i] # Drop(p) /\ \A j \in Hits(c, p, s) : i <= j
    <2>1. m[k] \in Hits(c, p, s) /\ c[m[k]] # Drop(p)
      BY <1>1, <1>2, <1>5
    <2>2. ASSUME NEW j \in Hits(c, p, s) PROVE m[k] <= j
      <3>1. PICK l \in DOMAIN d : m[l] = j
        OBVIOUS
      <3> QED
        BY <1>1, <1>2, <1>5, <3>1
    <2> QED
      BY <2>1, <2>2
  <1>6. ASSUME NEW i \in Hits(c, p, s), c[i] # Drop(p), \A j \in Hits(c, p, s) : i <= j
        PROVE  \E k \in Hits(d, p, s) : d[k] # Drop(p) /\ \A j \in Hits(d, p, s) : k <= j
    <2>1. PICK k \in DOMAIN d : m[k] = i
      OBVIOUS
    <2>2. k \in Hits(d, p, s) /\ d[k] # Drop(p)
      BY <1>1, <1>6, <2>1
    <2>3. ASSUME NEW j \in Hits(d, p, s) PROVE k <= j
      BY <1>1, <1>2, <1>6, <2>1
    <2> QED
      BY <2>2, <2>3
  <1> QED
    BY <1>3, <1>4, <1>5, <1>6

\* A rule at the top decides if it matches, and changes nothing if it does not.
LEMMA PassesInsert ==
    ASSUME NEW c \in Seq(Rule), NEW r \in Rule, NEW p, NEW s \in Source
    PROVE  /\ <<r>> \o c \in Seq(Rule)
           /\ r = Drop(p) => ~Passes(<<r>> \o c, p, s)
           /\ r = <<p, s>> => Passes(<<r>> \o c, p, s)
           /\ r \notin {<<p, s>>, Drop(p)} => (Passes(<<r>> \o c, p, s) <=> Passes(c, p, s))
  <1> DEFINE e == <<r>> \o c
  <1>1. /\ e \in Seq(Rule) /\ Len(c) \in Nat /\ DOMAIN e = 1 .. Len(c) + 1 /\ DOMAIN c = 1 .. Len(c)
        /\ e[1] = r /\ \A i \in 1 .. Len(c) : e[i + 1] = c[i]
    OBVIOUS
  <1> HIDE DEF e
  <1>2. 1 \in DOMAIN e /\ \A i \in DOMAIN e : 1 <= i /\ (i <= 1 => i = 1)
    BY <1>1
  <1>3. ASSUME r = Drop(p) PROVE ~Passes(e, p, s)
    <2>1. 1 \in Hits(e, p, s) /\ \A i \in Hits(e, p, s) : i \in DOMAIN e
      BY <1>1, <1>2, <1>3 DEF Hits
    <2>2. \A i \in Hits(e, p, s) : i <= 1 => e[i] = Drop(p)
      BY <1>1, <1>2, <1>3, <2>1
    <2> QED
      BY <2>1, <2>2 DEF Passes, Hits
  <1>4. ASSUME r = <<p, s>> PROVE Passes(e, p, s)
    <2>1. 1 \in Hits(e, p, s) /\ e[1] # Drop(p) /\ \A i \in Hits(e, p, s) : 1 <= i
      BY <1>1, <1>2, <1>4, Distinct DEF Hits
    <2> QED
      BY <2>1 DEF Passes, Hits
  <1>5. ASSUME r \notin {<<p, s>>, Drop(p)} PROVE Passes(e, p, s) <=> Passes(c, p, s)
    <2> DEFINE m == [k \in DOMAIN c |-> k + 1]
    <2>1. m \in [DOMAIN c -> DOMAIN e]
      BY <1>1
    <2>2. \A j, k \in DOMAIN c : j <= k <=> m[j] <= m[k]
      BY <1>1
    <2>3. \A k \in DOMAIN c : c[k] = e[m[k]]
      BY <1>1
    <2>4. ASSUME NEW i \in Hits(e, p, s) PROVE \E k \in DOMAIN c : m[k] = i
      <3>1. i \in 1 .. Len(c) + 1 /\ i # 1
        BY <1>1, <1>5 DEF Hits
      <3>2. i - 1 \in DOMAIN c /\ m[i - 1] = i
        BY <1>1, <3>1
      <3> QED
        BY <3>2
    <2>5. DOMAIN c \subseteq Nat /\ DOMAIN e \subseteq Nat
      BY <1>1
    <2> HIDE DEF m
    <2> QED
      BY <2>1, <2>2, <2>3, <2>4, <2>5, PassesAlong
  <1> QED
    BY <1>1, <1>3, <1>4, <1>5 DEF e

LEMMA PassesRemove ==
    ASSUME NEW c \in Seq(Rule), NEW i \in DOMAIN c
    PROVE  /\ RemoveAt(c, i) \in Seq(Rule)
           /\ \A p, s : c[i] \notin {<<p, s>>, Drop(p)} => (Passes(RemoveAt(c, i), p, s) <=> Passes(c, p, s))
  <1> DEFINE a == SubSeq(c, 1, i - 1)
             b == SubSeq(c, i + 1, Len(c))
             d == RemoveAt(c, i)
  <1>1. Len(c) \in Nat /\ DOMAIN c = 1 .. Len(c) /\ i \in 1 .. Len(c)
    OBVIOUS
  <1>2. a \in Seq(Rule) /\ Len(a) = i - 1 /\ \A k \in 1 .. i - 1 : a[k] = c[k]
    BY <1>1
  <1>3. b \in Seq(Rule) /\ Len(b) = Len(c) - i /\ \A k \in 1 .. Len(c) - i : b[k] = c[k + i]
    BY <1>1
  <1>4. d = a \o b
    BY DEF RemoveAt
  <1> HIDE DEF a, b, d
  <1>5. /\ d \in Seq(Rule) /\ Len(d) = Len(c) - 1 /\ DOMAIN d = 1 .. Len(c) - 1
        /\ \A k \in 1 .. Len(c) - 1 : d[k] = IF k < i THEN a[k] ELSE b[k - i + 1]
    <2>1. /\ d \in Seq(Rule) /\ Len(d) = Len(a) + Len(b)
          /\ \A k \in 1 .. Len(a) + Len(b) : d[k] = IF k <= Len(a) THEN a[k] ELSE b[k - Len(a)]
      <3>1. a \in Seq(Rule) /\ b \in Seq(Rule)
        BY <1>2, <1>3
      <3>2. /\ a \o b \in Seq(Rule) /\ Len(a \o b) = Len(a) + Len(b)
            /\ \A k \in 1 .. Len(a) + Len(b) :
                  (a \o b)[k] = IF k <= Len(a) THEN a[k] ELSE b[k - Len(a)]
        BY ONLY <3>1
      <3> QED
        BY <1>4, <3>2
    <2>2. Len(a) + Len(b) = Len(c) - 1
      BY <1>1, <1>2, <1>3
    <2>3. \A k \in 1 .. Len(c) - 1 : /\ k <= Len(a) <=> k < i
                                    /\ k - Len(a) = k - i + 1
      BY <1>1, <1>2
    <2> QED
      BY <2>1, <2>2, <2>3
  <1>6. \A k \in 1 .. Len(c) - 1 : d[k] = IF k < i THEN c[k] ELSE c[k + 1]
    <2> SUFFICES ASSUME NEW k \in 1 .. Len(c) - 1 PROVE d[k] = IF k < i THEN c[k] ELSE c[k + 1]
      OBVIOUS
    <2>1. CASE k < i
      BY <1>1, <1>2, <1>5, <2>1
    <2>2. CASE ~(k < i)
      <3>1. k - i + 1 \in 1 .. Len(c) - i /\ (k - i + 1) + i = k + 1
        BY <1>1, <2>2
      <3> QED
        BY <1>3, <1>5, <2>2, <3>1
    <2> QED
      BY <2>1, <2>2
  <1>7. ASSUME NEW p, NEW s, c[i] \notin {<<p, s>>, Drop(p)} PROVE Passes(d, p, s) <=> Passes(c, p, s)
    <2> DEFINE m == [k \in DOMAIN d |-> IF k < i THEN k ELSE k + 1]
    <2>1. m \in [DOMAIN d -> DOMAIN c]
      BY <1>1, <1>5
    <2>2. \A j, k \in DOMAIN d : j <= k <=> m[j] <= m[k]
      BY <1>1, <1>5
    <2>3. \A k \in DOMAIN d : d[k] = c[m[k]]
      BY <1>5, <1>6
    <2>4. ASSUME NEW j \in Hits(c, p, s) PROVE \E k \in DOMAIN d : m[k] = j
      <3>1. j \in 1 .. Len(c) /\ j # i
        BY <1>1, <1>7 DEF Hits
      <3>2. CASE j < i
        <4>1. j \in DOMAIN d /\ m[j] = j
          BY <1>1, <1>5, <3>1, <3>2
        <4> QED
          BY <4>1
      <3>3. CASE j > i
        <4>1. j - 1 \in DOMAIN d /\ m[j - 1] = j
          BY <1>1, <1>5, <3>1, <3>3
        <4> QED
          BY <4>1
      <3> QED
        BY <1>1, <3>1, <3>2, <3>3
    <2>5. DOMAIN c \subseteq Nat /\ DOMAIN d \subseteq Nat
      BY <1>1, <1>5
    <2> HIDE DEF m
    <2> QED
      BY <2>1, <2>2, <2>3, <2>4, <2>5, PassesAlong
  <1> QED
    BY <1>5, <1>7 DEF d

-----------------------------------------------------------------------------
(* The sequences of a command. *)

LEMMA SetToSeqHas ==
    ASSUME NEW S, IsFiniteSet(S)
    PROVE  SetToSeq(S) \in Seq(S) /\ ToSet(SetToSeq(S)) = S
  <1> DEFINE n == Cardinality(S)
             q == SetToSeq(S)
  <1>1. n \in Nat
    BY FS_CardinalityType
  <1>2. \E f \in [1 .. n -> S] : IsInjective(f)
    <2>1. PICK k \in Nat : ExistsBijection(1 .. k, S)
      BY FS_NatBijection
    <2>2. k = n
      BY <2>1, FS_CountingElements
    <2> QED
      BY <2>1, <2>2 DEF ExistsBijection, Bijection, Injection
  <1>3. q \in [1 .. n -> S] /\ IsInjective(q)
    BY <1>2 DEF SetToSeq
  <1> HIDE DEF q
  <1>4. q \in Injection(1 .. n, S)
    BY <1>3 DEF Injection
  <1>5. Cardinality(1 .. n) = n
    <2>1. 1 <= n \/ n = 0
      BY <1>1
    <2> QED
      BY <1>1, <2>1, FS_Interval
  <1>6. q \in Surjection(1 .. n, S)
    BY <1>4, <1>5, FS_Injection
  <1>7. q \in Seq(S)
    BY <1>1, <1>3
  <1>8. ToSet(q) = S
    BY <1>3, <1>6 DEF Surjection, ToSet
  <1> QED
    BY <1>7, <1>8 DEF q

LEMMA HeadAndTail ==
    ASSUME NEW T, NEW q \in Seq(T), q # <<>>
    PROVE  /\ Head(q) \in T /\ Tail(q) \in Seq(T)
           /\ ToSet(q) = {Head(q)} \cup ToSet(Tail(q))
           /\ \A i \in DOMAIN Tail(q) : i + 1 \in DOMAIN q /\ i + 1 # 1 /\ Tail(q)[i] = q[i + 1]
  <1> DEFINE t == Tail(q)
  <1>1. /\ Len(q) \in Nat /\ Len(q) >= 1 /\ DOMAIN q = 1 .. Len(q) /\ Head(q) = q[1]
        /\ t \in Seq(T) /\ DOMAIN t = 1 .. Len(q) - 1 /\ \A i \in 1 .. Len(q) - 1 : t[i] = q[i + 1]
    OBVIOUS
  <1> HIDE DEF t
  <1>2. q[1] \in T
    BY <1>1
  <1>3. \A i \in DOMAIN q : i = 1 \/ (i - 1 \in DOMAIN t /\ t[i - 1] = q[i])
    BY <1>1
  <1>4. \A i \in DOMAIN t : i + 1 \in DOMAIN q /\ i + 1 # 1 /\ t[i] = q[i + 1]
    BY <1>1
  <1>5. ToSet(q) = {q[1]} \cup ToSet(t)
    <2>1. ASSUME NEW i \in DOMAIN q PROVE q[i] \in {q[1]} \cup ToSet(t)
      BY <1>3 DEF ToSet
    <2>2. 1 \in DOMAIN q
      BY <1>1
    <2>3. ASSUME NEW i \in DOMAIN t PROVE t[i] \in ToSet(q)
      BY <1>4 DEF ToSet
    <2> QED
      BY <2>1, <2>2, <2>3 DEF ToSet
  <1> QED
    BY <1>1, <1>2, <1>4, <1>5 DEF t

\* What a port's commands delete and insert.
LEMMA CommandsHave ==
    ASSUME NEW p \in Port, consumers[p] \subseteq Source
    PROVE  /\ Deletes(p) \in Seq(Rule) /\ Inserts(p) \in Seq(Rule)
           /\ \A r \in ToSet(Deletes(p)) : r[1] = p
           /\ Inserts(p) # <<>> /\ Drop(p) \in ToSet(Inserts(p))
           /\ \A s \in consumers[p] : <<p, s>> \in ToSet(Inserts(p))
           /\ \A i \in DOMAIN Inserts(p) : IF i = 1 THEN Inserts(p)[i] = Drop(p)
                                           ELSE \E s \in consumers[p] : Inserts(p)[i] = <<p, s>>
  <1> DEFINE S == {<<p, s>> : s \in consumers[p]}
             f == [s \in consumers[p] |-> <<p, s>>]
             a == Allow(p)
  <1>1. IsFiniteSet(S)
    <2>1. f \in Surjection(consumers[p], S)
      BY DEF Surjection
    <2>2. IsFiniteSet(consumers[p])
      BY FS_Subset, HardenAssumption
    <2> QED
      BY <2>1, <2>2, FS_Surjection
  <1>2. a \in Seq(S) /\ ToSet(a) = S
    BY <1>1, SetToSeqHas DEF Allow
  <1>3. S \subseteq Rule /\ Drop(p) \in Rule /\ Drop(p)[1] = p
    BY DEF Rule, Drop
  <1>4. a \in Seq(Rule) /\ Len(a) \in Nat /\ DOMAIN a = 1 .. Len(a) /\ \A i \in 1 .. Len(a) : a[i] \in S
    BY <1>2, <1>3
  <1> HIDE DEF a, f
  <1>5. /\ Deletes(p) \in Seq(Rule) /\ DOMAIN Deletes(p) = 1 .. Len(a) + 1
        /\ \A i \in 1 .. Len(a) + 1 : Deletes(p)[i] = IF i = Len(a) + 1 THEN Drop(p) ELSE a[i]
    <2>1. Deletes(p) = Append(a, Drop(p))
      BY DEF Deletes, a
    <2> QED
      BY <1>3, <1>4, <2>1
  <1>6. /\ Inserts(p) \in Seq(Rule) /\ DOMAIN Inserts(p) = 1 .. Len(a) + 1
        /\ \A i \in 1 .. Len(a) + 1 : Inserts(p)[i] = IF i = 1 THEN Drop(p) ELSE a[i - 1]
    <2>1. Inserts(p) = <<Drop(p)>> \o a
      BY DEF Inserts, a
    <2>2. /\ <<Drop(p)>> \in Seq(Rule) /\ Len(<<Drop(p)>>) = 1 /\ <<Drop(p)>>[1] = Drop(p)
      BY <1>3
    <2> QED
      BY <1>3, <1>4, <2>1, <2>2
  <1>7. \A x \in S : x[1] = p /\ \E s \in consumers[p] : x = <<p, s>>
    OBVIOUS
  <1>8. \A r \in ToSet(Deletes(p)) : r[1] = p
    BY <1>3, <1>4, <1>5, <1>7 DEF ToSet
  <1>9. \A i \in 2 .. Len(a) + 1 : i - 1 \in 1 .. Len(a)
    BY <1>4
  <1>10. \A i \in 1 .. Len(a) + 1 : i = 1 \/ i \in 2 .. Len(a) + 1
    BY <1>4
  <1>11. \A i \in DOMAIN Inserts(p) : IF i = 1 THEN Inserts(p)[i] = Drop(p)
                                      ELSE \E s \in consumers[p] : Inserts(p)[i] = <<p, s>>
    BY <1>4, <1>6, <1>7, <1>9, <1>10
  <1>12. 1 \in DOMAIN Inserts(p) /\ Inserts(p)[1] = Drop(p)
    BY <1>4, <1>6
  <1>13. Drop(p) \in ToSet(Inserts(p)) /\ Inserts(p) # <<>>
    BY <1>12 DEF ToSet
  <1>14. ASSUME NEW s \in consumers[p] PROVE <<p, s>> \in ToSet(Inserts(p))
    <2>1. <<p, s>> \in ToSet(a)
      BY <1>2
    <2>2. PICK i \in 1 .. Len(a) : a[i] = <<p, s>>
      BY <1>4, <2>1 DEF ToSet
    <2>3. i + 1 \in 1 .. Len(a) + 1 /\ i + 1 # 1 /\ (i + 1) - 1 = i
      BY <1>4
    <2>4. i + 1 \in DOMAIN Inserts(p) /\ Inserts(p)[i + 1] = <<p, s>>
      BY <1>6, <2>2, <2>3
    <2> QED
      BY <2>4 DEF ToSet
  <1> QED
    BY <1>5, <1>6, <1>8, <1>11, <1>13, <1>14

-----------------------------------------------------------------------------
(* The firewall between the commands of a hardening. *)

FirewallTypes ==
    /\ consumers \in [Port -> SUBSET Source]
    /\ chain \in Seq(Rule) /\ saved \in Seq(Rule)
    /\ job.ports \in Seq(Port) /\ job.del \in Seq(Rule) /\ job.ins \in Seq(Rule)
    /\ job.at # "docker" => job.del = <<>> /\ job.ins = <<>>

\* The DROP of a port is inserted first, the sources after it, and nothing is deleted
\* once it is in.
InsertsLeft ==
    /\ \A i \in DOMAIN job.ins : \/ i = 1 /\ job.ins[i][2] = "drop"
                                 \/ job.ins[i][2] \in consumers[job.ins[i][1]]
    /\ \A r \in ToSet(job.del) : Drop(r[1]) \in ToSet(job.ins)
    /\ \A p \in Port : Drop(p) \in ToSet(job.ins) =>
          \A s \in consumers[p] : <<p, s>> \in ToSet(job.ins)

Pending(p) == p \in ToSet(job.ports) \/ Drop(p) \in ToSet(job.ins)

\* A port that is done lets its consumers pass, except for those still to be inserted.
Restricted(p) == \A s \in Source :
    IF s \in consumers[p] THEN Passes(chain, p, s) \/ <<p, s>> \in ToSet(job.ins)
                          ELSE ~Passes(chain, p, s)

PortsDone == job.at = "docker" =>
                 \A p \in Port : consumers[p] # {} /\ ~Pending(p) => Restricted(p)

FirewallInv == FirewallTypes /\ InsertsLeft /\ PortsDone

LEMMA NoneLeft == ToSet(<<>>) = {} /\ DOMAIN <<>> = {} /\ \A T : <<>> \in Seq(T)
  BY DEF ToSet

LEMMA RestrictStep == ASSUME AccessTypes, FirewallInv, RestrictPort PROVE FirewallInv'
  <1> DEFINE q == Head(job.ports)
  <1>1. /\ job.at = "docker" /\ job.ports # <<>> /\ job.del = <<>> /\ job.ins = <<>>
        /\ UNCHANGED <<consumers, chain, saved>>
        /\ job' = [job EXCEPT !.ports = Tail(job.ports), !.del = Deletes(q), !.ins = Inserts(q)]
    BY DEF RestrictPort, AtStep, firewall
  <1>2. /\ job'.at = "docker" /\ job'.ports = Tail(job.ports) /\ job'.del = Deletes(q)
        /\ job'.ins = Inserts(q)
    BY <1>1 DEF AccessTypes
  <1>3. q \in Port /\ Tail(job.ports) \in Seq(Port)
        /\ ToSet(job.ports) = {q} \cup ToSet(Tail(job.ports))
    BY <1>1, HeadAndTail DEF FirewallInv, FirewallTypes
  <1> HIDE DEF q
  <1>4. consumers[q] \subseteq Source
    BY <1>3 DEF FirewallInv, FirewallTypes
  <1>5. /\ Deletes(q) \in Seq(Rule) /\ Inserts(q) \in Seq(Rule)
        /\ \A r \in ToSet(Deletes(q)) : r[1] = q
        /\ Drop(q) \in ToSet(Inserts(q))
        /\ \A s \in consumers[q] : <<q, s>> \in ToSet(Inserts(q))
        /\ \A i \in DOMAIN Inserts(q) : IF i = 1 THEN Inserts(q)[i] = Drop(q)
                                        ELSE \E s \in consumers[q] : Inserts(q)[i] = <<q, s>>
    BY <1>3, <1>4, CommandsHave
  <1>6. FirewallTypes'
    BY <1>1, <1>2, <1>3, <1>5 DEF FirewallInv, FirewallTypes
  <1>7. Drop(q)[2] = "drop" /\ Drop(q)[1] = q /\ \A s : <<q, s>>[1] = q /\ <<q, s>>[2] = s
    BY DEF Drop
  <1>8. \A x \in ToSet(Inserts(q)) : x[1] = q
    BY <1>5, <1>7 DEF ToSet
  <1>9. InsertsLeft'
    <2>1. ASSUME NEW i \in DOMAIN Inserts(q)
          PROVE  \/ i = 1 /\ Inserts(q)[i][2] = "drop"
                 \/ Inserts(q)[i][2] \in consumers[Inserts(q)[i][1]]
      BY <1>5, <1>7
    <2>2. ASSUME NEW p \in Port, Drop(p) \in ToSet(Inserts(q)) PROVE p = q
      BY <1>8, <2>2 DEF Drop
    <2>3. \A i \in DOMAIN job'.ins : \/ i = 1 /\ job'.ins[i][2] = "drop"
                                     \/ job'.ins[i][2] \in consumers'[job'.ins[i][1]]
      BY <1>1, <1>2, <2>1
    <2>4. \A r \in ToSet(job'.del) : Drop(r[1]) \in ToSet(job'.ins)
      BY <1>2, <1>5
    <2>5. \A p \in Port : Drop(p) \in ToSet(job'.ins) =>
              \A s \in consumers'[p] : <<p, s>> \in ToSet(job'.ins)
      BY <1>1, <1>2, <1>5, <2>2
    <2> QED
      BY <2>3, <2>4, <2>5 DEF InsertsLeft
  <1>10. ASSUME NEW p \in Port, consumers'[p] # {}, ~Pending(p)' PROVE Restricted(p)'
    <2>1. p # q /\ p \notin ToSet(Tail(job.ports))
      BY <1>2, <1>5, <1>10 DEF Pending
    <2>2. ~Pending(p)
      BY <1>1, <1>3, <2>1, NoneLeft DEF Pending
    <2>3. Restricted(p)
      BY <1>1, <1>10, <2>2 DEF FirewallInv, PortsDone
    <2> QED
      BY <1>1, <2>3, NoneLeft DEF Restricted
  <1> QED
    BY <1>6, <1>9, <1>10 DEF FirewallInv, PortsDone

LEMMA DeleteStep == ASSUME AccessTypes, FirewallInv, DeleteRule PROVE FirewallInv'
  <1> DEFINE r == Head(job.del)
  <1>1. /\ job.at = "docker" /\ job.del # <<>> /\ UNCHANGED <<consumers, saved>>
        /\ job' = [job EXCEPT !.del = Tail(job.del)]
    BY DEF DeleteRule, AtStep
  <1>2. job'.at = job.at /\ job'.ports = job.ports /\ job'.del = Tail(job.del) /\ job'.ins = job.ins
    BY <1>1 DEF AccessTypes
  <1>3. /\ Tail(job.del) \in Seq(Rule) /\ ToSet(job.del) = {r} \cup ToSet(Tail(job.del)) /\ r \in Rule
    BY <1>1, HeadAndTail DEF FirewallInv, FirewallTypes
  <1>4. chain' = chain \/ \E i \in DOMAIN chain : chain[i] = r /\ chain' = RemoveAt(chain, i)
    BY DEF DeleteRule
  <1> HIDE DEF r
  <1>5. Drop(r[1]) \in ToSet(job.ins)
    BY <1>3 DEF FirewallInv, InsertsLeft
  <1>6. /\ chain' \in Seq(Rule)
        /\ \A p, s : r \notin {<<p, s>>, Drop(p)} => (Passes(chain', p, s) <=> Passes(chain, p, s))
    <2>1. chain \in Seq(Rule)
      BY DEF FirewallInv, FirewallTypes
    <2>2. CASE chain' = chain
      BY <2>1, <2>2
    <2>3. ASSUME NEW i \in DOMAIN chain, chain[i] = r, chain' = RemoveAt(chain, i)
          PROVE  /\ chain' \in Seq(Rule)
                 /\ \A p, s : r \notin {<<p, s>>, Drop(p)} => (Passes(chain', p, s) <=> Passes(chain, p, s))
      BY <2>1, <2>3, PassesRemove
    <2> QED
      BY <1>4, <2>2, <2>3
  <1>7. FirewallTypes' /\ InsertsLeft'
    BY <1>1, <1>2, <1>3, <1>6 DEF FirewallInv, FirewallTypes, InsertsLeft
  <1>8. ASSUME NEW p \in Port, consumers'[p] # {}, ~Pending(p)' PROVE Restricted(p)'
    <2>1. ~Pending(p) /\ r[1] # p
      BY <1>2, <1>5, <1>8 DEF Pending
    <2>2. Restricted(p)
      BY <1>1, <1>8, <2>1 DEF FirewallInv, PortsDone
    <2>3. \A s : r \notin {<<p, s>>, Drop(p)}
      BY <2>1 DEF Drop
    <2> QED
      BY <1>1, <1>2, <1>6, <2>2, <2>3 DEF Restricted
  <1> QED
    BY <1>7, <1>8 DEF FirewallInv, PortsDone

LEMMA InsertStep == ASSUME AccessTypes, FirewallInv, InsertRule, job' # Idle PROVE FirewallInv'
  <1> DEFINE r == Head(job.ins)
             t == Tail(job.ins)
  <1>1. /\ job.at = "docker" /\ job.del = <<>> /\ job.ins # <<>> /\ UNCHANGED <<consumers, saved>>
        /\ job' = [job EXCEPT !.ins = t] /\ chain' = <<r>> \o chain
    BY DEF InsertRule, AtStep, GiveUp
  <1>2. job'.at = job.at /\ job'.ports = job.ports /\ job'.del = <<>> /\ job'.ins = t
    BY <1>1 DEF AccessTypes
  <1>3. /\ r \in Rule /\ t \in Seq(Rule) /\ ToSet(job.ins) = {r} \cup ToSet(t)
        /\ \A i \in DOMAIN t : i + 1 \in DOMAIN job.ins /\ i + 1 # 1 /\ t[i] = job.ins[i + 1]
    BY <1>1, HeadAndTail DEF FirewallInv, FirewallTypes
  <1>4. r = job.ins[1] /\ 1 \in DOMAIN job.ins
    BY <1>1 DEF FirewallInv, FirewallTypes
  <1> HIDE DEF r, t
  <1>5. \A p \in Port : consumers[p] \subseteq Source
    BY DEF FirewallInv, FirewallTypes
  <1>6. \A i \in DOMAIN t : t[i][2] \in consumers[t[i][1]] /\ t[i] \in Rule
    BY <1>3 DEF FirewallInv, InsertsLeft, ToSet
  <1>7. \A x \in Rule : x[1] \in Port /\ x = <<x[1], x[2]>>
    BY DEF Rule
  <1>8. \A p \in Port : Drop(p) \notin ToSet(t)
    <2> SUFFICES ASSUME NEW i \in DOMAIN t PROVE t[i][2] # "drop"
      BY DEF ToSet, Drop
    <2> QED
      BY <1>5, <1>6, <1>7, HardenAssumption
  <1>9. /\ chain \in Seq(Rule) /\ chain' \in Seq(Rule)
    BY <1>1, <1>3, PassesInsert DEF FirewallInv, FirewallTypes
  <1>10. FirewallTypes'
    BY <1>1, <1>2, <1>3, <1>9, NoneLeft DEF FirewallInv, FirewallTypes
  <1>11. InsertsLeft'
    BY <1>1, <1>2, <1>6, <1>8, NoneLeft DEF InsertsLeft
  <1>12. ASSUME NEW p \in Port, consumers'[p] # {}, ~Pending(p)' PROVE Restricted(p)'
    <2>1. p \notin ToSet(job.ports)
      BY <1>2, <1>12 DEF Pending
    <2> SUFFICES ASSUME NEW s \in Source
                 PROVE  IF s \in consumers[p] THEN Passes(chain', p, s) \/ <<p, s>> \in ToSet(t)
                                              ELSE ~Passes(chain', p, s)
      BY <1>1, <1>2 DEF Restricted
    <2>2. /\ r = Drop(p) => ~Passes(chain', p, s)
          /\ r = <<p, s>> => Passes(chain', p, s)
          /\ r \notin {<<p, s>>, Drop(p)} => (Passes(chain', p, s) <=> Passes(chain, p, s))
      BY <1>1, <1>3, <1>9, PassesInsert
    <2>3. CASE r = Drop(p)
      <3>1. s \in consumers[p] => <<p, s>> \in ToSet(t)
        <4>1. s \in consumers[p] => <<p, s>> \in ToSet(job.ins)
          BY <1>3, <2>3 DEF FirewallInv, InsertsLeft
        <4> QED
          BY <1>3, <2>3, <4>1, Distinct
      <3> QED
        BY <2>2, <2>3, <3>1
    <2>4. CASE r # Drop(p)
      <3>1. ~Pending(p)
        BY <1>3, <1>8, <2>1, <2>4 DEF Pending
      <3>2. IF s \in consumers[p] THEN Passes(chain, p, s) \/ <<p, s>> \in ToSet(job.ins)
                                  ELSE ~Passes(chain, p, s)
        BY <1>1, <1>12, <3>1 DEF FirewallInv, PortsDone, Restricted
      <3>3. CASE r = <<p, s>>
        <4>1. r[2] = s /\ r[1] = p /\ s # "drop"
          BY <3>3, HardenAssumption
        <4>2. s \in consumers[p]
          BY <1>4, <4>1 DEF FirewallInv, InsertsLeft
        <4> QED
          BY <2>2, <3>3, <4>2
      <3>4. CASE r # <<p, s>>
        BY <1>3, <2>2, <2>4, <3>2, <3>4
      <3> QED
        BY <3>3, <3>4
    <2> QED
      BY <2>3, <2>4
  <1> QED
    BY <1>10, <1>11, <1>12 DEF FirewallInv, PortsDone

\* A hardening that stops, or a step of another command.
LEMMA Elsewhere ==
    ASSUME FirewallInv, consumers' \in [Port -> SUBSET Source], chain' \in {chain, saved},
           saved' \in {saved, chain}, job'.at # "docker",
           job'.ports \in Seq(Port), job'.del = <<>>, job'.ins = <<>>
    PROVE  FirewallInv'
  <1>1. chain' \in Seq(Rule) /\ saved' \in Seq(Rule)
    BY DEF FirewallInv, FirewallTypes
  <1>2. FirewallTypes'
    BY <1>1, NoneLeft DEF FirewallTypes
  <1>3. InsertsLeft'
    BY NoneLeft DEF InsertsLeft
  <1> QED
    BY <1>2, <1>3 DEF FirewallInv, PortsDone

LEMMA HardenNextFirewall ==
    ASSUME AccessTypes, FirewallInv, HardenNext PROVE FirewallInv'
  <1>1. /\ Idle.at # "docker" /\ Idle.ports \in Seq(Port) /\ Idle.del = <<>> /\ Idle.ins = <<>>
    BY NoneLeft DEF Idle
  <1>2. /\ consumers \in [Port -> SUBSET Source] /\ job.ports \in Seq(Port)
        /\ job.at # "docker" => job.del = <<>> /\ job.ins = <<>>
    BY DEF FirewallInv, FirewallTypes
  <1>3. ASSUME firewall' = firewall, job' = Idle PROVE FirewallInv'
    BY <1>1, <1>2, <1>3, Elsewhere DEF firewall
  <1>4. ASSUME firewall' = firewall, job.at # "docker", NEW users, NEW l, l # "docker",
               job' \in {job, [job EXCEPT !.users = users], [job EXCEPT !.at = l]}
        PROVE  FirewallInv'
    <2>1. /\ job'.at # "docker" /\ job'.ports = job.ports /\ job'.del = job.del /\ job'.ins = job.ins
      BY <1>4 DEF AccessTypes
    <2> QED
      BY <1>2, <1>4, <2>1, Elsewhere DEF firewall
  <1>5. ASSUME firewall' = firewall, NEW k, NEW u, NEW users, NEW l, l # "docker", Begin(l, k, u, users)
        PROVE  FirewallInv'
    <2>1. /\ job'.at # "docker" /\ job'.ports = Idle.ports /\ job'.del = Idle.del /\ job'.ins = Idle.ins
      BY <1>5 DEF Begin, Idle
    <2> QED
      BY <1>1, <1>2, <1>5, <2>1, Elsewhere DEF firewall
  <1>6. ASSUME NEW u \in User, SyncUser(u) PROVE FirewallInv'
    BY <1>3, <1>4, <1>6 DEF SyncUser, AtStep, GiveUp
  <1>7. ASSUME NEW k \in Key, NEW u \in Sessions,
               \/ UserSync(k, u) \/ StartHarden(k, u)
               \/ \E v \in User, new \in Key : UserAdd(k, u, v, new)
        PROVE  FirewallInv'
    BY <1>5, <1>7 DEF UserSync, StartHarden, UserAdd
  <1>8. ASSUME NEW k \in Key, NEW u \in Sessions, NEW v \in User, UserRemove(k, u, v) PROVE FirewallInv'
    BY <1>4, <1>8 DEF UserRemove, AtStep
  <1>9. ASSUME NEW k \in Key, StartSetup(k) PROVE FirewallInv'
    BY <1>5, <1>9 DEF StartSetup
  <1>10. CASE Synced \/ CreateDeployUser \/ GrantSudo \/ SetupTasks
    BY <1>3, <1>4, <1>10 DEF Synced, CreateDeployUser, GrantSudo, SetupTasks, AtStep, GoTo, GiveUp
  <1>11. CASE HardenSsh
    <2>1. firewall' = firewall /\ job.at = "ssh"
      BY <1>11 DEF HardenSsh, AtStep
    <2>2. CASE job' = Idle
      BY <1>3, <2>1, <2>2
    <2>3. CASE job' # Idle
      <3> DEFINE P == {p \in Port : consumers[p] # {}}
                 ports == SetToSeq(P)
      <3>1. job' = [job EXCEPT !.at = "docker", !.ports = ports]
        BY <1>11, <2>3 DEF HardenSsh, GiveUp
      <3>2. IsFiniteSet(P)
        BY FS_Subset, HardenAssumption
      <3>3. ports \in Seq(P) /\ ToSet(ports) = P
        BY <3>2, SetToSeqHas
      <3>4. ports \in Seq(Port)
        BY <3>3
      <3> HIDE DEF ports
      <3>5. /\ job'.at = "docker" /\ job'.ports = ports /\ job'.del = <<>> /\ job'.ins = <<>>
        BY <1>2, <2>1, <3>1 DEF AccessTypes
      <3>6. FirewallTypes'
        BY <2>1, <3>4, <3>5, NoneLeft DEF FirewallInv, FirewallTypes, firewall
      <3>7. InsertsLeft'
        BY <3>5, NoneLeft DEF InsertsLeft
      <3>8. PortsDone'
        BY <2>1, <3>3, <3>5 DEF PortsDone, Pending, firewall
      <3> QED
        BY <3>6, <3>7, <3>8 DEF FirewallInv
    <2> QED
      BY <2>2, <2>3
  <1>12. CASE InsertRule
    <2>1. CASE job' = Idle
      <3>1. UNCHANGED <<consumers, saved>> /\ job.at = "docker"
        BY <1>12 DEF InsertRule, AtStep
      <3>2. chain' = chain
        <4>1. [job EXCEPT !.ins = Tail(@)].at = "docker"
          BY <3>1 DEF AccessTypes
        <4> QED
          BY <1>1, <1>12, <2>1, <4>1 DEF InsertRule
      <3> QED
        BY <1>1, <1>2, <2>1, <3>1, <3>2, Elsewhere
    <2> QED
      BY <1>12, <2>1, InsertStep
  <1>13. CASE SaveRules \/ EditConsumers \/ RebootServer
    <2>1. /\ consumers' \in [Port -> SUBSET Source] /\ chain' \in {chain, saved} /\ saved' \in {saved, chain}
          /\ job' = Idle \/ (job' = job /\ job.at # "docker")
      BY <1>2, <1>13, HardenAssumption DEF SaveRules, EditConsumers, RebootServer, GiveUp, AtStep
    <2> QED
      BY <1>1, <1>2, <2>1, Elsewhere
  <1> QED
    BY <1>6, <1>7, <1>8, <1>9, <1>10, <1>11, <1>12, <1>13, RestrictStep, DeleteStep DEF HardenNext

\* A hardening that ends has restricted every published port to its consumers: the
\* sources of the configuration it read and no others, for any ports and sources, and
\* whatever earlier hardenings, deletions that failed and reboots left in the chain.
THEOREM PortsRestricted == Spec => RestrictedToConsumers
  <1>1. Init => FirewallInv
    <2> SUFFICES ASSUME Init PROVE FirewallInv
      OBVIOUS
    <2>1. /\ consumers \in Declared /\ chain = <<>> /\ saved = <<>> /\ job = Idle
      BY DEF Init, HardenInit
    <2>2. /\ job.at # "docker" /\ job.ports = <<>> /\ job.del = <<>> /\ job.ins = <<>>
      BY <2>1 DEF Idle
    <2>3. FirewallTypes
      BY <2>1, <2>2, NoneLeft, HardenAssumption DEF FirewallTypes
    <2>4. InsertsLeft
      BY <2>2, NoneLeft DEF InsertsLeft
    <2> QED
      BY <2>2, <2>3, <2>4 DEF FirewallInv, PortsDone
  <1>2. AccessInv /\ FirewallInv /\ [Next]_vars => FirewallInv'
    <2>1. ASSUME FirewallInv, UNCHANGED <<firewall, job>> PROVE FirewallInv'
      <3>1. UNCHANGED <<consumers, chain, saved, job>>
        BY <2>1 DEF firewall
      <3> QED
        BY <2>1, <3>1 DEF FirewallInv, FirewallTypes, InsertsLeft, PortsDone, Pending, Restricted
    <2>2. ASSUME AccessInv, FirewallInv, HardenNext PROVE FirewallInv'
      BY <2>2, HardenNextFirewall DEF AccessInv
    <2> QED
      BY <2>1, <2>2 DEF Next, vars
  <1>3. FirewallInv => [SaveRules => \A p \in Port : consumers[p] # {} =>
            \A s \in Source : Passes(chain, p, s) <=> s \in consumers[p]]_hardenVars
    <2> SUFFICES ASSUME FirewallInv, SaveRules, NEW p \in Port, consumers[p] # {}, NEW s \in Source
                 PROVE  Passes(chain, p, s) <=> s \in consumers[p]
      OBVIOUS
    <2>1. job.at = "docker" /\ ToSet(job.ports) = {} /\ ToSet(job.ins) = {}
      BY NoneLeft DEF SaveRules, AtStep
    <2>2. Restricted(p)
      BY <2>1 DEF FirewallInv, PortsDone, Pending
    <2> QED
      BY <2>1, <2>2 DEF Restricted
  <1> QED
    BY <1>1, <1>2, <1>3, AdminInvariant, PTL DEF Spec, RestrictedToConsumers
=============================================================================
