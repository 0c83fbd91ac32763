------------------------------- MODULE MCFleet -------------------------------
(* Workspaces, faults and bounds under which TLC checks Fleet. *)
EXTENDS Fleet

App1(name, on, deps) == [name |-> name, on |-> on, deps |-> deps, backend |-> TRUE,
                         web |-> TRUE, domain |-> TRUE, zd |-> "unset"]
Postgres(on, ports) == [name |-> "pg", on |-> on, ports |-> ports]
Redis(on, ports) == [name |-> "redis", on |-> on, ports |-> ports]
Open     == {[bind |-> "any", port |-> 5432]}
Closed   == {[bind |-> "loopback", port |-> 5432]}
Both     == {[bind |-> "loopback", port |-> 5432], [bind |-> "any", port |-> 9000]}
Addr     == [a |-> "addrA", b |-> "addrB", c |-> "addrC", default |-> "addrD"]

Workspace(servers, apps, accessories, database) ==
    [servers |-> servers, host |-> Addr, apps |-> apps,
     accessories |-> accessories, database |-> database]

\* A fleet of two, a worker app and a database on the second replica, which
\* getServerTargets therefore visits first.
TwoReplicas == Workspace(<<"a", "b">>,
                         <<App1("api", <<"a", "b">>, {"pg"}), App1("jobs", <<"a">>, {})>>,
                         <<Postgres(<<"b">>, Open)>>, {})
ThreeReplicas == Workspace(<<"a", "b", "c">>, <<App1("api", <<"c", "a", "b">>, {})>>, <<>>, {})

\* Layouts of two apps, two accessories and a database over two or three servers,
\* valid or not.
Ons == {Unset, <<"a">>, <<"b">>, <<"c">>, <<"a", "b">>, <<"b", "a">>, <<"c", "a", "a">>}
Singles == {Unset, <<"a">>, <<"b">>, <<"c">>}
Layouts ==
    {Workspace(servers, <<App1("api", on1, d1), App1("jobs", on2, d2)>>,
               <<Postgres(on3, ports), Redis(on4, Open)>>, database) :
        servers \in {<<"a", "b", "c">>, <<"b", "a", Default>>}, on1 \in Ons,
        on2 \in {<<"a">>, <<"c", "b">>}, d1 \in {{"pg"}, {"pg", "redis"}},
        d2 \in {{}, {"redis"}}, on3 \in Singles, on4 \in {<<"b">>},
        ports \in {Open, Closed, Both}, database \in {{Unset}, {<<"b">>}}}

TwoPlain == Workspace(<<"a", "b">>, <<App1("api", <<"a", "b">>, {})>>, <<>>, {})

Pair      == {TwoPlain}
Loaded    == {TwoReplicas, ThreeReplicas, TwoPlain} \cup Layouts

\* Nothing is deployed to a layout: only what follows from it is checked.
TwoOrThree == [w \in Loaded |-> IF w = ThreeReplicas THEN 3
                                ELSE IF w \in {TwoReplicas, TwoPlain} THEN 2 ELSE 0]

Anywhere == {"connect", "job", "beforeFleet", "flip", "post", "swap"}
Dying    == {"flip"}
=============================================================================
