------------------------------- MODULE Admin --------------------------------
(***************************************************************************)
(* The commands that administer servers rather than deploy to them: tunnels *)
(* on all of them (Tunnel), users and firewall of one (Harden). They share  *)
(* nothing but the operators, who wait for one command before the next.     *)
(***************************************************************************)
EXTENDS Tunnel, Harden

vars == <<config, account, server, run, access, firewall, job, runs>>

Init == TunnelInit /\ HardenInit /\ runs = 0

Next ==
    \/ job = Idle /\ TunnelNext /\ UNCHANGED <<access, firewall, job>>
    \/ run = Done /\ HardenNext /\ UNCHANGED <<config, account, server, run>>

Spec == Init /\ [][Next]_vars
=============================================================================
