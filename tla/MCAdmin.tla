------------------------------ MODULE MCAdmin -------------------------------
(* Servers and consumers for which TLC checks Admin. *)
EXTENDS Admin

TwoHosts == <<"h1", "h2">>
Layouts  == {[pg |-> {"a", "b"}, redis |-> {"a"}], [pg |-> {"b"}, redis |-> {}]}
=============================================================================
