--------------------------- MODULE TrafficSwitch ---------------------------
(***************************************************************************)
(* What blue-green releases promise to whoever sends requests: some release *)
(* answers at all times after the first one went live, a deploy replaces it *)
(* with a newer one in one step, and a rollback returns to the release that *)
(* served before, once (rolling back again undoes the rollback).            *)
(***************************************************************************)
EXTENDS Integers

CONSTANTS Release      \* the releases, numbers in order of creation

VARIABLES serving,     \* the release that answers; 0: nothing blue-green yet
          fallback     \* the release a rollback returns to; 0: none

vars == <<serving, fallback>>

Init == serving = 0 /\ fallback = 0

\* A newer release than both goes live.
Deploy == /\ serving' \in Release
          /\ serving' > serving /\ serving' > fallback
          /\ fallback' = serving

Rollback == /\ fallback # 0
            /\ serving' = fallback
            /\ fallback' = serving

Next == Deploy \/ Rollback

Spec == Init /\ [][Next]_vars
=============================================================================
