---------------------------- MODULE MCDeployLock ----------------------------
(* The bounds under which TLC checks DeployLock. *)
EXTENDS DeployLock, TLC

\* Clients are interchangeable.
ClientSymmetry == Permutations(Clients)
=============================================================================
