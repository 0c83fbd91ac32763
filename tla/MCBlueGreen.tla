---------------------------- MODULE MCBlueGreen ----------------------------
(* The bounds and faults under which TLC checks BlueGreen. *)
EXTENDS BlueGreen

\* Commands may fail and the client may die anywhere but between the rewrite of
\* the Caddy site and the write of the colour state.
OutsideFlip == (DeploySteps \cup RollSteps) \ FlipWindow

\* As OutsideFlip, and the catch blocks themselves succeed.
Handled == OutsideFlip \ {"revert", "rbUndo", "rbRestore"}

Everywhere == DeploySteps \cup RollSteps

\* A deploy fails or dies before it starts the new colour or after the flip, and
\* leaves no started, unswitched process of another release behind. What a failed
\* rollback leaves running is the release it would have returned to.
NoLeftover == OutsideFlip \ {"health", "workers", "configure"}

\* Every started process answers the health check or dies of its error.
CleanOutcomes == {"healthy", "errored"}

\* Every started process is healthy.
OnlyHealthy == {"healthy"}

Nowhere == {}

\* The client dies after Caddy has reloaded and before the state is written.
AtStateWrite == {"writeState"}
=============================================================================
