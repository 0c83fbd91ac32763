----------------------------- MODULE AdminRuns -----------------------------
(* runRemoteCommand (cli/runner.ts), as Tunnel and Harden use it: operators   *)
(* enter a finite number of commands, and the outside world changes a finite  *)
(* number of times. Both count against one bound.                             *)
LOCAL INSTANCE Integers

VARIABLE runs        \* commands entered and outside events so far
CONSTANT MaxRuns     \* bound on runs

ASSUME RunsAssumption == MaxRuns \in Nat

OneMore ==
    /\ runs < MaxRuns
    /\ runs' = runs + 1
=============================================================================
