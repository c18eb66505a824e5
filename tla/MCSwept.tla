------------------------------ MODULE MCSwept ------------------------------
(***************************************************************************)
(* The sweep at boot, from both sides: the one attempt it must close,      *)
(* whatever else fails, and the many among which that one must have its    *)
(* turn.  Each is explored with the other at rest.                         *)
(***************************************************************************)
EXTENDS MCSession, OverdueSweep

VARIABLE part

MCInit ==
    /\ Init /\ SweepInit
    /\ part \in {"one", "many"}
    /\ part = "one" => \A a \in Overdue : snag[a] = "none"

MCNext ==
    \/ part = "one" /\ Next /\ UNCHANGED <<sweepVars, part>>
    \/ part = "many" /\ SweepNext /\ UNCHANGED <<vars, part>>

\* At rest the clock of the one attempt could go on: nothing is asked of it then.
MCSpec ==
    /\ MCInit /\ [][MCNext]_<<vars, sweepVars, part>>
    /\ part = "one" => StepFairness /\ TimerFairness /\ WakeFairness
    /\ SweepFairness

=============================================================================
