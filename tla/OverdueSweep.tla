---------------------------- MODULE OverdueSweep ----------------------------
(***************************************************************************)
(* The sweep of backend/src/sessions/expired-session-sweeper.service.ts    *)
(* over all the attempts of the database: which of them a sweep takes, and *)
(* what becomes of the others.  What closing one attempt amounts to is     *)
(* SessionRuntime's; here it closes, finds the live state already finished *)
(* and leaves the row as it is, or throws.                                 *)
(***************************************************************************)
EXTENDS Naturals, Sequences, FiniteSets

CONSTANTS
    Overdue,        \* the attempts, as the ranks of their expiresAt
    MaxPerSweep,    \* MAX_PER_SWEEP
    MaxStops        \* bound: how often the instance stops during a sweep

ASSUME SweepAssumption ==
    /\ Overdue \subseteq Nat /\ IsFiniteSet(Overdue)
    /\ MaxPerSweep \in Nat \ {0} /\ MaxStops \in Nat

VARIABLES
    lapse,          \* attempt -> "running", "overdue" or "closed"
    snag,           \* attempt -> what keeps it from being closed
    batch,          \* the rows the sweep under way has still to close
    stops

sweepVars == <<lapse, snag, batch, stops>>

SweepInit ==
    /\ lapse = [a \in Overdue |-> "running"]
    /\ snag \in [Overdue -> {"none", "finished", "broken"}]
    /\ batch = <<>> /\ stops = 0

\* The most overdue first, and no more than the batch holds.
Taken ==
    {a \in Overdue : /\ lapse[a] = "overdue"
                     /\ Cardinality({b \in Overdue : lapse[b] = "overdue" /\ b < a}) < MaxPerSweep}

InOrder(S) == CHOOSE q \in [1..Cardinality(S) -> S] : \A i, j \in DOMAIN q : i < j => q[i] < q[j]

\* The boot of an instance, a while after the last sweep.
SweepStarts ==
    /\ batch = <<>> /\ Taken # {}
    /\ batch' = InOrder(Taken)
    /\ UNCHANGED <<lapse, snag, stops>>

\* (mutant) A row that throws ends the sweep.
RestAfterAbort(a) == IF snag[a] = "broken" THEN <<>> ELSE Tail(batch)

\* One bad session must not abandon the rest of the batch.
RestAfter(a) == Tail(batch)

SweepsNext ==
    /\ batch # <<>>
    /\ LET a == Head(batch)
       IN  /\ lapse' = [lapse EXCEPT ![a] = IF snag[a] = "none" THEN "closed" ELSE @]
           /\ batch' = RestAfter(a)
    /\ UNCHANGED <<snag, stops>>

Lapses(a) ==
    /\ lapse[a] = "running"
    /\ lapse' = [lapse EXCEPT ![a] = "overdue"]
    /\ UNCHANGED <<snag, batch, stops>>

\* Its job, or a request of the candidate, closes it: before the sweep reaches
\* it or not.
ClosedElsewhere(a) ==
    /\ lapse[a] # "closed" /\ snag[a] = "none"
    /\ lapse' = [lapse EXCEPT ![a] = "closed"]
    /\ UNCHANGED <<snag, batch, stops>>

\* A finished live state that was never followed by the row expires in Redis.
StateExpires(a) ==
    /\ snag[a] = "finished"
    /\ snag' = [snag EXCEPT ![a] = "none"]
    /\ UNCHANGED <<lapse, batch, stops>>

InstanceStops ==
    /\ batch # <<>> /\ stops < MaxStops
    /\ batch' = <<>> /\ stops' = stops + 1
    /\ UNCHANGED <<lapse, snag>>

SweepNext ==
    \/ SweepStarts \/ SweepsNext \/ InstanceStops
    \/ \E a \in Overdue : Lapses(a) \/ ClosedElsewhere(a) \/ StateExpires(a)

\* The instance wakes again and again, a sweep goes on while it runs, and Redis
\* keeps its time.
SweepFairness ==
    /\ WF_sweepVars(SweepStarts) /\ WF_sweepVars(SweepsNext)
    /\ \A a \in Overdue : WF_sweepVars(StateExpires(a))

SweepSpec == SweepInit /\ [][SweepNext]_sweepVars /\ SweepFairness

\* "The rest are picked up on the next restart" (sweep): every attempt that can be
\* closed is, after so many wakes, as long as those that cannot are fewer than a
\* batch holds; rows whose live state is finished fill batches only for as long
\* as Redis keeps it.
SweepReachesAll ==
    \A a \in Overdue :
        (/\ lapse[a] = "overdue" /\ snag[a] # "broken"
         /\ Cardinality({b \in Overdue : snag[b] = "broken"}) < MaxPerSweep)
            ~> lapse[a] = "closed"

=============================================================================
