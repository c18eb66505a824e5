---------------------------- MODULE SessionSafety ----------------------------
(***************************************************************************)
(* What must hold of SessionRuntime.  The first group holds whatever the   *)
(* requests, the queue and the failures do, the second as long as no call  *)
(* fails.  OneTabSession has what holds for the candidate with one tab,    *)
(* SessionLiveness what the fairness of a running backend brings about.    *)
(***************************************************************************)
EXTENDS SessionRuntime

Quiet == \A p \in Procs : pc[p] = "idle"
Open == row.status = "in_progress"
IsClosed == row.status \in Closed

(***************************************************************************)
(* Under any interleaving and any failure                                  *)
(***************************************************************************)

\* finalize writes a result row for every configured module, "including ones never
\* reached", before the session row: a closed attempt can always be reported on.
ClosedAttemptIsScored ==
    IsClosed => \A m \in Modules : results[m].state # "absent"

\* applyAnswer inserts the row before any state that counts it is saved: neither the
\* live state nor a result row ever counts an answer the database does not hold.
CountsAreBacked ==
    \A m \in Modules :
        /\ blob.answered[m] <= Cardinality(AnsweredIn(m))
        /\ results[m].count <= Cardinality(AnsweredIn(m))

\* No update of the session row (createSession, beginSessionClock, finalize) reopens it.
ClosedStaysClosed == [][IsClosed => row'.status \in Closed]_vars

\* The durable record behaves as AttemptLedger promises.
Phase == IF row.status = "none" THEN "none" ELSE IF Open THEN "open" ELSE "closed"
Recorded == {q \in Questions : responses[q] # "absent"}
Scored == {m \in Modules : results[m].state # "absent"}

Ledger == INSTANCE AttemptLedger WITH
    phase <- Phase, recorded <- Recorded, scored <- Scored

RefinesLedger == Ledger!Spec

(***************************************************************************)
(* As long as no call fails                                                *)
(***************************************************************************)

\* beginSessionClock removes the job before it adds the new one, because add keeps an
\* existing job: an open attempt at rest has its auto-submit job pending, and the job
\* does not fire before the deadline the row states.
OpenAttemptIsWatched ==
    Quiet /\ Open /\ faults = 0 =>
        job.state = "delayed" /\ row.expiresAt <= job.due

==============================================================================
