--------------------------- MODULE SessionLiveness ---------------------------
(***************************************************************************)
(* An attempt does not stay open.  Three mechanisms close it: a request    *)
(* after the deadline, the delayed job, and the sweep at boot.  The first  *)
(* needs the candidate, so nothing is assumed of the tabs: they may never  *)
(* send another request.                                                   *)
(***************************************************************************)
EXTENDS SessionSafety

\* An awaited call that was made returns, and Node resumes its caller.
StepFairness == \A p \in Procs : WF_vars(Running \subseteq {p} /\ Step(p))

\* Time passes and BullMQ delivers a due job, however busy the tabs keep the backend.
TimerFairness ==
    /\ SF_vars(Running = {} /\ Tick)
    /\ SF_vars(Running = {} /\ JobFires)

FairSpec == Spec /\ StepFairness /\ TimerFairness

\* The sweeper's "the keep-alive ping means a wake happens within minutes": the idle
\* instance boots again and again, each boot sweeps, and Redis honours its TTLs.
WakeFairness ==
    /\ SF_vars(Running = {} /\ Restart /\ Quiet)
    /\ SF_vars(Running = {} /\ Sweep)
    /\ SF_vars(Running = {} /\ Lapse)

WokenSpec == FairSpec /\ WakeFairness

\* AutoSubmitProcessor: "without it, an abandoned attempt would stay `in_progress`
\* forever".  Whatever the candidate does or stops doing, an open attempt is closed.
OpenAttemptCloses == Open ~> IsClosed

==============================================================================
