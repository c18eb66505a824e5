---------------------------- MODULE AttemptLedger ----------------------------
(***************************************************************************)
(* What the durable record of one assessment attempt promises, whatever    *)
(* happens to Redis, the queue or the requests in flight: the attempt is   *)
(* opened at most once, an answer row is never taken back, and it can be   *)
(* closed only when every module has a result row for the report to read.  *)
(* Once closed it is never reopened.  SessionRuntime implements it.        *)
(***************************************************************************)
EXTENDS Naturals

CONSTANTS
    Questions,      \* every question of the assessment
    Modules         \* every module of the assessment

VARIABLES
    phase,          \* assessment_sessions.status, its two closed values as one
    recorded,       \* the questions that have a row in responses
    scored          \* the modules that have a row in session_module_results

vars == <<phase, recorded, scored>>

TypeOK ==
    /\ phase \in {"none", "open", "closed"}
    /\ recorded \subseteq Questions
    /\ scored \subseteq Modules

Init ==
    /\ phase = "none"
    /\ recorded = {}
    /\ scored = {}

Open ==
    /\ phase = "none"
    /\ phase' = "open"
    /\ UNCHANGED <<recorded, scored>>

Record(q) ==
    /\ phase # "none"
    /\ q \notin recorded
    /\ recorded' = recorded \cup {q}
    /\ UNCHANGED <<phase, scored>>

Score(m) ==
    /\ phase # "none"
    /\ scored' = scored \cup {m}
    /\ UNCHANGED <<phase, recorded>>

Close ==
    /\ phase = "open"
    /\ scored = Modules
    /\ phase' = "closed"
    /\ UNCHANGED <<recorded, scored>>

Next ==
    \/ Open
    \/ \E q \in Questions : Record(q)
    \/ \E m \in Modules : Score(m)
    \/ Close

Spec == Init /\ [][Next]_vars

==============================================================================
