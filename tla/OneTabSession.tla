---------------------------- MODULE OneTabSession ----------------------------
(***************************************************************************)
(* The candidate with one tab: what the runtime promises while nobody      *)
(* races the opening of the attempt.                                       *)
(*                                                                         *)
(* beginSessionClock tests neither the deadline nor the status of the      *)
(* attempt, so a first Begin may come at any time, past the deadline it    *)
(* replaces included.  As long as the worker and the sweeper sleep until   *)
(* it has replaced it nothing is lost.  A Begin they overtake moves the    *)
(* deadline of an attempt that is being closed: the sections no longer     *)
(* hold.  `overtaken' remembers that this has happened, and every          *)
(* property below says what holds until it does.                           *)
(***************************************************************************)
EXTENDS SessionSafety

VARIABLE overtaken

\* No other section has been started: this Begin started the session's clock.
FirstBegun(s) == \A m \in Modules \ {s.idx} : s.mstat[m] = "pending"

\* createSession after its insert, and a first Begin on its way to the saved state.
Opening(p) ==
    \/ pc[p] \in {"create_invite", "create_save", "create_job"}
    \/ pc[p] \in {"begin_row", "begin_unjob", "begin_job"}
    \/ pc[p] = "begin_save" /\ FirstBegun(st[p])

\* The worker or the sweeper is at work beside it, or closed the attempt while the
\* state to begin with was being rebuilt.
Overtaken ==
    \E p \in Tabs :
        /\ Opening(p)
        /\ \/ \E q \in {Worker, Sweeper} : pc[q] # "idle"
           \/ IsClosed /\ st[p].status = "in_progress"

trackedVars == <<vars, overtaken>>

TrackedInit == Init /\ overtaken = FALSE

TrackedNext == Next /\ overtaken' = (overtaken \/ Overtaken')

TrackedSpec == TrackedInit /\ [][TrackedNext]_trackedVars

(***************************************************************************)
(* Properties                                                              *)
(***************************************************************************)

\* finalize and createSession keep the invitation in step: unless the recruiter withdrew
\* it, an attempt at rest is closed exactly when its invitation is completed, and then
\* its report is queued.
InvitationFollowsAttempt ==
    Quiet /\ faults = 0 /\ ~overtaken =>
        /\ invitation # "revoked" => (invitation = "completed" <=> IsClosed)
        /\ IsClosed => reportQueued

\* advance: "Refreshing, reconnecting or racing the API can never skip past a
\* question."  While the attempt is open and Redis keeps its state, a question once
\* shown either has its row or is the one on screen.
NothingSkipped ==
    Open /\ blob.status = "in_progress" /\ faults = 0 /\ ~lost /\ ~overtaken =>
        \A q \in shown : responses[q] # "absent" \/ blob.served = q

\* shouldStop: "sections are a fixed length now": no module takes more answers.  (A worker
\* that rebuilds the state while an answer is written saves one without it; should the
\* request that wrote it and the worker both fail then, the section starts anew.)
FixedLength ==
    faults = 0 /\ ~overtaken =>
        \A m \in Modules : Cardinality(AnsweredIn(m)) <= QuestionCount[m]

\* advance leaves a module only through completeModule: an answer in a module means
\* the module before it has its final result row.
ModulesInOrder ==
    faults = 0 /\ ~overtaken =>
        \A m \in Modules \ {1} :
            AnsweredIn(m) # {} => results[m - 1].state = "closed"

\* The two together: sections keep their length and their order.
SectionsHold == FixedLength /\ ModulesInOrder

\* rehydrate: with nothing failing, what a rebuild from the database would find of the
\* answers and closed modules is what the live state holds whenever nobody is working on it.
ReplayIsExact ==
    Quiet /\ Open /\ blob.status = "in_progress" /\ faults = 0 /\ ~overtaken =>
        \A m \in Modules :
            /\ blob.answered[m] = Cardinality(AnsweredIn(m))
            /\ blob.mstat[m] = "completed" <=> results[m].state = "closed"
            /\ \A q \in blob.seen : responses[q] # "absent" \/ q = blob.served

\* SessionState.expiresAt is the "hard cap on the whole attempt": once a question has
\* been shown it no longer moves, as long as Redis keeps the state.
DeadlineIsFixed ==
    [][shown # {} /\ faults = 0 /\ ~lost /\ ~overtaken =>
            row'.expiresAt = row.expiresAt]_vars

==============================================================================
