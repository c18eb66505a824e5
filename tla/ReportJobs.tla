----------------------------- MODULE ReportJobs -----------------------------
(***************************************************************************)
(* From a closed attempt to the report a recruiter reads                   *)
(* (backend/src/reports/reports.service.ts generate and summary, the       *)
(* report-generation queue, and enqueueReport of sessions.service.ts).     *)
(*                                                                         *)
(* The attempt is AttemptLedger, which SessionRuntime implements.  Every   *)
(* call of finalize that gets past its test queues a job after the close,  *)
(* and may fail to; a job on file swallows another of its id, one that is  *)
(* done does not.  The worker runs a job up to three times; and a          *)
(* recruiter who opens the report generates it on the spot where there is  *)
(* none.  A generation reads the session, then its results, and overwrites *)
(* the one report row.                                                     *)
(***************************************************************************)
EXTENDS Naturals

CONSTANTS
    Questions, Modules,     \* as in AttemptLedger
    Finalisers,             \* the requests, the job and the sweep that may close the attempt
    Worker,                 \* the report-generation worker
    Readers                 \* the report pages of recruiters

CONSTANTS           \* bounds of the exploration, not of the program
    MaxCloses,      \* calls of finalize on a copy that is not finished
    MaxReads,       \* reports opened or regenerated
    MaxFaults,      \* calls that are refused
    MaxCrashes,     \* times the server dies
    MayOpenEarly    \* whether a report is asked for before the attempt is closed, which
                    \* the results page offers no link for

ASSUME ActorsAssumption ==
    /\ Worker \notin Finalisers \cup Readers
    /\ Finalisers \cap Readers = {}

ASSUME BoundsAssumption ==
    /\ {MaxCloses, MaxReads, MaxFaults, MaxCrashes} \subseteq Nat
    /\ MayOpenEarly \in BOOLEAN

Procs == Readers \cup Finalisers \cup {Worker}
Attempts == 3       \* attempts of the job
MaxStalls == 1      \* BullMQ fails a job that is found abandoned more often

VARIABLES
    phase, recorded, scored,    \* the attempt, as in AttemptLedger
    report,         \* the reports row: the phase and the module results it was built from
    job,            \* the job of this session's id in the report-generation queue
    notices,        \* how many "attempt completed" e-mails were queued
    pc,             \* the requests and jobs in flight
    seen,           \* what each generation has read
    closes, reads, faults, crashes,
    \* history
    early,          \* whether a report was asked for before the close
    shown           \* the pages that were answered, with the report they were given

attempt == <<phase, recorded, scored>>
queue == <<job, notices>>
env == <<closes, reads, faults, crashes>>
history == <<early, shown>>
vars == <<attempt, report, queue, pc, seen, env, history>>

Ledger == INSTANCE AttemptLedger

Contents == [phase: {"none", "open", "closed"}, scored: SUBSET Modules]
NoReport == [phase |-> "none", scored |-> {}]
NoJob == [state |-> "none", made |-> 0, stalls |-> 0]

\* A report of the whole attempt.
Complete(r) == r.phase = "closed" /\ r.scored = Modules

TypeOK ==
    /\ Ledger!TypeOK
    /\ report \in Contents
    /\ job \in [state: {"none", "waiting", "active", "failed"},
                made: 0 .. Attempts, stalls: 0 .. MaxStalls + 1]
    /\ pc \in [Procs -> {"idle", "enqueue", "look", "load", "results", "upsert", "notify",
                         "reread", "render"}]
    /\ seen \in [Procs -> Contents]
    /\ {notices, closes, reads, faults, crashes} \subseteq Nat
    /\ early \in BOOLEAN
    /\ shown \subseteq Contents

Init ==
    /\ Ledger!Init
    /\ report = NoReport
    /\ job = NoJob
    /\ notices = 0
    /\ pc = [p \in Procs |-> "idle"]
    /\ seen = [p \in Procs |-> NoReport]
    /\ closes = 0 /\ reads = 0 /\ faults = 0 /\ crashes = 0
    /\ early = FALSE
    /\ shown = {}

Goto(p, l) == pc' = [pc EXCEPT ![p] = l]

\* The process is done, and what it had read is forgotten.
Done(p) ==
    /\ Goto(p, "idle")
    /\ seen' = [seen EXCEPT ![p] = NoReport]

(***************************************************************************)
(* The attempt, and the job its close queues                               *)
(***************************************************************************)
Sit ==
    /\ \/ Ledger!Open
       \/ \E q \in Questions : Ledger!Record(q)
       \/ \E m \in Modules : Ledger!Score(m)
    /\ UNCHANGED <<report, queue, pc, seen, env, history>>

\* The finaliser takes up a copy that is not finished.
Finalises(f) ==
    /\ pc[f] = "idle"
    /\ closes < MaxCloses
    /\ closes' = closes + 1

\* Mutant of Close: the job is queued before the row is closed.
CloseQueuedFirst(f) ==
    \/ /\ Finalises(f)
       /\ phase = "open" /\ scored = Modules /\ job = NoJob
       /\ Goto(f, "enqueue")
       /\ UNCHANGED <<attempt, report, queue, seen, reads, faults, crashes, history>>
    \/ /\ job # NoJob
       /\ Ledger!Close
       /\ UNCHANGED <<report, queue, pc, seen, env, history>>

\* finalize: the row is closed, and enqueueReport follows.  The test at its head is of
\* the caller's copy, so a finaliser may go the same way when the row is closed already.
Close(f) ==
    /\ Finalises(f)
    /\ \/ Ledger!Close
       \/ phase = "closed" /\ UNCHANGED attempt
    /\ Goto(f, "enqueue")
    /\ UNCHANGED <<report, queue, seen, reads, faults, crashes, history>>

\* add keeps a job of the same id, one that failed included; one that is done is gone.
EnqueueReport(f) ==
    /\ pc[f] = "enqueue"
    /\ job' = IF job.state = "none" THEN [NoJob EXCEPT !.state = "waiting"] ELSE job
    /\ Done(f)
    /\ UNCHANGED <<attempt, report, notices, env, history>>

\* The worker takes the job and calls generate.
JobStarts ==
    /\ job.state = "waiting"
    /\ pc[Worker] = "idle"
    /\ job' = [job EXCEPT !.state = "active", !.made = @ + 1]
    /\ Goto(Worker, "load")
    /\ UNCHANGED <<attempt, report, notices, seen, env, history>>

\* Mutant of JobAfterError: the error is swallowed and the job left as it is.
JobLeftActive == job

\* What becomes of a job that threw: it is retried, or kept as failed.
JobAfterError ==
    [job EXCEPT !.state = IF job.made < Attempts THEN "waiting" ELSE "failed"]

(***************************************************************************)
(* summary and regenerate                                                  *)
(***************************************************************************)
\* A recruiter opens the report, or asks for it to be rebuilt.
Ask(r, l) ==
    /\ pc[r] = "idle"
    /\ phase = "closed" \/ (MayOpenEarly /\ phase = "open")
    /\ reads < MaxReads
    /\ reads' = reads + 1
    /\ early' = (early \/ phase = "open")
    /\ Goto(r, l)
    /\ UNCHANGED <<attempt, report, queue, seen, closes, faults, crashes, shown>>

OpenReport(r) == Ask(r, "look")
Regenerate(r) == Ask(r, "load")

\* summary looks for the row, and generates it if there is none.
Look(r) ==
    /\ pc[r] = "look"
    /\ Goto(r, IF report = NoReport THEN "load" ELSE "render")
    /\ seen' = [seen EXCEPT ![r] = report]
    /\ UNCHANGED <<attempt, report, queue, env, history>>

\* The rest of summary's reads, and its answer.
Render(r) ==
    /\ pc[r] = "render"
    /\ shown' = shown \cup {seen[r]}
    /\ Done(r)
    /\ UNCHANGED <<attempt, report, queue, env, early>>

(***************************************************************************)
(* generate                                                                *)
(***************************************************************************)
\* loadUnscoped: the session.
LoadSession(p) ==
    /\ pc[p] = "load"
    /\ seen' = [seen EXCEPT ![p].phase = phase]
    /\ Goto(p, "results")
    /\ UNCHANGED <<attempt, report, queue, env, history>>

\* Mutant of LoadResults: the owner is told before the report is stored.
LoadResultsTold(p) ==
    /\ pc[p] = "results"
    /\ seen' = [seen EXCEPT ![p].scored = scored]
    /\ notices' = notices + 1
    /\ Goto(p, "upsert")
    /\ UNCHANGED <<attempt, report, job, env, history>>

\* buildModuleSummaries and countViolations: the results, one row per module.
LoadResults(p) ==
    /\ pc[p] = "results"
    /\ seen' = [seen EXCEPT ![p].scored = scored]
    /\ Goto(p, "upsert")
    /\ UNCHANGED <<attempt, report, queue, env, history>>

Upsert(p) ==
    /\ pc[p] = "upsert"
    /\ report' = seen[p]
    /\ Goto(p, "notify")
    /\ UNCHANGED <<attempt, queue, seen, env, history>>

\* notifyCompletion: "after the report exists".
Notify(p) ==
    /\ pc[p] = "notify"
    /\ notices' = notices + 1
    /\ Goto(p, "reread")
    /\ UNCHANGED <<attempt, report, job, seen, env, history>>

\* Mutant of Reread: a job that is done is handed out again.
RereadAgain(p) ==
    /\ pc[p] = "reread" /\ p = Worker
    /\ job' = [NoJob EXCEPT !.state = "waiting"]
    /\ Done(p)
    /\ UNCHANGED <<attempt, report, notices, env, history>>

\* The row is read back: the job is done and removed, or the reader's page goes on.
Reread(p) ==
    /\ pc[p] = "reread"
    /\ \/ /\ p = Worker
          /\ job' = NoJob
          /\ Done(p)
       \/ /\ p # Worker
          /\ seen' = [seen EXCEPT ![p] = report]
          /\ Goto(p, "render")
          /\ UNCHANGED job
    /\ UNCHANGED <<attempt, report, notices, env, history>>

(***************************************************************************)
(* Failures                                                                *)
(***************************************************************************)
\* An awaited call is refused.  enqueueReport and notifyCompletion swallow it; anywhere
\* else it ends the request or the run of the job.
Refuse(p) ==
    /\ pc[p] # "idle"
    /\ faults < MaxFaults
    /\ faults' = faults + 1
    /\ \/ /\ pc[p] = "notify"
          /\ Goto(p, "reread")
          /\ UNCHANGED <<job, seen>>
       \/ /\ pc[p] # "notify"
          /\ Done(p)
          /\ job' = IF p = Worker THEN JobAfterError ELSE job
    /\ UNCHANGED <<attempt, report, notices, closes, reads, crashes, history>>

\* The server dies.  BullMQ finds the job abandoned and hands it out again, once.
Crash ==
    /\ crashes < MaxCrashes
    /\ crashes' = crashes + 1
    /\ pc' = [p \in Procs |-> "idle"]
    /\ seen' = [p \in Procs |-> NoReport]
    /\ job' = IF job.state # "active" THEN job
              ELSE [job EXCEPT !.state = IF job.stalls < MaxStalls THEN "waiting" ELSE "failed",
                               !.stalls = @ + 1, !.made = @ - 1]
    /\ UNCHANGED <<attempt, report, notices, closes, reads, faults, history>>

Generation(p) ==
    LoadSession(p) \/ LoadResults(p) \/ Upsert(p) \/ Notify(p) \/ Reread(p)

Next ==
    \/ Sit
    \/ \E f \in Finalisers : Close(f) \/ EnqueueReport(f)
    \/ JobStarts
    \/ \E r \in Readers : OpenReport(r) \/ Regenerate(r) \/ Look(r) \/ Render(r)
    \/ \E p \in Procs : Generation(p) \/ Refuse(p)
    \/ Crash

Spec == Init /\ [][Next]_vars

\* An awaited call returns, and BullMQ hands out a waiting job.
Fairness ==
    /\ \A f \in Finalisers : WF_vars(EnqueueReport(f))
    /\ WF_vars(JobStarts)
    /\ \A r \in Readers : WF_vars(Look(r) \/ Render(r))
    /\ \A p \in Procs : WF_vars(Generation(p))

FairSpec == Spec /\ Fairness

(***************************************************************************)
(* What must hold                                                          *)
(***************************************************************************)
\* finalize closes the row last and queues the job after it, and generate reads the row
\* first: unless somebody asked while the attempt was open, a report on file, and any
\* report a page is given, is of the whole closed attempt, however often it is rebuilt,
\* retried or raced for.
ReportsAreWhole ==
    ~early => \A r \in shown \cup ({report} \ {NoReport}) : Complete(r)

\* The recipient is told when there is a report to read ("so the email never links to a
\* page that is not ready yet"), and at most once for each finalize that got past its test,
\* read, failure and crash: a job that is retried, raced for by a page or queued beside one
\* on file tells nobody twice of its own accord.
NoticesAreAccounted ==
    /\ notices > 0 => report # NoReport
    /\ notices <= closes + reads + faults + crashes

\* "A lost job degrades to a slower page rather than a missing report": after the close
\* either a whole report is on file, or the job was never queued or has failed
\* three times, which the first read repairs: it is given a whole report (ReportsAreWhole).
Unqueued ==
    /\ job.state = "none" /\ report = NoReport
    /\ \A f \in Finalisers : pc[f] = "idle"

CloseIsReported ==
    phase = "closed" /\ ~early ~> Unqueued \/ job.state = "failed" \/ Complete(report)

==============================================================================
