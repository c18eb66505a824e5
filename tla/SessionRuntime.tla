--------------------------- MODULE SessionRuntime ---------------------------
(***************************************************************************)
(* One candidate's attempt, from POST /sessions/start to the queued report *)
(* (backend/src/sessions/sessions.service.ts).                             *)
(*                                                                         *)
(* Every request is a read-modify-write with no lock: it copies the live   *)
(* state out of Redis, works on the copy across several awaited database   *)
(* calls, and writes the copy back.  Requests from several browser tabs,   *)
(* the BullMQ auto-submit worker and the boot-time sweeper all do so.      *)
(* Each is a process with a program counter; one action is what runs       *)
(* between two awaited calls to a store another process can see.           *)
(***************************************************************************)
EXTENDS Naturals, FiniteSets

CONSTANTS
    Tabs,           \* the browser contexts of the candidate
    Worker,         \* the auto-submit queue worker
    Sweeper,        \* the sweep that runs once after each boot
    N,              \* the number of modules, taken in the order 1..N
    Questions,      \* the question pool
    NoQuestion,     \* "nothing on screen"
    ModuleOf,       \* the module of each question
    QuestionCount,  \* the fixed length of each module
    TimeLimit,      \* each module's clock, in ticks
    Intermission,   \* INTERMISSION_SECONDS_PER_MODULE
    StartGrace,     \* START_GRACE_SECONDS
    AnswerGrace,    \* ANSWER_GRACE_MS
    SweepGrace,     \* GRACE_MS of the sweeper
    BlobGrace,      \* GRACE_SECONDS of the Redis store
    MaxAttempts     \* attempts of the auto-submit job

CONSTANTS           \* bounds of the exploration, not of the program
    Horizon,        \* the last tick
    OpenBy,         \* no start or Begin request is in flight after this tick
    LastRequest,    \* no request of the candidate is in flight after this tick
    MaxFaults,      \* failed calls and crashes
    MaxEvictions,   \* times Redis loses the live state early
    MayRevoke,      \* whether the recruiter may withdraw the invitation
    MaySleep        \* whether the idle instance may go to sleep and boot again

Modules == 1 .. N
Procs == Tabs \cup {Worker, Sweeper}

\* createSession, beginSessionClock: the sum of the modules' limits and intermissions.
Budget ==
    LET total[k \in 0 .. N] ==
            IF k = 0 THEN 0 ELSE total[k - 1] + TimeLimit[k] + Intermission
    IN  total[N]

ASSUME ProcsAssumption ==
    /\ Worker \notin Tabs
    /\ Sweeper \notin Tabs
    /\ Worker # Sweeper

ASSUME ModulesAssumption ==
    /\ N \in Nat \ {0}
    /\ QuestionCount \in [Modules -> Nat \ {0}]
    /\ TimeLimit \in [Modules -> Nat \ {0}]

ASSUME QuestionsAssumption ==
    /\ IsFiniteSet(Questions)
    /\ NoQuestion \notin Questions
    /\ ModuleOf \in [Questions -> Modules]

ASSUME TimesAssumption ==
    /\ {Intermission, StartGrace, AnswerGrace, SweepGrace, BlobGrace} \subseteq Nat
    /\ {MaxAttempts, Horizon, OpenBy, LastRequest, MaxFaults, MaxEvictions} \subseteq Nat
    /\ {MayRevoke, MaySleep} \subseteq BOOLEAN

VARIABLES
    \* Postgres
    invitation,     \* invitations.status
    row,            \* the assessment_sessions row
    responses,      \* the responses row of each question
    results,        \* the session_module_results row of each module
    \* Redis
    blob,           \* the JSON state under session:{id}
    \* BullMQ
    job,            \* the auto-submit job of this session
    reportQueued,   \* whether the report-generation job was ever added
    \* the requests in flight: program counter and local variables
    pc, op, st, ask, out, cur,
    \* the environment
    now, faults, evictions, sweepDue,
    \* history
    shown,          \* every question that was ever put on screen
    lost            \* whether Redis ever lost the live state

db == <<invitation, row, responses, results>>
queue == <<job, reportQueued>>
locals == <<op, ask, out, cur>>
env == <<now, faults, evictions, sweepDue>>
history == <<shown, lost>>
vars == <<db, blob, queue, pc, locals, st, env, history>>

(***************************************************************************)
(* Types                                                                   *)
(***************************************************************************)
Closed == {"completed", "auto_submitted"}

SessionState ==
    [status: {"absent", "in_progress", "finished"},
     idx: 1 .. N + 1,
     served: Questions \cup {NoQuestion},
     expiresAt: Nat,
     mstat: [Modules -> {"pending", "in_progress", "completed"}],
     seen: SUBSET Questions,
     answered: [Modules -> Nat],
     deadline: [Modules -> Nat]]

Labels ==
    {"idle", "start_find", "create_row", "create_invite", "create_save",
     "create_job", "load_row", "resume_blob", "replay_answers",
     "replay_results", "replay_save", "begin", "begin_row", "begin_unjob",
     "begin_job", "begin_save", "submit", "insert", "submit_save", "advance",
     "advance_save", "serve_save", "close_insert", "close_result",
     "auto_row", "finalize", "fin_row", "fin_invite", "fin_unjob",
     "fin_report"}

Operations == {"none", "start", "current", "begin", "submit", "auto"}

TypeOK ==
    /\ invitation \in {"pending", "in_progress", "completed", "revoked"}
    /\ row \in [status: {"none", "in_progress"} \cup Closed, expiresAt: Nat]
    /\ responses \in [Questions -> {"absent", "answered", "unanswered"}]
    /\ results \in [Modules -> [state: {"absent", "open", "closed"}, count: Nat]]
    /\ blob \in SessionState
    /\ job \in [state: {"none", "delayed", "active", "failed"}, due: Nat, tries: Nat]
    /\ reportQueued \in BOOLEAN
    /\ pc \in [Procs -> Labels]
    /\ op \in [Procs -> Operations]
    /\ st \in [Procs -> SessionState]
    /\ ask \in [Procs -> Questions \cup {NoQuestion}]
    /\ out \in [Procs -> Closed]
    /\ cur \in [Procs -> 1 .. N + 1]
    /\ now \in Nat
    /\ faults \in Nat
    /\ evictions \in Nat
    /\ sweepDue \in BOOLEAN
    /\ shown \subseteq Questions
    /\ lost \in BOOLEAN

\* createSession's new state; moduleState.deadlineAt = null is the 0 of a pending module.
FreshState(status, expiresAt) ==
    [status |-> status, idx |-> 1, served |-> NoQuestion,
     expiresAt |-> expiresAt,
     mstat |-> [m \in Modules |-> "pending"], seen |-> {},
     answered |-> [m \in Modules |-> 0],
     deadline |-> [m \in Modules |-> 0]]

Absent == FreshState("absent", 0)
NoJob == [state |-> "none", due |-> 0, tries |-> 0]

Init ==
    /\ invitation = "pending"
    /\ row = [status |-> "none", expiresAt |-> 0]
    /\ responses = [q \in Questions |-> "absent"]
    /\ results = [m \in Modules |-> [state |-> "absent", count |-> 0]]
    /\ blob = Absent
    /\ job = NoJob
    /\ reportQueued = FALSE
    /\ pc = [p \in Procs |-> "idle"]
    /\ op = [p \in Procs |-> "none"]
    /\ st = [p \in Procs |-> Absent]
    /\ ask = [p \in Procs |-> NoQuestion]
    /\ out = [p \in Procs |-> "completed"]
    /\ cur = [p \in Procs |-> 1]
    /\ now = 0
    /\ faults = 0
    /\ evictions = 0
    /\ sweepDue = FALSE
    /\ shown = {}
    /\ lost = FALSE

(***************************************************************************)
(* Requests as processes                                                   *)
(***************************************************************************)
Goto(p, label) == pc' = [pc EXCEPT ![p] = label]

\* Continue at a label with a changed working copy.
Work(p, s, label) ==
    /\ st' = [st EXCEPT ![p] = s]
    /\ Goto(p, label)

\* The request is over, its working copy gone.
Forget(p) ==
    /\ pc' = [pc EXCEPT ![p] = "idle"]
    /\ st' = [st EXCEPT ![p] = Absent]
    /\ op' = [op EXCEPT ![p] = "none"]
    /\ ask' = [ask EXCEPT ![p] = NoQuestion]
    /\ out' = [out EXCEPT ![p] = "completed"]
    /\ cur' = [cur EXCEPT ![p] = 1]

\* A handler that returns normally; for the worker, BullMQ drops its finished job.
End(p) ==
    /\ Forget(p)
    /\ job' = IF p = Worker THEN NoJob ELSE job

\* Where each entry point goes once it holds the state.
Entry(o) ==
    CASE o = "begin"  -> "begin"
      [] o = "submit" -> "submit"
      [] o = "auto"   -> "finalize"
      [] OTHER        -> "advance"

\* queue.add under a fixed jobId: an existing job of any state is kept as it is.
JobAfterAdd(due) ==
    IF job.state = "none" THEN [state |-> "delayed", due |-> due, tries |-> 0]
                          ELSE job

\* queue.remove: refused while a worker holds the job, and the refusal is swallowed.
JobAfterRemove == IF job.state = "active" THEN job ELSE NoJob

(***************************************************************************)
(* start, createSession                                                    *)
(***************************************************************************)

\* The invitation is read, checked and found usable.
StartCheck(p) ==
    /\ pc[p] = "idle"
    /\ invitation # "revoked"
    /\ now <= OpenBy
    /\ now <= LastRequest
    /\ op' = [op EXCEPT ![p] = "start"]
    /\ Goto(p, "start_find")
    /\ UNCHANGED <<db, blob, queue, ask, out, cur, st, env, history>>

\* The session lookup of start, of its unique-violation handler, and resume's first test.
StartFind(p) ==
    /\ pc[p] = "start_find"
    /\ \/ /\ row.status = "none"
          /\ Goto(p, "create_row")
          /\ UNCHANGED <<locals, st, job>>
       \/ /\ row.status \in Closed
          /\ End(p)
       \/ /\ row.status = "in_progress"
          /\ Work(p, FreshState("in_progress", row.expiresAt), "resume_blob")
          /\ UNCHANGED <<locals, job>>
    /\ UNCHANGED <<db, blob, reportQueued, env, history>>

\* One insert wins the unique invitationId; the loser looks the winner up.
CreateRow(p) ==
    /\ pc[p] = "create_row"
    /\ \/ /\ row.status = "none"
          /\ LET expiresAt == now + Budget + StartGrace
             IN  /\ row' = [status |-> "in_progress", expiresAt |-> expiresAt]
                 /\ Work(p, FreshState("in_progress", expiresAt), "create_invite")
       \/ /\ row.status # "none"
          /\ Goto(p, "start_find")
          /\ UNCHANGED <<row, st>>
    /\ UNCHANGED <<invitation, responses, results, blob, queue, locals, env, history>>

CreateInvite(p) ==
    /\ pc[p] = "create_invite"
    /\ invitation' = "in_progress"
    /\ Goto(p, "create_save")
    /\ UNCHANGED <<row, responses, results, blob, queue, locals, st, env, history>>

CreateSave(p) ==
    /\ pc[p] = "create_save"
    /\ blob' = st[p]
    /\ Goto(p, "create_job")
    /\ UNCHANGED <<db, queue, locals, st, env, history>>

CreateJob(p) ==
    /\ pc[p] = "create_job"
    /\ job' = JobAfterAdd(now + Budget + StartGrace)
    /\ Goto(p, "advance")
    /\ UNCHANGED <<db, blob, reportQueued, locals, st, env, history>>

(***************************************************************************)
(* load, resume, rehydrate                                                 *)
(***************************************************************************)

\* currentStep, startCurrentModule and submitAnswer open with load: Redis first.
\* A tab can only submit a question that was once put on its screen.
Load(p, o, q) ==
    /\ pc[p] = "idle"
    /\ row.status # "none"
    /\ now <= LastRequest
    /\ o = "begin" => now <= OpenBy
    /\ IF o = "submit" THEN q \in shown ELSE q = NoQuestion
    /\ op' = [op EXCEPT ![p] = o]
    /\ ask' = [ask EXCEPT ![p] = q]
    /\ IF blob.status # "absent" THEN Work(p, blob, Entry(o))
                                 ELSE Goto(p, "load_row") /\ UNCHANGED st
    /\ UNCHANGED <<db, blob, queue, out, cur, env, history>>

\* load's fallback reads the row whatever its status.
LoadRow(p) ==
    /\ pc[p] = "load_row"
    /\ LET status == IF row.status = "in_progress" THEN "in_progress" ELSE "finished"
       IN  Work(p, FreshState(status, row.expiresAt), "replay_answers")
    /\ UNCHANGED <<db, blob, queue, locals, env, history>>

\* resume and autoSubmitSession: store.get ?? rehydrate(the row read before).
ResumeBlob(p) ==
    /\ pc[p] = "resume_blob"
    /\ IF blob.status # "absent" THEN Work(p, blob, Entry(op[p]))
                                 ELSE Goto(p, "replay_answers") /\ UNCHANGED st
    /\ UNCHANGED <<db, blob, queue, locals, env, history>>

AnsweredIn(m) == {q \in Questions : ModuleOf[q] = m /\ responses[q] # "absent"}

\* rehydrate replays the answers: a module with an answer is in progress again.
ReplayAnswers(p) ==
    /\ pc[p] = "replay_answers"
    /\ Work(p,
            [st[p] EXCEPT
               !.seen = {q \in Questions : responses[q] # "absent"},
               !.answered = [m \in Modules |-> Cardinality(AnsweredIn(m))],
               !.mstat = [m \in Modules |->
                            IF AnsweredIn(m) # {} THEN "in_progress" ELSE "pending"]],
            "replay_results")
    /\ UNCHANGED <<db, blob, queue, locals, env, history>>

\* Then the results: a module with a completedAt is finished, the others' clocks
\* restart, and the attempt resumes at its first unfinished module.
ReplayResults(p) ==
    /\ pc[p] = "replay_results"
    /\ LET s == st[p]
           mstat == [m \in Modules |->
                       IF results[m].state = "closed" THEN "completed" ELSE s.mstat[m]]
       IN  \E i \in 1 .. N + 1 :
             /\ \A m \in Modules : m < i => mstat[m] = "completed"
             /\ i \in Modules => mstat[i] # "completed"
             /\ Work(p,
                     [s EXCEPT
                        !.mstat = mstat,
                        !.idx = i,
                        !.deadline = [m \in Modules |->
                            IF mstat[m] = "in_progress" THEN now + TimeLimit[m] ELSE 0]],
                     "replay_save")
    /\ UNCHANGED <<db, blob, queue, locals, env, history>>

ReplaySave(p) ==
    /\ pc[p] = "replay_save"
    /\ blob' = st[p]
    /\ Goto(p, Entry(op[p]))
    /\ UNCHANGED <<db, queue, locals, st, env, history>>

(***************************************************************************)
(* startCurrentModule, beginSessionClock                                   *)
(***************************************************************************)

\* Mutant of IsFirstToStart: every module that starts restarts the session's clock.
AnyToStart(s) == TRUE

\* Read before the module's status changes: nothing has started yet.
IsFirstToStart(s) == \A m \in Modules : s.mstat[m] = "pending"

\* Only a pending module is started; the first one to start also starts the
\* session's own clock.  Neither the session's status nor its deadline is tested.
Begin(p) ==
    /\ pc[p] = "begin"
    /\ LET s == st[p]
           m == s.idx
       IN  IF m \in Modules /\ s.mstat[m] = "pending"
           THEN LET started == [s EXCEPT !.mstat[m] = "in_progress",
                                         !.deadline[m] = now + TimeLimit[m]]
                IN  IF IsFirstToStart(s)
                    THEN Work(p, [started EXCEPT !.expiresAt = now + Budget], "begin_row")
                    ELSE Work(p, started, "begin_save")
           ELSE Goto(p, "advance") /\ UNCHANGED st
    /\ UNCHANGED <<db, blob, queue, locals, env, history>>

BeginRow(p) ==
    /\ pc[p] = "begin_row"
    /\ row' = [row EXCEPT !.expiresAt = st[p].expiresAt]
    /\ Goto(p, "begin_unjob")
    /\ UNCHANGED <<invitation, responses, results, blob, queue, locals, st, env, history>>

BeginUnjob(p) ==
    /\ pc[p] = "begin_unjob"
    /\ job' = JobAfterRemove
    /\ Goto(p, "begin_job")
    /\ UNCHANGED <<db, blob, reportQueued, locals, st, env, history>>

\* Mutant of BeginJob: the old job is removed and no new one added.
BeginJobSkipped(p) ==
    /\ pc[p] = "begin_job"
    /\ Goto(p, "begin_save")
    /\ UNCHANGED <<db, blob, queue, locals, st, env, history>>

BeginJob(p) ==
    /\ pc[p] = "begin_job"
    /\ job' = JobAfterAdd(now + Budget)
    /\ Goto(p, "begin_save")
    /\ UNCHANGED <<db, blob, reportQueued, locals, st, env, history>>

BeginSave(p) ==
    /\ pc[p] = "begin_save"
    /\ blob' = st[p]
    /\ Goto(p, "advance")
    /\ UNCHANGED <<db, queue, locals, st, env, history>>

(***************************************************************************)
(* submitAnswer, applyAnswer                                               *)
(***************************************************************************)

\* The answer is taken: its question is the one on screen, in the open module, in time.
Acceptable(s, q) ==
    /\ s.served # NoQuestion
    /\ s.served = q
    /\ ModuleOf[q] = s.idx

InTime(s) == now <= s.deadline[s.idx] + AnswerGrace

\* Mutant of Answered: the answer is never counted.
AnsweredUncounted(s) == [s EXCEPT !.served = NoQuestion]

\* applyAnswer on the working copy: the answer counted, the screen empty.
Answered(s) ==
    [s EXCEPT !.answered[ModuleOf[s.served]] = @ + 1, !.served = NoQuestion]

Submit(p) ==
    /\ pc[p] = "submit"
    /\ LET s == st[p]
       IN  \/ /\ s.status = "finished"
              /\ End(p)
           \/ /\ s.status # "finished"
              /\ now >= s.expiresAt
              /\ Goto(p, "finalize")
              /\ out' = [out EXCEPT ![p] = "auto_submitted"]
              /\ UNCHANGED <<op, ask, cur, st, job>>
           \/ /\ s.status # "finished"
              /\ now < s.expiresAt
              /\ ~Acceptable(s, ask[p])
              /\ End(p)
           \/ /\ s.status # "finished"
              /\ now < s.expiresAt
              /\ Acceptable(s, ask[p])
              /\ Goto(p, IF InTime(s) THEN "insert" ELSE "advance")
              /\ UNCHANGED <<locals, st, job>>
    /\ UNCHANGED <<db, blob, reportQueued, env, history>>

\* The insert behind a submitted answer, refused if the question has a row already.
Insert(p) ==
    /\ pc[p] = "insert"
    /\ LET q == st[p].served
       IN  \/ /\ responses[q] = "absent"
              /\ responses' = [responses EXCEPT ![q] = "answered"]
              /\ Work(p, Answered(st[p]), "submit_save")
              /\ UNCHANGED <<locals, job>>
           \/ /\ responses[q] # "absent"
              /\ End(p)
              /\ UNCHANGED responses
    /\ UNCHANGED <<invitation, row, results, blob, reportQueued, env, history>>

SubmitSave(p) ==
    /\ pc[p] = "submit_save"
    /\ blob' = st[p]
    /\ Goto(p, "advance")
    /\ UNCHANGED <<db, queue, locals, st, env, history>>

(***************************************************************************)
(* advance, completeModule                                                 *)
(***************************************************************************)

Advancing(p) ==
    /\ pc[p] = "advance"
    /\ st[p].status # "finished"

\* Past the finished and deadline tests, in a module.
InModule(p) ==
    /\ Advancing(p)
    /\ now < st[p].expiresAt
    /\ st[p].idx \in Modules

InOpenModule(p) ==
    /\ InModule(p)
    /\ st[p].mstat[st[p].idx] = "in_progress"

ModuleTimedOut(s) == now >= s.deadline[s.idx]
\* Mutant of OnScreen: a refresh asks the engine again.
NeverOnScreen(s) == FALSE

OnScreen(s) == s.served # NoQuestion /\ ModuleOf[s.served] = s.idx
Eligible(s) == {q \in Questions \ s.seen : ModuleOf[q] = s.idx}

\* Mutant of ModuleOver: the fixed length is off by one.
ModuleOverLate(s) ==
    \/ ModuleTimedOut(s)
    \/ s.answered[s.idx] > QuestionCount[s.idx]
    \/ Eligible(s) = {}

\* The stop decisions of the engine: the clock, the fixed length, an empty pool.
ModuleOver(s) ==
    \/ ModuleTimedOut(s)
    \/ s.answered[s.idx] >= QuestionCount[s.idx]
    \/ Eligible(s) = {}

Finalise(p, status) ==
    /\ Goto(p, "finalize")
    /\ out' = [out EXCEPT ![p] = status]
    /\ UNCHANGED <<op, ask, cur, st, job>>

\* completed, module_intro or the question already on screen: nothing is written.
AdvanceReply(p) ==
    /\ pc[p] = "advance"
    /\ \/ st[p].status = "finished"
       \/ InModule(p) /\ st[p].mstat[st[p].idx] = "pending"
       \/ InOpenModule(p) /\ OnScreen(st[p]) /\ ~ModuleTimedOut(st[p])
    /\ End(p)
    /\ UNCHANGED <<db, blob, reportQueued, env, history>>

AdvanceFinalise(p) ==
    /\ Advancing(p)
    /\ \/ /\ now >= st[p].expiresAt
          /\ Finalise(p, "auto_submitted")
       \/ /\ now < st[p].expiresAt
          /\ st[p].idx = N + 1
          /\ Finalise(p, "completed")
    /\ UNCHANGED <<db, blob, reportQueued, env, history>>

AdvancePastModule(p) ==
    /\ InModule(p)
    /\ st[p].mstat[st[p].idx] = "completed"
    /\ Work(p, [st[p] EXCEPT !.idx = @ + 1], "advance_save")
    /\ UNCHANGED <<db, blob, queue, locals, env, history>>

\* completeModule first scores the question the clock ran out on.
AdvanceCloseModule(p) ==
    /\ InOpenModule(p)
    /\ ~(OnScreen(st[p]) /\ ~ModuleTimedOut(st[p]))
    /\ ModuleOver(st[p])
    /\ Goto(p, IF OnScreen(st[p]) THEN "close_insert" ELSE "close_result")
    /\ UNCHANGED <<db, blob, queue, locals, st, env, history>>

AdvanceServe(p) ==
    /\ InOpenModule(p)
    /\ ~(OnScreen(st[p]) /\ ~ModuleTimedOut(st[p]))
    /\ ~ModuleOver(st[p])
    /\ \E q \in Eligible(st[p]) :
         Work(p, [st[p] EXCEPT !.served = q, !.seen = @ \cup {q}], "serve_save")
    /\ UNCHANGED <<db, blob, queue, locals, env, history>>

ServeSave(p) ==
    /\ pc[p] = "serve_save"
    /\ blob' = st[p]
    /\ shown' = shown \cup {st[p].served}
    /\ End(p)
    /\ UNCHANGED <<db, reportQueued, env, lost>>

AdvanceSave(p) ==
    /\ pc[p] = "advance_save"
    /\ blob' = st[p]
    /\ Goto(p, "advance")
    /\ UNCHANGED <<db, queue, locals, st, env, history>>

CloseInsert(p) ==
    /\ pc[p] = "close_insert"
    /\ LET q == st[p].served
       IN  \/ /\ responses[q] = "absent"
              /\ responses' = [responses EXCEPT ![q] = "unanswered"]
              /\ Work(p, Answered(st[p]), "close_result")
              /\ UNCHANGED <<locals, job>>
           \/ /\ responses[q] # "absent"
              /\ End(p)
              /\ UNCHANGED responses
    /\ UNCHANGED <<invitation, row, results, blob, reportQueued, env, history>>

\* Mutants of ResultRow: the question on screen is counted; the row is written before the
\* module is completed.
ResultRowWithScreen(s, m) ==
    [state |-> IF s.mstat[m] = "completed" THEN "closed" ELSE "open",
     count |-> s.answered[m] + IF s.served = NoQuestion THEN 0 ELSE 1]
ResultRowOpen(s, m) == [state |-> "open", count |-> s.answered[m]]

\* persistModuleResult: completedAt is set exactly for a module that is completed.
ResultRow(s, m) ==
    [state |-> IF s.mstat[m] = "completed" THEN "closed" ELSE "open",
     count |-> s.answered[m]]

CloseResult(p) ==
    /\ pc[p] = "close_result"
    /\ LET m == st[p].idx
           s == [st[p] EXCEPT !.mstat[m] = "completed"]
       IN  /\ results' = [results EXCEPT ![m] = ResultRow(s, m)]
           /\ Work(p, [s EXCEPT !.idx = @ + 1], "advance_save")
    /\ UNCHANGED <<invitation, row, responses, blob, queue, locals, env, history>>

(***************************************************************************)
(* finalize                                                                *)
(***************************************************************************)
Finalising(p) ==
    /\ pc[p] = "finalize"
    /\ st[p].status # "finished"

\* A state already finished is left alone: the test is on the request's own copy.
FinaliseNoop(p) ==
    /\ pc[p] = "finalize"
    /\ st[p].status = "finished"
    /\ End(p)
    /\ UNCHANGED <<db, blob, reportQueued, env, history>>

\* One upsert per configured module, reached or not; an open module is closed first.
FinaliseResult(p) ==
    /\ Finalising(p)
    /\ cur[p] \in Modules
    /\ LET m == cur[p]
           s == IF st[p].mstat[m] = "in_progress"
                THEN [st[p] EXCEPT !.mstat[m] = "completed"] ELSE st[p]
       IN  /\ results' = [results EXCEPT ![m] = ResultRow(s, m)]
           /\ st' = [st EXCEPT ![p] = s]
    /\ cur' = [cur EXCEPT ![p] = @ + 1]
    /\ UNCHANGED <<invitation, row, responses, blob, queue, pc, op, ask, out, env, history>>

\* Mutant of FinaliseSave: the last module's result is not waited for.
FinaliseSaveEarly(p) ==
    /\ Finalising(p)
    /\ cur[p] >= N
    /\ LET s == [st[p] EXCEPT !.status = "finished", !.served = NoQuestion]
       IN  /\ blob' = s
           /\ Work(p, s, "fin_row")
    /\ UNCHANGED <<db, queue, locals, env, history>>

\* The live state is written as finished before the session row is.
FinaliseSave(p) ==
    /\ Finalising(p)
    /\ cur[p] = N + 1
    /\ LET s == [st[p] EXCEPT !.status = "finished", !.served = NoQuestion]
       IN  /\ blob' = s
           /\ Work(p, s, "fin_row")
    /\ UNCHANGED <<db, queue, locals, env, history>>

FinaliseRow(p) ==
    /\ pc[p] = "fin_row"
    /\ row' = [row EXCEPT !.status = out[p]]
    /\ Goto(p, "fin_invite")
    /\ UNCHANGED <<invitation, responses, results, blob, queue, locals, st, env, history>>

\* Mutant of FinaliseInvite: the invitation is not told.
FinaliseInviteSkipped(p) ==
    /\ pc[p] = "fin_invite"
    /\ Goto(p, "fin_unjob")
    /\ UNCHANGED <<db, blob, queue, locals, st, env, history>>

FinaliseInvite(p) ==
    /\ pc[p] = "fin_invite"
    /\ invitation' = "completed"
    /\ Goto(p, "fin_unjob")
    /\ UNCHANGED <<row, responses, results, blob, queue, locals, st, env, history>>

FinaliseUnjob(p) ==
    /\ pc[p] = "fin_unjob"
    /\ job' = JobAfterRemove
    /\ Goto(p, "fin_report")
    /\ UNCHANGED <<db, blob, reportQueued, locals, st, env, history>>

FinaliseReport(p) ==
    /\ pc[p] = "fin_report"
    /\ reportQueued' = TRUE
    /\ End(p)
    /\ UNCHANGED <<db, blob, env, history>>

(***************************************************************************)
(* The auto-submit worker, the sweeper, autoSubmitSession                  *)
(***************************************************************************)
StartAuto(p) ==
    /\ pc[p] = "idle"
    /\ Goto(p, "auto_row")
    /\ op' = [op EXCEPT ![p] = "auto"]
    /\ out' = [out EXCEPT ![p] = "auto_submitted"]

\* The delayed job comes due and the worker takes it.
JobFires ==
    /\ job.state = "delayed"
    /\ job.due <= now
    /\ StartAuto(Worker)
    /\ job' = [job EXCEPT !.state = "active"]
    /\ UNCHANGED <<db, blob, reportQueued, ask, cur, st, env, history>>

\* Once after each boot, an attempt overdue by the grace period is closed.
Sweep ==
    /\ sweepDue
    /\ pc[Sweeper] = "idle"
    /\ sweepDue' = FALSE
    /\ IF row.status = "in_progress" /\ row.expiresAt + SweepGrace <= now
       THEN StartAuto(Sweeper)
       ELSE UNCHANGED <<pc, op, out>>
    /\ UNCHANGED <<db, blob, queue, ask, cur, st, now, faults, evictions, history>>

\* Mutant of AutoRow: the job tests for a closed row the wrong way round.
AutoRowInverted(p) ==
    /\ pc[p] = "auto_row"
    /\ \/ /\ row.status = "in_progress"
          /\ End(p)
       \/ /\ row.status # "in_progress"
          /\ Work(p, FreshState("finished", row.expiresAt), "resume_blob")
          /\ UNCHANGED <<locals, job>>
    /\ UNCHANGED <<db, blob, reportQueued, env, history>>

AutoRow(p) ==
    /\ pc[p] = "auto_row"
    /\ \/ /\ row.status # "in_progress"
          /\ End(p)
       \/ /\ row.status = "in_progress"
          /\ Work(p, FreshState("in_progress", row.expiresAt), "resume_blob")
          /\ UNCHANGED <<locals, job>>
    /\ UNCHANGED <<db, blob, reportQueued, env, history>>

(***************************************************************************)
(* The environment: failures, restarts, evictions, the recruiter, time     *)
(***************************************************************************)

\* A queue call whose rejection is caught and swallowed, and what comes after it.
AfterSwallowed ==
    [create_job |-> "advance", begin_unjob |-> "begin_job",
     begin_job |-> "begin_save", fin_unjob |-> "fin_report"]

Swallow(p) ==
    /\ faults < MaxFaults
    /\ faults' = faults + 1
    /\ \/ /\ pc[p] \in DOMAIN AfterSwallowed
          /\ Goto(p, AfterSwallowed[pc[p]])
          /\ UNCHANGED <<locals, st, job>>
       \/ /\ pc[p] = "fin_report"
          /\ End(p)
    /\ UNCHANGED <<db, blob, reportQueued, now, evictions, sweepDue, history>>

\* Steps that make no awaited call cannot reject.
CanReject(p) ==
    pc[p] \notin {"idle", "begin", "submit", "advance", "fin_report"}
                    \cup DOMAIN AfterSwallowed

\* A failed attempt of the job is retried until its attempts are spent.
JobAfterFailure ==
    IF job.tries + 1 < MaxAttempts
    THEN [state |-> "delayed", due |-> now, tries |-> job.tries + 1]
    ELSE [state |-> "failed", due |-> now, tries |-> job.tries + 1]

\* Any other awaited call rejects: the request ends with what it wrote so far.
Reject(p) ==
    /\ faults < MaxFaults
    /\ faults' = faults + 1
    /\ CanReject(p)
    /\ Forget(p)
    /\ job' = IF p = Worker THEN JobAfterFailure ELSE job
    /\ UNCHANGED <<db, blob, reportQueued, now, evictions, sweepDue, history>>

\* The instance goes away, asleep or crashed with requests in flight, and boots
\* again.  BullMQ hands a job its dead worker held to a worker again.
Restart ==
    LET quiet == \A p \in Procs : pc[p] = "idle"
    IN  /\ ~(quiet /\ sweepDue)
        /\ IF quiet THEN MaySleep /\ UNCHANGED faults
                    ELSE faults < MaxFaults /\ faults' = faults + 1
        /\ pc' = [p \in Procs |-> "idle"]
        /\ st' = [p \in Procs |-> Absent]
        /\ op' = [p \in Procs |-> "none"]
        /\ ask' = [p \in Procs |-> NoQuestion]
        /\ out' = [p \in Procs |-> "completed"]
        /\ cur' = [p \in Procs |-> 1]
        /\ job' = IF job.state = "active" THEN [job EXCEPT !.state = "delayed"] ELSE job
        /\ sweepDue' = TRUE
        /\ UNCHANGED <<db, blob, reportQueued, now, evictions, history>>

\* Redis loses the state early: a flush, an eviction, a restart without persistence.
Evict ==
    /\ blob.status # "absent"
    /\ evictions < MaxEvictions
    /\ evictions' = evictions + 1
    /\ blob' = Absent
    /\ lost' = TRUE
    /\ UNCHANGED <<db, queue, pc, locals, st, now, faults, sweepDue, shown>>

\* The state's TTL runs out, its grace after the deadline.
Lapse ==
    /\ blob.status # "absent"
    /\ blob.expiresAt + BlobGrace <= now
    /\ blob' = Absent
    /\ lost' = TRUE
    /\ UNCHANGED <<db, queue, pc, locals, st, env, shown>>

\* The recruiter withdraws the invitation, at any time and unconditionally.
Revoke ==
    /\ MayRevoke
    /\ invitation # "revoked"
    /\ invitation' = "revoked"
    /\ UNCHANGED <<row, responses, results, blob, queue, pc, locals, st, env, history>>

Tick ==
    /\ now < Horizon
    /\ \A p \in Tabs :
          /\ op[p] \in {"start", "begin"} => now < OpenBy
          /\ op[p] # "none" => now < LastRequest
    /\ now' = now + 1
    /\ UNCHANGED <<db, blob, queue, pc, locals, st, faults, evictions, sweepDue, history>>

(***************************************************************************)
(* The specification                                                       *)
(***************************************************************************)

\* What a process does once it has been started: the code between two awaited calls.
Step(p) ==
    \/ StartFind(p) \/ CreateRow(p) \/ CreateInvite(p) \/ CreateSave(p) \/ CreateJob(p)
    \/ LoadRow(p) \/ ResumeBlob(p) \/ ReplayAnswers(p) \/ ReplayResults(p) \/ ReplaySave(p)
    \/ Begin(p) \/ BeginRow(p) \/ BeginUnjob(p) \/ BeginJob(p) \/ BeginSave(p)
    \/ Submit(p) \/ Insert(p) \/ SubmitSave(p)
    \/ AdvanceReply(p) \/ AdvanceFinalise(p) \/ AdvancePastModule(p)
    \/ AdvanceCloseModule(p) \/ AdvanceServe(p) \/ ServeSave(p) \/ AdvanceSave(p)
    \/ CloseInsert(p) \/ CloseResult(p)
    \/ FinaliseNoop(p) \/ FinaliseResult(p) \/ FinaliseSave(p) \/ FinaliseRow(p)
    \/ FinaliseInvite(p) \/ FinaliseUnjob(p) \/ FinaliseReport(p)
    \/ AutoRow(p)

\* A request arrives from a tab.
Request(p) ==
    \/ StartCheck(p)
    \/ \E o \in {"current", "begin", "submit"}, q \in Questions \cup {NoQuestion} :
         Load(p, o, q)

Failure(p) == Swallow(p) \/ Reject(p)

Environment == Restart \/ Evict \/ Lapse \/ Revoke \/ Tick

\* Labels whose code awaits nothing: it runs to its next await before anything else.
Synchronous == {"begin", "submit", "advance"}
Running == {p \in Procs : pc[p] \in Synchronous}

Next ==
    \/ \E p \in Procs : Running \subseteq {p} /\ Step(p)
    \/ /\ Running = {}
       /\ \/ \E p \in Tabs : Request(p)
          \/ \E p \in Procs : Failure(p)
          \/ JobFires
          \/ Sweep
          \/ Environment

Spec == Init /\ [][Next]_vars

==============================================================================
