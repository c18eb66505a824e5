--------------------------- MODULE OneTab_proofs ---------------------------
(***************************************************************************)
(* Theorems of SessionRuntime for the candidate with one tab, beside the   *)
(* worker, the sweeper, the clock and Redis, for any number of modules and *)
(* questions, any lengths and any times, a first Begin at any time         *)
(* included.  One hypothesis stands in every theorem: OneTab, that there   *)
(* is one tab.  The properties speak of an attempt whose opening neither   *)
(* the worker nor the sweeper has overtaken.                               *)
(***************************************************************************)
EXTENDS SessionRuntime_proofs, OneTabSession

(***************************************************************************)
(* What a step does to its process's working copy                          *)
(***************************************************************************)
Keeping ==
    {"create_invite", "create_save", "create_job", "replay_save", "begin_row", "begin_unjob",
     "begin_job", "begin_save", "submit", "submit_save", "advance_save", "fin_row",
     "fin_invite", "fin_unjob"}

\* Everything but the modules' status, the counts, the screen and the place is as before.
SameHead(s, t) == t.status = s.status /\ t.expiresAt = s.expiresAt

CopyMoves(p) ==
    /\ pc'[p] = "idle" => st'[p] = Absent /\ op'[p] = "none"
    /\ pc'[p] # "idle" => op'[p] = op[p]
    /\ pc[p] \in Keeping /\ pc'[p] # "idle" => st'[p] = st[p]
    /\ pc[p] = "start_find" /\ pc'[p] = "resume_blob" =>
         row.status = "in_progress" /\ st'[p] = FreshState("in_progress", row.expiresAt)
    /\ pc[p] = "create_row" /\ pc'[p] = "create_invite" =>
         /\ row.status = "none" /\ row'.status = "in_progress"
         /\ row'.expiresAt = now + Budget + StartGrace
         /\ st'[p] = FreshState("in_progress", row'.expiresAt)
    /\ pc[p] = "load_row" =>
         \/ row.status = "in_progress" /\ st'[p] = FreshState("in_progress", row.expiresAt)
         \/ row.status # "in_progress" /\ st'[p] = FreshState("finished", row.expiresAt)
    /\ pc[p] = "auto_row" /\ pc'[p] = "resume_blob" =>
         row.status = "in_progress" /\ st'[p] = FreshState("in_progress", row.expiresAt)
    /\ pc[p] = "resume_blob" =>
         \/ blob.status # "absent" /\ st'[p] = blob /\ pc'[p] = Entry(op[p])
         \/ blob.status = "absent" /\ st'[p] = st[p] /\ pc'[p] = "replay_answers"
    /\ pc[p] = "replay_answers" =>
         /\ SameHead(st[p], st'[p])
         /\ st'[p].idx = st[p].idx /\ st'[p].served = st[p].served
         /\ st'[p].seen = {q \in Questions : responses[q] # "absent"}
         /\ \A m \in Modules :
              /\ st'[p].answered[m] = Cardinality(AnsweredIn(m))
              /\ st'[p].mstat[m] =
                   IF AnsweredIn(m) # {} THEN "in_progress" ELSE "pending"
    /\ pc[p] = "replay_results" =>
         /\ SameHead(st[p], st'[p])
         /\ st'[p].served = st[p].served /\ st'[p].seen = st[p].seen
         /\ st'[p].answered = st[p].answered
         /\ \A m \in Modules :
              /\ st'[p].mstat[m] =
                   IF results[m].state = "closed" THEN "completed" ELSE st[p].mstat[m]
              /\ m < st'[p].idx => st'[p].mstat[m] = "completed"
    /\ pc[p] = "begin" /\ pc'[p] = "advance" => st'[p] = st[p]
    /\ pc[p] = "begin" /\ pc'[p] # "advance" =>
         /\ st[p].idx \in Modules /\ st[p].mstat[st[p].idx] = "pending"
         /\ st'[p].status = st[p].status
         /\ st'[p].idx = st[p].idx /\ st'[p].served = st[p].served
         /\ st'[p].seen = st[p].seen /\ st'[p].answered = st[p].answered
         /\ st'[p].mstat = [st[p].mstat EXCEPT ![st[p].idx] = "in_progress"]
         /\ \/ /\ pc'[p] = "begin_row" /\ IsFirstToStart(st[p])
               /\ st'[p].expiresAt = now + Budget
            \/ /\ pc'[p] = "begin_save" /\ st'[p].expiresAt = st[p].expiresAt
    /\ pc[p] \in {"insert", "close_insert"} /\ pc'[p] # "idle" =>
         /\ SameHead(st[p], st'[p])
         /\ st'[p].idx = st[p].idx /\ st'[p].served = NoQuestion
         /\ st'[p].seen = st[p].seen /\ st'[p].mstat = st[p].mstat
         /\ st'[p].answered =
              [st[p].answered EXCEPT ![ModuleOf[st[p].served]] = @ + 1]
    /\ pc[p] = "advance" /\ pc'[p] \in {"finalize", "close_insert", "close_result"} =>
         st'[p] = st[p]
    /\ pc[p] = "advance" /\ pc'[p] = "advance_save" =>
         /\ SameHead(st[p], st'[p])
         /\ st[p].idx \in Modules /\ st[p].mstat[st[p].idx] = "completed"
         /\ st'[p].idx = st[p].idx + 1 /\ st'[p].served = st[p].served
         /\ st'[p].seen = st[p].seen /\ st'[p].answered = st[p].answered
         /\ st'[p].mstat = st[p].mstat
    /\ pc[p] = "advance" /\ pc'[p] = "serve_save" =>
         /\ SameHead(st[p], st'[p])
         /\ InOpenModule(p) /\ ~ModuleOver(st[p]) /\ ~OnScreen(st[p])
         /\ st'[p].idx = st[p].idx
         /\ st'[p].served \in Eligible(st[p])
         /\ st'[p].seen = st[p].seen \cup {st'[p].served}
         /\ st'[p].answered = st[p].answered /\ st'[p].mstat = st[p].mstat
    /\ pc[p] = "close_result" =>
         /\ SameHead(st[p], st'[p])
         /\ st'[p].idx = st[p].idx + 1 /\ st'[p].served = st[p].served
         /\ st'[p].seen = st[p].seen /\ st'[p].answered = st[p].answered
         /\ st'[p].mstat = [st[p].mstat EXCEPT ![st[p].idx] = "completed"]
    /\ pc[p] = "finalize" /\ pc'[p] = "finalize" =>
         /\ SameHead(st[p], st'[p])
         /\ cur[p] \in Modules
         /\ \A m \in Modules :
              st'[p].mstat[m] = IF m = cur[p] /\ st[p].mstat[m] = "in_progress"
                                THEN "completed" ELSE st[p].mstat[m]
    /\ pc[p] = "finalize" /\ pc'[p] = "fin_row" =>
         /\ st'[p].status = "finished" /\ st'[p].expiresAt = st[p].expiresAt
         /\ st'[p].mstat = st[p].mstat
         /\ blob' = st'[p]

\* start, createSession and the loading of a state.
LEMMA CopyStart ==
    ASSUME TypeOK, NEW p \in Procs,
           \/ StartFind(p) \/ CreateRow(p) \/ CreateInvite(p) \/ CreateSave(p) \/ CreateJob(p)
           \/ LoadRow(p) \/ ResumeBlob(p) \/ ReplaySave(p) \/ AutoRow(p)
    PROVE  CopyMoves(p)
<1>0. /\ pc \in [Procs -> Labels] /\ op \in [Procs -> Operations]
      /\ st \in [Procs -> SessionState] /\ st[p] \in SessionState
      /\ \A o : Entry(o) \in {"begin", "submit", "finalize", "advance"}
  BY DEF TypeOK, Entry
<1>1. CASE StartFind(p)
  BY <1>0, <1>1 DEF StartFind, CopyMoves, Keeping, Work, Goto, End, Forget, locals
<1>2. CASE CreateRow(p)
  <2>1. \/ /\ row.status = "none"
           /\ row' = [status |-> "in_progress", expiresAt |-> now + Budget + StartGrace]
           /\ st'[p] = FreshState("in_progress", now + Budget + StartGrace)
           /\ pc'[p] = "create_invite"
        \/ pc'[p] = "start_find"
    BY <1>0, <1>2 DEF CreateRow, Work, Goto
  <2>2. pc[p] = "create_row" /\ op' = op
    BY <1>2 DEF CreateRow, locals
  <2> QED
    BY <2>1, <2>2 DEF CopyMoves, Keeping
<1>3. CASE CreateInvite(p) \/ CreateSave(p) \/ CreateJob(p)
  BY <1>0, <1>3 DEF CreateInvite, CreateSave, CreateJob, CopyMoves, Keeping, Goto, locals
<1>4. CASE LoadRow(p)
  BY <1>0, <1>4 DEF LoadRow, CopyMoves, Keeping, Work, Goto, locals
<1>5. CASE ResumeBlob(p)
  <2>1. /\ pc[p] = "resume_blob" /\ pc'[p] # "idle" /\ op' = op
        /\ \/ blob.status # "absent" /\ st'[p] = blob /\ pc'[p] = Entry(op[p])
           \/ blob.status = "absent" /\ st'[p] = st[p] /\ pc'[p] = "replay_answers"
    BY <1>0, <1>5 DEF ResumeBlob, Work, Goto, locals
  <2> QED
    BY <2>1 DEF CopyMoves, Keeping
<1>6. CASE ReplaySave(p)
  <2>1. pc[p] = "replay_save" /\ pc'[p] # "idle" /\ op' = op /\ st'[p] = st[p]
    BY <1>0, <1>6 DEF ReplaySave, Goto, locals
  <2> QED
    BY <2>1 DEF CopyMoves, Keeping
<1>7. CASE AutoRow(p)
  BY <1>0, <1>7 DEF AutoRow, CopyMoves, Keeping, Work, Goto, End, Forget, locals
<1> QED
  BY <1>1, <1>2, <1>3, <1>4, <1>5, <1>6, <1>7

\* A rebuild from the tables.
LEMMA CopyReplay ==
    ASSUME TypeOK, NEW p \in Procs, ReplayAnswers(p) \/ ReplayResults(p)
    PROVE  CopyMoves(p)
<1>0. /\ pc \in [Procs -> Labels] /\ op \in [Procs -> Operations]
      /\ st \in [Procs -> SessionState] /\ st[p] \in SessionState
  BY DEF TypeOK
<1>1. CASE ReplayAnswers(p)
  <2> DEFINE counts == [m \in Modules |-> Cardinality(AnsweredIn(m))]
             mstat == [m \in Modules |->
                         IF AnsweredIn(m) # {} THEN "in_progress" ELSE "pending"]
             seen == {q \in Questions : responses[q] # "absent"}
             t == [st[p] EXCEPT !.seen = seen, !.answered = counts, !.mstat = mstat]
  <2>1. pc[p] = "replay_answers" /\ Work(p, t, "replay_results") /\ op' = op
    BY <1>1 DEF ReplayAnswers, locals
  <2>2. /\ \A m \in Modules : counts[m] = Cardinality(AnsweredIn(m))
        /\ \A m \in Modules :
             mstat[m] = IF AnsweredIn(m) # {} THEN "in_progress" ELSE "pending"
    OBVIOUS
  <2>3. /\ SameHead(st[p], t) /\ t.idx = st[p].idx /\ t.served = st[p].served
        /\ t.seen = seen /\ t.answered = counts /\ t.mstat = mstat
    <3> HIDE DEF counts, mstat, seen
    <3> QED
      BY <1>0 DEF SessionState, SameHead
  <2>4. st'[p] = t /\ pc'[p] = "replay_results"
    <3> HIDE DEF t
    <3> QED
      BY <1>0, <2>1 DEF Work, Goto
  <2>5. SameHead(st[p], st'[p])
    BY <2>3, <2>4 DEF SameHead
  <2>6. /\ st'[p].idx = st[p].idx /\ st'[p].served = st[p].served
        /\ st'[p].seen = seen
        /\ st'[p].answered = counts /\ st'[p].mstat = mstat
    BY <2>3, <2>4
  <2>7. \A m \in Modules :
          /\ st'[p].answered[m] = Cardinality(AnsweredIn(m))
          /\ st'[p].mstat[m] = IF AnsweredIn(m) # {} THEN "in_progress" ELSE "pending"
    <3> HIDE DEF counts, mstat
    <3> QED
      BY <2>2, <2>6
  <2> HIDE DEF counts, mstat, t
  <2> QED
    BY <2>1, <2>4, <2>5, <2>6, <2>7 DEF CopyMoves, Keeping
<1>2. CASE ReplayResults(p)
  <2> DEFINE s == st[p]
             mstat == [m \in Modules |->
                         IF results[m].state = "closed" THEN "completed" ELSE s.mstat[m]]
             deadline == [m \in Modules |->
                            IF mstat[m] = "in_progress" THEN now + TimeLimit[m] ELSE 0]
  <2>1. PICK i \in 1 .. N + 1 :
          /\ \A m \in Modules : m < i => mstat[m] = "completed"
          /\ Work(p, [s EXCEPT !.mstat = mstat, !.idx = i, !.deadline = deadline], "replay_save")
    BY <1>2 DEF ReplayResults
  <2> DEFINE t == [s EXCEPT !.mstat = mstat, !.idx = i, !.deadline = deadline]
  <2>2. pc[p] = "replay_results" /\ op' = op
    BY <1>2 DEF ReplayResults, locals
  <2>3. /\ SameHead(st[p], t) /\ t.served = st[p].served /\ t.seen = st[p].seen
        /\ t.answered = st[p].answered /\ t.mstat = mstat /\ t.idx = i
    <3> HIDE DEF mstat, deadline
    <3> QED
      BY <1>0 DEF SessionState, SameHead
  <2>4. st'[p] = t /\ pc'[p] = "replay_save"
    <3>1. Work(p, t, "replay_save")
      BY <2>1
    <3> HIDE DEF t
    <3> QED
      BY <1>0, <3>1 DEF Work, Goto
  <2>5. \A m \in Modules :
          mstat[m] = IF results[m].state = "closed" THEN "completed" ELSE st[p].mstat[m]
    OBVIOUS
  <2>6. \A m \in Modules : m < i => mstat[m] = "completed"
    BY <2>1
  <2>7. SameHead(st[p], st'[p])
    BY <2>3, <2>4 DEF SameHead
  <2>8. /\ st'[p].served = st[p].served /\ st'[p].seen = st[p].seen
        /\ st'[p].answered = st[p].answered /\ st'[p].mstat = mstat /\ st'[p].idx = i
    BY <2>3, <2>4
  <2> HIDE DEF mstat, t
  <2> QED
    BY <2>2, <2>4, <2>5, <2>6, <2>7, <2>8 DEF CopyMoves, Keeping
<1> QED
  BY <1>1, <1>2

\* startCurrentModule.
LEMMA CopyBegin ==
    ASSUME TypeOK, NEW p \in Procs,
           Begin(p) \/ BeginRow(p) \/ BeginUnjob(p) \/ BeginJob(p) \/ BeginSave(p)
    PROVE  CopyMoves(p)
<1>0. /\ pc \in [Procs -> Labels] /\ op \in [Procs -> Operations]
      /\ st \in [Procs -> SessionState] /\ st[p] \in SessionState
  BY DEF TypeOK
<1>1. CASE Begin(p)
  <2> DEFINE s == st[p]
             m == s.idx
             mstat == [s.mstat EXCEPT ![m] = "in_progress"]
             deadline == [s.deadline EXCEPT ![m] = now + TimeLimit[m]]
             started == [s EXCEPT !.mstat = mstat, !.deadline = deadline]
  <2>0. pc[p] = "begin" /\ op' = op
    BY <1>1 DEF Begin, locals
  <2>1. CASE m \in Modules /\ s.mstat[m] = "pending"
    <3>1. started = [s EXCEPT !.mstat[m] = "in_progress", !.deadline[m] = now + TimeLimit[m]]
      BY <1>0 DEF SessionState
    <3>2. /\ started.status = s.status /\ started.idx = m /\ started.served = s.served
          /\ started.seen = s.seen /\ started.answered = s.answered
          /\ started.mstat = mstat /\ started.expiresAt = s.expiresAt
      <4> HIDE DEF mstat, deadline
      <4> QED
        BY <1>0 DEF SessionState
    <3> DEFINE reset == [started EXCEPT !.expiresAt = now + Budget]
    <3>3. /\ reset.status = s.status /\ reset.idx = m /\ reset.served = s.served
          /\ reset.seen = s.seen /\ reset.answered = s.answered
          /\ reset.mstat = mstat /\ reset.expiresAt = now + Budget
      <4>1. /\ reset.status = started.status /\ reset.idx = started.idx
            /\ reset.served = started.served /\ reset.seen = started.seen
            /\ reset.answered = started.answered /\ reset.mstat = started.mstat
            /\ reset.expiresAt = now + Budget
        <5> HIDE DEF mstat, deadline
        <5> QED
          BY <1>0 DEF SessionState
      <4> HIDE DEF started, mstat, reset
      <4> QED
        BY <4>1, <3>2
    <3>4. \/ IsFirstToStart(s) /\ Work(p, reset, "begin_row")
          \/ Work(p, started, "begin_save")
      <4> HIDE DEF started
      <4> QED
        BY <1>1, <2>1, <3>1 DEF Begin
    <3> HIDE DEF started, reset
    <3>5. CASE IsFirstToStart(s) /\ Work(p, reset, "begin_row")
      <4>1. pc'[p] = "begin_row" /\ st'[p] = reset
        BY <1>0, <3>5 DEF Work, Goto
      <4> HIDE DEF mstat
      <4>2. /\ st'[p].status = s.status /\ st'[p].idx = m /\ st'[p].served = s.served
            /\ st'[p].seen = s.seen /\ st'[p].answered = s.answered
            /\ st'[p].mstat = mstat /\ st'[p].expiresAt = now + Budget
        BY <3>3, <4>1
      <4> USE DEF mstat
      <4> QED
        BY <2>0, <2>1, <3>5, <4>1, <4>2 DEF CopyMoves, Keeping
    <3>6. CASE Work(p, started, "begin_save")
      <4>1. pc'[p] = "begin_save" /\ st'[p] = started
        BY <1>0, <3>6 DEF Work, Goto
      <4> HIDE DEF mstat
      <4>2. /\ st'[p].status = s.status /\ st'[p].idx = m /\ st'[p].served = s.served
            /\ st'[p].seen = s.seen /\ st'[p].answered = s.answered
            /\ st'[p].mstat = mstat /\ st'[p].expiresAt = s.expiresAt
        BY <3>2, <4>1
      <4> USE DEF mstat
      <4> QED
        BY <2>0, <2>1, <4>1, <4>2 DEF CopyMoves, Keeping
    <3> QED
      BY <3>4, <3>5, <3>6
  <2>2. CASE ~(m \in Modules /\ s.mstat[m] = "pending")
    <3>1. pc'[p] = "advance" /\ st'[p] = st[p]
      BY <1>0, <1>1, <2>2 DEF Begin, Goto
    <3> QED
      BY <2>0, <3>1 DEF CopyMoves, Keeping
  <2> QED
    BY <2>1, <2>2
<1>2. CASE BeginRow(p) \/ BeginUnjob(p) \/ BeginJob(p) \/ BeginSave(p)
  BY <1>0, <1>2 DEF BeginRow, BeginUnjob, BeginJob, BeginSave, CopyMoves, Keeping, Goto, locals
<1> QED
  BY <1>1, <1>2

\* submitAnswer and the inserts.
LEMMA CopyAnswer ==
    ASSUME TypeOK, AtWork, NEW p \in Procs,
           Submit(p) \/ Insert(p) \/ SubmitSave(p) \/ CloseInsert(p)
    PROVE  CopyMoves(p)
<1>0. /\ pc \in [Procs -> Labels] /\ op \in [Procs -> Operations]
      /\ st \in [Procs -> SessionState] /\ st[p] \in SessionState
  BY DEF TypeOK
<1>1. CASE Submit(p)
  <2>1. CASE End(p)
    BY <1>0, <1>1, <2>1 DEF Submit, End, Forget, CopyMoves, Keeping
  <2>2. CASE /\ \E l \in {"finalize", "insert", "advance"} : Goto(p, l)
             /\ op' = op /\ st' = st
    <3>1. pc[p] = "submit" /\ pc'[p] \in {"finalize", "insert", "advance"}
      BY <1>0, <1>1, <2>2 DEF Submit, Goto
    <3> QED
      BY <2>2, <3>1 DEF CopyMoves, Keeping
  <2> QED
    BY <1>1, <2>1, <2>2 DEF Submit, locals
<1>2. CASE SubmitSave(p)
  BY <1>0, <1>2 DEF SubmitSave, CopyMoves, Keeping, Goto, locals
<1>3. CASE Insert(p) \/ CloseInsert(p)
  <2> DEFINE s == st[p]
             counted == [s.answered EXCEPT ![ModuleOf[s.served]] = @ + 1]
  <2>0. pc[p] \in {"insert", "close_insert"}
    BY <1>3 DEF Insert, CloseInsert
  <2>1. CASE End(p)
    BY <1>0, <2>0, <2>1 DEF End, Forget, CopyMoves, Keeping
  <2>2. CASE /\ Work(p, Answered(s), "submit_save") \/ Work(p, Answered(s), "close_result")
             /\ UNCHANGED locals
    <3>1. Answered(s) = [s EXCEPT !.answered = counted, !.served = NoQuestion]
      BY <1>0 DEF Answered, SessionState
    <3>2. /\ Answered(s).status = s.status /\ Answered(s).expiresAt = s.expiresAt
          /\ Answered(s).idx = s.idx /\ Answered(s).served = NoQuestion
          /\ Answered(s).seen = s.seen /\ Answered(s).mstat = s.mstat
          /\ Answered(s).answered = counted
      <4> HIDE DEF counted
      <4> QED
        BY <1>0, <3>1 DEF SessionState
    <3>3. st'[p] = Answered(s) /\ pc'[p] \in {"submit_save", "close_result"} /\ op' = op
      BY <1>0, <2>2 DEF Work, Goto, locals
    <3>4. /\ st'[p].status = s.status /\ st'[p].expiresAt = s.expiresAt
          /\ st'[p].idx = s.idx /\ st'[p].served = NoQuestion
          /\ st'[p].seen = s.seen /\ st'[p].mstat = s.mstat
          /\ st'[p].answered = counted
      BY <3>2, <3>3
    <3> QED
      BY <2>0, <3>3, <3>4 DEF CopyMoves, Keeping, SameHead
  <2> QED
    BY <1>3, <2>1, <2>2 DEF Insert, CloseInsert, locals
<1> QED
  BY <1>1, <1>2, <1>3

\* advance and completeModule.
LEMMA CopyAdvance ==
    ASSUME TypeOK, AtWork, NEW p \in Procs,
           \/ AdvanceReply(p) \/ AdvanceFinalise(p) \/ AdvancePastModule(p)
           \/ AdvanceCloseModule(p) \/ AdvanceServe(p) \/ ServeSave(p)
           \/ AdvanceSave(p) \/ CloseResult(p)
    PROVE  CopyMoves(p)
<1>0. /\ pc \in [Procs -> Labels] /\ op \in [Procs -> Operations]
      /\ st \in [Procs -> SessionState] /\ st[p] \in SessionState
  BY DEF TypeOK
<1>1. CASE AdvanceReply(p) \/ ServeSave(p)
  BY <1>0, <1>1 DEF AdvanceReply, ServeSave, CopyMoves, Keeping, End, Forget
<1>2. CASE AdvanceFinalise(p) \/ AdvanceCloseModule(p)
  <2>1. /\ pc[p] = "advance" /\ st' = st /\ op' = op
        /\ pc'[p] \in {"finalize", "close_insert", "close_result"}
    BY <1>0, <1>2 DEF AdvanceFinalise, Finalise, AdvanceCloseModule, Advancing, InOpenModule,
          InModule, Goto, locals
  <2> QED
    BY <2>1 DEF CopyMoves, Keeping
<1>3. CASE AdvancePastModule(p)
  <2>1. /\ pc[p] = "advance" /\ op' = op
        /\ st[p].idx \in Modules /\ st[p].mstat[st[p].idx] = "completed"
        /\ Work(p, [st[p] EXCEPT !.idx = @ + 1], "advance_save")
    BY <1>3 DEF AdvancePastModule, InModule, Advancing, locals
  <2>2. st'[p] = [st[p] EXCEPT !.idx = @ + 1] /\ pc'[p] = "advance_save"
    BY <1>0, <2>1 DEF Work, Goto
  <2>3. /\ st'[p].status = st[p].status /\ st'[p].expiresAt = st[p].expiresAt
        /\ st'[p].idx = st[p].idx + 1 /\ st'[p].served = st[p].served
        /\ st'[p].seen = st[p].seen /\ st'[p].answered = st[p].answered
        /\ st'[p].mstat = st[p].mstat
    BY <1>0, <2>2 DEF SessionState
  <2> QED
    BY <2>1, <2>2, <2>3 DEF CopyMoves, Keeping, SameHead
<1>4. CASE AdvanceServe(p)
  <2>1. PICK q \in Eligible(st[p]) :
          Work(p, [st[p] EXCEPT !.served = q, !.seen = @ \cup {q}], "serve_save")
    BY <1>4 DEF AdvanceServe
  <2>2. /\ pc[p] = "advance" /\ op' = op
        /\ InOpenModule(p) /\ ~ModuleOver(st[p]) /\ ~OnScreen(st[p])
    BY <1>4 DEF AdvanceServe, InOpenModule, InModule, Advancing, ModuleOver, locals
  <2>3. st'[p] = [st[p] EXCEPT !.served = q, !.seen = @ \cup {q}] /\ pc'[p] = "serve_save"
    BY <1>0, <2>1 DEF Work, Goto
  <2>4. /\ st'[p].status = st[p].status /\ st'[p].expiresAt = st[p].expiresAt
        /\ st'[p].idx = st[p].idx /\ st'[p].served = q
        /\ st'[p].seen = st[p].seen \cup {q} /\ st'[p].answered = st[p].answered
        /\ st'[p].mstat = st[p].mstat
    BY <1>0, <2>3 DEF SessionState
  <2> QED
    BY <2>1, <2>2, <2>3, <2>4 DEF CopyMoves, Keeping, SameHead
<1>5. CASE AdvanceSave(p)
  BY <1>0, <1>5 DEF AdvanceSave, CopyMoves, Keeping, Goto, locals
<1>6. CASE CloseResult(p)
  <2> DEFINE mstat == [st[p].mstat EXCEPT ![st[p].idx] = "completed"]
             s == [st[p] EXCEPT !.mstat = mstat]
  <2>1. /\ pc[p] = "close_result" /\ op' = op
        /\ Work(p, [[st[p] EXCEPT !.mstat[st[p].idx] = "completed"] EXCEPT !.idx = @ + 1],
                "advance_save")
    BY <1>6 DEF CloseResult, locals
  <2>2. [st[p] EXCEPT !.mstat[st[p].idx] = "completed"] = s
    BY <1>0 DEF SessionState
  <2>3. st'[p] = [s EXCEPT !.idx = @ + 1] /\ pc'[p] = "advance_save"
    <3> HIDE DEF s
    <3> QED
      BY <1>0, <2>1, <2>2 DEF Work, Goto
  <2>4. /\ [s EXCEPT !.idx = @ + 1].status = st[p].status
        /\ [s EXCEPT !.idx = @ + 1].expiresAt = st[p].expiresAt
        /\ [s EXCEPT !.idx = @ + 1].idx = st[p].idx + 1
        /\ [s EXCEPT !.idx = @ + 1].served = st[p].served
        /\ [s EXCEPT !.idx = @ + 1].seen = st[p].seen
        /\ [s EXCEPT !.idx = @ + 1].answered = st[p].answered
        /\ [s EXCEPT !.idx = @ + 1].mstat = mstat
    <3> HIDE DEF mstat
    <3> QED
      BY <1>0 DEF SessionState
  <2> HIDE DEF s
  <2>5. /\ st'[p].status = st[p].status /\ st'[p].expiresAt = st[p].expiresAt
        /\ st'[p].idx = st[p].idx + 1 /\ st'[p].served = st[p].served
        /\ st'[p].seen = st[p].seen /\ st'[p].answered = st[p].answered
        /\ st'[p].mstat = mstat
    BY <2>3, <2>4
  <2> QED
    BY <2>1, <2>3, <2>5 DEF CopyMoves, Keeping, SameHead
<1> QED
  BY <1>1, <1>2, <1>3, <1>4, <1>5, <1>6

\* finalize.
LEMMA CopyFinalise ==
    ASSUME TypeOK, NEW p \in Procs,
           \/ FinaliseNoop(p) \/ FinaliseResult(p) \/ FinaliseSave(p) \/ FinaliseRow(p)
           \/ FinaliseInvite(p) \/ FinaliseUnjob(p) \/ FinaliseReport(p)
    PROVE  CopyMoves(p)
<1>0. /\ pc \in [Procs -> Labels] /\ op \in [Procs -> Operations]
      /\ st \in [Procs -> SessionState] /\ st[p] \in SessionState
  BY DEF TypeOK
<1>1. CASE FinaliseNoop(p) \/ FinaliseReport(p)
  BY <1>0, <1>1 DEF FinaliseNoop, FinaliseReport, CopyMoves, Keeping, End, Forget
<1>2. CASE FinaliseRow(p) \/ FinaliseInvite(p) \/ FinaliseUnjob(p)
  BY <1>0, <1>2 DEF FinaliseRow, FinaliseInvite, FinaliseUnjob, CopyMoves, Keeping, Goto, locals
<1>3. CASE FinaliseResult(p)
  <2> DEFINE m == cur[p]
             mstat == [st[p].mstat EXCEPT ![m] = "completed"]
             s == [st[p] EXCEPT !.mstat = mstat]
  <2>1. /\ pc[p] = "finalize" /\ pc'[p] = "finalize" /\ op' = op /\ m \in Modules
        /\ st' = [st EXCEPT ![p] = IF st[p].mstat[m] = "in_progress"
                                   THEN [st[p] EXCEPT !.mstat[m] = "completed"] ELSE st[p]]
    BY <1>3 DEF FinaliseResult, Finalising
  <2>2. [st[p] EXCEPT !.mstat[m] = "completed"] = s
    BY <1>0 DEF SessionState
  <2>3. /\ s.status = st[p].status /\ s.expiresAt = st[p].expiresAt /\ s.mstat = mstat
    <3> HIDE DEF mstat
    <3> QED
      BY <1>0 DEF SessionState
  <2>4. \A k \in Modules : mstat[k] = IF k = m THEN "completed" ELSE st[p].mstat[k]
    BY <1>0 DEF SessionState
  <2>5. st'[p] = IF st[p].mstat[m] = "in_progress" THEN s ELSE st[p]
    <3> HIDE DEF s
    <3> QED
      BY <1>0, <2>1, <2>2
  <2> HIDE DEF s, mstat
  <2>6. SameHead(st[p], st'[p])
    BY <2>3, <2>5 DEF SameHead
  <2>7. \A k \in Modules :
          st'[p].mstat[k] = IF k = m /\ st[p].mstat[k] = "in_progress"
                            THEN "completed" ELSE st[p].mstat[k]
    BY <2>3, <2>4, <2>5
  <2> QED
    BY <2>1, <2>6, <2>7 DEF CopyMoves, Keeping
<1>4. CASE FinaliseSave(p)
  <2> DEFINE s == [st[p] EXCEPT !.status = "finished", !.served = NoQuestion]
  <2>1. /\ s.status = "finished" /\ s.expiresAt = st[p].expiresAt /\ s.mstat = st[p].mstat
    BY <1>0 DEF SessionState
  <2>2. pc[p] = "finalize" /\ op' = op /\ blob' = s /\ Work(p, s, "fin_row")
    BY <1>4 DEF FinaliseSave, Finalising, locals
  <2> HIDE DEF s
  <2>3. pc'[p] = "fin_row" /\ st'[p] = s
    BY <1>0, <2>2 DEF Work, Goto
  <2> QED
    BY <2>1, <2>2, <2>3 DEF CopyMoves, Keeping
<1> QED
  BY <1>1, <1>2, <1>3, <1>4

\* Every step does to its process's copy what CopyMoves says.
LEMMA CopySteps ==
    ASSUME TypeOK, AtWork, NEW p \in Procs, Step(p)
    PROVE  CopyMoves(p)
BY CopyStart, CopyReplay, CopyBegin, CopyAnswer, CopyAdvance, CopyFinalise DEF Step

(***************************************************************************)
(* The candidate with one tab, as long as no opening has been overtaken:   *)
(* neither the worker nor the sweeper runs beside the end of createSession *)
(* or beside a first Begin.                                                *)
(***************************************************************************)
OneTab == \A p, q \in Tabs : p = q
Background == {Worker, Sweeper}

\* Before the session row nothing is stored of the attempt.
NothingYet ==
    row.status = "none" =>
        /\ \A q \in Questions : responses[q] = "absent"
        /\ \A m \in Modules : results[m].state = "absent"
        /\ shown = {}
        /\ blob.status = "absent"

\* A tab never runs autoSubmitSession.
OpsFit == \A p \in Tabs : op[p] # "auto" /\ pc[p] # "auto_row"

\* A Begin that moves the deadline is the first one, and it has the state Redis holds.
FirstFits ==
    \A p \in Tabs : pc[p] \in {"begin_row", "begin_unjob", "begin_job"} => FirstBegun(st[p])
BeginFits ==
    \A p \in Tabs :
        /\ pc[p] = "begin" => blob = st[p]
        /\ pc[p] = "begin_row" => blob.status \in {"absent", st[p].status}

\* The worker and the sweeper run past the row's deadline only.
BackgroundIsLate ==
    \A p \in Background : pc[p] # "idle" => row.status # "none" /\ row.expiresAt <= now

\* createSession is over before the attempt can be closed.
Creating == {"create_invite", "create_save", "create_job"}
CreatedIsOpen == \A p \in Tabs : pc[p] \in Creating => Open

\* A closed attempt whose invitation or report is not told yet has a process about to.
InvitationFits ==
    /\ invitation = "completed" => IsClosed
    /\ IsClosed =>
         /\ invitation \in {"completed", "revoked"} \/ \E p \in Procs : pc[p] = "fin_invite"
         /\ reportQueued \/ \E p \in Procs : pc[p] \in ClosedLabels

\* A process that holds a state holds one with the deadline the row states.  Redis has the
\* old one until a first Begin has saved.
Beginning(p) == pc[p] \in {"begin_unjob", "begin_job"} \/ (pc[p] = "begin_save" /\ FirstBegun(st[p]))
Blank == {"idle", "start_find", "create_row", "load_row", "auto_row"}
CopiesAgree ==
    /\ \A p \in Procs : pc[p] \notin Blank => st[p].status # "absent"
    /\ \A p \in Procs : pc[p] \notin Blank \cup {"begin_row"} => st[p].expiresAt = row.expiresAt
    /\ blob.status # "absent" =>
         \/ blob.expiresAt = row.expiresAt
         \/ \E p \in Tabs : Beginning(p)

\* Before the deadline, an attempt that was closed is seen to be by whoever has a state.
ClosedIsSeen ==
    row.status # "none" /\ now < row.expiresAt /\ Ending =>
        /\ blob.status # "in_progress"
        /\ \A p \in Tabs : pc[p] \notin Blank => st[p].status # "in_progress"

\* A process that has begun to close an open attempt, or to rebuild its state beside the
\* tab, ends with the row closed.
Replaying == {"replay_answers", "replay_results", "replay_save"}
BackgroundReplays ==
    \A p \in Background :
        pc[p] \in Replaying \cup {"resume_blob"} => st[p].status = "in_progress"
Settling ==
    \E p \in Procs :
        \/ pc[p] = "finalize" /\ st[p].status # "finished"
        \/ pc[p] = "fin_row"
        \/ p \in Background /\ pc[p] \in Replaying
Calm == Open /\ ~Settling

\* A state says what the tables say.
Exact(s) == \A m \in Modules : s.answered[m] = Cardinality(AnsweredIn(m))
Marks(s) == \A m \in Modules : s.mstat[m] = "completed" <=> results[m].state = "closed"
Seen(s) == \A q \in s.seen : responses[q] # "absent" \/ q = s.served
Past(s) == \A m \in Modules : m < s.idx => s.mstat[m] = "completed"
Screen(s) ==
    s.served # NoQuestion =>
        /\ s.idx \in Modules
        /\ ModuleOf[s.served] = s.idx
        /\ s.mstat[s.idx] = "in_progress"
        /\ s.answered[s.idx] < QuestionCount[s.idx]
Good(s) == Exact(s) /\ Marks(s) /\ Seen(s) /\ Past(s) /\ Screen(s)

\* The tab has written to the tables and not yet its state.
Dirty == {"submit_save", "close_result", "advance_save"}
\* The tab holds a state it may go on with.
Whole ==
    {"create_invite", "create_save", "create_job", "replay_save", "begin", "begin_row",
     "begin_unjob", "begin_job", "begin_save", "submit", "insert", "submit_save", "advance",
     "advance_save", "serve_save", "close_insert", "close_result"}

BlobFits ==
    Calm /\ blob.status = "in_progress" /\ (\A p \in Tabs : pc[p] \notin Dirty) => Good(blob)

TabFits ==
    Calm =>
      \A p \in Tabs :
        /\ pc[p] \in Whole /\ st[p].status = "in_progress" => Good(st[p])
        /\ pc[p] \in {"resume_blob", "replay_answers"} => st[p].served = NoQuestion
        /\ pc[p] = "replay_results" =>
             /\ Exact(st[p])
             /\ st[p].served = NoQuestion
             /\ \A q \in st[p].seen : responses[q] # "absent"
             /\ \A m \in Modules : st[p].mstat[m] # "completed"

\* An answer on its way is the next of a section that is not full.
AnsweringFits ==
    \A p \in Tabs :
        /\ pc[p] \in {"insert", "close_insert"} =>
             /\ Exact(st[p])
             /\ st[p].served # NoQuestion
             /\ st[p].idx \in Modules
             /\ ModuleOf[st[p].served] = st[p].idx
             /\ st[p].mstat[st[p].idx] = "in_progress"
             /\ st[p].answered[st[p].idx] < QuestionCount[st[p].idx]
        /\ pc[p] = "close_result" =>
             /\ st[p].served = NoQuestion
             /\ st[p].mstat[st[p].idx] = "in_progress"

\* Who closes a section closes those before one that was reached.
Reached(m) ==
    \/ AnsweredIn(m) # {}
    \/ \E p \in Tabs : pc[p] \in {"insert", "close_insert"} /\ st[p].idx = m
Covers(s) == \A m \in Modules \ {1} : Reached(m) => s.mstat[m - 1] # "pending"
CoversFit ==
    /\ \A m \in Modules \ {1} : Reached(m) => results[m - 1].state = "closed"
    /\ blob.status = "in_progress" => Covers(blob)
    /\ \A p \in Procs :
         pc[p] \in Whole \cup {"finalize"} /\ st[p].status = "in_progress" => Covers(st[p])

\* While Redis keeps the state it is there, and nobody rebuilds it.
KeptFits ==
    ~lost =>
      /\ \A p \in Procs : pc[p] \notin Replaying \cup {"load_row"}
      /\ blob.status = "absent" /\ row.status # "none" =>
           \E p \in Tabs : pc[p] \in {"create_invite", "create_save"}
      /\ \A p \in Tabs :
           pc[p] \in Synchronous \cup {"create_job"} => blob = st[p]

Shows(s) == \A q \in shown : responses[q] # "absent" \/ s.served = q
ScreenFits ==
    ~lost =>
      /\ blob.status = "in_progress" => Shows(blob)
      /\ \A p \in Tabs : pc[p] \in Whole /\ st[p].status = "in_progress" => Shows(st[p])

\* Once a question is about to be shown, every state says that a section has begun.
Showing == shown # {} \/ \E p \in Tabs : pc[p] = "serve_save"
Begun(s) == \E m \in Modules : s.mstat[m] # "pending"
BegunFits ==
    ~lost /\ Showing =>
      /\ blob.status # "absent" => Begun(blob)
      /\ \A p \in Procs : pc[p] \in Whole \cup {"finalize"} => Begun(st[p])
      /\ \A p \in Tabs : pc[p] # "begin_row"

(***************************************************************************)
(* What a step does to the stores, and what it found                       *)
(***************************************************************************)
Saving ==
    {"create_save", "replay_save", "begin_save", "submit_save", "serve_save", "advance_save"}

Inserts(p) == pc[p] \in {"insert", "close_insert"} /\ pc'[p] # "idle"

StoreMoves(p) ==
    /\ now' = now /\ lost' = lost
    /\ ~Inserts(p) => responses' = responses
    /\ Inserts(p) =>
         /\ responses[st[p].served] = "absent"
         /\ \E r \in {"answered", "unanswered"} :
              responses' = [responses EXCEPT ![st[p].served] = r]
    /\ pc[p] \notin {"close_result", "finalize"} => results' = results
    /\ pc[p] = "close_result" =>
         \A m \in Modules :
            results'[m].state = IF m = st[p].idx THEN "closed" ELSE results[m].state
    /\ pc[p] = "finalize" /\ pc'[p] # "finalize" => results' = results
    /\ pc[p] = "finalize" /\ pc'[p] = "finalize" =>
         \A m \in Modules :
            results'[m].state =
                IF m # cur[p] THEN results[m].state
                ELSE IF st'[p].mstat[m] = "completed" THEN "closed" ELSE "open"
    /\ pc[p] \in Saving => blob' = st[p]
    /\ pc[p] = "finalize" /\ pc'[p] = "fin_row" => blob' = st'[p]
    /\ pc[p] \notin Saving /\ pc'[p] # "fin_row" => blob' = blob
    /\ pc[p] = "serve_save" => shown' = shown \cup {st[p].served}
    /\ pc[p] # "serve_save" => shown' = shown
    /\ pc[p] = "create_row" /\ pc'[p] # "create_invite" => row' = row
    /\ pc[p] = "begin_row" =>
         row'.status = row.status /\ row'.expiresAt = st[p].expiresAt
    /\ pc[p] = "fin_row" =>
         row'.status \in Closed /\ row'.expiresAt = row.expiresAt
    /\ pc[p] \notin {"create_row", "begin_row", "fin_row"} => row' = row
    /\ pc[p] = "create_invite" => invitation' = "in_progress"
    /\ pc[p] = "fin_invite" => invitation' = "completed"
    /\ pc[p] \notin {"create_invite", "fin_invite"} => invitation' = invitation
    /\ pc[p] = "fin_report" => reportQueued'
    /\ pc[p] # "fin_report" => reportQueued' = reportQueued

Found(p) ==
    /\ pc[p] = "submit" /\ pc'[p] = "insert" =>
         /\ st[p].status # "finished" /\ now < st[p].expiresAt
         /\ st[p].served # NoQuestion /\ ModuleOf[st[p].served] = st[p].idx
    /\ pc[p] = "advance" /\ pc'[p] = "close_insert" => InOpenModule(p) /\ OnScreen(st[p])
    /\ pc[p] = "advance" /\ pc'[p] = "close_result" => InOpenModule(p) /\ ~OnScreen(st[p])
    /\ pc[p] = "advance" /\ pc'[p] = "finalize" => st[p].status # "finished"
    /\ pc[p] = "submit" /\ pc'[p] = "finalize" => st[p].status # "finished"
    /\ pc[p] = "finalize" => (pc'[p] = "idle" <=> st[p].status = "finished")

\* start, createSession, the loading and the rebuild of a state.
LEMMA StoreStart ==
    ASSUME TypeOK, NEW p \in Procs,
           \/ StartFind(p) \/ CreateRow(p) \/ CreateInvite(p) \/ CreateSave(p) \/ CreateJob(p)
           \/ LoadRow(p) \/ ResumeBlob(p) \/ ReplayAnswers(p) \/ ReplayResults(p)
           \/ ReplaySave(p) \/ AutoRow(p)
    PROVE  StoreMoves(p) /\ Found(p)
<1>0. pc \in [Procs -> Labels] /\ \A o : Entry(o) \notin {"idle", "fin_row"}
  BY DEF TypeOK, Entry
<1>1. CASE CreateRow(p)
  BY <1>0, <1>1 DEF CreateRow, StoreMoves, Found, Inserts, Saving, Work, Goto, queue, env,
        history
<1>2. CASE StartFind(p) \/ AutoRow(p)
  BY <1>0, <1>2 DEF StartFind, AutoRow, StoreMoves, Found, Inserts, Saving, Work, Goto, End,
        Forget, db, env, history
<1>3. CASE CreateInvite(p) \/ CreateSave(p) \/ CreateJob(p)
  BY <1>0, <1>3 DEF CreateInvite, CreateSave, CreateJob, StoreMoves, Found, Inserts, Saving,
        Goto, db, queue, env, history
<1>4. CASE LoadRow(p) \/ ReplayAnswers(p)
  BY <1>0, <1>4 DEF LoadRow, ReplayAnswers, StoreMoves, Found, Inserts, Saving, Work, Goto,
        db, queue, env, history
<1>5. CASE ResumeBlob(p) \/ ReplaySave(p)
  <2>1. /\ pc[p] \in {"resume_blob", "replay_save"} /\ pc'[p] \notin {"idle", "fin_row"}
        /\ pc[p] = "replay_save" => blob' = st[p]
        /\ pc[p] = "resume_blob" => blob' = blob
        /\ UNCHANGED <<db, queue, env, history>>
    BY <1>0, <1>5 DEF ResumeBlob, ReplaySave, Work, Goto
  <2> QED
    BY <2>1 DEF StoreMoves, Found, Inserts, Saving, db, queue, env, history
<1>6. CASE ReplayResults(p)
  <2>1. /\ pc[p] = "replay_results" /\ pc'[p] = "replay_save"
        /\ UNCHANGED <<db, blob, queue, env, history>>
    BY <1>0, <1>6 DEF ReplayResults, Work, Goto
  <2> QED
    BY <2>1 DEF StoreMoves, Found, Inserts, Saving, db, queue, env, history
<1> QED
  BY <1>1, <1>2, <1>3, <1>4, <1>5, <1>6

\* startCurrentModule.
LEMMA StoreBegin ==
    ASSUME TypeOK, NEW p \in Procs,
           Begin(p) \/ BeginRow(p) \/ BeginUnjob(p) \/ BeginJob(p) \/ BeginSave(p)
    PROVE  StoreMoves(p) /\ Found(p)
<1>0. pc \in [Procs -> Labels] /\ row \in [status: {"none", "in_progress"} \cup Closed,
                                           expiresAt: Nat]
  BY DEF TypeOK
<1>1. CASE Begin(p)
  <2>1. /\ pc[p] = "begin" /\ \E l \in {"begin_row", "begin_save", "advance"} : Goto(p, l)
        /\ UNCHANGED <<db, blob, queue, env, history>>
    BY <1>1 DEF Begin, Work
  <2> QED
    BY <1>0, <2>1 DEF StoreMoves, Found, Inserts, Saving, Goto, db, queue, env, history
<1>2. CASE BeginRow(p) \/ BeginUnjob(p) \/ BeginJob(p) \/ BeginSave(p)
  BY <1>0, <1>2 DEF BeginRow, BeginUnjob, BeginJob, BeginSave, StoreMoves, Found, Inserts,
        Saving, Goto, db, queue, env, history
<1> QED
  BY <1>1, <1>2

\* submitAnswer and the inserts.
LEMMA StoreAnswer ==
    ASSUME TypeOK, AtWork, NEW p \in Procs,
           Submit(p) \/ Insert(p) \/ SubmitSave(p) \/ CloseInsert(p)
    PROVE  StoreMoves(p) /\ Found(p)
<1>0. pc \in [Procs -> Labels]
  BY DEF TypeOK
<1>1. CASE Submit(p)
  <2>1. /\ pc[p] = "submit" /\ UNCHANGED <<db, blob, reportQueued, env, history>>
        /\ \E l \in {"idle", "finalize", "insert", "advance"} : Goto(p, l)
    BY <1>1 DEF Submit, Goto, End, Forget
  <2>2. StoreMoves(p)
    BY <1>0, <2>1 DEF StoreMoves, Inserts, Saving, Goto, db, env, history
  <2>3. Found(p)
    BY <1>0, <1>1 DEF Submit, Found, Acceptable, Goto, End, Forget
  <2> QED
    BY <2>2, <2>3
<1>2. CASE SubmitSave(p)
  BY <1>0, <1>2 DEF SubmitSave, StoreMoves, Found, Inserts, Saving, Goto, db, queue, env,
        history
<1>3. CASE Insert(p) \/ CloseInsert(p)
  <2>1. /\ pc[p] \in {"insert", "close_insert"}
        /\ UNCHANGED <<invitation, row, results, blob, reportQueued, env, history>>
    BY <1>3 DEF Insert, CloseInsert
  <2>2. \/ pc'[p] = "idle" /\ responses' = responses
        \/ /\ pc'[p] \in {"submit_save", "close_result"}
           /\ responses[st[p].served] = "absent"
           /\ \E r \in {"answered", "unanswered"} :
                responses' = [responses EXCEPT ![st[p].served] = r]
    BY <1>0, <1>3 DEF Insert, CloseInsert, Work, Goto, End, Forget
  <2> QED
    BY <2>1, <2>2 DEF StoreMoves, Found, Inserts, Saving, env, history
<1> QED
  BY <1>1, <1>2, <1>3

\* advance and completeModule.
LEMMA StoreAdvance ==
    ASSUME TypeOK, AtWork, NEW p \in Procs,
           \/ AdvanceReply(p) \/ AdvanceFinalise(p) \/ AdvancePastModule(p)
           \/ AdvanceCloseModule(p) \/ AdvanceServe(p) \/ ServeSave(p)
           \/ AdvanceSave(p) \/ CloseResult(p)
    PROVE  StoreMoves(p) /\ Found(p)
<1>0. pc \in [Procs -> Labels] /\ st \in [Procs -> SessionState] /\ st[p] \in SessionState
  BY DEF TypeOK
<1>1. CASE AdvanceReply(p) \/ ServeSave(p)
  BY <1>0, <1>1 DEF AdvanceReply, ServeSave, StoreMoves, Found, Inserts, Saving, End, Forget,
        db, env, history
<1>2. CASE AdvanceFinalise(p)
  BY <1>0, <1>2 DEF AdvanceFinalise, Finalise, Advancing, StoreMoves, Found, Inserts, Saving,
        Goto, db, env, history
<1>3. CASE AdvanceCloseModule(p)
  <2>1. /\ pc[p] = "advance" /\ UNCHANGED <<db, blob, queue, env, history>>
        /\ InOpenModule(p)
        /\ \/ pc'[p] = "close_insert" /\ OnScreen(st[p])
           \/ pc'[p] = "close_result" /\ ~OnScreen(st[p])
    BY <1>0, <1>3 DEF AdvanceCloseModule, InOpenModule, InModule, Advancing, Goto
  <2> QED
    BY <2>1 DEF StoreMoves, Found, Inserts, Saving, db, queue, env, history
<1>4. CASE AdvancePastModule(p) \/ AdvanceServe(p)
  <2>1. /\ pc[p] = "advance" /\ UNCHANGED <<db, blob, queue, env, history>>
        /\ pc'[p] \in {"advance_save", "serve_save"}
    BY <1>0, <1>4 DEF AdvancePastModule, AdvanceServe, InOpenModule, InModule, Advancing, Work,
          Goto
  <2> QED
    BY <2>1 DEF StoreMoves, Found, Inserts, Saving, db, queue, env, history
<1>5. CASE AdvanceSave(p)
  BY <1>0, <1>5 DEF AdvanceSave, StoreMoves, Found, Inserts, Saving, Goto, db, queue, env,
        history
<1>6. CASE CloseResult(p)
  <2> DEFINE s == [st[p] EXCEPT !.mstat[st[p].idx] = "completed"]
  <2>1. /\ pc[p] = "close_result" /\ pc'[p] = "advance_save"
        /\ results' = [results EXCEPT ![st[p].idx] = ResultRow(s, st[p].idx)]
        /\ UNCHANGED <<invitation, row, responses, blob, queue, env, history>>
    BY <1>0, <1>6 DEF CloseResult, Work, Goto
  <2>2. st[p].idx \in Modules /\ results \in [Modules -> [state: {"absent", "open", "closed"},
                                                          count: Nat]]
    BY <2>1 DEF AtWork, HasModule, TypeOK
  <2>3. s.mstat[st[p].idx] = "completed"
    BY <1>0, <2>2 DEF SessionState
  <2>4. ResultRow(s, st[p].idx).state = "closed"
    BY <2>3 DEF ResultRow
  <2>5. \A m \in Modules :
            results'[m].state = IF m = st[p].idx THEN "closed" ELSE results[m].state
    <3> HIDE DEF s
    <3> QED
      BY <2>1, <2>2, <2>4
  <2> QED
    BY <2>1, <2>5 DEF StoreMoves, Found, Inserts, Saving, queue, env, history
<1> QED
  BY <1>1, <1>2, <1>3, <1>4, <1>5, <1>6

\* finalize.
LEMMA StoreFinalise ==
    ASSUME TypeOK, NEW p \in Procs,
           \/ FinaliseNoop(p) \/ FinaliseResult(p) \/ FinaliseSave(p) \/ FinaliseRow(p)
           \/ FinaliseInvite(p) \/ FinaliseUnjob(p) \/ FinaliseReport(p)
    PROVE  StoreMoves(p) /\ Found(p)
<1>0. /\ pc \in [Procs -> Labels] /\ st \in [Procs -> SessionState] /\ st[p] \in SessionState
      /\ row \in [status: {"none", "in_progress"} \cup Closed, expiresAt: Nat]
      /\ out \in [Procs -> Closed]
      /\ results \in [Modules -> [state: {"absent", "open", "closed"}, count: Nat]]
  BY DEF TypeOK
<1>1. CASE FinaliseNoop(p) \/ FinaliseReport(p)
  BY <1>0, <1>1 DEF FinaliseNoop, FinaliseReport, StoreMoves, Found, Inserts, Saving, End,
        Forget, db, env, history
<1>2. CASE FinaliseRow(p)
  BY <1>0, <1>2 DEF FinaliseRow, StoreMoves, Found, Inserts, Saving, Goto, queue, env, history
<1>3. CASE FinaliseInvite(p) \/ FinaliseUnjob(p)
  BY <1>0, <1>3 DEF FinaliseInvite, FinaliseUnjob, StoreMoves, Found, Inserts, Saving, Goto,
        db, queue, env, history
<1>4. CASE FinaliseSave(p)
  <2> DEFINE s == [st[p] EXCEPT !.status = "finished", !.served = NoQuestion]
  <2>1. /\ pc[p] = "finalize" /\ st[p].status # "finished"
        /\ blob' = s /\ Work(p, s, "fin_row")
        /\ UNCHANGED <<db, queue, env, history>>
    BY <1>4 DEF FinaliseSave, Finalising
  <2> HIDE DEF s
  <2>2. st'[p] = s /\ pc'[p] = "fin_row"
    BY <1>0, <2>1 DEF Work, Goto
  <2> QED
    BY <2>1, <2>2 DEF StoreMoves, Found, Inserts, Saving, db, queue, env, history
<1>5. CASE FinaliseResult(p)
  <2> DEFINE m == cur[p]
             s == IF st[p].mstat[m] = "in_progress"
                  THEN [st[p] EXCEPT !.mstat[m] = "completed"] ELSE st[p]
  <2>1. /\ pc[p] = "finalize" /\ st[p].status # "finished" /\ m \in Modules
        /\ results' = [results EXCEPT ![m] = ResultRow(s, m)]
        /\ st' = [st EXCEPT ![p] = s]
        /\ UNCHANGED <<invitation, row, responses, blob, queue, pc, env, history>>
    BY <1>5 DEF FinaliseResult, Finalising
  <2> HIDE DEF s
  <2>2. st'[p] = s
    BY <1>0, <2>1
  <2>3. \A k \in Modules :
            results'[k].state =
                IF k # m THEN results[k].state
                ELSE IF st'[p].mstat[k] = "completed" THEN "closed" ELSE "open"
    BY <1>0, <2>1, <2>2 DEF ResultRow
  <2> QED
    BY <2>1, <2>3 DEF StoreMoves, Found, Inserts, Saving, queue, env, history
<1> QED
  BY <1>1, <1>2, <1>3, <1>4, <1>5

\* Every step does to the stores what StoreMoves says.
LEMMA StoreSteps ==
    ASSUME TypeOK, AtWork, NEW p \in Procs, Step(p)
    PROVE  StoreMoves(p) /\ Found(p)
BY StoreStart, StoreBegin, StoreAnswer, StoreAdvance, StoreFinalise DEF Step

(***************************************************************************)
(* Who acts in a step without a failure                                    *)
(***************************************************************************)
Elsewhere(p) ==
    \A q \in Procs : q # p => pc'[q] = pc[q] /\ st'[q] = st[q] /\ op'[q] = op[q]

\* A process between two of its calls.
Acts(p) ==
    /\ Running \subseteq {p} /\ pc[p] # "idle"
    /\ Elsewhere(p) /\ GoesTo(p) /\ CopyMoves(p) /\ StoreMoves(p) /\ Found(p)

\* A request of a tab.
Arrives(p) ==
    /\ Running = {} /\ pc[p] = "idle" /\ Elsewhere(p)
    /\ UNCHANGED <<db, blob, queue, env, history>>
    /\ \/ /\ pc'[p] = "start_find" /\ op'[p] = "start"
          /\ st'[p] = st[p]
       \/ /\ row.status # "none"
          /\ op'[p] \in {"current", "begin", "submit"}
          /\ \/ blob.status # "absent" /\ st'[p] = blob /\ pc'[p] = Entry(op'[p])
             \/ blob.status = "absent" /\ st'[p] = st[p] /\ pc'[p] = "load_row"

\* The worker takes the job, or the sweeper finds the row overdue.
Wakes(p) ==
    /\ Running = {} /\ pc[p] = "idle" /\ pc'[p] = "auto_row" /\ Elsewhere(p)
    /\ st'[p] = st[p]
    /\ UNCHANGED <<db, blob, reportQueued, now, faults, history>>
    /\ \/ p = Worker /\ job.state = "delayed" /\ job.due <= now
       \/ p = Sweeper /\ row.status # "none" /\ row.expiresAt <= now

\* Redis loses the state.
Loses ==
    /\ Running = {} /\ lost' /\ blob' = Absent
    /\ UNCHANGED <<db, queue, pc, locals, st, now, faults, shown>>

\* Time, the recruiter, an idle restart: no request moves and no record of the answers.
Rests ==
    /\ \A q \in Procs :
         /\ pc'[q] = pc[q]
         /\ pc[q] # "idle" => st'[q] = st[q] /\ op'[q] = op[q]
         /\ op'[q] \in {op[q], "none"}
    /\ UNCHANGED <<row, responses, results, blob, reportQueued, shown, lost>>
    /\ invitation' \in {invitation, "revoked"}
    /\ now' \in {now, now + 1}

\* A request starts at its first label, with the state if Redis has it.
LEMMA RequestArrives ==
    ASSUME TypeOK, NEW p \in Tabs, Request(p), Running = {}
    PROVE  Arrives(p)
<1>0. /\ p \in Procs /\ pc \in [Procs -> Labels] /\ op \in [Procs -> Operations]
      /\ st \in [Procs -> SessionState]
  BY DEF TypeOK, Procs
<1>1. Elsewhere(p)
  BY <1>0, StepIsLocal, LocalsAreLocal DEF Elsewhere
<1>2. CASE StartCheck(p)
  BY <1>0, <1>1, <1>2 DEF StartCheck, Arrives, Goto
<1>3. ASSUME NEW o \in {"current", "begin", "submit"}, NEW q \in Questions \cup {NoQuestion},
             Load(p, o, q)
      PROVE  Arrives(p)
  <2>1. /\ pc[p] = "idle" /\ row.status # "none"
        /\ op'[p] = o
        /\ UNCHANGED <<db, blob, queue, env, history>>
    BY <1>0, <1>3 DEF Load
  <2>2. \/ blob.status # "absent" /\ st'[p] = blob /\ pc'[p] = Entry(o)
        \/ blob.status = "absent" /\ st'[p] = st[p] /\ pc'[p] = "load_row"
    BY <1>0, <1>3 DEF Load, Work, Goto
  <2> QED
    BY <1>1, <2>1, <2>2 DEF Arrives
<1> QED
  BY <1>2, <1>3 DEF Request

\* The worker and the sweeper start at auto_row, past the deadline they go by.
LEMMA BackgroundWakes ==
    ASSUME TypeOK, JobFires \/ Sweep, Running = {}
    PROVE  (\E p \in Background : Wakes(p)) \/ Rests
<1>0. /\ Worker \in Procs /\ Sweeper \in Procs /\ Worker # Sweeper
      /\ Worker \notin Tabs /\ Sweeper \notin Tabs
      /\ pc \in [Procs -> Labels] /\ op \in [Procs -> Operations]
      /\ st \in [Procs -> SessionState]
      /\ row.expiresAt \in Nat /\ SweepGrace \in Nat /\ now \in Nat
  BY ProcsAssumption, TimesAssumption DEF TypeOK, Procs
<1>1. CASE JobFires
  <2>1. Wakes(Worker)
    BY <1>0, <1>1 DEF JobFires, StartAuto, Goto, Wakes, Elsewhere, env
  <2> QED
    BY <2>1 DEF Background
<1>2. CASE Sweep /\ row.status = "in_progress" /\ row.expiresAt + SweepGrace <= now
  <2>1. row.expiresAt <= now
    BY <1>0, <1>2
  <2>2. /\ pc[Sweeper] = "idle" /\ StartAuto(Sweeper)
        /\ UNCHANGED <<db, blob, queue, ask, cur, st, now, faults, evictions, history>>
    BY <1>2 DEF Sweep
  <2>3. Elsewhere(Sweeper) /\ pc'[Sweeper] = "auto_row"
    BY <1>0, <2>2 DEF StartAuto, Goto, Elsewhere
  <2>4. Wakes(Sweeper)
    BY <1>2, <2>1, <2>2, <2>3 DEF Wakes, queue
  <2> QED
    BY <2>4 DEF Background
<1>3. CASE Sweep /\ ~(row.status = "in_progress" /\ row.expiresAt + SweepGrace <= now)
  BY <1>3 DEF Sweep, Rests, db, queue, history
<1> QED
  BY <1>1, <1>2, <1>3

\* Without a failure the environment moves no request.
LEMMA EnvironmentRests ==
    ASSUME TypeOK, Environment, faults' = 0, Running = {}
    PROVE  Loses \/ Rests
<1>0. /\ pc \in [Procs -> Labels] /\ op \in [Procs -> Operations]
      /\ st \in [Procs -> SessionState] /\ faults \in Nat
  BY DEF TypeOK
<1>1. CASE Evict \/ Lapse
  BY <1>1 DEF Evict, Lapse, Loses, env
<1>2. CASE Revoke \/ Tick
  BY <1>2 DEF Revoke, Tick, Rests, db, queue, locals, env, history
<1>3. CASE Restart
  <2>1. \A q \in Procs : pc[q] = "idle"
    BY <1>0, <1>3 DEF Restart
  <2> QED
    BY <1>3, <2>1 DEF Restart, Rests, db, history
<1> QED
  BY <1>1, <1>2, <1>3 DEF Environment

\* The five kinds of step there are as long as no call fails.
LEMMA Actors ==
    ASSUME TypeOK, AtWork, [Next]_vars, faults' = 0
    PROVE  /\ faults = 0
           /\ \/ \E p \in Procs : Acts(p)
              \/ \E p \in Tabs : Arrives(p)
              \/ \E p \in Background : Wakes(p)
              \/ Loses
              \/ Rests
<1>0. Worker \in Procs /\ faults \in Nat
  BY DEF Procs, TypeOK
<1>1. faults = 0
  BY <1>0, FaultFree
<1>2. ASSUME NEW p \in Procs, Running \subseteq {p}, Step(p)
      PROVE  Acts(p)
  <2>1. Elsewhere(p)
    BY <1>2, StepIsLocal, LocalsAreLocal DEF Elsewhere
  <2>2. StepAt(p) /\ GoesTo(p) /\ CopyMoves(p) /\ StoreMoves(p) /\ Found(p)
    BY <1>2, LabelGraph, CopySteps, StoreSteps
  <2> QED
    BY <1>2, <2>1, <2>2 DEF Acts, StepAt
<1>3. ASSUME NEW p \in Procs, Failure(p)
      PROVE  FALSE
  BY <1>0, <1>1, <1>3 DEF Failure, Swallow, Reject
<1>4. CASE UNCHANGED vars
  BY <1>4 DEF Rests, vars, db, queue, locals, env, history
<1>5. CASE Next
  <2>1. CASE \E p \in Procs : Running \subseteq {p} /\ Step(p)
    BY <1>1, <1>2, <2>1
  <2>2. CASE Running = {} /\ \E p \in Tabs : Request(p)
    BY <1>1, <2>2, RequestArrives
  <2>3. CASE Running = {} /\ (JobFires \/ Sweep)
    BY <1>1, <2>3, BackgroundWakes
  <2>4. CASE Running = {} /\ Environment
    BY <1>1, <2>4, EnvironmentRests
  <2> QED
    BY <1>3, <1>5, <2>1, <2>2, <2>3, <2>4 DEF Next
<1> QED
  BY <1>1, <1>4, <1>5

\* Where the labels of the answering, the closing and the saving are reached from.
LEMMA ComesFrom ==
    ASSUME TypeOK, NEW p \in Procs, Acts(p)
    PROVE  /\ pc'[p] = "insert" => pc[p] = "submit"
           /\ pc'[p] = "close_insert" => pc[p] = "advance"
           /\ pc'[p] = "close_result" => pc[p] \in {"advance", "close_insert"}
           /\ pc'[p] = "submit_save" => pc[p] = "insert"
           /\ pc'[p] = "advance_save" => pc[p] \in {"advance", "close_result"}
           /\ pc'[p] = "serve_save" => pc[p] = "advance"
           /\ pc'[p] = "fin_row" => pc[p] = "finalize"
           /\ pc'[p] = "submit" => pc[p] \in {"resume_blob", "replay_save"}
           /\ pc'[p] = "begin" => pc[p] \in {"resume_blob", "replay_save"}
           /\ pc'[p] = "begin_row" => pc[p] = "begin"
           /\ pc'[p] = "begin_save" => pc[p] \in {"begin", "begin_job"}
           /\ pc'[p] = "resume_blob" => pc[p] \in {"start_find", "auto_row"}
           /\ pc'[p] = "replay_answers" => pc[p] \in {"load_row", "resume_blob"}
           /\ pc'[p] = "replay_results" => pc[p] = "replay_answers"
           /\ pc'[p] = "replay_save" => pc[p] = "replay_results"
<1>1. GoesTo(p) /\ pc[p] \in Labels \ {"idle"}
  BY DEF Acts, TypeOK
<1>2. Entry(op[p]) \in {"begin", "submit", "finalize", "advance"}
  BY DEF Entry
<1>3. ASSUME pc[p] \in {"resume_blob", "replay_save"}
      PROVE  pc'[p] \in {"begin", "submit", "finalize", "advance", "replay_answers"}
             /\ (pc[p] = "replay_save" => pc'[p] # "replay_answers")
  BY <1>1, <1>2, <1>3 DEF GoesTo
<1>4. CASE pc[p] \in {"resume_blob", "replay_save"}
  BY <1>3, <1>4
<1>5. CASE pc[p] \notin {"resume_blob", "replay_save"}
  BY <1>1, <1>5 DEF GoesTo, Labels
<1> QED
  BY <1>4, <1>5

(***************************************************************************)
(* The parts of the invariant, one by one                                  *)
(***************************************************************************)

\* Every table is empty until the session row is inserted.
LEMMA NextNothingYet ==
    ASSUME TypeOK, AtWork, RowExists, NothingYet, [Next]_vars, faults' = 0
    PROVE  NothingYet'
<1> SUFFICES ASSUME row'.status = "none"
             PROVE  /\ \A q \in Questions : responses'[q] = "absent"
                    /\ \A m \in Modules : results'[m].state = "absent"
                    /\ shown' = {}
                    /\ blob'.status = "absent"
  BY DEF NothingYet
<1>0. row.status = "none" /\ Absent.status = "absent"
  BY RowStays DEF Absent, FreshState
<1>1. \A p \in Procs : pc[p] \in BeforeRow
  BY RowStays DEF RowExists
<1>2. ASSUME NEW p \in Procs, Acts(p)
      PROVE  responses' = responses /\ results' = results /\ shown' = shown /\ blob' = blob
  BY <1>1, <1>2 DEF Acts, BeforeRow, GoesTo, StoreMoves, Inserts, Saving
<1>3. ASSUME \/ \E p \in Tabs : Arrives(p)
             \/ \E p \in Background : Wakes(p)
             \/ Loses \/ Rests
      PROVE  /\ responses' = responses /\ results' = results /\ shown' = shown
             /\ blob' = blob \/ blob' = Absent
  BY <1>3 DEF Arrives, Wakes, Loses, Rests, db, history
<1>4. /\ responses' = responses /\ results' = results /\ shown' = shown
      /\ blob' = blob \/ blob' = Absent
  BY <1>2, <1>3, Actors
<1> QED
  BY <1>0, <1>4 DEF NothingYet

\* The worker and the sweeper alone run autoSubmitSession.
LEMMA NextOpsFit ==
    ASSUME TypeOK, AtWork, OpsFit, [Next]_vars, faults' = 0
    PROVE  OpsFit'
<1> SUFFICES ASSUME NEW q \in Tabs PROVE op'[q] # "auto" /\ pc'[q] # "auto_row"
  BY DEF OpsFit
<1>0. /\ q \in Procs /\ q \notin Background /\ pc[q] \in Labels
      /\ op[q] # "auto" /\ pc[q] # "auto_row"
      /\ \A o : Entry(o) # "auto_row"
  BY ProcsAssumption DEF OpsFit, Procs, Background, TypeOK, Entry
<1>1. CASE Acts(q)
  <2>1. op'[q] \in {"none", op[q]}
    BY <1>1 DEF Acts, CopyMoves
  <2>2. pc'[q] # "auto_row"
    BY <1>0, <1>1 DEF Acts, GoesTo, Labels
  <2> QED
    BY <1>0, <2>1, <2>2
<1>2. CASE Arrives(q)
  BY <1>0, <1>2 DEF Arrives
<1>3. ASSUME NEW p \in Procs, p # q, Acts(p) \/ Arrives(p) \/ Wakes(p)
      PROVE  pc'[q] = pc[q] /\ op'[q] = op[q]
  BY <1>0, <1>3 DEF Acts, Arrives, Wakes, Elsewhere
<1>4. CASE Loses \/ Rests
  BY <1>0, <1>4 DEF Loses, Rests, locals
<1> QED
  BY <1>0, <1>1, <1>2, <1>3, <1>4, Actors DEF Procs, Background

\* Nobody works beside an opening that is not overtaken.
LEMMA OpeningAlone ==
    ASSUME OneTab, ~Overtaken, NEW p \in Tabs, Opening(p)
    PROVE  \A q \in Procs : q # p => pc[q] = "idle"
BY DEF OneTab, Overtaken, Procs

\* A Begin reads the state and decides in one go, and is alone until it writes.
LEMMA NextFirstFits ==
    ASSUME TypeOK, AtWork, FirstFits, [Next]_vars, faults' = 0
    PROVE  FirstFits'
<1> SUFFICES ASSUME NEW q \in Tabs, pc'[q] \in {"begin_row", "begin_unjob", "begin_job"}
             PROVE  FirstBegun(st[q])'
  BY DEF FirstFits
<1>0. /\ q \in Procs /\ q \notin Background
      /\ st[q] \in SessionState /\ pc[q] \in Labels
      /\ \A o : Entry(o) \notin {"begin_row", "begin_unjob", "begin_job"}
  BY ProcsAssumption DEF Procs, Background, TypeOK, Entry
<1>1. CASE Acts(q)
  <2>1. CASE pc[q] = "begin"
    <3>1. /\ pc'[q] = "begin_row" /\ IsFirstToStart(st[q]) /\ st'[q].idx = st[q].idx
          /\ st'[q].mstat = [st[q].mstat EXCEPT ![st[q].idx] = "in_progress"]
      BY <1>1, <2>1 DEF Acts, GoesTo, CopyMoves
    <3>2. st[q].mstat \in [Modules -> {"pending", "in_progress", "completed"}]
      BY <1>0 DEF SessionState
    <3> QED
      BY <3>1, <3>2 DEF IsFirstToStart, FirstBegun
  <2>2. CASE pc[q] # "begin"
    <3>1. pc[q] \in {"begin_row", "begin_unjob"}
      BY <1>0, <1>1, <2>2 DEF Acts, GoesTo, Labels
    <3>2. st'[q] = st[q] /\ FirstBegun(st[q])
      BY <1>1, <3>1 DEF Acts, GoesTo, CopyMoves, Keeping, FirstFits
    <3> QED
      BY <3>2 DEF FirstBegun
  <2> QED
    BY <2>1, <2>2
<1>2. CASE pc'[q] = pc[q] /\ st'[q] = st[q]
  BY <1>2 DEF FirstFits, FirstBegun
<1>3. ~Arrives(q)
  BY <1>0 DEF Arrives
<1>4. ASSUME NEW p \in Procs, p # q, Acts(p) \/ Arrives(p) \/ Wakes(p)
      PROVE  pc'[q] = pc[q] /\ st'[q] = st[q]
  BY <1>0, <1>4 DEF Acts, Arrives, Wakes, Elsewhere
<1>5. CASE Loses \/ Rests
  BY <1>0, <1>2, <1>5 DEF Loses, Rests
<1> QED
  BY <1>0, <1>1, <1>2, <1>3, <1>4, <1>5, Actors DEF Procs, Background

LEMMA NextBeginFits ==
    ASSUME TypeOK, AtWork, BeginFits, OneTab, ~Overtaken, [Next]_vars, faults' = 0
    PROVE  BeginFits'
<1> SUFFICES ASSUME NEW q \in Tabs
             PROVE  /\ pc'[q] = "begin" => blob' = st'[q]
                    /\ pc'[q] = "begin_row" => blob'.status \in {"absent", st'[q].status}
  BY DEF BeginFits
<1>0. /\ q \in Procs /\ q \notin Background /\ Absent.status = "absent"
      /\ pc[q] = "begin" => blob = st[q]
      /\ pc[q] = "begin_row" => blob.status \in {"absent", st[q].status}
      /\ \A o : Entry(o) # "begin_row"
  BY ProcsAssumption DEF BeginFits, Procs, Background, Absent, FreshState, Entry
<1>1. CASE Acts(q)
  <2>1. CASE pc'[q] = "begin"
    <3>1. CASE pc[q] = "resume_blob"
      BY <1>1, <2>1, <3>1 DEF Acts, CopyMoves, StoreMoves, Saving
    <3>2. CASE pc[q] = "replay_save"
      BY <1>1, <2>1, <3>2 DEF Acts, CopyMoves, StoreMoves, Saving, Keeping
    <3> QED
      BY <1>0, <1>1, <2>1, <3>1, <3>2, ComesFrom
  <2>2. CASE pc'[q] = "begin_row"
    <3>1. pc[q] = "begin"
      BY <1>0, <1>1, <2>2, ComesFrom
    <3>2. blob' = blob /\ st'[q].status = st[q].status
      BY <1>1, <2>2, <3>1 DEF Acts, CopyMoves, StoreMoves, Saving
    <3> QED
      BY <1>0, <2>2, <3>1, <3>2
  <2> QED
    BY <2>1, <2>2
<1>2. CASE Arrives(q)
  BY <1>0, <1>2 DEF Arrives, Entry
<1>3. ASSUME NEW p \in Procs, p # q, Acts(p), pc'[q] \in {"begin", "begin_row"} PROVE FALSE
  <2>1. pc[q] \in {"begin", "begin_row"}
    BY <1>0, <1>3 DEF Acts, Elsewhere
  <2>2. pc[q] = "begin_row"
    BY <1>0, <1>3, <2>1 DEF Acts, Running, Synchronous
  <2> QED
    BY <1>3, <2>2, OpeningAlone DEF Acts, Opening
<1>4. ASSUME NEW p \in Procs, p # q, Arrives(p) \/ Wakes(p)
      PROVE  pc'[q] = pc[q] /\ st'[q] = st[q] /\ blob' = blob
  BY <1>0, <1>4 DEF Arrives, Wakes, Elsewhere
<1>5. CASE Loses
  <2>1. pc'[q] = pc[q] /\ st'[q] = st[q] /\ blob' = Absent /\ pc[q] # "begin"
    BY <1>0, <1>5 DEF Loses, Running, Synchronous
  <2> QED
    BY <1>0, <2>1
<1>6. CASE Rests
  BY <1>0, <1>6 DEF Rests
<1>7. CASE pc'[q] = pc[q] /\ st'[q] = st[q] /\ blob' = blob
  BY <1>0, <1>7
<1> QED
  BY <1>0, <1>1, <1>2, <1>3, <1>4, <1>5, <1>6, <1>7, Actors DEF Procs, Background

\* Before the deadline nobody works beside the tab.
LEMMA OthersIdle ==
    ASSUME TypeOK, OneTab, BackgroundIsLate, NEW p \in Tabs,
           row.status # "none" => now < row.expiresAt
    PROVE  \A q \in Procs : q # p => pc[q] = "idle"
BY DEF TypeOK, OneTab, BackgroundIsLate, Procs, Background

\* The tab that works on a live state before its deadline works alone.
LEMMA BeforeDeadline ==
    ASSUME TypeOK, BackgroundIsLate, now < row.expiresAt
    PROVE  \A q \in Background : pc[q] = "idle"
BY DEF TypeOK, BackgroundIsLate

\* The worker and the sweeper start past the deadline, and it does not move under them.
LEMMA NextBackgroundIsLate ==
    ASSUME TypeOK, AtWork, RowExists, Watched, BackgroundIsLate, OneTab,
           ~Overtaken, ~Overtaken', [Next]_vars, faults' = 0
    PROVE  BackgroundIsLate'
<1> SUFFICES ASSUME NEW q \in Background, pc'[q] # "idle"
             PROVE  row'.status # "none" /\ row'.expiresAt <= now'
  BY DEF BackgroundIsLate
<1>0. /\ q \in Procs /\ q \notin Tabs
      /\ now \in Nat /\ row.expiresAt \in Nat
  BY ProcsAssumption DEF Background, Procs, TypeOK
<1>1. CASE pc[q] # "idle"
  <2>1. row.status # "none" /\ row.expiresAt <= now
    BY <1>1 DEF BackgroundIsLate
  <2>2. row'.status # "none"
    BY <2>1, RowStays
  <2>3. ASSUME NEW p \in Procs, Acts(p)
        PROVE  row'.expiresAt = row.expiresAt /\ now' = now
    <3>1. pc[p] # "begin_row"
      <4> SUFFICES ASSUME pc[p] = "begin_row" PROVE FALSE
        OBVIOUS
      <4>1. p \in Tabs
        BY DEF Watched, BackgroundFits, AutoLabels, Procs
      <4> QED
        BY <1>0, <1>1, <4>1, OpeningAlone DEF Opening
    <3>2. ~(pc[p] = "create_row" /\ pc'[p] = "create_invite")
      BY <2>1, <2>3 DEF Acts, CopyMoves
    <3> QED
      BY <2>3, <3>1, <3>2 DEF Acts, StoreMoves
  <2>4. CASE (\E p \in Tabs : Arrives(p)) \/ (\E p \in Background : Wakes(p)) \/ Loses \/ Rests
    BY <1>0, <2>1, <2>2, <2>4 DEF Arrives, Wakes, Loses, Rests, db, env
  <2> QED
    BY <1>0, <2>1, <2>2, <2>3, <2>4, Actors
<1>2. CASE pc[q] = "idle"
  <2>1. Wakes(q)
    <3>1. \A p \in Procs : p # q /\ (Acts(p) \/ Arrives(p) \/ Wakes(p)) => pc'[q] = pc[q]
      BY <1>0 DEF Acts, Arrives, Wakes, Elsewhere
    <3>2. ~Acts(q)
      BY <1>2 DEF Acts
    <3>3. Loses \/ Rests => pc'[q] = pc[q]
      BY <1>0 DEF Loses, Rests
    <3> QED
      BY <1>0, <1>2, <3>1, <3>2, <3>3, Actors DEF Procs, Background
  <2>2. row' = row /\ now' = now
    BY <2>1 DEF Wakes, db
  <2>3. CASE q = Sweeper /\ row.status # "none" /\ row.expiresAt <= now
    BY <2>2, <2>3
  <2>4. CASE q = Worker /\ job.state = "delayed" /\ job.due <= now
    <3>1. faults = 0
      BY Actors
    <3>2. row.status # "none"
      BY <2>4, <3>1 DEF Watched, JobFits
    <3>4. \A p \in Procs : pc[p] # "begin_unjob"
      <4> SUFFICES ASSUME NEW p \in Procs, pc[p] = "begin_unjob" PROVE FALSE
        OBVIOUS
      <4>1. p \in Tabs
        BY DEF Watched, BackgroundFits, AutoLabels, Procs
      <4>2. pc'[p] = "begin_unjob" /\ pc'[q] = "auto_row"
        BY <1>0, <2>1, <4>1 DEF Wakes, Elsewhere
      <4> QED
        BY <4>1, <4>2 DEF Overtaken, Opening, Background
    <3>5. row.expiresAt <= job.due
      BY <1>0, <2>4, <3>1, <3>4 DEF Watched, JobDue, TypeOK
    <3> QED
      BY <1>0, <2>2, <2>4, <3>2, <3>5 DEF TypeOK
  <2> QED
    BY <2>1, <2>3, <2>4, ProcsAssumption DEF Wakes
<1> QED
  BY <1>1, <1>2

\* Nobody closes an attempt that is still being created.
LEMMA NextCreatedIsOpen ==
    ASSUME TypeOK, AtWork, CreatedIsOpen, OneTab, ~Overtaken, [Next]_vars, faults' = 0
    PROVE  CreatedIsOpen'
<1> SUFFICES ASSUME NEW q \in Tabs, pc'[q] \in Creating PROVE Open'
  BY DEF CreatedIsOpen
<1>0. q \in Procs /\ \A o : Entry(o) \notin Creating
  BY DEF Procs, Entry, Creating
<1>1. CASE Acts(q)
  <2>1. CASE pc[q] = "create_row"
    BY <1>1, <2>1 DEF Acts, GoesTo, CopyMoves, Creating, Open
  <2>2. CASE pc[q] # "create_row"
    <3>1. pc[q] \in {"create_invite", "create_save"}
      BY <1>0, <1>1, <2>2 DEF Acts, GoesTo, Creating, TypeOK, Labels
    <3>2. row' = row
      BY <1>1, <3>1 DEF Acts, StoreMoves
    <3> QED
      BY <3>1, <3>2 DEF CreatedIsOpen, Creating, Open
  <2> QED
    BY <2>1, <2>2
<1>2. CASE pc'[q] = pc[q] /\ row' = row
  BY <1>2 DEF CreatedIsOpen, Open
<1>3. ASSUME NEW p \in Procs, p # q, Acts(p) PROVE FALSE
  <2>1. pc[q] \in Creating
    BY <1>0, <1>3 DEF Acts, Elsewhere
  <2> QED
    BY <1>3, <2>1, OpeningAlone DEF Acts, Opening, Creating
<1>4. ~Arrives(q)
  BY <1>0 DEF Arrives, Creating
<1>5. ASSUME NEW p \in Procs, p # q, Arrives(p) \/ Wakes(p)
      PROVE  pc'[q] = pc[q] /\ row' = row
  BY <1>0, <1>5 DEF Arrives, Wakes, Elsewhere, db
<1>6. CASE Loses \/ Rests
  BY <1>0, <1>2, <1>6 DEF Loses, Rests, db
<1>7. q \notin Background
  BY ProcsAssumption DEF Background
<1> QED
  BY <1>1, <1>2, <1>3, <1>4, <1>5, <1>6, <1>7, Actors DEF Procs, Background

\* Whoever closes the row goes on to the invitation and to the report.
LEMMA NextInvitationFits ==
    ASSUME TypeOK, AtWork, Watched, CreatedIsOpen, InvitationFits, [Next]_vars, faults' = 0
    PROVE  InvitationFits'
<1>0. \A p \in Procs : pc[p] = "create_invite" => ~IsClosed
  <2>1. ASSUME NEW p \in Procs, pc[p] = "create_invite" PROVE p \in Tabs
    BY <2>1 DEF Watched, BackgroundFits, AutoLabels, Procs
  <2> QED
    BY <2>1 DEF CreatedIsOpen, Creating, Open, IsClosed, Closed
<1>1. CASE \E p \in Procs : Acts(p)
  <2>1. PICK p \in Procs : Acts(p)
    BY <1>1
  <2>2. invitation' = "completed" => IsClosed'
    <3>1. CASE pc[p] = "fin_invite"
      BY <3>1, ClosedStays DEF Watched, ClosingFits, ClosedLabels
    <3>2. CASE pc[p] # "fin_invite" /\ invitation' = "completed"
      <4>1. invitation = "completed"
        BY <2>1, <3>2 DEF Acts, StoreMoves
      <4> QED
        BY <4>1, ClosedStays DEF InvitationFits
    <3> QED
      BY <3>1, <3>2
  <2>3. CASE IsClosed
    <3>1. pc[p] # "create_invite"
      BY <1>0, <2>3
    <3>2. \/ invitation' \in {"completed", "revoked"}
          \/ \E q \in Procs : pc'[q] = "fin_invite"
      <4>1. CASE invitation \in {"completed", "revoked"}
        BY <2>1, <3>1, <4>1 DEF Acts, StoreMoves
      <4>2. ASSUME NEW q \in Procs, pc[q] = "fin_invite"
            PROVE  invitation' = "completed" \/ pc'[q] = "fin_invite"
        BY <2>1, <4>2 DEF Acts, StoreMoves, Elsewhere
      <4> QED
        BY <2>3, <4>1, <4>2 DEF InvitationFits
    <3>3. reportQueued' \/ \E q \in Procs : pc'[q] \in ClosedLabels
      <4>1. CASE reportQueued
        BY <2>1, <4>1 DEF Acts, StoreMoves
      <4>2. ASSUME NEW q \in Procs, pc[q] \in ClosedLabels
            PROVE  reportQueued' \/ pc'[q] \in ClosedLabels
        BY <2>1, <4>2 DEF Acts, StoreMoves, Elsewhere, GoesTo, ClosedLabels
      <4> QED
        BY <2>3, <4>1, <4>2 DEF InvitationFits
    <3> QED
      BY <2>2, <3>2, <3>3 DEF InvitationFits
  <2>4. CASE ~IsClosed /\ IsClosed'
    <3>1. pc[p] = "fin_row"
      <4>1. CASE pc[p] = "create_row"
        BY <2>1, <2>4, <4>1 DEF Acts, GoesTo, StoreMoves, CopyMoves, IsClosed, Closed
      <4>2. CASE pc[p] # "create_row" /\ pc[p] # "fin_row"
        BY <2>1, <2>4, <4>2 DEF Acts, StoreMoves, IsClosed
      <4> QED
        BY <4>1, <4>2
    <3>2. pc'[p] = "fin_invite"
      BY <2>1, <3>1 DEF Acts, GoesTo
    <3> QED
      BY <2>2, <3>2 DEF InvitationFits, ClosedLabels
  <2> QED
    BY <2>2, <2>3, <2>4 DEF InvitationFits
<1>2. CASE \/ \E p \in Tabs : Arrives(p)
           \/ \E p \in Background : Wakes(p)
           \/ Loses \/ Rests
  <2>1. /\ invitation' \in {invitation, "revoked"} /\ row' = row
        /\ reportQueued' = reportQueued
    BY <1>2 DEF Arrives, Wakes, Loses, Rests, db, queue
  <2>2. ASSUME NEW q \in Procs, pc[q] # "idle" PROVE pc'[q] = pc[q]
    BY <1>2, <2>2 DEF Arrives, Wakes, Loses, Rests, Elsewhere
  <2>3. \A q \in Procs : /\ pc[q] = "fin_invite" => pc'[q] = "fin_invite"
                         /\ pc[q] \in ClosedLabels => pc'[q] \in ClosedLabels
    BY <2>2 DEF ClosedLabels
  <2>4. IsClosed' <=> IsClosed
    BY <2>1 DEF IsClosed
  <2> QED
    BY <2>1, <2>3, <2>4 DEF InvitationFits
<1> QED
  BY <1>1, <1>2, Actors

\* Whatever is loaded or replayed has the deadline the row states.
LEMMA NextCopiesAgree ==
    ASSUME TypeOK, AtWork, RowExists, Watched, NothingYet, FirstFits, CopiesAgree, OneTab,
           ~Overtaken, [Next]_vars, faults' = 0
    PROVE  CopiesAgree'
<1> DEFINE Held(q) == /\ pc[q] \notin Blank => st[q].status # "absent"
                      /\ pc[q] \notin Blank \cup {"begin_row"} => st[q].expiresAt = row.expiresAt
<1>0. /\ \A q \in Procs : Held(q)
      /\ Worker \notin Tabs /\ Sweeper \notin Tabs
      /\ Absent.status = "absent"
      /\ \A o : Entry(o) \notin Blank \cup {"begin_row"}
  BY ProcsAssumption DEF CopiesAgree, Absent, FreshState, Entry, Blank
\* Whoever is beside a tab at work on a Begin is idle.
<1>1. ASSUME NEW p \in Tabs, Beginning(p) \/ pc[p] = "begin_row"
      PROVE  \A q \in Procs : q # p => pc[q] = "idle"
  BY <1>1, OpeningAlone DEF Opening, Beginning
<1>2. CASE \E p \in Procs : Acts(p)
  <2>0. PICK p \in Procs : Acts(p)
    BY <1>2
  <2>1. CASE pc[p] = "create_row" /\ pc'[p] = "create_invite"
    <3>1. /\ row.status = "none" /\ blob' = blob
          /\ st'[p] = FreshState("in_progress", row'.expiresAt)
      BY <2>0, <2>1 DEF Acts, CopyMoves, StoreMoves, Saving
    <3>2. \A q \in Procs : q # p => pc'[q] \in Blank
      BY <2>0, <3>1 DEF Acts, Elsewhere, RowExists, BeforeRow, Blank
    <3>3. blob'.status = "absent"
      BY <3>1 DEF NothingYet
    <3>4. st'[p].status # "absent" /\ st'[p].expiresAt = row'.expiresAt
      BY <3>1 DEF FreshState
    <3> QED
      BY <3>2, <3>3, <3>4 DEF CopiesAgree
  <2>2. CASE pc[p] = "begin_row"
    <3>1. p \in Tabs
      BY <2>2 DEF Watched, BackgroundFits, AutoLabels, Procs
    <3>2. \A q \in Procs : q # p => pc'[q] \in Blank
      BY <1>1, <2>0, <2>2, <3>1 DEF Acts, Elsewhere, Blank
    <3>3. /\ pc'[p] = "begin_unjob" /\ st'[p] = st[p] /\ row'.expiresAt = st[p].expiresAt
      BY <2>0, <2>2 DEF Acts, GoesTo, CopyMoves, Keeping, StoreMoves
    <3>4. st[p].status # "absent"
      BY <1>0, <2>2 DEF Blank
    <3>5. Beginning(p)'
      BY <3>3 DEF Beginning
    <3> QED
      BY <3>1, <3>2, <3>3, <3>4, <3>5 DEF CopiesAgree
  <2>3. CASE ~(pc[p] = "create_row" /\ pc'[p] = "create_invite") /\ pc[p] # "begin_row"
    <3>1. row'.expiresAt = row.expiresAt
      BY <2>0, <2>3 DEF Acts, StoreMoves
    <3>2. ASSUME pc[p] = "resume_blob", blob.status # "absent"
          PROVE  blob.expiresAt = row.expiresAt
      <4>1. ASSUME NEW q \in Tabs, Beginning(q) PROVE FALSE
        BY <1>1, <3>2, <4>1 DEF Procs, Beginning
      <4> QED
        BY <3>2, <4>1 DEF CopiesAgree
    <3>3. pc'[p] \notin Blank => st'[p].status # "absent"
      <4>0. \A e : /\ FreshState("in_progress", e).status # "absent"
                   /\ FreshState("finished", e).status # "absent"
        BY DEF FreshState
      <4>1. CASE pc[p] \in {"start_find", "load_row", "auto_row", "create_row"}
        BY <2>0, <2>3, <4>0, <4>1 DEF Acts, GoesTo, CopyMoves, Blank
      <4>2. CASE pc[p] = "resume_blob"
        BY <1>0, <2>0, <4>2 DEF Acts, CopyMoves, Blank
      <4>3. CASE pc[p] \notin Blank \cup {"resume_blob"} /\ pc'[p] # "idle"
        <5>1. st[p].status # "absent" /\ pc[p] \in Labels
          BY <1>0, <4>3 DEF TypeOK
        <5>2. \/ st'[p].status = st[p].status
              \/ st'[p].status = "finished"
          BY <2>0, <2>3, <4>3, <5>1 DEF Acts, GoesTo, CopyMoves, Keeping, SameHead, Blank, Labels
        <5> QED
          BY <5>1, <5>2
      <4> QED
        BY <2>0, <4>1, <4>2, <4>3 DEF Acts, Blank
    <3>4. pc'[p] \notin Blank \cup {"begin_row"} => st'[p].expiresAt = row.expiresAt
      <4>0. \A s, e : FreshState(s, e).expiresAt = e
        BY DEF FreshState
      <4>1. CASE pc[p] \in {"start_find", "load_row", "auto_row", "create_row"}
        BY <2>0, <2>3, <4>0, <4>1 DEF Acts, GoesTo, CopyMoves, Blank
      <4>2. CASE pc[p] = "resume_blob"
        BY <1>0, <2>0, <3>2, <4>2 DEF Acts, CopyMoves, Blank
      <4>3. CASE pc[p] \notin Blank \cup {"resume_blob"} /\ pc'[p] \notin {"idle", "begin_row"}
        <5>1. st[p].expiresAt = row.expiresAt /\ pc[p] \in Labels
          BY <1>0, <2>3, <4>3 DEF TypeOK
        <5>2. st'[p].expiresAt = st[p].expiresAt
          BY <2>0, <2>3, <4>3, <5>1 DEF Acts, GoesTo, CopyMoves, Keeping, SameHead, Blank, Labels
        <5> QED
          BY <5>1, <5>2
      <4> QED
        BY <2>0, <4>1, <4>2, <4>3 DEF Acts, Blank
    <3>5. blob'.status # "absent" =>
            \/ blob'.expiresAt = row.expiresAt
            \/ \E q \in Tabs : Beginning(q)'
      <4>1. CASE pc[p] \in Saving
        <5>1. blob' = st[p] /\ st[p].expiresAt = row.expiresAt
          BY <1>0, <2>0, <4>1 DEF Acts, StoreMoves, Saving, Blank
        <5> QED
          BY <5>1
      <4>2. CASE pc'[p] = "fin_row"
        <5>1. pc[p] = "finalize"
          BY <1>0, <2>0, <4>2 DEF Acts, GoesTo, TypeOK, Labels, Entry
        <5>2. blob' = st'[p]
          BY <2>0, <4>2, <5>1 DEF Acts, StoreMoves
        <5> QED
          BY <3>4, <4>2, <5>2 DEF Blank
      <4>3. CASE pc[p] \notin Saving /\ pc'[p] # "fin_row"
        <5>1. blob' = blob
          BY <2>0, <4>3 DEF Acts, StoreMoves
        <5>2. ASSUME NEW q \in Tabs, Beginning(q)
              PROVE  Beginning(q)'
          <6>1. CASE q = p
            <7>1. /\ pc[p] \in {"begin_unjob", "begin_job"}
                  /\ pc'[p] \in {"begin_job", "begin_save"} /\ st'[p] = st[p]
              BY <2>0, <4>3, <5>2, <6>1
                 DEF Acts, GoesTo, CopyMoves, Keeping, Saving, Beginning
            <7>2. FirstBegun(st[p])
              BY <6>1, <7>1 DEF FirstFits
            <7> QED
              BY <6>1, <7>1, <7>2 DEF Beginning, FirstBegun
          <6>2. CASE q # p
            <7>1. pc'[q] = pc[q] /\ st'[q] = st[q]
              BY <2>0, <6>2 DEF Acts, Elsewhere, Procs
            <7> QED
              BY <5>2, <7>1 DEF Beginning, FirstBegun
          <6> QED
            BY <6>1, <6>2
        <5> QED
          BY <5>1, <5>2 DEF CopiesAgree
      <4> QED
        BY <4>1, <4>2, <4>3
    <3>6. \A q \in Procs : q # p => pc'[q] = pc[q] /\ st'[q] = st[q]
      BY <2>0 DEF Acts, Elsewhere
    <3> QED
      BY <1>0, <3>1, <3>3, <3>4, <3>5, <3>6 DEF CopiesAgree
  <2> QED
    BY <2>1, <2>2, <2>3
<1>3. CASE \E p \in Tabs : Arrives(p)
  <2>0. PICK p \in Tabs : Arrives(p)
    BY <1>3
  <2>1. row' = row /\ blob' = blob /\ pc[p] = "idle" /\ p \in Procs
    BY <2>0 DEF Arrives, db, Procs
  <2>2. blob.status # "absent" => blob.expiresAt = row.expiresAt
    BY <1>1, <2>1 DEF CopiesAgree, OneTab, Beginning
  <2>3. /\ pc'[p] \notin Blank => st'[p] = blob /\ blob.status # "absent"
        /\ pc'[p] # "begin_row"
    BY <1>0, <2>0 DEF Arrives, Blank
  <2>4. \A q \in Procs : q # p => pc'[q] = pc[q] /\ st'[q] = st[q]
    BY <2>0 DEF Arrives, Elsewhere
  <2>5. \A q \in Procs : Held(q)'
    BY <1>0, <2>1, <2>2, <2>3, <2>4
  <2> QED
    BY <2>1, <2>2, <2>5 DEF CopiesAgree
<1>4. CASE (\E p \in Background : Wakes(p)) \/ Loses \/ Rests
  <2>1. row' = row /\ (blob' = blob \/ blob' = Absent)
    BY <1>4 DEF Wakes, Loses, Rests, db
  <2>2. \A q \in Procs : pc'[q] \notin Blank => pc'[q] = pc[q] /\ st'[q] = st[q]
    BY <1>4 DEF Wakes, Loses, Rests, Elsewhere, Blank
  <2>3. \A q \in Tabs : Beginning(q) => Beginning(q)'
    <3> SUFFICES ASSUME NEW q \in Tabs, Beginning(q) PROVE Beginning(q)'
      OBVIOUS
    <3>1. q \in Procs /\ q \notin Background /\ pc[q] # "idle"
      BY ProcsAssumption DEF Beginning, Procs, Background
    <3>2. pc'[q] = pc[q] /\ st'[q] = st[q]
      BY <1>4, <3>1 DEF Wakes, Loses, Rests, Elsewhere
    <3> QED
      BY <3>2 DEF Beginning, FirstBegun
  <2>4. \A q \in Procs : Held(q)'
    BY <1>0, <2>1, <2>2
  <2> QED
    BY <1>0, <2>1, <2>3, <2>4 DEF CopiesAgree
<1> QED
  BY <1>2, <1>3, <1>4, Actors

\* The worker and the sweeper rebuild open attempts only.
LEMMA NextBackgroundReplays ==
    ASSUME TypeOK, AtWork, Watched, BackgroundReplays, [Next]_vars, faults' = 0
    PROVE  BackgroundReplays'
<1> SUFFICES ASSUME NEW q \in Background, pc'[q] \in Replaying \cup {"resume_blob"}
             PROVE  st'[q].status = "in_progress"
  BY DEF BackgroundReplays
<1>0. /\ q \in Procs /\ q \notin Tabs /\ pc[q] \in Labels
      /\ pc[q] # "idle" => pc[q] \in AutoLabels /\ op[q] = "auto"
      /\ Entry("auto") = "finalize"
  BY ProcsAssumption DEF Background, Procs, TypeOK, Watched, BackgroundFits, Entry
<1>1. CASE Acts(q)
  <2>1. CASE pc[q] = "auto_row"
    BY <1>1, <2>1 DEF Acts, GoesTo, CopyMoves, Replaying, FreshState
  <2>2. CASE pc[q] # "auto_row"
    <3>1. pc[q] \in {"resume_blob", "replay_answers", "replay_results"}
      BY <1>0, <1>1, <2>2 DEF Acts, GoesTo, Replaying, AutoLabels
    <3>2. st[q].status = "in_progress"
      BY <3>1 DEF BackgroundReplays, Replaying
    <3>3. st'[q].status = st[q].status
      BY <1>0, <1>1, <3>1 DEF Acts, CopyMoves, SameHead, Replaying
    <3> QED
      BY <3>2, <3>3
  <2> QED
    BY <2>1, <2>2
<1>2. CASE Wakes(q)
  BY <1>2 DEF Wakes, Replaying
<1>3. CASE pc'[q] = pc[q] /\ st'[q] = st[q]
  BY <1>3 DEF BackgroundReplays
<1>4. ASSUME NEW p \in Procs, p # q, Acts(p) \/ Arrives(p) \/ Wakes(p)
      PROVE  pc'[q] = pc[q] /\ st'[q] = st[q]
  BY <1>0, <1>4 DEF Acts, Arrives, Wakes, Elsewhere
<1>5. CASE Loses \/ Rests
  BY <1>0, <1>3, <1>5 DEF Loses, Rests, Replaying
<1> QED
  BY <1>0, <1>1, <1>2, <1>3, <1>4, <1>5, Actors DEF Procs, Background

\* Once a process has begun to close an open attempt it goes on until the row is closed.
LEMMA SettlingStays ==
    ASSUME TypeOK, AtWork, Watched, BackgroundReplays, Settling, [Next]_vars, faults' = 0
    PROVE  Settling' \/ IsClosed'
<1>1. PICK q \in Procs :
        \/ pc[q] = "finalize" /\ st[q].status # "finished"
        \/ pc[q] = "fin_row"
        \/ q \in Background /\ pc[q] \in Replaying
  BY DEF Settling
<1>2. CASE Acts(q)
  <2>1. CASE pc[q] = "finalize" /\ st[q].status # "finished"
    <3>1. pc'[q] # "idle"
      BY <1>2, <2>1 DEF Acts, Found
    <3>2. CASE pc'[q] = "finalize"
      <4>1. st'[q].status = st[q].status
        BY <1>2, <2>1, <3>2 DEF Acts, CopyMoves, SameHead
      <4> QED
        BY <2>1, <3>2, <4>1 DEF Settling
    <3>3. CASE pc'[q] = "fin_row"
      BY <3>3 DEF Settling
    <3> QED
      BY <1>2, <2>1, <3>1, <3>2, <3>3 DEF Acts, GoesTo
  <2>2. CASE pc[q] = "fin_row"
    BY <1>2, <2>2 DEF Acts, StoreMoves, IsClosed
  <2>3. CASE q \in Background /\ pc[q] \in Replaying
    <3>1. op[q] = "auto" /\ Entry("auto") = "finalize"
      BY <2>3 DEF Watched, BackgroundFits, Background, Replaying, Entry
    <3>2. st[q].status = "in_progress"
      BY <2>3 DEF BackgroundReplays
    <3>3. pc'[q] \in {"replay_results", "replay_save", "finalize"}
      BY <1>2, <2>3, <3>1 DEF Acts, GoesTo, Replaying
    <3>4. st'[q].status = "in_progress"
      BY <1>2, <2>3, <3>2, <3>3 DEF Acts, CopyMoves, Keeping, SameHead, Replaying
    <3> QED
      BY <2>3, <3>3, <3>4 DEF Settling, Replaying
  <2> QED
    BY <1>1, <2>1, <2>2, <2>3
<1>3. CASE pc'[q] = pc[q] /\ st'[q] = st[q]
  BY <1>1, <1>3 DEF Settling
<1>4. pc[q] # "idle"
  BY <1>1 DEF Replaying
<1>5. ASSUME NEW p \in Procs, p # q, Acts(p) \/ Arrives(p) \/ Wakes(p)
      PROVE  pc'[q] = pc[q] /\ st'[q] = st[q]
  BY <1>5 DEF Acts, Arrives, Wakes, Elsewhere
<1>6. CASE Loses \/ Rests
  BY <1>3, <1>4, <1>6 DEF Loses, Rests
<1>7. ~Arrives(q) /\ ~Wakes(q)
  BY <1>4 DEF Arrives, Wakes
<1> QED
  BY <1>2, <1>3, <1>5, <1>6, <1>7, Actors DEF Procs, Background

\* A calm attempt was calm before, or has just been opened.
LEMMA CalmBefore ==
    ASSUME TypeOK, AtWork, Watched, BackgroundReplays, [Next]_vars, faults' = 0, Calm'
    PROVE  Calm \/ row.status = "none"
<1>1. Open' /\ ~Settling' /\ ~IsClosed'
  BY DEF Calm, Open, IsClosed, Closed
<1>2. ~Settling
  BY <1>1, SettlingStays
<1>3. ~IsClosed
  BY <1>1, ClosedStays
<1>4. row.status \in {"none", "in_progress"} \cup Closed
  BY DEF TypeOK
<1> QED
  BY <1>2, <1>3, <1>4 DEF Calm, Open, IsClosed

\* Before the deadline only the tab closes, and it saves the state as finished first.
LEMMA NextClosedIsSeen ==
    ASSUME TypeOK, AtWork, RowExists, Watched, OpsFit, BackgroundIsLate, BeginFits,
           CopiesAgree, ClosedIsSeen, OneTab, ~Overtaken, [Next]_vars, faults' = 0
    PROVE  ClosedIsSeen'
<1> SUFFICES ASSUME row'.status # "none", now' < row'.expiresAt, Ending'
             PROVE  /\ blob'.status # "in_progress"
                    /\ \A q \in Tabs : pc'[q] \notin Blank => st'[q].status # "in_progress"
  BY DEF ClosedIsSeen
<1>0. /\ Absent.status = "absent" /\ \A q \in Tabs : q \in Procs /\ q \notin Background
      /\ now \in Nat /\ row.expiresAt \in Nat /\ now' \in Nat
  BY ProcsAssumption, NextType DEF Absent, FreshState, Procs, Background, TypeOK
\* A first Begin that moves the deadline of a closed attempt has a state that says so.
<1>a. ASSUME NEW p \in Procs, Acts(p), pc[p] = "begin_row"
      PROVE  /\ blob'.status # "in_progress"
             /\ \A q \in Tabs : pc'[q] \notin Blank => st'[q].status # "in_progress"
  <2>1. p \in Tabs
    BY <1>a DEF Watched, BackgroundFits, AutoLabels, Procs
  <2>2. \A q \in Procs : q # p => pc[q] = "idle"
    BY <1>a, <2>1, OpeningAlone DEF Opening
  <2>3. /\ pc'[p] = "begin_unjob" /\ st'[p] = st[p] /\ blob' = blob
        /\ row'.status = row.status
        /\ \A q \in Procs : q # p => pc'[q] = pc[q]
    BY <1>a DEF Acts, GoesTo, CopyMoves, Keeping, StoreMoves, Saving, Elsewhere
  <2>4. IsClosed
    BY <2>2, <2>3 DEF Ending, IsClosed
  <2>5. st[p].status # "in_progress"
    BY <1>a, <2>1, <2>4 DEF Overtaken, Opening
  <2>6. blob.status \in {"absent", st[p].status}
    BY <1>a, <2>1 DEF BeginFits
  <2> QED
    BY <2>1, <2>3, <2>5, <2>6 DEF OneTab
<1> SUFFICES ASSUME \A p \in Procs : Acts(p) => pc[p] # "begin_row"
             PROVE  /\ blob'.status # "in_progress"
                    /\ \A q \in Tabs : pc'[q] \notin Blank => st'[q].status # "in_progress"
  BY <1>a
\* The row existed and its deadline was ahead before the step as well.
<1>1. row.status # "none"
  <2>1. CASE IsClosed'
    <3>1. row.status # "none" \/ row' # row
      BY <2>1 DEF IsClosed, Closed
    <3>2. ASSUME row.status = "none", NEW p \in Procs, Acts(p) PROVE FALSE
      <4>1. pc[p] \in BeforeRow
        BY <3>2 DEF RowExists
      <4>2. row'.status \in {"none", "in_progress"}
        BY <3>2, <4>1 DEF Acts, GoesTo, StoreMoves, CopyMoves, BeforeRow
      <4> QED
        BY <2>1, <4>2 DEF IsClosed, Closed
    <3>3. ASSUME \/ \E p \in Tabs : Arrives(p)
                 \/ \E p \in Background : Wakes(p)
                 \/ Loses \/ Rests
          PROVE  row' = row
      BY <3>3 DEF Arrives, Wakes, Loses, Rests, db
    <3> QED
      BY <3>1, <3>2, <3>3, Actors
  <2>2. CASE \E p \in Procs : pc'[p] = "fin_row"
    <3>1. PICK p \in Procs : pc'[p] = "fin_row"
      BY <2>2
    <3>2. pc[p] \notin BeforeRow
      <4>1. Acts(p) => pc[p] = "finalize"
        BY <3>1 DEF Acts, GoesTo, Entry, TypeOK, Labels
      <4>2. ~Arrives(p) /\ ~Wakes(p)
        BY <3>1 DEF Arrives, Wakes, Entry
      <4>3. \A q \in Procs : q # p /\ (Acts(q) \/ Arrives(q) \/ Wakes(q)) => pc'[p] = pc[p]
        BY DEF Acts, Arrives, Wakes, Elsewhere
      <4>4. Loses \/ Rests => pc'[p] = pc[p]
        BY DEF Loses, Rests
      <4>5. pc[p] = "finalize" \/ pc'[p] = pc[p]
        BY <4>1, <4>2, <4>3, <4>4, Actors DEF Procs, Background
      <4> QED
        BY <3>1, <4>5 DEF BeforeRow
    <3> QED
      BY <3>2 DEF RowExists
  <2> QED
    BY <2>1, <2>2 DEF Ending
<1>2. now < row.expiresAt
  <2>1. ASSUME NEW p \in Procs, Acts(p) PROVE now < row.expiresAt
    <3>1. pc[p] # "begin_row"
      BY <2>1
    <3>2. now' = now /\ row'.expiresAt = row.expiresAt
      BY <1>1, <2>1, <3>1 DEF Acts, StoreMoves, CopyMoves
    <3> QED
      BY <3>2
  <2>2. ASSUME \/ \E p \in Tabs : Arrives(p)
               \/ \E p \in Background : Wakes(p)
               \/ Loses \/ Rests
        PROVE  row' = row /\ (now' = now \/ now' = now + 1)
    BY <2>2 DEF Arrives, Wakes, Loses, Rests, db, env
  <2> QED
    BY <1>0, <2>1, <2>2, Actors
<1>3. \A q \in Background : pc[q] = "idle"
  BY <1>2, BeforeDeadline
\* If the attempt was not ending, it is the tab that has begun to close it.
<1>4. CASE ~Ending
  <2>1. PICK p \in Procs : Acts(p) /\ pc[p] = "finalize" /\ pc'[p] = "fin_row"
    <3>1. ASSUME NEW p \in Procs, Acts(p) PROVE pc[p] = "finalize" /\ pc'[p] = "fin_row"
      <4>1. pc[p] # "fin_row"
        BY <1>4 DEF Ending
      <4>2. row'.status = row.status
        BY <1>1, <3>1, <4>1 DEF Acts, StoreMoves, CopyMoves
      <4>3. PICK q \in Procs : pc'[q] = "fin_row"
        BY <1>4, <4>2 DEF Ending, IsClosed
      <4>4. q = p
        BY <1>4, <3>1, <4>3 DEF Acts, Elsewhere, Ending
      <4> QED
        BY <3>1, <4>3, <4>4 DEF Acts, GoesTo, Entry, TypeOK, Labels
    <3>2. ASSUME \/ \E p \in Tabs : Arrives(p)
                 \/ \E p \in Background : Wakes(p)
                 \/ Loses \/ Rests
          PROVE  FALSE
      <4>1. row' = row
        BY <3>2 DEF Arrives, Wakes, Loses, Rests, db
      <4>2. PICK q \in Procs : pc'[q] = "fin_row"
        BY <1>4, <4>1 DEF Ending, IsClosed
      <4>3. pc[q] = "fin_row"
        BY <3>2, <4>2 DEF Arrives, Wakes, Loses, Rests, Elsewhere, Entry
      <4> QED
        BY <1>4, <4>3 DEF Ending
    <3> QED
      BY <3>1, <3>2, Actors
  <2>2. p \in Tabs
    BY <1>3, <2>1 DEF Acts, Procs, Background
  <2>3. st'[p].status = "finished" /\ blob' = st'[p]
    BY <2>1 DEF Acts, CopyMoves, StoreMoves
  <2> QED
    BY <2>2, <2>3 DEF OneTab
\* Otherwise nobody holds a state in progress to save or to go on with.
<1>5. CASE Ending
  <2>1. /\ blob.status # "in_progress"
        /\ \A q \in Tabs : pc[q] \notin Blank => st[q].status # "in_progress"
    BY <1>1, <1>2, <1>5 DEF ClosedIsSeen
  <2>2. ASSUME NEW p \in Procs, Acts(p)
        PROVE  /\ blob'.status # "in_progress"
               /\ \A q \in Tabs : pc'[q] \notin Blank => st'[q].status # "in_progress"
    <3>1. p \in Tabs /\ \A q \in Tabs : q = p
      BY <1>3, <2>2 DEF Acts, Procs, Background, OneTab
    <3>2. pc[p] \in {"start_find", "create_row", "load_row"} => row.status # "in_progress"
      <4> SUFFICES ASSUME pc[p] \in {"start_find", "create_row", "load_row"} PROVE IsClosed
        BY DEF IsClosed, Closed
      <4>1. \A q \in Procs : pc[q] # "fin_row"
        BY <1>3, <3>1 DEF Procs, Background
      <4> QED
        BY <1>5, <4>1 DEF Ending
    <3>3. pc'[p] \notin Blank => st'[p].status # "in_progress"
      <4>1. CASE pc[p] \in {"start_find", "create_row", "load_row"}
        BY <1>1, <2>2, <3>2, <4>1 DEF Acts, GoesTo, CopyMoves, Blank, FreshState
      <4>2. CASE pc[p] = "resume_blob"
        BY <2>1, <2>2, <3>1, <4>2 DEF Acts, CopyMoves, Blank
      <4>3. CASE pc[p] \notin Blank \cup {"resume_blob"} /\ pc'[p] # "idle"
        <5>1. pc[p] \in Labels /\ st[p].status # "in_progress"
          BY <2>1, <3>1, <4>3 DEF TypeOK
        <5>2. st'[p].status = st[p].status \/ st'[p].status = "finished"
          BY <2>2, <4>3, <5>1 DEF Acts, GoesTo, CopyMoves, Keeping, SameHead, Blank, Labels
        <5> QED
          BY <5>1, <5>2
      <4>4. pc[p] # "auto_row"
        BY <3>1 DEF OpsFit
      <4> QED
        BY <2>2, <4>1, <4>2, <4>3, <4>4 DEF Acts, Blank
    <3>4. blob'.status # "in_progress"
      <4>1. CASE pc[p] \in Saving
        BY <2>1, <2>2, <3>1, <4>1 DEF Acts, StoreMoves, Saving, Blank
      <4>2. CASE pc'[p] = "fin_row"
        <5>1. pc[p] = "finalize"
          BY <2>2, <4>2 DEF Acts, GoesTo, TypeOK, Labels, Entry
        <5> QED
          BY <2>2, <4>2, <5>1 DEF Acts, StoreMoves, CopyMoves
      <4>3. CASE pc[p] \notin Saving /\ pc'[p] # "fin_row"
        BY <2>1, <2>2, <4>3 DEF Acts, StoreMoves
      <4> QED
        BY <4>1, <4>2, <4>3
    <3> QED
      BY <3>1, <3>3, <3>4
  <2>3. ASSUME NEW p \in Tabs, Arrives(p)
        PROVE  /\ blob'.status # "in_progress"
               /\ \A q \in Tabs : pc'[q] \notin Blank => st'[q].status # "in_progress"
    BY <2>1, <2>3 DEF Arrives, OneTab, Blank
  <2>4. ASSUME (\E p \in Background : Wakes(p)) \/ Loses \/ Rests
        PROVE  /\ blob'.status # "in_progress"
               /\ \A q \in Tabs : pc'[q] \notin Blank => st'[q].status # "in_progress"
    <3>1. blob' = blob \/ blob' = Absent
      BY <2>4 DEF Wakes, Loses, Rests
    <3>2. \A q \in Tabs : pc'[q] \notin Blank => pc[q] = pc'[q] /\ st'[q] = st[q]
      BY <1>0, <2>4 DEF Wakes, Loses, Rests, Elsewhere, Blank
    <3> QED
      BY <1>0, <2>1, <3>1, <3>2
  <2> QED
    BY <2>2, <2>3, <2>4, Actors
<1> QED
  BY <1>4, <1>5

\* What a step records of the answers.
LEMMA Records ==
    ASSUME TypeOK, AtWork, NEW p \in Procs, Acts(p)
    PROVE  /\ ~Inserts(p) => \A m \in Modules : AnsweredIn(m)' = AnsweredIn(m)
           /\ Inserts(p) =>
                /\ st[p].served \in Questions
                /\ \A m \in Modules :
                     Cardinality(AnsweredIn(m)') =
                        IF m = ModuleOf[st[p].served] THEN Cardinality(AnsweredIn(m)) + 1
                        ELSE Cardinality(AnsweredIn(m))
                /\ \A m \in Modules :
                     m # ModuleOf[st[p].served] => AnsweredIn(m)' = AnsweredIn(m)
                /\ \A q \in Questions :
                     responses'[q] # "absent" <=> (responses[q] # "absent" \/ q = st[p].served)
<1>1. CASE ~Inserts(p)
  <2>1. responses' = responses
    BY <1>1 DEF Acts, StoreMoves
  <2> QED
    BY <1>1, <2>1 DEF AnsweredIn
<1>2. CASE Inserts(p)
  <2>0. PICK k : k = st[p].served
    OBVIOUS
  <2>1. k \in Questions
    BY <1>2, <2>0 DEF Inserts, AtWork, HasQuestion
  <2>2. responses \in [Questions -> {"absent", "answered", "unanswered"}]
    BY DEF TypeOK
  <2>3. PICK r \in {"answered", "unanswered"} :
          responses' = [responses EXCEPT ![k] = r]
    BY <1>2, <2>0 DEF Acts, StoreMoves
  <2>4. responses[k] = "absent"
    BY <1>2, <2>0 DEF Acts, StoreMoves
  <2>5. \A q \in Questions : responses'[q] # "absent" <=> (responses[q] # "absent" \/ q = k)
    BY <2>1, <2>2, <2>3, <2>4
  <2>6. Cardinality(AnsweredIn(ModuleOf[k])') = Cardinality(AnsweredIn(ModuleOf[k])) + 1
    BY <2>1, <2>3, <2>4, InsertGrows
  <2>7. \A m \in Modules : m # ModuleOf[k] => AnsweredIn(m)' = AnsweredIn(m)
    BY <2>5 DEF AnsweredIn
  <2>8. \A m \in Modules :
           Cardinality(AnsweredIn(m)') =
              IF m = ModuleOf[k] THEN Cardinality(AnsweredIn(m)) + 1
              ELSE Cardinality(AnsweredIn(m))
    <3> SUFFICES ASSUME NEW m \in Modules
                 PROVE  Cardinality(AnsweredIn(m)') =
                          IF m = ModuleOf[k] THEN Cardinality(AnsweredIn(m)) + 1
                          ELSE Cardinality(AnsweredIn(m))
      OBVIOUS
    <3>1. CASE m = ModuleOf[k]
      BY <2>6, <3>1
    <3>2. CASE m # ModuleOf[k]
      BY <2>7, <3>2
    <3> QED
      BY <3>1, <3>2
  <2> QED
    BY <1>2, <2>0, <2>1, <2>5, <2>7, <2>8
<1> QED
  BY <1>1, <1>2

\* Only the tab answers and closes sections on its way.
LEMMA OnlyTabsWrite ==
    ASSUME TypeOK, Watched, NEW p \in Procs, Acts(p), p \notin Tabs
    PROVE  /\ ~Inserts(p)
           /\ pc[p] \in AutoLabels /\ op[p] = "auto" /\ p \in Background
BY DEF Watched, BackgroundFits, AutoLabels, Inserts, Procs, Background, Acts

\* A tab that is told to go on before the deadline is alone with an open attempt.
LEMMA TabIsCalm ==
    ASSUME TypeOK, RowExists, BackgroundIsLate, CopiesAgree, ClosedIsSeen, OneTab,
           NEW p \in Tabs, pc[p] \in {"submit", "advance"},
           st[p].status # "finished", now < st[p].expiresAt
    PROVE  /\ Calm /\ st[p].status = "in_progress"
           /\ \A q \in Procs : q # p => pc[q] = "idle"
<1>0. p \in Procs /\ p \notin Background /\ st[p] \in SessionState
  BY ProcsAssumption DEF Procs, Background, TypeOK
<1>1. /\ st[p].expiresAt = row.expiresAt /\ st[p].status # "absent"
      /\ row.status # "none"
  BY <1>0 DEF CopiesAgree, Blank, RowExists, BeforeRow
<1>2. \A q \in Procs : q # p => pc[q] = "idle"
  BY <1>1, OthersIdle
<1>3. st[p].status = "in_progress"
  BY <1>0, <1>1 DEF SessionState
<1>4. ~Ending
  BY <1>1, <1>3 DEF ClosedIsSeen, Blank
<1>5. Open
  BY <1>1, <1>4 DEF Ending, IsClosed, Open, TypeOK
<1>6. ~Settling
  BY <1>0, <1>2 DEF Settling, Replaying
<1> QED
  BY <1>2, <1>3, <1>5, <1>6 DEF Calm

\* Beside a calm attempt the worker and the sweeper write nothing.
LEMMA BackgroundIsHarmless ==
    ASSUME TypeOK, AtWork, RowExists, Watched, NEW p \in Procs, p \notin Tabs, Acts(p),
           Calm \/ row.status = "none"
    PROVE  responses' = responses /\ results' = results /\ blob' = blob
<1>1. pc[p] \in AutoLabels /\ p \in Background /\ op[p] = "auto" /\ ~Inserts(p)
  BY OnlyTabsWrite
<1>2. ~(pc[p] = "finalize" /\ st[p].status # "finished") /\ pc[p] \notin Replaying
  BY <1>1 DEF Calm, Settling, RowExists, BeforeRow, Replaying
<1>3. /\ pc[p] \notin Saving \cup {"close_result"}
      /\ pc[p] = "finalize" => pc'[p] = "idle"
  <2>1. pc[p] \notin Saving \cup {"close_result"}
    BY <1>1, <1>2 DEF AutoLabels, Saving, Replaying
  <2>2. pc[p] = "finalize" => (pc'[p] = "idle" <=> st[p].status = "finished")
    BY DEF Acts, Found
  <2> QED
    BY <1>2, <2>1, <2>2
<1>4. Entry("auto") = "finalize"
  BY DEF Entry
<1>5. pc'[p] # "fin_row"
  BY <1>1, <1>3, <1>4 DEF Acts, GoesTo, AutoLabels
<1> QED
  BY <1>1, <1>3, <1>5 DEF Acts, StoreMoves

\* A state that is good keeps what the answering needs.
LEMMA NextAnsweringFits ==
    ASSUME TypeOK, AtWork, RowExists, Watched, BackgroundIsLate, CopiesAgree, ClosedIsSeen,
           TabFits, AnsweringFits, OneTab, [Next]_vars, faults' = 0
    PROVE  AnsweringFits'
<1> DEFINE Answering(q) ==
             /\ Exact(st[q])
             /\ st[q].served # NoQuestion
             /\ st[q].idx \in Modules
             /\ ModuleOf[st[q].served] = st[q].idx
             /\ st[q].mstat[st[q].idx] = "in_progress"
             /\ st[q].answered[st[q].idx] < QuestionCount[st[q].idx]
           Finishing(q) ==
             /\ st[q].served = NoQuestion
             /\ st[q].mstat[st[q].idx] = "in_progress"
<1> SUFFICES ASSUME NEW q \in Tabs
             PROVE  /\ pc'[q] \in {"insert", "close_insert"} => Answering(q)'
                    /\ pc'[q] = "close_result" => Finishing(q)'
  BY DEF AnsweringFits
<1>0. /\ q \in Procs /\ q \notin Background
      /\ pc[q] \in {"insert", "close_insert"} => Answering(q)
      /\ pc[q] = "close_result" => Finishing(q)
  BY ProcsAssumption DEF Procs, Background, AnsweringFits
<1>8. /\ \A o : Entry(o) \notin {"insert", "close_insert", "close_result"}
      /\ pc[q] \in Labels
  BY <1>0 DEF Entry, TypeOK
<1>1. CASE Acts(q)
  <2>1. CASE pc'[q] \in {"insert", "close_insert"}
    <3>1. /\ pc[q] \in {"submit", "advance"} /\ ~Inserts(q)
          /\ st[q].status # "finished" /\ now < st[q].expiresAt
          /\ st[q].served # NoQuestion /\ ModuleOf[st[q].served] = st[q].idx
          /\ st'[q] = st[q]
      <4>1. \/ pc[q] = "submit" /\ pc'[q] = "insert"
            \/ pc[q] = "advance" /\ pc'[q] = "close_insert"
        BY <1>0, <1>1, <2>1, ComesFrom
      <4> QED
        BY <1>1, <4>1 DEF Acts, Found, CopyMoves, Keeping, InOpenModule, InModule, Advancing,
              OnScreen, Inserts
    <3>2. Good(st[q])
      BY <3>1, TabIsCalm DEF TabFits, Whole
    <3>3. Answering(q)
      BY <3>1, <3>2 DEF Good, Screen
    <3>4. \A m \in Modules : AnsweredIn(m)' = AnsweredIn(m)
      BY <1>0, <1>1, <3>1, Records
    <3>5. Exact(st[q])'
      BY <3>1, <3>3, <3>4 DEF Exact
    <3> QED
      BY <2>1, <3>1, <3>3, <3>5
  <2>2. CASE pc'[q] = "close_result"
    <3>1. CASE pc[q] = "close_insert"
      BY <1>0, <1>1, <2>2, <3>1 DEF Acts, CopyMoves
    <3>2. CASE pc[q] = "advance"
      <4>1. /\ st[q].status # "finished" /\ now < st[q].expiresAt /\ st'[q] = st[q]
            /\ st[q].mstat[st[q].idx] = "in_progress" /\ ~OnScreen(st[q])
        BY <1>1, <2>2, <3>2 DEF Acts, Found, CopyMoves, InOpenModule, InModule, Advancing
      <4>2. Good(st[q])
        BY <3>2, <4>1, TabIsCalm DEF TabFits, Whole
      <4>3. st[q].served = NoQuestion
        BY <4>1, <4>2 DEF Good, Screen, OnScreen
      <4> QED
        BY <2>2, <4>1, <4>3
    <3> QED
      BY <1>1, <1>8, <2>2, <3>1, <3>2 DEF Acts, GoesTo, Labels
  <2> QED
    BY <2>1, <2>2
<1>2. ASSUME pc'[q] = pc[q], st'[q] = st[q], \A m \in Modules : AnsweredIn(m)' = AnsweredIn(m)
      PROVE  /\ pc'[q] \in {"insert", "close_insert"} => Answering(q)'
             /\ pc'[q] = "close_result" => Finishing(q)'
  <2>1. Exact(st[q]) => Exact(st[q])'
    BY <1>2 DEF Exact
  <2> QED
    BY <1>0, <1>2, <2>1
<1>3. ASSUME NEW p \in Procs, p # q, Acts(p)
      PROVE  pc'[q] = pc[q] /\ st'[q] = st[q] /\ \A m \in Modules : AnsweredIn(m)' = AnsweredIn(m)
  <2>1. p \notin Tabs
    BY <1>3 DEF OneTab
  <2> QED
    BY <1>0, <1>3, <2>1, OnlyTabsWrite, Records DEF Acts, Elsewhere
<1>4. CASE Arrives(q) \/ (pc[q] = "idle" /\ Rests)
  BY <1>0, <1>4, <1>8 DEF Arrives, Rests
<1>5. ASSUME \/ \E p \in Procs : p # q /\ (Arrives(p) \/ Wakes(p))
             \/ Loses \/ (pc[q] # "idle" /\ Rests)
      PROVE  pc'[q] = pc[q] /\ st'[q] = st[q] /\ responses' = responses
  BY <1>0, <1>5 DEF Arrives, Wakes, Loses, Rests, Elsewhere, db
<1>6. responses' = responses => \A m \in Modules : AnsweredIn(m)' = AnsweredIn(m)
  BY DEF AnsweredIn
<1> HIDE DEF Answering, Finishing
<1>7. \/ Acts(q) \/ \E p \in Procs : p # q /\ Acts(p)
      \/ Arrives(q) \/ \E p \in Procs : p # q /\ (Arrives(p) \/ Wakes(p))
      \/ Loses \/ Rests
  BY <1>0, Actors DEF Procs, Background
<1> QED
  BY <1>1, <1>2, <1>3, <1>4, <1>5, <1>6, <1>7

Lengths == \A m \in Modules : Cardinality(AnsweredIn(m)) <= QuestionCount[m]

\* A section takes no answer past its length.
LEMMA NextLengths ==
    ASSUME TypeOK, AtWork, Watched, AnsweringFits, Lengths, [Next]_vars, faults' = 0
    PROVE  Lengths'
<1>0. \A m \in Modules : Cardinality(AnsweredIn(m)) \in Nat /\ QuestionCount[m] \in Nat
  BY AnsweredInType, ModulesAssumption
<1>1. ASSUME NEW p \in Procs, Acts(p), Inserts(p)
      PROVE  Lengths'
  <2> DEFINE k == ModuleOf[st[p].served]
  <2>1. p \in Tabs
    BY <1>1, OnlyTabsWrite
  <2>2. /\ k \in Modules /\ Exact(st[p]) /\ st[p].answered[k] < QuestionCount[k]
    BY <1>1, <2>1 DEF AnsweringFits, Inserts
  <2>3. Cardinality(AnsweredIn(k)) < QuestionCount[k]
    BY <2>2 DEF Exact
  <2>4. \A m \in Modules :
           Cardinality(AnsweredIn(m)') =
              IF m = k THEN Cardinality(AnsweredIn(m)) + 1 ELSE Cardinality(AnsweredIn(m))
    BY <1>1, Records
  <2> HIDE DEF k
  <2> QED
    BY <1>0, <2>3, <2>4 DEF Lengths
<1>2. ASSUME NEW p \in Procs, Acts(p), ~Inserts(p)
      PROVE  \A m \in Modules : AnsweredIn(m)' = AnsweredIn(m)
  BY <1>2, Records
<1>3. ASSUME \/ \E p \in Tabs : Arrives(p)
             \/ \E p \in Background : Wakes(p)
             \/ Loses \/ Rests
      PROVE  \A m \in Modules : AnsweredIn(m)' = AnsweredIn(m)
  BY <1>3 DEF Arrives, Wakes, Loses, Rests, db, AnsweredIn
<1>4. CASE \A m \in Modules : AnsweredIn(m)' = AnsweredIn(m)
  BY <1>4 DEF Lengths
<1> QED
  BY <1>1, <1>2, <1>3, <1>4, Actors

(***************************************************************************)
(* What the tables and a state say of each other.  A state that is good    *)
(* stays good in every step of the tab that holds it.                      *)
(***************************************************************************)
SameBody(s, t) ==
    /\ t.idx = s.idx /\ t.served = s.served /\ t.seen = s.seen
    /\ t.answered = s.answered /\ t.mstat = s.mstat

\* A state keeps being good while it and the tables stay.
LEMMA GoodKept ==
    ASSUME NEW s, NEW t, SameBody(s, t), Good(s),
           responses' = responses, results' = results
    PROVE  Good(t)'
<1>1. \A m \in Modules : AnsweredIn(m)' = AnsweredIn(m)
  BY DEF AnsweredIn
<1>2. Exact(t)'
  BY <1>1 DEF Good, Exact, SameBody
<1>3. Marks(t)' /\ Seen(t)' /\ Past(t)' /\ Screen(t)'
  BY DEF Good, Marks, Seen, Past, Screen, SameBody
<1> QED
  BY <1>2, <1>3 DEF Good

\* From a state to the copy of a process.
LEMMA GoodOfTab ==
    ASSUME NEW q \in Procs, NEW t, t = st'[q], Good(t)'
    PROVE  Good(st[q])'
<1>1. Exact(st[q])'
  BY DEF Good, Exact
<1>2. Marks(st[q])' /\ Seen(st[q])' /\ Past(st[q])' /\ Screen(st[q])'
  BY DEF Good, Marks, Seen, Past, Screen
<1> QED
  BY <1>1, <1>2 DEF Good

\* From a state to the one in Redis.
LEMMA GoodOfBlob ==
    ASSUME NEW t, t = blob', Good(t)'
    PROVE  Good(blob)'
<1>1. Exact(blob)'
  BY DEF Good, Exact
<1>2. Marks(blob)' /\ Seen(blob)' /\ Past(blob)' /\ Screen(blob)'
  BY DEF Good, Marks, Seen, Past, Screen
<1> QED
  BY <1>1, <1>2 DEF Good

\* The state of a session just created.
LEMMA GoodCreated ==
    ASSUME NothingYet, row.status = "none", NEW e,
           responses' = responses, results' = results
    PROVE  Good(FreshState("in_progress", e))'
<1> DEFINE t == FreshState("in_progress", e)
<1>0. /\ t.idx = 1 /\ t.served = NoQuestion /\ t.seen = {}
      /\ \A m \in Modules : t.answered[m] = 0 /\ t.mstat[m] = "pending"
  BY DEF FreshState
<1>1. \A m \in Modules : Cardinality(AnsweredIn(m)') = 0
  <2>1. \A m \in Modules : AnsweredIn(m)' = {}
    BY DEF NothingYet, AnsweredIn
  <2> QED
    BY <2>1, FS_EmptySet
<1>2. \A m \in Modules : results'[m].state = "absent"
  BY DEF NothingYet
<1> HIDE DEF t
<1>3. Exact(t)' /\ Marks(t)' /\ Seen(t)'
  BY <1>0, <1>1, <1>2 DEF Exact, Marks, Seen
<1>4. Past(t)' /\ Screen(t)'
  BY <1>0 DEF Past, Screen, Modules
<1>5. Good(t)'
  BY <1>3, <1>4 DEF Good
<1> QED
  BY <1>5 DEF t

\* The first begun section.
LEMMA GoodBegun ==
    ASSUME NEW s, NEW t, Good(s), s \in SessionState,
           s.idx \in Modules, s.mstat[s.idx] = "pending",
           t.idx = s.idx, t.served = s.served, t.seen = s.seen, t.answered = s.answered,
           t.mstat = [s.mstat EXCEPT ![s.idx] = "in_progress"],
           responses' = responses, results' = results
    PROVE  Good(t)'
<1>0. /\ \A m \in Modules : t.mstat[m] = IF m = s.idx THEN "in_progress" ELSE s.mstat[m]
      /\ s.served = NoQuestion
  BY DEF SessionState, Good, Screen
<1>1. \A m \in Modules : AnsweredIn(m)' = AnsweredIn(m)
  BY DEF AnsweredIn
<1>2. Exact(t)' /\ Seen(t)' /\ Screen(t)'
  BY <1>0, <1>1 DEF Good, Exact, Seen, Screen
<1>3. Marks(t)'
  BY <1>0 DEF Good, Marks
<1>4. Past(t)'
  BY <1>0 DEF Good, Past, Modules
<1> QED
  BY <1>2, <1>3, <1>4 DEF Good

\* An answer recorded and counted.
LEMMA GoodAnswered ==
    ASSUME NEW s, NEW t, Good(s), s \in SessionState, NEW k, k = s.served,
           k \in Questions, ModuleOf[k] \in Modules,
           t.idx = s.idx, t.served = NoQuestion, t.seen = s.seen, t.mstat = s.mstat,
           t.answered = [s.answered EXCEPT ![ModuleOf[k]] = @ + 1],
           \A m \in Modules :
              Cardinality(AnsweredIn(m)') = IF m = ModuleOf[k] THEN Cardinality(AnsweredIn(m)) + 1
                                            ELSE Cardinality(AnsweredIn(m)),
           \A q \in Questions : responses'[q] # "absent" <=> (responses[q] # "absent" \/ q = k),
           results' = results
    PROVE  Good(t)'
<1>1. \A m \in Modules :
         t.answered[m] = IF m = ModuleOf[k] THEN s.answered[m] + 1 ELSE s.answered[m]
  BY DEF SessionState
<1>2. Exact(t)'
  BY <1>1 DEF Good, Exact
<1>3. Seen(t)'
  BY DEF Good, Seen, SessionState
<1>4. Marks(t)' /\ Past(t)' /\ Screen(t)'
  BY DEF Good, Marks, Past, Screen
<1> QED
  BY <1>2, <1>3, <1>4 DEF Good

\* A completed section left behind.
LEMMA GoodPast ==
    ASSUME NEW s, NEW t, Good(s), s \in SessionState, s.idx \in Modules,
           s.mstat[s.idx] = "completed",
           t.idx = s.idx + 1, t.served = s.served, t.seen = s.seen, t.answered = s.answered,
           t.mstat = s.mstat, responses' = responses, results' = results
    PROVE  Good(t)'
<1>0. s.served = NoQuestion
  BY DEF Good, Screen
<1>1. \A m \in Modules : AnsweredIn(m)' = AnsweredIn(m)
  BY DEF AnsweredIn
<1>2. Exact(t)' /\ Marks(t)' /\ Seen(t)' /\ Screen(t)'
  BY <1>0, <1>1 DEF Good, Exact, Marks, Seen, Screen
<1>3. \A m \in Modules : m < t.idx => m < s.idx \/ m = s.idx
  BY ModulesAssumption DEF Modules
<1>4. Past(t)'
  BY <1>3 DEF Good, Past
<1> QED
  BY <1>2, <1>4 DEF Good

\* A section closed in the table and in the state.
LEMMA GoodClosed ==
    ASSUME NEW s, NEW t, Good(s), s \in SessionState, s.idx \in Modules, s.served = NoQuestion,
           t.idx = s.idx + 1, t.served = s.served, t.seen = s.seen, t.answered = s.answered,
           t.mstat = [s.mstat EXCEPT ![s.idx] = "completed"], responses' = responses,
           \A m \in Modules :
              results'[m].state = IF m = s.idx THEN "closed" ELSE results[m].state
    PROVE  Good(t)'
<1>0. \A m \in Modules : t.mstat[m] = IF m = s.idx THEN "completed" ELSE s.mstat[m]
  BY DEF SessionState
<1>1. \A m \in Modules : AnsweredIn(m)' = AnsweredIn(m)
  BY DEF AnsweredIn
<1>2. Exact(t)' /\ Seen(t)' /\ Screen(t)'
  BY <1>1 DEF Good, Exact, Seen, Screen
<1>3. Marks(t)'
  BY <1>0 DEF Good, Marks
<1>4. \A m \in Modules : m < t.idx => m < s.idx \/ m = s.idx
  BY ModulesAssumption DEF Modules
<1>5. Past(t)'
  BY <1>0, <1>4 DEF Good, Past
<1> QED
  BY <1>2, <1>3, <1>5 DEF Good

\* A question put on the empty screen.
LEMMA GoodServed ==
    ASSUME NEW s, NEW t, Good(s), s \in SessionState, s.idx \in Modules,
           s.mstat[s.idx] = "in_progress", ~OnScreen(s), ~ModuleOver(s),
           t.served \in Eligible(s), t.idx = s.idx, t.seen = s.seen \cup {t.served},
           t.answered = s.answered, t.mstat = s.mstat,
           responses' = responses, results' = results
    PROVE  Good(t)'
<1>0. s.served = NoQuestion
  BY DEF Good, Screen, OnScreen
<1>1. \A m \in Modules : AnsweredIn(m)' = AnsweredIn(m)
  BY DEF AnsweredIn
<1>2. Exact(t)' /\ Marks(t)' /\ Past(t)'
  BY <1>1 DEF Good, Exact, Marks, Past
<1>3. Seen(t)'
  BY <1>0, QuestionsAssumption DEF Good, Seen, SessionState
<1>4. s.answered[s.idx] < QuestionCount[s.idx]
  BY ModulesAssumption DEF ModuleOver, SessionState
<1>5. Screen(t)'
  BY <1>4 DEF Screen, Eligible
<1> QED
  BY <1>2, <1>3, <1>5 DEF Good

\* A state rebuilt from the tables.
LEMMA GoodReplayed ==
    ASSUME NEW s, NEW t, Exact(s), s.served = NoQuestion,
           \A q \in s.seen : responses[q] # "absent",
           \A m \in Modules : s.mstat[m] # "completed",
           t.served = s.served, t.seen = s.seen, t.answered = s.answered,
           \A m \in Modules :
              /\ t.mstat[m] = IF results[m].state = "closed" THEN "completed" ELSE s.mstat[m]
              /\ m < t.idx => t.mstat[m] = "completed",
           responses' = responses, results' = results
    PROVE  Good(t)'
<1>1. \A m \in Modules : AnsweredIn(m)' = AnsweredIn(m)
  BY DEF AnsweredIn
<1>2. Exact(t)' /\ Seen(t)' /\ Screen(t)'
  BY <1>1 DEF Exact, Seen, Screen
<1>3. Marks(t)' /\ Past(t)'
  BY DEF Marks, Past
<1> QED
  BY <1>2, <1>3 DEF Good

\* A tab's step among the labels at which it goes on with its state keeps that state good.
LEMMA TabKeepsGood ==
    ASSUME TypeOK, AtWork, AnsweringFits, NEW q \in Tabs, Acts(q), Good(st[q]),
           pc[q] \in Whole, pc'[q] \in Whole
    PROVE  Good(st[q])'
<1>0. /\ q \in Procs /\ st[q] \in SessionState /\ pc[q] \in Labels
      /\ GoesTo(q) /\ CopyMoves(q) /\ StoreMoves(q)
      /\ pc'[q] # "idle" /\ pc'[q] # "finalize"
  BY DEF Procs, TypeOK, Acts, Whole
<1>s. PICK s : s = st[q]
  OBVIOUS
<1>t. PICK t : t = st'[q]
  OBVIOUS
<1>g. Good(s) /\ s \in SessionState
  BY <1>0, <1>s DEF Good, Exact, Marks, Seen, Past, Screen
<1>1. CASE Inserts(q)
  <2>1. pc[q] \in {"insert", "close_insert"}
    BY <1>1 DEF Inserts
  <2>2. /\ t.idx = s.idx /\ t.served = NoQuestion /\ t.seen = s.seen /\ t.mstat = s.mstat
        /\ t.answered = [s.answered EXCEPT ![ModuleOf[s.served]] = @ + 1]
    BY <1>0, <1>s, <1>t, <2>1 DEF CopyMoves
  <2>3. /\ s.served \in Questions
        /\ \A m \in Modules :
              Cardinality(AnsweredIn(m)') =
                IF m = ModuleOf[s.served] THEN Cardinality(AnsweredIn(m)) + 1
                ELSE Cardinality(AnsweredIn(m))
        /\ \A k \in Questions :
              responses'[k] # "absent" <=> (responses[k] # "absent" \/ k = s.served)
    BY <1>0, <1>1, <1>s, Records
  <2>4. results' = results
    BY <1>0, <2>1 DEF StoreMoves
  <2>5. ModuleOf[s.served] \in Modules
    BY <2>3, QuestionsAssumption
  <2>6. PICK k : k = s.served
    OBVIOUS
  <2>7. Good(t)'
    BY <1>g, <2>2, <2>3, <2>4, <2>5, <2>6, GoodAnswered
  <2> QED
    BY <1>0, <1>t, <2>7, GoodOfTab
<1>2. CASE pc[q] = "begin" /\ pc'[q] # "advance"
  <2>1. /\ s.idx \in Modules /\ s.mstat[s.idx] = "pending"
        /\ t.idx = s.idx /\ t.served = s.served /\ t.seen = s.seen /\ t.answered = s.answered
        /\ t.mstat = [s.mstat EXCEPT ![s.idx] = "in_progress"]
    BY <1>0, <1>2, <1>s, <1>t DEF CopyMoves
  <2>2. responses' = responses /\ results' = results
    BY <1>0, <1>2 DEF StoreMoves, Inserts
  <2>3. Good(t)'
    BY <1>g, <2>1, <2>2, GoodBegun
  <2> QED
    BY <1>0, <1>t, <2>3, GoodOfTab
<1>3. CASE pc[q] = "advance" /\ pc'[q] = "advance_save"
  <2>1. /\ s.idx \in Modules /\ s.mstat[s.idx] = "completed"
        /\ t.idx = s.idx + 1 /\ t.served = s.served /\ t.seen = s.seen
        /\ t.answered = s.answered /\ t.mstat = s.mstat
    BY <1>0, <1>3, <1>s, <1>t DEF CopyMoves
  <2>2. responses' = responses /\ results' = results
    BY <1>0, <1>3 DEF StoreMoves, Inserts
  <2>3. Good(t)'
    BY <1>g, <2>1, <2>2, GoodPast
  <2> QED
    BY <1>0, <1>t, <2>3, GoodOfTab
<1>4. CASE pc[q] = "advance" /\ pc'[q] = "serve_save"
  <2>1. /\ s.idx \in Modules /\ s.mstat[s.idx] = "in_progress"
        /\ ~OnScreen(s) /\ ~ModuleOver(s)
        /\ t.served \in Eligible(s) /\ t.idx = s.idx /\ t.seen = s.seen \cup {t.served}
        /\ t.answered = s.answered /\ t.mstat = s.mstat
    BY <1>0, <1>4, <1>s, <1>t DEF CopyMoves, InOpenModule, InModule
  <2>2. responses' = responses /\ results' = results
    BY <1>0, <1>4 DEF StoreMoves, Inserts
  <2>3. Good(t)'
    BY <1>g, <2>1, <2>2, GoodServed
  <2> QED
    BY <1>0, <1>t, <2>3, GoodOfTab
<1>5. CASE pc[q] = "close_result"
  <2>1. /\ s.idx \in Modules /\ s.served = NoQuestion
        /\ t.idx = s.idx + 1 /\ t.served = s.served /\ t.seen = s.seen
        /\ t.answered = s.answered
        /\ t.mstat = [s.mstat EXCEPT ![s.idx] = "completed"]
    BY <1>0, <1>5, <1>s, <1>t DEF CopyMoves, AnsweringFits, AtWork, HasModule
  <2>2. /\ responses' = responses
        /\ \A m \in Modules :
             results'[m].state = IF m = s.idx THEN "closed" ELSE results[m].state
    BY <1>0, <1>5, <1>s DEF StoreMoves, Inserts
  <2>3. Good(t)'
    BY <1>g, <2>1, <2>2, GoodClosed
  <2> QED
    BY <1>0, <1>t, <2>3, GoodOfTab
<1>6. CASE /\ ~Inserts(q) /\ pc[q] # "close_result"
           /\ ~(pc[q] = "begin" /\ pc'[q] # "advance")
           /\ ~(pc[q] = "advance" /\ pc'[q] \in {"advance_save", "serve_save"})
  <2>1. pc[q] \notin {"insert", "close_insert"}
    BY <1>0, <1>6 DEF Inserts
  <2>2. st'[q] = st[q]
    <3>1. CASE pc[q] \in Keeping
      BY <1>0, <3>1 DEF CopyMoves
    <3>2. CASE pc[q] \in {"begin", "advance"}
      BY <1>0, <1>6, <3>2 DEF CopyMoves, GoesTo
    <3>3. pc[q] # "serve_save"
      BY <1>0 DEF GoesTo
    <3> QED
      BY <1>6, <2>1, <3>1, <3>2, <3>3 DEF Whole, Keeping
  <2>3. responses' = responses /\ results' = results
    BY <1>0, <1>6 DEF StoreMoves, Whole
  <2>4. SameBody(s, t)
    BY <1>s, <1>t, <2>2 DEF SameBody
  <2>5. Good(t)'
    BY <1>g, <2>3, <2>4, GoodKept
  <2> QED
    BY <1>0, <1>t, <2>5, GoodOfTab
<1> QED
  BY <1>1, <1>2, <1>3, <1>4, <1>5, <1>6

\* The tab's copy stays good.
LEMMA NextTabFits ==
    ASSUME TypeOK, AtWork, RowExists, Watched, NothingYet, OpsFit, BackgroundReplays,
           BlobFits, TabFits, AnsweringFits, OneTab, [Next]_vars, faults' = 0
    PROVE  TabFits'
<1> DEFINE Rebuilt(q) ==
             /\ Exact(st[q])
             /\ st[q].served = NoQuestion
             /\ \A k \in st[q].seen : responses[k] # "absent"
             /\ \A m \in Modules : st[q].mstat[m] # "completed"
           Fits(q) ==
             /\ pc[q] \in Whole /\ st[q].status = "in_progress" => Good(st[q])
             /\ pc[q] \in {"resume_blob", "replay_answers"} => st[q].served = NoQuestion
             /\ pc[q] = "replay_results" => Rebuilt(q)
<1> SUFFICES ASSUME Calm', NEW q \in Tabs PROVE Fits(q)'
  BY DEF TabFits
<1>0. /\ q \in Procs /\ q \notin Background /\ st[q] \in SessionState /\ blob \in SessionState
      /\ pc[q] \in Labels /\ \A p \in Tabs : p = q
      /\ FreshState("in_progress", 0).served = NoQuestion
      /\ \A a, e : FreshState(a, e).served = NoQuestion
  BY ProcsAssumption DEF Procs, Background, TypeOK, OneTab, FreshState
<1>1. Calm \/ row.status = "none"
  BY CalmBefore
<1>2. row.status = "none" => pc[q] \in BeforeRow /\ blob.status = "absent"
  BY <1>0 DEF RowExists, NothingYet
<1>3. Calm => Fits(q)
  BY DEF TabFits
\* What the tab loads from Redis is good.
<1>4. ASSUME blob.status = "in_progress", pc[q] \notin Dirty
      PROVE  Good(blob)
  <2>1. Calm
    BY <1>1, <1>2, <1>4
  <2> QED
    BY <1>0, <1>4, <2>1 DEF BlobFits
<1>5. ASSUME blob.status = "in_progress", pc[q] \notin Dirty, st'[q] = blob,
             responses' = responses, results' = results
      PROVE  Good(st[q])'
  <2>1. PICK t : t = blob
    OBVIOUS
  <2>2. Good(t)
    BY <1>4, <1>5, <2>1 DEF Good, Exact, Marks, Seen, Past, Screen
  <2>3. Good(t)'
    BY <1>5, <2>2, GoodKept DEF SameBody
  <2> QED
    BY <1>0, <1>5, <2>1, <2>3, GoodOfTab
<1>6. CASE Acts(q)
  <2>0. GoesTo(q) /\ CopyMoves(q) /\ StoreMoves(q) /\ pc[q] # "idle" /\ pc[q] # "auto_row"
    BY <1>6 DEF Acts, OpsFit
  <2>1. CASE pc'[q] \in Whole /\ st'[q].status = "in_progress"
    <3>1. CASE pc[q] = "create_row"
      <4>1. /\ row.status = "none"
            /\ st'[q] = FreshState("in_progress", row'.expiresAt)
        BY <2>0, <2>1, <3>1 DEF GoesTo, CopyMoves, Whole
      <4>2. responses' = responses /\ results' = results
        BY <2>0, <3>1 DEF StoreMoves, Inserts
      <4>3. PICK e : e = row'.expiresAt
        OBVIOUS
      <4>4. Good(FreshState("in_progress", e))'
        BY <4>1, <4>2, GoodCreated
      <4>5. PICK t : t = FreshState("in_progress", e)
        OBVIOUS
      <4>6. Good(t)'
        BY <4>4, <4>5 DEF Good, Exact, Marks, Seen, Past, Screen
      <4>7. t = st'[q]
        BY <4>1, <4>3, <4>5
      <4>8. Good(st[q])'
        BY <1>0, <4>6, <4>7, GoodOfTab
      <4> QED
        BY <2>1, <4>8 DEF Whole
    <3>2. CASE pc[q] = "resume_blob"
      <4>1. st'[q] = blob
        BY <2>0, <2>1, <3>2 DEF CopyMoves, Whole
      <4>2. responses' = responses /\ results' = results
        BY <2>0, <3>2 DEF StoreMoves, Inserts
      <4>3. Good(st[q])'
        BY <1>5, <2>1, <3>2, <4>1, <4>2 DEF Dirty
      <4> QED
        BY <2>1, <4>3 DEF Whole
    <3>3. CASE pc[q] = "replay_results"
      <4>1. Rebuilt(q)
        BY <1>1, <1>2, <1>3, <3>3 DEF BeforeRow
      <4>2. PICK s : s = st[q]
        OBVIOUS
      <4>3. PICK t : t = st'[q]
        OBVIOUS
      <4>4. /\ t.served = s.served /\ t.seen = s.seen /\ t.answered = s.answered
            /\ \A m \in Modules :
                 /\ t.mstat[m] =
                      IF results[m].state = "closed" THEN "completed" ELSE s.mstat[m]
                 /\ m < t.idx => t.mstat[m] = "completed"
        BY <2>0, <3>3, <4>2, <4>3 DEF CopyMoves
      <4>5. responses' = responses /\ results' = results
        BY <2>0, <3>3 DEF StoreMoves, Inserts
      <4>6. /\ Exact(s) /\ s.served = NoQuestion /\ \A k \in s.seen : responses[k] # "absent"
            /\ \A m \in Modules : s.mstat[m] # "completed"
        BY <4>1, <4>2 DEF Exact
      <4>7. Good(t)'
        BY <4>4, <4>5, <4>6, GoodReplayed
      <4>8. Good(st[q])'
        BY <1>0, <4>3, <4>7, GoodOfTab
      <4> QED
        BY <2>0, <2>1, <3>3, <4>8 DEF GoesTo
    <3>4. CASE pc[q] \in Whole
      <4>1. st[q].status = "in_progress"
        BY <2>0, <2>1, <3>4 DEF CopyMoves, GoesTo, Keeping, SameHead, Whole
      <4>2. Good(st[q])
        BY <1>1, <1>2, <1>3, <3>4, <4>1 DEF BeforeRow, Whole
      <4>3. Good(st[q])'
        BY <1>6, <2>1, <3>4, <4>2, TabKeepsGood
      <4> QED
        BY <2>1, <4>3 DEF Whole
    <3>5. pc[q] \in Whole \cup {"create_row", "resume_blob", "replay_results"}
      BY <1>0, <2>0, <2>1 DEF GoesTo, Labels, Whole
    <3> QED
      BY <3>1, <3>2, <3>3, <3>4, <3>5
  <2>2. CASE pc'[q] \in {"resume_blob", "replay_answers"}
    <3>1. pc[q] \in {"start_find", "load_row", "resume_blob"}
      BY <1>0, <1>6, <2>0, <2>2, ComesFrom
    <3>2. st'[q].served = NoQuestion
      <4>1. CASE pc[q] \in {"start_find", "load_row"}
        BY <1>0, <2>0, <2>2, <4>1 DEF CopyMoves, GoesTo
      <4>2. CASE pc[q] = "resume_blob"
        <5>1. st[q].served = NoQuestion
          BY <1>1, <1>2, <1>3, <4>2 DEF BeforeRow
        <5>2. Entry(op[q]) \notin {"resume_blob", "replay_answers"}
          BY DEF Entry
        <5> QED
          BY <2>0, <2>2, <4>2, <5>1, <5>2 DEF CopyMoves
      <4> QED
        BY <3>1, <4>1, <4>2
    <3> QED
      BY <2>2, <3>2 DEF Whole
  <2>3. CASE pc'[q] = "replay_results"
    <3>1. pc[q] = "replay_answers"
      BY <1>0, <1>6, <2>3, ComesFrom
    <3>2. st[q].served = NoQuestion
      BY <1>1, <1>2, <1>3, <3>1 DEF BeforeRow
    <3>3. /\ st'[q].served = NoQuestion
          /\ st'[q].seen = {k \in Questions : responses[k] # "absent"}
          /\ \A m \in Modules :
               /\ st'[q].answered[m] = Cardinality(AnsweredIn(m))
               /\ st'[q].mstat[m] # "completed"
      BY <2>0, <3>1, <3>2 DEF CopyMoves
    <3>4. responses' = responses
      BY <2>0, <3>1 DEF StoreMoves, Inserts
    <3>5. \A m \in Modules : AnsweredIn(m)' = AnsweredIn(m)
      BY <3>4 DEF AnsweredIn
    <3>6. Exact(st[q])'
      BY <3>3, <3>5 DEF Exact
    <3>7. Rebuilt(q)'
      BY <3>3, <3>4, <3>6
    <3> QED
      BY <2>3, <3>7 DEF Whole
  <2> QED
    BY <2>1, <2>2, <2>3
<1>7. ASSUME pc'[q] = pc[q], st'[q] = st[q], Calm, responses' = responses, results' = results
      PROVE  Fits(q)'
  <2>1. Good(st[q]) => Good(st[q])'
    <3>1. PICK s : s = st[q]
      OBVIOUS
    <3>2. Good(st[q]) => Good(s)
      BY <3>1 DEF Good, Exact, Marks, Seen, Past, Screen
    <3>3. Good(s) => Good(s)'
      BY <1>7, GoodKept DEF SameBody
    <3>4. Good(s)' => Good(st[q])'
      BY <1>0, <1>7, <3>1, GoodOfTab
    <3> QED
      BY <3>2, <3>3, <3>4
  <2>2. Exact(st[q]) => Exact(st[q])'
    <3>1. \A m \in Modules : AnsweredIn(m)' = AnsweredIn(m)
      BY <1>7 DEF AnsweredIn
    <3> QED
      BY <1>7, <3>1 DEF Exact
  <2> QED
    BY <1>3, <1>7, <2>1, <2>2
\* Before the row there is nothing a process other than the tab could do to it.
<1>8. ASSUME pc'[q] = pc[q], st'[q] = st[q], responses' = responses, results' = results
      PROVE  Fits(q)'
  <2>1. CASE Calm
    BY <1>7, <1>8, <2>1
  <2>2. CASE row.status = "none"
    BY <1>2, <1>8, <2>2 DEF BeforeRow, Whole
  <2> QED
    BY <1>1, <2>1, <2>2
<1>9. ASSUME NEW p \in Procs, p # q, Acts(p)
      PROVE  Fits(q)'
  <2>1. p \notin Tabs
    BY <1>0, <1>9
  <2>2. responses' = responses /\ results' = results
    BY <1>1, <1>9, <2>1, BackgroundIsHarmless
  <2>3. pc'[q] = pc[q] /\ st'[q] = st[q]
    BY <1>0, <1>9 DEF Acts, Elsewhere
  <2> QED
    BY <1>8, <2>2, <2>3
<1>10. CASE Arrives(q)
  <2>1. pc[q] = "idle" /\ responses' = responses /\ results' = results
    BY <1>10 DEF Arrives, db
  <2>2. CASE pc'[q] \in Whole /\ st'[q].status = "in_progress"
    <3>1. st'[q] = blob
      BY <1>10, <2>2 DEF Arrives, Whole
    <3>2. Good(st[q])'
      BY <1>5, <2>1, <2>2, <3>1 DEF Dirty
    <3> QED
      BY <2>2, <3>2 DEF Whole
  <2>3. pc'[q] \notin {"resume_blob", "replay_answers", "replay_results"}
    <3>1. \A o : Entry(o) \notin {"resume_blob", "replay_answers", "replay_results"}
      BY DEF Entry
    <3> QED
      BY <1>10, <3>1 DEF Arrives
  <2> QED
    BY <2>2, <2>3
<1>11. ASSUME \/ \E p \in Procs : p # q /\ (Arrives(p) \/ Wakes(p))
              \/ Loses \/ (pc[q] # "idle" /\ Rests)
       PROVE  Fits(q)'
  <2>1. pc'[q] = pc[q] /\ st'[q] = st[q] /\ responses' = responses /\ results' = results
    BY <1>0, <1>11 DEF Arrives, Wakes, Loses, Rests, Elsewhere, db
  <2> QED
    BY <1>8, <2>1
<1>12. CASE pc[q] = "idle" /\ Rests
  <2>1. pc'[q] = "idle"
    BY <1>0, <1>12 DEF Rests
  <2> QED
    BY <2>1 DEF Whole
<1> HIDE DEF Fits
<1>13. \/ Acts(q) \/ \E p \in Procs : p # q /\ Acts(p)
       \/ Arrives(q) \/ \E p \in Procs : p # q /\ (Arrives(p) \/ Wakes(p))
       \/ Loses \/ Rests
  BY <1>0, Actors DEF Procs, Background
<1> QED
  BY <1>6, <1>9, <1>10, <1>11, <1>12, <1>13

\* The state in Redis stays good.
LEMMA NextBlobFits ==
    ASSUME TypeOK, AtWork, RowExists, Watched, NothingYet, OpsFit, BackgroundReplays,
           BlobFits, TabFits, OneTab, [Next]_vars, faults' = 0
    PROVE  BlobFits'
<1> SUFFICES ASSUME Calm', blob'.status = "in_progress", \A p \in Tabs : pc'[p] \notin Dirty
             PROVE  Good(blob)'
  BY DEF BlobFits
<1>0. \A q \in Tabs : q \in Procs /\ q \notin Background /\ pc[q] \in Labels
  BY ProcsAssumption DEF Procs, Background, TypeOK
<1>1. Calm \/ row.status = "none"
  BY CalmBefore
<1>2. row.status = "none" =>
        blob.status = "absent" /\ \A q \in Procs : pc[q] \in BeforeRow
  BY DEF RowExists, NothingYet
<1>3. ASSUME blob' = blob, responses' = responses, results' = results,
             \A q \in Tabs : pc[q] \notin Dirty
      PROVE  Good(blob)'
  <2>1. Calm /\ blob.status = "in_progress"
    BY <1>1, <1>2, <1>3
  <2>2. Good(blob)
    BY <1>3, <2>1 DEF BlobFits
  <2>3. PICK s : s = blob
    OBVIOUS
  <2>4. Good(s)
    BY <2>2, <2>3 DEF Good, Exact, Marks, Seen, Past, Screen
  <2>5. Good(s)'
    BY <1>3, <2>4, GoodKept DEF SameBody
  <2> QED
    BY <1>3, <2>3, <2>5, GoodOfBlob
<1>4. ASSUME NEW q \in Tabs, Acts(q)
      PROVE  Good(blob)'
  <2>0. GoesTo(q) /\ CopyMoves(q) /\ StoreMoves(q) /\ \A p \in Tabs : p = q
    BY <1>4 DEF Acts, OneTab
  <2>1. CASE pc[q] \in Saving
    <3>1. blob' = st[q] /\ responses' = responses /\ results' = results
      BY <2>0, <2>1 DEF StoreMoves, Inserts, Saving
    <3>2. Calm
      BY <1>0, <1>1, <1>2, <2>1 DEF BeforeRow, Saving
    <3>3. Good(st[q])
      BY <2>1, <3>1, <3>2 DEF TabFits, Whole, Saving
    <3>4. PICK s : s = st[q]
      OBVIOUS
    <3>5. Good(s)
      BY <3>3, <3>4 DEF Good, Exact, Marks, Seen, Past, Screen
    <3>6. Good(s)'
      BY <3>1, <3>5, GoodKept DEF SameBody
    <3> QED
      BY <3>1, <3>4, <3>6, GoodOfBlob
  <2>2. CASE pc[q] \notin Saving
    <3>1. pc[q] # "close_result"
      BY <1>4, <2>0 DEF GoesTo, Dirty
    <3>2. ~Inserts(q)
      BY <1>4, <2>0 DEF GoesTo, Dirty, Inserts
    <3>3. pc'[q] # "fin_row"
      <4>1. pc'[q] = "fin_row" => pc[q] = "finalize"
        BY <1>0, <1>4, ComesFrom
      <4> QED
        BY <2>0, <4>1 DEF CopyMoves, StoreMoves
    <3>4. pc[q] = "finalize" => pc'[q] # "finalize"
      <4>1. ASSUME pc[q] = "finalize", pc'[q] = "finalize" PROVE FALSE
        <5>1. st[q].status # "finished"
          BY <1>4, <4>1 DEF Acts, Found
        <5>2. Calm
          BY <1>0, <1>1, <1>2, <4>1 DEF BeforeRow
        <5> QED
          BY <1>0, <4>1, <5>1, <5>2 DEF Calm, Settling
      <4> QED
        BY <4>1
    <3>5. blob' = blob /\ responses' = responses /\ results' = results
      BY <2>0, <2>2, <3>1, <3>2, <3>3, <3>4 DEF StoreMoves
    <3>6. pc[q] \notin Dirty
      BY <2>2, <3>1 DEF Dirty, Saving
    <3> QED
      BY <1>3, <2>0, <3>5, <3>6
  <2> QED
    BY <2>1, <2>2
<1>5. ASSUME NEW p \in Procs, p \notin Tabs, Acts(p)
      PROVE  Good(blob)'
  <2>1. responses' = responses /\ results' = results /\ blob' = blob
    BY <1>1, <1>5, BackgroundIsHarmless
  <2>2. \A q \in Tabs : pc'[q] = pc[q]
    BY <1>0, <1>5 DEF Acts, Elsewhere
  <2> QED
    BY <1>3, <2>1, <2>2
<1>6. ASSUME \/ \E p \in Tabs : Arrives(p)
             \/ \E p \in Background : Wakes(p)
             \/ Rests
      PROVE  Good(blob)'
  <2>1. responses' = responses /\ results' = results /\ blob' = blob
    BY <1>6 DEF Arrives, Wakes, Rests, db
  <2>2. \A q \in Tabs : pc[q] = "idle" \/ pc'[q] = pc[q]
    BY <1>0, <1>6 DEF Arrives, Wakes, Rests, Elsewhere
  <2> QED
    BY <1>3, <2>1, <2>2 DEF Dirty
<1>7. ~Loses
  BY DEF Loses, Absent, FreshState
<1> QED
  BY <1>4, <1>5, <1>6, <1>7, Actors

(***************************************************************************)
(* Sections in order: a section is reached only where the one before it is *)
(* closed, in the tables and in every state that could be written back.    *)
(***************************************************************************)
LEMMA ReachedBefore ==
    ASSUME TypeOK, AtWork, RowExists, Watched, BackgroundIsLate, CopiesAgree, ClosedIsSeen,
           TabFits, AnsweringFits, OneTab, [Next]_vars, faults' = 0,
           NEW m \in Modules \ {1}, Reached(m)', ~Reached(m)
    PROVE  \E q \in Tabs :
             /\ Acts(q) /\ pc[q] \in {"submit", "advance"}
             /\ st'[q] = st[q] /\ st[q].idx = m
             /\ Calm /\ Good(st[q])
             /\ \A p \in Procs : p # q => pc[p] = "idle"
             /\ blob' = blob /\ results' = results
<1>0. \A q \in Tabs : q \in Procs /\ pc[q] \in Labels
  BY DEF Procs, TypeOK
<1>1. AnsweredIn(m)' = {}
  <2>0. AnsweredIn(m) = {}
    BY DEF Reached
  <2>1. ASSUME NEW p \in Procs, Acts(p) PROVE AnsweredIn(m)' = AnsweredIn(m)
    <3>1. CASE Inserts(p)
      <4>1. p \in Tabs
        BY <2>1, <3>1, OnlyTabsWrite
      <4>2. st[p].idx # m
        BY <3>1, <4>1 DEF Reached, Inserts
      <4>3. ModuleOf[st[p].served] # m
        BY <3>1, <4>1, <4>2 DEF AnsweringFits, Inserts
      <4> QED
        BY <2>1, <3>1, <4>3, Records
    <3>2. CASE ~Inserts(p)
      BY <2>1, <3>2, Records
    <3> QED
      BY <3>1, <3>2
  <2>2. ASSUME \/ \E p \in Tabs : Arrives(p)
               \/ \E p \in Background : Wakes(p)
               \/ Loses \/ Rests
        PROVE  AnsweredIn(m)' = AnsweredIn(m)
    BY <2>2 DEF Arrives, Wakes, Loses, Rests, db, AnsweredIn
  <2> QED
    BY <2>0, <2>1, <2>2, Actors
<1>2. PICK q \in Tabs : pc'[q] \in {"insert", "close_insert"} /\ st'[q].idx = m
  BY <1>1 DEF Reached
<1>3. \A o : Entry(o) \notin {"insert", "close_insert"}
  BY DEF Entry
<1>4. Acts(q)
  <2>1. ASSUME pc'[q] = pc[q], st'[q] = st[q] PROVE FALSE
    BY <1>2, <2>1 DEF Reached
  <2>2. ASSUME NEW p \in Procs, p # q, Acts(p) \/ Arrives(p) \/ Wakes(p) PROVE FALSE
    BY <1>0, <2>1, <2>2 DEF Acts, Arrives, Wakes, Elsewhere
  <2>3. ~Loses
    BY <2>1 DEF Loses
  <2>4. ~Rests
    BY <1>0, <1>2, <2>1 DEF Rests
  <2>5. ~Arrives(q) /\ ~Wakes(q)
    BY <1>2, <1>3 DEF Arrives, Wakes
  <2> QED
    BY <1>0, <2>2, <2>3, <2>4, <2>5, Actors DEF Procs, Background
<1>5. \/ pc[q] = "submit" /\ pc'[q] = "insert"
      \/ pc[q] = "advance" /\ pc'[q] = "close_insert"
  BY <1>0, <1>2, <1>4, ComesFrom
<1>6. st'[q] = st[q] /\ st[q].status # "finished" /\ now < st[q].expiresAt
  BY <1>4, <1>5 DEF Acts, Found, CopyMoves, Keeping, InOpenModule, InModule, Advancing
<1>7. /\ Calm /\ st[q].status = "in_progress"
      /\ \A p \in Procs : p # q => pc[p] = "idle"
  BY <1>5, <1>6, TabIsCalm
<1>8. Good(st[q])
  BY <1>5, <1>7 DEF TabFits, Whole
<1>9. blob' = blob /\ results' = results
  BY <1>4, <1>5 DEF Acts, StoreMoves, Saving
<1> QED
  BY <1>2, <1>4, <1>5, <1>6, <1>7, <1>8, <1>9

\* Sections are reached in order.
LEMMA NextCoversFit ==
    ASSUME TypeOK, AtWork, RowExists, Watched, NothingYet, BackgroundIsLate, CopiesAgree,
           ClosedIsSeen, BlobFits, TabFits, AnsweringFits, CoversFit, OneTab, [Next]_vars,
           faults' = 0
    PROVE  CoversFit'
<1> SUFFICES ASSUME NEW m \in Modules \ {1}, Reached(m)'
             PROVE  /\ results'[m - 1].state = "closed"
                    /\ blob'.status = "in_progress" => blob'.mstat[m - 1] # "pending"
                    /\ \A p \in Procs :
                         pc'[p] \in Whole \cup {"finalize"} /\ st'[p].status = "in_progress" =>
                           st'[p].mstat[m - 1] # "pending"
  BY DEF CoversFit, Covers
<1>k. PICK k \in Modules : k = m - 1 /\ k < m
  BY ModulesAssumption DEF Modules
<1>0. /\ \A p \in Procs : pc[p] \in Labels /\ st[p] \in SessionState
      /\ \A q \in Tabs : q \in Procs
  BY DEF TypeOK, Procs
\* The section has just been reached.
<1>1. CASE ~Reached(m)
  <2>1. PICK q \in Tabs :
          /\ Acts(q) /\ pc[q] \in {"submit", "advance"}
          /\ st'[q] = st[q] /\ st[q].idx = m
          /\ Calm /\ Good(st[q])
          /\ \A p \in Procs : p # q => pc[p] = "idle"
          /\ blob' = blob /\ results' = results
    BY <1>1, ReachedBefore
  <2>2. st[q].mstat[k] = "completed" /\ results[k].state = "closed"
    BY <1>k, <2>1 DEF Good, Past, Marks
  <2>3. blob.status = "in_progress" => blob.mstat[k] = "completed"
    <3>1. \A p \in Tabs : pc[p] \notin Dirty
      BY <2>1 DEF Dirty, OneTab
    <3> QED
      BY <2>1, <2>2, <3>1 DEF BlobFits, Good, Marks
  <2>4. \A p \in Procs : p # q => pc'[p] = "idle"
    BY <2>1 DEF Acts, Elsewhere
  <2> QED
    BY <1>k, <2>1, <2>2, <2>3, <2>4 DEF Whole
\* It was reached before.
<1>2. CASE Reached(m)
  <2>1. /\ results[k].state = "closed"
        /\ blob.status = "in_progress" => blob.mstat[k] # "pending"
        /\ \A p \in Procs :
             pc[p] \in Whole \cup {"finalize"} /\ st[p].status = "in_progress" =>
               st[p].mstat[k] # "pending"
    BY <1>k, <1>2 DEF CoversFit, Covers
  <2>2. row.status # "none"
    <3>1. \A q \in Tabs : pc[q] \in {"insert", "close_insert"} => row.status # "none"
      BY <1>0 DEF RowExists, BeforeRow
    <3>2. AnsweredIn(m) # {} => row.status # "none"
      BY DEF AnsweredIn, NothingYet
    <3> QED
      BY <1>2, <3>1, <3>2 DEF Reached
  <2>3. ASSUME NEW p \in Procs, Acts(p)
        PROVE  /\ results'[k].state = "closed"
               /\ blob'.status = "in_progress" => blob'.mstat[k] # "pending"
               /\ \A q \in Procs :
                    pc'[q] \in Whole \cup {"finalize"} /\ st'[q].status = "in_progress" =>
                      st'[q].mstat[k] # "pending"
    <3>0. GoesTo(p) /\ CopyMoves(p) /\ StoreMoves(p) /\ Found(p) /\ pc[p] # "idle"
      BY <2>3 DEF Acts
    <3>1. ASSUME pc[p] = "finalize", pc'[p] = "finalize"
          PROVE  st[p].mstat[k] # "pending" /\ st'[p].mstat[k] # "pending"
                 /\ (k = cur[p] => st'[p].mstat[k] = "completed")
      <4>1. st[p].status # "finished" /\ st[p].status # "absent"
        BY <3>0, <3>1 DEF Found, CopiesAgree, Blank
      <4>2. st[p].status = "in_progress"
        BY <1>0, <4>1 DEF SessionState
      <4>3. st[p].mstat[k] \in {"in_progress", "completed"}
        BY <1>0, <2>1, <3>1, <4>2 DEF SessionState
      <4> QED
        BY <3>0, <3>1, <4>3 DEF CopyMoves
    <3>2. results'[k].state = "closed"
      <4>1. CASE pc[p] = "finalize" /\ pc'[p] = "finalize"
        BY <2>1, <3>0, <3>1, <4>1 DEF StoreMoves
      <4>2. CASE pc[p] = "close_result"
        BY <2>1, <3>0, <4>2 DEF StoreMoves
      <4>3. CASE pc[p] # "close_result" /\ ~(pc[p] = "finalize" /\ pc'[p] = "finalize")
        <5>1. results' = results
          BY <3>0, <4>3 DEF StoreMoves
        <5> QED
          BY <2>1, <5>1
      <4> QED
        BY <4>1, <4>2, <4>3
    <3>3. ASSUME blob'.status = "in_progress" PROVE blob'.mstat[k] # "pending"
      <4>1. CASE pc[p] \in Saving
        <5>1. blob' = st[p]
          BY <3>0, <4>1 DEF StoreMoves
        <5> QED
          BY <2>1, <3>3, <4>1, <5>1 DEF Saving, Whole
      <4>2. CASE pc[p] \notin Saving
        <5>1. pc'[p] # "fin_row"
          <6>1. pc'[p] = "fin_row" => pc[p] = "finalize"
            BY <2>3, ComesFrom
          <6> QED
            BY <3>0, <3>3, <6>1 DEF CopyMoves, StoreMoves
        <5>2. blob' = blob
          BY <3>0, <4>2, <5>1 DEF StoreMoves
        <5> QED
          BY <2>1, <3>3, <5>2
      <4> QED
        BY <4>1, <4>2
    <3>4. ASSUME pc'[p] \in Whole \cup {"finalize"}, st'[p].status = "in_progress"
          PROVE  st'[p].mstat[k] # "pending"
      <4>1. CASE pc[p] = "resume_blob"
        BY <2>1, <3>0, <3>4, <4>1 DEF CopyMoves, Whole
      <4>2. CASE pc[p] = "replay_results"
        BY <2>1, <3>0, <3>4, <4>2 DEF CopyMoves
      <4>3. pc[p] # "create_row"
        BY <2>2, <3>0, <3>4 DEF CopyMoves, GoesTo, Whole
      <4>4. CASE pc[p] \in Whole
        <5>1. st[p].status = "in_progress"
          BY <3>0, <3>4, <4>4 DEF CopyMoves, GoesTo, Keeping, SameHead, Whole
        <5>2. st[p].mstat[k] # "pending" /\ st[p].mstat \in [Modules -> {"pending",
                                                             "in_progress", "completed"}]
          BY <1>0, <2>1, <4>4, <5>1 DEF SessionState
        <5>3. CASE pc[p] = "begin" /\ pc'[p] # "advance"
          <6>1. st'[p].mstat = [st[p].mstat EXCEPT ![st[p].idx] = "in_progress"]
            BY <3>0, <5>3 DEF CopyMoves
          <6> QED
            BY <5>2, <6>1
        <5>4. CASE pc[p] = "close_result"
          <6>1. st'[p].mstat = [st[p].mstat EXCEPT ![st[p].idx] = "completed"]
            BY <3>0, <5>4 DEF CopyMoves
          <6> QED
            BY <5>2, <6>1
        <5>5. CASE ~(pc[p] = "begin" /\ pc'[p] # "advance") /\ pc[p] # "close_result"
          <6>1. st'[p].mstat = st[p].mstat
            BY <3>0, <3>4, <4>4, <5>5 DEF CopyMoves, GoesTo, Keeping, Whole
          <6> QED
            BY <5>2, <6>1
        <5> QED
          BY <5>3, <5>4, <5>5
      <4>5. CASE pc[p] = "finalize"
        <5>1. pc'[p] = "finalize"
          BY <3>0, <3>4, <4>5 DEF GoesTo, Whole
        <5> QED
          BY <3>1, <4>5, <5>1
      <4>6. pc[p] \in Whole \cup {"finalize", "create_row", "resume_blob", "replay_results"}
        BY <1>0, <3>0, <3>4 DEF GoesTo, Labels, Whole
      <4> QED
        BY <4>1, <4>2, <4>3, <4>4, <4>5, <4>6
    <3>5. \A q \in Procs : q # p => pc'[q] = pc[q] /\ st'[q] = st[q]
      BY <2>3 DEF Acts, Elsewhere
    <3> QED
      BY <2>1, <3>2, <3>3, <3>4, <3>5
  <2>4. ASSUME NEW p \in Tabs, Arrives(p)
        PROVE  /\ results'[k].state = "closed"
               /\ blob'.status = "in_progress" => blob'.mstat[k] # "pending"
               /\ \A q \in Procs :
                    pc'[q] \in Whole \cup {"finalize"} /\ st'[q].status = "in_progress" =>
                      st'[q].mstat[k] # "pending"
    <3>1. results' = results /\ blob' = blob
      BY <2>4 DEF Arrives, db
    <3>2. pc'[p] \in Whole \cup {"finalize"} => st'[p] = blob
      BY <2>4 DEF Arrives, Whole
    <3>3. \A q \in Procs : q # p => pc'[q] = pc[q] /\ st'[q] = st[q]
      BY <2>4 DEF Arrives, Elsewhere
    <3> QED
      BY <2>1, <3>1, <3>2, <3>3
  <2>5. ASSUME (\E p \in Background : Wakes(p)) \/ Loses \/ Rests
        PROVE  /\ results'[k].state = "closed"
               /\ blob'.status = "in_progress" => blob'.mstat[k] # "pending"
               /\ \A q \in Procs :
                    pc'[q] \in Whole \cup {"finalize"} /\ st'[q].status = "in_progress" =>
                      st'[q].mstat[k] # "pending"
    <3>1. results' = results /\ (blob' = blob \/ blob'.status = "absent")
      BY <2>5 DEF Wakes, Loses, Rests, db, Absent, FreshState
    <3>2. \A q \in Procs :
            pc'[q] \in Whole \cup {"finalize"} => pc'[q] = pc[q] /\ st'[q] = st[q]
      BY <1>0, <2>5 DEF Wakes, Loses, Rests, Elsewhere, Whole
    <3> QED
      BY <2>1, <3>1, <3>2
  <2> QED
    BY <1>k, <2>3, <2>4, <2>5, Actors
<1> QED
  BY <1>1, <1>2

(***************************************************************************)
(* While Redis keeps the state                                             *)
(***************************************************************************)
LEMMA LostStays ==
    ASSUME TypeOK, AtWork, [Next]_vars, faults' = 0, ~lost'
    PROVE  ~lost /\ ~Loses
<1>1. ASSUME NEW p \in Procs, Acts(p) PROVE lost' = lost
  BY <1>1 DEF Acts, StoreMoves
<1>2. ASSUME (\E p \in Tabs : Arrives(p)) \/ (\E p \in Background : Wakes(p)) \/ Rests
      PROVE  lost' = lost
  BY <1>2 DEF Arrives, Wakes, Rests, history
<1>3. ~Loses
  BY DEF Loses
<1> QED
  BY <1>1, <1>2, <1>3, Actors

\* While Redis keeps the state the tab works on exactly that state.
LEMMA NextKeptFits ==
    ASSUME TypeOK, AtWork, RowExists, Watched, CopiesAgree, KeptFits, OneTab, ~Overtaken,
           [Next]_vars, faults' = 0
    PROVE  KeptFits'
<1> SUFFICES ASSUME ~lost'
             PROVE  /\ \A p \in Procs : pc'[p] \notin Replaying \cup {"load_row"}
                    /\ blob'.status = "absent" /\ row'.status # "none" =>
                         \E p \in Tabs : pc'[p] \in {"create_invite", "create_save"}
                    /\ \A p \in Tabs :
                         pc'[p] \in Synchronous \cup {"create_job"} => blob' = st'[p]
  BY DEF KeptFits
<1>0. /\ \A q \in Tabs : q \in Procs
      /\ \A p \in Procs : pc[p] \in Labels
      /\ \A p \in Procs : pc[p] \notin Replaying \cup {"load_row"}
      /\ blob.status = "absent" /\ row.status # "none" =>
           \E p \in Tabs : pc[p] \in {"create_invite", "create_save"}
      /\ \A p \in Tabs : pc[p] \in Synchronous \cup {"create_job"} => blob = st[p]
      /\ \A o : Entry(o) \notin Replaying \cup {"load_row"}
  BY LostStays DEF KeptFits, Procs, TypeOK, Entry, Replaying
\* Whoever looks for the state finds it.
<1>1. ASSUME NEW p \in Procs, pc[p] = "resume_blob" PROVE blob.status # "absent"
  <2>1. row.status # "none"
    BY <1>1 DEF RowExists, BeforeRow
  <2>2. ASSUME NEW q \in Tabs, pc[q] \in {"create_invite", "create_save"} PROVE FALSE
    BY <1>1, <2>2, OpeningAlone DEF Opening, Procs
  <2> QED
    BY <1>0, <2>1, <2>2
<1>2. ASSUME NEW p \in Tabs, pc[p] = "idle", row.status # "none"
      PROVE  blob.status # "absent"
  BY <1>0, <1>2 DEF OneTab
<1>3. CASE \E p \in Procs : Acts(p)
  <2>0. PICK p \in Procs : Acts(p)
    BY <1>3
  <2>1. /\ GoesTo(p) /\ CopyMoves(p) /\ StoreMoves(p) /\ pc[p] # "idle"
        /\ \A q \in Procs : q # p => pc'[q] = pc[q] /\ st'[q] = st[q] /\ pc[q] \notin Synchronous
    BY <2>0 DEF Acts, Elsewhere, Running
  <2>2. pc'[p] \notin Replaying \cup {"load_row"}
    <3>1. CASE pc[p] = "resume_blob"
      BY <1>0, <1>1, <2>1, <3>1 DEF CopyMoves
    <3>2. CASE pc[p] # "resume_blob"
      BY <1>0, <2>1, <3>2 DEF GoesTo, Labels, Replaying
    <3> QED
      BY <3>1, <3>2
  <2>3. ASSUME blob'.status = "absent", row'.status # "none"
        PROVE  \E q \in Tabs : pc'[q] \in {"create_invite", "create_save"}
    <3>1. pc[p] \notin Saving
      BY <2>1, <2>3 DEF StoreMoves, CopiesAgree, Blank, Saving
    <3>2. pc'[p] # "fin_row"
      <4>1. pc'[p] = "fin_row" => pc[p] = "finalize"
        BY <2>0, ComesFrom
      <4> QED
        BY <2>1, <2>3, <4>1 DEF StoreMoves, CopyMoves
    <3>3. blob' = blob
      BY <2>1, <3>1, <3>2 DEF StoreMoves
    <3>4. CASE row.status = "none"
      <4>1. pc[p] \in BeforeRow
        BY <3>4 DEF RowExists
      <4>2. pc[p] = "create_row" /\ pc'[p] = "create_invite"
        BY <2>1, <2>3, <3>4, <4>1 DEF StoreMoves, BeforeRow
      <4>3. p \in Tabs
        BY <4>2 DEF Watched, BackgroundFits, AutoLabels, Procs
      <4> QED
        BY <4>2, <4>3
    <3>5. CASE row.status # "none"
      <4>1. PICK q \in Tabs : pc[q] \in {"create_invite", "create_save"}
        BY <1>0, <2>3, <3>3, <3>5
      <4>2. CASE q = p
        BY <2>1, <3>1, <4>1, <4>2 DEF GoesTo, Saving
      <4>3. CASE q # p
        BY <1>0, <2>1, <4>1, <4>3
      <4> QED
        BY <4>2, <4>3
    <3> QED
      BY <3>4, <3>5
  <2>4. ASSUME NEW q \in Tabs, pc'[q] \in Synchronous \cup {"create_job"}
        PROVE  blob' = st'[q]
    <3>1. CASE q = p
      <4>1. CASE pc[p] = "resume_blob"
        <5>1. st'[p] = blob /\ blob' = blob
          BY <1>1, <2>1, <2>4, <3>1, <4>1 DEF CopyMoves, StoreMoves, Saving, Synchronous
        <5> QED
          BY <3>1, <5>1
      <4>2. CASE pc[p] \in Saving
        BY <2>1, <2>4, <3>1, <4>2 DEF CopyMoves, StoreMoves, Saving, Keeping, Synchronous, GoesTo
      <4>3. CASE pc[p] \notin Saving \cup {"resume_blob"}
        <5>1. pc[p] \in {"create_job", "begin", "submit"}
          BY <1>0, <2>1, <2>4, <3>1, <4>3 DEF GoesTo, Labels, Saving, Synchronous
        <5>2. blob' = blob /\ st'[p] = st[p] /\ blob = st[p]
          BY <1>0, <2>1, <2>4, <3>1, <5>1 DEF CopyMoves, StoreMoves, Saving, Keeping, Synchronous,
             GoesTo
        <5> QED
          BY <3>1, <5>2
      <4> QED
        BY <4>1, <4>2, <4>3
    <3>2. CASE q # p
      <4>1. pc[q] = "create_job"
        BY <1>0, <2>1, <2>4, <3>2
      <4>2. pc[p] = "idle"
        BY <3>2, <4>1, OpeningAlone DEF Opening
      <4> QED
        BY <2>1, <4>2
    <3> QED
      BY <3>1, <3>2
  <2> QED
    BY <1>0, <2>1, <2>2, <2>3, <2>4
<1>4. CASE \E p \in Tabs : Arrives(p)
  <2>0. PICK p \in Tabs : Arrives(p)
    BY <1>4
  <2>1. /\ row' = row /\ blob' = blob /\ pc[p] = "idle"
        /\ \A q \in Procs : q # p => pc'[q] = pc[q]
        /\ \A q \in Tabs : q = p
    BY <2>0 DEF Arrives, db, Elsewhere, OneTab
  <2>2. pc'[p] \notin Replaying \cup {"load_row"}
    BY <1>0, <1>2, <2>0, <2>1 DEF Arrives, Replaying
  <2>3. pc'[p] \in Synchronous \cup {"create_job"} => st'[p] = blob
    BY <2>0 DEF Arrives, Synchronous
  <2>4. ~(blob.status = "absent" /\ row.status # "none")
    BY <1>2, <2>1
  <2> QED
    BY <1>0, <2>1, <2>2, <2>3, <2>4
<1>5. CASE (\E p \in Background : Wakes(p)) \/ Rests
  <2>1. /\ row' = row /\ blob' = blob
        /\ \A p \in Procs : \/ pc'[p] = pc[p] /\ (pc[p] = "idle" \/ st'[p] = st[p])
                            \/ pc'[p] = "auto_row" /\ pc[p] = "idle"
    BY <1>5 DEF Wakes, Rests, Elsewhere, db
  <2>2. \A p \in Procs : pc'[p] \notin Replaying \cup {"load_row"}
    BY <1>0, <2>1 DEF Replaying
  <2>3. blob'.status = "absent" /\ row'.status # "none" =>
                         \E p \in Tabs : pc'[p] \in {"create_invite", "create_save"}
    BY <1>0, <2>1
  <2>4. \A p \in Tabs : pc'[p] \in Synchronous \cup {"create_job"} => blob' = st'[p]
    BY <1>0, <2>1 DEF Synchronous
  <2> QED
    BY <2>2, <2>3, <2>4
<1> QED
  BY <1>3, <1>4, <1>5, LostStays, Actors

\* A question once shown is answered, or is the one on the screen of every state that
\* could be gone on with.
LEMMA NextScreenFits ==
    ASSUME TypeOK, AtWork, RowExists, Watched, NothingYet, BackgroundIsLate, CopiesAgree,
           ClosedIsSeen, TabFits, KeptFits, ScreenFits, OneTab, [Next]_vars, faults' = 0
    PROVE  ScreenFits'
<1> SUFFICES ASSUME ~lost'
             PROVE  /\ blob'.status = "in_progress" =>
                         \A k \in shown' : responses'[k] # "absent" \/ blob'.served = k
                    /\ \A p \in Tabs :
                         pc'[p] \in Whole /\ st'[p].status = "in_progress" =>
                           \A k \in shown' : responses'[k] # "absent" \/ st'[p].served = k
  BY DEF ScreenFits, Shows
<1>0. /\ \A q \in Tabs : q \in Procs
      /\ \A p \in Procs : pc[p] \in Labels /\ st[p] \in SessionState
      /\ shown \subseteq Questions /\ NoQuestion \notin Questions
      /\ blob.status = "in_progress" =>
           \A k \in shown : responses[k] # "absent" \/ blob.served = k
      /\ \A p \in Tabs :
           pc[p] \in Whole /\ st[p].status = "in_progress" =>
             \A k \in shown : responses[k] # "absent" \/ st[p].served = k
  BY LostStays, QuestionsAssumption DEF ScreenFits, Shows, Procs, TypeOK
<1>1. ASSUME NEW p \in Tabs, Acts(p)
      PROVE  /\ blob'.status = "in_progress" =>
                  \A k \in shown' : responses'[k] # "absent" \/ blob'.served = k
             /\ pc'[p] \in Whole /\ st'[p].status = "in_progress" =>
                  \A k \in shown' : responses'[k] # "absent" \/ st'[p].served = k
  <2>0. /\ GoesTo(p) /\ CopyMoves(p) /\ StoreMoves(p) /\ pc[p] # "idle"
        /\ p \in Procs /\ pc[p] \in Labels
    BY <1>0, <1>1 DEF Acts
  <2>1. CASE Inserts(p)
    <3>1. /\ pc[p] \in {"insert", "close_insert"}
          /\ shown' = shown /\ blob' = blob /\ st'[p].served = NoQuestion
          /\ st'[p].status = st[p].status
      <4>1. pc[p] \in {"insert", "close_insert"} /\ pc'[p] # "idle"
        BY <2>1 DEF Inserts
      <4>2. pc'[p] \in {"submit_save", "close_result"}
        BY <2>0, <4>1 DEF GoesTo
      <4> QED
        BY <2>0, <4>1, <4>2 DEF StoreMoves, CopyMoves, SameHead, Saving
    <3>2. \A k \in Questions :
             responses'[k] # "absent" <=> (responses[k] # "absent" \/ k = st[p].served)
      BY <1>1, <2>0, <2>1, Records
    <3>3. \A k \in shown : responses[k] # "absent" => responses'[k] # "absent"
      BY <1>0, <3>2
    <3>4. st[p].status = "in_progress" => \A k \in shown : responses'[k] # "absent"
      BY <1>0, <3>1, <3>2 DEF Whole
    <3> QED
      BY <1>0, <3>1, <3>3, <3>4
  <2>2. CASE pc[p] = "serve_save"
    <3>1. /\ pc'[p] = "idle" /\ blob' = st[p] /\ responses' = responses
          /\ shown' = shown \cup {st[p].served}
      BY <2>0, <2>2 DEF GoesTo, StoreMoves, Saving, Inserts
    <3>2. blob'.status = "in_progress" =>
             \A k \in shown : responses[k] # "absent" \/ st[p].served = k
      BY <1>0, <2>2, <3>1 DEF Whole
    <3> QED
      BY <3>1, <3>2 DEF Whole
  <2>3. CASE ~Inserts(p) /\ pc[p] # "serve_save"
    <3>1. responses' = responses /\ shown' = shown
      BY <2>0, <2>3 DEF StoreMoves
    <3>2. ASSUME blob'.status = "in_progress"
          PROVE  \A k \in shown : responses[k] # "absent" \/ blob'.served = k
      <4>1. CASE pc[p] \in Saving
        BY <1>0, <2>0, <3>2, <4>1 DEF StoreMoves, Saving, Whole
      <4>2. CASE pc[p] \notin Saving
        <5>1. pc'[p] = "fin_row" => pc[p] = "finalize"
          BY <1>1, <2>0, ComesFrom
        <5>2. pc'[p] # "fin_row"
          BY <2>0, <3>2, <5>1 DEF CopyMoves, StoreMoves
        <5>3. blob' = blob
          BY <2>0, <4>2, <5>2 DEF StoreMoves
        <5> QED
          BY <1>0, <3>2, <5>3
      <4> QED
        BY <4>1, <4>2
    <3>3. ASSUME pc'[p] \in Whole, st'[p].status = "in_progress"
          PROVE  \A k \in shown : responses[k] # "absent" \/ st'[p].served = k
      <4>1. CASE pc[p] = "create_row"
        <5>1. row.status = "none"
          BY <2>0, <3>3, <4>1 DEF GoesTo, CopyMoves, Whole
        <5> QED
          BY <5>1 DEF NothingYet
      <4>2. CASE pc[p] = "resume_blob"
        BY <1>0, <2>0, <3>3, <4>2 DEF CopyMoves, Whole
      <4>3. pc[p] # "replay_results"
        BY <2>0, LostStays DEF KeptFits, Replaying
      <4>4. CASE pc[p] = "advance" /\ pc'[p] = "serve_save"
        <5>1. /\ InOpenModule(p) /\ ~OnScreen(st[p])
          BY <2>0, <4>4 DEF CopyMoves
        <5>2. /\ Calm /\ st[p].status = "in_progress"
          BY <4>4, <5>1, TabIsCalm DEF InOpenModule, InModule, Advancing
        <5>3. Screen(st[p])
          BY <4>4, <5>2 DEF TabFits, Whole, Good
        <5>4. st[p].served = NoQuestion
          BY <5>1, <5>3 DEF Screen, OnScreen
        <5>5. \A k \in shown : responses[k] # "absent"
          BY <1>0, <4>4, <5>2, <5>4 DEF Whole
        <5> QED
          BY <5>5
      <4>5. CASE pc[p] \in Whole /\ ~(pc[p] = "advance" /\ pc'[p] = "serve_save")
        <5>1. st[p].status = "in_progress"
          BY <2>0, <3>3, <4>5 DEF CopyMoves, GoesTo, Keeping, SameHead, Whole
        <5>2. pc[p] \notin {"insert", "close_insert"}
          BY <2>3, <3>3 DEF Inserts, Whole
        <5>3. st'[p].served = st[p].served
          BY <2>0, <3>3, <4>5, <5>2 DEF CopyMoves, GoesTo, Keeping, Whole
        <5> QED
          BY <1>0, <4>5, <5>1, <5>3
      <4>6. pc[p] \in Whole \cup {"create_row", "resume_blob", "replay_results"}
        <5>1. pc[p] # "auto_row"
          BY <2>0, <3>3 DEF GoesTo, Whole
        <5> QED
          BY <2>0, <3>3, <5>1 DEF GoesTo, Labels, Whole
      <4> QED
        BY <4>1, <4>2, <4>3, <4>4, <4>5, <4>6
    <3> QED
      BY <3>1, <3>2, <3>3
  <2> QED
    BY <2>1, <2>2, <2>3
<1>2. CASE \E p \in Tabs : Acts(p)
  <2>1. PICK p \in Tabs : Acts(p)
    BY <1>2
  <2>2. \A q \in Tabs : q = p
    BY DEF OneTab
  <2> QED
    BY <1>1, <2>1, <2>2
<1>3. CASE \E p \in Procs \ Tabs : Acts(p)
  <2>0. PICK p \in Procs \ Tabs : Acts(p)
    BY <1>3
  <2>1. CopyMoves(p) /\ StoreMoves(p) /\ pc[p] \in AutoLabels /\ ~Inserts(p)
    BY <2>0, OnlyTabsWrite DEF Acts
  <2>2. pc[p] \notin Saving
    BY <2>1, LostStays DEF KeptFits, Replaying, AutoLabels, Saving
  <2>3. responses' = responses /\ shown' = shown
    BY <2>1 DEF StoreMoves, AutoLabels
  <2>4. blob' = blob \/ blob'.status = "finished"
    <3>1. pc'[p] = "fin_row" => pc[p] = "finalize"
      BY <2>0, ComesFrom
    <3> QED
      BY <2>1, <2>2, <3>1 DEF StoreMoves, CopyMoves
  <2>5. \A q \in Tabs : pc'[q] = pc[q] /\ st'[q] = st[q]
    BY <1>0, <2>0 DEF Acts, Elsewhere
  <2> QED
    BY <1>0, <2>3, <2>4, <2>5
<1>4. CASE \E p \in Tabs : Arrives(p)
  <2>0. PICK p \in Tabs : Arrives(p)
    BY <1>4
  <2>1. /\ responses' = responses /\ shown' = shown /\ blob' = blob
        /\ \A q \in Tabs : q = p
        /\ pc'[p] \in Whole => st'[p] = blob
    BY <2>0 DEF Arrives, db, history, OneTab, Whole
  <2> QED
    BY <1>0, <2>1
<1>5. CASE (\E p \in Background : Wakes(p)) \/ Rests
  <2>1. responses' = responses /\ shown' = shown /\ blob' = blob
    BY <1>5 DEF Wakes, Rests, db, history
  <2>2. \A q \in Tabs : pc'[q] \in Whole => pc'[q] = pc[q] /\ st'[q] = st[q]
    BY <1>0, <1>5 DEF Wakes, Rests, Elsewhere, Whole
  <2> QED
    BY <1>0, <2>1, <2>2
<1> QED
  BY <1>2, <1>3, <1>4, <1>5, LostStays, Actors

\* Once a question is about to be shown no state is ever without a begun section.
LEMMA NextBegunFits ==
    ASSUME TypeOK, AtWork, RowExists, Watched, NothingYet, BackgroundIsLate, CopiesAgree,
           ClosedIsSeen, KeptFits, BegunFits, OneTab, [Next]_vars, faults' = 0
    PROVE  BegunFits'
<1> DEFINE Started(s) == \E m \in Modules : s.mstat[m] # "pending"
           Goal == /\ blob'.status # "absent" => \E m \in Modules : blob'.mstat[m] # "pending"
                   /\ \A p \in Procs : pc'[p] \in Whole \cup {"finalize"} =>
                        \E m \in Modules : st'[p].mstat[m] # "pending"
                   /\ \A p \in Tabs : pc'[p] # "begin_row"
<1> SUFFICES ASSUME ~lost', Showing' PROVE Goal
  BY DEF BegunFits, Begun
<1>0. /\ \A q \in Tabs : q \in Procs
      /\ \A p \in Procs : pc[p] \in Labels /\ st[p] \in SessionState
      /\ ~lost
  BY LostStays DEF Procs, TypeOK
\* The first question of all is about to be shown.
<1>1. CASE ~Showing
  <2>1. PICK p \in Tabs : Acts(p) /\ pc[p] = "advance" /\ pc'[p] = "serve_save"
    <3>1. shown' = {}
      <4>1. ASSUME NEW p \in Procs, Acts(p) PROVE shown' = shown
        <5>1. pc[p] # "serve_save"
          <6>1. pc[p] = "serve_save" => p \in Tabs
            BY DEF Watched, BackgroundFits, AutoLabels, Procs
          <6> QED
            BY <1>1, <6>1 DEF Showing
        <5> QED
          BY <4>1, <5>1 DEF Acts, StoreMoves
      <4>2. ASSUME (\E p \in Tabs : Arrives(p)) \/ (\E p \in Background : Wakes(p)) \/ Rests
            PROVE  shown' = shown
        BY <4>2 DEF Arrives, Wakes, Rests, history
      <4> QED
        BY <1>1, <4>1, <4>2, LostStays, Actors DEF Showing
    <3>2. PICK p \in Tabs : pc'[p] = "serve_save"
      BY <3>1 DEF Showing
    <3>3. pc'[p] # pc[p]
      BY <1>1, <3>2 DEF Showing
    <3>4. \A q \in Procs : q # p => ~Acts(q) /\ ~Arrives(q) /\ ~Wakes(q)
      BY <1>0, <3>3 DEF Acts, Arrives, Wakes, Elsewhere
    <3>5. ~Arrives(p) /\ ~Wakes(p) /\ ~Rests
      BY <1>0, <3>2, <3>3 DEF Arrives, Wakes, Rests, Entry
    <3>6. Acts(p)
      BY <1>0, <3>4, <3>5, LostStays, Actors DEF Procs, Background
    <3>7. pc[p] = "advance"
      BY <1>0, <3>2, <3>6, ComesFrom
    <3> QED
      BY <3>2, <3>6, <3>7
  <2>2. /\ InOpenModule(p) /\ st'[p].mstat = st[p].mstat
    BY <2>1 DEF Acts, CopyMoves
  <2>3. \E m \in Modules : st[p].mstat[m] # "pending"
    BY <2>2 DEF InOpenModule, InModule
  <2>4. \A q \in Procs : q # p => pc'[q] = "idle"
    <3>1. \A q \in Procs : q # p => pc[q] = "idle"
      BY <2>1, <2>2, TabIsCalm DEF InOpenModule, InModule, Advancing
    <3> QED
      BY <2>1, <3>1 DEF Acts, Elsewhere
  <2>5. blob' = st[p]
    BY <1>0, <2>1 DEF Acts, StoreMoves, Saving, KeptFits, Synchronous
  <2> QED
    BY <1>0, <2>1, <2>2, <2>3, <2>4, <2>5 DEF Whole
\* A question has been shown, or is about to be.
<1>2. CASE Showing
  <2>1. /\ blob.status # "absent" => Started(blob)
        /\ \A p \in Procs : pc[p] \in Whole \cup {"finalize"} => Started(st[p])
        /\ \A p \in Tabs : pc[p] # "begin_row"
    BY <1>0, <1>2 DEF BegunFits, Begun
  <2>2. row.status # "none"
    BY <1>0, <1>2 DEF Showing, NothingYet, RowExists, BeforeRow
  <2>3. ASSUME NEW p \in Procs, Acts(p) PROVE Goal
    <3>0. /\ GoesTo(p) /\ CopyMoves(p) /\ StoreMoves(p) /\ pc[p] # "idle"
      BY <2>3 DEF Acts
    <3>1. ASSUME pc[p] \in Whole \cup {"finalize"}, pc'[p] # "idle"
          PROVE  Started(st'[p])
      <4>0. /\ Started(st[p])
            /\ st[p].mstat \in [Modules -> {"pending", "in_progress", "completed"}]
        BY <1>0, <2>1, <3>1 DEF SessionState
      <4>1. CASE pc[p] = "begin" /\ pc'[p] # "advance"
        <5>1. /\ st[p].idx \in Modules
              /\ st'[p].mstat = [st[p].mstat EXCEPT ![st[p].idx] = "in_progress"]
          BY <3>0, <4>1 DEF CopyMoves
        <5> QED
          BY <4>0, <5>1
      <4>2. CASE pc[p] = "close_result"
        <5>1. st'[p].mstat = [st[p].mstat EXCEPT ![st[p].idx] = "completed"]
          BY <3>0, <4>2 DEF CopyMoves
        <5> QED
          BY <4>0, <5>1
      <4>3. CASE pc[p] = "finalize"
        <5>1. pc'[p] \in {"finalize", "fin_row"}
          BY <3>0, <3>1, <4>3 DEF GoesTo
        <5>2. \A m \in Modules : st[p].mstat[m] # "pending" => st'[p].mstat[m] # "pending"
          BY <3>0, <4>3, <5>1 DEF CopyMoves
        <5> QED
          BY <4>0, <5>2
      <4>4. CASE ~(pc[p] = "begin" /\ pc'[p] # "advance") /\ pc[p] \notin {"close_result", "finalize"}
        <5>1. st'[p].mstat = st[p].mstat
          BY <3>0, <3>1, <4>4 DEF CopyMoves, GoesTo, Keeping, Whole
        <5> QED
          BY <4>0, <5>1
      <4> QED
        BY <4>1, <4>2, <4>3, <4>4
    <3>2. ASSUME pc'[p] \in Whole \cup {"finalize"} PROVE Started(st'[p])
      <4>1. CASE pc[p] = "resume_blob"
        <5>1. pc'[p] # "replay_answers"
          BY <3>2 DEF Whole
        <5> QED
          BY <2>1, <3>0, <4>1, <5>1 DEF CopyMoves
      <4>2. pc[p] # "replay_results" /\ pc[p] # "replay_save"
        BY <1>0 DEF KeptFits, Replaying
      <4>3. pc[p] # "create_row"
        BY <2>2, <3>0, <3>2 DEF CopyMoves, GoesTo, Whole
      <4>4. pc[p] \in Whole \cup {"finalize", "create_row", "resume_blob", "replay_results"}
        BY <1>0, <3>0, <3>2 DEF GoesTo, Labels, Whole
      <4> QED
        BY <3>1, <3>2, <4>1, <4>2, <4>3, <4>4 DEF Whole
    <3>3. ASSUME blob'.status # "absent" PROVE \E m \in Modules : blob'.mstat[m] # "pending"
      <4>1. CASE pc[p] \in Saving
        <5>1. blob' = st[p]
          BY <3>0, <4>1 DEF StoreMoves
        <5> QED
          BY <2>1, <4>1, <5>1 DEF Saving, Whole
      <4>2. CASE pc'[p] = "fin_row"
        <5>1. pc[p] = "finalize"
          BY <2>3, <4>2, ComesFrom
        <5>2. blob' = st'[p]
          BY <3>0, <4>2, <5>1 DEF StoreMoves
        <5> QED
          BY <3>1, <4>2, <5>1, <5>2
      <4>3. CASE pc[p] \notin Saving /\ pc'[p] # "fin_row"
        <5>1. blob' = blob
          BY <3>0, <4>3 DEF StoreMoves
        <5> QED
          BY <2>1, <3>3, <5>1
      <4> QED
        BY <4>1, <4>2, <4>3
    <3>4. \A q \in Procs : q # p => pc'[q] = pc[q] /\ st'[q] = st[q]
      BY <2>3 DEF Acts, Elsewhere
    <3>5. pc'[p] # "begin_row"
      <4>1. ASSUME pc'[p] = "begin_row" PROVE FALSE
        <5>1. pc[p] = "begin"
          BY <2>3, <4>1, ComesFrom
        <5>2. IsFirstToStart(st[p])
          BY <3>0, <4>1, <5>1 DEF CopyMoves
        <5>3. Started(st[p])
          BY <2>1, <5>1 DEF Whole
        <5> QED
          BY <5>2, <5>3 DEF IsFirstToStart
      <4> QED
        BY <4>1
    <3> QED
      BY <1>0, <2>1, <3>2, <3>3, <3>4, <3>5
  <2>4. ASSUME NEW p \in Tabs, Arrives(p) PROVE Goal
    <3>1. /\ blob' = blob
          /\ \A q \in Procs : q # p => pc'[q] = pc[q] /\ st'[q] = st[q]
          /\ pc'[p] \in Whole \cup {"finalize"} => blob.status # "absent" /\ st'[p] = blob
          /\ pc'[p] # "begin_row"
      BY <2>4 DEF Arrives, Elsewhere, Whole, Entry
    <3> QED
      BY <1>0, <2>1, <3>1
  <2>5. ASSUME (\E p \in Background : Wakes(p)) \/ Rests PROVE Goal
    <3>1. /\ blob' = blob
          /\ \A q \in Procs :
               \/ pc'[q] = pc[q] /\ (pc[q] = "idle" \/ st'[q] = st[q])
               \/ pc'[q] = "auto_row"
      BY <2>5 DEF Wakes, Rests, Elsewhere
    <3> QED
      BY <1>0, <2>1, <3>1 DEF Whole
  <2> QED
    BY <2>3, <2>4, <2>5, LostStays, Actors
<1> QED
  BY <1>1, <1>2

(***************************************************************************)
(* With one tab: the inductive invariant and what follows from it          *)
(***************************************************************************)
Undisturbed ==
    /\ NothingYet /\ OpsFit /\ FirstFits /\ BeginFits /\ BackgroundIsLate
    /\ CreatedIsOpen /\ InvitationFits /\ CopiesAgree /\ ClosedIsSeen /\ BackgroundReplays
    /\ BlobFits /\ TabFits /\ AnsweringFits /\ Lengths /\ CoversFit
    /\ KeptFits /\ ScreenFits /\ BegunFits

OneTabInv ==
    /\ TypeOK /\ AtWork /\ RowExists /\ Watched
    /\ ~overtaken => ~Overtaken /\ (faults = 0 => Undisturbed)

\* The invariant holds at first.
LEMMA InitOneTab == TrackedInit => OneTabInv
<1> SUFFICES ASSUME Init PROVE OneTabInv
  BY DEF TrackedInit
<1>1. TypeOK
  BY InitType
<1>2. AtWork /\ RowExists /\ Watched
  <2>1. AtWork
    BY DEF Init, AtWork, HasQuestion, HasModule
  <2> QED
    BY <2>1, InitWatched
<1>0. /\ \A p \in Procs : pc[p] = "idle" /\ op[p] = "none"
      /\ row.status = "none" /\ blob.status = "absent" /\ job.state = "none" /\ shown = {}
      /\ invitation = "pending"
      /\ \A q \in Questions : responses[q] = "absent"
      /\ \A m \in Modules : results[m].state = "absent"
      /\ \A p \in Tabs \cup Background : p \in Procs
  BY DEF Init, NoJob, Absent, FreshState, Procs, Background
<1>3. NothingYet /\ OpsFit /\ FirstFits /\ BeginFits /\ BackgroundIsLate /\ CreatedIsOpen
  BY <1>0 DEF NothingYet, OpsFit, FirstFits, BeginFits, BackgroundIsLate, CreatedIsOpen, Creating
<1>4. InvitationFits /\ CopiesAgree /\ ClosedIsSeen /\ BackgroundReplays
  BY <1>0 DEF InvitationFits, IsClosed, Closed, CopiesAgree, Blank, ClosedIsSeen,
        BackgroundReplays, Replaying
<1>5. BlobFits /\ TabFits /\ AnsweringFits
  BY <1>0 DEF BlobFits, TabFits, AnsweringFits, Calm, Open
<1>6. Lengths /\ CoversFit
  <2>1. \A m \in Modules : AnsweredIn(m) = {}
    BY <1>0 DEF AnsweredIn
  <2>2. \A m \in Modules : Cardinality(AnsweredIn(m)) = 0 /\ ~Reached(m)
    BY <1>0, <2>1, FS_EmptySet DEF Reached
  <2> QED
    BY <1>0, <2>2, ModulesAssumption DEF Lengths, CoversFit, Whole
<1>7. KeptFits /\ ScreenFits /\ BegunFits
  BY <1>0 DEF KeptFits, Replaying, Synchronous, ScreenFits, Whole, Shows, BegunFits, Showing
<1>8. ~Overtaken
  BY <1>0 DEF Overtaken, Opening
<1> QED
  BY <1>1, <1>2, <1>3, <1>4, <1>5, <1>6, <1>7, <1>8 DEF OneTabInv, Undisturbed

\* Every step keeps the invariant.
LEMMA NextOneTab ==
    ASSUME OneTab, OneTabInv, [TrackedNext]_trackedVars
    PROVE  OneTabInv'
<1>0. TypeOK /\ AtWork /\ RowExists /\ Watched
  BY DEF OneTabInv
<1>1. [Next]_vars
  BY DEF TrackedNext, trackedVars
<1>2. TypeOK' /\ AtWork' /\ RowExists' /\ Watched'
  BY <1>0, <1>1, NextType, NextAtWork, NextRowExists, NextWatched
<1>3. ASSUME ~overtaken' PROVE ~overtaken /\ ~Overtaken /\ ~Overtaken'
  <2>1. CASE TrackedNext
    BY <1>3, <2>1 DEF TrackedNext, OneTabInv
  <2>2. CASE UNCHANGED trackedVars
    <3>1. ~overtaken /\ ~Overtaken
      BY <1>3, <2>2 DEF trackedVars, OneTabInv
    <3>2. pc' = pc /\ st' = st /\ row' = row
      BY <2>2 DEF trackedVars, vars, db
    <3> QED
      BY <3>1, <3>2 DEF Overtaken, Opening, FirstBegun, IsClosed
  <2> QED
    BY <2>1, <2>2
<1>4. ASSUME ~overtaken', faults' = 0 PROVE Undisturbed'
  <2>0. Undisturbed /\ ~Overtaken /\ ~Overtaken'
    BY <1>0, <1>1, <1>3, <1>4, Actors DEF OneTabInv
  <2>1. NothingYet' /\ OpsFit' /\ FirstFits' /\ BeginFits' /\ BackgroundIsLate'
    BY <1>0, <1>1, <1>4, <2>0, NextNothingYet, NextOpsFit, NextFirstFits, NextBeginFits,
       NextBackgroundIsLate
       DEF Undisturbed
  <2>2. CreatedIsOpen' /\ InvitationFits'
    BY <1>0, <1>1, <1>4, <2>0, NextCreatedIsOpen, NextInvitationFits DEF Undisturbed
  <2>3. CopiesAgree' /\ ClosedIsSeen' /\ BackgroundReplays'
    BY <1>0, <1>1, <1>4, <2>0, NextCopiesAgree, NextClosedIsSeen, NextBackgroundReplays
       DEF Undisturbed
  <2>4. BlobFits' /\ TabFits' /\ AnsweringFits' /\ Lengths'
    BY <1>0, <1>1, <1>4, <2>0, NextBlobFits, NextTabFits, NextAnsweringFits, NextLengths
       DEF Undisturbed
  <2>5. CoversFit' /\ KeptFits' /\ ScreenFits' /\ BegunFits'
    BY <1>0, <1>1, <1>4, <2>0, NextCoversFit, NextKeptFits, NextScreenFits, NextBegunFits
       DEF Undisturbed
  <2> QED
    BY <2>1, <2>2, <2>3, <2>4, <2>5 DEF Undisturbed
<1> QED
  BY <1>2, <1>3, <1>4 DEF OneTabInv

\* The invariant holds of the candidate with one tab.
LEMMA OneTabInvariant ==
    ASSUME OneTab
    PROVE  TrackedSpec => []OneTabInv
<1>1. OneTabInv /\ [TrackedNext]_trackedVars => OneTabInv'
  BY NextOneTab
<1> QED
  BY <1>1, InitOneTab, PTL DEF TrackedSpec

\* With one tab, no failed call and no overtaken opening, the invitation and the attempt end
\* together and the report is queued: finalize's calls after the session row, and
\* createSession's after its insert, never cross.
THEOREM InvitationEndsWithAttempt ==
    ASSUME OneTab
    PROVE  TrackedSpec => []InvitationFollowsAttempt
<1>1. OneTabInv => InvitationFollowsAttempt
  <2> SUFFICES ASSUME OneTabInv, Quiet, faults = 0, ~overtaken
               PROVE  /\ invitation # "revoked" => (invitation = "completed" <=> IsClosed)
                      /\ IsClosed => reportQueued
    BY DEF InvitationFollowsAttempt
  <2>1. InvitationFits
    BY DEF OneTabInv, Undisturbed
  <2> QED
    BY <2>1 DEF InvitationFits, ClosedLabels, Quiet
<1> QED
  BY <1>1, OneTabInvariant, PTL

\* With one tab, no failed call, no overtaken opening and the state kept in Redis, every
\* question ever shown is answered or still on the screen: advance never skips one.
THEOREM NothingIsSkipped ==
    ASSUME OneTab
    PROVE  TrackedSpec => []NothingSkipped
<1>1. OneTabInv => NothingSkipped
  BY DEF OneTabInv, Undisturbed, NothingSkipped, ScreenFits, Shows
<1> QED
  BY <1>1, OneTabInvariant, PTL

\* With one tab, no failed call and no overtaken opening, no section takes more answers than
\* its length and none is entered before the one before it has its final result row,
\* evictions included.
THEOREM SectionsAlwaysHold ==
    ASSUME OneTab
    PROVE  TrackedSpec => []SectionsHold
<1>1. OneTabInv => SectionsHold
  <2> SUFFICES ASSUME OneTabInv, faults = 0, ~overtaken
               PROVE  /\ \A m \in Modules : Cardinality(AnsweredIn(m)) <= QuestionCount[m]
                      /\ \A m \in Modules \ {1} :
                           AnsweredIn(m) # {} => results[m - 1].state = "closed"
    BY DEF SectionsHold, FixedLength, ModulesInOrder
  <2>1. Lengths /\ CoversFit
    BY DEF OneTabInv, Undisturbed
  <2> QED
    BY <2>1 DEF Lengths, CoversFit, Reached
<1> QED
  BY <1>1, OneTabInvariant, PTL

\* With one tab, no failed call and no overtaken opening, a rebuild at rest would find the
\* answers and the closed modules exactly as the live state has them.
THEOREM ReplayIsAlwaysExact ==
    ASSUME OneTab
    PROVE  TrackedSpec => []ReplayIsExact
<1>1. OneTabInv => ReplayIsExact
  <2> SUFFICES ASSUME OneTabInv, Quiet, Open, blob.status = "in_progress", faults = 0,
                      ~overtaken
               PROVE  \A m \in Modules :
                        /\ blob.answered[m] = Cardinality(AnsweredIn(m))
                        /\ blob.mstat[m] = "completed" <=> results[m].state = "closed"
                        /\ \A q \in blob.seen : responses[q] # "absent" \/ q = blob.served
    BY DEF ReplayIsExact
  <2>1. BlobFits
    BY DEF OneTabInv, Undisturbed
  <2>2. Calm /\ \A p \in Tabs : pc[p] \notin Dirty
    BY DEF Quiet, Calm, Settling, Replaying, Dirty, Procs
  <2>3. Good(blob)
    BY <2>1, <2>2 DEF BlobFits
  <2> QED
    BY <2>3 DEF Good, Exact, Marks, Seen
<1> QED
  BY <1>1, OneTabInvariant, PTL

\* With one tab, no failed call, no overtaken opening and the state kept in Redis, the
\* deadline of an attempt no longer moves once a question has been shown: beginSessionClock
\* runs for the first module only.
THEOREM DeadlineStaysFixed ==
    ASSUME OneTab
    PROVE  TrackedSpec => DeadlineIsFixed
<1>1. OneTabInv /\ [TrackedNext]_trackedVars
        => [shown # {} /\ faults = 0 /\ ~lost /\ ~overtaken
              => row'.expiresAt = row.expiresAt]_vars
  <2> SUFFICES ASSUME OneTabInv, [Next]_vars, shown # {}, faults = 0, ~lost, ~overtaken
               PROVE  row'.expiresAt = row.expiresAt
    BY DEF TrackedNext, trackedVars
  <2>0. /\ NothingYet /\ BegunFits /\ Watched
        /\ row \in [status: {"none", "in_progress"} \cup Closed, expiresAt: Nat]
    BY DEF OneTabInv, Undisturbed, TypeOK
  <2>1. ASSUME NEW p \in Procs, CreateRow(p) PROVE row' = row
    BY <2>0, <2>1 DEF CreateRow, NothingYet
  <2>2. ASSUME NEW p \in Procs, BeginRow(p) PROVE FALSE
    <3>1. pc[p] = "begin_row"
      BY <2>2 DEF BeginRow
    <3>2. p \in Tabs
      BY <2>0, <3>1 DEF Watched, BackgroundFits, AutoLabels, Procs
    <3> QED
      BY <2>0, <3>1, <3>2 DEF BegunFits, Showing
  <2>3. ASSUME NEW p \in Procs, FinaliseRow(p) PROVE row'.expiresAt = row.expiresAt
    BY <2>0, <2>3 DEF FinaliseRow
  <2> QED
    BY <2>1, <2>2, <2>3, DurableSteps
<1> QED
  BY <1>1, OneTabInvariant, PTL DEF TrackedSpec, DeadlineIsFixed

============================================================================
