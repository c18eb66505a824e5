----------------------- MODULE SessionRuntime_proofs -----------------------
(***************************************************************************)
(* Theorems of SessionRuntime for any number of tabs, modules, questions,  *)
(* failures and evictions.                                                 *)
(***************************************************************************)
EXTENDS SessionSafety, FiniteSetTheorems, WellFoundedInduction, TLAPS

(***************************************************************************)
(* The budget: a sum over the modules, by induction on their number        *)
(***************************************************************************)
LEMMA EveryNumber ==
    ASSUME NEW T, 0 \in T, \A n \in Nat : n \in T => n + 1 \in T
    PROVE  Nat \subseteq T
<1> DEFINE R == {ss \in Nat \X Nat : ss[1] < ss[2]}
           Others == Nat \ T
<1> SUFFICES ASSUME Others # {} PROVE FALSE
  OBVIOUS
<1>1. IsWellFoundedOn(R, Nat)
  BY NatLessThanWellFounded DEF OpToRel
<1>2. \E m \in Others : \A k \in Others : ~(<<k, m>> \in R)
  <2>1. Others \subseteq Nat
    OBVIOUS
  <2> HIDE DEF R, Others
  <2> QED
    BY <1>1, <2>1, WFMin
<1>3. PICK m \in Others : \A k \in Others : ~(<<k, m>> \in R)
  BY <1>2
<1>4. m \in Nat \ {0} /\ m \notin T
  BY <1>3
<1>5. m - 1 \in Nat /\ m - 1 < m
  BY <1>4
<1>6. m - 1 \in T
  BY <1>3, <1>4, <1>5
<1>7. (m - 1) + 1 = m
  BY <1>4
<1> QED
  BY <1>4, <1>5, <1>6, <1>7

\* total holds the sums over the first k modules, and so on down.
SumsUpTo(total, k) ==
    total = [n \in 0 .. k |-> IF n = 0 THEN 0 ELSE total[n - 1] + TimeLimit[n] + Intermission]

LEMMA SumsExist == ASSUME NEW k \in Nat PROVE \E total : SumsUpTo(total, k)
<1> DEFINE T == {n \in Nat : \E total : SumsUpTo(total, n)}
<1>1. 0 \in T
  <2>1. SumsUpTo([n \in 0 .. 0 |-> 0], 0)
    BY DEF SumsUpTo
  <2> QED
    BY <2>1
<1>2. ASSUME NEW m \in Nat, m \in T PROVE m + 1 \in T
  <2>1. PICK f : SumsUpTo(f, m)
    BY <1>2
  <2> DEFINE last == f[m] + TimeLimit[m + 1] + Intermission
             g == [n \in 0 .. m + 1 |-> IF n = m + 1 THEN last ELSE f[n]]
  <2>2. \A n \in 0 .. m : f[n] = IF n = 0 THEN 0 ELSE f[n - 1] + TimeLimit[n] + Intermission
    BY <2>1 DEF SumsUpTo
  <2>3. /\ g = [n \in 0 .. m + 1 |-> g[n]]
        /\ \A n \in 0 .. m : g[n] = f[n]
        /\ g[m + 1] = f[m] + TimeLimit[m + 1] + Intermission
    OBVIOUS
  <2> HIDE DEF g
  <2>4. ASSUME NEW n \in 0 .. m + 1
        PROVE  g[n] = IF n = 0 THEN 0 ELSE g[n - 1] + TimeLimit[n] + Intermission
    <3>1. CASE n = m + 1
      <4>1. n # 0 /\ n - 1 = m /\ g[m] = f[m]
        BY <2>3, <3>1
      <4> QED
        BY <2>3, <3>1, <4>1
    <3>2. CASE n = 0
      <4>1. 0 \in 0 .. m
        OBVIOUS
      <4>2. g[0] = f[0] /\ f[0] = 0
        BY <2>2, <2>3, <4>1
      <4> QED
        BY <3>2, <4>2
    <3>3. CASE n \in 1 .. m
      <4>1. n # 0 /\ n \in 0 .. m /\ n - 1 \in 0 .. m
        BY <3>3
      <4>2. g[n] = f[n] /\ g[n - 1] = f[n - 1]
        BY <2>3, <4>1
      <4> QED
        BY <2>2, <4>1, <4>2
    <3> QED
      BY <3>1, <3>2, <3>3
  <2>5. SumsUpTo(g, m + 1)
    BY <2>3, <2>4 DEF SumsUpTo
  <2> QED
    BY <2>5
<1>3. Nat \subseteq T
  <2> HIDE DEF T
  <2> QED
    BY <1>1, <1>2, EveryNumber
<1> QED
  BY <1>3

LEMMA BudgetIsANumber == Budget \in Nat
<1> DEFINE total == CHOOSE f : SumsUpTo(f, N)
<1>1. SumsUpTo(total, N) /\ N \in Nat
  BY SumsExist, ModulesAssumption
<1>2. Budget = total[N]
  BY DEF Budget, SumsUpTo
<1> HIDE DEF total
<1>3. \A n \in 0 .. N : total[n] = IF n = 0 THEN 0 ELSE total[n - 1] + TimeLimit[n] + Intermission
  BY <1>1 DEF SumsUpTo
<1> DEFINE T == {n \in Nat : n <= N => total[n] \in Nat}
<1>4. 0 \in T
  BY <1>1, <1>3
<1>5. ASSUME NEW n \in Nat, n \in T PROVE n + 1 \in T
  <2> SUFFICES ASSUME n + 1 <= N PROVE total[n + 1] \in Nat
    OBVIOUS
  <2>1. total[n] \in Nat /\ n + 1 \in 0 .. N /\ n + 1 # 0 /\ (n + 1) - 1 = n
    BY <1>1, <1>5
  <2>2. TimeLimit[n + 1] \in Nat /\ Intermission \in Nat
    BY <1>1, ModulesAssumption, TimesAssumption DEF Modules
  <2> QED
    BY <1>3, <2>1, <2>2
<1>6. Nat \subseteq T
  <2> HIDE DEF T
  <2> QED
    BY <1>4, <1>5, EveryNumber
<1> QED
  BY <1>1, <1>2, <1>6

(***************************************************************************)
(* The working copies                                                      *)
(***************************************************************************)

\* createSession and rehydrate start from a well-formed state.
LEMMA FreshStateType ==
    ASSUME NEW status \in {"absent", "in_progress", "finished"}, NEW e \in Nat
    PROVE  FreshState(status, e) \in SessionState
BY ModulesAssumption DEF FreshState, SessionState, Modules

\* applyAnswer keeps the state well-formed.
LEMMA AnsweredType ==
    ASSUME NEW s \in SessionState, s.served \in Questions
    PROVE  Answered(s) \in SessionState
<1> DEFINE counted == [s.answered EXCEPT ![ModuleOf[s.served]] = @ + 1]
<1>1. counted \in [Modules -> Nat]
  BY QuestionsAssumption DEF SessionState
<1>2. Answered(s) = [s EXCEPT !.answered = counted, !.served = NoQuestion]
  BY DEF Answered, SessionState
<1> HIDE DEF counted
<1> QED
  BY <1>1, <1>2 DEF SessionState

\* Completing a module keeps the state well-formed.
LEMMA CompletedType ==
    ASSUME NEW s \in SessionState, NEW m \in Modules
    PROVE  [s EXCEPT !.mstat[m] = "completed"] \in SessionState
<1> DEFINE mstat == [s.mstat EXCEPT ![m] = "completed"]
<1>1. mstat \in [Modules -> {"pending", "in_progress", "completed"}]
  BY DEF SessionState
<1>2. [s EXCEPT !.mstat[m] = "completed"] = [s EXCEPT !.mstat = mstat]
  BY DEF SessionState
<1> HIDE DEF mstat
<1> QED
  BY <1>1, <1>2 DEF SessionState

\* Moving on from a module keeps the state well-formed.
LEMMA NextModuleType ==
    ASSUME NEW s \in SessionState, s.idx \in Modules
    PROVE  [s EXCEPT !.idx = @ + 1] \in SessionState
<1>1. s.idx + 1 \in 1 .. N + 1
  BY ModulesAssumption DEF Modules
<1> QED
  BY <1>1 DEF SessionState

\* persistModuleResult writes a well-formed row.
LEMMA ResultRowType ==
    ASSUME NEW s \in SessionState, NEW m \in Modules
    PROVE  ResultRow(s, m) \in [state: {"absent", "open", "closed"}, count: Nat]
BY DEF ResultRow, SessionState

\* The number of answers of a module is a natural number.
LEMMA AnsweredInType ==
    ASSUME NEW m \in Modules
    PROVE  /\ IsFiniteSet(AnsweredIn(m))
           /\ Cardinality(AnsweredIn(m)) \in Nat
<1>1. AnsweredIn(m) \subseteq Questions
  BY DEF AnsweredIn
<1>2. IsFiniteSet(AnsweredIn(m))
  BY <1>1, QuestionsAssumption, FS_Subset
<1> QED
  BY <1>2, FS_CardinalityType

(***************************************************************************)
(* Types.  TypeOK is not inductive: an insert needs a question in the      *)
(* working copy, and closing a module needs the copy to be in one.         *)
(***************************************************************************)
HasQuestion == {"insert", "close_insert", "serve_save"}
HasModule == {"close_insert", "close_result"}

AtWork ==
    \A p \in Procs :
        /\ pc[p] \in HasQuestion => st[p].served \in Questions
        /\ pc[p] \in HasModule => st[p].idx \in Modules

LEMMA InitType == Init => TypeOK
<1> SUFFICES ASSUME Init PROVE TypeOK
  OBVIOUS
<1>1. Absent \in SessionState
  BY FreshStateType DEF Absent
<1>2. 1 \in 1 .. N + 1
  BY ModulesAssumption
<1> QED
  BY <1>1, <1>2 DEF Init, TypeOK, NoJob, Labels, Operations, Closed

\* start, createSession
LEMMA StartType ==
    ASSUME TypeOK, NEW p \in Procs,
           \/ StartCheck(p) \/ StartFind(p) \/ CreateRow(p)
           \/ CreateInvite(p) \/ CreateSave(p) \/ CreateJob(p)
    PROVE  TypeOK'
<1>1. CASE StartCheck(p)
  BY <1>1 DEF TypeOK, StartCheck, Goto, Labels, Operations, db, queue, env, history
<1>2. CASE StartFind(p)
  <2>1. /\ Absent \in SessionState
        /\ FreshState("in_progress", row.expiresAt) \in SessionState
        /\ 1 \in 1 .. N + 1
    BY FreshStateType, ModulesAssumption DEF TypeOK, Absent
  <2> QED
    BY <1>2, <2>1 DEF TypeOK, StartFind, Goto, Work, End, Forget, NoJob, Labels,
          Operations, Closed, db, env, history, locals
<1>3. CASE CreateRow(p)
  <2>1. now + Budget + StartGrace \in Nat
    BY BudgetIsANumber, TimesAssumption DEF TypeOK
  <2>2. FreshState("in_progress", now + Budget + StartGrace) \in SessionState
    BY <2>1, FreshStateType
  <2> QED
    BY <1>3, <2>1, <2>2 DEF TypeOK, CreateRow, Goto, Work, Labels, queue, env, history, locals
<1>4. CASE CreateInvite(p)
  BY <1>4 DEF TypeOK, CreateInvite, Goto, Labels, queue, env, history, locals
<1>5. CASE CreateSave(p)
  BY <1>5 DEF TypeOK, CreateSave, Goto, Labels, db, queue, env, history, locals
<1>6. CASE CreateJob(p)
  <2>1. now + Budget + StartGrace \in Nat
    BY BudgetIsANumber, TimesAssumption DEF TypeOK
  <2> QED
    BY <1>6, <2>1 DEF TypeOK, CreateJob, JobAfterAdd, Goto, Labels, db, env, history, locals
<1> QED
  BY <1>1, <1>2, <1>3, <1>4, <1>5, <1>6

\* load, resume, rehydrate
LEMMA LoadType ==
    ASSUME TypeOK, NEW p \in Procs,
           \/ \E o \in {"current", "begin", "submit"}, q \in Questions \cup {NoQuestion} :
                 Load(p, o, q)
           \/ LoadRow(p) \/ ResumeBlob(p) \/ ReplayAnswers(p)
           \/ ReplayResults(p) \/ ReplaySave(p)
    PROVE  TypeOK'
<1>0. \A o \in Operations : Entry(o) \in Labels
  BY DEF Entry, Operations, Labels
<1>1. ASSUME NEW o \in {"current", "begin", "submit"},
             NEW q \in Questions \cup {NoQuestion}, Load(p, o, q)
      PROVE  TypeOK'
  <2>1. o \in Operations /\ Entry(o) \in Labels
    BY <1>0 DEF Operations
  <2> QED
    BY <1>1, <2>1 DEF TypeOK, Load, Work, Goto, Labels, db, queue, env, history
<1>2. CASE LoadRow(p)
  <2>1. FreshState(IF row.status = "in_progress" THEN "in_progress" ELSE "finished",
                   row.expiresAt) \in SessionState
    BY FreshStateType DEF TypeOK
  <2> QED
    BY <1>2, <2>1 DEF TypeOK, LoadRow, Work, Goto, Labels, db, queue, env, history, locals
<1>3. CASE ResumeBlob(p)
  <2>1. Entry(op[p]) \in Labels
    BY <1>0 DEF TypeOK
  <2> QED
    BY <1>3, <2>1 DEF TypeOK, ResumeBlob, Work, Goto, Labels, db, queue, env, history, locals
<1>4. CASE ReplayAnswers(p)
  <2> DEFINE counts == [m \in Modules |-> Cardinality(AnsweredIn(m))]
             mstat == [m \in Modules |->
                         IF AnsweredIn(m) # {} THEN "in_progress" ELSE "pending"]
             seen == {q \in Questions : responses[q] # "absent"}
  <2>1. counts \in [Modules -> Nat]
    BY AnsweredInType
  <2>2. mstat \in [Modules -> {"pending", "in_progress", "completed"}]
    OBVIOUS
  <2>3. st[p] \in SessionState /\ seen \in SUBSET Questions
    BY DEF TypeOK
  <2>4. [st[p] EXCEPT !.seen = seen, !.answered = counts, !.mstat = mstat] \in SessionState
    <3> HIDE DEF counts, mstat, seen
    <3> QED
      BY <2>1, <2>2, <2>3 DEF SessionState
  <2> QED
    BY <1>4, <2>4 DEF TypeOK, ReplayAnswers, Work, Goto, Labels, db, queue, env, history, locals
<1>5. CASE ReplayResults(p)
  <2> DEFINE s == st[p]
             mstat == [m \in Modules |->
                         IF results[m].state = "closed" THEN "completed" ELSE s.mstat[m]]
             deadline == [m \in Modules |->
                            IF mstat[m] = "in_progress" THEN now + TimeLimit[m] ELSE 0]
  <2>1. PICK i \in 1 .. N + 1 :
          Work(p, [s EXCEPT !.mstat = mstat, !.idx = i, !.deadline = deadline], "replay_save")
    BY <1>5 DEF ReplayResults
  <2>2. s \in SessionState
    BY DEF TypeOK
  <2>3. mstat \in [Modules -> {"pending", "in_progress", "completed"}]
    BY <2>2 DEF SessionState
  <2>4. deadline \in [Modules -> Nat]
    BY ModulesAssumption DEF TypeOK
  <2>5. [s EXCEPT !.mstat = mstat, !.idx = i, !.deadline = deadline] \in SessionState
    <3> HIDE DEF mstat, deadline, s
    <3> QED
      BY <2>2, <2>3, <2>4 DEF SessionState
  <2>6. UNCHANGED <<db, blob, queue, locals, env, history>>
    BY <1>5 DEF ReplayResults
  <2> QED
    <3> HIDE DEF mstat, deadline, s
    <3> QED
      BY <2>1, <2>5, <2>6 DEF TypeOK, Work, Goto, Labels, db, queue, env, history, locals
<1>6. CASE ReplaySave(p)
  <2>1. Entry(op[p]) \in Labels
    BY <1>0 DEF TypeOK
  <2> QED
    BY <1>6, <2>1 DEF TypeOK, ReplaySave, Goto, Labels, db, queue, env, history, locals
<1> QED
  BY <1>1, <1>2, <1>3, <1>4, <1>5, <1>6

\* startCurrentModule, beginSessionClock
LEMMA BeginType ==
    ASSUME TypeOK, NEW p \in Procs,
           Begin(p) \/ BeginRow(p) \/ BeginUnjob(p) \/ BeginJob(p) \/ BeginSave(p)
    PROVE  TypeOK'
<1>0. now + Budget \in Nat
  BY BudgetIsANumber DEF TypeOK
<1>1. CASE Begin(p)
  <2> DEFINE s == st[p]
             m == s.idx
             mstat == [s.mstat EXCEPT ![m] = "in_progress"]
             deadline == [s.deadline EXCEPT ![m] = now + TimeLimit[m]]
             started == [s EXCEPT !.mstat = mstat, !.deadline = deadline]
  <2>1. s \in SessionState
    BY DEF TypeOK
  <2>2. CASE m \in Modules /\ s.mstat[m] = "pending"
    <3>1. mstat \in [Modules -> {"pending", "in_progress", "completed"}]
      BY <2>1, <2>2 DEF SessionState
    <3>2. deadline \in [Modules -> Nat]
      BY <2>1, <2>2, ModulesAssumption DEF SessionState, TypeOK
    <3>3. started = [s EXCEPT !.mstat[m] = "in_progress", !.deadline[m] = now + TimeLimit[m]]
      BY <2>1 DEF SessionState
    <3>4. started \in SessionState
      <4> HIDE DEF s, mstat, deadline
      <4> QED
        BY <2>1, <3>1, <3>2 DEF SessionState
    <3>5. [started EXCEPT !.expiresAt = now + Budget] \in SessionState
      <4> HIDE DEF started
      <4> QED
        BY <3>4, <1>0 DEF SessionState
    <3>6. \/ Work(p, [started EXCEPT !.expiresAt = now + Budget], "begin_row")
          \/ Work(p, started, "begin_save")
      <4> HIDE DEF started
      <4> QED
        BY <1>1, <2>2, <3>3 DEF Begin
    <3>7. UNCHANGED <<db, blob, queue, locals, env, history>>
      BY <1>1 DEF Begin
    <3> QED
      <4> HIDE DEF started
      <4> QED
        BY <3>4, <3>5, <3>6, <3>7 DEF TypeOK, Work, Goto, Labels,
              db, queue, env, history, locals
  <2>3. CASE ~(m \in Modules /\ s.mstat[m] = "pending")
    BY <1>1, <2>3 DEF TypeOK, Begin, Goto, Labels, db, queue, env, history, locals
  <2> QED
    BY <2>2, <2>3
<1>2. CASE BeginRow(p)
  <2>1. st[p].expiresAt \in Nat
    BY DEF TypeOK, SessionState
  <2> QED
    BY <1>2, <2>1 DEF TypeOK, BeginRow, Goto, Labels, queue, env, history, locals
<1>3. CASE BeginUnjob(p)
  BY <1>3 DEF TypeOK, BeginUnjob, JobAfterRemove, NoJob, Goto, Labels,
        db, env, history, locals
<1>4. CASE BeginJob(p)
  BY <1>0, <1>4 DEF TypeOK, BeginJob, JobAfterAdd, Goto, Labels, db, env, history, locals
<1>5. CASE BeginSave(p)
  BY <1>5 DEF TypeOK, BeginSave, Goto, Labels, db, queue, env, history, locals
<1> QED
  BY <1>1, <1>2, <1>3, <1>4, <1>5

\* submitAnswer, applyAnswer
LEMMA SubmitType ==
    ASSUME TypeOK, AtWork, NEW p \in Procs, Submit(p) \/ Insert(p) \/ SubmitSave(p)
    PROVE  TypeOK'
<1>0. /\ Absent \in SessionState
      /\ 1 \in 1 .. N + 1
  BY FreshStateType, ModulesAssumption DEF Absent
<1>1. CASE Submit(p)
  BY <1>0, <1>1 DEF TypeOK, Submit, Goto, End, Forget, NoJob, Labels, Operations, Closed,
        db, env, history, locals
<1>2. CASE Insert(p)
  <2>1. st[p].served \in Questions
    BY <1>2 DEF AtWork, HasQuestion, Insert
  <2>2. Answered(st[p]) \in SessionState
    BY <2>1, AnsweredType DEF TypeOK
  <2> QED
    <3>1. /\ responses' \in [Questions -> {"absent", "answered", "unanswered"}]
          /\ UNCHANGED <<invitation, row, results, blob, reportQueued, env, history>>
      BY <1>2, <2>1 DEF TypeOK, Insert
    <3>2. CASE Work(p, Answered(st[p]), "submit_save") /\ UNCHANGED <<locals, job>>
      BY <2>2, <3>1, <3>2 DEF TypeOK, Work, Goto, Labels, env, history, locals
    <3>3. CASE End(p)
      BY <1>0, <3>1, <3>3 DEF TypeOK, End, Forget, NoJob, Labels, Operations, Closed,
            env, history
    <3> QED
      BY <1>2, <3>2, <3>3 DEF Insert
<1>3. CASE SubmitSave(p)
  BY <1>3 DEF TypeOK, SubmitSave, Goto, Labels, db, queue, env, history, locals
<1> QED
  BY <1>1, <1>2, <1>3

\* advance, completeModule
LEMMA AdvanceType ==
    ASSUME TypeOK, AtWork, NEW p \in Procs,
           \/ AdvanceReply(p) \/ AdvanceFinalise(p) \/ AdvancePastModule(p)
           \/ AdvanceCloseModule(p) \/ AdvanceServe(p) \/ ServeSave(p)
           \/ AdvanceSave(p) \/ CloseInsert(p) \/ CloseResult(p)
    PROVE  TypeOK'
<1>0. /\ Absent \in SessionState
      /\ 1 \in 1 .. N + 1
      /\ st[p] \in SessionState
  BY FreshStateType, ModulesAssumption DEF Absent, TypeOK
<1>1. CASE AdvanceReply(p)
  BY <1>0, <1>1 DEF TypeOK, AdvanceReply, Goto, End, Forget, NoJob, Labels, Operations,
        Closed, db, env, history
<1>2. CASE AdvanceFinalise(p)
  BY <1>2 DEF TypeOK, AdvanceFinalise, Finalise, Goto, Labels, Closed, db, env, history
<1>3. CASE AdvancePastModule(p)
  <2>1. [st[p] EXCEPT !.idx = @ + 1] \in SessionState
    BY <1>0, <1>3, NextModuleType DEF AdvancePastModule, InModule
  <2> QED
    BY <1>3, <2>1 DEF TypeOK, AdvancePastModule, Work, Goto, Labels,
          db, queue, env, history, locals
<1>4. CASE AdvanceCloseModule(p)
  BY <1>4 DEF TypeOK, AdvanceCloseModule, Goto, Labels, db, queue, env, history, locals
<1>5. CASE AdvanceServe(p)
  <2>1. PICK q \in Eligible(st[p]) :
          Work(p, [st[p] EXCEPT !.served = q, !.seen = @ \cup {q}], "serve_save")
    BY <1>5 DEF AdvanceServe
  <2>2. [st[p] EXCEPT !.served = q, !.seen = @ \cup {q}] \in SessionState
    BY <1>0, <2>1 DEF Eligible, SessionState
  <2>3. UNCHANGED <<db, blob, queue, locals, env, history>>
    BY <1>5 DEF AdvanceServe
  <2> QED
    BY <2>1, <2>2, <2>3 DEF TypeOK, Work, Goto, Labels, db, queue, env, history, locals
<1>6. CASE ServeSave(p)
  <2>1. st[p].served \in Questions
    BY <1>6 DEF AtWork, HasQuestion, ServeSave
  <2> QED
    BY <1>0, <1>6, <2>1 DEF TypeOK, ServeSave, Goto, End, Forget, NoJob, Labels, Operations,
          Closed, db, env
<1>7. CASE AdvanceSave(p)
  BY <1>7 DEF TypeOK, AdvanceSave, Goto, Labels, db, queue, env, history, locals
<1>8. CASE CloseInsert(p)
  <2>1. st[p].served \in Questions
    BY <1>8 DEF AtWork, HasQuestion, CloseInsert
  <2>2. Answered(st[p]) \in SessionState
    BY <1>0, <2>1, AnsweredType
  <2> QED
    <3>1. /\ responses' \in [Questions -> {"absent", "answered", "unanswered"}]
          /\ UNCHANGED <<invitation, row, results, blob, reportQueued, env, history>>
      BY <1>8, <2>1 DEF TypeOK, CloseInsert
    <3>2. CASE Work(p, Answered(st[p]), "close_result") /\ UNCHANGED <<locals, job>>
      BY <2>2, <3>1, <3>2 DEF TypeOK, Work, Goto, Labels, env, history, locals
    <3>3. CASE End(p)
      BY <1>0, <3>1, <3>3 DEF TypeOK, End, Forget, NoJob, Labels, Operations, Closed,
            env, history
    <3> QED
      BY <1>8, <3>2, <3>3 DEF CloseInsert
<1>9. CASE CloseResult(p)
  <2> DEFINE s == [st[p] EXCEPT !.mstat[st[p].idx] = "completed"]
  <2>1. st[p].idx \in Modules
    BY <1>9 DEF AtWork, HasModule, CloseResult
  <2>2. s \in SessionState
    BY <1>0, <2>1, CompletedType
  <2>3. [s EXCEPT !.idx = @ + 1] \in SessionState
    <3>1. s.idx = st[p].idx
      BY <1>0 DEF SessionState
    <3> HIDE DEF s
    <3> QED
      BY <2>1, <2>2, <3>1, NextModuleType
  <2>4. results' = [results EXCEPT ![st[p].idx] = ResultRow(s, st[p].idx)]
    BY <1>9 DEF CloseResult
  <2>5. Work(p, [s EXCEPT !.idx = @ + 1], "advance_save")
    BY <1>9 DEF CloseResult
  <2>6. ResultRow(s, st[p].idx) \in [state: {"absent", "open", "closed"}, count: Nat]
    BY <2>1, <2>2, ResultRowType
  <2>7. UNCHANGED <<invitation, row, responses, blob, queue, locals, env, history>>
    BY <1>9 DEF CloseResult
  <2> QED
    <3> HIDE DEF s
    <3> QED
      BY <2>1, <2>3, <2>4, <2>5, <2>6, <2>7 DEF TypeOK, Work, Goto, Labels,
            queue, env, history, locals
<1> QED
  BY <1>1, <1>2, <1>3, <1>4, <1>5, <1>6, <1>7, <1>8, <1>9

\* finalize
LEMMA FinaliseType ==
    ASSUME TypeOK, NEW p \in Procs,
           \/ FinaliseNoop(p) \/ FinaliseResult(p) \/ FinaliseSave(p) \/ FinaliseRow(p)
           \/ FinaliseInvite(p) \/ FinaliseUnjob(p) \/ FinaliseReport(p)
    PROVE  TypeOK'
<1>0. /\ Absent \in SessionState
      /\ 1 \in 1 .. N + 1
      /\ st[p] \in SessionState
  BY FreshStateType, ModulesAssumption DEF Absent, TypeOK
<1>1. CASE FinaliseNoop(p)
  BY <1>0, <1>1 DEF TypeOK, FinaliseNoop, Goto, End, Forget, NoJob, Labels, Operations,
        Closed, db, env, history
<1>2. CASE FinaliseResult(p)
  <2> DEFINE m == cur[p]
             s == IF st[p].mstat[m] = "in_progress"
                  THEN [st[p] EXCEPT !.mstat[m] = "completed"] ELSE st[p]
  <2>1. m \in Modules
    BY <1>2 DEF FinaliseResult
  <2>2. s \in SessionState
    BY <1>0, <2>1, CompletedType
  <2>3. ResultRow(s, m) \in [state: {"absent", "open", "closed"}, count: Nat]
    BY <2>1, <2>2, ResultRowType
  <2>4. m + 1 \in 1 .. N + 1
    BY <2>1, ModulesAssumption DEF Modules
  <2>5. /\ results' = [results EXCEPT ![m] = ResultRow(s, m)]
        /\ st' = [st EXCEPT ![p] = s]
        /\ cur' = [cur EXCEPT ![p] = m + 1]
        /\ UNCHANGED <<invitation, row, responses, blob, queue, pc, op, ask, out, env, history>>
    BY <1>2 DEF FinaliseResult
  <2> QED
    <3> HIDE DEF s
    <3> QED
      BY <2>1, <2>2, <2>3, <2>4, <2>5 DEF TypeOK, queue, env, history
<1>3. CASE FinaliseSave(p)
  <2>1. [st[p] EXCEPT !.status = "finished", !.served = NoQuestion] \in SessionState
    BY <1>0 DEF SessionState
  <2> QED
    BY <1>3, <2>1 DEF TypeOK, FinaliseSave, Work, Goto, Labels, db, queue, env, history, locals
<1>4. CASE FinaliseRow(p)
  BY <1>4 DEF TypeOK, FinaliseRow, Goto, Labels, queue, env, history, locals
<1>5. CASE FinaliseInvite(p)
  BY <1>5 DEF TypeOK, FinaliseInvite, Goto, Labels, queue, env, history, locals
<1>6. CASE FinaliseUnjob(p)
  BY <1>6 DEF TypeOK, FinaliseUnjob, JobAfterRemove, NoJob, Goto, Labels,
        db, env, history, locals
<1>7. CASE FinaliseReport(p)
  BY <1>0, <1>7 DEF TypeOK, FinaliseReport, Goto, End, Forget, NoJob, Labels, Operations,
        Closed, db, env, history
<1> QED
  BY <1>1, <1>2, <1>3, <1>4, <1>5, <1>6, <1>7

\* The worker, the sweeper, the failed calls and the environment
LEMMA BackgroundType ==
    ASSUME TypeOK,
           \/ \E p \in Procs : AutoRow(p) \/ Swallow(p) \/ Reject(p)
           \/ JobFires \/ Sweep \/ Restart \/ Evict \/ Lapse \/ Revoke \/ Tick
    PROVE  TypeOK'
<1>0. /\ Absent \in SessionState
      /\ 1 \in 1 .. N + 1
      /\ Worker \in Procs
      /\ Sweeper \in Procs
  BY FreshStateType, ModulesAssumption DEF Absent, Procs
<1>1. ASSUME NEW p \in Procs, AutoRow(p) PROVE TypeOK'
  <2>1. FreshState("in_progress", row.expiresAt) \in SessionState
    BY FreshStateType DEF TypeOK
  <2> QED
    BY <1>0, <1>1, <2>1 DEF TypeOK, AutoRow, Work, End, Forget, Goto, NoJob, Labels,
          Operations, Closed, db, env, history, locals
<1>2. ASSUME NEW p \in Procs, Swallow(p) PROVE TypeOK'
  <2>1. \A l \in DOMAIN AfterSwallowed : AfterSwallowed[l] \in Labels
    BY DEF AfterSwallowed, Labels
  <2>2. CASE pc[p] \in DOMAIN AfterSwallowed /\ Goto(p, AfterSwallowed[pc[p]])
                /\ UNCHANGED <<locals, st, job>>
    <3>1. AfterSwallowed[pc[p]] \in Labels
      BY <2>1, <2>2
    <3> QED
      BY <1>2, <2>2, <3>1, TimesAssumption DEF TypeOK, Swallow, Goto, db, history, locals
  <2>3. CASE End(p)
    BY <1>0, <1>2, <2>3, TimesAssumption DEF TypeOK, Swallow, End, Forget, Goto, NoJob, Labels,
          Operations, Closed, db, history
  <2> QED
    BY <1>2, <2>2, <2>3 DEF Swallow
<1>3. ASSUME NEW p \in Procs, Reject(p) PROVE TypeOK'
  <2>1. JobAfterFailure \in
          [state: {"none", "delayed", "active", "failed"}, due: Nat, tries: Nat]
    BY DEF TypeOK, JobAfterFailure
  <2> QED
    BY <1>0, <1>3, <2>1 DEF TypeOK, Reject, Forget, Labels, Operations, Closed, db, history
<1>4. CASE JobFires
  BY <1>0, <1>4 DEF TypeOK, JobFires, StartAuto, Goto, Labels, Operations, Closed,
        db, env, history
<1>5. CASE Sweep
  <2>1. /\ StartAuto(Sweeper) \/ UNCHANGED <<pc, op, out>>
        /\ sweepDue' = FALSE
        /\ UNCHANGED <<db, blob, queue, ask, cur, st, now, faults, evictions, history>>
    BY <1>5 DEF Sweep
  <2>2. /\ pc' \in [Procs -> Labels]
        /\ op' \in [Procs -> Operations]
        /\ out' \in [Procs -> Closed]
    BY <1>0, <2>1 DEF TypeOK, StartAuto, Goto, Labels, Operations, Closed
  <2> QED
    BY <2>1, <2>2 DEF TypeOK, db, queue, history
<1>6. CASE Restart
  <2>1. faults' \in Nat
    BY <1>6 DEF TypeOK, Restart
  <2>2. job' \in [state: {"none", "delayed", "active", "failed"}, due: Nat, tries: Nat]
    BY <1>6 DEF TypeOK, Restart
  <2>3. /\ pc' = [q \in Procs |-> "idle"]
        /\ st' = [q \in Procs |-> Absent]
        /\ op' = [q \in Procs |-> "none"]
        /\ ask' = [q \in Procs |-> NoQuestion]
        /\ out' = [q \in Procs |-> "completed"]
        /\ cur' = [q \in Procs |-> 1]
        /\ sweepDue' = TRUE
        /\ UNCHANGED <<db, blob, reportQueued, now, evictions, history>>
    BY <1>6 DEF Restart
  <2> QED
    BY <1>0, <2>1, <2>2, <2>3 DEF TypeOK, Labels, Operations, Closed, db, history
<1>7. CASE Evict
  BY <1>0, <1>7 DEF TypeOK, Evict, db, queue, locals
<1>8. CASE Lapse
  BY <1>0, <1>8 DEF TypeOK, Lapse, db, queue, locals, env
<1>9. CASE Revoke
  BY <1>9 DEF TypeOK, Revoke, queue, locals, env, history
<1>10. CASE Tick
  BY <1>10 DEF TypeOK, Tick, db, queue, locals, history
<1> QED
  BY <1>1, <1>2, <1>3, <1>4, <1>5, <1>6, <1>7, <1>8, <1>9, <1>10

\* Every step keeps the types.
LEMMA NextType == TypeOK /\ AtWork /\ [Next]_vars => TypeOK'
<1> SUFFICES ASSUME TypeOK, AtWork, [Next]_vars PROVE TypeOK'
  OBVIOUS
<1>1. ASSUME NEW p \in Procs, Step(p) PROVE TypeOK'
  BY <1>1, StartType, LoadType, BeginType, SubmitType, AdvanceType, FinaliseType,
     BackgroundType DEF Step
<1>2. ASSUME NEW p \in Tabs, Request(p) PROVE TypeOK'
  <2>1. p \in Procs
    BY DEF Procs
  <2> QED
    BY <1>2, <2>1, StartType, LoadType DEF Request
<1>3. ASSUME NEW p \in Procs, Failure(p) PROVE TypeOK'
  BY <1>3, BackgroundType DEF Failure
<1>4. CASE JobFires \/ Sweep \/ Environment
  BY <1>4, BackgroundType DEF Environment
<1>5. CASE UNCHANGED vars
  BY <1>5 DEF TypeOK, vars, db, queue, locals, env, history
<1> QED
  BY <1>1, <1>2, <1>3, <1>4, <1>5 DEF Next

(***************************************************************************)
(* The working copy holds what the next call needs                         *)
(***************************************************************************)
\* A step of p leaves the other processes' labels and working copies alone.
LEMMA StepIsLocal ==
    ASSUME TypeOK, NEW p \in Procs, Step(p) \/ Request(p) \/ Failure(p),
           NEW q \in Procs, q # p
    PROVE  pc'[q] = pc[q] /\ st'[q] = st[q]
<1>1. pc \in [Procs -> Labels] /\ st \in [Procs -> SessionState]
  BY DEF TypeOK
<1>2. CASE \/ StartFind(p) \/ CreateRow(p) \/ CreateInvite(p) \/ CreateSave(p) \/ CreateJob(p)
          \/ LoadRow(p) \/ ResumeBlob(p) \/ ReplayAnswers(p) \/ ReplayResults(p) \/ ReplaySave(p)
  BY <1>1, <1>2 DEF StartFind, CreateRow, CreateInvite, CreateSave, CreateJob, LoadRow,
        ResumeBlob, ReplayAnswers, ReplayResults, ReplaySave, Work, Goto, End, Forget
<1>3. CASE \/ Begin(p) \/ BeginRow(p) \/ BeginUnjob(p) \/ BeginJob(p) \/ BeginSave(p)
          \/ Submit(p) \/ Insert(p) \/ SubmitSave(p)
  BY <1>1, <1>3 DEF Begin, BeginRow, BeginUnjob, BeginJob, BeginSave, Submit, Insert,
        SubmitSave, Work, Goto, End, Forget
<1>4. CASE \/ AdvanceReply(p) \/ AdvanceFinalise(p) \/ AdvancePastModule(p)
          \/ AdvanceCloseModule(p) \/ AdvanceServe(p) \/ ServeSave(p) \/ AdvanceSave(p)
          \/ CloseInsert(p) \/ CloseResult(p)
  BY <1>1, <1>4 DEF AdvanceReply, AdvanceFinalise, Finalise, AdvancePastModule,
        AdvanceCloseModule, AdvanceServe, ServeSave, AdvanceSave, CloseInsert, CloseResult,
        Work, Goto, End, Forget
<1>5. CASE \/ FinaliseNoop(p) \/ FinaliseResult(p) \/ FinaliseSave(p) \/ FinaliseRow(p)
          \/ FinaliseInvite(p) \/ FinaliseUnjob(p) \/ FinaliseReport(p) \/ AutoRow(p)
  BY <1>1, <1>5 DEF FinaliseNoop, FinaliseResult, FinaliseSave, FinaliseRow, FinaliseInvite,
        FinaliseUnjob, FinaliseReport, AutoRow, Work, Goto, End, Forget
<1>6. CASE Request(p)
  BY <1>1, <1>6 DEF Request, StartCheck, Load, Work, Goto
<1>7. CASE Failure(p)
  BY <1>1, <1>7 DEF Failure, Swallow, Reject, Goto, End, Forget
<1> QED
  BY <1>2, <1>3, <1>4, <1>5, <1>6, <1>7 DEF Step

\* A step of p leaves p itself with the question and the module its next call needs.
LEMMA StepKeepsOwnWork ==
    ASSUME TypeOK, AtWork, NEW p \in Procs, Step(p) \/ Request(p) \/ Failure(p)
    PROVE  /\ pc'[p] \in HasQuestion => st'[p].served \in Questions
           /\ pc'[p] \in HasModule => st'[p].idx \in Modules
<1>1. /\ pc \in [Procs -> Labels]
      /\ st \in [Procs -> SessionState]
      /\ st[p] \in SessionState
  BY DEF TypeOK
<1>2. CASE Submit(p)
  <2>1. CASE pc'[p] = "insert"
    <3>1. st[p].served \in Questions /\ st' = st
      BY <1>1, <1>2, <2>1 DEF Submit, Acceptable, Goto, End, Forget, SessionState
    <3> QED
      BY <2>1, <3>1 DEF HasModule
  <2>2. CASE pc'[p] # "insert"
    BY <1>1, <1>2, <2>2 DEF Submit, Goto, End, Forget, HasQuestion, HasModule
  <2> QED
    BY <2>1, <2>2
<1>3. CASE AdvanceCloseModule(p)
  <2>1. st[p].idx \in Modules /\ st' = st
    BY <1>3 DEF AdvanceCloseModule, InOpenModule, InModule
  <2>2. pc'[p] = "close_insert" => st[p].served \in Questions
    BY <1>1, <1>3 DEF AdvanceCloseModule, OnScreen, Goto, SessionState
  <2>3. pc'[p] \in {"close_insert", "close_result"}
    BY <1>1, <1>3 DEF AdvanceCloseModule, Goto
  <2> QED
    BY <2>1, <2>2, <2>3 DEF HasQuestion
<1>4. CASE AdvanceServe(p)
  <2>1. PICK q \in Eligible(st[p]) :
          Work(p, [st[p] EXCEPT !.served = q, !.seen = @ \cup {q}], "serve_save")
    BY <1>4 DEF AdvanceServe
  <2>2. st'[p].served = q
    BY <1>1, <2>1 DEF Work, SessionState
  <2>3. pc'[p] = "serve_save"
    BY <1>1, <2>1 DEF Work, Goto
  <2> QED
    BY <2>1, <2>2, <2>3 DEF Eligible, HasModule
<1>5. CASE CloseInsert(p)
  <2>1. st[p].idx \in Modules
    BY <1>5 DEF CloseInsert, AtWork, HasModule
  <2>2. CASE Work(p, Answered(st[p]), "close_result")
    <3>1. st'[p].idx = st[p].idx /\ pc'[p] = "close_result"
      BY <1>1, <2>2 DEF Work, Goto, Answered, SessionState
    <3> QED
      BY <2>1, <3>1 DEF HasQuestion
  <2>3. CASE End(p)
    BY <1>1, <2>3 DEF End, Forget, HasQuestion, HasModule
  <2> QED
    BY <1>5, <2>2, <2>3 DEF CloseInsert
<1>6. CASE \/ StartFind(p) \/ CreateRow(p) \/ CreateInvite(p) \/ CreateSave(p) \/ CreateJob(p)
          \/ LoadRow(p) \/ ReplayAnswers(p) \/ ReplayResults(p)
          \/ Begin(p) \/ BeginRow(p) \/ BeginUnjob(p) \/ BeginJob(p) \/ BeginSave(p)
          \/ Insert(p) \/ SubmitSave(p)
  BY <1>1, <1>6 DEF StartFind, CreateRow, CreateInvite, CreateSave, CreateJob, LoadRow,
        ReplayAnswers, ReplayResults, Begin, BeginRow, BeginUnjob,
        BeginJob, BeginSave, Insert, SubmitSave, Work, Goto, End, Forget, HasQuestion, HasModule
<1>7. CASE \/ AdvanceReply(p) \/ AdvanceFinalise(p) \/ AdvancePastModule(p)
          \/ ServeSave(p) \/ AdvanceSave(p) \/ CloseResult(p)
  BY <1>1, <1>7 DEF AdvanceReply, AdvanceFinalise, Finalise, AdvancePastModule, ServeSave,
        AdvanceSave, CloseResult, Work, Goto, End, Forget, HasQuestion, HasModule
<1>8. CASE \/ FinaliseNoop(p) \/ FinaliseResult(p) \/ FinaliseSave(p) \/ FinaliseRow(p)
          \/ FinaliseInvite(p) \/ FinaliseUnjob(p) \/ FinaliseReport(p) \/ AutoRow(p)
  BY <1>1, <1>8 DEF FinaliseNoop, FinaliseResult, Finalising, FinaliseSave, FinaliseRow,
        FinaliseInvite, FinaliseUnjob, FinaliseReport, AutoRow, Work, Goto, End, Forget,
        HasQuestion, HasModule
<1>9. CASE ResumeBlob(p) \/ ReplaySave(p) \/ Request(p)
  <2>1. \A o : Entry(o) \notin HasQuestion \cup HasModule
    BY DEF Entry, HasQuestion, HasModule
  <2> QED
    BY <1>1, <1>9, <2>1 DEF ResumeBlob, ReplaySave, Request, StartCheck, Load, Work, Goto,
          HasQuestion, HasModule
<1>10. CASE Failure(p)
  BY <1>1, <1>10 DEF Failure, Swallow, Reject, AfterSwallowed, Goto, End, Forget,
        HasQuestion, HasModule
<1> QED
  BY <1>2, <1>3, <1>4, <1>5, <1>6, <1>7, <1>8, <1>9, <1>10 DEF Step

\* Every step keeps AtWork.
LEMMA NextAtWork == TypeOK /\ AtWork /\ [Next]_vars => AtWork'
<1> SUFFICES ASSUME TypeOK, AtWork, [Next]_vars PROVE AtWork'
  OBVIOUS
<1>1. /\ pc \in [Procs -> Labels]
      /\ Worker \in Procs
      /\ Sweeper \in Procs
  BY DEF TypeOK, Procs
<1>2. ASSUME NEW p \in Procs, Step(p) \/ Request(p) \/ Failure(p) PROVE AtWork'
  BY <1>2, StepIsLocal, StepKeepsOwnWork DEF AtWork
<1>3. CASE JobFires \/ Sweep
  BY <1>1, <1>3 DEF JobFires, Sweep, StartAuto, Goto, AtWork, HasQuestion, HasModule
<1>4. CASE Restart
  BY <1>4 DEF Restart, AtWork, HasQuestion, HasModule
<1>5. CASE Evict \/ Lapse \/ Revoke \/ Tick \/ UNCHANGED vars
  BY <1>5 DEF Evict, Lapse, Revoke, Tick, vars, AtWork
<1> QED
  BY <1>2, <1>3, <1>4, <1>5 DEF Next, Environment, Procs


LEMMA TypeInvariant == Spec => [](TypeOK /\ AtWork)
<1>1. Init => TypeOK /\ AtWork
  BY InitType DEF Init, AtWork, HasQuestion, HasModule
<1>2. TypeOK /\ AtWork /\ [Next]_vars => (TypeOK /\ AtWork)'
  BY NextType, NextAtWork
<1> QED
  BY <1>1, <1>2, PTL DEF Spec

\* Every variable keeps its type, whatever the requests, the queue and the failures do:
\* no query meets a status, an index or a question that the schema does not have.
THEOREM TypeCorrect == Spec => []TypeOK
BY TypeInvariant, PTL

(***************************************************************************)
(* Which steps touch the durable record                                    *)
(***************************************************************************)
LEMMA DurableSteps ==
    ASSUME [Next]_vars
    PROVE  /\ \/ results' = results
              \/ \E p \in Procs : CloseResult(p) \/ FinaliseResult(p)
           /\ \/ responses' = responses
              \/ \E p \in Procs : Insert(p) \/ CloseInsert(p)
           /\ \/ row' = row
              \/ \E p \in Procs : CreateRow(p) \/ BeginRow(p) \/ FinaliseRow(p)
<1>1. ASSUME NEW p \in Procs, Step(p)
      PROVE  /\ results' = results \/ CloseResult(p) \/ FinaliseResult(p)
             /\ responses' = responses \/ Insert(p) \/ CloseInsert(p)
             /\ row' = row \/ CreateRow(p) \/ BeginRow(p) \/ FinaliseRow(p)
  <2>1. CASE \/ StartFind(p) \/ CreateRow(p) \/ CreateInvite(p) \/ CreateSave(p)
            \/ CreateJob(p) \/ LoadRow(p) \/ ResumeBlob(p) \/ ReplayAnswers(p)
            \/ ReplayResults(p) \/ ReplaySave(p)
    BY <2>1 DEF StartFind, CreateRow, CreateInvite, CreateSave, CreateJob, LoadRow,
          ResumeBlob, ReplayAnswers, ReplayResults, ReplaySave, db
  <2>2. CASE \/ Begin(p) \/ BeginRow(p) \/ BeginUnjob(p) \/ BeginJob(p) \/ BeginSave(p)
            \/ Submit(p) \/ Insert(p) \/ SubmitSave(p)
    BY <2>2 DEF Begin, BeginRow, BeginUnjob, BeginJob, BeginSave, Submit, Insert,
          SubmitSave, db
  <2>3. CASE \/ AdvanceReply(p) \/ AdvanceFinalise(p) \/ AdvancePastModule(p)
            \/ AdvanceCloseModule(p) \/ AdvanceServe(p) \/ ServeSave(p) \/ AdvanceSave(p)
            \/ CloseInsert(p) \/ CloseResult(p)
    BY <2>3 DEF AdvanceReply, AdvanceFinalise, AdvancePastModule, AdvanceCloseModule,
          AdvanceServe, ServeSave, AdvanceSave, CloseInsert, CloseResult, db
  <2>4. CASE \/ FinaliseNoop(p) \/ FinaliseResult(p) \/ FinaliseSave(p) \/ FinaliseRow(p)
            \/ FinaliseInvite(p) \/ FinaliseUnjob(p) \/ FinaliseReport(p) \/ AutoRow(p)
    BY <2>4 DEF FinaliseNoop, FinaliseResult, FinaliseSave, FinaliseRow, FinaliseInvite,
          FinaliseUnjob, FinaliseReport, AutoRow, db
  <2> QED
    BY <1>1, <2>1, <2>2, <2>3, <2>4 DEF Step
<1>2. ASSUME NEW p \in Procs, Request(p) \/ Failure(p)
      PROVE  results' = results /\ responses' = responses /\ row' = row
  BY <1>2 DEF Request, StartCheck, Load, Failure, Swallow, Reject, db
<1>3. CASE JobFires \/ Sweep \/ Environment \/ UNCHANGED vars
  BY <1>3 DEF JobFires, Sweep, Environment, Restart, Evict, Lapse, Revoke, Tick, vars, db
<1> QED
  BY <1>1, <1>2, <1>3 DEF Next, Procs

\* A result row, once written, stays.
LEMMA ResultsStay ==
    ASSUME TypeOK, AtWork, [Next]_vars, NEW m \in Modules, results[m].state # "absent"
    PROVE  results'[m].state # "absent"
<1>1. \A s, k : ResultRow(s, k).state # "absent"
  BY DEF ResultRow
<1>2. ASSUME NEW p \in Procs, CloseResult(p) PROVE results'[m].state # "absent"
  <2>1. PICK s, k : results' = [results EXCEPT ![k] = ResultRow(s, k)]
    BY <1>2 DEF CloseResult
  <2> QED
    BY <1>1, <2>1 DEF TypeOK
<1>3. ASSUME NEW p \in Procs, FinaliseResult(p) PROVE results'[m].state # "absent"
  <2>1. PICK s, k : results' = [results EXCEPT ![k] = ResultRow(s, k)]
    BY <1>3 DEF FinaliseResult
  <2> QED
    BY <1>1, <2>1 DEF TypeOK
<1> QED
  BY <1>2, <1>3, DurableSteps

(***************************************************************************)
(* A closed attempt is scored.  finalize walks the modules with a cursor   *)
(* and only then reaches the update of the session row.                    *)
(***************************************************************************)
ScoredSoFar ==
    \A p \in Procs :
        /\ \A m \in Modules : m < cur[p] => results[m].state # "absent"
        /\ pc[p] = "fin_row" => cur[p] = N + 1

\* A cursor moves only in FinaliseResult, or back to the start.
LEMMA CursorSteps ==
    ASSUME TypeOK, [Next]_vars, NEW q \in Procs
    PROVE  /\ cur'[q] = cur[q] \/ cur'[q] = 1 \/ FinaliseResult(q)
           /\ pc'[q] = "fin_row" =>
                \/ pc[q] = "fin_row" /\ cur'[q] = cur[q]
                \/ FinaliseSave(q)
<1>1. /\ pc \in [Procs -> Labels]
      /\ cur \in [Procs -> 1 .. N + 1]
      /\ Worker \in Procs
      /\ Sweeper \in Procs
  BY DEF TypeOK, Procs
<1> DEFINE Goal(p) ==
             /\ cur'[q] = cur[q] \/ cur'[q] = 1 \/ (q = p /\ FinaliseResult(p))
             /\ pc'[q] = "fin_row" =>
                  \/ pc[q] = "fin_row" /\ cur'[q] = cur[q]
                  \/ q = p /\ FinaliseSave(p)
<1>2. ASSUME NEW p \in Procs, Step(p) PROVE Goal(p)
  <2>1. CASE \/ StartFind(p) \/ CreateRow(p) \/ CreateInvite(p) \/ CreateSave(p)
            \/ CreateJob(p) \/ LoadRow(p) \/ ReplayAnswers(p) \/ ReplayResults(p)
    BY <1>1, <2>1 DEF StartFind, CreateRow, CreateInvite, CreateSave, CreateJob, LoadRow,
          ReplayAnswers, ReplayResults, locals, Work, Goto, End, Forget
  <2>2. CASE ResumeBlob(p) \/ ReplaySave(p)
    <3>1. \A o : Entry(o) # "fin_row"
      BY DEF Entry
    <3> QED
      BY <1>1, <2>2, <3>1 DEF ResumeBlob, ReplaySave, locals, Work, Goto
  <2>3. CASE \/ Begin(p) \/ BeginRow(p) \/ BeginUnjob(p) \/ BeginJob(p) \/ BeginSave(p)
            \/ Submit(p) \/ Insert(p) \/ SubmitSave(p)
    BY <1>1, <2>3 DEF Begin, BeginRow, BeginUnjob, BeginJob, BeginSave, Submit, Insert,
          SubmitSave, locals, Work, Goto, End, Forget
  <2>4. CASE \/ AdvanceReply(p) \/ AdvanceFinalise(p) \/ AdvancePastModule(p)
            \/ AdvanceCloseModule(p) \/ AdvanceServe(p) \/ ServeSave(p) \/ AdvanceSave(p)
            \/ CloseInsert(p) \/ CloseResult(p)
    BY <1>1, <2>4 DEF AdvanceReply, AdvanceFinalise, Finalise, AdvancePastModule,
          AdvanceCloseModule, AdvanceServe, ServeSave, AdvanceSave, CloseInsert, CloseResult,
          locals, Work, Goto, End, Forget
  <2>5. CASE FinaliseResult(p)
    BY <1>1, <2>5 DEF FinaliseResult, Finalising
  <2>6. CASE FinaliseSave(p)
    BY <1>1, <2>6 DEF FinaliseSave, locals, Work, Goto
  <2>7. CASE \/ FinaliseNoop(p) \/ FinaliseRow(p) \/ FinaliseInvite(p) \/ FinaliseUnjob(p)
            \/ FinaliseReport(p) \/ AutoRow(p)
    BY <1>1, <2>7 DEF FinaliseNoop, FinaliseRow, FinaliseInvite, FinaliseUnjob,
          FinaliseReport, AutoRow, locals, Work, Goto, End, Forget
  <2> QED
    BY <1>2, <2>1, <2>2, <2>3, <2>4, <2>5, <2>6, <2>7 DEF Step
<1>3. ASSUME NEW p \in Procs, Request(p) \/ Failure(p) PROVE Goal(p)
  <2>1. \A o : Entry(o) # "fin_row"
    BY DEF Entry
  <2> QED
    BY <1>1, <1>3, <2>1 DEF Request, StartCheck, Load, Failure, Swallow, Reject,
          AfterSwallowed, locals, Work, Goto, End, Forget
<1>4. CASE JobFires \/ Sweep
  BY <1>1, <1>4 DEF JobFires, Sweep, StartAuto, Goto
<1>5. CASE Restart
  BY <1>5 DEF Restart
<1>6. CASE Evict \/ Lapse \/ Revoke \/ Tick \/ UNCHANGED vars
  BY <1>6 DEF Evict, Lapse, Revoke, Tick, vars, locals
<1> QED
  BY <1>2, <1>3, <1>4, <1>5, <1>6 DEF Next, Environment, Procs

LEMMA NextScoredSoFar ==
    TypeOK /\ AtWork /\ ScoredSoFar /\ [Next]_vars => ScoredSoFar'
<1> SUFFICES ASSUME TypeOK, AtWork, ScoredSoFar, [Next]_vars, NEW q \in Procs
             PROVE  /\ \A m \in Modules : m < cur'[q] => results'[m].state # "absent"
                    /\ pc'[q] = "fin_row" => cur'[q] = N + 1
  BY DEF ScoredSoFar
<1>1. ASSUME NEW m \in Modules, m < cur'[q] PROVE results'[m].state # "absent"
  <2>1. CASE m < cur[q]
    BY <2>1, ResultsStay DEF ScoredSoFar
  <2>2. CASE cur'[q] = 1
    BY <1>1, <2>2 DEF Modules
  <2>3. CASE FinaliseResult(q) /\ ~(m < cur[q])
    <3>1. cur[q] \in Modules /\ cur'[q] = cur[q] + 1
      BY <2>3 DEF FinaliseResult, TypeOK
    <3>2. m = cur[q]
      BY <1>1, <2>3, <3>1 DEF Modules
    <3>3. PICK s : results' = [results EXCEPT ![cur[q]] = ResultRow(s, cur[q])]
      BY <2>3 DEF FinaliseResult
    <3> QED
      BY <3>1, <3>2, <3>3 DEF TypeOK, ResultRow
  <2> QED
    BY <1>1, <2>1, <2>2, <2>3, CursorSteps
<1>2. ASSUME pc'[q] = "fin_row" PROVE cur'[q] = N + 1
  <2>1. CASE pc[q] = "fin_row" /\ cur'[q] = cur[q]
    BY <2>1 DEF ScoredSoFar
  <2>2. CASE FinaliseSave(q)
    BY <2>2 DEF FinaliseSave, locals
  <2> QED
    BY <1>2, <2>1, <2>2, CursorSteps
<1> QED
  BY <1>1, <1>2

\* A request about to close the row has seen every module's result row written.
LEMMA NextClosedIsScored ==
    TypeOK /\ AtWork /\ ScoredSoFar /\ ClosedAttemptIsScored /\ [Next]_vars
        => ClosedAttemptIsScored'
<1> SUFFICES ASSUME TypeOK, AtWork, ScoredSoFar, ClosedAttemptIsScored, [Next]_vars,
                    row'.status \in Closed, NEW m \in Modules
             PROVE  results'[m].state # "absent"
  BY DEF ClosedAttemptIsScored, IsClosed
<1>1. CASE row.status \in Closed
  BY <1>1, ResultsStay DEF ClosedAttemptIsScored, IsClosed
<1>2. ASSUME NEW p \in Procs, FinaliseRow(p) PROVE results'[m].state # "absent"
  <2>1. m < cur[p]
    BY <1>2, ModulesAssumption DEF ScoredSoFar, FinaliseRow, Modules
  <2> QED
    BY <2>1, ResultsStay DEF ScoredSoFar
<1>3. ASSUME NEW p \in Procs, CreateRow(p), row.status \notin Closed PROVE FALSE
  BY <1>3 DEF CreateRow, Closed
<1>4. ASSUME NEW p \in Procs, BeginRow(p), row.status \notin Closed PROVE FALSE
  BY <1>4 DEF BeginRow, TypeOK
<1> QED
  BY <1>1, <1>2, <1>3, <1>4, DurableSteps

\* A closed attempt has a result row for every configured module, reached or not.
THEOREM ClosedIsScored == Spec => []ClosedAttemptIsScored
<1>1. Init => ScoredSoFar /\ ClosedAttemptIsScored
  BY DEF Init, ScoredSoFar, ClosedAttemptIsScored, IsClosed, Closed, Modules
<1>2. TypeOK /\ AtWork /\ ScoredSoFar /\ ClosedAttemptIsScored /\ [Next]_vars
        => (ScoredSoFar /\ ClosedAttemptIsScored)'
  BY NextScoredSoFar, NextClosedIsScored
<1> QED
  BY <1>1, <1>2, TypeInvariant, PTL DEF Spec

\* No step of any process takes a closed session row back to in progress.
THEOREM ClosedIsFinal == Spec => ClosedStaysClosed
<1>1. TypeOK /\ [Next]_vars => [IsClosed => row'.status \in Closed]_vars
  <2> SUFFICES ASSUME TypeOK, [Next]_vars, row.status \in Closed
               PROVE  row'.status \in Closed
    BY DEF IsClosed
  <2>1. ASSUME NEW p \in Procs, CreateRow(p) PROVE row' = row
    BY <2>1 DEF CreateRow, Closed
  <2>2. ASSUME NEW p \in Procs, BeginRow(p) PROVE row'.status = row.status
    BY <2>2 DEF BeginRow, TypeOK
  <2>3. ASSUME NEW p \in Procs, FinaliseRow(p) PROVE row'.status \in Closed
    BY <2>3 DEF FinaliseRow, TypeOK
  <2> QED
    BY <2>1, <2>2, <2>3, DurableSteps
<1> QED
  BY <1>1, TypeCorrect, PTL DEF Spec, ClosedStaysClosed

(***************************************************************************)
(* Counts are backed.  Every copy of the live state, saved or in a         *)
(* request's hands, counts at most the answers the database holds.         *)
(***************************************************************************)
Backed(s) == \A m \in Modules : s.answered[m] <= Cardinality(AnsweredIn(m))

AllBacked ==
    /\ Backed(blob)
    /\ \A p \in Procs : Backed(st[p])
    /\ \A m \in Modules : results[m].count <= Cardinality(AnsweredIn(m))

\* No row of responses is ever deleted: a module's answers only grow in number.
LEMMA AnswersGrow ==
    ASSUME TypeOK, AtWork, [Next]_vars, NEW m \in Modules
    PROVE  /\ Cardinality(AnsweredIn(m)) \in Nat
           /\ Cardinality(AnsweredIn(m)') \in Nat
           /\ Cardinality(AnsweredIn(m)) <= Cardinality(AnsweredIn(m)')
<1>1. ASSUME NEW p \in Procs, Insert(p) \/ CloseInsert(p)
      PROVE  AnsweredIn(m) \subseteq AnsweredIn(m)'
  <2>1. CASE responses' = responses
    BY <2>1 DEF AnsweredIn
  <2>2. ASSUME NEW r \in {"answered", "unanswered"},
               responses' = [responses EXCEPT ![st[p].served] = r]
        PROVE  AnsweredIn(m) \subseteq AnsweredIn(m)'
    BY <2>2 DEF TypeOK, AnsweredIn
  <2> QED
    BY <1>1, <2>1, <2>2 DEF Insert, CloseInsert
<1>2. AnsweredIn(m) \subseteq AnsweredIn(m)'
  BY <1>1, DurableSteps DEF AnsweredIn
<1>3. AnsweredIn(m)' \subseteq Questions
  BY DEF AnsweredIn
<1>4. IsFiniteSet(AnsweredIn(m)')
  BY <1>3, QuestionsAssumption, FS_Subset
<1> QED
  BY <1>2, <1>4, FS_Subset, FS_CardinalityType

\* An inserted answer adds one to its module's answers.
LEMMA InsertGrows ==
    ASSUME TypeOK, NEW q \in Questions, NEW r \in {"answered", "unanswered"},
           responses[q] = "absent", responses' = [responses EXCEPT ![q] = r]
    PROVE  Cardinality(AnsweredIn(ModuleOf[q])') = Cardinality(AnsweredIn(ModuleOf[q])) + 1
<1> DEFINE m == ModuleOf[q]
<1>1. AnsweredIn(m)' = AnsweredIn(m) \cup {q}
  BY DEF TypeOK, AnsweredIn
<1>2. q \notin AnsweredIn(m)
  BY DEF AnsweredIn
<1>3. IsFiniteSet(AnsweredIn(m))
  BY AnsweredInType, QuestionsAssumption
<1> QED
  BY <1>1, <1>2, <1>3, FS_AddElement

\* Where the counts of a working copy and of the saved state come from.
LEMMA CountSteps ==
    ASSUME TypeOK, [Next]_vars, NEW q \in Procs
    PROVE  /\ \/ st'[q].answered = st[q].answered
              \/ st'[q].answered = blob.answered
              \/ st'[q].answered = [m \in Modules |-> 0]
              \/ ReplayAnswers(q)
              \/ (Insert(q) \/ CloseInsert(q)) /\ st'[q] = Answered(st[q])
           /\ \/ blob'.answered = blob.answered
              \/ blob'.answered = [m \in Modules |-> 0]
              \/ \E p \in Procs : blob'.answered = st[p].answered
<1> DEFINE zeros == [m \in Modules |-> 0]
           Own(p) ==
              \/ st'[p].answered = st[p].answered
              \/ st'[p].answered = blob.answered
              \/ st'[p].answered = zeros
              \/ ReplayAnswers(p)
              \/ (Insert(p) \/ CloseInsert(p)) /\ st'[p] = Answered(st[p])
           Saved(p) ==
              \/ blob'.answered = blob.answered
              \/ blob'.answered = st[p].answered
<1>1. /\ st \in [Procs -> SessionState]
      /\ \A p \in Procs : st[p] \in SessionState
      /\ Worker \in Procs
      /\ Sweeper \in Procs
  BY DEF TypeOK, Procs
<1>2. /\ \A status, e : FreshState(status, e).answered = zeros
      /\ Absent.answered = zeros
  BY DEF FreshState, Absent
<1> HIDE DEF zeros
<1>3. ASSUME NEW p \in Procs, Step(p) PROVE Own(p) /\ Saved(p)
  <2>1. CASE \/ StartFind(p) \/ CreateRow(p) \/ CreateInvite(p) \/ CreateSave(p)
            \/ CreateJob(p) \/ LoadRow(p) \/ ResumeBlob(p) \/ ReplayAnswers(p) \/ ReplaySave(p)
    BY <1>1, <1>2, <2>1 DEF StartFind, CreateRow, CreateInvite, CreateSave, CreateJob,
          LoadRow, ResumeBlob, ReplayAnswers, ReplaySave, Work, End, Forget
  <2>2. CASE ReplayResults(p)
    <3>1. PICK a, i, d : Work(p, [st[p] EXCEPT !.mstat = a, !.idx = i, !.deadline = d],
                              "replay_save")
      BY <2>2 DEF ReplayResults
    <3>2. st'[p].answered = st[p].answered
      BY <1>1, <3>1 DEF Work, SessionState
    <3> QED
      BY <2>2, <3>2 DEF ReplayResults
  <2>3. CASE Begin(p)
    <3> DEFINE started == [st[p] EXCEPT !.mstat[st[p].idx] = "in_progress",
                                        !.deadline[st[p].idx] = now + TimeLimit[st[p].idx]]
    <3>1. \/ st' = st
          \/ st' = [st EXCEPT ![p] = started]
          \/ st' = [st EXCEPT ![p] = [started EXCEPT !.expiresAt = now + Budget]]
      BY <2>3 DEF Begin, Work
    <3>2. /\ started.answered = st[p].answered
          /\ [started EXCEPT !.expiresAt = now + Budget].answered = st[p].answered
      BY <1>1 DEF SessionState
    <3>3. st'[p].answered = st[p].answered
      BY <1>1, <3>1, <3>2
    <3> QED
      BY <2>3, <3>3 DEF Begin
  <2>4. CASE \/ BeginRow(p) \/ BeginUnjob(p) \/ BeginJob(p) \/ BeginSave(p) \/ Submit(p)
            \/ SubmitSave(p) \/ ServeSave(p) \/ AdvanceSave(p)
    BY <1>1, <1>2, <2>4 DEF BeginRow, BeginUnjob, BeginJob, BeginSave, Submit, SubmitSave,
          ServeSave, AdvanceSave, End, Forget
  <2>5. CASE Insert(p) \/ CloseInsert(p)
    BY <1>1, <1>2, <2>5 DEF Insert, CloseInsert, Work, End, Forget
  <2>6. CASE AdvanceReply(p) \/ AdvanceFinalise(p) \/ AdvanceCloseModule(p)
    BY <1>1, <1>2, <2>6 DEF AdvanceReply, AdvanceFinalise, Finalise, AdvanceCloseModule,
          End, Forget
  <2>7. CASE AdvancePastModule(p) \/ AdvanceServe(p)
    <3> DEFINE past == [st[p] EXCEPT !.idx = @ + 1]
               with(r) == [st[p] EXCEPT !.served = r, !.seen = @ \cup {r}]
    <3>1. /\ blob' = blob
          /\ \/ st' = [st EXCEPT ![p] = past]
             \/ \E r \in Questions : st' = [st EXCEPT ![p] = with(r)]
      BY <2>7 DEF AdvancePastModule, AdvanceServe, Work, Eligible
    <3>2. past.answered = st[p].answered /\ \A r : with(r).answered = st[p].answered
      BY <1>1 DEF SessionState
    <3> HIDE DEF past, with
    <3> QED
      BY <1>1, <3>1, <3>2
  <2>8. CASE CloseResult(p)
    <3>1. st'[p].answered = st[p].answered
      BY <1>1, <2>8 DEF CloseResult, Work, SessionState
    <3> QED
      BY <2>8, <3>1 DEF CloseResult
  <2>9. CASE FinaliseResult(p)
    <3>1. \/ st' = [st EXCEPT ![p] = st[p]]
          \/ st' = [st EXCEPT ![p] = [st[p] EXCEPT !.mstat[cur[p]] = "completed"]]
      BY <2>9 DEF FinaliseResult
    <3>2. st'[p].answered = st[p].answered
      BY <1>1, <3>1 DEF SessionState
    <3> QED
      BY <2>9, <3>2 DEF FinaliseResult
  <2>10. CASE FinaliseSave(p)
    <3> DEFINE s == [st[p] EXCEPT !.status = "finished", !.served = NoQuestion]
    <3>1. blob' = s /\ st' = [st EXCEPT ![p] = s]
      BY <2>10 DEF FinaliseSave, Work
    <3>2. s.answered = st[p].answered
      BY <1>1 DEF SessionState
    <3> QED
      BY <1>1, <3>1, <3>2
  <2>11. CASE \/ FinaliseNoop(p) \/ FinaliseRow(p) \/ FinaliseInvite(p) \/ FinaliseUnjob(p)
             \/ FinaliseReport(p) \/ AutoRow(p)
    BY <1>1, <1>2, <2>11 DEF FinaliseNoop, FinaliseRow, FinaliseInvite, FinaliseUnjob,
          FinaliseReport, AutoRow, Work, End, Forget
  <2> QED
    BY <1>3, <2>1, <2>2, <2>3, <2>4, <2>5, <2>6, <2>7, <2>8, <2>9, <2>10, <2>11 DEF Step
<1>4. ASSUME NEW p \in Procs, Request(p) \/ Failure(p) PROVE Own(p) /\ Saved(p)
  BY <1>1, <1>2, <1>4 DEF Request, StartCheck, Load, Failure, Swallow, Reject, Work, End, Forget
<1>5. CASE JobFires \/ Sweep
  BY <1>5 DEF JobFires, Sweep, StartAuto
<1>6. CASE Restart
  BY <1>2, <1>6 DEF Restart, zeros
<1>7. CASE Evict \/ Lapse
  BY <1>2, <1>7 DEF Evict, Lapse, zeros
<1>8. CASE Revoke \/ Tick \/ UNCHANGED vars
  BY <1>8 DEF Revoke, Tick, vars
<1>9. ASSUME NEW p \in Procs, Step(p) \/ Request(p) \/ Failure(p), Own(p) /\ Saved(p)
      PROVE  /\ q = p \/ st'[q] = st[q]
             /\ blob'.answered = blob.answered \/ blob'.answered = st[p].answered
  BY <1>9, StepIsLocal
<1> QED
  BY <1>3, <1>4, <1>5, <1>6, <1>7, <1>8, <1>9 DEF Next, Environment, Procs, zeros

\* Every step keeps every count backed: a copy is old, fresh, replayed from the rows, or
\* counts one answer more in the very step that inserts its row.
LEMMA NextAllBacked == TypeOK /\ AtWork /\ AllBacked /\ [Next]_vars => AllBacked'
<1> SUFFICES ASSUME TypeOK, AtWork, AllBacked, [Next]_vars PROVE AllBacked'
  OBVIOUS
<1>1. /\ st \in [Procs -> SessionState]
      /\ \A p \in Procs : st[p].answered \in [Modules -> Nat]
      /\ blob.answered \in [Modules -> Nat]
      /\ results \in [Modules -> [state: {"absent", "open", "closed"}, count: Nat]]
  BY DEF TypeOK, SessionState
<1>2. ASSUME NEW m \in Modules, NEW n \in Nat, n <= Cardinality(AnsweredIn(m))
      PROVE  n <= Cardinality(AnsweredIn(m)')
  BY <1>2, AnswersGrow
<1>3. ASSUME NEW q \in Procs, NEW m \in Modules
      PROVE  st'[q].answered[m] <= Cardinality(AnsweredIn(m)')
  <2>1. CASE st'[q].answered = st[q].answered \/ st'[q].answered = blob.answered
    BY <1>1, <1>2, <2>1 DEF AllBacked, Backed
  <2>2. CASE st'[q].answered = [k \in Modules |-> 0]
    BY <2>2, AnswersGrow
  <2>3. CASE ReplayAnswers(q)
    <3>1. st'[q].answered = [k \in Modules |-> Cardinality(AnsweredIn(k))]
      BY <1>1, <2>3 DEF ReplayAnswers, Work, SessionState
    <3>2. st'[q].answered[m] = Cardinality(AnsweredIn(m))
      BY <3>1
    <3> QED
      BY <3>2, AnswersGrow
  <2>4. CASE (Insert(q) \/ CloseInsert(q)) /\ st'[q] = Answered(st[q])
    <3>1. PICK r \in Questions : r = st[q].served
      BY <2>4 DEF AtWork, HasQuestion, Insert, CloseInsert
    <3>2. /\ ModuleOf[r] \in Modules
          /\ st'[q].answered = [st[q].answered EXCEPT ![ModuleOf[r]] = @ + 1]
      BY <1>1, <2>4, <3>1, QuestionsAssumption DEF Answered, SessionState
    <3>3. CASE \E v \in {"answered", "unanswered"} :
                 responses[r] = "absent" /\ responses' = [responses EXCEPT ![r] = v]
      <4>1. /\ Cardinality(AnsweredIn(ModuleOf[r])') = Cardinality(AnsweredIn(ModuleOf[r])) + 1
            /\ Cardinality(AnsweredIn(ModuleOf[r])) \in Nat
        <5>1. PICK v \in {"answered", "unanswered"} :
                responses[r] = "absent" /\ responses' = [responses EXCEPT ![r] = v]
          BY <3>3
        <5>2. Cardinality(AnsweredIn(ModuleOf[r])') = Cardinality(AnsweredIn(ModuleOf[r])) + 1
          BY <3>1, <5>1, InsertGrows
        <5> QED
          BY <3>2, <5>2, AnsweredInType
      <4>2. /\ st[q].answered[ModuleOf[r]] <= Cardinality(AnsweredIn(ModuleOf[r]))
            /\ st[q].answered[ModuleOf[r]] \in Nat
        BY <1>1, <3>2 DEF AllBacked, Backed
      <4>3. CASE m = ModuleOf[r]
        <5>1. st'[q].answered[m] = st[q].answered[m] + 1
          BY <1>1, <3>2, <4>3
        <5>2. Cardinality(AnsweredIn(m)') = Cardinality(AnsweredIn(m)) + 1
          BY <4>1, <4>3
        <5> QED
          BY <4>1, <4>2, <4>3, <5>1, <5>2
      <4>4. CASE m # ModuleOf[r]
        <5>1. st'[q].answered[m] = st[q].answered[m]
          BY <1>1, <3>2, <4>4
        <5> QED
          BY <1>1, <1>2, <5>1 DEF AllBacked, Backed
      <4> QED
        BY <4>3, <4>4
    <3>4. CASE End(q)
      <4>1. st'[q].answered = [k \in Modules |-> 0]
        BY <1>1, <3>4 DEF End, Forget, Absent, FreshState
      <4> QED
        BY <4>1, AnswersGrow
    <3> QED
      BY <2>4, <3>1, <3>3, <3>4 DEF Insert, CloseInsert
  <2> QED
    BY <2>1, <2>2, <2>3, <2>4, CountSteps
<1>4. Worker \in Procs
  BY DEF Procs
<1>5. ASSUME NEW m \in Modules PROVE blob'.answered[m] <= Cardinality(AnsweredIn(m)')
  <2>1. CASE blob'.answered = blob.answered
    BY <1>1, <1>2, <2>1 DEF AllBacked, Backed
  <2>2. CASE blob'.answered = [k \in Modules |-> 0]
    BY <2>2, AnswersGrow
  <2>3. ASSUME NEW p \in Procs, blob'.answered = st[p].answered
        PROVE  blob'.answered[m] <= Cardinality(AnsweredIn(m)')
    BY <1>1, <1>2, <2>3 DEF AllBacked, Backed
  <2> QED
    BY <1>4, <2>1, <2>2, <2>3, CountSteps
<1>6. ASSUME NEW m \in Modules PROVE results'[m].count <= Cardinality(AnsweredIn(m)')
  <2>1. CASE results' = results
    BY <1>1, <1>2, <2>1 DEF AllBacked
  <2>2. ASSUME NEW p \in Procs, NEW k \in Modules, NEW s, s.answered = st[p].answered,
               results' = [results EXCEPT ![k] = ResultRow(s, k)]
        PROVE  results'[m].count <= Cardinality(AnsweredIn(m)')
    <3>1. results'[m].count = results[m].count \/ results'[m].count = st[p].answered[m]
      BY <1>1, <2>2 DEF ResultRow
    <3> QED
      BY <1>1, <1>2, <3>1 DEF AllBacked, Backed
  <2>3. ASSUME NEW p \in Procs, CloseResult(p)
        PROVE  results'[m].count <= Cardinality(AnsweredIn(m)')
    <3> DEFINE s == [st[p] EXCEPT !.mstat[st[p].idx] = "completed"]
    <3>1. s.answered = st[p].answered
      BY <1>1 DEF SessionState
    <3>2. st[p].idx \in Modules
      BY <2>3 DEF CloseResult, AtWork, HasModule
    <3>3. results' = [results EXCEPT ![st[p].idx] = ResultRow(s, st[p].idx)]
      BY <2>3 DEF CloseResult
    <3> HIDE DEF s
    <3> QED
      BY <2>2, <3>1, <3>2, <3>3
  <2>4. ASSUME NEW p \in Procs, FinaliseResult(p)
        PROVE  results'[m].count <= Cardinality(AnsweredIn(m)')
    <3> DEFINE s == [st[p] EXCEPT !.mstat[cur[p]] = "completed"]
    <3>1. s.answered = st[p].answered
      BY <1>1 DEF SessionState
    <3>2. cur[p] \in Modules
      BY <2>4 DEF FinaliseResult
    <3>3. \/ results' = [results EXCEPT ![cur[p]] = ResultRow(s, cur[p])]
          \/ results' = [results EXCEPT ![cur[p]] = ResultRow(st[p], cur[p])]
      BY <2>4 DEF FinaliseResult
    <3> HIDE DEF s
    <3> QED
      BY <2>2, <3>1, <3>2, <3>3
  <2> QED
    BY <2>1, <2>3, <2>4, DurableSteps
<1> QED
  BY <1>3, <1>5, <1>6 DEF AllBacked, Backed

\* Neither the live state nor a result row counts an answer that has no row.
THEOREM CountsBacked == Spec => []CountsAreBacked
<1>1. Init => AllBacked
  <2>1. \A m \in Modules : Cardinality(AnsweredIn(m)) \in Nat
    BY AnsweredInType
  <2> SUFFICES ASSUME Init PROVE AllBacked
    OBVIOUS
  <2>2. Absent.answered = [m \in Modules |-> 0]
    BY DEF Absent, FreshState
  <2> QED
    BY <2>1, <2>2 DEF Init, AllBacked, Backed
<1>2. TypeOK /\ AtWork /\ AllBacked /\ [Next]_vars => AllBacked'
  BY NextAllBacked
<1>3. AllBacked => CountsAreBacked
  BY DEF AllBacked, Backed, CountsAreBacked
<1> QED
  BY <1>1, <1>2, <1>3, TypeInvariant, PTL DEF Spec

(***************************************************************************)
(* The runtime implements the ledger.  A ledger step needs the row to      *)
(* exist: no request past createSession's insert runs without one.         *)
(***************************************************************************)
BeforeRow == {"idle", "start_find", "create_row", "auto_row"}

RowExists == \A p \in Procs : pc[p] \notin BeforeRow => row.status # "none"

\* A session row is never deleted.
LEMMA RowStays ==
    ASSUME TypeOK, [Next]_vars, row.status # "none"
    PROVE  row'.status # "none"
<1>1. ASSUME NEW p \in Procs, CreateRow(p) PROVE row' = row
  BY <1>1 DEF CreateRow
<1>2. ASSUME NEW p \in Procs, BeginRow(p) PROVE row'.status = row.status
  BY <1>2 DEF BeginRow, TypeOK
<1>3. ASSUME NEW p \in Procs, FinaliseRow(p) PROVE row'.status \in Closed
  BY <1>3 DEF FinaliseRow, TypeOK
<1> QED
  BY <1>1, <1>2, <1>3, DurableSteps DEF Closed

\* A process gets past the creation of the row only where it has seen the row.
LEMMA PastCreation ==
    ASSUME TypeOK, NEW p \in Procs, Step(p) \/ Request(p) \/ Failure(p),
           pc[p] \in BeforeRow, pc'[p] \notin BeforeRow
    PROVE  row'.status # "none"
<1>1. pc \in [Procs -> Labels] /\ row \in [status: {"none", "in_progress"} \cup Closed, expiresAt: Nat]
  BY DEF TypeOK
<1>2. CASE StartFind(p) \/ CreateRow(p) \/ AutoRow(p)
  BY <1>1, <1>2 DEF StartFind, CreateRow, AutoRow, BeforeRow, End, Forget, Work, Goto, Closed, db
<1>3. CASE Request(p)
  BY <1>1, <1>3 DEF Request, StartCheck, Load, BeforeRow, Work, Goto, db
<1>4. CASE Failure(p)
  BY <1>1, <1>4 DEF Failure, Swallow, AfterSwallowed, Reject, BeforeRow, Forget, Goto
<1>5. CASE Step(p) /\ ~StartFind(p) /\ ~CreateRow(p) /\ ~AutoRow(p)
  BY <1>1, <1>5 DEF BeforeRow, Step, CreateInvite, CreateSave, CreateJob, LoadRow, ResumeBlob,
        ReplayAnswers, ReplayResults, ReplaySave, Begin, BeginRow, BeginUnjob, BeginJob,
        BeginSave, Submit, Insert, SubmitSave, AdvanceReply, AdvanceFinalise,
        AdvancePastModule, AdvanceCloseModule, AdvanceServe, ServeSave, AdvanceSave,
        Advancing, InModule, InOpenModule, CloseInsert, CloseResult, FinaliseNoop,
        FinaliseResult, Finalising, FinaliseSave, FinaliseRow, FinaliseInvite,
        FinaliseUnjob, FinaliseReport
<1> QED
  BY <1>2, <1>3, <1>4, <1>5

\* Every step keeps RowExists.
LEMMA NextRowExists == TypeOK /\ RowExists /\ [Next]_vars => RowExists'
<1> SUFFICES ASSUME TypeOK, RowExists, [Next]_vars, NEW q \in Procs, pc'[q] \notin BeforeRow
             PROVE  row'.status # "none"
  BY DEF RowExists
<1>1. CASE pc[q] \notin BeforeRow
  BY <1>1, RowStays DEF RowExists
<1>2. ASSUME NEW p \in Procs, Step(p) \/ Request(p) \/ Failure(p), pc[q] \in BeforeRow
      PROVE  row'.status # "none"
  BY <1>2, StepIsLocal, PastCreation
<1>3. CASE JobFires \/ Sweep
  BY <1>1, <1>3 DEF JobFires, Sweep, StartAuto, Goto, BeforeRow, TypeOK, Procs
<1>4. CASE Restart
  BY <1>4 DEF Restart, BeforeRow
<1>5. CASE Evict \/ Lapse \/ Revoke \/ Tick \/ UNCHANGED vars
  BY <1>1, <1>5 DEF Evict, Lapse, Revoke, Tick, vars
<1> QED
  BY <1>1, <1>2, <1>3, <1>4, <1>5 DEF Next, Environment, Procs

\* Each step of the runtime is a step of the ledger or leaves it alone.
LEMMA LedgerStep ==
    ASSUME TypeOK, AtWork, ScoredSoFar, RowExists, [Next]_vars
    PROVE  [Ledger!Next]_(Ledger!vars)
<1>1. CASE row' = row /\ responses' = responses /\ results' = results
  BY <1>1 DEF Ledger!vars, Phase, Open, Recorded, Scored
<1>2. ASSUME NEW p \in Procs, CreateRow(p) PROVE [Ledger!Next]_(Ledger!vars)
  <2>1. responses' = responses /\ results' = results
    BY <1>2 DEF CreateRow
  <2>2. CASE row' = row
    BY <1>1, <2>1, <2>2
  <2>3. CASE row.status = "none" /\ row'.status = "in_progress"
    <3>1. Ledger!Open
      BY <2>1, <2>3 DEF Ledger!Open, Phase, Open, Recorded, Scored
    <3> QED
      BY <3>1 DEF Ledger!Next
  <2> QED
    BY <1>2, <2>2, <2>3 DEF CreateRow
<1>3. ASSUME NEW p \in Procs, BeginRow(p) PROVE [Ledger!Next]_(Ledger!vars)
  <2>1. row'.status = row.status /\ responses' = responses /\ results' = results
    BY <1>3 DEF BeginRow, TypeOK
  <2> QED
    BY <2>1 DEF Ledger!vars, Phase, Open, Recorded, Scored
<1>4. ASSUME NEW p \in Procs, FinaliseRow(p) PROVE [Ledger!Next]_(Ledger!vars)
  <2>1. /\ row'.status \in Closed
        /\ responses' = responses
        /\ results' = results
        /\ row.status \in {"in_progress"} \cup Closed
    BY <1>4 DEF FinaliseRow, TypeOK, RowExists, BeforeRow
  <2>2. CASE row.status = "in_progress"
    <3>1. Scored = Modules
      BY <1>4, ModulesAssumption DEF FinaliseRow, ScoredSoFar, Scored, Modules
    <3>2. Ledger!Close
      BY <2>1, <2>2, <3>1 DEF Ledger!Close, Phase, Open, Recorded, Scored, Closed
    <3> QED
      BY <3>2 DEF Ledger!Next
  <2>3. CASE row.status \in Closed
    BY <2>1, <2>3 DEF Ledger!vars, Phase, Open, Recorded, Scored, Closed
  <2> QED
    BY <2>1, <2>2, <2>3
<1>5. ASSUME NEW p \in Procs, Insert(p) \/ CloseInsert(p)
      PROVE  [Ledger!Next]_(Ledger!vars)
  <2>1. /\ row' = row
        /\ results' = results
        /\ row.status # "none"
    BY <1>5 DEF Insert, CloseInsert, RowExists, BeforeRow
  <2>2. CASE responses' = responses
    BY <1>1, <2>1, <2>2
  <2>3. ASSUME NEW r \in Questions, NEW v \in {"answered", "unanswered"},
               responses[r] = "absent", responses' = [responses EXCEPT ![r] = v]
        PROVE  [Ledger!Next]_(Ledger!vars)
    <3>1. r \notin Recorded /\ Recorded' = Recorded \cup {r}
      BY <2>3 DEF Recorded, TypeOK
    <3>2. Ledger!Record(r)
      BY <2>1, <3>1 DEF Ledger!Record, Phase, Open, Scored
    <3> QED
      BY <3>2 DEF Ledger!Next
  <2>4. st[p].served \in Questions
    BY <1>5 DEF AtWork, HasQuestion, Insert, CloseInsert
  <2> QED
    BY <1>5, <2>2, <2>3, <2>4 DEF Insert, CloseInsert
<1>6. ASSUME NEW p \in Procs, CloseResult(p) \/ FinaliseResult(p)
      PROVE  [Ledger!Next]_(Ledger!vars)
  <2>1. /\ row' = row
        /\ responses' = responses
        /\ row.status # "none"
    BY <1>6 DEF CloseResult, FinaliseResult, Finalising, RowExists, BeforeRow
  <2>2. PICK k \in Modules :
        \E s : results' = [results EXCEPT ![k] = ResultRow(s, k)]
    BY <1>6 DEF CloseResult, FinaliseResult, AtWork, HasModule
  <2>3. Scored' = Scored \cup {k}
    BY <2>2 DEF Scored, ResultRow, TypeOK
  <2>4. Ledger!Score(k)
    BY <2>1, <2>3 DEF Ledger!Score, Phase, Open, Recorded
  <2> QED
    BY <2>4 DEF Ledger!Next
<1> QED
  BY <1>1, <1>2, <1>3, <1>4, <1>5, <1>6, DurableSteps

\* The durable record of an attempt is opened once, only grows, and is closed only when
\* every module is scored: the runtime implements the ledger, whatever fails.
THEOREM ImplementsLedger == Spec => RefinesLedger
<1>1. Init => Ledger!Init
  BY DEF Init, Ledger!Init, Phase, Open, Recorded, Scored
<1>2. Init => ScoredSoFar /\ RowExists
  BY DEF Init, ScoredSoFar, RowExists, BeforeRow, Modules
<1>3. TypeOK /\ AtWork /\ ScoredSoFar /\ RowExists /\ [Next]_vars
        => (ScoredSoFar /\ RowExists)'
  BY NextScoredSoFar, NextRowExists
<1>4. TypeOK /\ AtWork /\ ScoredSoFar /\ RowExists /\ [Next]_vars
        => [Ledger!Next]_(Ledger!vars)
  BY LedgerStep
<1> QED
  BY <1>1, <1>2, <1>3, <1>4, TypeInvariant, PTL DEF Spec, RefinesLedger, Ledger!Spec

(***************************************************************************)
(* The label graph.  What each step needs of its process's label, where it *)
(* leaves it, and that it leaves the other processes alone.                *)
(***************************************************************************)
\* A step of p leaves the other processes' local variables alone.
LEMMA LocalsAreLocal ==
    ASSUME TypeOK, NEW p \in Procs, Step(p) \/ Request(p) \/ Failure(p),
           NEW q \in Procs, q # p
    PROVE  op'[q] = op[q] /\ cur'[q] = cur[q] /\ out'[q] = out[q]
<1>1. /\ op \in [Procs -> Operations]
      /\ cur \in [Procs -> 1 .. N + 1]
      /\ out \in [Procs -> Closed]
  BY DEF TypeOK
<1>2. CASE \/ StartFind(p) \/ CreateRow(p) \/ CreateInvite(p) \/ CreateSave(p) \/ CreateJob(p)
          \/ LoadRow(p) \/ ResumeBlob(p) \/ ReplayAnswers(p) \/ ReplayResults(p) \/ ReplaySave(p)
          \/ Begin(p) \/ BeginRow(p) \/ BeginUnjob(p) \/ BeginJob(p) \/ BeginSave(p)
  BY <1>1, <1>2 DEF StartFind, CreateRow, CreateInvite, CreateSave, CreateJob, LoadRow,
        ResumeBlob, ReplayAnswers, ReplayResults, ReplaySave,
        Begin, BeginRow, BeginUnjob, BeginJob, BeginSave, End, Forget, locals
<1>3. CASE \/ Submit(p) \/ Insert(p) \/ SubmitSave(p)
          \/ AdvanceReply(p) \/ AdvanceFinalise(p) \/ AdvancePastModule(p)
          \/ AdvanceCloseModule(p) \/ AdvanceServe(p) \/ ServeSave(p) \/ AdvanceSave(p)
          \/ CloseInsert(p) \/ CloseResult(p)
  BY <1>1, <1>3 DEF Submit, Insert, SubmitSave, AdvanceReply, AdvanceFinalise, Finalise,
        AdvancePastModule, AdvanceCloseModule, AdvanceServe, ServeSave, AdvanceSave,
        CloseInsert, CloseResult, End, Forget, locals
<1>4. CASE \/ FinaliseNoop(p) \/ FinaliseResult(p) \/ FinaliseSave(p) \/ FinaliseRow(p)
          \/ FinaliseInvite(p) \/ FinaliseUnjob(p) \/ FinaliseReport(p) \/ AutoRow(p)
  BY <1>1, <1>4 DEF FinaliseNoop, FinaliseResult, FinaliseSave, FinaliseRow, FinaliseInvite,
        FinaliseUnjob, FinaliseReport, AutoRow, End, Forget, locals
<1>5. CASE Request(p) \/ Failure(p)
  BY <1>1, <1>5 DEF Request, StartCheck, Load, Failure, Swallow, Reject, End, Forget, locals
<1> QED
  BY <1>2, <1>3, <1>4, <1>5 DEF Step

\* Only one action, or one of a few, is enabled at each label.
StepAt(p) ==
    /\ pc[p] = "start_find" => StartFind(p)
    /\ pc[p] = "create_row" => CreateRow(p)
    /\ pc[p] = "create_invite" => CreateInvite(p)
    /\ pc[p] = "create_save" => CreateSave(p)
    /\ pc[p] = "create_job" => CreateJob(p)
    /\ pc[p] = "load_row" => LoadRow(p)
    /\ pc[p] = "resume_blob" => ResumeBlob(p)
    /\ pc[p] = "replay_answers" => ReplayAnswers(p)
    /\ pc[p] = "replay_results" => ReplayResults(p)
    /\ pc[p] = "replay_save" => ReplaySave(p)
    /\ pc[p] = "begin" => Begin(p)
    /\ pc[p] = "begin_row" => BeginRow(p)
    /\ pc[p] = "begin_unjob" => BeginUnjob(p)
    /\ pc[p] = "begin_job" => BeginJob(p)
    /\ pc[p] = "begin_save" => BeginSave(p)
    /\ pc[p] = "submit" => Submit(p)
    /\ pc[p] = "insert" => Insert(p)
    /\ pc[p] = "submit_save" => SubmitSave(p)
    /\ pc[p] = "advance" =>
         \/ AdvanceReply(p) \/ AdvanceFinalise(p) \/ AdvancePastModule(p)
         \/ AdvanceCloseModule(p) \/ AdvanceServe(p)
    /\ pc[p] = "serve_save" => ServeSave(p)
    /\ pc[p] = "advance_save" => AdvanceSave(p)
    /\ pc[p] = "close_insert" => CloseInsert(p)
    /\ pc[p] = "close_result" => CloseResult(p)
    /\ pc[p] = "finalize" => FinaliseNoop(p) \/ FinaliseResult(p) \/ FinaliseSave(p)
    /\ pc[p] = "fin_row" => FinaliseRow(p)
    /\ pc[p] = "fin_invite" => FinaliseInvite(p)
    /\ pc[p] = "fin_unjob" => FinaliseUnjob(p)
    /\ pc[p] = "fin_report" => FinaliseReport(p)
    /\ pc[p] = "auto_row" => AutoRow(p)
    /\ pc[p] # "idle"

\* Where a step leaves the label of its process.
GoesTo(p) ==
    /\ pc[p] = "start_find" => pc'[p] \in {"create_row", "idle", "resume_blob"}
    /\ pc[p] = "create_row" => pc'[p] \in {"create_invite", "start_find"}
    /\ pc[p] = "create_invite" => pc'[p] = "create_save"
    /\ pc[p] = "create_save" => pc'[p] = "create_job"
    /\ pc[p] = "create_job" => pc'[p] = "advance"
    /\ pc[p] = "load_row" => pc'[p] = "replay_answers"
    /\ pc[p] = "resume_blob" => pc'[p] = Entry(op[p]) \/ pc'[p] = "replay_answers"
    /\ pc[p] = "replay_answers" => pc'[p] = "replay_results"
    /\ pc[p] = "replay_results" => pc'[p] = "replay_save"
    /\ pc[p] = "replay_save" => pc'[p] = Entry(op[p])
    /\ pc[p] = "begin" => pc'[p] \in {"begin_row", "begin_save", "advance"}
    /\ pc[p] = "begin_row" => pc'[p] = "begin_unjob"
    /\ pc[p] = "begin_unjob" => pc'[p] = "begin_job"
    /\ pc[p] = "begin_job" => pc'[p] = "begin_save"
    /\ pc[p] = "begin_save" => pc'[p] = "advance"
    /\ pc[p] = "submit" => pc'[p] \in {"idle", "finalize", "insert", "advance"}
    /\ pc[p] = "insert" => pc'[p] \in {"submit_save", "idle"}
    /\ pc[p] = "submit_save" => pc'[p] = "advance"
    /\ pc[p] = "advance" =>
         pc'[p] \in {"idle", "finalize", "advance_save", "close_insert", "close_result",
                     "serve_save"}
    /\ pc[p] = "serve_save" => pc'[p] = "idle"
    /\ pc[p] = "advance_save" => pc'[p] = "advance"
    /\ pc[p] = "close_insert" => pc'[p] \in {"close_result", "idle"}
    /\ pc[p] = "close_result" => pc'[p] = "advance_save"
    /\ pc[p] = "finalize" => pc'[p] \in {"idle", "finalize", "fin_row"}
    /\ pc[p] = "fin_row" => pc'[p] = "fin_invite"
    /\ pc[p] = "fin_invite" => pc'[p] = "fin_unjob"
    /\ pc[p] = "fin_unjob" => pc'[p] = "fin_report"
    /\ pc[p] = "fin_report" => pc'[p] = "idle"
    /\ pc[p] = "auto_row" => pc'[p] \in {"idle", "resume_blob"}

LEMMA LabelGraph ==
    ASSUME TypeOK, NEW p \in Procs, Step(p)
    PROVE  StepAt(p) /\ GoesTo(p)
<1>0. pc \in [Procs -> Labels]
  BY DEF TypeOK
<1>1. CASE \/ StartFind(p) \/ CreateRow(p) \/ CreateInvite(p) \/ CreateSave(p)
          \/ CreateJob(p) \/ LoadRow(p) \/ ReplayAnswers(p)
  BY <1>0, <1>1 DEF StepAt, GoesTo, StartFind, CreateRow, CreateInvite, CreateSave, CreateJob,
        LoadRow, ReplayAnswers, Work, Goto, End, Forget
<1>2. CASE ResumeBlob(p) \/ ReplaySave(p)
  <2>1. pc'[p] = Entry(op[p]) \/ (ResumeBlob(p) /\ pc'[p] = "replay_answers")
    BY <1>0, <1>2 DEF ResumeBlob, ReplaySave, Work, Goto
  <2> QED
    BY <1>2, <2>1 DEF StepAt, GoesTo, ResumeBlob, ReplaySave
<1>7. CASE ReplayResults(p)
  BY <1>0, <1>7 DEF StepAt, GoesTo, ReplayResults, Work, Goto
<1>3. CASE Begin(p)
  <2>1. pc[p] = "begin" /\ \E l \in {"begin_row", "begin_save", "advance"} : Goto(p, l)
    BY <1>3 DEF Begin, Work
  <2> QED
    BY <1>0, <2>1, <1>3 DEF StepAt, GoesTo, Goto
<1>8. CASE BeginRow(p) \/ BeginUnjob(p) \/ BeginJob(p) \/ BeginSave(p) \/ SubmitSave(p)
  BY <1>0, <1>8 DEF StepAt, GoesTo, BeginRow, BeginUnjob, BeginJob, BeginSave, SubmitSave, Goto
<1>9. CASE Submit(p)
  <2>1. pc[p] = "submit" /\ \E l \in {"idle", "finalize", "insert", "advance"} : Goto(p, l)
    BY <1>9 DEF Submit, Goto, End, Forget
  <2> QED
    BY <1>0, <1>9, <2>1 DEF StepAt, GoesTo, Goto
<1>10. CASE Insert(p)
  <2>1. pc[p] = "insert" /\ \E l \in {"submit_save", "idle"} : Goto(p, l)
    BY <1>10 DEF Insert, Work, Goto, End, Forget
  <2> QED
    BY <1>0, <1>10, <2>1 DEF StepAt, GoesTo, Goto
<1>4. CASE \/ AdvanceReply(p) \/ AdvanceFinalise(p) \/ AdvancePastModule(p)
          \/ AdvanceCloseModule(p) \/ AdvanceServe(p)
  BY <1>0, <1>4 DEF StepAt, GoesTo, AdvanceReply, Advancing, AdvanceFinalise, Finalise,
        AdvancePastModule, InModule, InOpenModule, AdvanceCloseModule, AdvanceServe,
        Work, Goto, End, Forget
<1>5. CASE ServeSave(p) \/ AdvanceSave(p) \/ CloseInsert(p) \/ CloseResult(p)
  BY <1>0, <1>5 DEF StepAt, GoesTo, ServeSave, AdvanceSave, CloseInsert, CloseResult,
        Work, Goto, End, Forget
<1>6. CASE \/ FinaliseNoop(p) \/ FinaliseResult(p) \/ FinaliseSave(p) \/ FinaliseRow(p)
          \/ FinaliseInvite(p) \/ FinaliseUnjob(p) \/ FinaliseReport(p) \/ AutoRow(p)
  BY <1>0, <1>6 DEF StepAt, GoesTo, FinaliseNoop, FinaliseResult, Finalising, FinaliseSave,
        FinaliseRow, FinaliseInvite, FinaliseUnjob, FinaliseReport, AutoRow,
        Work, Goto, End, Forget
<1> QED
  BY <1>1, <1>2, <1>3, <1>4, <1>5, <1>6, <1>7, <1>8, <1>9, <1>10 DEF Step

\* A process moves in a step of its own, or when the environment starts or ends it.
LEMMA Movers ==
    ASSUME TypeOK, [Next]_vars, NEW p \in Procs
    PROVE  \/ /\ pc'[p] = pc[p] /\ st'[p] = st[p] /\ op'[p] = op[p]
              /\ cur'[p] = cur[p] /\ out'[p] = out[p]
           \/ Step(p)
           \/ p \in Tabs /\ Request(p)
           \/ Failure(p)
           \/ Restart
           \/ p = Worker /\ JobFires
           \/ p = Sweeper /\ Sweep
<1>0. /\ pc \in [Procs -> Labels] /\ op \in [Procs -> Operations]
      /\ out \in [Procs -> Closed]
      /\ Worker \in Procs /\ Sweeper \in Procs
  BY DEF TypeOK, Procs
<1>1. ASSUME NEW q \in Procs, Step(q) \/ Request(q) \/ Failure(q), q # p
      PROVE  /\ pc'[p] = pc[p] /\ st'[p] = st[p] /\ op'[p] = op[p]
             /\ cur'[p] = cur[p] /\ out'[p] = out[p]
  BY <1>1, StepIsLocal, LocalsAreLocal
<1>2. CASE JobFires \/ Sweep
  BY <1>0, <1>2 DEF JobFires, Sweep, StartAuto, Goto
<1>3. CASE Evict \/ Lapse \/ Revoke \/ Tick \/ UNCHANGED vars
  BY <1>3 DEF Evict, Lapse, Revoke, Tick, vars, locals
<1>4. Tabs \subseteq Procs
  BY DEF Procs
<1> QED
  BY <1>1, <1>2, <1>3, <1>4 DEF Next, Environment

(***************************************************************************)
(* Which steps touch the queue, the live state and the clock               *)
(***************************************************************************)
\* Without a failed call a process stands still, takes a step or is started.
LEMMA FaultFree ==
    ASSUME TypeOK, [Next]_vars, faults' = 0, NEW p \in Procs
    PROVE  /\ faults = 0
           /\ \/ /\ pc'[p] = pc[p] /\ st'[p] = st[p] /\ op'[p] = op[p]
                 /\ cur'[p] = cur[p] /\ out'[p] = out[p]
              \/ Step(p)
              \/ pc[p] = "idle" /\ p \in Tabs /\ Request(p)
              \/ pc[p] = "idle" /\ Restart /\ pc'[p] = "idle" /\ st'[p] = Absent
              \/ pc[p] = "idle" /\ p = Worker /\ JobFires
              \/ pc[p] = "idle" /\ p = Sweeper /\ Sweep
<1>0. faults \in Nat
  BY DEF TypeOK
<1>1. ASSUME NEW q \in Procs, Failure(q) PROVE FALSE
  BY <1>0, <1>1 DEF Failure, Swallow, Reject
<1>2. ASSUME Restart
      PROVE  pc[p] = "idle" /\ faults' = faults /\ pc'[p] = "idle" /\ st'[p] = Absent
  BY <1>0, <1>2 DEF Restart
<1>3. ASSUME NEW q \in Procs, Step(q) \/ Request(q) PROVE faults' = faults
  <2>1. ASSUME Request(q) PROVE faults' = faults
    BY <2>1 DEF Request, StartCheck, Load, env
  <2>2. ASSUME Step(q) PROVE faults' = faults
    BY <2>2 DEF Step, StartFind, CreateRow, CreateInvite, CreateSave, CreateJob, LoadRow,
          ResumeBlob, ReplayAnswers, ReplayResults, ReplaySave, Begin, BeginRow, BeginUnjob,
          BeginJob, BeginSave, Submit, Insert, SubmitSave, AdvanceReply, AdvanceFinalise,
          AdvancePastModule, AdvanceCloseModule, AdvanceServe, ServeSave, AdvanceSave,
          CloseInsert, CloseResult, FinaliseNoop, FinaliseResult, FinaliseSave, FinaliseRow,
          FinaliseInvite, FinaliseUnjob, FinaliseReport, AutoRow, env
  <2> QED
    BY <1>3, <2>1, <2>2
<1>4. faults = 0
  <2>1. CASE JobFires \/ Sweep \/ Evict \/ Lapse \/ Revoke \/ Tick \/ UNCHANGED vars
    BY <2>1 DEF JobFires, Sweep, Evict, Lapse, Revoke, Tick, vars, env
  <2>2. Tabs \subseteq Procs
    BY DEF Procs
  <2> QED
    BY <1>1, <1>2, <1>3, <2>1, <2>2 DEF Next, Environment
<1>5. ASSUME NEW o, NEW q, Load(p, o, q) PROVE pc[p] = "idle"
  BY <1>5 DEF Load
<1>6. /\ Request(p) => pc[p] = "idle"
      /\ JobFires /\ p = Worker => pc[p] = "idle"
      /\ Sweep /\ p = Sweeper => pc[p] = "idle"
  BY <1>5 DEF Request, StartCheck, JobFires, StartAuto, Sweep
<1> QED
  BY <1>1, <1>2, <1>4, <1>6, Movers

\* The steps of a process on the queue: add, remove, and the end of the worker's job.
LEMMA StepOnJob ==
    ASSUME TypeOK, NEW p \in Procs, Step(p)
    PROVE  /\ \/ job' = job
              \/ job' = JobAfterAdd(now + Budget + StartGrace) /\ CreateJob(p)
              \/ job' = JobAfterAdd(now + Budget) /\ BeginJob(p)
              \/ job' = JobAfterRemove /\ (BeginUnjob(p) \/ FinaliseUnjob(p))
              \/ job' = NoJob /\ p = Worker /\ pc'[p] = "idle"
           /\ pc'[p] = "idle" /\ p = Worker => job' = NoJob
<1>0. pc \in [Procs -> Labels]
  BY DEF TypeOK
<1>1. CASE \/ CreateRow(p) \/ CreateInvite(p) \/ CreateSave(p) \/ LoadRow(p)
          \/ ReplayAnswers(p) \/ AdvanceSave(p) \/ BeginSave(p) \/ SubmitSave(p)
          \/ AdvancePastModule(p) \/ AdvanceCloseModule(p) \/ AdvanceServe(p)
  <2>1. job' = job
    BY <1>1 DEF CreateRow, CreateInvite, CreateSave, LoadRow, ReplayAnswers, AdvanceSave,
          BeginSave, SubmitSave, AdvancePastModule, AdvanceCloseModule, AdvanceServe, queue
  <2>2. pc'[p] # "idle"
    BY <1>0, <1>1 DEF CreateRow, CreateInvite, CreateSave, LoadRow, ReplayAnswers, AdvanceSave,
          BeginSave, SubmitSave, AdvancePastModule, AdvanceCloseModule, AdvanceServe, Work, Goto
  <2> QED
    BY <2>1, <2>2
<1>2. CASE \/ ResumeBlob(p) \/ ReplaySave(p) \/ ReplayResults(p) \/ Begin(p) \/ BeginRow(p)
          \/ CloseResult(p) \/ FinaliseResult(p) \/ FinaliseSave(p) \/ FinaliseRow(p)
          \/ FinaliseInvite(p)
  <2>1. job' = job
    BY <1>2 DEF ResumeBlob, ReplaySave, ReplayResults, Begin, BeginRow, CloseResult,
          FinaliseResult, FinaliseSave, FinaliseRow, FinaliseInvite, queue
  <2>2. CASE FinaliseResult(p)
    BY <1>0, <2>1, <2>2 DEF FinaliseResult, Finalising
  <2>3. CASE ~FinaliseResult(p)
    <3>1. \A o : Entry(o) # "idle"
      BY DEF Entry
    <3>2. pc[p] \in {"resume_blob", "replay_save", "replay_results", "begin", "begin_row",
                     "close_result", "fin_row", "fin_invite"} \/ FinaliseSave(p)
      BY <1>2, <2>3 DEF ResumeBlob, ReplaySave, ReplayResults, Begin, BeginRow, CloseResult,
            FinaliseRow, FinaliseInvite
    <3>3. FinaliseSave(p) => pc'[p] = "fin_row"
      BY <1>0 DEF FinaliseSave, Work, Goto
    <3>4. pc'[p] # "idle"
      BY <3>1, <3>2, <3>3, LabelGraph DEF GoesTo
    <3> QED
      BY <2>1, <3>4
  <2> QED
    BY <2>2, <2>3
<1>3. CASE CreateJob(p) \/ BeginUnjob(p) \/ BeginJob(p) \/ FinaliseUnjob(p)
  BY <1>0, <1>3 DEF CreateJob, BeginUnjob, BeginJob, FinaliseUnjob, Goto
<1>4. CASE \/ StartFind(p) \/ Submit(p) \/ Insert(p) \/ AdvanceReply(p) \/ AdvanceFinalise(p)
          \/ ServeSave(p) \/ CloseInsert(p) \/ FinaliseNoop(p) \/ FinaliseReport(p)
          \/ AutoRow(p)
  <2>1. \/ End(p)
        \/ job' = job /\ \E l \in Labels \ {"idle"} : Goto(p, l)
    BY <1>4 DEF StartFind, Submit, Insert, AdvanceReply, AdvanceFinalise, Finalise, ServeSave,
          CloseInsert, FinaliseNoop, FinaliseReport, AutoRow, Work, Goto, Labels
  <2> QED
    BY <1>0, <2>1 DEF End, Forget, Goto
<1> QED
  BY <1>1, <1>2, <1>3, <1>4 DEF Step

\* The queue changes only in such a step, when a job fires, or at a restart.
LEMMA JobSteps ==
    ASSUME TypeOK, [Next]_vars, faults' = 0
    PROVE  \/ job' = job
           \/ \E p \in Procs :
                \/ job' = JobAfterAdd(now + Budget + StartGrace) /\ CreateJob(p)
                \/ job' = JobAfterAdd(now + Budget) /\ BeginJob(p)
                \/ job' = JobAfterRemove /\ (BeginUnjob(p) \/ FinaliseUnjob(p))
           \/ job' = NoJob /\ Step(Worker) /\ pc'[Worker] = "idle"
           \/ JobFires
           \/ Restart
<1>0. /\ faults \in Nat
      /\ Tabs \subseteq Procs
  BY DEF TypeOK, Procs
<1>1. ASSUME NEW q \in Procs, Failure(q) PROVE FALSE
  BY <1>0, <1>1 DEF Failure, Swallow, Reject
<1>2. ASSUME NEW q \in Procs, Request(q) PROVE job' = job
  BY <1>2 DEF Request, StartCheck, Load, queue
<1>3. CASE Sweep \/ Evict \/ Lapse \/ Revoke \/ Tick \/ UNCHANGED vars
  BY <1>3 DEF Sweep, Evict, Lapse, Revoke, Tick, vars, queue
<1> QED
  BY <1>0, <1>1, <1>2, <1>3, StepOnJob DEF Next, Environment

\* A save writes a request's working copy; the rest of the time the live state is left
\* alone or lost.
LEMMA BlobSteps ==
    ASSUME TypeOK, [Next]_vars
    PROVE  \/ blob' = blob
           \/ blob' = Absent
           \/ \E p \in Procs : \/ blob' = st[p] /\ Step(p)
                               \/ FinaliseSave(p)
<1>0. Tabs \subseteq Procs
  BY DEF Procs
<1>1. ASSUME NEW p \in Procs, Step(p)
      PROVE  blob' = blob \/ blob' = st[p] \/ FinaliseSave(p)
  <2>1. CASE CreateSave(p) \/ ReplaySave(p) \/ BeginSave(p) \/ SubmitSave(p)
             \/ ServeSave(p) \/ AdvanceSave(p)
    BY <2>1 DEF CreateSave, ReplaySave, BeginSave, SubmitSave, ServeSave, AdvanceSave
  <2>2. CASE \/ StartFind(p) \/ CreateRow(p) \/ CreateInvite(p) \/ CreateJob(p)
            \/ LoadRow(p) \/ ResumeBlob(p) \/ ReplayAnswers(p) \/ ReplayResults(p)
            \/ Begin(p) \/ BeginRow(p) \/ BeginUnjob(p) \/ BeginJob(p)
    BY <2>2 DEF StartFind, CreateRow, CreateInvite, CreateJob, LoadRow, ResumeBlob,
          ReplayAnswers, ReplayResults, Begin, BeginRow, BeginUnjob, BeginJob
  <2>3. CASE \/ Submit(p) \/ Insert(p) \/ AdvanceReply(p) \/ AdvanceFinalise(p)
            \/ AdvancePastModule(p) \/ AdvanceCloseModule(p) \/ AdvanceServe(p)
            \/ CloseInsert(p) \/ CloseResult(p)
    BY <2>3 DEF Submit, Insert, AdvanceReply, AdvanceFinalise, AdvancePastModule,
          AdvanceCloseModule, AdvanceServe, CloseInsert, CloseResult
  <2>4. CASE \/ FinaliseNoop(p) \/ FinaliseResult(p) \/ FinaliseRow(p) \/ FinaliseInvite(p)
            \/ FinaliseUnjob(p) \/ FinaliseReport(p) \/ AutoRow(p)
    BY <2>4 DEF FinaliseNoop, FinaliseResult, FinaliseRow, FinaliseInvite, FinaliseUnjob,
          FinaliseReport, AutoRow
  <2> QED
    BY <1>1, <2>1, <2>2, <2>3, <2>4 DEF Step
<1>2. ASSUME NEW p \in Procs, Request(p) \/ Failure(p) PROVE blob' = blob
  BY <1>2 DEF Request, StartCheck, Load, Failure, Swallow, Reject
<1>3. CASE JobFires \/ Sweep \/ Restart \/ Revoke \/ Tick \/ UNCHANGED vars
  BY <1>3 DEF JobFires, Sweep, Restart, Revoke, Tick, vars
<1>4. CASE Evict \/ Lapse
  BY <1>4 DEF Evict, Lapse
<1> QED
  BY <1>0, <1>1, <1>2, <1>3, <1>4 DEF Next, Environment

\* The clock only moves forward, and not in the middle of another step.
LEMMA TimeSteps ==
    ASSUME TypeOK, [Next]_vars
    PROVE  \/ now' = now
           \/ Tick /\ now' = now + 1
<1>0. Tabs \subseteq Procs
  BY DEF Procs
<1>1. ASSUME NEW p \in Procs, Step(p) PROVE now' = now
  BY <1>1 DEF Step, StartFind, CreateRow, CreateInvite, CreateSave, CreateJob, LoadRow,
        ResumeBlob, ReplayAnswers, ReplayResults, ReplaySave, Begin, BeginRow, BeginUnjob,
        BeginJob, BeginSave, Submit, Insert, SubmitSave, AdvanceReply, AdvanceFinalise,
        AdvancePastModule, AdvanceCloseModule, AdvanceServe, ServeSave, AdvanceSave,
        CloseInsert, CloseResult, FinaliseNoop, FinaliseResult, FinaliseSave, FinaliseRow,
        FinaliseInvite, FinaliseUnjob, FinaliseReport, AutoRow, env
<1>2. ASSUME NEW p \in Procs, Request(p) \/ Failure(p) PROVE now' = now
  BY <1>2 DEF Request, StartCheck, Load, Failure, Swallow, Reject, env
<1>3. CASE JobFires \/ Sweep \/ Restart \/ Evict \/ Lapse \/ Revoke \/ UNCHANGED vars
  BY <1>3 DEF JobFires, Sweep, Restart, Evict, Lapse, Revoke, vars, env
<1>4. CASE Tick
  BY <1>4 DEF Tick
<1> QED
  BY <1>0, <1>1, <1>2, <1>3, <1>4 DEF Next, Environment

\* A closed row stays closed.
LEMMA ClosedStays ==
    ASSUME TypeOK, [Next]_vars, IsClosed
    PROVE  IsClosed'
<1>1. ASSUME NEW p \in Procs, CreateRow(p) PROVE row' = row
  BY <1>1 DEF CreateRow, IsClosed, Closed
<1>2. ASSUME NEW p \in Procs, BeginRow(p) PROVE row'.status = row.status
  BY <1>2 DEF BeginRow, TypeOK
<1>3. ASSUME NEW p \in Procs, FinaliseRow(p) PROVE row'.status \in Closed
  BY <1>3 DEF FinaliseRow, TypeOK
<1> QED
  BY <1>1, <1>2, <1>3, DurableSteps DEF IsClosed

(***************************************************************************)
(* An open attempt is watched: with no failed call, it has its auto-submit *)
(* job, due no earlier than the deadline the row states, or a request in   *)
(* flight is about to see to it.                                           *)
(***************************************************************************)
\* The worker and the sweeper only ever run autoSubmitSession.
AutoLabels ==
    {"auto_row", "resume_blob", "replay_answers", "replay_results", "replay_save",
     "finalize", "fin_row", "fin_invite", "fin_unjob", "fin_report"}

BackgroundFits ==
    \A p \in {Worker, Sweeper} :
        pc[p] # "idle" => pc[p] \in AutoLabels /\ op[p] = "auto"

\* The last calls of finalize come after the session row is closed.
ClosedLabels == {"fin_invite", "fin_unjob", "fin_report"}
ClosingFits == \A p \in Procs : pc[p] \in ClosedLabels => IsClosed

\* The live state says finished only when the row is closed or about to be.
Ending == IsClosed \/ \E p \in Procs : pc[p] = "fin_row"
FinishedFits ==
    /\ blob.status = "finished" => Ending
    /\ \A p \in Procs : st[p].status = "finished" => Ending

\* The deadline a row states is at most a budget away, but for createSession's grace.
TimesFit ==
    /\ row.status # "none" => row.expiresAt <= now + Budget + StartGrace
    /\ \A p \in Procs :
         /\ pc[p] = "begin_row" => st[p].expiresAt <= now + Budget
         /\ pc[p] \in {"begin_unjob", "begin_job"} => row.expiresAt <= now + Budget

JobFits ==
    /\ job.state # "failed"
    /\ job.state = "active" => pc[Worker] # "idle"
    /\ row.status = "none" => job.state = "none"

\* A job older than the row's deadline is about to be removed.
JobDue ==
    job.state = "delayed" /\ row.expiresAt > job.due =>
        \E p \in Procs : pc[p] = "begin_unjob"

\* An open attempt without a job is about to get one, or to be closed.
JobComing ==
    {"create_invite", "create_save", "create_job", "begin_job", "fin_row"}
JobNone ==
    Open /\ job.state = "none" => \E p \in Procs : pc[p] \in JobComing

Watched ==
    /\ BackgroundFits
    /\ ClosingFits
    /\ TimesFit
    /\ faults = 0 => FinishedFits /\ JobFits /\ JobDue /\ JobNone

LEMMA NextBackground ==
    TypeOK /\ BackgroundFits /\ [Next]_vars => BackgroundFits'
<1> SUFFICES ASSUME TypeOK, BackgroundFits, [Next]_vars, NEW p \in {Worker, Sweeper},
                    pc'[p] # "idle"
             PROVE  pc'[p] \in AutoLabels /\ op'[p] = "auto"
  BY DEF BackgroundFits
<1>0. /\ p \in Procs /\ p \notin Tabs
      /\ pc \in [Procs -> Labels] /\ op \in [Procs -> Operations]
      /\ pc[p] # "idle" => pc[p] \in AutoLabels /\ op[p] = "auto"
  BY ProcsAssumption DEF Procs, TypeOK, BackgroundFits
<1>1. CASE pc'[p] = pc[p] /\ op'[p] = op[p]
  BY <1>0, <1>1
<1>2. CASE Step(p)
  <2>1. StepAt(p) /\ GoesTo(p)
    BY <1>0, <1>2, LabelGraph
  <2>2. pc[p] \in AutoLabels /\ op[p] = "auto"
    BY <1>0, <2>1 DEF StepAt
  <2>3. Entry(op[p]) = "finalize"
    BY <2>2 DEF Entry
  <2>4. pc'[p] \in AutoLabels
    BY <2>1, <2>2, <2>3 DEF GoesTo, AutoLabels
  <2>5. op' = op
    <3>1. \/ AutoRow(p) \/ ResumeBlob(p) \/ ReplayAnswers(p) \/ ReplayResults(p)
          \/ ReplaySave(p) \/ FinaliseNoop(p) \/ FinaliseResult(p) \/ FinaliseSave(p)
          \/ FinaliseRow(p) \/ FinaliseInvite(p) \/ FinaliseUnjob(p) \/ FinaliseReport(p)
      BY <2>1, <2>2 DEF StepAt, AutoLabels
    <3>2. ASSUME End(p) PROVE FALSE
      BY <1>0, <3>2 DEF End, Forget
    <3> QED
      BY <3>1, <3>2 DEF AutoRow, ResumeBlob, ReplayAnswers, ReplayResults, ReplaySave,
            FinaliseNoop, FinaliseResult, FinaliseSave, FinaliseRow, FinaliseInvite,
            FinaliseUnjob, FinaliseReport, locals
  <2> QED
    BY <2>2, <2>4, <2>5
<1>3. CASE Failure(p)
  <2>1. CASE Swallow(p)
    <3>1. ASSUME End(p) PROVE FALSE
      BY <1>0, <3>1 DEF End, Forget
    <3>2. /\ pc[p] \in DOMAIN AfterSwallowed
          /\ pc'[p] = AfterSwallowed[pc[p]]
          /\ op' = op
      BY <1>0, <2>1, <3>1 DEF Swallow, Goto, locals
    <3>3. pc[p] = "fin_unjob"
      BY <1>0, <3>2 DEF AfterSwallowed, AutoLabels
    <3> QED
      BY <1>0, <3>2, <3>3 DEF AfterSwallowed, AutoLabels
  <2>2. CASE Reject(p)
    BY <1>0, <2>2 DEF Reject, Forget
  <2> QED
    BY <1>3, <2>1, <2>2 DEF Failure
<1>4. CASE Restart
  BY <1>0, <1>4 DEF Restart
<1>5. CASE JobFires /\ p = Worker
  BY <1>0, <1>5 DEF JobFires, StartAuto, Goto, AutoLabels
<1>6. CASE Sweep /\ p = Sweeper
  <2>1. CASE StartAuto(Sweeper)
    BY <1>0, <1>6, <2>1 DEF StartAuto, Goto, AutoLabels
  <2>2. CASE UNCHANGED <<pc, op, out>>
    BY <1>0, <2>2
  <2> QED
    BY <1>6, <2>1, <2>2 DEF Sweep
<1> QED
  BY <1>0, <1>1, <1>2, <1>3, <1>4, <1>5, <1>6, Movers

LEMMA NextClosing ==
    TypeOK /\ ClosingFits /\ [Next]_vars => ClosingFits'
<1> SUFFICES ASSUME TypeOK, ClosingFits, [Next]_vars, NEW p \in Procs,
                    pc'[p] \in ClosedLabels
             PROVE  IsClosed'
  BY DEF ClosingFits
<1>0. pc \in [Procs -> Labels]
  BY DEF TypeOK
<1>1. CASE pc[p] \in ClosedLabels
  BY <1>1, ClosedStays DEF ClosingFits
<1>2. CASE Step(p) /\ pc[p] \notin ClosedLabels
  <2>1. StepAt(p) /\ GoesTo(p)
    BY <1>2, LabelGraph
  <2>2. \A o : Entry(o) \notin ClosedLabels
    BY DEF Entry, ClosedLabels
  <2>3. pc[p] = "fin_row"
    BY <1>0, <1>2, <2>1, <2>2 DEF StepAt, GoesTo, ClosedLabels, Labels
  <2>4. FinaliseRow(p)
    BY <2>1, <2>3 DEF StepAt
  <2> QED
    BY <2>4 DEF FinaliseRow, IsClosed, TypeOK
<1>3. CASE Request(p)
  <2>1. \A o : Entry(o) \notin ClosedLabels
    BY DEF Entry, ClosedLabels
  <2> QED
    BY <1>0, <1>3, <2>1 DEF Request, StartCheck, Load, Work, Goto, ClosedLabels
<1>4. CASE Failure(p) /\ pc[p] \notin ClosedLabels
  BY <1>0, <1>4 DEF Failure, Swallow, AfterSwallowed, Reject, End, Forget, Goto, ClosedLabels
<1>5. CASE Restart
  BY <1>5 DEF Restart, ClosedLabels
<1>6. CASE JobFires \/ Sweep
  BY <1>0, <1>1, <1>6 DEF JobFires, Sweep, StartAuto, Goto, ClosedLabels
<1> QED
  BY <1>1, <1>2, <1>3, <1>4, <1>5, <1>6, Movers

\* What is closed, or about to be, stays so.
LEMMA EndingStays ==
    ASSUME TypeOK, [Next]_vars, faults' = 0, Ending
    PROVE  Ending'
<1>1. CASE IsClosed
  BY <1>1, ClosedStays DEF Ending
<1>2. ASSUME NEW p \in Procs, pc[p] = "fin_row" PROVE Ending'
  <2>1. CASE pc'[p] = pc[p]
    BY <1>2, <2>1 DEF Ending
  <2>2. CASE Step(p)
    <3>1. FinaliseRow(p)
      BY <1>2, <2>2, LabelGraph DEF StepAt
    <3> QED
      BY <3>1 DEF FinaliseRow, Ending, IsClosed, TypeOK
  <2> QED
    BY <1>2, <2>1, <2>2, FaultFree
<1> QED
  BY <1>1, <1>2 DEF Ending

\* A working copy says finished only when it was read so, or finalize has just made it so.
LEMMA StatusSteps ==
    ASSUME TypeOK, RowExists, [Next]_vars, faults' = 0, NEW p \in Procs,
           st'[p].status = "finished"
    PROVE  \/ st[p].status = "finished"
           \/ blob.status = "finished"
           \/ IsClosed
           \/ FinaliseSave(p)
<1>0. /\ st \in [Procs -> SessionState] /\ st[p] \in SessionState
      /\ Absent.status = "absent"
      /\ \A e : FreshState("in_progress", e).status = "in_progress"
  BY DEF TypeOK, Absent, FreshState
<1>1. CASE Step(p)
  <2>1. CASE StartFind(p) \/ CreateRow(p) \/ AutoRow(p)
    BY <1>0, <2>1 DEF StartFind, CreateRow, AutoRow, Work, End, Forget
  <2>2. CASE LoadRow(p)
    <3>1. row.status # "none"
      BY <2>2 DEF LoadRow, RowExists, BeforeRow
    <3>2. CASE row.status = "in_progress"
      BY <1>0, <2>2, <3>2 DEF LoadRow, Work
    <3> QED
      BY <3>1, <3>2 DEF TypeOK, IsClosed
  <2>3. CASE ResumeBlob(p)
    BY <1>0, <2>3 DEF ResumeBlob, Work
  <2>4. CASE \/ CreateInvite(p) \/ CreateSave(p) \/ CreateJob(p) \/ ReplaySave(p)
            \/ BeginRow(p) \/ BeginUnjob(p) \/ BeginJob(p) \/ BeginSave(p) \/ SubmitSave(p)
            \/ AdvanceFinalise(p) \/ AdvanceCloseModule(p) \/ AdvanceSave(p)
            \/ FinaliseRow(p) \/ FinaliseInvite(p) \/ FinaliseUnjob(p)
    BY <1>0, <2>4 DEF CreateInvite, CreateSave, CreateJob, ReplaySave, BeginRow, BeginUnjob,
          BeginJob, BeginSave, SubmitSave, AdvanceFinalise, Finalise, AdvanceCloseModule,
          AdvanceSave, FinaliseRow, FinaliseInvite, FinaliseUnjob
  <2>5. CASE Submit(p) \/ AdvanceReply(p) \/ ServeSave(p) \/ FinaliseNoop(p) \/ FinaliseReport(p)
    BY <1>0, <2>5 DEF Submit, AdvanceReply, ServeSave, FinaliseNoop, FinaliseReport, End, Forget
  <2>6. CASE ReplayAnswers(p)
    <3>1. PICK a, b, c : Work(p, [st[p] EXCEPT !.seen = a, !.answered = b, !.mstat = c],
                              "replay_results")
      BY <2>6 DEF ReplayAnswers
    <3> QED
      BY <1>0, <3>1 DEF Work, SessionState
  <2>12. CASE ReplayResults(p)
    <3>1. PICK a, b, c : Work(p, [st[p] EXCEPT !.mstat = a, !.idx = b, !.deadline = c],
                              "replay_save")
      BY <2>12 DEF ReplayResults
    <3> QED
      BY <1>0, <3>1 DEF Work, SessionState
  <2>7. CASE Begin(p)
    <3>1. \E s : st' = [st EXCEPT ![p] = s] /\ s.status = st[p].status
      <4> DEFINE s == st[p]
                 started == [s EXCEPT !.mstat[s.idx] = "in_progress",
                                      !.deadline[s.idx] = now + TimeLimit[s.idx]]
      <4>1. /\ started.status = s.status
            /\ [started EXCEPT !.expiresAt = now + Budget].status = s.status
        BY <1>0 DEF SessionState
      <4>2. \/ st' = [st EXCEPT ![p] = started]
            \/ st' = [st EXCEPT ![p] = [started EXCEPT !.expiresAt = now + Budget]]
            \/ st' = st
        BY <2>7 DEF Begin, Work
      <4>3. st = [st EXCEPT ![p] = s]
        BY <1>0
      <4> HIDE DEF started
      <4> QED
        BY <4>1, <4>2, <4>3
    <3> QED
      BY <1>0, <3>1
  <2>8. CASE Insert(p) \/ CloseInsert(p)
    <3>1. Answered(st[p]).status = st[p].status
      BY <1>0 DEF Answered, SessionState
    <3>2. \/ st' = [st EXCEPT ![p] = Answered(st[p])]
          \/ st' = [st EXCEPT ![p] = Absent]
      BY <2>8 DEF Insert, CloseInsert, Work, End, Forget
    <3> QED
      BY <1>0, <3>1, <3>2
  <2>9. CASE AdvancePastModule(p)
    BY <1>0, <2>9 DEF AdvancePastModule, Work, SessionState
  <2>13. CASE AdvanceServe(p)
    <3>1. PICK q : Work(p, [st[p] EXCEPT !.served = q, !.seen = @ \cup {q}], "serve_save")
      BY <2>13 DEF AdvanceServe
    <3> QED
      BY <1>0, <3>1 DEF Work, SessionState
  <2>10. CASE CloseResult(p) \/ FinaliseResult(p)
    <3> DEFINE s(m) == [st[p] EXCEPT !.mstat[m] = "completed"]
    <3>1. \A m : s(m).status = st[p].status /\ [s(m) EXCEPT !.idx = @ + 1].status = st[p].status
      BY <1>0 DEF SessionState
    <3>2. PICK m : \/ st' = [st EXCEPT ![p] = s(m)]
                   \/ st' = [st EXCEPT ![p] = st[p]]
                   \/ st' = [st EXCEPT ![p] = [s(m) EXCEPT !.idx = @ + 1]]
      BY <2>10 DEF CloseResult, FinaliseResult, Work
    <3>3. s(m).status = st[p].status /\ [s(m) EXCEPT !.idx = @ + 1].status = st[p].status
      BY <3>1
    <3> HIDE DEF s
    <3> QED
      BY <1>0, <3>3, <3>2
  <2>11. CASE FinaliseSave(p)
    BY <2>11
  <2> QED
    BY <1>1, <2>1, <2>2, <2>3, <2>4, <2>5, <2>6, <2>7, <2>8, <2>9, <2>10, <2>11,
       <2>12, <2>13 DEF Step
<1>2. CASE Request(p)
  BY <1>0, <1>2 DEF Request, StartCheck, Load, Work
<1>3. CASE JobFires \/ Sweep
  BY <1>0, <1>3 DEF JobFires, Sweep
<1> QED
  BY <1>0, <1>1, <1>2, <1>3, FaultFree

LEMMA NextFinished ==
    TypeOK /\ RowExists /\ FinishedFits /\ faults' = 0 /\ [Next]_vars => FinishedFits'
<1> SUFFICES ASSUME TypeOK, RowExists, FinishedFits, faults' = 0, [Next]_vars
             PROVE  FinishedFits'
  OBVIOUS
<1>0. pc \in [Procs -> Labels]
  BY DEF TypeOK
<1>1. ASSUME NEW p \in Procs, FinaliseSave(p) PROVE Ending'
  BY <1>0, <1>1 DEF FinaliseSave, Work, Goto, Ending
<1>2. ASSUME blob'.status = "finished" PROVE Ending'
  <2>1. Absent.status # "finished"
    BY DEF Absent, FreshState
  <2> QED
    BY <1>1, <1>2, <2>1, BlobSteps, EndingStays DEF FinishedFits
<1>3. ASSUME NEW p \in Procs, st'[p].status = "finished" PROVE Ending'
  <2>1. IsClosed => Ending
    BY DEF Ending
  <2> QED
    BY <1>1, <1>3, <2>1, StatusSteps, EndingStays DEF FinishedFits
<1> QED
  BY <1>2, <1>3 DEF FinishedFits

LEMMA NextTimes ==
    TypeOK /\ RowExists /\ TimesFit /\ [Next]_vars => TimesFit'
<1> SUFFICES ASSUME TypeOK, RowExists, TimesFit, [Next]_vars
             PROVE  TimesFit'
  OBVIOUS
<1>0. /\ now \in Nat /\ now' \in Nat /\ now <= now'
      /\ Budget \in Nat /\ StartGrace \in Nat
      /\ row.expiresAt \in Nat
      /\ pc \in [Procs -> Labels] /\ st \in [Procs -> SessionState]
      /\ \A p \in Procs : st[p].expiresAt \in Nat
  <2>1. now' = now \/ now' = now + 1
    BY TimeSteps
  <2> QED
    BY <2>1, BudgetIsANumber, TimesAssumption DEF TypeOK, SessionState
<1>1. ASSUME row'.status # "none" PROVE row'.expiresAt <= now' + Budget + StartGrace
  <2>1. CASE row' = row
    BY <1>0, <1>1, <2>1 DEF TimesFit
  <2>2. ASSUME NEW p \in Procs, CreateRow(p), row' # row
        PROVE  row'.expiresAt <= now' + Budget + StartGrace
    BY <1>0, <2>2 DEF CreateRow, env
  <2>3. ASSUME NEW p \in Procs, BeginRow(p)
        PROVE  row'.expiresAt <= now' + Budget + StartGrace
    <3>1. row'.expiresAt = st[p].expiresAt /\ pc[p] = "begin_row"
      BY <2>3 DEF BeginRow, TypeOK
    <3>2. st[p].expiresAt <= now + Budget
      BY <3>1 DEF TimesFit
    <3> QED
      BY <1>0, <3>1, <3>2
  <2>4. ASSUME NEW p \in Procs, FinaliseRow(p)
        PROVE  row'.expiresAt <= now' + Budget + StartGrace
    <3>1. row'.expiresAt = row.expiresAt /\ row.status # "none"
      BY <2>4 DEF FinaliseRow, TypeOK, RowExists, BeforeRow
    <3> QED
      BY <1>0, <3>1 DEF TimesFit
  <2> QED
    BY <2>1, <2>2, <2>3, <2>4, DurableSteps
<1>2. ASSUME NEW p \in Procs, pc'[p] = "begin_row" PROVE st'[p].expiresAt <= now' + Budget
  <2>1. CASE pc'[p] = pc[p] /\ st'[p] = st[p]
    <3>1. st[p].expiresAt <= now + Budget
      BY <1>2, <2>1 DEF TimesFit
    <3> QED
      BY <1>0, <2>1, <3>1
  <2>2. CASE Step(p)
    <3>1. \A o : Entry(o) # "begin_row"
      BY DEF Entry
    <3>2. pc[p] = "begin"
      BY <1>0, <1>2, <2>2, <3>1, LabelGraph DEF GoesTo, StepAt, Labels
    <3>3. Begin(p)
      BY <2>2, <3>2, LabelGraph DEF StepAt
    <3>4. now' = now
      BY <3>3 DEF Begin, env
    <3>5. st'[p].expiresAt = now + Budget
      <4> DEFINE s == st[p]
                 started == [s EXCEPT !.mstat[s.idx] = "in_progress",
                                      !.deadline[s.idx] = now + TimeLimit[s.idx]]
      <4>1. [started EXCEPT !.expiresAt = now + Budget].expiresAt = now + Budget
        BY <1>0 DEF SessionState
      <4>2. \/ st' = [st EXCEPT ![p] = [started EXCEPT !.expiresAt = now + Budget]]
            \/ Goto(p, "begin_save") \/ Goto(p, "advance")
        BY <3>3 DEF Begin, Work
      <4> HIDE DEF started
      <4> QED
        BY <1>0, <1>2, <4>1, <4>2 DEF Goto
    <3> QED
      BY <1>0, <3>4, <3>5
  <2>3. CASE Request(p)
    <3>1. \A o : Entry(o) # "begin_row"
      BY DEF Entry
    <3> QED
      BY <1>0, <1>2, <2>3, <3>1 DEF Request, StartCheck, Load, Work, Goto
  <2>4. CASE Failure(p)
    BY <1>0, <1>2, <2>4 DEF Failure, Swallow, AfterSwallowed, Reject, End, Forget, Goto
  <2>5. CASE Restart
    BY <1>2, <2>5 DEF Restart
  <2>6. CASE JobFires \/ Sweep
    <3>1. pc'[p] = pc[p] /\ st'[p] = st[p]
      BY <1>0, <1>2, <2>6 DEF JobFires, Sweep, StartAuto, Goto
    <3> QED
      BY <2>1, <3>1
  <2> QED
    BY <2>1, <2>2, <2>3, <2>4, <2>5, <2>6, Movers
<1>3. ASSUME NEW p \in Procs, pc'[p] \in {"begin_unjob", "begin_job"}
      PROVE  row'.expiresAt <= now' + Budget
  <2>1. CASE pc[p] \in {"begin_unjob", "begin_job"}
    <3>1. row.expiresAt <= now + Budget /\ row.status # "none"
      BY <2>1 DEF TimesFit, RowExists, BeforeRow
    <3>2. row'.expiresAt = row.expiresAt
          \/ \E q \in Procs : pc[q] = "begin_row" /\ row'.expiresAt = st[q].expiresAt
      <4>1. ASSUME NEW q \in Procs, CreateRow(q) PROVE row' = row
        BY <3>1, <4>1 DEF CreateRow
      <4>2. ASSUME NEW q \in Procs, BeginRow(q)
            PROVE  pc[q] = "begin_row" /\ row'.expiresAt = st[q].expiresAt
        BY <4>2 DEF BeginRow, TypeOK
      <4>3. ASSUME NEW q \in Procs, FinaliseRow(q) PROVE row'.expiresAt = row.expiresAt
        BY <4>3 DEF FinaliseRow, TypeOK
      <4> QED
        BY <4>1, <4>2, <4>3, DurableSteps
    <3>3. row'.expiresAt <= now + Budget
      BY <3>1, <3>2 DEF TimesFit
    <3>4. row'.expiresAt \in Nat
      BY <1>0, <3>2
    <3> QED
      BY <1>0, <3>3, <3>4
  <2>2. CASE pc[p] \notin {"begin_unjob", "begin_job"} /\ Step(p)
    <3>1. \A o : Entry(o) \notin {"begin_unjob", "begin_job"}
      BY DEF Entry
    <3>2. pc[p] = "begin_row"
      BY <1>0, <1>3, <2>2, <3>1, LabelGraph DEF GoesTo, StepAt, Labels
    <3>3. BeginRow(p)
      BY <2>2, <3>2, LabelGraph DEF StepAt
    <3>4. row'.expiresAt = st[p].expiresAt /\ now' = now
      BY <3>3 DEF BeginRow, TypeOK, env
    <3>5. st[p].expiresAt <= now + Budget
      BY <3>2 DEF TimesFit
    <3> QED
      BY <3>4, <3>5
  <2>3. CASE Request(p)
    <3>1. \A o : Entry(o) \notin {"begin_unjob", "begin_job"}
      BY DEF Entry
    <3> QED
      BY <1>0, <1>3, <2>3, <3>1 DEF Request, StartCheck, Load, Work, Goto
  <2>4. CASE pc[p] \notin {"begin_unjob", "begin_job"} /\ Failure(p)
    BY <1>0, <1>3, <2>4 DEF Failure, Swallow, AfterSwallowed, Reject, End, Forget, Goto
  <2>5. CASE Restart
    BY <1>3, <2>5 DEF Restart
  <2>6. CASE JobFires \/ Sweep
    <3>1. pc'[p] = pc[p]
      BY <1>0, <1>3, <2>6 DEF JobFires, Sweep, StartAuto, Goto
    <3> QED
      BY <1>3, <2>1, <3>1
  <2> QED
    BY <1>3, <2>1, <2>2, <2>3, <2>4, <2>5, <2>6, Movers
<1> QED
  BY <1>1, <1>2, <1>3 DEF TimesFit

\* The worker's label falls back to idle only with its job gone.
LEMMA WorkerEnds ==
    ASSUME TypeOK, [Next]_vars, faults' = 0, pc[Worker] # "idle", pc'[Worker] = "idle"
    PROVE  Step(Worker) /\ job' = NoJob
BY FaultFree, StepOnJob DEF Procs

\* A restart without a failed call finds every process idle, and no job in the worker's hands.
LEMMA QuietRestart ==
    ASSUME TypeOK, JobFits, faults' = 0, Restart
    PROVE  job' = job
<1>1. faults \in Nat /\ Worker \in Procs
  BY DEF TypeOK, Procs
<1>2. pc[Worker] = "idle"
  BY <1>1 DEF Restart
<1> QED
  BY <1>2 DEF JobFits, Restart

LEMMA NextJobFits ==
    TypeOK /\ RowExists /\ BackgroundFits /\ JobFits /\ faults' = 0 /\ [Next]_vars => JobFits'
<1> SUFFICES ASSUME TypeOK, RowExists, BackgroundFits, JobFits, faults' = 0, [Next]_vars
             PROVE  JobFits'
  OBVIOUS
<1>0. /\ pc \in [Procs -> Labels] /\ Worker \in Procs
      /\ job.state \in {"none", "delayed", "active", "failed"}
      /\ \A due : JobAfterAdd(due).state = "delayed" \/ JobAfterAdd(due) = job
      /\ JobAfterRemove = NoJob \/ JobAfterRemove = job
      /\ NoJob.state = "none"
      /\ JobFires => job'.state = "active" /\ pc'[Worker] = "auto_row"
  BY DEF TypeOK, Procs, JobAfterAdd, JobAfterRemove, NoJob, JobFires, StartAuto, Goto
<1>1. Restart => job' = job
  BY QuietRestart
<1>2. \/ job' = job
      \/ job'.state \in {"none", "delayed"}
      \/ JobFires
  BY <1>0, <1>1, JobSteps
<1>3. job'.state # "failed"
  BY <1>0, <1>2 DEF JobFits
<1>4. ASSUME job'.state = "active" PROVE pc'[Worker] # "idle"
  BY <1>0, <1>2, <1>4, WorkerEnds DEF JobFits
<1>5. ASSUME row'.status = "none" PROVE job'.state = "none"
  <2>1. row.status = "none"
    BY <1>5, RowStays
  <2>2. job.state = "none"
    BY <2>1 DEF JobFits
  <2>3. ASSUME NEW p \in Procs, CreateJob(p) \/ BeginJob(p) PROVE FALSE
    BY <2>1, <2>3 DEF CreateJob, BeginJob, RowExists, BeforeRow
  <2>4. ~JobFires
    BY <2>2 DEF JobFires
  <2> QED
    BY <1>0, <1>1, <2>2, <2>3, <2>4, JobSteps
<1> QED
  BY <1>3, <1>4, <1>5 DEF JobFits

LEMMA NextJobDue ==
    TypeOK /\ RowExists /\ JobFits /\ TimesFit /\ JobDue /\ faults' = 0 /\ [Next]_vars
        => JobDue'
<1> SUFFICES ASSUME TypeOK, RowExists, JobFits, TimesFit, JobDue, faults' = 0, [Next]_vars,
                    job'.state = "delayed", row'.expiresAt > job'.due
             PROVE  \E p \in Procs : pc'[p] = "begin_unjob"
  BY DEF JobDue
<1>0. /\ now \in Nat /\ Budget \in Nat /\ StartGrace \in Nat
      /\ row.expiresAt \in Nat /\ job.due \in Nat
      /\ pc \in [Procs -> Labels]
      /\ NoJob.state = "none"
  BY BudgetIsANumber, TimesAssumption DEF TypeOK, NoJob
\* A job kept as it is.
<1>1. CASE job' = job
  <2>1. CASE row'.expiresAt = row.expiresAt
    <3>1. PICK p \in Procs : pc[p] = "begin_unjob"
      BY <1>1, <2>1 DEF JobDue
    <3>2. CASE Step(p)
      <4>1. BeginUnjob(p)
        BY <3>1, <3>2, LabelGraph DEF StepAt
      <4> QED
        BY <1>0, <4>1 DEF BeginUnjob, JobAfterRemove
    <3> QED
      BY <3>1, <3>2, FaultFree
  <2>2. ASSUME NEW p \in Procs, CreateRow(p), row' # row PROVE FALSE
    BY <1>1, <2>2 DEF CreateRow, JobFits
  <2>3. ASSUME NEW p \in Procs, BeginRow(p) PROVE pc'[p] = "begin_unjob"
    BY <1>0, <2>3 DEF BeginRow, Goto
  <2>4. ASSUME NEW p \in Procs, FinaliseRow(p) PROVE row'.expiresAt = row.expiresAt
    BY <2>4 DEF FinaliseRow, TypeOK
  <2> QED
    BY <2>1, <2>2, <2>3, <2>4, DurableSteps
\* A new job is due no earlier than the row's deadline.
<1>2. ASSUME NEW p \in Procs, CreateJob(p), job' # job,
             job' = JobAfterAdd(now + Budget + StartGrace)
      PROVE  FALSE
  <2>1. job'.due = now + Budget + StartGrace /\ row' = row
    BY <1>2 DEF CreateJob, JobAfterAdd, db
  <2>2. row.status # "none"
    BY <1>2 DEF CreateJob, RowExists, BeforeRow
  <2>3. row.expiresAt <= now + Budget + StartGrace
    BY <2>2 DEF TimesFit
  <2> QED
    BY <1>0, <2>1, <2>3
<1>3. ASSUME NEW p \in Procs, BeginJob(p), job' # job, job' = JobAfterAdd(now + Budget)
      PROVE  FALSE
  <2>1. job'.due = now + Budget /\ row' = row
    BY <1>3 DEF BeginJob, JobAfterAdd, db
  <2>2. row.expiresAt <= now + Budget
    BY <1>3 DEF TimesFit, BeginJob
  <2> QED
    BY <1>0, <2>1, <2>2
<1>4. job' = JobAfterRemove => job' = job
  BY <1>0 DEF JobAfterRemove
<1>5. ~JobFires
  BY <1>0 DEF JobFires, TypeOK
<1>6. Restart => job' = job
  BY QuietRestart
<1> QED
  BY <1>0, <1>1, <1>2, <1>3, <1>4, <1>5, <1>6, JobSteps

LEMMA NextJobNone ==
    ASSUME TypeOK, RowExists, BackgroundFits, ClosingFits, FinishedFits, JobNone,
           faults' = 0, [Next]_vars
    PROVE  JobNone'
<1> SUFFICES ASSUME Open', job'.state = "none"
             PROVE  \E p \in Procs : pc'[p] \in JobComing
  BY DEF JobNone
<1>0. /\ pc \in [Procs -> Labels] /\ Worker \in Procs
      /\ row.status \in {"none", "in_progress"} \cup Closed
      /\ job.state \in {"none", "delayed", "active", "failed"}
      /\ \A due : JobAfterAdd(due).state # "none"
  BY DEF TypeOK, Procs, JobAfterAdd
<1>1. ~IsClosed
  BY ClosedStays DEF IsClosed, Open, Closed
\* The process about to add a job, or to close the row, is still there.
<1>2. CASE Open /\ job.state = "none"
  <2>1. PICK p \in Procs : pc[p] \in JobComing
    BY <1>2 DEF JobNone
  <2>2. CASE Step(p)
    <3>1. StepAt(p) /\ GoesTo(p)
      BY <2>2, LabelGraph
    <3>2. ~CreateJob(p) /\ ~BeginJob(p)
      BY <1>0 DEF CreateJob, BeginJob
    <3>3. ~FinaliseRow(p)
      BY DEF FinaliseRow, TypeOK, Open, Closed
    <3> QED
      BY <2>1, <3>1, <3>2, <3>3 DEF StepAt, GoesTo, JobComing
  <2> QED
    BY <2>1, <2>2, FaultFree DEF JobComing
\* The job has just gone.
<1>3. CASE Open /\ job.state # "none"
  <2>1. ASSUME NEW p \in Procs, BeginUnjob(p) PROVE pc'[p] \in JobComing
    BY <1>0, <2>1 DEF BeginUnjob, Goto, JobComing
  <2>2. ASSUME NEW p \in Procs, FinaliseUnjob(p) PROVE FALSE
    BY <1>1, <2>2 DEF FinaliseUnjob, ClosingFits, ClosedLabels
  <2>3. ASSUME Step(Worker), pc'[Worker] = "idle"
        PROVE  \E p \in Procs : pc'[p] \in JobComing
    <3>1. StepAt(Worker) /\ GoesTo(Worker)
      BY <1>0, <2>3, LabelGraph
    <3>2. pc[Worker] \in AutoLabels /\ op[Worker] = "auto"
      BY <3>1 DEF BackgroundFits, StepAt
    <3>3. Entry("auto") = "finalize"
      BY DEF Entry
    <3>4. pc[Worker] \in {"auto_row", "finalize", "fin_report"}
      BY <2>3, <3>1, <3>2, <3>3 DEF GoesTo, AutoLabels
    <3>5. pc[Worker] # "fin_report"
      BY <1>0, <1>1 DEF ClosingFits, ClosedLabels
    <3>6. pc[Worker] # "auto_row"
      <4>1. ASSUME pc[Worker] = "auto_row" PROVE FALSE
        <5>1. AutoRow(Worker)
          BY <3>1, <4>1 DEF StepAt
        <5> QED
          BY <1>0, <1>3, <2>3, <5>1 DEF AutoRow, Open, Work, Goto
      <4> QED
        BY <4>1
    <3>7. FinaliseNoop(Worker)
      <4>1. FinaliseNoop(Worker) \/ FinaliseResult(Worker) \/ FinaliseSave(Worker)
        BY <3>1, <3>4, <3>5, <3>6 DEF StepAt
      <4> QED
        BY <1>0, <2>3, <4>1 DEF FinaliseResult, Finalising, FinaliseSave, Work, Goto
    <3>8. Ending
      BY <1>0, <3>7 DEF FinaliseNoop, FinishedFits
    <3>9. PICK p \in Procs : pc[p] = "fin_row"
      BY <1>1, <3>8 DEF Ending
    <3>10. p # Worker
      BY <3>9, <3>4
    <3>11. pc'[p] = pc[p]
      BY <1>0, <2>3, <3>10, StepIsLocal
    <3> QED
      BY <3>9, <3>11 DEF JobComing
  <2>4. ~JobFires
    BY DEF JobFires, TypeOK
  <2>5. ~Restart
    BY <1>3 DEF Restart, TypeOK
  <2> QED
    BY <1>0, <1>3, <2>1, <2>2, <2>3, <2>4, <2>5, JobSteps
\* The row has just been created.
<1>4. CASE ~Open
  <2>1. PICK p \in Procs : CreateRow(p) /\ row' # row
    <3>1. row' # row
      BY <1>4 DEF Open
    <3>2. ASSUME NEW p \in Procs, BeginRow(p) PROVE row'.status = row.status
      BY <3>2 DEF BeginRow, TypeOK
    <3>3. ASSUME NEW p \in Procs, FinaliseRow(p) PROVE FALSE
      BY <3>3 DEF FinaliseRow, TypeOK, Open, Closed
    <3> QED
      BY <1>4, <3>1, <3>2, <3>3, DurableSteps DEF Open
  <2>2. pc'[p] = "create_invite"
    BY <1>0, <2>1 DEF CreateRow, Work, Goto
  <2> QED
    BY <2>2 DEF JobComing
<1> QED
  BY <1>2, <1>3, <1>4

LEMMA InitWatched == Init => RowExists /\ Watched
<1> SUFFICES ASSUME Init PROVE RowExists /\ Watched
  OBVIOUS
<1>1. /\ Worker \in Procs /\ Sweeper \in Procs
      /\ Absent.status = "absent"
  BY DEF Procs, Absent, FreshState
<1>2. BackgroundFits /\ ClosingFits /\ RowExists
  BY <1>1 DEF Init, BackgroundFits, ClosingFits, ClosedLabels, RowExists, BeforeRow
<1>3. TimesFit /\ FinishedFits
  BY <1>1 DEF Init, TimesFit, FinishedFits
<1>4. JobFits /\ JobDue /\ JobNone
  BY DEF Init, JobFits, JobDue, JobNone, Open, NoJob
<1> QED
  BY <1>2, <1>3, <1>4 DEF Watched

LEMMA NextWatched == TypeOK /\ RowExists /\ Watched /\ [Next]_vars => (RowExists /\ Watched)'
<1> SUFFICES ASSUME TypeOK, RowExists, Watched, [Next]_vars PROVE (RowExists /\ Watched)'
  OBVIOUS
<1>1. RowExists' /\ BackgroundFits' /\ ClosingFits' /\ TimesFit'
  BY NextRowExists, NextBackground, NextClosing, NextTimes DEF Watched
<1>2. ASSUME faults' = 0 PROVE (FinishedFits /\ JobFits /\ JobDue /\ JobNone)'
  <2>1. faults = 0
    BY <1>2, FaultFree DEF Procs
  <2> QED
    BY <1>2, <2>1, NextFinished, NextJobFits, NextJobDue, NextJobNone DEF Watched
<1> QED
  BY <1>1, <1>2 DEF Watched

\* At rest, with no call failed, an open attempt has its auto-submit job, and the job is
\* due no earlier than the deadline the row states: Begin's remove-then-add, the loser of
\* a start and the worker's own end never leave the attempt without it.
THEOREM AttemptIsWatched == Spec => []OpenAttemptIsWatched
<1>1. TypeOK /\ Watched => OpenAttemptIsWatched
  <2> SUFFICES ASSUME TypeOK, Watched, Quiet, Open, faults = 0
               PROVE  job.state = "delayed" /\ row.expiresAt <= job.due
    BY DEF OpenAttemptIsWatched
  <2>1. /\ \A p \in Procs : pc[p] = "idle"
        /\ Worker \in Procs
    BY DEF Quiet, Procs
  <2>2. job.state = "delayed"
    BY <2>1 DEF Watched, JobFits, JobNone, JobComing, Quiet, TypeOK
  <2>3. ~(row.expiresAt > job.due)
    BY <2>1, <2>2 DEF Watched, JobDue
  <2> QED
    BY <2>2, <2>3 DEF TypeOK
<1> QED
  BY <1>1, InitWatched, NextWatched, TypeInvariant, PTL DEF Spec

=============================================================================
