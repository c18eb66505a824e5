---------------------------- MODULE QuestionPool ----------------------------
(***************************************************************************)
(* The question bank that every company shares, the pool one company       *)
(* curates from it for an assessment, and an attempt that draws on the     *)
(* pool (backend/src/question-bank/: question-bank.service,                *)
(* question-visibility; assessments.service: setQuestionPool; the served   *)
(* question of sessions.service).                                          *)
(*                                                                         *)
(* A recruiter's call reads the question first and writes it afterwards.   *)
(* The assessment has one section, its questions are not twinned, and the  *)
(* choice among the questions a section may draw on is left open.          *)
(***************************************************************************)
EXTENDS Naturals, FiniteSets

CONSTANTS
    Companies, Platform,    \* who a question belongs to
    Recruiters, CompanyOf,  \* CompanyOf[r]: where recruiter r works
    Owner,                  \* the company of the assessment
    Shipped,                \* the starter bank
    Minted,                 \* the ids of questions made later, as many as are explored
    NoQuestion,             \* no question
    Length                  \* the length of the section

ASSUME CompaniesAssumption ==
    /\ Platform \notin Companies
    /\ Owner \in Companies
    /\ CompanyOf \in [Recruiters -> Companies]

ASSUME QuestionsAssumption ==
    /\ IsFiniteSet(Shipped) /\ IsFiniteSet(Minted)
    /\ Shipped \cap Minted = {}
    /\ NoQuestion \notin Shipped \cup Minted
    /\ Length \in Nat \ {0}

CONSTANTS           \* bounds of the exploration, not of the program
    MaxCalls,       \* calls of recruiters
    MaxLosses       \* times the live state is lost

ASSUME QuestionBoundsAssumption == {MaxCalls, MaxLosses} \subseteq Nat

Questions == Shipped \cup Minted

VARIABLES
    bank,           \* the questions table
    pool,           \* assessment_questions of the assessment: {} is no restriction
    call,           \* what each recruiter's request is about to write
    wanted,         \* the pool that passed its checks and is about to be stored
    live,           \* the live state of the attempt
    answered,       \* its rows in responses
    calls, losses,
    \* history
    overlapped,     \* whether two recruiters of a company ever had calls in flight together
    undisturbed     \* whether the bank has stood still since the pool was checked

attempt == <<live, answered>>
desk == <<bank, pool, call, wanted>>
questionVars == <<desk, attempt, calls, losses, overlapped, undisturbed>>

\* A row: active stands for the status, detailed for the mcq or personality details.
QuestionRows == [there: BOOLEAN, owner: Companies \cup {Platform}, active: BOOLEAN,
                 sample: BOOLEAN, parent: Shipped \cup {NoQuestion}, detailed: BOOLEAN]

NoRow == [there |-> FALSE, owner |-> Platform, active |-> FALSE, sample |-> FALSE,
          parent |-> NoQuestion, detailed |-> FALSE]

Calls == [op: {"none", "fork", "save", "delete"}, on: Questions \cup {NoQuestion},
          row: QuestionRows]
NoCall == [op |-> "none", on |-> NoQuestion, row |-> NoRow]

Pools == [asked: BOOLEAN, ids: SUBSET Questions, undisturbed: BOOLEAN]
NoPool == [asked |-> FALSE, ids |-> {}, undisturbed |-> TRUE]

\* The live state, and why the section ended; "drawing" stands for the request that has
\* chosen the id of the question to show and has yet to read its row.
Lives == [state: {"new", "open", "drawing", "full", "exhausted", "time"},
          restricted: BOOLEAN, showing: Questions \cup {NoQuestion}, seen: SUBSET Questions]

QuestionTypeOK ==
    /\ bank \in [Questions -> QuestionRows]
    /\ pool \subseteq Questions
    /\ call \in [Recruiters -> Calls]
    /\ wanted \in Pools
    /\ live \in Lives
    /\ answered \subseteq Questions
    /\ {calls, losses} \subseteq Nat
    /\ overlapped \in BOOLEAN
    /\ undisturbed \in BOOLEAN

ShippedRow == [there |-> TRUE, owner |-> Platform, active |-> TRUE, sample |-> FALSE,
               parent |-> NoQuestion, detailed |-> TRUE]

QuestionInit ==
    /\ bank = [q \in Questions |-> IF q \in Shipped THEN ShippedRow ELSE NoRow]
    /\ pool = {}
    /\ call = [r \in Recruiters |-> NoCall]
    /\ wanted = NoPool
    /\ live = [state |-> "new", restricted |-> FALSE, showing |-> NoQuestion, seen |-> {}]
    /\ answered = {}
    /\ calls = 0 /\ losses = 0
    /\ overlapped = FALSE
    /\ undisturbed = TRUE

-----------------------------------------------------------------------------
(* Who sees what.                                                          *)

\* Mutant of Visible: a fork hides its original from everyone.
VisibleUnlessForked(q, c) ==
    /\ bank[q].there
    /\ \/ bank[q].owner = c
       \/ /\ bank[q].owner = Platform
          /\ ~\E f \in Questions: bank[f].there /\ bank[f].parent = q

\* QUESTION_VISIBLE_TO_ORG: its own questions, and the platform's that it has not forked.
Visible(q, c) ==
    /\ bank[q].there
    /\ \/ bank[q].owner = c
       \/ /\ bank[q].owner = Platform
          /\ ~\E f \in Questions: bank[f].there /\ bank[f].parent = q /\ bank[f].owner = c

\* baseQuery: what a section of the company's assessment may draw on.
Servable(q) == Visible(q, Owner) /\ bank[q].active /\ ~bank[q].sample /\ bank[q].detailed

-----------------------------------------------------------------------------
(* The bank.                                                               *)

Idle(r) == call[r].op = "none"

Busy(c) == {r \in Recruiters: CompanyOf[r] = c /\ ~Idle(r)}

Ask(r, op, q, row) ==
    /\ Idle(r)
    /\ calls < MaxCalls
    /\ calls' = calls + 1
    /\ call' = [call EXCEPT ![r] = [op |-> op, on |-> q, row |-> row]]
    /\ overlapped' = (overlapped \/ Busy(CompanyOf[r]) # {})
    /\ UNCHANGED <<bank, pool, wanted, attempt, losses, undisturbed>>

\* Mutant of Edit: only a rewording is forked, and a change of status saved in place.
EditStatusInPlace(r, q, isActive, isSample) ==
    /\ Visible(q, CompanyOf[r])
    /\ IF bank[q].owner = Platform /\ isActive = bank[q].active
       THEN Ask(r, "fork", q, [there |-> TRUE, owner |-> CompanyOf[r], active |-> isActive,
                               sample |-> isSample, parent |-> q, detailed |-> bank[q].detailed])
       ELSE Ask(r, "save", q, [there |-> TRUE, owner |-> bank[q].owner, active |-> isActive,
                               sample |-> isSample, parent |-> bank[q].parent,
                               detailed |-> bank[q].detailed])

\* update and setStatus: the question is found, and the patch applied to the copy.  A
\* platform question is to be forked.
Edit(r, q, isActive, isSample) ==
    /\ Visible(q, CompanyOf[r])
    /\ IF bank[q].owner = Platform
       THEN Ask(r, "fork", q, [there |-> TRUE, owner |-> CompanyOf[r], active |-> isActive,
                               sample |-> isSample, parent |-> q, detailed |-> bank[q].detailed])
       ELSE Ask(r, "save", q, [there |-> TRUE, owner |-> bank[q].owner, active |-> isActive,
                               sample |-> isSample, parent |-> bank[q].parent,
                               detailed |-> bank[q].detailed])

\* remove: refused for a platform question, and for one that was ever answered.
Remove(r, q) ==
    /\ Visible(q, CompanyOf[r])
    /\ bank[q].owner # Platform
    /\ q \notin answered
    /\ Ask(r, "delete", q, NoRow)

Done(r) ==
    /\ call' = [call EXCEPT ![r] = NoCall]
    /\ UNCHANGED <<attempt, calls, losses, overlapped>>

Write(q, row) ==
    /\ bank' = [bank EXCEPT ![q] = row]
    /\ undisturbed' = FALSE
    /\ wanted' = [asked |-> wanted.asked, ids |-> wanted.ids, undisturbed |-> FALSE]

\* Whether an id is free. Ids are uuids, so the one a deleted question had, or one that a
\* stale call is about to write back, is not drawn again.
Unused(q) ==
    /\ ~bank[q].there
    /\ q \notin live.seen \cup wanted.ids
    /\ \A r \in Recruiters: call[r].on # q

\* create: an authored question belongs to its company.
Author(r, q, isActive, isSample) ==
    /\ Idle(r) /\ Unused(q)
    /\ calls < MaxCalls
    /\ calls' = calls + 1
    /\ Write(q, [there |-> TRUE, owner |-> CompanyOf[r], active |-> isActive,
                 sample |-> isSample, parent |-> NoQuestion, detailed |-> TRUE])
    /\ UNCHANGED <<pool, call, attempt, losses, overlapped>>

\* forkPlatformQuestion.
Fork(r, q) ==
    /\ call[r].op = "fork" /\ Unused(q)
    /\ Write(q, call[r].row)
    /\ Done(r)
    /\ UNCHANGED pool

\* The save of the copy: an update, or an insert, without the details, if the question was
\* deleted meanwhile.
Save(r) ==
    LET c == call[r]
    IN  /\ c.op = "save"
        /\ Write(c.on, [there |-> TRUE, owner |-> c.row.owner, active |-> c.row.active,
                        sample |-> c.row.sample, parent |-> c.row.parent,
                        detailed |-> bank[c.on].detailed])
        /\ Done(r)
        /\ UNCHANGED pool

\* Mutant of Delete: nothing but the count that was read stands in the way.
DeleteCounted(r) ==
    /\ call[r].op = "delete"
    /\ Write(call[r].on, NoRow)
    /\ pool' = pool \ {call[r].on}
    /\ Done(r)

\* The delete: the database refuses it when an answer points at the question, and takes the
\* question out of every pool.
Delete(r) ==
    /\ call[r].op = "delete"
    /\ IF call[r].on \in answered
       THEN UNCHANGED <<bank, pool, wanted, undisturbed>>
       ELSE Write(call[r].on, NoRow) /\ pool' = pool \ {call[r].on}
    /\ Done(r)

-----------------------------------------------------------------------------
(* The pool.                                                               *)

\* Mutant of Usable: questions that are not active count too.
UsableWithDrafts(ids) ==
    /\ \A q \in ids: Visible(q, Owner) /\ ~bank[q].sample
    /\ Cardinality(ids) >= Length

\* Mutant of Usable: the ids are taken from the client as they are.
UsableByAnyone(ids) ==
    /\ \A q \in ids: bank[q].there /\ ~bank[q].sample
    /\ Cardinality({q \in ids: bank[q].active}) >= Length

\* assertPoolIsUsable: all visible and none for practice, and enough of them active.
Usable(ids) ==
    /\ \A q \in ids: Visible(q, Owner) /\ ~bank[q].sample
    /\ Cardinality({q \in ids: bank[q].active}) >= Length

\* The attempt below has chosen a question by its id.
Drawing == live.state = "drawing"

\* setQuestionPool, and create with a pool: the checks. An empty pool passes.
CheckPool(ids) ==
    /\ ~wanted.asked
    /\ ids = {} \/ Usable(ids)
    /\ calls < MaxCalls
    /\ calls' = calls + 1
    /\ wanted' = [asked |-> TRUE, ids |-> ids, undisturbed |-> TRUE]
    /\ UNCHANGED <<bank, pool, call, attempt, losses, overlapped, undisturbed>>

\* The replacement, refused as a whole if a question is gone.  A question that was deleted
\* while an attempt was drawing it remains a disturbance.
StorePool ==
    /\ wanted.asked
    /\ IF \A q \in wanted.ids: bank[q].there
       THEN /\ pool' = wanted.ids
            /\ undisturbed' = (wanted.undisturbed /\ (Drawing => bank[live.showing].there))
       ELSE UNCHANGED <<pool, undisturbed>>
    /\ wanted' = NoPool
    /\ UNCHANGED <<bank, call, attempt, calls, losses, overlapped>>

-----------------------------------------------------------------------------
(* The attempt.                                                            *)

Sitting == live.state = "open"

Becomes(state, showing, seen) ==
    live' = [state |-> state, restricted |-> live.restricted, showing |-> showing,
             seen |-> seen]

OnlyAttempt == UNCHANGED <<desk, calls, losses, overlapped, undisturbed>>

\* createSession: whether the section keeps to the pool is settled now.
Start ==
    /\ live.state = "new"
    /\ live' = [state |-> "open", restricted |-> pool # {}, showing |-> NoQuestion, seen |-> {}]
    /\ UNCHANGED answered
    /\ OnlyAttempt

Drawable == {q \in Questions \ live.seen: Servable(q) /\ (live.restricted => q \in pool)}

\* nextStep and selectNext: the section is a fixed length, and ends early when the query for
\* the id of one more question finds none.
Draw ==
    /\ Sitting /\ live.showing = NoQuestion
    /\ \/ /\ Cardinality(answered) >= Length
          /\ Becomes("full", NoQuestion, live.seen)
       \/ /\ Cardinality(answered) < Length
          /\ Drawable = {}
          /\ Becomes("exhausted", NoQuestion, live.seen)
       \/ /\ Cardinality(answered) < Length
          /\ \E q \in Drawable: Becomes("drawing", q, live.seen \cup {q})
    /\ UNCHANGED answered
    /\ OnlyAttempt

\* The question is then read by its id alone, whatever has become of it; if it is gone,
\* nextStep takes the bank to have run dry.
ReadDrawn ==
    /\ Drawing
    /\ IF bank[live.showing].there
       THEN Becomes("open", live.showing, live.seen)
       ELSE Becomes("exhausted", NoQuestion, live.seen \ {live.showing})
    /\ UNCHANGED answered
    /\ OnlyAttempt

\* loadServedQuestion: anything done with a question that is gone ends in a 404.
OnScreen == live.showing # NoQuestion /\ bank[live.showing].there

Respond ==
    /\ Sitting /\ OnScreen
    /\ answered' = answered \cup {live.showing}
    /\ Becomes("open", NoQuestion, live.seen)
    /\ OnlyAttempt

\* The clock of the section: what is on screen is loaded too, and scored as unanswered.
SectionTimeUp ==
    /\ Sitting
    /\ live.showing = NoQuestion \/ OnScreen
    /\ answered' = answered \cup ({live.showing} \ {NoQuestion})
    /\ Becomes("time", NoQuestion, live.seen)
    /\ OnlyAttempt

\* The clock of the attempt: finalize loads nothing.  (What a request that is drawing then
\* saves over it is SessionRuntime's subject.)
AutoSubmit ==
    /\ Sitting \/ Drawing
    /\ Becomes("time", NoQuestion, live.seen)
    /\ UNCHANGED answered
    /\ OnlyAttempt

\* rehydrate: rebuilt from the answers, and from the pool as it is now.  A loss while a
\* request is drawing goes unnoticed, since that request saves the state it holds.
Rehydrate ==
    /\ Sitting
    /\ losses < MaxLosses
    /\ losses' = losses + 1
    /\ live' = [state |-> "open", restricted |-> pool # {}, showing |-> NoQuestion,
                seen |-> answered]
    /\ UNCHANGED <<desk, answered, calls, overlapped, undisturbed>>

Clerk(r) ==
    \/ \E q \in Questions, isActive, isSample \in BOOLEAN:
        Edit(r, q, isActive, isSample) \/ Author(r, q, isActive, isSample)
    \/ \E q \in Questions: Remove(r, q) \/ Fork(r, q)
    \/ Save(r)
    \/ Delete(r)

QuestionNext ==
    \/ \E r \in Recruiters: Clerk(r)
    \/ \E ids \in SUBSET Questions: CheckPool(ids)
    \/ StorePool
    \/ Start \/ Draw \/ ReadDrawn \/ Respond \/ SectionTimeUp \/ AutoSubmit \/ Rehydrate

QuestionSpec == QuestionInit /\ [][QuestionNext]_questionVars

-----------------------------------------------------------------------------
\* What a company sees of the bank.
View(c) == {<<q, bank[q]>>: q \in {x \in Questions: Visible(x, c)}}

(***************************************************************************)
(* "While every other organisation keeps it": whatever a recruiter does to *)
(* a question, shipped or not, and whenever the copy it goes by was read,  *)
(* only the recruiter's own company sees another bank, and nothing but a   *)
(* recruiter's call changes what a company sees.                           *)
(***************************************************************************)
OtherCompaniesKeepTheirs ==
    [][\A c \in Companies: View(c)' # View(c) =>
        /\ \E r \in Recruiters: Clerk(r)
        /\ \A r \in Recruiters: Clerk(r) => CompanyOf[r] = c]_questionVars

Versions(c, s) == {q \in Questions: Visible(q, c) /\ (q = s \/ bank[q].parent = s)}

(***************************************************************************)
(* A company always sees some version of every shipped question, its own   *)
(* or the platform's, through every fork and every deletion of a fork; and *)
(* never two of them, unless two of its recruiters' calls overlapped.      *)
(***************************************************************************)
OneVersionEach ==
    \A c \in Companies, s \in Shipped:
        /\ Versions(c, s) # {}
        /\ ~overlapped => \A p, q \in Versions(c, s): p = q

(***************************************************************************)
(* remove counts the answers and deletes later: an answer that arrives in  *)
(* between still keeps its question, and so does every stored result.      *)
(***************************************************************************)
AnswersKeepTheirQuestion == \A q \in answered: bank[q].there

(***************************************************************************)
(* A pool is "a list of ids supplied by the client", checked before it is  *)
(* stored: no pool, and no attempt, ever comes by another company's        *)
(* question, whatever happens to the bank around it.                       *)
(***************************************************************************)
NothingOfAnothers ==
    /\ \A q \in pool: bank[q].there
    /\ \A q \in pool \cup live.seen: bank[q].there => bank[q].owner \in {Owner, Platform}

(***************************************************************************)
(* assertPoolIsUsable exists so that no attempt ends early for a pool that *)
(* was too thin: one that keeps to a pool still as it was checked runs its *)
(* length, also when the pool is replaced, or the live state lost, half    *)
(* way.  (A question that a stale save wrote back has no details.)         *)
(***************************************************************************)
CuratedRunsFull ==
    [][ /\ Sitting \/ Drawing
        /\ live'.state = "exhausted"
        /\ live.restricted /\ pool # {} /\ \A q \in pool: bank[q].detailed
        => ~undisturbed ]_questionVars

(***************************************************************************)
(* "The fork then replaces the original wherever that organisation looks - *)
(* its bank, and the questions its candidates are served"                  *)
(* (question.entity.ts:116): a fork stands in every pool that its original *)
(* stood in.                                                               *)
(***************************************************************************)
ForkKeepsItsPlace ==
    \A f \in Questions:
        bank[f].there /\ bank[f].owner = Owner /\ bank[f].parent \in pool => f \in pool

=============================================================================
