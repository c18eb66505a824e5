----------------------------- MODULE ProbePairs -----------------------------
(***************************************************************************)
(* Repeat probes in one module of one attempt: the engine asks the same    *)
(* thing twice, reworded and far enough apart, and compares the answers    *)
(* (backend/src/adaptive-engine/: consistency-probe, question-selector,    *)
(* stopping-engine, adaptive-engine.service; and the replay of the answers *)
(* in sessions.service.ts when the live state was lost).                   *)
(*                                                                         *)
(* Difficulty and trait matching are a choice among the questions the      *)
(* selector's base query leaves: every rule about twins is in the query.   *)
(***************************************************************************)
EXTENDS Naturals, Sequences, FiniteSets, Functions

CONSTANTS
    Bank,           \* the servable questions of the module
    Groups, Plain,  \* the probe groups, and the group of a question that has none
    Group,          \* probeGroup of each question
    Nothing,        \* no question
    Gap,            \* PROBE_GAP_QUESTIONS
    MaxPairs,       \* PROBE_MAX_PAIRS
    QuestionCount   \* the length of the section

ASSUME BankAssumption ==
    /\ IsFiniteSet(Bank)
    /\ Plain \notin Groups
    /\ Group \in [Bank -> Groups \cup {Plain}]
    /\ Nothing \notin Bank

ASSUME LengthAssumption ==
    /\ {Gap, MaxPairs} \subseteq Nat
    /\ QuestionCount \in Nat \ {0}

CONSTANTS           \* bounds of the exploration, not of the program
    MaxEvictions, MaxArchived

ASSUME BoundsAssumption == {MaxEvictions, MaxArchived} \subseteq Nat

VARIABLES
    run,            \* the live state of the module: see Runs
    showing,        \* the question on screen
    over,           \* the module has been closed
    answers,        \* its rows in responses
    archived,       \* questions no longer active
    evictions

vars == <<run, showing, over, answers, archived, evictions>>

\* A pair: its group, the question that opened it and the count of answers when it did, and
\* the twin that closed it.  A pair with an unanswered half is uncomparable.
Pairs == [group: Groups, first: Bank, at: Nat, second: Bank \cup {Nothing},
          compared: BOOLEAN]

Runs == [answered: Nat, seen: SUBSET Bank, served: SUBSET Groups, probes: Seq(Pairs)]

Answers == Seq([question: Bank, chosen: BOOLEAN])

TypeOK ==
    /\ run \in Runs
    /\ showing \in Bank \cup {Nothing}
    /\ over \in BOOLEAN
    /\ answers \in Answers
    /\ archived \subseteq Bank
    /\ evictions \in 0..MaxEvictions

\* createModuleState.
Fresh == [answered |-> 0, seen |-> {}, served |-> {}, probes |-> <<>>]

Init ==
    /\ run = Fresh
    /\ showing = Nothing
    /\ over = FALSE
    /\ answers = <<>>
    /\ archived = {}
    /\ evictions = 0

-----------------------------------------------------------------------------
(* The consistency probe.                                                  *)

Open(pair) == pair.second = Nothing

Waited(r, pair) == r.answered >= pair.at + Gap

\* dueTwin: the group of the longest-waiting open pair whose gap has passed.
Due(r) == {i \in 1..Len(r.probes): Open(r.probes[i]) /\ Waited(r, r.probes[i])}

DueGroup(r) ==
    {r.probes[i].group: i \in {j \in Due(r): \A k \in Due(r): j <= k}}

\* blockedGroups: every group touched, but for the one whose twin is due.
Touched(r) == r.served \cup {r.probes[i].group: i \in 1..Len(r.probes)}

\* Mutant of Blocked: the twin of an open pair is let through before its gap has passed.
BlockedUnlessOpen(r) ==
    Touched(r) \ {r.probes[i].group: i \in {j \in 1..Len(r.probes): Open(r.probes[j])}}

Blocked(r) == Touched(r) \ DueGroup(r)

\* Mutant of CanOpenPair: no room is left for the twin.
CanOpenPairLate(r) ==
    /\ Len(r.probes) < MaxPairs
    /\ r.answered + Gap <= QuestionCount

\* canOpenPair: within the quota, and with room for the gap and the twin.
CanOpenPair(r) ==
    /\ Len(r.probes) < MaxPairs
    /\ r.answered + Gap < QuestionCount

WantsNewPair(r) == CanOpenPair(r) /\ \A i \in 1..Len(r.probes): ~Open(r.probes[i])

\* Folding one answer into the pairs, the answer already counted: it closes the open pair of
\* its group or, if a choice was made and a pair may be opened, opens one.
WithAnswer(r, g, q, chosen) ==
    IF \E i \in 1..Len(r.probes): r.probes[i].group = g /\ Open(r.probes[i])
    THEN [i \in 1..Len(r.probes) |->
            IF r.probes[i].group = g /\ Open(r.probes[i])
            THEN [group |-> g, first |-> r.probes[i].first, at |-> r.probes[i].at,
                  second |-> q, compared |-> chosen]
            ELSE r.probes[i]]
    ELSE IF chosen /\ CanOpenPair(r)
    THEN Append(r.probes, [group |-> g, first |-> q, at |-> r.answered,
                           second |-> Nothing, compared |-> FALSE])
    ELSE r.probes

Counted(r) == [answered |-> r.answered + 1, seen |-> r.seen, served |-> r.served,
               probes |-> r.probes]

\* recordAnswer, as far as the probes go.
Recorded(r, q, chosen) ==
    LET c == Counted(r)
    IN  [answered |-> c.answered, seen |-> c.seen, served |-> c.served,
         probes |-> IF Group[q] = Plain THEN c.probes ELSE WithAnswer(c, Group[q], q, chosen)]

\* seenQuestionIds and markProbeServed.
Shown(r, q) ==
    [answered |-> r.answered, seen |-> r.seen \cup {q},
     served |-> r.served \cup ({Group[q]} \ {Plain}), probes |-> r.probes]

-----------------------------------------------------------------------------
(* The selector.                                                           *)

\* baseQuery: active, not seen, and in no blocked group.
Base(r) == {q \in Bank \ (archived \cup r.seen): Group[q] \notin Blocked(r)}

Twins(r) == {q \in Base(r): Group[q] \in DueGroup(r)}

Openers(r) == IF WantsNewPair(r) THEN {q \in Base(r): Group[q] # Plain} ELSE {}

\* selectNext: a due twin, else a question that opens a pair, else any.
Candidates(r) ==
    IF Twins(r) # {} THEN Twins(r)
    ELSE IF Openers(r) # {} THEN Openers(r)
    ELSE Base(r)

-----------------------------------------------------------------------------
(* One module of the attempt.                                              *)

\* nextStep: the section is a fixed length, and ends early only when its pool is dry.
Serve ==
    /\ ~over /\ showing = Nothing
    /\ IF run.answered >= QuestionCount \/ Candidates(run) = {}
       THEN over' = TRUE /\ UNCHANGED <<run, showing>>
       ELSE /\ \E q \in Candidates(run): showing' = q /\ run' = Shown(run, q)
            /\ UNCHANGED over
    /\ UNCHANGED <<answers, archived, evictions>>

Answer(chosen) ==
    /\ ~over /\ showing # Nothing
    /\ run' = Recorded(run, showing, chosen)
    /\ answers' = Append(answers, [question |-> showing, chosen |-> chosen])
    /\ showing' = Nothing
    /\ UNCHANGED <<over, archived, evictions>>

\* The clock of the section: what is on screen is scored as unanswered.
TimeUp ==
    /\ ~over
    /\ over' = TRUE
    /\ IF showing = Nothing THEN UNCHANGED <<run, answers, showing>>
       ELSE /\ run' = Recorded(run, showing, FALSE)
            /\ answers' = Append(answers, [question |-> showing, chosen |-> FALSE])
            /\ showing' = Nothing
    /\ UNCHANGED <<archived, evictions>>

\* A question leaves the bank, for good.
Archive(q) ==
    /\ q \notin archived /\ Cardinality(archived) < MaxArchived
    /\ archived' = archived \cup {q}
    /\ UNCHANGED <<run, showing, over, answers, evictions>>

\* Mutant of Replayed: the group of a replayed answer is not marked as served.
ReplayedUnmarked(r, answer) ==
    [Recorded(r, answer.question, answer.chosen) EXCEPT !.seen = r.seen \cup {answer.question}]

\* One stored answer replayed: seen and served as when it was shown, then recorded.
Replayed(r, answer) == Recorded(Shown(r, answer.question), answer.question, answer.chosen)

Rebuilt(rows) ==
    LET after[n \in 0..Len(rows)] == IF n = 0 THEN Fresh ELSE Replayed(after[n - 1], rows[n])
    IN  after[Len(rows)]

\* The live state is lost and rebuilt from the answers; what was on screen is forgotten.
Evict ==
    /\ ~over /\ evictions < MaxEvictions
    /\ evictions' = evictions + 1
    /\ run' = Rebuilt(answers)
    /\ showing' = Nothing
    /\ UNCHANGED <<over, answers, archived>>

Next ==
    \/ Serve
    \/ \E chosen \in BOOLEAN: Answer(chosen)
    \/ TimeUp
    \/ \E q \in Bank: Archive(q)
    \/ Evict

Spec == Init /\ [][Next]_vars

-----------------------------------------------------------------------------
GroupAt(i) == Group[answers[i].question]

(***************************************************************************)
(* A candidate who is asked the same thing again has answered at least Gap *)
(* other questions in between, is never asked it a third time, and is      *)
(* compared only on two answers that were both given - with or without an  *)
(* eviction in between.                                                    *)
(***************************************************************************)
TwinsStayApart ==
    /\ \A i, j \in 1..Len(answers): i < j /\ GroupAt(i) = GroupAt(j) /\ GroupAt(i) # Plain =>
        /\ j > i + Gap
        /\ \E p \in Range(run.probes):
            /\ p.at = i
            /\ p.first = answers[i].question
            /\ p.second = answers[j].question
            /\ p.compared = (answers[i].chosen /\ answers[j].chosen)
    /\ \A i, j, k \in 1..Len(answers): i < j /\ j < k /\ GroupAt(i) # Plain =>
        ~(GroupAt(i) = GroupAt(j) /\ GroupAt(j) = GroupAt(k))

\* Every twin of an open pair has left the bank.
Withdrawn(pair) ==
    \A q \in Bank \ archived:
        Group[q] = pair.group => \E i \in 1..Len(answers): answers[i].question = q

(***************************************************************************)
(* A pair is never opened for nothing.  When a section has run its length, *)
(* every pair it opened was closed, but for one whose twin was withdrawn   *)
(* and those opened after it: the selector waits for the longest-waiting   *)
(* pair, and while that one cannot be served the others are not either.    *)
(***************************************************************************)
PairsClose ==
    run.answered = QuestionCount =>
        \A i \in 1..Len(run.probes): Open(run.probes[i]) =>
            \E j \in 1..i: Open(run.probes[j]) /\ Withdrawn(run.probes[j])

(***************************************************************************)
(* Losing the live state loses nothing about the probes: at every moment   *)
(* the answers alone give the count, the pairs and, with the question on   *)
(* screen, what the selector must keep away from.                          *)
(***************************************************************************)
ProbesAreReplayed ==
    run = IF showing = Nothing THEN Rebuilt(answers) ELSE Shown(Rebuilt(answers), showing)

\* The three together: every pair is opened, kept apart, closed and remembered
\* as it should be.
PairsAreSound == TwinsStayApart /\ PairsClose /\ ProbesAreReplayed

==============================================================================
