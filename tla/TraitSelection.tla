--------------------------- MODULE TraitSelection ---------------------------
(***************************************************************************)
(* Which question a personality section asks next                          *)
(* (adaptive-engine/question-selector), and what its answer adds to the    *)
(* counts the next choice is made from (recordTraitAnswer, and the replay  *)
(* of the stored answers in sessions.service.ts).                          *)
(*                                                                         *)
(* A query is the set of the rows it may return: the shortlist of the      *)
(* least used five, and the random pick from it, are one choice from that  *)
(* set.  Visibility, pools and repeat probes are QuestionPool's and        *)
(* ProbePairs'; the cards here are what their conditions leave.            *)
(***************************************************************************)
EXTENDS Naturals, Sequences, FiniteSets

CONSTANTS
    Cards,          \* the servable questions of the section
    Catalogue,      \* the traits its module declares, in order
    Shapes,         \* the behavioural patterns, in order
    Likert,         \* the pattern of a legacy question: none
    ShapeOf,        \* the pattern of each card
    Says,           \* card -> for each of its options, the traits it weighs
    Enough,         \* TRAIT_TARGET_QUESTIONS
    PaperLength     \* questionCount

AnyTrait == "any trait"

ASSUME CardsAssumption ==
    /\ \A c \in Cards : ShapeOf[c] \in {Shapes[i] : i \in 1..Len(Shapes)} \cup {Likert}
    /\ \A c \in Cards : \A said \in Says[c] : said \subseteq {Catalogue[i] : i \in 1..Len(Catalogue)}
    /\ Likert \notin {Shapes[i] : i \in 1..Len(Shapes)}
    /\ AnyTrait \notin {Catalogue[i] : i \in 1..Len(Catalogue)}
    /\ Catalogue \in Seq({Catalogue[i] : i \in 1..Len(Catalogue)})
    /\ Shapes \in Seq({Shapes[i] : i \in 1..Len(Shapes)})
    /\ Len(Catalogue) > 0 /\ Len(Shapes) > 0
    /\ Enough \in Nat \ {0} /\ PaperLength \in Nat

CONSTANTS MaxGone, MaxRebuilds   \* bounds of the exploration

DeclaredTraits == {Catalogue[i] : i \in 1..Len(Catalogue)}
DeclaredShapes == {Shapes[i] : i \in 1..Len(Shapes)}

VARIABLES
    sheet,      \* the answers stored: card, the trait whose turn it was, whether
                \* the shape in turn could be had, the traits the answer moved
    asking,     \* the question on screen, in the same form; <<>> for none
    seenCards,  \* seenQuestionIds
    evidence,   \* trait -> traitTallies[trait].count
    shapeCount, \* patternCounts
    gone,       \* cards archived since
    ranDry,     \* the section ended for want of a question
    rebuilds

selection == <<sheet, asking, seenCards, evidence, shapeCount, gone, ranDry, rebuilds>>

SelectionInit ==
    /\ sheet = <<>> /\ asking = <<>> /\ seenCards = {}
    /\ evidence = [t \in DeclaredTraits |-> 0]
    /\ shapeCount = [s \in DeclaredShapes |-> 0]
    /\ gone = {} /\ ranDry = FALSE /\ rebuilds = 0

-----------------------------------------------------------------------------
(* QuestionSelectorService.                                                *)

\* The first of a list at which a count is least: ties keep the list's order.
FirstLeast(list, count) ==
    list[CHOOSE i \in 1..Len(list) :
            /\ \A j \in 1..Len(list) : count[list[i]] <= count[list[j]]
            /\ \A j \in 1..(i - 1) : count[list[i]] < count[list[j]]]

FirstNonEmpty(sets) ==
    IF \A i \in 1..Len(sets) : sets[i] = {} THEN {}
    ELSE sets[CHOOSE i \in 1..Len(sets) : sets[i] # {} /\ \A j \in 1..(i - 1) : sets[j] = {}]

\* traitConfidence, in answers: no more than Enough count.
Heard == [t \in DeclaredTraits |-> IF evidence[t] < Enough THEN evidence[t] ELSE Enough]

\* (mutant) Only the traits that have a tally compete.
LeastCoveredOfTallied ==
    IF \A t \in DeclaredTraits : evidence[t] = 0 THEN Catalogue[1]
    ELSE FirstLeast(Catalogue, [t \in DeclaredTraits |-> IF evidence[t] = 0 THEN Enough + 1 ELSE Heard[t]])

LeastCoveredTrait == FirstLeast(Catalogue, Heard)

LeastUsedPattern == FirstLeast(Shapes, shapeCount)

BaseQuery == Cards \ (gone \cup seenCards)

Weighs(c, t) == \E said \in Says[c] : t \in said

\* (mutant) The query forgets the trait it is for.
BehavioralQueryOfAny(t) == {c \in BaseQuery : ShapeOf[c] # Likert}

BehavioralQuery(t) ==
    {c \in BaseQuery : ShapeOf[c] # Likert /\ (t = AnyTrait \/ Weighs(c, t))}

PickBehavioral(t) ==
    FirstNonEmpty(<<{c \in BehavioralQuery(t) : ShapeOf[c] = LeastUsedPattern},
                    BehavioralQuery(t)>>)

PickLegacy ==
    LET legacy == {c \in BaseQuery : ShapeOf[c] = Likert}
    IN  FirstNonEmpty(<<{c \in legacy : Weighs(c, LeastCoveredTrait)}, legacy>>)

\* (mutant) The behavioural bank is all there is outside a legacy turn.
SelectTraitIdWithoutLastResort(legacyTurn) ==
    FirstNonEmpty((IF legacyTurn THEN <<PickLegacy>> ELSE <<>>)
                  \o <<PickBehavioral(LeastCoveredTrait), PickBehavioral(AnyTrait)>>)

\* What the section may ask next; one turn in twelve starts with the legacy
\* questions.
SelectTraitId(legacyTurn) ==
    FirstNonEmpty((IF legacyTurn THEN <<PickLegacy>> ELSE <<>>)
                  \o <<PickBehavioral(LeastCoveredTrait), PickBehavioral(AnyTrait), PickLegacy>>)

-----------------------------------------------------------------------------
(* The section.                                                            *)

SheetOpen == ~ranDry /\ Len(sheet) < PaperLength

\* Only the card and its answer are stored.  A row also remembers, not from the
\* card but from what the bank held for that turn, behavioural or legacy: the
\* trait whose turn it was, if a question about it could be had, and whether one
\* of the shape in turn could.
RowOf(c) ==
    LET alike == {o \in BaseQuery : (ShapeOf[o] = Likert) = (ShapeOf[c] = Likert)}
        about == {o \in alike : Weighs(o, LeastCoveredTrait)}
        offered == IF about # {} THEN about ELSE alike
    IN  [card |-> c,
         target |-> IF about # {} THEN LeastCoveredTrait ELSE AnyTrait,
         inTurn |-> \E o \in offered : ShapeOf[o] = LeastUsedPattern,
         moved |-> {}]

PutStatement ==
    /\ SheetOpen /\ asking = <<>>
    /\ \E legacyTurn \in BOOLEAN : \E c \in SelectTraitId(legacyTurn) :
         /\ asking' = <<RowOf(c)>>
         /\ seenCards' = seenCards \cup {c}
    /\ UNCHANGED <<sheet, evidence, shapeCount, gone, ranDry, rebuilds>>

RunDry ==
    /\ SheetOpen /\ asking = <<>>
    /\ \E legacyTurn \in BOOLEAN : SelectTraitId(legacyTurn) = {}
    /\ ranDry' = TRUE
    /\ UNCHANGED <<sheet, asking, seenCards, evidence, shapeCount, gone, rebuilds>>

\* The counts after one more row; a shape that was put counts, answered or not.
EvidenceWith(row) == [t \in DeclaredTraits |-> evidence[t] + (IF t \in row.moved THEN 1 ELSE 0)]

\* (mutant) A question the clock took away does not count for its shape.
ShapesWithAnswered(row) ==
    [s \in DeclaredShapes |->
        shapeCount[s] + (IF s = ShapeOf[row.card] /\ row.moved # {} THEN 1 ELSE 0)]

ShapesWith(row) ==
    [s \in DeclaredShapes |-> shapeCount[s] + (IF s = ShapeOf[row.card] THEN 1 ELSE 0)]

\* recordTraitAnswer: an option, or none when the clock ran out.
Reply ==
    /\ SheetOpen /\ asking # <<>>
    /\ \E moved \in Says[asking[1].card] \cup {{}} :
         LET row == [asking[1] EXCEPT !.moved = moved]
         IN  /\ sheet' = Append(sheet, row)
             /\ evidence' = EvidenceWith(row)
             /\ shapeCount' = ShapesWith(row)
    /\ asking' = <<>>
    /\ UNCHANGED <<seenCards, gone, ranDry, rebuilds>>

\* No card has two rows.
SheetRows == {sheet[i] : i \in 1..Len(sheet)}

\* Redis lost the attempt: the counts are taken from the stored answers, and the
\* question that was on screen is not among them.
RebuildSheet ==
    /\ SheetOpen /\ rebuilds < MaxRebuilds
    /\ asking' = <<>>
    /\ seenCards' = {row.card : row \in SheetRows}
    /\ evidence' = [t \in DeclaredTraits |-> Cardinality({row \in SheetRows : t \in row.moved})]
    /\ shapeCount' = [s \in DeclaredShapes |-> Cardinality({row \in SheetRows : ShapeOf[row.card] = s})]
    /\ rebuilds' = rebuilds + 1
    /\ UNCHANGED <<sheet, gone, ranDry>>

\* The company archives a question.
ArchiveCard(c) ==
    /\ c \notin gone /\ Cardinality(gone) < MaxGone
    /\ gone' = gone \cup {c}
    /\ UNCHANGED <<sheet, asking, seenCards, evidence, shapeCount, ranDry, rebuilds>>

SelectionNext == PutStatement \/ RunDry \/ Reply \/ RebuildSheet \/ \E c \in Cards : ArchiveCard(c)

SelectionSpec == SelectionInit /\ [][SelectionNext]_selection

-----------------------------------------------------------------------------
(* Properties.                                                             *)

\* "The trait we know least about, so coverage stays even however few questions
\* the candidate ends up answering" (selectTraitId): while every question that
\* could tell of the trait whose turn it was also got an answer about it, no
\* trait has another turn for which the bank held a question before every other
\* has been heard as often as it had turns, or often enough.  A rebuild does not
\* lose the turn.
TraitsTakeTurns ==
    LET Turns(t) == Cardinality({row \in SheetRows : row.target = t})
    IN  (\A row \in SheetRows : Weighs(row.card, row.target) => row.target \in row.moved) =>
            \A s, t \in DeclaredTraits : Turns(s) <= evidence[t] + 1 \/ evidence[t] >= Enough

\* "so a profile does not rest on one question shape" (selectTraitId): as long as
\* the shape whose turn it was could always be had, no shape is ahead of another
\* by more than one, questions the clock took away included.
ShapesTakeTurns ==
    LET Put(s) == Cardinality({row \in SheetRows : ShapeOf[row.card] = s})
    IN  (\A row \in SheetRows : row.inTurn \/ ShapeOf[row.card] = Likert) =>
            \A s, r \in DeclaredShapes : Put(s) <= Put(r) + 1

\* "Next question for a module, or null when its pool is exhausted" (selectNext):
\* a section that ends for want of a question has asked every one that was left,
\* of whatever trait and shape.
NothingLeftBehind == ranDry => BaseQuery = {}

\* The questions of a personality section are taken in turn, and none is left.
PaperIsEvenHanded == TraitsTakeTurns /\ ShapesTakeTurns /\ NothingLeftBehind

=============================================================================
