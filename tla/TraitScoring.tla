---------------------------- MODULE TraitScoring ----------------------------
(***************************************************************************)
(* What an answer to a personality question adds to each trait, and what   *)
(* the sums come to on the reporting scale: evaluation.service.ts, the     *)
(* trait half of ability-estimator.service.ts, and the replay of stored    *)
(* answers when Redis has lost the attempt (sessions.service.ts).          *)
(*                                                                         *)
(* Fractions are exact here: a weight of one counts Unit, so that the      *)
(* factors of a ranking of up to six, averaged over the options that name  *)
(* a trait, are whole numbers, and so is a mean over the options.  Scores  *)
(* are in tenths and confidences in hundredths, as the code rounds them.   *)
(***************************************************************************)
EXTENDS Rounding, Sequences, FiniteSets, Functions, FiniteSetsExt

CONSTANTS
    Traits,             \* the keys the module declares
    Editions,           \* question -> the versions its owner may give it
    MaxAnswers          \* bound: answers of one attempt

Items == DOMAIN Editions

\* PERSONALITY_MIN_OPTIONS and MAX_OPTIONS.
MinOptions == 2
MaxOptions == 6

\* A version: whether it is ranked, and what each option says of which traits.
EditionOK(e) ==
    /\ e.ranked \in BOOLEAN
    /\ IsFiniteSet(DOMAIN e.options)
    /\ Cardinality(DOMAIN e.options) \in MinOptions .. MaxOptions
    /\ \A o \in DOMAIN e.options :
         /\ DOMAIN e.options[o] \subseteq Traits
         /\ \A t \in DOMAIN e.options[o] : e.options[o][t] \in -3 .. 3

ASSUME ScoringAssumption ==
    /\ MaxAnswers \in Nat
    /\ IsFiniteSet(Items)
    /\ \A q \in Items :
         /\ Editions[q] \in Seq({Editions[q][i] : i \in DOMAIN Editions[q]}) \ {<<>>}
         /\ \A i \in DOMAIN Editions[q] : EditionOK(Editions[q][i])

Unit == 3600

VARIABLES
    edition,    \* question -> the index of its present version
    rows,       \* candidate_responses, in the order of their sequence numbers
    tallies,    \* traitTallies of the live state
    stale       \* history: questions edited after they were answered

scoring == <<edition, rows, tallies, stale>>

Details(q) == Editions[q][edition[q]]

-----------------------------------------------------------------------------
(* EvaluationService.                                                      *)

SingleChoices(e) == {[kind |-> "choice", option |-> o] : o \in DOMAIN e.options}

Rankings(e) ==
    LET n == Cardinality(DOMAIN e.options)
    IN  {[kind |-> "ranking", position |-> p] : p \in Bijection(DOMAIN e.options, 0 .. n - 1)}

Unanswered == [kind |-> "unanswered"]

AnswersAs(form, e) == IF form = "ranking" THEN Rankings(e) ELSE SingleChoices(e)

Kind(e) == IF e.ranked THEN "ranking" ELSE "choice"

\* Only the traits the chosen option mentions.
EvaluatePersonality(e, option) ==
    [t \in DOMAIN e.options[option] |-> Unit * e.options[option][t]]

\* Full strength at the top, negated at the bottom, averaged over the options
\* that mention the trait.
EvaluateRanking(e, position) ==
    LET n == Cardinality(DOMAIN e.options)
        Naming(t) == {o \in DOMAIN e.options : t \in DOMAIN e.options[o]}
        Placed(t, o) == e.options[o][t] * (n - 1 - 2 * position[o])
    IN  [t \in UNION {DOMAIN e.options[o] : o \in DOMAIN e.options} |->
            (Unit * SumFunction([o \in Naming(t) |-> Placed(t, o)]))
                \div ((n - 1) * Cardinality(Naming(t)))]

Evaluate(e, answer) ==
    IF answer.kind = "ranking" THEN EvaluateRanking(e, answer.position)
    ELSE EvaluatePersonality(e, answer.option)

\* An outcome that does not mention the trait adds nothing to it.
ValueFor(t, weights) == IF t \in DOMAIN weights THEN weights[t] ELSE 0

Versions ==
    UNION {{<<q, i, form>> : i \in DOMAIN Editions[q], form \in {"choice", "ranking"}} : q \in Items}
Version(v) == Editions[v[1]][v[2]]
Mentioned(e) == UNION {DOMAIN e.options[o] : o \in DOMAIN e.options}

\* What an answer to a version of a question adds to each trait it could express.
OutcomesOf(v, a) ==
    LET weights == Evaluate(Version(v), a)
    IN  {[version |-> v, trait |-> t, answer |-> a, value |-> ValueFor(t, weights)] :
            t \in Mentioned(Version(v))}

\* Every answer the candidate could give, by the evaluators above.
Outcomes == UNION {UNION {OutcomesOf(v, a) : a \in AnswersAs(v[3], Version(v))} : v \in Versions}

AchievableTraitRange(v, t) ==
    LET outcomes == {x \in Outcomes : x.version = v /\ x.trait = t}
        values == {x.value : x \in outcomes}
    IN  [version |-> v, trait |-> t,
         chance |-> SumFunction([x \in outcomes |-> x.value]) \div Cardinality(outcomes),
         best |-> Max(values), worst |-> Min(values)]

\* The ranges of all versions, worked out once.
Ranges == UNION {{AchievableTraitRange(v, t) : t \in Mentioned(Version(v))} : v \in Versions}

-----------------------------------------------------------------------------
(* AbilityEstimatorService.                                                *)

NoTally == [sum |-> 0, count |-> 0, chance |-> 0, best |-> 0, worst |-> 0]

\* The answer moves the traits it mentions, the question the scale of every
\* trait it could have expressed.
ApplyTraitWeights(ts, weights, ranges) ==
    LET Expressed(tally, w) == [tally EXCEPT !.sum = @ + w, !.count = @ + 1]
        Offered(tally, r) ==
            [tally EXCEPT !.chance = @ + r.chance, !.best = @ + r.best, !.worst = @ + r.worst]
        said == [t \in Traits |-> IF t \in DOMAIN weights THEN Expressed(ts[t], weights[t]) ELSE ts[t]]
    IN  [t \in Traits |->
            IF \E r \in ranges : r.trait = t
            THEN Offered(said[t], CHOOSE r \in ranges : r.trait = t) ELSE said[t]]

\* (mutant) Each side of chance scaled to its own half.
TraitScoreTwoSlopes(tally) ==
    LET up == tally.best - tally.chance
        down == tally.chance - tally.worst
        off == tally.sum - tally.chance
    IN  IF up <= 0 \/ down <= 0 THEN 500
        ELSE IF off >= 0 THEN RoundDiv(500 * (up + off), up)
        ELSE RoundDiv(500 * (down + off), down)

\* In tenths: 500 is what answering at random earns.
TraitScore(tally) ==
    LET spread == Max({tally.best - tally.chance, tally.chance - tally.worst})
    IN  IF spread <= 0 THEN 500
        ELSE Clamp(RoundDiv(500 * (spread + tally.sum - tally.chance), spread), 0, 1000)

TraitScores(ts) ==
    [t \in Traits |-> [score |-> TraitScore(ts[t]), confidence |-> TraitConfidence(ts[t].count)]]

-----------------------------------------------------------------------------
(* The attempt.                                                            *)

\* Without a choice nothing is expressed, and nothing is charged for.
Scored(ts, q, answer) ==
    IF answer.kind = "unanswered" THEN ts
    ELSE ApplyTraitWeights(ts, Evaluate(Details(q), answer), {r \in Ranges : r.version = <<q, edition[q], answer.kind>>})

\* An answer whose options the question no longer has cannot be evaluated.
Fits(e, answer) ==
    CASE answer.kind = "ranking" -> DOMAIN answer.position = DOMAIN e.options
      [] answer.kind = "choice" -> answer.option \in DOMAIN e.options
      [] OTHER -> FALSE

\* The stored answers against the bank of now.  Whether an answer is a ranking
\* is read off the row; one that no longer fits costs its own contribution.
Replayed(ts, row) ==
    IF Fits(Details(row.question), row.answer) THEN Scored(ts, row.question, row.answer) ELSE ts

Replay(rs) ==
    LET after[n \in 0 .. Len(rs)] ==
            IF n = 0 THEN [t \in Traits |-> NoTally] ELSE Replayed(after[n - 1], rs[n])
    IN  after[Len(rs)]

\* The evidence view: what one stored answer moved, by the bank of now.
ContributionsFor(row) ==
    IF Fits(Details(row.question), row.answer)
    THEN Evaluate(Details(row.question), row.answer) ELSE [t \in {} |-> 0]

Asked == {rows[i].question : i \in DOMAIN rows}

ScoringInit ==
    /\ edition = [q \in Items |-> 1]
    /\ rows = <<>> /\ tallies = [t \in Traits |-> NoTally]
    /\ stale = {}

\* recordTraitAnswer, of an answer of the question's shape or of none.
RecordTraitAnswer(q, answer) ==
    /\ Len(rows) < MaxAnswers
    /\ q \notin Asked
    /\ tallies' = Scored(tallies, q, answer)
    /\ rows' = Append(rows, [question |-> q, answer |-> answer])
    /\ UNCHANGED <<edition, stale>>

\* Redis lost the attempt; the next request rebuilds it.
Rebuild ==
    /\ tallies' = Replay(rows)
    /\ UNCHANGED <<edition, rows, stale>>

\* QuestionBankService.update writes the details of a question in place.
EditQuestion(q) ==
    /\ edition[q] < Len(Editions[q])
    /\ edition' = [edition EXCEPT ![q] = @ + 1]
    /\ stale' = stale \cup ({q} \cap Asked)
    /\ UNCHANGED <<rows, tallies>>

ScoringNext ==
    \/ \E q \in Items : \E a \in AnswersAs(Kind(Details(q)), Details(q)) \cup {Unanswered} : RecordTraitAnswer(q, a)
    \/ Rebuild
    \/ \E q \in Items : EditQuestion(q)

ScoringSpec == ScoringInit /\ [][ScoringNext]_scoring

-----------------------------------------------------------------------------
(* Properties.                                                             *)

\* Every sum lies between the least and the most that the questions behind it
\* allowed, so that clamping a score never hides one off the scale; after a
\* rebuild over an edited bank too (replayTraitAnswer: weights and ranges "must
\* always be applied together").
SumsAreOnTheirScale ==
    \A t \in Traits :
        /\ tallies[t].worst <= tallies[t].sum /\ tallies[t].sum <= tallies[t].best
        /\ tallies[t].worst <= tallies[t].chance /\ tallies[t].chance <= tallies[t].best

\* "A linear transform of sum puts E[random] exactly on 50 whatever the bank
\* looks like" (traitScore): over all the ways the questions that were put can
\* be answered, the scores of a trait average 50, up to their rounding.
ChanceEarnsFifty ==
    LET Put(i) == <<rows[i].question, edition[rows[i].question], rows[i].answer.kind>>
        Possible(t, i) == {x \in Outcomes : x.version = Put(i) /\ x.trait = t}
        \* the values an answer may have, each with the number of answers of that value
        Odds(t, i) == {<<x.value, Cardinality({y \in Possible(t, i) : y.value = x.value})>> :
                          x \in Possible(t, i)}
        replayed == Replay(rows)
    IN  stale = {} => \A t \in Traits :
          LET asking == {i \in DOMAIN rows : Possible(t, i) # {}}
              odds == UNION {{<<i, v>> : v \in Odds(t, i)} : i \in asking}
              Sheets == {f \in [asking -> {p[2] : p \in odds}] : \A i \in asking : <<i, f[i]>> \in odds}
              Off(f) == TraitScore([replayed[t] EXCEPT !.sum = SumFunction([i \in asking |-> f[i][1]])]) - 500
              Ways(f) == FoldFunction(LAMBDA v, n : v[2] * n, 1, f)
              total == SumFunction([f \in Sheets |-> Ways(f) * Off(f)])
              ways == SumFunction([f \in Sheets |-> Ways(f)])
          IN  2 * total <= ways /\ 2 * total >= -ways

\* An attempt rebuilt from its rows scores as it did, as long as no question it
\* has answered was edited: a ranking's weights are recovered from the order,
\* and a question the clock took away still adds nothing.
RebuildScoresTheSame == stale = {} => TraitScores(Replay(rows)) = TraitScores(tallies)

\* The answers a recruiter is shown add up to what was scored: "exactly what
\* this answer moved, and by how much" (AnswerDetail), as long as no question was
\* edited.
EvidenceAddsUp ==
    LET Moved(t, i) == ValueFor(t, ContributionsFor(rows[i]))
    IN  stale = {} =>
            \A t \in Traits : tallies[t].sum = SumFunction([i \in DOMAIN rows |-> Moved(t, i)])

\* The scores of an attempt mean what the report says of them.
ScoresMeanWhatTheySay ==
    /\ SumsAreOnTheirScale
    /\ ChanceEarnsFifty
    /\ RebuildScoresTheSame
    /\ EvidenceAddsUp

=============================================================================
