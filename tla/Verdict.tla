------------------------------ MODULE Verdict -------------------------------
(***************************************************************************)
(* What a report concludes from the result rows of an attempt:             *)
(* buildModuleSummaries in reports.service.ts, report-builder.ts,          *)
(* behavioral-profiles.ts and the thresholds of report.constants.ts.       *)
(*                                                                         *)
(* Scores are in tenths, confidences and weights in hundredths.  A mean is *)
(* exact up to its rounding: the code's are of binary fractions.           *)
(***************************************************************************)
EXTENDS Rounding, Sequences, FiniteSets, FiniteSetsExt

CONSTANTS
    Sections,       \* assessment_modules in display order: records of objective,
                    \* questionCount and, for a trait section, its vocabularies
    Inverted,       \* traits whose definition says invertForReport
    Abilities,      \* Elo estimates that are followed
    Measures,       \* stored trait results that are followed
    None            \* null

Vocabularies == UNION {Range(Sections[i].vocabularies) : i \in DOMAIN Sections}

\* A stored trait result.
Measurements == [score : 0 .. 1000, confidence : {TraitConfidence(n) : n \in 0 .. TargetQuestions}]

\* What session_module_results may hold of a section.
Rows == [answered : Nat, ability : Abilities \cup {None},
         traitScores : {None} \cup UNION {[v -> Measurements] : v \in Vocabularies}]

Recommendations == {"not_recommended", "borderline", "recommended", "strongly_recommended"}

ASSUME VerdictAssumption ==
    /\ Sections \in Seq({Sections[i] : i \in DOMAIN Sections})
    /\ \A i \in DOMAIN Sections :
         /\ Sections[i].objective \in BOOLEAN
         /\ Sections[i].questionCount \in Nat \ {0}
         /\ Sections[i].vocabularies \in Seq(Vocabularies)
         /\ ~Sections[i].objective => Sections[i].vocabularies # <<>>
    /\ \A v \in Vocabularies : IsFiniteSet(v)
    /\ Abilities \subseteq Int
    /\ \A m \in Measures : m.score \in 0 .. 1000 /\ m.count \in Nat
    /\ None \notin Int /\ None \notin Rows /\ None \notin Recommendations

\* report.constants.ts.
AbilityFloor == 600
AbilityCeiling == 1400
StrongScore == 650
WeakScore == 350
MinTraitConfidence == 50
MinFindingConfidence == 80
MinFindingAnswers == 3
MinCoverage == 60
StronglyRecommendedAt == 750
RecommendedAt == 550
BorderlineAt == 400
BehavioralStrongAt == 650
BehavioralModerateAt == 450
AbilityWeight == 70
BehavioralWeight == 30

\* BEHAVIORAL_PROFILES: each composite's weights over the traits.
Weights ==
    [leadership_readiness |->
        [leadership |-> 35, ownership |-> 20, communication |-> 20, accountability |-> 15,
         risk_tolerance |-> 10],
     collaboration |-> [teamwork |-> 35, empathy |-> 30, communication |-> 25, integrity |-> 10],
     reliability |-> [accountability |-> 35, ownership |-> 30, integrity |-> 25, resilience |-> 10],
     resilience_under_pressure |->
        [adaptability |-> 40, resilience |-> 35, risk_tolerance |-> 15, ownership |-> 10],
     integrity_judgment |-> [integrity |-> 50, accountability |-> 25, ownership |-> 15, empathy |-> 10]]

Profiles == DOMAIN Weights

VARIABLES
    results,        \* session_module_results: section -> its row or None
    finished,       \* the attempt was finalised
    vocabulary      \* section -> the index of the traits its module declares now

verdict == <<results, finished, vocabulary>>

\* Of the values of a function.
Mean(f) == RoundDiv(SumFunction(f), Cardinality(DOMAIN f))

-----------------------------------------------------------------------------
(* buildModuleSummaries, of the rows rs.                                   *)

NormaliseAbility(a) ==
    RoundDiv(1000 * (Clamp(a, AbilityFloor, AbilityCeiling) - AbilityFloor), AbilityCeiling - AbilityFloor)

Declared(i) == Sections[i].vocabularies[vocabulary[i]]

\* The stored traits under the names declared now; under their own when the two
\* have none in common.
BuildTraits(i, scores) ==
    LET stored == DOMAIN scores
        legacy == Declared(i) \cap stored = {} /\ stored # {}
        Neutral == [score |-> 500, confidence |-> 0]
        Measured(k) == IF k \in stored THEN scores[k] ELSE Neutral
        Flipped(k) == IF k \in Inverted /\ ~legacy THEN 1000 - Measured(k).score ELSE Measured(k).score
    IN  {[key |-> k, section |-> i, score |-> Flipped(k), confidence |-> Measured(k).confidence] :
            k \in IF legacy THEN stored ELSE Declared(i)}

ModuleSummaries(rs) ==
    {[section |-> i, objective |-> Sections[i].objective,
      questionCount |-> Sections[i].questionCount,
      answered |-> rs[i].answered,
      score |-> IF Sections[i].objective /\ rs[i].ability # None
                THEN NormaliseAbility(rs[i].ability) ELSE None,
      traits |-> IF rs[i].traitScores = None THEN {} ELSE BuildTraits(i, rs[i].traitScores)] :
        i \in {j \in DOMAIN rs : rs[j] # None}}

AllTraits(ms) == UNION {m.traits : m \in ms}

-----------------------------------------------------------------------------
(* behavioral-profiles.ts.                                                 *)

\* new Map(traits.map(...)): of several entries of one key the last is kept.
ByKey(ts) == {t \in ts : \A u \in ts : u.key = t.key => u.section <= t.section}

\* (mutant) Every trait that is listed, measured or not.
PresentListed(p, ts) == {t \in ByKey(ts) : t.key \in DOMAIN Weights[p]}

\* The traits of a composite that were measured at all.
Present(p, ts) == {t \in ByKey(ts) : t.key \in DOMAIN Weights[p] /\ t.confidence > 0}

BandFor(total, weight) ==
    IF total >= BehavioralStrongAt * weight THEN "strong"
    ELSE IF total >= BehavioralModerateAt * weight THEN "moderate" ELSE "developing"

\* The weighted mean over what is present; its score and band are withheld when
\* the evidence is thin.
Composite(p, ts) ==
    LET weight == SumFunction([t \in Present(p, ts) |-> Weights[p][t.key]])
        score == SumFunction([t \in Present(p, ts) |-> Weights[p][t.key] * t.score])
        confidence == SumFunction([t \in Present(p, ts) |-> Weights[p][t.key] * t.confidence])
        reportable == confidence >= MinTraitConfidence * weight
    IN  [key |-> p,
         score |-> IF reportable THEN RoundDiv(score, weight) ELSE None,
         band |-> IF reportable THEN BandFor(score, weight) ELSE None,
         confidence |-> RoundDiv(confidence, weight)]

BehavioralProfiles(ts) == {Composite(p, ts) : p \in {q \in Profiles : Present(q, ts) # {}}}

BehavioralIndex(ps) ==
    LET confident == {p \in ps : p.score # None}
    IN  IF confident = {} THEN None ELSE Mean([p \in confident |-> p.score])

-----------------------------------------------------------------------------
(* report-builder.ts.                                                      *)

AbilityScore(ms) ==
    LET attempted == {m \in ms : m.objective /\ m.answered > 0}
    IN  IF attempted = {} THEN None
        ELSE Mean([m \in attempted |-> IF m.score = None THEN 0 ELSE m.score])

BlendScores(ability, index) ==
    IF ability = None THEN index
    ELSE IF index = None THEN ability
    ELSE RoundDiv(AbilityWeight * ability + BehavioralWeight * index, AbilityWeight + BehavioralWeight)

\* coverageRatio against MIN_COVERAGE_RATIO.
Covered(ms) ==
    LET expected == SumFunction([m \in ms |-> m.questionCount])
        answered == SumFunction([m \in ms |-> m.answered])
    IN  100 * answered >= MinCoverage * expected

Recommend(overall, covered) ==
    LET banded == IF overall >= StronglyRecommendedAt THEN "strongly_recommended"
                  ELSE IF overall >= RecommendedAt THEN "recommended"
                  ELSE IF overall >= BorderlineAt THEN "borderline" ELSE "not_recommended"
    IN  IF overall = None THEN None
        ELSE IF ~covered /\ banded \in {"strongly_recommended", "recommended"} THEN "borderline"
        ELSE banded

\* What a finding may rest on.
IsEstablished(m) == m.answered >= MinFindingAnswers
Established(x) == x.confidence >= MinFindingConfidence

Strengths(ms, ps) ==
    {<<"section", m.section>> : m \in {n \in ms : n.score # None /\ n.score >= StrongScore /\ IsEstablished(n)}}
    \cup {<<"trait", t.section, t.key>> : t \in {u \in AllTraits(ms) : Established(u) /\ u.score >= StrongScore}}
    \cup {<<"profile", p.key>> : p \in {q \in ps : Established(q) /\ q.band = "strong"}}

Weaknesses(ms, ps) ==
    {<<"section", m.section>> : m \in {n \in ms : n.score # None /\ n.score <= WeakScore /\ IsEstablished(n)}}
    \cup {<<"trait", t.section, t.key>> : t \in {u \in AllTraits(ms) : Established(u) /\ u.score <= WeakScore}}
    \cup {<<"unfinished", m.section>> : m \in {n \in ms : n.answered > 0 /\ n.answered < n.questionCount}}
    \cup {<<"profile", p.key>> : p \in {q \in ps : Established(q) /\ q.band = "developing"}}

BuildReport(ms) ==
    LET profiles == BehavioralProfiles(AllTraits(ms))
        ability == AbilityScore(ms)
        index == BehavioralIndex(profiles)
        overall == BlendScores(ability, index)
    IN  [abilityScore |-> ability, behavioralScore |-> index, overallScore |-> overall,
         profiles |-> profiles, hiringRecommendation |-> Recommend(overall, Covered(ms)),
         strengths |-> Strengths(ms, profiles), weaknesses |-> Weaknesses(ms, profiles)]

-----------------------------------------------------------------------------
(* The rows a report is made of.                                           *)

\* persistModuleResult of a section in which questions were answered.
AttemptedRows(i) ==
    LET answered == 1 .. Sections[i].questionCount
        Heard(n) == {[score |-> m.score, confidence |-> TraitConfidence(m.count)] :
                        m \in {x \in Measures : x.count <= n}}
    IN  IF Sections[i].objective
        THEN [answered : answered, ability : Abilities, traitScores : {None}]
        ELSE UNION {[answered : {n}, ability : {None}, traitScores : [Declared(i) -> Heard(n)]] :
                       n \in answered}

\* A section never reached has a row too, without a score.
UnreachedRow == [answered |-> 0, ability |-> None, traitScores |-> None]

Unclosed == {i \in DOMAIN Sections : results[i] = None}

VerdictInit ==
    /\ results = [i \in DOMAIN Sections |-> None]
    /\ finished = FALSE
    /\ vocabulary = [i \in DOMAIN Sections |-> 1]

\* completeModule: the section the attempt is in.
CloseSection(row) ==
    /\ ~finished /\ Unclosed # {}
    /\ row \in AttemptedRows(Min(Unclosed))
    /\ results' = [results EXCEPT ![Min(Unclosed)] = row]
    /\ UNCHANGED <<finished, vocabulary>>

\* finalize: a row for every section, with what the present one has so far.
Finalize(row) ==
    /\ ~finished
    /\ row # UnreachedRow => Unclosed # {} /\ row \in AttemptedRows(Min(Unclosed))
    /\ results' = [i \in DOMAIN Sections |->
                      IF i \notin Unclosed THEN results[i] ELSE IF i = Min(Unclosed) THEN row ELSE UnreachedRow]
    /\ finished' = TRUE
    /\ UNCHANGED vocabulary

\* ModulesCatalogService.update gives the module other traits.
Redeclare(i) ==
    /\ ~Sections[i].objective
    /\ vocabulary[i] < Len(Sections[i].vocabularies)
    /\ vocabulary' = [vocabulary EXCEPT ![i] = @ + 1]
    /\ UNCHANGED <<results, finished>>

VerdictNext ==
    \/ /\ Unclosed # {}
       /\ \E row \in AttemptedRows(Min(Unclosed)) : CloseSection(row) \/ Finalize(row)
    \/ Finalize(UnreachedRow)
    \/ \E i \in DOMAIN Sections : Redeclare(i)

VerdictSpec == VerdictInit /\ [][VerdictNext]_verdict

-----------------------------------------------------------------------------
(* Properties.                                                             *)

Report == BuildReport(ModuleSummaries(results))

Ranks == [not_recommended |-> 1, borderline |-> 2, recommended |-> 3, strongly_recommended |-> 4]

\* Of a closed attempt, whatever was never reached counts as asked for: fewer
\* than three answers in five are never "recommended" (MIN_COVERAGE_RATIO).  The comment
\* beside the code also denies the other end, "one who answered two badly has not earned
\* 'not recommended' either" (report-builder.ts:335); the code caps from above only, as its
\* test wants ("does not let thin evidence rescue a poor result", report-builder.spec.ts:425),
\* so that half of the comment does not hold and is not claimed here.
ThinEvidenceIsCapped ==
    LET asked == SumFunction([i \in DOMAIN Sections |-> Sections[i].questionCount])
        answered == SumFunction([i \in DOMAIN Sections |-> results[i].answered])
    IN  finished /\ 10 * answered < 6 * asked =>
            Report.hiringRecommendation \in {None, "borderline", "not_recommended"}

\* No score without a scored answer, and none from a section that only passed
\* by: null scores for the sections never reached, "no score, no recommendation".
NoEvidenceNoVerdict ==
    LET sat == {i \in DOMAIN Sections : results[i] # None /\ results[i].answered > 0}
    IN  /\ (\E i \in sat : Sections[i].objective) = (Report.abilityScore # None)
        /\ sat = {} => Report.overallScore = None
        /\ (Report.overallScore = None) = (Report.hiringRecommendation = None)

\* What a section's traits read as where nothing was said of them is of no
\* consequence: "a 50 nobody produced" reaches no composite.
UnmeasuredSaysNothing ==
    LET Reading(score) ==
            {[m EXCEPT !.traits = {IF t.confidence = 0 THEN [t EXCEPT !.score = score] ELSE t : t \in @}] :
                m \in ModuleSummaries(results)}
    IN  BuildReport(Reading(0)) = BuildReport(Reading(1000))

\* A better result in a section or a better score on one trait, nothing else
\* changed, costs no candidate a point or a band.
BetterNeverCosts ==
    LET ms == ModuleSummaries(results)
        More(x) == [x EXCEPT !.score = Clamp(@ + 150, 0, 1000)]
        Better(m) ==
            {[m EXCEPT !.traits = (@ \ {t}) \cup {More(t)}] : t \in m.traits}
            \cup IF m.score = None THEN {} ELSE {More(m)}
        Improved == UNION {{(ms \ {m}) \cup {n} : n \in Better(m)} : m \in ms}
    IN  Report.overallScore # None =>
          \A better \in Improved :
            LET r == BuildReport(better)
            IN  /\ r.overallScore >= Report.overallScore
                /\ Ranks[r.hiringRecommendation] >= Ranks[Report.hiringRecommendation]

\* Strengths and weaknesses rest on three answers: a section's on its own, a
\* trait's on those that expressed it, and a composite's on some trait that has
\* them (MIN_FINDING_ANSWERS, MIN_FINDING_CONFIDENCE).  Nothing is both.
FindingsAreEstablished ==
    LET full == {t \in AllTraits(ModuleSummaries(results)) : t.confidence = 100}
        named == Report.strengths \cup Report.weaknesses
    IN  /\ Report.strengths \cap Report.weaknesses = {}
        /\ \A f \in named :
             /\ f[1] = "section" => results[f[2]].answered >= 3
             /\ f[1] = "trait" => \E t \in full : t.section = f[2] /\ t.key = f[3]
             /\ f[1] = "profile" => \E t \in full : t.key \in DOMAIN Weights[f[2]]

\* A report says no more than the answers behind it.
VerdictIsFair ==
    /\ ThinEvidenceIsCapped
    /\ NoEvidenceNoVerdict
    /\ UnmeasuredSaysNothing
    /\ BetterNeverCosts
    /\ FindingsAreEstablished

=============================================================================
