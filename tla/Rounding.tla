------------------------------ MODULE Rounding ------------------------------
(***************************************************************************)
(* Numbers as results are stored and shown with.                           *)
(***************************************************************************)
EXTENDS Integers

\* Math.round(n / d) of n >= 0 and d > 0: a half goes up.
RoundDiv(n, d) == (2 * n + d) \div (2 * d)

Clamp(x, low, high) == IF x < low THEN low ELSE IF x > high THEN high ELSE x

\* traitConfidence, in hundredths: the answers that expressed a trait, against
\* TRAIT_TARGET_QUESTIONS.
TargetQuestions == 3
TraitConfidence(count) == RoundDiv(100 * Clamp(count, 0, TargetQuestions), TargetQuestions)

=============================================================================
