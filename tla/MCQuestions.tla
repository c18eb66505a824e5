----------------------------- MODULE MCQuestions -----------------------------
(***************************************************************************)
(* The rules on which questions an attempt is asked, in one run: the twins *)
(* of a repeat probe, on a small bank of two pairs, a group of one and     *)
(* plain questions; the pool of a company, with a rival that works on the  *)
(* same starter bank; and the turns of traits and patterns, on five cards.  *)
(* Each is explored with the others at rest.                               *)
(***************************************************************************)
EXTENDS ProbePairs, QuestionPool, TraitSelection, TLC

CONSTANTS a1, a2, b1, b2, c1, p1, p2, p3, A, B, C,
          own, rival, r1, r2, r3

MCGroup == (a1 :> A) @@ (a2 :> A) @@ (b1 :> B) @@ (b2 :> B) @@ (c1 :> C)
           @@ (p1 :> Plain) @@ (p2 :> Plain) @@ (p3 :> Plain)

MCCompanyOf == (r1 :> own) @@ (r2 :> own) @@ (r3 :> rival)

MCCatalogue == <<"integrity", "teamwork">>

MCShapes == <<"tradeoff", "sequence">>

\* A shape and the traits of each option; the last card is a legacy one.
MCShapeOf ==
    <<"tradeoff", "sequence", "tradeoff", "sequence", Likert>>

MCSays ==
    <<{{"integrity"}, {"integrity", "teamwork"}}, {{"teamwork"}, {}}, {{"teamwork"}},
      {{"integrity"}, {"teamwork"}}, {{"teamwork"}}>>

VARIABLE part

MCInit ==
    /\ Init /\ QuestionInit /\ SelectionInit
    /\ part \in {"probes", "pool", "selection"}

MCNext ==
    \/ part = "probes" /\ Next /\ UNCHANGED <<questionVars, selection, part>>
    \/ part = "pool" /\ QuestionNext /\ UNCHANGED <<vars, selection, part>>
    \/ part = "selection" /\ SelectionNext /\ UNCHANGED <<vars, questionVars, part>>

MCSpec == MCInit /\ [][MCNext]_<<vars, questionVars, selection, part>>

\* The two groups are interchangeable with their twins, as are the twins of a group and the
\* plain questions.
Swap == (a1 :> b1) @@ (a2 :> b2) @@ (b1 :> a1) @@ (b2 :> a2) @@ (A :> B) @@ (B :> A)

Symmetry ==
    {Swap} \cup {f @@ g @@ h: f \in Permutations({a1, a2}), g \in Permutations({b1, b2}),
                             h \in Permutations({p1, p2, p3})}
    \cup Permutations(Minted)

==============================================================================
