------------------------------ MODULE MCSession ------------------------------
(***************************************************************************)
(* Small instances of SessionRuntime: questions q1 and q2 belong to the    *)
(* first module and q3 to the second, where there is one.  Every module    *)
(* has a clock of one tick.                                                *)
(***************************************************************************)
EXTENDS SessionClaims, TLC

CONSTANTS t1, t2, q1, q2, q3, FirstLength

MCModuleOf == [q \in Questions |-> IF q = q3 THEN 2 ELSE 1]
MCQuestionCount == [m \in Modules |-> IF m = 1 THEN FirstLength ELSE 1]
MCTimeLimit == [m \in Modules |-> 1]

\* Tabs are interchangeable, and so are the questions of the first module.
Symmetry == Permutations(Tabs) \cup Permutations(Questions \ {q3})

==============================================================================
