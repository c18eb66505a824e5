------------------------------ MODULE MCPages ------------------------------
(***************************************************************************)
(* The two pages that act on copies: the recruiter's cohort page, with the *)
(* queue its emails go out by, and the candidate's test screen, with the   *)
(* face loop it runs.  Each is explored with the others at rest.           *)
(***************************************************************************)
EXTENDS ReviewDesk, ProctoringPage, FaceMonitor, MailDelivery, TLC

VARIABLE part

MCInit ==
    /\ Init /\ PageInit /\ FaceInit /\ MailInit
    /\ part \in {"review", "screen", "face", "mail"}
    /\ part # "screen" => at = 1 /\ permission = "granted"

MCNext ==
    \/ part = "review" /\ Next /\ UNCHANGED <<pageVars, face, mailVars, part>>
    \/ part = "screen" /\ PageNext /\ UNCHANGED <<vars, face, mailVars, part>>
    \/ part = "face" /\ FaceNext /\ UNCHANGED <<vars, pageVars, mailVars, part>>
    \/ part = "mail" /\ MailNext /\ UNCHANGED <<vars, pageVars, face, part>>

MCSpec == MCInit /\ [][MCNext]_<<vars, pageVars, face, mailVars, part>>

\* Recruiters' pages are interchangeable, and so are the calls in flight and the
\* emails.
Symmetry == Permutations(Pages) \cup Permutations(Slots) \cup Permutations(Mails)

=============================================================================
