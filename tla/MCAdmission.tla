---------------------------- MODULE MCAdmission ----------------------------
(***************************************************************************)
(* How a candidate comes to a round: the accounts, invitations and entries *)
(* of Admission, and the links, dates and pages of Entrance.  The columns  *)
(* the two work on differ, so each is explored with the other at rest.     *)
(***************************************************************************)
EXTENDS AdmissionSafety, Entrance, TLC

AllKinds == Operations

VARIABLE part

MCInit ==
    /\ Init /\ EntranceInit
    /\ part \in {"admission", "entrance"}
    /\ part = "admission" => round = Unscheduled /\ invite = [c \in Candidates |-> NoInvite]

MCNext ==
    \/ part = "admission" /\ Next /\ UNCHANGED <<entrance, part>>
    \/ part = "entrance" /\ EntranceNext /\ UNCHANGED <<vars, part>>

MCSpec == MCInit /\ [][MCNext]_<<vars, entrance, part>>

\* Requests are interchangeable, and so are companies, addresses and recruiters' requests.
Symmetry ==
    Permutations(Requests) \cup Permutations(Assessments) \cup Permutations(Emails)
    \cup Permutations(Desks)

=============================================================================
