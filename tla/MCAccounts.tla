----------------------------- MODULE MCAccounts -----------------------------
(***************************************************************************)
(* What an account goes through: the sign-in state of one account, the     *)
(* roles of a workspace, and the entry of three strangers through one      *)
(* company's public link, which has no places left after the first.  All   *)
(* they share is the users table: the columns of the one are untouched by  *)
(* the others, so each is explored with the others at rest.                *)
(***************************************************************************)
EXTENDS SignIn, Workspace, AdmissionSafety, TLC

VARIABLE part

MCInit ==
    /\ SignInInit /\ WorkspaceInit /\ Init
    /\ part \in {"sign in", "workspace", "entry"}

MCNext ==
    \/ part = "sign in" /\ SignInNext /\ UNCHANGED <<workspace, vars, part>>
    \/ part = "workspace" /\ WorkspaceNext /\ UNCHANGED <<signInVars, vars, part>>
    \/ part = "entry" /\ Next /\ UNCHANGED <<signInVars, workspace, part>>

MCSpec == MCInit /\ [][MCNext]_<<signInVars, workspace, vars, part>>

Symmetry ==
    Permutations(Handlers) \cup Permutations(Requests) \cup Permutations(Links)
    \cup Permutations(Emails)

=============================================================================
