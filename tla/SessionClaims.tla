---------------------------- MODULE SessionClaims ----------------------------
(***************************************************************************)
(* What comments and documents say of the runtime and the code does not    *)
(* keep.  Each is checked by a run of its own, which finds the behaviour   *)
(* that breaks it.                                                         *)
(***************************************************************************)
EXTENDS SessionLiveness

\* finalize: "Safe to call twice ... whichever lands second is a no-op."  It tests the
\* caller's own copy of the state, so the second caller overwrites the outcome.
FirstOutcomeStands == [][IsClosed => row'.status = row.status]_vars

==============================================================================
