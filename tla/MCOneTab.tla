------------------------------- MODULE MCOneTab -------------------------------
(***************************************************************************)
(* OneTabSession on the small instances of MCSession.                      *)
(***************************************************************************)
EXTENDS MCSession, OneTabSession

\* An opening once overtaken stays so, and nothing is claimed of what follows.
NotOvertaken == ~overtaken

==============================================================================
