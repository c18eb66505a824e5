------------------------------ MODULE Workspace ------------------------------
(***************************************************************************)
(* Who may do what in one company's workspace (backend/src/users:          *)
(* setOrgRole, deletePerson, createByAdmin; auth/guards/org-roles.guard).  *)
(*                                                                         *)
(* A request is let in by the role its actor has then, and reads what it   *)
(* needs one row at a time before it writes; nothing is locked.            *)
(***************************************************************************)
EXTENDS Naturals, FiniteSets

CONSTANTS
    Members,            \* the accounts the workspace ever has
    Founder,            \* the one that registered it
    Clerks              \* the requests that can be in flight at once

CONSTANT MaxOrders      \* a bound of the exploration: requests made

ASSUME WorkspaceAssumption ==
    /\ Founder \in Members
    /\ IsFiniteSet(Members)
    /\ MaxOrders \in Nat

Ranked == {"viewer", "hiring_manager", "admin", "owner"}

VARIABLES
    role,               \* users.orgRole; "new" before an account is made, "gone" after
    order,              \* what each request is about to do
    orders,
    \* history
    crossed,            \* whether two requests were ever in flight together
    deposed             \* whether an owner's account was ever deleted

workspace == <<role, order, orders, crossed, deposed>>

\* was is the target's role as it was read.
Orders ==
    [step: {"idle", "target", "actor", "count", "save", "delete", "create"},
     actor: Members, target: Members, wanted: Ranked, was: Ranked]

NoOrder == [step |-> "idle", actor |-> Founder, target |-> Founder,
            wanted |-> "owner", was |-> "owner"]

WorkspaceTypeOK ==
    /\ role \in [Members -> Ranked \cup {"new", "gone"}]
    /\ order \in [Clerks -> Orders]
    /\ orders \in Nat
    /\ {crossed, deposed} \subseteq BOOLEAN

Present == {m \in Members: role[m] \in Ranked}
Owners == {m \in Members: role[m] = "owner"}

\* registerRecruiter: "whoever registers the workspace owns it".
WorkspaceInit ==
    /\ role = [m \in Members |-> IF m = Founder THEN "owner" ELSE "new"]
    /\ order = [c \in Clerks |-> NoOrder]
    /\ orders = 0
    /\ crossed = FALSE /\ deposed = FALSE

-----------------------------------------------------------------------------
\* MinOrgRole(ADMIN).
Admitted(m) == role[m] \in {"admin", "owner"}

Order(c, step, actor, target, wanted) ==
    /\ order[c].step = "idle"
    /\ Admitted(actor)
    /\ orders < MaxOrders
    /\ orders' = orders + 1
    /\ order' = [order EXCEPT ![c] = [step |-> step, actor |-> actor, target |-> target,
                                      wanted |-> wanted, was |-> "owner"]]
    /\ crossed' = (crossed \/ \E d \in Clerks: order[d].step # "idle")
    /\ UNCHANGED <<role, deposed>>

Proceed(c, step, was) ==
    /\ order' = [order EXCEPT ![c] = [step |-> step, actor |-> order[c].actor,
                                      target |-> order[c].target,
                                      wanted |-> order[c].wanted, was |-> was]]
    /\ UNCHANGED <<role, orders, crossed, deposed>>

Close(c) == order' = [order EXCEPT ![c] = NoOrder]

Refused(c) == Close(c) /\ UNCHANGED <<role, orders, crossed, deposed>>

SetOrgRole(c, actor, target, wanted) == Order(c, "target", actor, target, wanted)

FindTarget(c) ==
    /\ order[c].step = "target"
    /\ \/ /\ order[c].target \notin Present
          /\ Refused(c)
       \/ /\ order[c].target \in Present
          /\ Proceed(c, "actor", role[order[c].target])

\* "Only an owner may grant or remove owner."
FindActor(c) ==
    /\ order[c].step = "actor"
    /\ \/ /\ "owner" \in {order[c].wanted, order[c].was}
          /\ order[c].actor \notin Owners
          /\ Refused(c)
       \/ /\ "owner" \in {order[c].wanted, order[c].was} => order[c].actor \in Owners
          /\ Proceed(c, IF order[c].was = "owner" /\ order[c].wanted # "owner"
                        THEN "count" ELSE "save", order[c].was)

\* Mutant of CountOwners: no owner is ever the last one.
CountOwnersAny(c) ==
    /\ order[c].step = "count"
    /\ Proceed(c, "save", order[c].was)

\* "The last owner cannot be demoted."
CountOwners(c) ==
    /\ order[c].step = "count"
    /\ \/ /\ Cardinality(Owners) <= 1
          /\ Refused(c)
       \/ /\ Cardinality(Owners) > 1
          /\ Proceed(c, "save", order[c].was)

\* The save; a row deleted meanwhile cannot be inserted again, for want of a password.
SaveRole(c) ==
    /\ order[c].step = "save"
    /\ \/ /\ order[c].target \notin Present
          /\ Refused(c)
       \/ /\ order[c].target \in Present
          /\ role' = [role EXCEPT ![order[c].target] = order[c].wanted]
          /\ Close(c)
          /\ UNCHANGED <<orders, crossed, deposed>>

\* deletePerson, for a colleague: found, and not the actor.
DeleteFind(c, actor, target) ==
    /\ target \in Present
    /\ target # actor
    /\ Order(c, "delete", actor, target, "owner")

DeleteColleague(c) ==
    /\ order[c].step = "delete"
    /\ deposed' = (deposed \/ order[c].target \in Owners)
    /\ role' = [role EXCEPT ![order[c].target] = "gone"]
    /\ Close(c)
    /\ UNCHANGED <<orders, crossed>>

\* createByAdmin: "ownership is never granted by provisioning".
CreateFind(c, actor, target) ==
    /\ role[target] = "new"
    /\ Order(c, "create", actor, target, "hiring_manager")

CreateColleague(c) ==
    /\ order[c].step = "create"
    /\ \/ /\ role[order[c].target] # "new"
          /\ Refused(c)
       \/ /\ role[order[c].target] = "new"
          /\ role' = [role EXCEPT ![order[c].target] = order[c].wanted]
          /\ Close(c)
          /\ UNCHANGED <<orders, crossed, deposed>>

WorkspaceNext ==
    \E c \in Clerks:
        \/ \E actor, target \in Members:
            \/ \E wanted \in Ranked: SetOrgRole(c, actor, target, wanted)
            \/ DeleteFind(c, actor, target)
            \/ CreateFind(c, actor, target)
        \/ FindTarget(c) \/ FindActor(c) \/ CountOwners(c) \/ SaveRole(c)
        \/ DeleteColleague(c) \/ CreateColleague(c)

WorkspaceSpec == WorkspaceInit /\ [][WorkspaceNext]_workspace

-----------------------------------------------------------------------------
(***************************************************************************)
(* As long as requests come one after the other somebody is always left in *)
(* the workspace - whoever deletes stays (deletePerson: "an organisation   *)
(* whose last recruiter deleted themselves would be left with assessments, *)
(* questions and candidates nobody can ever reach again") - and, as long   *)
(* as no owner's account is deleted, so is an owner, through every         *)
(* promotion and demotion.                                                 *)
(***************************************************************************)
WorkspaceIsHeld ==
    ~crossed =>
        /\ Present # {}
        /\ ~deposed => Owners # {}

(***************************************************************************)
(* "A workspace with no owner is one nobody can ever hand over or fully    *)
(* administer, and there is no self-service way back from it"              *)
(* (users.service.ts:145): a workspace has an owner.                       *)
(***************************************************************************)
WorkspaceHasOwner == Owners # {}

=============================================================================
