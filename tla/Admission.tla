----------------------------- MODULE Admission -----------------------------
(***************************************************************************)
(* Who may sit an assessment: candidate accounts and the invitations that  *)
(* name them (invitations.service.ts, public-entry.service.ts,             *)
(* users.service.ts, AuthService.register).                                *)
(*                                                                         *)
(* An invitation is keyed by the e-mail address and linked to an account   *)
(* later, so every handler is a chain of awaited queries over two tables   *)
(* with no transaction around them.  A request in flight is a slot of the  *)
(* server with a program counter; one action is one awaited query.  The    *)
(* unique indexes and the foreign keys are what the database adds.         *)
(*                                                                         *)
(* Every company has one assessment, so an assessment names its company.   *)
(***************************************************************************)
EXTENDS Naturals, FiniteSets

CONSTANTS
    Requests,       \* the requests the server can have in flight
    Assessments,    \* one per company
    NoAssessment,   \* of a request that names none
    Emails,         \* the candidates' addresses
    NoEmail,        \* of an idle slot
    Cap             \* assessments.publicLinkMaxAttempts

CONSTANTS           \* bounds of the exploration, not of the program
    Kinds,          \* the operations that are called
    MaxCalls,       \* requests that arrive
    MaxFaults       \* requests that are cut short

Operations ==
    {"invite", "register", "enter", "remove", "reschedule", "revoke",
     "delete_person", "admin_create"}

ASSUME ActorsAssumption ==
    /\ IsFiniteSet(Requests) /\ Requests # {}
    /\ IsFiniteSet(Assessments) /\ NoAssessment \notin Assessments
    /\ IsFiniteSet(Emails) /\ NoEmail \notin Emails

ASSUME BoundsAssumption ==
    /\ Cap \in Nat \ {0}
    /\ Kinds \subseteq Operations
    /\ {MaxCalls, MaxFaults} \subseteq Nat

Slots == Assessments \X Emails

VARIABLES
    users,          \* the users row of each address
    invitations,    \* the invitations row of each assessment and address
    attempts,       \* the account an attempt was started under, 0 without one
    req,            \* the requests in flight
    issued,         \* how many invitation ids each slot has used
    calls, faults,  \* counted against the bounds
    disturbed       \* addresses whose requests once overlapped or were cut short

vars == <<users, invitations, attempts, req, issued, calls, faults, disturbed>>
tables == <<users, invitations, attempts, issued>>
env == <<calls, faults, disturbed>>

NoRow == [id |-> 0, cand |-> 0, source |-> "none", status |-> "none"]

Row == [id: Nat, cand: Nat, source: {"none", "self", "recruiter"},
        status: {"none", "pending", "started", "revoked"}]

Labels ==
    {"idle", "invite_find", "invite_check", "invite_insert", "provision_find",
     "provision_create", "link", "enter_open", "enter_find", "login",
     "self_find", "self_insert", "register_find", "register_gate",
     "register_create", "issue_tokens", "discard", "entered", "remove_find", "remove_check",
     "remove_delete", "unused_find", "unused_count", "unused_delete",
     "reschedule_find", "reschedule_save", "revoke_find", "revoke_update",
     "person_find", "person_count", "person_commit", "person_erase",
     "admin_find", "admin_create"}

Idle == [pc |-> "idle", op |-> "none", a |-> NoAssessment, e |-> NoEmail,
         user |-> 0, row |-> NoRow]

Request == [pc: Labels, op: Operations \cup {"none"},
            a: Assessments \cup {NoAssessment}, e: Emails \cup {NoEmail},
            user: Nat, row: Row]

TypeOK ==
    /\ users \in [Emails -> [gen: Nat, state: {"none", "fresh", "own"}]]
    /\ invitations \in [Slots -> Row]
    /\ attempts \in [Slots -> Nat]
    /\ req \in [Requests -> Request]
    /\ issued \in [Slots -> Nat]
    /\ calls \in Nat
    /\ faults \in Nat
    /\ disturbed \subseteq Emails

(***************************************************************************)
(* Reading and writing the tables                                          *)
(***************************************************************************)
\* The id of the account of an address, 0 when it has none.  An account
\* created anew is a new id.
Account(e) == IF users[e].state = "none" THEN 0 ELSE users[e].gen

\* mustChangePassword: "fresh" is a password the invite flow generated.
NewAccount(e, state) ==
    users' = [users EXCEPT ![e] = [gen |-> @.gen + 1, state |-> state]]

SlotOf(r) == <<r.a, r.e>>
Exists(s) == invitations[s].id # 0
Invited(e) == \E a \in Assessments : Exists(<<a, e>>)

\* candidateId references a user that exists.
Referable(cand, e) == cand = 0 \/ cand = Account(e)

Free(s) == ~Exists(s)

\* Rows a deletePerson transaction has deleted and not committed: the
\* others' writes to them wait.
Locked(s) ==
    \E p \in Requests :
        /\ req[p].pc \in {"person_commit", "person_erase"}
        /\ SlotOf(req[p]) = s
        /\ req[p].row # NoRow

Insert(s, cand, source) ==
    /\ invitations' =
           [invitations EXCEPT ![s] =
               [id |-> issued[s] + 1, cand |-> cand, source |-> source,
                status |-> "pending"]]
    /\ issued' = [issued EXCEPT ![s] = @ + 1]

\* ON DELETE CASCADE from users to invitations and attempts, ON DELETE
\* RESTRICT from an attempt's invitation: checked first, it refuses.
Linked(e, u) == {s \in Slots : s[2] = e /\ Exists(s) /\ invitations[s].cand = u}
Deletable(e, u) == \A s \in Linked(e, u) : attempts[s] = 0

\* The tables without account u of address e, and without slot s when a
\* transaction deletes it in the same commit.
DeleteUser(e, u, gone) ==
    /\ users' = IF Account(e) = u
                THEN [users EXCEPT ![e].state = "none"] ELSE users
    /\ invitations' =
           [s \in Slots |-> IF s \in gone \cup Linked(e, u)
                            THEN NoRow ELSE invitations[s]]
    /\ attempts' =
           [s \in Slots |-> IF s \in gone \/ (s[2] = e /\ attempts[s] = u)
                            THEN 0 ELSE attempts[s]]

At(p, label) == req[p].pc = label
Goto(p, label) == req' = [req EXCEPT ![p].pc = label]
Carry(p, label, u, row) ==
    req' = [req EXCEPT ![p].pc = label, ![p].user = u, ![p].row = row]
Done(p) == req' = [req EXCEPT ![p] = Idle]
Busy(e) == \E p \in Requests : req[p].e = e

Init ==
    /\ users = [e \in Emails |-> [gen |-> 0, state |-> "none"]]
    /\ invitations = [s \in Slots |-> NoRow]
    /\ attempts = [s \in Slots |-> 0]
    /\ req = [p \in Requests |-> Idle]
    /\ issued = [s \in Slots |-> 0]
    /\ calls = 0
    /\ faults = 0
    /\ disturbed = {}

(***************************************************************************)
(* Arrival                                                                 *)
(***************************************************************************)
FirstLabel ==
    [invite |-> "invite_find", register |-> "register_find",
     enter |-> "enter_open", remove |-> "remove_find",
     reschedule |-> "reschedule_find", revoke |-> "revoke_find",
     delete_person |-> "person_find", admin_create |-> "admin_find"]

Arrive(p, k, a, e) ==
    /\ At(p, "idle")
    /\ calls < MaxCalls
    /\ a = NoAssessment <=> k \in {"register", "admin_create"}
    /\ req' = [req EXCEPT ![p] =
                  [pc |-> FirstLabel[k], op |-> k, a |-> a, e |-> e,
                   user |-> 0, row |-> NoRow]]
    /\ calls' = calls + 1
    /\ disturbed' = disturbed \cup {x \in {e} : Busy(x)}
    /\ UNCHANGED <<tables, faults>>

\* Leaves the handler with an error.  Inside enterWithNewAccount's try the
\* pending invitation is discarded first.
Throws(p) ==
    IF req[p].op = "enter"
       /\ req[p].pc \in {"register_find", "register_gate", "register_create", "link",
                        "issue_tokens"}
    THEN Goto(p, "discard")
    ELSE Done(p)

Fail(p) == Throws(p) /\ UNCHANGED <<tables, env>>

(***************************************************************************)
(* A recruiter invites: inviteOne, enqueueInvite                           *)
(***************************************************************************)
InviteFind(p) ==
    /\ At(p, "invite_find")
    /\ Carry(p, "invite_check", Account(req[p].e), NoRow)
    /\ UNCHANGED <<tables, env>>

InviteCheck(p) ==
    /\ At(p, "invite_check")
    /\ IF Exists(SlotOf(req[p])) THEN Done(p) ELSE Goto(p, "invite_insert")
    /\ UNCHANGED <<tables, env>>

InviteInsert(p) ==
    LET s == SlotOf(req[p]) IN
    /\ At(p, "invite_insert")
    /\ ~Locked(s)
    /\ \/ /\ Free(s) /\ Referable(req[p].user, req[p].e)
          /\ Insert(s, req[p].user, "recruiter")
          /\ Goto(p, "provision_find")
          /\ UNCHANGED <<users, attempts, env>>
       \/ /\ ~(Free(s) /\ Referable(req[p].user, req[p].e))
          /\ Fail(p)

ProvisionFind(p) ==
    /\ At(p, "provision_find")
    /\ IF Account(req[p].e) # 0 THEN Done(p) ELSE Goto(p, "provision_create")
    /\ UNCHANGED <<tables, env>>

\* Creates the account in the given state unless the unique index refuses.
CreateAccount(p, state) ==
    \/ /\ Account(req[p].e) = 0
       /\ NewAccount(req[p].e, state)
       /\ Carry(p, "link", users[req[p].e].gen + 1, req[p].row)
       /\ UNCHANGED <<invitations, attempts, issued, env>>
    \/ /\ Account(req[p].e) # 0
       /\ Fail(p)

\* Mutant of ProvisionCreate: the invitation is never backfilled.
ProvisionCreateUnlinked(p) ==
    /\ At(p, "provision_create")
    /\ Account(req[p].e) = 0
    /\ NewAccount(req[p].e, "fresh")
    /\ Done(p)
    /\ UNCHANGED <<invitations, attempts, issued, env>>

ProvisionCreate(p) == At(p, "provision_create") /\ CreateAccount(p, "fresh")

\* linkUserToInvitations: one UPDATE of every unlinked row of the address.
Unlinked(e) == {s \in Slots : s[2] = e /\ Exists(s) /\ invitations[s].cand = 0}

Link(p) ==
    LET e == req[p].e IN
    /\ At(p, "link")
    /\ \A s \in Unlinked(e) : ~Locked(s)
    /\ \/ /\ Unlinked(e) = {} \/ Referable(req[p].user, e)
          /\ invitations' =
                 [s \in Slots |->
                     IF s \in Unlinked(e)
                     THEN [invitations[s] EXCEPT !.cand = req[p].user]
                     ELSE invitations[s]]
          /\ IF req[p].op = "enter" THEN Goto(p, "issue_tokens") ELSE Done(p)
          /\ UNCHANGED <<users, attempts, issued, env>>
       \/ /\ Unlinked(e) # {} /\ ~Referable(req[p].user, e)
          /\ Fail(p)

(***************************************************************************)
(* A candidate enters through the public link                              *)
(***************************************************************************)
SelfCount(a) ==
    Cardinality({e \in Emails : invitations[<<a, e>>].source = "self"})

\* Mutant of EnterOpen: reaching the cap lets one more through.
EnterOpenLate(p) ==
    /\ At(p, "enter_open")
    /\ IF SelfCount(req[p].a) <= Cap THEN Goto(p, "enter_find") ELSE Done(p)
    /\ UNCHANGED <<tables, env>>

\* assertOpen; a full link answers 403.
EnterOpen(p) ==
    /\ At(p, "enter_open")
    /\ IF SelfCount(req[p].a) < Cap THEN Goto(p, "enter_find") ELSE Done(p)
    /\ UNCHANGED <<tables, env>>

EnterFind(p) ==
    /\ At(p, "enter_find")
    /\ Goto(p, IF Account(req[p].e) # 0 THEN "login" ELSE "self_find")
    /\ UNCHANGED <<tables, env>>

\* enterWithExistingAccount: AuthService.login, which looks the account up again.
Login(p) ==
    /\ At(p, "login")
    /\ Account(req[p].e) # 0
    /\ Carry(p, "self_find", Account(req[p].e), NoRow)
    /\ UNCHANGED <<tables, env>>

LoginRefused(p) == At(p, "login") /\ Fail(p)

\* What follows createSelfRegistered: the answer, or AuthService.register.
AfterSelf(p) == IF req[p].user = 0 THEN "register_find" ELSE "entered"

SelfFind(p) ==
    LET s == SlotOf(req[p]) IN
    /\ At(p, "self_find")
    /\ IF Exists(s) THEN Carry(p, AfterSelf(p), req[p].user, invitations[s])
                    ELSE Goto(p, "self_insert")
    /\ UNCHANGED <<tables, env>>

\* Mutant of SelfInsert: candidateId is left to a backfill that never comes.
SelfInsertUnlinked(p) ==
    LET s == SlotOf(req[p]) IN
    /\ At(p, "self_insert")
    /\ ~Locked(s)
    /\ Free(s)
    /\ Insert(s, 0, "self")
    /\ Carry(p, AfterSelf(p), req[p].user, invitations'[s])
    /\ UNCHANGED <<users, attempts, env>>

SelfInsert(p) ==
    LET s == SlotOf(req[p]) IN
    /\ At(p, "self_insert")
    /\ ~Locked(s)
    /\ \/ /\ Free(s) /\ Referable(req[p].user, req[p].e)
          /\ Insert(s, req[p].user, "self")
          /\ Carry(p, AfterSelf(p), req[p].user, invitations'[s])
          /\ UNCHANGED <<users, attempts, env>>
       \/ /\ ~(Free(s) /\ Referable(req[p].user, req[p].e))
          /\ Fail(p)

RegisterFind(p) ==
    /\ At(p, "register_find")
    /\ IF Account(req[p].e) # 0 THEN Throws(p) ELSE Goto(p, "register_gate")
    /\ UNCHANGED <<tables, env>>

RegisterGate(p) ==
    /\ At(p, "register_gate")
    /\ IF Invited(req[p].e) THEN Goto(p, "register_create") ELSE Throws(p)
    /\ UNCHANGED <<tables, env>>

RegisterCreate(p) == At(p, "register_create") /\ CreateAccount(p, "own")

\* The last await of register inside the try.
IssueTokens(p) ==
    /\ At(p, "issue_tokens")
    /\ Goto(p, "entered")
    /\ UNCHANGED <<tables, env>>

\* discardSelfRegistered: one conditional DELETE.
Discard(p) ==
    LET s == SlotOf(req[p])
        hit == /\ invitations[s].id = req[p].row.id
               /\ invitations[s].source = "self"
               /\ invitations[s].status = "pending"
               /\ attempts[s] = 0
    IN
    /\ At(p, "discard")
    /\ ~Locked(s)
    /\ invitations' = IF hit THEN [invitations EXCEPT ![s] = NoRow] ELSE invitations
    /\ Done(p)
    /\ UNCHANGED <<users, attempts, issued, env>>

\* The answer carries the invitation's id.
Answer(p) == At(p, "entered") /\ Done(p) /\ UNCHANGED <<tables, env>>

(***************************************************************************)
(* A recruiter removes an invitation: remove, deleteProvisionedIfUnused    *)
(***************************************************************************)
RemoveFind(p) ==
    LET s == SlotOf(req[p]) IN
    /\ At(p, "remove_find")
    /\ IF Exists(s) THEN Carry(p, "remove_check", 0, invitations[s]) ELSE Done(p)
    /\ UNCHANGED <<tables, env>>

\* Mutant of Started: the invitation's status is trusted.
StartedByStatus(p) ==
    LET s == SlotOf(req[p]) IN
    invitations[s].id = req[p].row.id /\ invitations[s].status = "started"

\* Whether an attempt references the invitation this request read.
Started(p) ==
    LET s == SlotOf(req[p]) IN
    invitations[s].id = req[p].row.id /\ attempts[s] # 0

RemoveCheck(p) ==
    /\ At(p, "remove_check")
    /\ IF Started(p) THEN Done(p) ELSE Goto(p, "remove_delete")
    /\ UNCHANGED <<tables, env>>

RemoveDelete(p) ==
    LET s == SlotOf(req[p]) IN
    /\ At(p, "remove_delete")
    /\ ~Locked(s)
    /\ \/ /\ ~Started(p)
          /\ invitations' = IF invitations[s].id = req[p].row.id
                            THEN [invitations EXCEPT ![s] = NoRow] ELSE invitations
          /\ Goto(p, "unused_find")
          /\ UNCHANGED <<users, attempts, issued, env>>
       \/ Started(p) /\ Fail(p)

\* Mutant of UnusedFind: the flag is read the wrong way round.
UnusedFindInverted(p) ==
    LET e == req[p].e IN
    /\ At(p, "unused_find")
    /\ IF users[e].state = "own"
       THEN Carry(p, "unused_count", Account(e), req[p].row)
       ELSE Done(p)
    /\ UNCHANGED <<tables, env>>

UnusedFind(p) ==
    LET e == req[p].e IN
    /\ At(p, "unused_find")
    /\ IF users[e].state = "fresh"
       THEN Carry(p, "unused_count", Account(e), req[p].row)
       ELSE Done(p)
    /\ UNCHANGED <<tables, env>>

\* Mutant of UnusedCount: the other companies' invitations are not counted.
UnusedCountOwn(p) ==
    LET e == req[p].e IN
    /\ At(p, "unused_count")
    /\ IF Exists(SlotOf(req[p])) \/ \E a \in Assessments : attempts[<<a, e>>] = req[p].user
       THEN Done(p) ELSE Goto(p, "unused_delete")
    /\ UNCHANGED <<tables, env>>

UnusedCount(p) ==
    LET e == req[p].e IN
    /\ At(p, "unused_count")
    /\ IF Invited(e) \/ \E a \in Assessments : attempts[<<a, e>>] = req[p].user
       THEN Done(p) ELSE Goto(p, "unused_delete")
    /\ UNCHANGED <<tables, env>>

UnusedDelete(p) ==
    LET e == req[p].e IN
    /\ At(p, "unused_delete")
    /\ \A s \in Linked(e, req[p].user) : ~Locked(s)
    /\ \/ /\ Deletable(e, req[p].user)
          /\ DeleteUser(e, req[p].user, {})
          /\ Done(p)
          /\ UNCHANGED <<issued, env>>
       \/ ~Deletable(e, req[p].user) /\ Fail(p)

(***************************************************************************)
(* A recruiter reschedules or revokes an invitation                        *)
(***************************************************************************)
RescheduleFind(p) ==
    LET s == SlotOf(req[p]) IN
    /\ At(p, "reschedule_find")
    /\ IF Exists(s) THEN Carry(p, "reschedule_save", 0, invitations[s]) ELSE Done(p)
    /\ UNCHANGED <<tables, env>>

\* save() writes every column of the copy that differs; a row that is gone
\* is inserted again.
RescheduleSave(p) ==
    LET s == SlotOf(req[p])
        row == req[p].row
        mayWrite == /\ Free(s) \/ invitations[s].id = row.id
                    /\ Referable(row.cand, req[p].e)
    IN
    /\ At(p, "reschedule_save")
    /\ ~Locked(s)
    /\ invitations' = IF mayWrite THEN [invitations EXCEPT ![s] = row] ELSE invitations
    /\ Done(p)
    /\ UNCHANGED <<users, attempts, issued, env>>

RevokeFind(p) ==
    LET s == SlotOf(req[p]) IN
    /\ At(p, "revoke_find")
    /\ IF Exists(s) /\ invitations[s].status # "revoked"
       THEN Carry(p, "revoke_update", 0, invitations[s]) ELSE Done(p)
    /\ UNCHANGED <<tables, env>>

RevokeUpdate(p) ==
    LET s == SlotOf(req[p]) IN
    /\ At(p, "revoke_update")
    /\ ~Locked(s)
    /\ invitations' = IF invitations[s].id = req[p].row.id
                      THEN [invitations EXCEPT ![s].status = "revoked"]
                      ELSE invitations
    /\ Done(p)
    /\ UNCHANGED <<users, attempts, issued, env>>

(***************************************************************************)
(* A recruiter deletes a person: deletePerson                              *)
(***************************************************************************)
\* findVisibleOrThrow: an invitation of this company names the person.
PersonFind(p) ==
    LET e == req[p].e IN
    /\ At(p, "person_find")
    /\ IF Account(e) # 0 /\ Exists(SlotOf(req[p]))
       THEN Carry(p, "person_count", Account(e), NoRow) ELSE Done(p)
    /\ UNCHANGED <<tables, env>>

\* The transaction: the company's attempts and invitations deleted, which
\* nobody else sees before the commit, and the invitations left counted.
PersonCount(p) ==
    LET s == SlotOf(req[p]) IN
    /\ At(p, "person_count")
    /\ ~Locked(s)
    /\ Carry(p, IF \E a \in Assessments \ {req[p].a} : Exists(<<a, req[p].e>>)
                THEN "person_commit" ELSE "person_erase",
             req[p].user, invitations[s])
    /\ UNCHANGED <<tables, env>>

Doomed(p) == IF req[p].row = NoRow THEN {} ELSE {SlotOf(req[p])}

\* Another company counts on the person: the account stays.
PersonCommit(p) ==
    /\ At(p, "person_commit")
    /\ invitations' = [s \in Slots |-> IF s \in Doomed(p) THEN NoRow ELSE invitations[s]]
    /\ attempts' = [s \in Slots |-> IF s \in Doomed(p) THEN 0 ELSE attempts[s]]
    /\ Done(p)
    /\ UNCHANGED <<users, issued, env>>

PersonErase(p) ==
    LET e == req[p].e
        u == req[p].user
        refused == \E s \in Linked(e, u) \ Doomed(p) : attempts[s] # 0
    IN
    /\ At(p, "person_erase")
    /\ \A s \in Linked(e, u) \ Doomed(p) : ~Locked(s)
    /\ \/ /\ ~refused
          /\ DeleteUser(e, u, Doomed(p))
          /\ Done(p)
          /\ UNCHANGED <<issued, env>>
       \/ refused /\ Fail(p)

(***************************************************************************)
(* A recruiter creates a candidate's account: createByAdmin                *)
(***************************************************************************)
AdminFind(p) ==
    /\ At(p, "admin_find")
    /\ IF Account(req[p].e) # 0 THEN Done(p) ELSE Goto(p, "admin_create")
    /\ UNCHANGED <<tables, env>>

AdminCreate(p) ==
    LET e == req[p].e IN
    /\ At(p, "admin_create")
    /\ users' = IF Account(e) = 0
                THEN [users EXCEPT ![e] = [gen |-> @.gen + 1, state |-> "own"]]
                ELSE users
    /\ Done(p)
    /\ UNCHANGED <<invitations, attempts, issued, env>>

(***************************************************************************)
(* The candidate, and the environment                                      *)
(***************************************************************************)
\* changePassword, or a redeemed reset link.
ChoosePassword(e) ==
    /\ users[e].state = "fresh"
    /\ users' = [users EXCEPT ![e].state = "own"]
    /\ UNCHANGED <<invitations, attempts, req, issued, env>>

\* POST /sessions/start, whose own steps SessionRuntime models.
Start(s) ==
    /\ Exists(s) /\ ~Locked(s)
    /\ invitations[s].cand # 0
    /\ invitations[s].cand = Account(s[2])
    /\ invitations[s].status # "revoked"
    /\ attempts[s] = 0
    /\ attempts' = [attempts EXCEPT ![s] = invitations[s].cand]
    /\ invitations' = [invitations EXCEPT ![s].status = "started"]
    /\ UNCHANGED <<users, req, issued, env>>

\* A query fails (a transaction rolls back), or the process dies.
Cut(p) ==
    /\ ~At(p, "idle")
    /\ faults < MaxFaults
    /\ faults' = faults + 1
    /\ disturbed' = disturbed \cup {req[p].e}
    /\ Throws(p) \/ Done(p)
    /\ UNCHANGED <<tables, calls>>

Step(p) ==
    \/ InviteFind(p) \/ InviteCheck(p) \/ InviteInsert(p)
    \/ ProvisionFind(p) \/ ProvisionCreate(p) \/ Link(p)
    \/ EnterOpen(p) \/ EnterFind(p) \/ Login(p) \/ LoginRefused(p)
    \/ SelfFind(p) \/ SelfInsert(p)
    \/ RegisterFind(p) \/ RegisterGate(p) \/ RegisterCreate(p)
    \/ IssueTokens(p) \/ Discard(p) \/ Answer(p)
    \/ RemoveFind(p) \/ RemoveCheck(p) \/ RemoveDelete(p)
    \/ UnusedFind(p) \/ UnusedCount(p) \/ UnusedDelete(p)
    \/ RescheduleFind(p) \/ RescheduleSave(p)
    \/ RevokeFind(p) \/ RevokeUpdate(p)
    \/ PersonFind(p) \/ PersonCount(p) \/ PersonCommit(p) \/ PersonErase(p)
    \/ AdminFind(p) \/ AdminCreate(p)
    \/ Cut(p)

Next ==
    \/ \E p \in Requests, k \in Kinds, a \in Assessments \cup {NoAssessment},
          e \in Emails : Arrive(p, k, a, e)
    \/ \E p \in Requests : Step(p)
    \/ \E e \in Emails : ChoosePassword(e)
    \/ \E s \in Slots : Start(s)

Spec == Init /\ [][Next]_vars

=============================================================================
