-------------------------- MODULE Admission_proofs --------------------------
(***************************************************************************)
(* Theorems of Admission for any number of companies, addresses and        *)
(* overlapping requests, whichever of them fail, and of Entrance for any   *)
(* candidates, recruiters' requests, dates and tokens.                     *)
(***************************************************************************)
EXTENDS AdmissionSafety, Entrance, FiniteSetTheorems, TLAPS

(***************************************************************************)
(* The requests.  TypeOK is not inductive: a request that reads or writes  *)
(* a slot must name one, and one that updates a row must hold its copy.    *)
(***************************************************************************)
NamesAddress == Labels \ {"idle"}

NamesSlot ==
    {"invite_find", "invite_check", "invite_insert", "enter_open", "enter_find",
     "login", "self_find", "self_insert", "issue_tokens", "discard", "entered",
     "remove_find", "remove_check", "remove_delete", "reschedule_find",
     "reschedule_save", "revoke_find", "revoke_update", "person_find",
     "person_count", "person_commit", "person_erase"}

HoldsRow == {"reschedule_save", "revoke_update"}

Sound(r) ==
    /\ r \in Request
    /\ r.pc \in NamesAddress => r.e \in Emails
    /\ r.pc \in NamesSlot \/ r.op = "enter" => r.a \in Assessments
    /\ r.pc \in HoldsRow => r.row.id # 0

RequestsAreSound ==
    /\ req \in [Requests -> Request]
    /\ \A p \in Requests : Sound(req[p])

\* Reusing a slot of the server keeps every request sound.
LEMMA UpdateIsSound ==
    ASSUME RequestsAreSound, NEW p \in Requests, NEW r, Sound(r),
           req' = [req EXCEPT ![p] = r]
    PROVE  RequestsAreSound'
BY DEF RequestsAreSound, Sound, Request

LEMMA IdleIsSound == Sound(Idle)
BY DEF Sound, Idle, NoRow, Request, Row, Labels, NamesAddress, NamesSlot, HoldsRow, Operations

LEMMA DoneIsSound ==
    ASSUME RequestsAreSound, NEW p \in Requests, Done(p)
    PROVE  RequestsAreSound'
BY IdleIsSound, UpdateIsSound DEF Done

\* A request moves on to a label whose demands it meets already.
LEMMA GotoIsSound ==
    ASSUME RequestsAreSound, NEW p \in Requests, NEW label \in Labels,
           ~At(p, "idle"), label \notin HoldsRow,
           label \in NamesSlot => req[p].a \in Assessments,
           Goto(p, label)
    PROVE  RequestsAreSound'
<1> DEFINE r == [req[p] EXCEPT !.pc = label]
<1>1. /\ Sound(req[p])
      /\ req[p] \in Request
  BY DEF RequestsAreSound
<1>2. req' = [req EXCEPT ![p] = r]
  BY DEF Goto
<1>3. Sound(r)
  BY <1>1 DEF Sound, Request, At, NamesAddress
<1> QED
  BY <1>2, <1>3, UpdateIsSound

LEMMA CarryIsSound ==
    ASSUME RequestsAreSound, NEW p \in Requests, NEW label \in Labels,
           NEW u \in Nat, NEW row \in Row,
           ~At(p, "idle"),
           label \in HoldsRow => row.id # 0,
           label \in NamesSlot => req[p].a \in Assessments,
           Carry(p, label, u, row)
    PROVE  RequestsAreSound'
<1> DEFINE r == [req[p] EXCEPT !.pc = label, !.user = u, !.row = row]
<1>1. /\ Sound(req[p])
      /\ req[p] \in Request
  BY DEF RequestsAreSound
<1>2. req' = [req EXCEPT ![p] = r]
  BY DEF Carry
<1>3. Sound(r)
  BY <1>1 DEF Sound, Request, At, NamesAddress
<1> QED
  BY <1>2, <1>3, UpdateIsSound

LEMMA ThrowsIsSound ==
    ASSUME RequestsAreSound, NEW p \in Requests, ~At(p, "idle"), Throws(p)
    PROVE  RequestsAreSound'
<1>1. CASE Done(p)
  BY <1>1, DoneIsSound
<1>2. CASE req[p].op = "enter" /\ Goto(p, "discard")
  <2>1. /\ req[p].a \in Assessments
        /\ "discard" \in Labels
        /\ "discard" \notin HoldsRow
    BY <1>2 DEF RequestsAreSound, Sound, Labels, HoldsRow
  <2> QED
    BY <1>2, <2>1, GotoIsSound
<1> QED
  BY <1>1, <1>2 DEF Throws

\* A request that names a slot of the tables.
LEMMA SlotIsNamed ==
    ASSUME RequestsAreSound, NEW p \in Requests, req[p].pc \in NamesSlot
    PROVE  /\ req[p].a \in Assessments
           /\ req[p].e \in Emails
           /\ SlotOf(req[p]) \in Slots
           /\ SlotOf(req[p])[2] = req[p].e
           /\ req[p].row \in Row
           /\ req[p].user \in Nat
BY DEF RequestsAreSound, Sound, SlotOf, Slots, NamesSlot, NamesAddress, Labels, Request

(***************************************************************************)
(* The tables.  Every write any handler makes keeps the links and the      *)
(* attempts on living accounts.                                            *)
(***************************************************************************)
TablesAreTyped ==
    /\ users \in [Emails -> [gen: Nat, state: {"none", "fresh", "own"}]]
    /\ invitations \in [Slots -> Row]
    /\ attempts \in [Slots -> Nat]
    /\ issued \in [Slots -> Nat]

EmptyIsBlank == \A s \in Slots : ~Exists(s) => invitations[s] = NoRow

Consistent == TablesAreTyped /\ NothingDangles /\ EmptyIsBlank

LEMMA AccountType ==
    ASSUME TablesAreTyped, NEW e \in Emails
    PROVE  Account(e) \in Nat
BY DEF TablesAreTyped, Account

LEMMA SlotAddress ==
    ASSUME NEW s \in Slots
    PROVE  s[2] \in Emails
BY DEF Slots

LEMMA NoRowType == NoRow \in Row
BY DEF NoRow, Row

\* A new row is linked to nobody or to the account of its address.
LEMMA InsertKeeps ==
    ASSUME Consistent, NEW s \in Slots, NEW cand \in Nat,
           NEW source \in {"self", "recruiter"},
           Free(s), Referable(cand, s[2]),
           Insert(s, cand, source), UNCHANGED <<users, attempts>>
    PROVE  Consistent'
<1> DEFINE row == [id |-> issued[s] + 1, cand |-> cand, source |-> source,
                   status |-> "pending"]
<1>1. /\ row \in Row
      /\ row.id # 0
      /\ issued[s] + 1 \in Nat
  BY DEF Consistent, TablesAreTyped, Row
<1>2. /\ invitations' = [invitations EXCEPT ![s] = row]
      /\ issued' = [issued EXCEPT ![s] = @ + 1]
  BY DEF Insert
<1>3. row.cand = cand
  OBVIOUS
<1>4. TablesAreTyped'
  <2> HIDE DEF row
  <2> QED
    BY <1>1, <1>2 DEF Consistent, TablesAreTyped
<1>5. NothingDangles'
  <2> HIDE DEF row
  <2> QED
    BY <1>1, <1>2, <1>3 DEF Consistent, TablesAreTyped, NothingDangles, Referable,
          Account, Exists
<1>6. EmptyIsBlank'
  <2> HIDE DEF row
  <2> QED
    BY <1>1, <1>2 DEF Consistent, TablesAreTyped, EmptyIsBlank, Exists
<1> QED
  BY <1>4, <1>5, <1>6 DEF Consistent

\* Any set of rows without attempts may be deleted.
LEMMA DeleteKeeps ==
    ASSUME Consistent, NEW gone \in SUBSET Slots,
           invitations' = [s \in Slots |-> IF s \in gone THEN NoRow ELSE invitations[s]],
           attempts' = [s \in Slots |-> IF s \in gone THEN 0 ELSE attempts[s]],
           UNCHANGED <<users, issued>>
    PROVE  Consistent'
<1>1. TablesAreTyped'
  BY NoRowType DEF Consistent, TablesAreTyped
<1>2. NothingDangles'
  BY DEF Consistent, TablesAreTyped, NothingDangles, Account, Exists, NoRow
<1>3. EmptyIsBlank'
  BY DEF Consistent, EmptyIsBlank, Exists
<1> QED
  BY <1>1, <1>2, <1>3 DEF Consistent

\* A new account meets no link and no attempt of an earlier one.
LEMMA NewAccountKeeps ==
    ASSUME Consistent, NEW e \in Emails, NEW state \in {"fresh", "own"},
           Account(e) = 0,
           NewAccount(e, state), UNCHANGED <<invitations, attempts, issued>>
    PROVE  Consistent'
<1>1. TablesAreTyped'
  BY DEF Consistent, TablesAreTyped, NewAccount
<1>2. ASSUME NEW s \in Slots
      PROVE  /\ invitations[s].cand # 0 => Account(s[2])' = Account(s[2])
             /\ attempts[s] # 0 => Account(s[2])' = Account(s[2])
  BY SlotAddress DEF Consistent, TablesAreTyped, NothingDangles, NewAccount, Account
<1>3. NothingDangles'
  BY <1>2 DEF Consistent, NothingDangles, Exists
<1>4. EmptyIsBlank'
  BY DEF Consistent, EmptyIsBlank, Exists
<1> QED
  BY <1>1, <1>3, <1>4 DEF Consistent

\* A deleted account takes the invitations and the attempts that name it along.
LEMMA DeleteUserKeeps ==
    ASSUME Consistent, NEW e \in Emails, NEW u \in Nat, NEW gone \in SUBSET Slots,
           \A s \in Linked(e, u) \ gone : attempts[s] = 0,
           DeleteUser(e, u, gone), UNCHANGED issued
    PROVE  Consistent'
<1>1. TablesAreTyped'
  BY NoRowType DEF Consistent, TablesAreTyped, DeleteUser, Linked
<1>2. ASSUME NEW s \in Slots, invitations'[s].cand # 0
      PROVE  invitations'[s].cand = Account(s[2])'
  <2>1. /\ s \notin gone \cup Linked(e, u)
        /\ invitations'[s] = invitations[s]
    BY <1>2 DEF DeleteUser, NoRow
  <2>2. invitations[s].cand = Account(s[2])
    BY <1>2, <2>1 DEF Consistent, NothingDangles
  <2>3. CASE s[2] = e /\ Exists(s)
    BY <2>1, <2>2, <2>3 DEF Linked, DeleteUser, Account
  <2>4. CASE s[2] = e /\ ~Exists(s)
    BY <2>1, <2>4, <1>2 DEF Consistent, EmptyIsBlank, NoRow
  <2>5. CASE s[2] # e
    BY <2>1, <2>2, <2>5, SlotAddress DEF DeleteUser, Account, Consistent, TablesAreTyped
  <2> QED
    BY <2>3, <2>4, <2>5
<1>3. ASSUME NEW s \in Slots, attempts'[s] # 0
      PROVE  Exists(s)' /\ attempts'[s] = Account(s[2])'
  <2>1. /\ s \notin gone
        /\ ~(s[2] = e /\ attempts[s] = u)
        /\ attempts'[s] = attempts[s]
    BY <1>3 DEF DeleteUser
  <2>2. Exists(s) /\ attempts[s] = Account(s[2])
    BY <1>3, <2>1 DEF Consistent, NothingDangles
  <2>3. s \notin Linked(e, u)
    BY <1>3, <2>1
  <2>4. invitations'[s] = invitations[s]
    BY <2>1, <2>3 DEF DeleteUser
  <2>5. Account(s[2])' = Account(s[2])
    BY <2>1, <2>2, SlotAddress DEF DeleteUser, Account, Consistent, TablesAreTyped
  <2> QED
    BY <2>1, <2>2, <2>4, <2>5 DEF Exists
<1>4. EmptyIsBlank'
  BY DEF Consistent, EmptyIsBlank, Exists, DeleteUser
<1> QED
  BY <1>1, <1>2, <1>3, <1>4 DEF Consistent, NothingDangles

\* linkUserToInvitations links rows that were linked to nobody.
LEMMA LinkKeeps ==
    ASSUME Consistent, NEW e \in Emails, NEW u \in Nat,
           Unlinked(e) = {} \/ Referable(u, e),
           invitations' = [s \in Slots |-> IF s \in Unlinked(e)
                                            THEN [invitations[s] EXCEPT !.cand = u]
                                            ELSE invitations[s]],
           UNCHANGED <<users, attempts, issued>>
    PROVE  Consistent'
<1>1. ASSUME NEW s \in Slots
      PROVE  /\ invitations'[s] \in Row
             /\ invitations'[s].id = invitations[s].id
             /\ s \notin Unlinked(e) => invitations'[s] = invitations[s]
             /\ s \in Unlinked(e) => /\ invitations'[s].cand = u
                                      /\ Referable(u, s[2])
                                      /\ Exists(s)
  BY DEF Consistent, TablesAreTyped, Row, Unlinked
<1>2. TablesAreTyped'
  BY <1>1 DEF Consistent, TablesAreTyped
<1>3. NothingDangles'
  BY <1>1 DEF Consistent, NothingDangles, Account, Exists, Referable
<1>4. EmptyIsBlank'
  BY <1>1 DEF Consistent, EmptyIsBlank, Exists
<1> QED
  BY <1>2, <1>3, <1>4 DEF Consistent

\* Writing a row whole is safe while its link can be referenced.
LEMMA SaveKeeps ==
    ASSUME Consistent, NEW s \in Slots, NEW row \in Row,
           row.id # 0, Referable(row.cand, s[2]),
           invitations' = [invitations EXCEPT ![s] = row],
           UNCHANGED <<users, attempts, issued>>
    PROVE  Consistent'
<1>1. TablesAreTyped'
  BY DEF Consistent, TablesAreTyped
<1>2. NothingDangles'
  BY DEF Consistent, TablesAreTyped, NothingDangles, Account, Exists, Referable
<1>3. EmptyIsBlank'
  BY DEF Consistent, TablesAreTyped, EmptyIsBlank, Exists
<1> QED
  BY <1>1, <1>2, <1>3 DEF Consistent

\* A status is written without disturbing the rest of the row.
LEMMA StatusKeeps ==
    ASSUME Consistent, NEW s \in Slots, NEW status \in {"revoked", "started"},
           Exists(s),
           invitations' = [invitations EXCEPT ![s].status = status],
           UNCHANGED <<users, attempts, issued>>
    PROVE  Consistent'
<1> DEFINE row == [invitations[s] EXCEPT !.status = status]
<1>1. /\ row \in Row
      /\ row.id # 0
      /\ row.cand = invitations[s].cand
  BY DEF Consistent, TablesAreTyped, Row, Exists
<1>2. Referable(row.cand, s[2])
  BY <1>1 DEF Consistent, NothingDangles, Referable
<1>3. invitations' = [invitations EXCEPT ![s] = row]
  OBVIOUS
<1> HIDE DEF row
<1> QED
  BY <1>1, <1>2, <1>3, SaveKeeps

LEMMA SameTablesKeep ==
    ASSUME Consistent, UNCHANGED tables
    PROVE  Consistent'
BY DEF Consistent, TablesAreTyped, NothingDangles, EmptyIsBlank, tables, Account, Exists

(***************************************************************************)
(* Every step keeps the requests sound                                     *)
(***************************************************************************)

\* A recruiter's request.
LEMMA RecruiterIsSound ==
    ASSUME RequestsAreSound, Consistent, NEW p \in Requests,
           \/ InviteFind(p) \/ InviteCheck(p) \/ InviteInsert(p)
           \/ RemoveFind(p) \/ RemoveCheck(p) \/ RemoveDelete(p)
           \/ UnusedFind(p) \/ UnusedCount(p) \/ UnusedDelete(p)
           \/ RescheduleFind(p) \/ RescheduleSave(p)
           \/ RevokeFind(p) \/ RevokeUpdate(p)
           \/ PersonFind(p) \/ PersonCount(p) \/ PersonCommit(p) \/ PersonErase(p)
           \/ AdminFind(p) \/ AdminCreate(p)
    PROVE  RequestsAreSound'
<1> USE DEF At
<1>1. CASE InviteFind(p)
  <2>1. req[p].a \in Assessments /\ req[p].e \in Emails
    BY <1>1, SlotIsNamed DEF InviteFind, NamesSlot
  <2> QED
    BY <1>1, <2>1, CarryIsSound, AccountType, NoRowType
       DEF InviteFind, Labels, HoldsRow, Consistent
<1>2. CASE InviteCheck(p) \/ RemoveCheck(p) \/ RemoveDelete(p)
  <2>1. req[p].a \in Assessments
    BY <1>2, SlotIsNamed DEF InviteCheck, RemoveCheck, RemoveDelete, NamesSlot
  <2> QED
    BY <1>2, <2>1, GotoIsSound, DoneIsSound, ThrowsIsSound
       DEF InviteCheck, RemoveCheck, RemoveDelete, Fail, Labels, HoldsRow
<1>3. CASE InviteInsert(p)
  BY <1>3, GotoIsSound, ThrowsIsSound
     DEF InviteInsert, Fail, Labels, HoldsRow, NamesSlot
<1>4. CASE RemoveFind(p) \/ RescheduleFind(p) \/ RevokeFind(p)
  <2>1. /\ req[p].a \in Assessments
        /\ SlotOf(req[p]) \in Slots
    BY <1>4, SlotIsNamed DEF RemoveFind, RescheduleFind, RevokeFind, NamesSlot
  <2>2. invitations[SlotOf(req[p])] \in Row
    BY <2>1 DEF Consistent, TablesAreTyped
  <2> QED
    BY <1>4, <2>1, <2>2, CarryIsSound, DoneIsSound
       DEF RemoveFind, RescheduleFind, RevokeFind, Labels, HoldsRow, Exists
<1>5. CASE UnusedFind(p)
  <2>1. req[p].e \in Emails /\ req[p].row \in Row
    BY <1>5 DEF UnusedFind, RequestsAreSound, Sound, NamesAddress, Request
  <2> QED
    BY <1>5, <2>1, CarryIsSound, DoneIsSound, AccountType
       DEF UnusedFind, Labels, HoldsRow, NamesSlot, Consistent
<1>6. CASE UnusedCount(p) \/ AdminFind(p)
  BY <1>6, GotoIsSound, DoneIsSound
     DEF UnusedCount, AdminFind, Labels, HoldsRow, NamesSlot
<1>7. CASE UnusedDelete(p) \/ PersonErase(p)
  BY <1>7, DoneIsSound, ThrowsIsSound DEF UnusedDelete, PersonErase, Fail
<1>8. CASE RescheduleSave(p) \/ RevokeUpdate(p) \/ PersonCommit(p) \/ AdminCreate(p)
  BY <1>8, DoneIsSound DEF RescheduleSave, RevokeUpdate, PersonCommit, AdminCreate
<1>9. CASE PersonFind(p)
  <2>1. req[p].a \in Assessments /\ req[p].e \in Emails
    BY <1>9, SlotIsNamed DEF PersonFind, NamesSlot
  <2> QED
    BY <1>9, <2>1, CarryIsSound, DoneIsSound, AccountType, NoRowType
       DEF PersonFind, Labels, HoldsRow, Consistent
<1>10. CASE PersonCount(p)
  <2>1. /\ req[p].a \in Assessments
        /\ SlotOf(req[p]) \in Slots
        /\ req[p].user \in Nat
    BY <1>10, SlotIsNamed DEF PersonCount, NamesSlot
  <2>2. invitations[SlotOf(req[p])] \in Row
    BY <2>1 DEF Consistent, TablesAreTyped
  <2>3. PICK label \in {"person_commit", "person_erase"} :
          Carry(p, label, req[p].user, invitations[SlotOf(req[p])])
    BY <1>10 DEF PersonCount
  <2>4. /\ label \in Labels
        /\ label \notin HoldsRow
        /\ ~At(p, "idle")
    BY <1>10, <2>3 DEF PersonCount, Labels, HoldsRow
  <2> QED
    BY <2>1, <2>2, <2>3, <2>4, CarryIsSound
<1> QED
  BY <1>1, <1>2, <1>3, <1>4, <1>5, <1>6, <1>7, <1>8, <1>9, <1>10

\* A candidate's request, and the steps it shares with an invite.
LEMMA CandidateIsSound ==
    ASSUME RequestsAreSound, Consistent, NEW p \in Requests,
           \/ ProvisionFind(p) \/ ProvisionCreate(p) \/ Link(p)
           \/ EnterOpen(p) \/ EnterFind(p) \/ Login(p) \/ LoginRefused(p)
           \/ SelfFind(p) \/ SelfInsert(p)
           \/ RegisterFind(p) \/ RegisterGate(p) \/ RegisterCreate(p)
           \/ IssueTokens(p) \/ Discard(p) \/ Answer(p)
    PROVE  RequestsAreSound'
<1> USE DEF At
<1>1. CASE ProvisionFind(p) \/ RegisterFind(p) \/ RegisterGate(p)
  BY <1>1, GotoIsSound, DoneIsSound, ThrowsIsSound
     DEF ProvisionFind, RegisterFind, RegisterGate, Labels, HoldsRow, NamesSlot
<1>2. CASE ProvisionCreate(p) \/ RegisterCreate(p)
  <2>1. /\ req[p].e \in Emails
        /\ req[p].row \in Row
        /\ ~At(p, "idle")
    BY <1>2 DEF ProvisionCreate, RegisterCreate, RequestsAreSound, Sound,
          NamesAddress, Labels, Request
  <2>2. users[req[p].e].gen + 1 \in Nat
    BY <2>1 DEF Consistent, TablesAreTyped
  <2>3. \/ Carry(p, "link", users[req[p].e].gen + 1, req[p].row)
        \/ Throws(p)
    BY <1>2 DEF ProvisionCreate, RegisterCreate, CreateAccount, Fail
  <2>4. "link" \in Labels /\ "link" \notin HoldsRow \cup NamesSlot
    BY DEF Labels, HoldsRow, NamesSlot
  <2> QED
    BY <2>1, <2>2, <2>3, <2>4, CarryIsSound, ThrowsIsSound
<1>3. CASE Link(p)
  <2>1. req[p].op = "enter" => req[p].a \in Assessments
    BY DEF RequestsAreSound, Sound
  <2> QED
    BY <1>3, <2>1, GotoIsSound, DoneIsSound, ThrowsIsSound
       DEF Link, Fail, Labels, HoldsRow
<1>4. CASE EnterOpen(p) \/ EnterFind(p) \/ IssueTokens(p)
  <2>1. req[p].a \in Assessments
    BY <1>4, SlotIsNamed DEF EnterOpen, EnterFind, IssueTokens, NamesSlot
  <2> QED
    BY <1>4, <2>1, GotoIsSound, DoneIsSound
       DEF EnterOpen, EnterFind, IssueTokens, Labels, HoldsRow
<1>5. CASE Login(p)
  <2>1. req[p].a \in Assessments /\ req[p].e \in Emails
    BY <1>5, SlotIsNamed DEF Login, NamesSlot
  <2> QED
    BY <1>5, <2>1, CarryIsSound, AccountType, NoRowType
       DEF Login, Labels, HoldsRow, Consistent
<1>6. CASE LoginRefused(p)
  BY <1>6, ThrowsIsSound DEF LoginRefused, Fail
<1>7. CASE SelfFind(p) \/ SelfInsert(p)
  <2>1. /\ req[p].a \in Assessments
        /\ req[p].e \in Emails
        /\ SlotOf(req[p]) \in Slots
        /\ req[p].user \in Nat
        /\ ~At(p, "idle")
    BY <1>7, SlotIsNamed DEF SelfFind, SelfInsert, NamesSlot
  <2>2. invitations[SlotOf(req[p])] \in Row
    BY <2>1 DEF Consistent, TablesAreTyped
  <2>3. [id |-> issued[SlotOf(req[p])] + 1, cand |-> req[p].user, source |-> "self",
         status |-> "pending"] \in Row
    BY <2>1 DEF Consistent, TablesAreTyped, Row
  <2>4. \/ \E row \in Row : Carry(p, AfterSelf(p), req[p].user, row)
        \/ Goto(p, "self_insert")
        \/ Throws(p)
    <3>1. CASE SelfFind(p)
      BY <2>2, <3>1 DEF SelfFind
    <3>2. CASE SelfInsert(p)
      BY <2>1, <2>3, <3>2 DEF SelfInsert, Insert, Fail, Consistent, TablesAreTyped
    <3> QED
      BY <1>7, <3>1, <3>2
  <2>5. /\ AfterSelf(p) \in Labels \ HoldsRow
        /\ "self_insert" \in Labels \ HoldsRow
    BY DEF AfterSelf, Labels, HoldsRow
  <2> QED
    BY <2>1, <2>4, <2>5, CarryIsSound, GotoIsSound, ThrowsIsSound
<1>8. CASE Discard(p) \/ Answer(p)
  BY <1>8, DoneIsSound DEF Discard, Answer
<1> QED
  BY <1>1, <1>2, <1>3, <1>4, <1>5, <1>6, <1>7, <1>8

(***************************************************************************)
(* Every step keeps the tables consistent                                  *)
(***************************************************************************)
LEMMA RecruiterKeeps ==
    ASSUME RequestsAreSound, Consistent, NEW p \in Requests,
           \/ InviteFind(p) \/ InviteCheck(p) \/ InviteInsert(p)
           \/ RemoveFind(p) \/ RemoveCheck(p) \/ RemoveDelete(p)
           \/ UnusedFind(p) \/ UnusedCount(p) \/ UnusedDelete(p)
           \/ RescheduleFind(p) \/ RescheduleSave(p)
           \/ RevokeFind(p) \/ RevokeUpdate(p)
           \/ PersonFind(p) \/ PersonCount(p) \/ PersonCommit(p) \/ PersonErase(p)
           \/ AdminFind(p) \/ AdminCreate(p)
    PROVE  Consistent'
<1> DEFINE s == SlotOf(req[p])
<1>1. CASE \/ InviteFind(p) \/ InviteCheck(p) \/ RemoveFind(p) \/ RemoveCheck(p)
           \/ UnusedFind(p) \/ UnusedCount(p) \/ RescheduleFind(p) \/ RevokeFind(p)
           \/ PersonFind(p) \/ PersonCount(p) \/ AdminFind(p)
  BY <1>1, SameTablesKeep DEF InviteFind, InviteCheck, RemoveFind, RemoveCheck,
     UnusedFind, UnusedCount, RescheduleFind, RevokeFind, PersonFind, PersonCount, AdminFind
<1>2. CASE InviteInsert(p)
  <2>1. /\ s \in Slots
        /\ s[2] = req[p].e
        /\ req[p].user \in Nat
    BY <1>2, SlotIsNamed DEF InviteInsert, At, NamesSlot
  <2>2. CASE /\ Free(s) /\ Referable(req[p].user, req[p].e)
             /\ Insert(s, req[p].user, "recruiter")
             /\ UNCHANGED <<users, attempts>>
    BY <2>1, <2>2, InsertKeeps
  <2>3. CASE UNCHANGED tables
    BY <2>3, SameTablesKeep
  <2> QED
    BY <1>2, <2>2, <2>3 DEF InviteInsert, Fail
<1>3. CASE RemoveDelete(p)
  <2>1. s \in Slots
    BY <1>3, SlotIsNamed DEF RemoveDelete, At, NamesSlot
  <2>2. CASE UNCHANGED tables
    BY <2>2, SameTablesKeep
  <2>3. CASE /\ ~Started(p)
             /\ invitations[s].id = req[p].row.id
             /\ invitations' = [invitations EXCEPT ![s] = NoRow]
             /\ UNCHANGED <<users, attempts, issued>>
    <3>1. attempts[s] = 0
      BY <2>3 DEF Started
    <3>2. /\ invitations' = [x \in Slots |-> IF x \in {s} THEN NoRow ELSE invitations[x]]
          /\ attempts' = [x \in Slots |-> IF x \in {s} THEN 0 ELSE attempts[x]]
      BY <2>1, <2>3, <3>1 DEF Consistent, TablesAreTyped
    <3> QED
      BY <2>1, <2>3, <3>2, DeleteKeeps
  <2> QED
    BY <1>3, <2>2, <2>3 DEF RemoveDelete, Fail, tables
<1>4. CASE UnusedDelete(p)
  <2>1. req[p].e \in Emails /\ req[p].user \in Nat
    BY <1>4 DEF UnusedDelete, At, RequestsAreSound, Sound, NamesAddress, Labels, Request
  <2>2. CASE UNCHANGED tables
    BY <2>2, SameTablesKeep
  <2>3. CASE /\ Deletable(req[p].e, req[p].user)
             /\ DeleteUser(req[p].e, req[p].user, {})
             /\ UNCHANGED issued
    BY <2>1, <2>3, DeleteUserKeeps DEF Deletable
  <2> QED
    BY <1>4, <2>2, <2>3 DEF UnusedDelete, Fail
<1>5. CASE RescheduleSave(p)
  <2>1. /\ s \in Slots
        /\ s[2] = req[p].e
        /\ req[p].row \in Row
        /\ req[p].row.id # 0
    BY <1>5, SlotIsNamed DEF RescheduleSave, At, NamesSlot, RequestsAreSound, Sound, HoldsRow
  <2>2. CASE /\ Referable(req[p].row.cand, req[p].e)
             /\ invitations' = [invitations EXCEPT ![s] = req[p].row]
             /\ UNCHANGED <<users, attempts, issued>>
    BY <2>1, <2>2, SaveKeeps
  <2>3. CASE UNCHANGED tables
    BY <2>3, SameTablesKeep
  <2> QED
    BY <1>5, <2>2, <2>3 DEF RescheduleSave, tables
<1>6. CASE RevokeUpdate(p)
  <2>1. /\ s \in Slots
        /\ req[p].row.id # 0
    BY <1>6, SlotIsNamed DEF RevokeUpdate, At, NamesSlot, RequestsAreSound, Sound, HoldsRow
  <2>2. CASE /\ Exists(s)
             /\ invitations' = [invitations EXCEPT ![s].status = "revoked"]
             /\ UNCHANGED <<users, attempts, issued>>
    BY <2>1, <2>2, StatusKeeps
  <2>3. CASE UNCHANGED tables
    BY <2>3, SameTablesKeep
  <2> QED
    BY <1>6, <2>1, <2>2, <2>3 DEF RevokeUpdate, tables, Exists
<1>7. CASE PersonCommit(p)
  <2>1. Doomed(p) \in SUBSET Slots
    BY <1>7, SlotIsNamed DEF PersonCommit, At, NamesSlot, Doomed
  <2> QED
    BY <1>7, <2>1, DeleteKeeps DEF PersonCommit
<1>8. CASE PersonErase(p)
  <2>1. /\ Doomed(p) \in SUBSET Slots
        /\ req[p].e \in Emails
        /\ req[p].user \in Nat
    BY <1>8, SlotIsNamed DEF PersonErase, At, NamesSlot, Doomed
  <2>2. CASE UNCHANGED tables
    BY <2>2, SameTablesKeep
  <2>3. CASE /\ \A x \in Linked(req[p].e, req[p].user) \ Doomed(p) : attempts[x] = 0
             /\ DeleteUser(req[p].e, req[p].user, Doomed(p))
             /\ UNCHANGED issued
    BY <2>1, <2>3, DeleteUserKeeps
  <2> QED
    BY <1>8, <2>2, <2>3 DEF PersonErase, Fail
<1>9. CASE AdminCreate(p)
  <2>1. req[p].e \in Emails
    BY <1>9 DEF AdminCreate, At, RequestsAreSound, Sound, NamesAddress, Labels
  <2>2. CASE Account(req[p].e) = 0 /\ NewAccount(req[p].e, "own")
    BY <1>9, <2>1, <2>2, NewAccountKeeps DEF AdminCreate
  <2>3. CASE UNCHANGED users
    BY <1>9, <2>3, SameTablesKeep DEF AdminCreate, tables
  <2> QED
    BY <1>9, <2>2, <2>3 DEF AdminCreate, NewAccount
<1> QED
  BY <1>1, <1>2, <1>3, <1>4, <1>5, <1>6, <1>7, <1>8, <1>9

LEMMA CandidateKeeps ==
    ASSUME RequestsAreSound, Consistent, NEW p \in Requests,
           \/ ProvisionFind(p) \/ ProvisionCreate(p) \/ Link(p)
           \/ EnterOpen(p) \/ EnterFind(p) \/ Login(p) \/ LoginRefused(p)
           \/ SelfFind(p) \/ SelfInsert(p)
           \/ RegisterFind(p) \/ RegisterGate(p) \/ RegisterCreate(p)
           \/ IssueTokens(p) \/ Discard(p) \/ Answer(p)
    PROVE  Consistent'
<1> DEFINE s == SlotOf(req[p])
<1>1. CASE \/ ProvisionFind(p) \/ EnterOpen(p) \/ EnterFind(p) \/ Login(p)
           \/ LoginRefused(p) \/ SelfFind(p) \/ RegisterFind(p) \/ RegisterGate(p)
           \/ IssueTokens(p) \/ Answer(p)
  BY <1>1, SameTablesKeep DEF ProvisionFind, EnterOpen, EnterFind, Login, LoginRefused,
     SelfFind, RegisterFind, RegisterGate, IssueTokens, Answer, Fail
<1>2. CASE ProvisionCreate(p) \/ RegisterCreate(p)
  <2>1. req[p].e \in Emails
    BY <1>2 DEF ProvisionCreate, RegisterCreate, At, RequestsAreSound, Sound,
          NamesAddress, Labels
  <2>2. PICK state \in {"fresh", "own"} : CreateAccount(p, state)
    BY <1>2 DEF ProvisionCreate, RegisterCreate
  <2>3. CASE UNCHANGED tables
    BY <2>3, SameTablesKeep
  <2>4. CASE /\ Account(req[p].e) = 0
             /\ NewAccount(req[p].e, state)
             /\ UNCHANGED <<invitations, attempts, issued>>
    BY <2>1, <2>4, NewAccountKeeps
  <2> QED
    BY <2>2, <2>3, <2>4 DEF CreateAccount, Fail
<1>3. CASE Link(p)
  <2>1. req[p].e \in Emails /\ req[p].user \in Nat
    BY <1>3 DEF Link, At, RequestsAreSound, Sound, NamesAddress, Labels, Request
  <2>2. CASE UNCHANGED tables
    BY <2>2, SameTablesKeep
  <2>3. CASE /\ Unlinked(req[p].e) = {} \/ Referable(req[p].user, req[p].e)
             /\ invitations' =
                   [x \in Slots |-> IF x \in Unlinked(req[p].e)
                                    THEN [invitations[x] EXCEPT !.cand = req[p].user]
                                    ELSE invitations[x]]
             /\ UNCHANGED <<users, attempts, issued>>
    BY <2>1, <2>3, LinkKeeps
  <2> QED
    BY <1>3, <2>2, <2>3 DEF Link, Fail
<1>4. CASE SelfInsert(p)
  <2>1. /\ s \in Slots
        /\ s[2] = req[p].e
        /\ req[p].user \in Nat
    BY <1>4, SlotIsNamed DEF SelfInsert, At, NamesSlot
  <2>2. CASE /\ Free(s) /\ Referable(req[p].user, req[p].e)
             /\ Insert(s, req[p].user, "self")
             /\ UNCHANGED <<users, attempts>>
    BY <2>1, <2>2, InsertKeeps
  <2>3. CASE UNCHANGED tables
    BY <2>3, SameTablesKeep
  <2> QED
    BY <1>4, <2>2, <2>3 DEF SelfInsert, Fail
<1>5. CASE Discard(p)
  <2>1. s \in Slots
    BY <1>5, SlotIsNamed DEF Discard, At, NamesSlot
  <2>2. CASE UNCHANGED tables
    BY <2>2, SameTablesKeep
  <2>3. CASE /\ attempts[s] = 0
             /\ invitations' = [invitations EXCEPT ![s] = NoRow]
             /\ UNCHANGED <<users, attempts, issued>>
    <3>1. /\ invitations' = [x \in Slots |-> IF x \in {s} THEN NoRow ELSE invitations[x]]
          /\ attempts' = [x \in Slots |-> IF x \in {s} THEN 0 ELSE attempts[x]]
      BY <2>1, <2>3 DEF Consistent, TablesAreTyped
    <3> QED
      BY <2>1, <2>3, <3>1, DeleteKeeps
  <2> QED
    BY <1>5, <2>2, <2>3 DEF Discard, tables
<1> QED
  BY <1>1, <1>2, <1>3, <1>4, <1>5

LEMMA ChoosePasswordKeeps ==
    ASSUME Consistent, NEW e \in Emails, ChoosePassword(e)
    PROVE  Consistent'
<1>1. TablesAreTyped'
  BY DEF Consistent, TablesAreTyped, ChoosePassword
<1>2. ASSUME NEW s \in Slots PROVE Account(s[2])' = Account(s[2])
  BY SlotAddress DEF Consistent, TablesAreTyped, ChoosePassword, Account
<1> QED
  BY <1>1, <1>2 DEF Consistent, NothingDangles, EmptyIsBlank, Exists, ChoosePassword

LEMMA StartKeeps ==
    ASSUME Consistent, NEW s \in Slots, Start(s)
    PROVE  Consistent'
<1> DEFINE row == [invitations[s] EXCEPT !.status = "started"]
<1>1. /\ row \in Row
      /\ row.id # 0
      /\ row.cand = invitations[s].cand
      /\ invitations[s].cand \in Nat
  BY DEF Consistent, TablesAreTyped, Row, Start, Exists
<1>2. /\ invitations' = [invitations EXCEPT ![s] = row]
      /\ attempts' = [attempts EXCEPT ![s] = invitations[s].cand]
      /\ users' = users
      /\ issued' = issued
      /\ invitations[s].cand = Account(s[2])
  BY DEF Start
<1> HIDE DEF row
<1>3. TablesAreTyped'
  BY <1>1, <1>2 DEF Consistent, TablesAreTyped
<1>4. NothingDangles'
  BY <1>1, <1>2 DEF Consistent, TablesAreTyped, NothingDangles, Account, Exists
<1>5. EmptyIsBlank'
  BY <1>1, <1>2 DEF Consistent, TablesAreTyped, EmptyIsBlank, Exists
<1> QED
  BY <1>3, <1>4, <1>5 DEF Consistent

(***************************************************************************)
(* The theorems                                                            *)
(***************************************************************************)
Counted ==
    /\ calls \in Nat
    /\ faults \in Nat
    /\ disturbed \subseteq Emails

IInv == RequestsAreSound /\ Consistent /\ Counted

LEMMA InvariantImplies == IInv => TypeOK /\ NothingDangles
BY DEF IInv, RequestsAreSound, Consistent, TablesAreTyped, Counted, TypeOK

LEMMA InitSound == Init => IInv
<1> SUFFICES ASSUME Init PROVE IInv
  OBVIOUS
<1>1. RequestsAreSound
  BY IdleIsSound DEF Init, RequestsAreSound, Sound
<1>2. Consistent
  BY NoRowType
     DEF Init, Consistent, TablesAreTyped, NothingDangles, EmptyIsBlank, Exists, NoRow
<1>3. Counted
  BY DEF Init, Counted
<1> QED
  BY <1>1, <1>2, <1>3 DEF IInv

\* A request arrives in an idle slot and names what its handler will read.
LEMMA ArriveKeeps ==
    ASSUME IInv, NEW p \in Requests, NEW k \in Kinds,
           NEW a \in Assessments \cup {NoAssessment}, NEW e \in Emails,
           Arrive(p, k, a, e)
    PROVE  IInv'
<1> DEFINE label == FirstLabel[k]
           r == [pc |-> label, op |-> k, a |-> a, e |-> e, user |-> 0, row |-> NoRow]
<1>1. k \in Operations
  BY BoundsAssumption
<1>2. /\ label \in Labels \ HoldsRow
      /\ k \in {"register", "admin_create"} => label \notin NamesSlot
  BY <1>1 DEF Operations, FirstLabel, Labels, HoldsRow, NamesSlot
<1>3. k \notin {"register", "admin_create"} => a \in Assessments
  BY DEF Arrive
<1>4. req' = [req EXCEPT ![p] = r]
  BY DEF Arrive
<1> HIDE DEF label
<1>5. r \in Request
  BY <1>1, <1>2, NoRowType DEF Request
<1>6. Sound(r)
  BY <1>2, <1>3, <1>5 DEF Sound
<1>7. RequestsAreSound'
  <2> HIDE DEF r
  <2> QED
    BY <1>4, <1>6, UpdateIsSound DEF IInv
<1>8. Consistent'
  BY SameTablesKeep DEF Arrive, IInv
<1>9. Counted'
  BY DEF Arrive, IInv, Counted
<1> QED
  BY <1>7, <1>8, <1>9 DEF IInv

LEMMA CutKeeps ==
    ASSUME IInv, NEW p \in Requests, Cut(p)
    PROVE  IInv'
<1>1. RequestsAreSound'
  BY DoneIsSound, ThrowsIsSound DEF Cut, IInv
<1>2. Consistent'
  BY SameTablesKeep DEF Cut, IInv, tables
<1>3. req[p].e \in Emails
  BY DEF Cut, At, IInv, RequestsAreSound, Sound, Request, NamesAddress
<1>4. Counted'
  BY <1>3 DEF Cut, IInv, Counted
<1> QED
  BY <1>1, <1>2, <1>4 DEF IInv

\* One query of a handler.
LEMMA StepKeeps ==
    ASSUME IInv, NEW p \in Requests, Step(p)
    PROVE  IInv'
<1>1. CASE Cut(p)
  BY <1>1, CutKeeps
<1>2. CASE \/ InviteFind(p) \/ InviteCheck(p) \/ InviteInsert(p)
           \/ RemoveFind(p) \/ RemoveCheck(p) \/ RemoveDelete(p)
           \/ UnusedFind(p) \/ UnusedCount(p) \/ UnusedDelete(p)
           \/ RescheduleFind(p) \/ RescheduleSave(p)
           \/ RevokeFind(p) \/ RevokeUpdate(p)
           \/ PersonFind(p) \/ PersonCount(p) \/ PersonCommit(p) \/ PersonErase(p)
           \/ AdminFind(p) \/ AdminCreate(p)
  <2>1. RequestsAreSound' /\ Consistent'
    BY <1>2, RecruiterIsSound, RecruiterKeeps DEF IInv
  <2>2. UNCHANGED env
    BY <1>2 DEF InviteFind, InviteCheck, InviteInsert, RemoveFind, RemoveCheck,
       RemoveDelete, UnusedFind, UnusedCount, UnusedDelete, RescheduleFind,
       RescheduleSave, RevokeFind, RevokeUpdate, PersonFind, PersonCount,
       PersonCommit, PersonErase, AdminFind, AdminCreate, Fail
  <2> QED
    BY <2>1, <2>2 DEF IInv, Counted, env
<1>3. CASE \/ ProvisionFind(p) \/ ProvisionCreate(p) \/ Link(p)
           \/ EnterOpen(p) \/ EnterFind(p) \/ Login(p) \/ LoginRefused(p)
           \/ SelfFind(p) \/ SelfInsert(p)
           \/ RegisterFind(p) \/ RegisterGate(p) \/ RegisterCreate(p)
           \/ IssueTokens(p) \/ Discard(p) \/ Answer(p)
  <2>1. RequestsAreSound' /\ Consistent'
    BY <1>3, CandidateIsSound, CandidateKeeps DEF IInv
  <2>2. UNCHANGED env
    BY <1>3 DEF ProvisionFind, ProvisionCreate, CreateAccount, Link, EnterOpen,
       EnterFind, Login, LoginRefused, SelfFind, SelfInsert, RegisterFind,
       RegisterGate, RegisterCreate, IssueTokens, Discard, Answer, Fail
  <2> QED
    BY <2>1, <2>2 DEF IInv, Counted, env
<1> QED
  BY <1>1, <1>2, <1>3 DEF Step

LEMMA NextKeeps == IInv /\ [Next]_vars => IInv'
<1> SUFFICES ASSUME IInv, [Next]_vars PROVE IInv'
  OBVIOUS
<1>1. CASE \E p \in Requests, k \in Kinds, a \in Assessments \cup {NoAssessment},
              e \in Emails : Arrive(p, k, a, e)
  BY <1>1, ArriveKeeps
<1>2. CASE \E p \in Requests : Step(p)
  BY <1>2, StepKeeps
<1>3. CASE \E e \in Emails : ChoosePassword(e)
  <2>1. Consistent'
    BY <1>3, ChoosePasswordKeeps DEF IInv
  <2> QED
    BY <1>3, <2>1 DEF ChoosePassword, IInv, RequestsAreSound, Counted, env
<1>4. CASE \E s \in Slots : Start(s)
  <2>1. Consistent'
    BY <1>4, StartKeeps DEF IInv
  <2> QED
    BY <1>4, <2>1 DEF Start, IInv, RequestsAreSound, Counted, env
<1>5. CASE UNCHANGED vars
  <2>1. Consistent'
    BY <1>5, SameTablesKeep DEF IInv, vars, tables
  <2> QED
    BY <1>5, <2>1 DEF IInv, vars, RequestsAreSound, Counted
<1> QED
  BY <1>1, <1>2, <1>3, <1>4, <1>5 DEF Next

\* The invariant holds of every execution.
THEOREM InvariantHolds == Spec => []IInv
<1> QED
  BY InitSound, NextKeeps, PTL DEF Spec

\* Every variable keeps its type however many requests overlap or fail: in
\* particular no handler acts on a half-filled request.
THEOREM TypeCorrect == Spec => []TypeOK
<1> QED
  BY InvariantHolds, InvariantImplies, PTL

\* A link never outlives its account, nor an attempt its account or its
\* invitation, for any number of companies, addresses and requests: the
\* handlers' unlocked chains of queries (invitations.service.ts,
\* users.service.ts) are safe in this respect because every write that could
\* dangle is refused or cascaded by the foreign keys.
THEOREM NothingEverDangles == Spec => []NothingDangles
<1> QED
  BY InvariantHolds, InvariantImplies, PTL

(***************************************************************************)
(* An address whose requests never overlapped.  Each request on its way    *)
(* leaves the rows of its address as the next one may find them, or knows  *)
(* what it has still to put right.                                         *)
(***************************************************************************)
Held(e) ==
    \A a \in Assessments :
        Exists(<<a, e>>) => invitations[<<a, e>>].cand = Account(e)

Whole(e) ==
    /\ Held(e)
    /\ Invited(e) => Account(e) # 0
    /\ users[e].state = "fresh" => Invited(e)

\* The row this request was given is still there.
Given(r) == Exists(SlotOf(r)) /\ invitations[SlotOf(r)].id = r.row.id

Coming == {"enter_open", "enter_find", "login", "self_find", "self_insert"}
Inviting ==
    {"invite_find", "invite_check", "invite_insert", "provision_find", "provision_create"}
Entering == {"register_find", "register_gate", "register_create"}
Provisioning == {"provision_find", "provision_create", "link"}
Sweeping == {"unused_find", "unused_count", "unused_delete"}

KnowsAccount ==
    {"invite_check", "invite_insert", "link", "self_find", "self_insert",
     "unused_count", "unused_delete", "person_count", "person_commit", "person_erase"}

FindsNone == {"provision_create", "register_gate", "register_create", "admin_create"}

Fits(r) ==
    /\ \/ r.pc \notin Entering \cup Provisioning \cup Sweeping
       \/ r.pc \in Entering /\ r.op # "enter"
       => Whole(r.e)
    /\ r.pc \in KnowsAccount => r.user = Account(r.e)
    /\ r.pc \in FindsNone => Account(r.e) = 0
    /\ r.pc \in {"enter_open", "enter_find"} => r.user = 0
    /\ r.pc \in {"invite_insert", "self_insert"} => ~Exists(SlotOf(r))
    /\ r.pc \in Provisioning => r.a \in Assessments /\ Exists(SlotOf(r))
    /\ r.pc \in Inviting => r.op = "invite"
    /\ r.pc \in Coming => r.op = "enter"
    /\ r.pc \in {"provision_find", "provision_create"} => Held(r.e)
    /\ r.pc = "link" => r.user # 0
    /\ r.pc \in Entering /\ r.op = "enter" => Held(r.e) /\ Account(r.e) = 0
    /\ \/ r.pc \in Entering \cup {"link"} /\ r.op = "enter"
       \/ r.pc \in {"issue_tokens", "entered"}
       => Given(r)
    /\ r.pc = "register_create" => r.op = "enter"
    /\ r.pc \in Sweeping => Held(r.e) /\ (Invited(r.e) => Account(r.e) # 0)
    /\ r.pc \in {"unused_count", "unused_delete", "person_count", "person_commit",
                 "person_erase"} => r.user # 0
    /\ r.pc = "unused_delete" => ~Invited(r.e)
    /\ r.pc = "reschedule_save" => r.row.cand = Account(r.e) /\ r.row.cand # 0
    /\ r.pc = "person_commit" => \E a \in Assessments \ {r.a} : Exists(<<a, r.e>>)
    /\ r.pc = "person_erase" => \A a \in Assessments \ {r.a} : ~Exists(<<a, r.e>>)
    /\ r.pc # "discard"

Served(e) ==
    /\ ~Busy(e) => Whole(e)
    /\ \A p \in Requests : req[p].e = e =>
          /\ Fits(req[p])
          /\ \A q \in Requests : req[q].e = e => q = p

\* An account that exists has a number.
Numbered == \A e \in Emails : users[e].state # "none" => users[e].gen # 0

WholeIInv == IInv /\ Numbered /\ \A e \in Emails : Undisturbed(e) => Served(e)

\* What the rest of an address can see of a step: its account and its rows are the same.
Still(e) ==
    /\ Account(e)' = Account(e)
    /\ users'[e].state = "fresh" => users[e].state = "fresh"
    /\ \A a \in Assessments :
          /\ invitations'[<<a, e>>].id = invitations[<<a, e>>].id
          /\ invitations'[<<a, e>>].cand = invitations[<<a, e>>].cand

\* The others' addresses are left alone.
Elsewhere(p) ==
    /\ \A q \in Requests : q # p => req'[q] = req[q]
    /\ \A e \in Emails : e # req[p].e => Still(e)

\* The request about address e ends with it whole, or goes on.
Lands(p, e) ==
    \/ req'[p] = Idle /\ Whole(e)'
    \/ \E r : req'[p] = r /\ r.e = e /\ Fits(r)'

\* What an address that nothing moves at keeps.
LEMMA StillWhole ==
    ASSUME NEW e \in Emails, Still(e)
    PROVE  /\ \A a \in Assessments : Exists(<<a, e>>)' = Exists(<<a, e>>)
           /\ Invited(e)' = Invited(e)
           /\ Held(e)' = Held(e)
           /\ Whole(e) => Whole(e)'
<1>1. \A a \in Assessments : Exists(<<a, e>>)' = Exists(<<a, e>>)
  BY DEF Still, Exists
<1>2. Invited(e)' = Invited(e)
  BY <1>1 DEF Invited
<1>3. Held(e)' = Held(e)
  BY <1>1 DEF Held, Still
<1> QED
  BY <1>1, <1>2, <1>3 DEF Whole, Still

\* A request that waits stays as it is while nothing moves at its address.
LEMMA StillFits ==
    ASSUME NEW r, r.e \in Emails, Sound(r), Fits(r), Still(r.e)
    PROVE  Fits(r)'
<1>1. /\ \A a \in Assessments : Exists(<<a, r.e>>)' = Exists(<<a, r.e>>)
      /\ Invited(r.e)' = Invited(r.e)
      /\ Held(r.e)' = Held(r.e)
      /\ Whole(r.e) => Whole(r.e)'
      /\ Account(r.e)' = Account(r.e)
  BY StillWhole DEF Still
<1>2. ASSUME r.a \in Assessments
      PROVE  /\ Exists(SlotOf(r))' = Exists(SlotOf(r))
             /\ Given(r)' = Given(r)
  BY <1>1, <1>2 DEF SlotOf, Given, Still
<1>3. r.pc \in {"invite_insert", "self_insert", "issue_tokens", "entered"} \cup Provisioning
        \/ r.op = "enter" => r.a \in Assessments
  BY DEF Sound, NamesSlot, Fits
<1>4. (\E a \in Assessments \ {r.a} : Exists(<<a, r.e>>)) =>
        (\E a \in Assessments \ {r.a} : Exists(<<a, r.e>>)')
  BY <1>1
<1>5. (\A a \in Assessments \ {r.a} : ~Exists(<<a, r.e>>)) =>
        (\A a \in Assessments \ {r.a} : ~Exists(<<a, r.e>>)')
  BY <1>1
<1> QED
  BY <1>1, <1>2, <1>3, <1>4, <1>5 DEF Fits

\* Reading moves nothing.
LEMMA ReadIsStill ==
    ASSUME UNCHANGED tables, NEW e
    PROVE  Still(e)
BY DEF tables, Still, Account

\* Request p as it moves on.
Onward(r, p, label, u, row) ==
    /\ r.pc = label /\ r.op = req[p].op /\ r.a = req[p].a /\ r.e = req[p].e
    /\ r.user = u /\ r.row = row

\* The request as its next label finds it.
LEMMA CarryMoves ==
    ASSUME RequestsAreSound, NEW p \in Requests, NEW label, NEW u, NEW row,
           \/ Carry(p, label, u, row)
           \/ Goto(p, label) /\ u = req[p].user /\ row = req[p].row
    PROVE  \E r : req'[p] = r /\ Onward(r, p, label, u, row)
<1>1. req[p] \in Request
  BY DEF RequestsAreSound
<1>2. CASE Carry(p, label, u, row)
  <2>1. req'[p] = [req[p] EXCEPT !.pc = label, !.user = u, !.row = row]
    BY <1>2 DEF Carry, RequestsAreSound
  <2> QED
    BY <1>1, <2>1 DEF Request, Onward
<1>3. CASE Goto(p, label) /\ u = req[p].user /\ row = req[p].row
  <2>1. req'[p] = [req[p] EXCEPT !.pc = label]
    BY <1>3 DEF Goto, RequestsAreSound
  <2> QED
    BY <1>1, <1>3, <2>1 DEF Request, Onward
<1> QED
  BY <1>2, <1>3

\* The tables of a step that only reads: what held when it read still holds.
LEMMA ReadKeeps ==
    ASSUME UNCHANGED tables
    PROVE  /\ \A e : Whole(e) => Whole(e)'
           /\ \A r : Fits(r) => Fits(r)'
<1> USE DEF tables
<1>1. ASSUME NEW f PROVE Account(f)' = Account(f)
  BY DEF Account
<1>2. ASSUME NEW s PROVE Exists(s)' = Exists(s)
  BY DEF Exists
<1>3. ASSUME NEW f PROVE Held(f)' = Held(f) /\ Invited(f)' = Invited(f)
  BY <1>1, <1>2 DEF Held, Invited
<1>4. ASSUME NEW f, Whole(f) PROVE Whole(f)'
  BY <1>1, <1>3, <1>4 DEF Whole
<1>5. ASSUME NEW r, Fits(r) PROVE Fits(r)'
  <2>1. SlotOf(r)' = SlotOf(r) /\ Given(r)' = Given(r)
    BY <1>2 DEF Given, SlotOf
  <2>2. /\ Exists(SlotOf(r))' = Exists(SlotOf(r)) /\ Account(r.e)' = Account(r.e)
        /\ Held(r.e)' = Held(r.e) /\ Invited(r.e)' = Invited(r.e)
        /\ Whole(r.e) => Whole(r.e)'
    BY <1>1, <1>2, <1>3, <1>4, <2>1
  <2>3. \A a : Exists(<<a, r.e>>)' = Exists(<<a, r.e>>)
    BY <1>2
  <2> QED
    BY <1>5, <2>1, <2>2, <2>3 DEF Fits
<1> QED
  BY <1>4, <1>5

\* A request that reads and moves on.
LEMMA ReadLands ==
    ASSUME RequestsAreSound, NEW p \in Requests, NEW e \in Emails, req[p].e = e,
           UNCHANGED tables, NEW label, NEW u, NEW row,
           \/ Carry(p, label, u, row)
           \/ Goto(p, label) /\ u = req[p].user /\ row = req[p].row,
           \A r : Onward(r, p, label, u, row) => Fits(r)
    PROVE  Lands(p, e)
<1>1. PICK r : req'[p] = r /\ Onward(r, p, label, u, row)
  BY CarryMoves
<1> QED
  BY <1>1, ReadKeeps DEF Lands, Onward

\* A request that reads and is answered, or fails.
LEMMA ReadEnds ==
    ASSUME RequestsAreSound, NEW p \in Requests, NEW e \in Emails,
           UNCHANGED tables, Whole(e),
           \/ Done(p)
           \/ Throws(p) /\ ~(req[p].op = "enter" /\ req[p].pc \in Entering \cup {"link", "issue_tokens"})
    PROVE  Lands(p, e)
BY ReadKeeps DEF Lands, RequestsAreSound, Done, Throws, Entering

\* An invite and createByAdmin read.
LEMMA InviteReads ==
    ASSUME RequestsAreSound, Consistent, Numbered, NEW p \in Requests, NEW e \in Emails,
           req[p].e = e, Fits(req[p]),
           InviteFind(p) \/ InviteCheck(p) \/ ProvisionFind(p) \/ AdminFind(p)
    PROVE  Lands(p, e)
<1>1. CASE InviteFind(p)
  <2>0. UNCHANGED tables
    BY <1>1 DEF InviteFind, Fail
  <2>1. CASE TRUE
    <3>1. ASSUME NEW r, Onward(r, p, "invite_check", Account(e), NoRow)
          PROVE  Fits(r)
      BY <1>1, <2>1, <3>1 DEF InviteFind, At, Onward, Fits, SlotOf, Whole,
            Coming, Inviting, Entering, Provisioning, Sweeping,
            KnowsAccount, FindsNone
    <3> QED
      BY <1>1, <2>0, <2>1, <3>1, ReadLands DEF InviteFind
  <2> QED
    BY <2>1
<1>2. CASE InviteCheck(p)
  <2>0. UNCHANGED tables
    BY <1>2 DEF InviteCheck, Fail
  <2>1. CASE Exists(SlotOf(req[p]))
    <3>1. Whole(e)
      BY <1>2, <2>1 DEF InviteCheck, At, Fits,
            Coming, Inviting, Entering, Provisioning, Sweeping,
            KnowsAccount, FindsNone
    <3> QED
      BY <1>2, <2>0, <2>1, <3>1, ReadEnds DEF InviteCheck, At, Fail, Entering
  <2>2. CASE ~Exists(SlotOf(req[p]))
    <3>1. ASSUME NEW r, Onward(r, p, "invite_insert", req[p].user, req[p].row)
          PROVE  Fits(r)
      BY <1>2, <2>2, <3>1 DEF InviteCheck, At, Onward, Fits, SlotOf, Whole,
            Coming, Inviting, Entering, Provisioning, Sweeping,
            KnowsAccount, FindsNone
    <3> QED
      BY <1>2, <2>0, <2>2, <3>1, ReadLands DEF InviteCheck
  <2> QED
    BY <2>1, <2>2
<1>3. CASE ProvisionFind(p)
  <2>0. UNCHANGED tables
    BY <1>3 DEF ProvisionFind, Fail
  <2>1. CASE Account(e) # 0
    <3>1. Whole(e)
      BY <1>3, <2>1 DEF ProvisionFind, At, Fits, Whole, Invited, SlotOf,
            Coming, Inviting, Entering, Provisioning, Sweeping,
            KnowsAccount, FindsNone
    <3> QED
      BY <1>3, <2>0, <2>1, <3>1, ReadEnds DEF ProvisionFind, At, Fail, Entering
  <2>2. CASE Account(e) = 0
    <3>1. ASSUME NEW r, Onward(r, p, "provision_create", req[p].user, req[p].row)
          PROVE  Fits(r)
      BY <1>3, <2>2, <3>1 DEF ProvisionFind, At, Onward, Fits, SlotOf, Whole,
            Coming, Inviting, Entering, Provisioning, Sweeping,
            KnowsAccount, FindsNone
    <3> QED
      BY <1>3, <2>0, <2>2, <3>1, ReadLands DEF ProvisionFind
  <2> QED
    BY <2>1, <2>2
<1>4. CASE AdminFind(p)
  <2>0. UNCHANGED tables
    BY <1>4 DEF AdminFind, Fail
  <2>1. CASE Account(e) # 0
    <3>1. Whole(e)
      BY <1>4, <2>1 DEF AdminFind, At, Fits,
            Coming, Inviting, Entering, Provisioning, Sweeping,
            KnowsAccount, FindsNone
    <3> QED
      BY <1>4, <2>0, <2>1, <3>1, ReadEnds DEF AdminFind, At, Fail, Entering
  <2>2. CASE Account(e) = 0
    <3>1. ASSUME NEW r, Onward(r, p, "admin_create", req[p].user, req[p].row)
          PROVE  Fits(r)
      BY <1>4, <2>2, <3>1 DEF AdminFind, At, Onward, Fits, SlotOf, Whole,
            Coming, Inviting, Entering, Provisioning, Sweeping,
            KnowsAccount, FindsNone
    <3> QED
      BY <1>4, <2>0, <2>2, <3>1, ReadLands DEF AdminFind
  <2> QED
    BY <2>1, <2>2
<1> QED
  BY <1>1, <1>2, <1>3, <1>4

\* An entry reads.
LEMMA EntryReads ==
    ASSUME RequestsAreSound, Consistent, Numbered, NEW p \in Requests, NEW e \in Emails,
           req[p].e = e, Fits(req[p]),
           \/ EnterOpen(p) \/ EnterFind(p) \/ Login(p) \/ LoginRefused(p)
           \/ SelfFind(p) \/ IssueTokens(p) \/ Answer(p)
    PROVE  Lands(p, e)
<1>1. CASE EnterOpen(p)
  <2>0. UNCHANGED tables
    BY <1>1 DEF EnterOpen, Fail
  <2>1. CASE SelfCount(req[p].a) < Cap
    <3>1. ASSUME NEW r, Onward(r, p, "enter_find", req[p].user, req[p].row)
          PROVE  Fits(r)
      BY <1>1, <2>1, <3>1 DEF EnterOpen, At, Onward, Fits, SlotOf, Whole,
            Coming, Inviting, Entering, Provisioning, Sweeping,
            KnowsAccount, FindsNone
    <3> QED
      BY <1>1, <2>0, <2>1, <3>1, ReadLands DEF EnterOpen
  <2>2. CASE ~(SelfCount(req[p].a) < Cap)
    <3>1. Whole(e)
      BY <1>1, <2>2 DEF EnterOpen, At, Fits,
            Coming, Inviting, Entering, Provisioning, Sweeping,
            KnowsAccount, FindsNone
    <3> QED
      BY <1>1, <2>0, <2>2, <3>1, ReadEnds DEF EnterOpen, At, Fail, Entering
  <2> QED
    BY <2>1, <2>2
<1>2. CASE EnterFind(p)
  <2>0. UNCHANGED tables
    BY <1>2 DEF EnterFind, Fail
  <2>1. CASE Account(e) # 0
    <3>1. ASSUME NEW r, Onward(r, p, "login", req[p].user, req[p].row)
          PROVE  Fits(r)
      BY <1>2, <2>1, <3>1 DEF EnterFind, At, Onward, Fits, SlotOf, Whole,
            Coming, Inviting, Entering, Provisioning, Sweeping,
            KnowsAccount, FindsNone
    <3> QED
      BY <1>2, <2>0, <2>1, <3>1, ReadLands DEF EnterFind
  <2>2. CASE Account(e) = 0
    <3>1. ASSUME NEW r, Onward(r, p, "self_find", req[p].user, req[p].row)
          PROVE  Fits(r)
      BY <1>2, <2>2, <3>1 DEF EnterFind, At, Onward, Fits, SlotOf, Whole,
            Coming, Inviting, Entering, Provisioning, Sweeping,
            KnowsAccount, FindsNone
    <3> QED
      BY <1>2, <2>0, <2>2, <3>1, ReadLands DEF EnterFind
  <2> QED
    BY <2>1, <2>2
<1>3. CASE Login(p)
  <2>0. UNCHANGED tables
    BY <1>3 DEF Login, Fail
  <2>1. CASE TRUE
    <3>1. ASSUME NEW r, Onward(r, p, "self_find", Account(e), NoRow)
          PROVE  Fits(r)
      BY <1>3, <2>1, <3>1 DEF Login, At, Onward, Fits, SlotOf, Whole,
            Coming, Inviting, Entering, Provisioning, Sweeping,
            KnowsAccount, FindsNone
    <3> QED
      BY <1>3, <2>0, <2>1, <3>1, ReadLands DEF Login
  <2> QED
    BY <2>1
<1>4. CASE LoginRefused(p)
  <2>0. UNCHANGED tables
    BY <1>4 DEF LoginRefused, Fail
  <2>1. CASE TRUE
    <3>1. Whole(e)
      BY <1>4, <2>1 DEF LoginRefused, At, Fits,
            Coming, Inviting, Entering, Provisioning, Sweeping,
            KnowsAccount, FindsNone
    <3> QED
      BY <1>4, <2>0, <2>1, <3>1, ReadEnds DEF LoginRefused, At, Fail, Entering
  <2> QED
    BY <2>1
<1>5. CASE SelfFind(p)
  <2>0. /\ UNCHANGED tables
        /\ req[p].a \in Assessments
        /\ SlotOf(req[p]) = <<req[p].a, e>>
        /\ Whole(e) /\ req[p].user = Account(e) /\ req[p].op = "enter"
    BY <1>5, SlotIsNamed DEF SelfFind, At, NamesSlot, SlotOf, Fits,
          Coming, Inviting, Entering, Provisioning, Sweeping,
            KnowsAccount
  <2>1. CASE Exists(SlotOf(req[p]))
    <3>1. req[p].user # 0
      BY <2>0, <2>1 DEF Whole, Invited
    <3>2. ASSUME NEW r, Onward(r, p, "entered", req[p].user, invitations[SlotOf(req[p])])
          PROVE  Fits(r)
      BY <2>0, <2>1, <3>2 DEF Onward, Fits, Given, SlotOf,
            Coming, Inviting, Entering, Provisioning, Sweeping,
            KnowsAccount, FindsNone
    <3> QED
      BY <1>5, <2>0, <2>1, <3>1, <3>2, ReadLands DEF SelfFind, AfterSelf
  <2>2. CASE ~Exists(SlotOf(req[p]))
    <3>1. ASSUME NEW r, Onward(r, p, "self_insert", req[p].user, req[p].row)
          PROVE  Fits(r)
      BY <2>0, <2>2, <3>1 DEF Onward, Fits, SlotOf,
            Coming, Inviting, Entering, Provisioning, Sweeping,
            KnowsAccount, FindsNone
    <3> QED
      BY <1>5, <2>0, <2>2, <3>1, ReadLands DEF SelfFind
  <2> QED
    BY <2>1, <2>2
<1>6. CASE IssueTokens(p)
  <2>0. UNCHANGED tables
    BY <1>6 DEF IssueTokens, Fail
  <2>1. CASE TRUE
    <3>1. ASSUME NEW r, Onward(r, p, "entered", req[p].user, req[p].row)
          PROVE  Fits(r)
      BY <1>6, <2>1, <3>1 DEF IssueTokens, At, Onward, Fits, SlotOf, Whole, Given,
            Coming, Inviting, Entering, Provisioning, Sweeping,
            KnowsAccount, FindsNone
    <3> QED
      BY <1>6, <2>0, <2>1, <3>1, ReadLands DEF IssueTokens
  <2> QED
    BY <2>1
<1>7. CASE Answer(p)
  <2>0. UNCHANGED tables
    BY <1>7 DEF Answer, Fail
  <2>1. CASE TRUE
    <3>1. Whole(e)
      BY <1>7, <2>1 DEF Answer, At, Fits,
            Coming, Inviting, Entering, Provisioning, Sweeping,
            KnowsAccount, FindsNone
    <3> QED
      BY <1>7, <2>0, <2>1, <3>1, ReadEnds DEF Answer, At, Fail, Entering
  <2> QED
    BY <2>1
<1> QED
  BY <1>1, <1>2, <1>3, <1>4, <1>5, <1>6, <1>7

\* A registration reads.  Only an entry's own finds its address invited and without
\* an account.
LEMMA RegisterReads ==
    ASSUME RequestsAreSound, Consistent, Numbered, NEW p \in Requests, NEW e \in Emails,
           req[p].e = e, Fits(req[p]),
           RegisterFind(p) \/ RegisterGate(p)
    PROVE  Lands(p, e)
<1>1. CASE RegisterFind(p)
  <2>0. UNCHANGED tables
    BY <1>1 DEF RegisterFind
  <2>1. CASE Account(e) # 0
    <3>1. req[p].op # "enter" /\ Whole(e)
      BY <1>1, <2>1 DEF RegisterFind, At, Fits, Entering
    <3> QED
      BY <1>1, <2>0, <2>1, <3>1, ReadEnds DEF RegisterFind
  <2>2. CASE Account(e) = 0
    <3>1. ASSUME NEW r, Onward(r, p, "register_gate", req[p].user, req[p].row)
          PROVE  Fits(r)
      BY <1>1, <2>2, <3>1 DEF RegisterFind, At, Onward, Fits, SlotOf, Given,
            Coming, Inviting, Entering, Provisioning, Sweeping,
            KnowsAccount, FindsNone
    <3> QED
      BY <1>1, <2>0, <2>2, <3>1, ReadLands DEF RegisterFind
  <2> QED
    BY <2>1, <2>2
<1>2. CASE RegisterGate(p)
  <2>0. /\ UNCHANGED tables
        /\ Account(e) = 0
        /\ req[p].op = "enter" => Invited(e)
        /\ req[p].op # "enter" => Whole(e)
    BY <1>2 DEF RegisterGate, At, Fits, Entering, FindsNone, Given, SlotOf, Invited,
          RequestsAreSound, Sound
  <2>1. CASE Invited(e)
    <3>1. req[p].op = "enter"
      BY <2>0, <2>1 DEF Whole
    <3>2. ASSUME NEW r, Onward(r, p, "register_create", req[p].user, req[p].row)
          PROVE  Fits(r)
      BY <1>2, <2>0, <3>1, <3>2 DEF RegisterGate, At, Onward, Fits, SlotOf, Given,
            Coming, Inviting, Entering, Provisioning, Sweeping,
            KnowsAccount, FindsNone
    <3> QED
      BY <1>2, <2>0, <2>1, <3>2, ReadLands DEF RegisterGate
  <2>2. CASE ~Invited(e)
    BY <1>2, <2>0, <2>2, ReadEnds DEF RegisterGate
  <2> QED
    BY <2>1, <2>2
<1> QED
  BY <1>1, <1>2

\* A removal reads.
LEMMA RemoveReads ==
    ASSUME RequestsAreSound, Consistent, Numbered, NEW p \in Requests, NEW e \in Emails,
           req[p].e = e, Fits(req[p]),
           RemoveFind(p) \/ RemoveCheck(p) \/ UnusedFind(p) \/ UnusedCount(p)
    PROVE  Lands(p, e)
<1>1. CASE RemoveFind(p)
  <2>0. UNCHANGED tables
    BY <1>1 DEF RemoveFind, Fail
  <2>1. CASE Exists(SlotOf(req[p]))
    <3>1. ASSUME NEW r, Onward(r, p, "remove_check", 0, invitations[SlotOf(req[p])])
          PROVE  Fits(r)
      BY <1>1, <2>1, <3>1 DEF RemoveFind, At, Onward, Fits, SlotOf, Whole,
            Coming, Inviting, Entering, Provisioning, Sweeping,
            KnowsAccount, FindsNone
    <3> QED
      BY <1>1, <2>0, <2>1, <3>1, ReadLands DEF RemoveFind
  <2>2. CASE ~Exists(SlotOf(req[p]))
    <3>1. Whole(e)
      BY <1>1, <2>2 DEF RemoveFind, At, Fits,
            Coming, Inviting, Entering, Provisioning, Sweeping,
            KnowsAccount, FindsNone
    <3> QED
      BY <1>1, <2>0, <2>2, <3>1, ReadEnds DEF RemoveFind, At, Fail, Entering
  <2> QED
    BY <2>1, <2>2
<1>2. CASE RemoveCheck(p)
  <2>0. UNCHANGED tables
    BY <1>2 DEF RemoveCheck, Fail
  <2>1. CASE Started(p)
    <3>1. Whole(e)
      BY <1>2, <2>1 DEF RemoveCheck, At, Fits,
            Coming, Inviting, Entering, Provisioning, Sweeping,
            KnowsAccount, FindsNone
    <3> QED
      BY <1>2, <2>0, <2>1, <3>1, ReadEnds DEF RemoveCheck, At, Fail, Entering
  <2>2. CASE ~Started(p)
    <3>1. ASSUME NEW r, Onward(r, p, "remove_delete", req[p].user, req[p].row)
          PROVE  Fits(r)
      BY <1>2, <2>2, <3>1 DEF RemoveCheck, At, Onward, Fits, SlotOf, Whole,
            Coming, Inviting, Entering, Provisioning, Sweeping,
            KnowsAccount, FindsNone
    <3> QED
      BY <1>2, <2>0, <2>2, <3>1, ReadLands DEF RemoveCheck
  <2> QED
    BY <2>1, <2>2
<1>3. CASE UnusedFind(p)
  <2>0. UNCHANGED tables
    BY <1>3 DEF UnusedFind, Fail
  <2>1. CASE users[e].state = "fresh"
    <3>1. ASSUME NEW r, Onward(r, p, "unused_count", Account(e), req[p].row)
          PROVE  Fits(r)
      BY <1>3, <2>1, <3>1 DEF UnusedFind, At, Onward, Fits, SlotOf, Whole, Numbered, Account,
            Coming, Inviting, Entering, Provisioning, Sweeping,
            KnowsAccount, FindsNone
    <3> QED
      BY <1>3, <2>0, <2>1, <3>1, ReadLands DEF UnusedFind
  <2>2. CASE users[e].state # "fresh"
    <3>1. Whole(e)
      BY <1>3, <2>2 DEF UnusedFind, At, Fits, Whole,
            Coming, Inviting, Entering, Provisioning, Sweeping,
            KnowsAccount, FindsNone
    <3> QED
      BY <1>3, <2>0, <2>2, <3>1, ReadEnds DEF UnusedFind, At, Fail, Entering
  <2> QED
    BY <2>1, <2>2
<1>4. CASE UnusedCount(p)
  <2>0. /\ UNCHANGED tables
        /\ Held(e) /\ (Invited(e) => Account(e) # 0)
        /\ req[p].user = Account(e) /\ req[p].user # 0
    BY <1>4 DEF UnusedCount, At, Fits, Sweeping, KnowsAccount
  <2>1. CASE Invited(e)
    BY <1>4, <2>0, <2>1, ReadEnds DEF UnusedCount, Whole
  <2>2. CASE ~Invited(e)
    <3>1. \A a \in Assessments : attempts[<<a, e>>] = 0
      BY <2>2 DEF Consistent, NothingDangles, Invited, Slots
    <3>2. ASSUME NEW r, Onward(r, p, "unused_delete", req[p].user, req[p].row)
          PROVE  Fits(r)
      BY <2>0, <2>2, <3>2 DEF Onward, Fits,
            Coming, Inviting, Entering, Provisioning, Sweeping,
            KnowsAccount, FindsNone
    <3> QED
      BY <1>4, <2>0, <2>2, <3>1, <3>2, ReadLands DEF UnusedCount
  <2> QED
    BY <2>1, <2>2
<1> QED
  BY <1>1, <1>2, <1>3, <1>4

\* A rescheduling, a revocation and a deletion of a person read.
LEMMA RecordReads ==
    ASSUME RequestsAreSound, Consistent, Numbered, NEW p \in Requests, NEW e \in Emails,
           req[p].e = e, Fits(req[p]),
           RescheduleFind(p) \/ RevokeFind(p) \/ PersonFind(p) \/ PersonCount(p)
    PROVE  Lands(p, e)
<1>1. CASE RescheduleFind(p)
  <2>0. UNCHANGED tables
    BY <1>1 DEF RescheduleFind, Fail
  <2>1. CASE Exists(SlotOf(req[p]))
    <3>1. ASSUME NEW r, Onward(r, p, "reschedule_save", 0, invitations[SlotOf(req[p])])
          PROVE  Fits(r)
      BY <1>1, <2>1, <3>1, SlotIsNamed DEF RescheduleFind, At, Onward, Fits, SlotOf, Whole, Held, Invited, NamesSlot,
            Coming, Inviting, Entering, Provisioning, Sweeping,
            KnowsAccount, FindsNone
    <3> QED
      BY <1>1, <2>0, <2>1, <3>1, ReadLands DEF RescheduleFind
  <2>2. CASE ~Exists(SlotOf(req[p]))
    <3>1. Whole(e)
      BY <1>1, <2>2 DEF RescheduleFind, At, Fits,
            Coming, Inviting, Entering, Provisioning, Sweeping,
            KnowsAccount, FindsNone
    <3> QED
      BY <1>1, <2>0, <2>2, <3>1, ReadEnds DEF RescheduleFind, At, Fail, Entering
  <2> QED
    BY <2>1, <2>2
<1>2. CASE RevokeFind(p)
  <2>0. UNCHANGED tables
    BY <1>2 DEF RevokeFind, Fail
  <2>1. CASE Exists(SlotOf(req[p])) /\ invitations[SlotOf(req[p])].status # "revoked"
    <3>1. ASSUME NEW r, Onward(r, p, "revoke_update", 0, invitations[SlotOf(req[p])])
          PROVE  Fits(r)
      BY <1>2, <2>1, <3>1 DEF RevokeFind, At, Onward, Fits, SlotOf, Whole,
            Coming, Inviting, Entering, Provisioning, Sweeping,
            KnowsAccount, FindsNone
    <3> QED
      BY <1>2, <2>0, <2>1, <3>1, ReadLands DEF RevokeFind
  <2>2. CASE ~(Exists(SlotOf(req[p])) /\ invitations[SlotOf(req[p])].status # "revoked")
    <3>1. Whole(e)
      BY <1>2, <2>2 DEF RevokeFind, At, Fits,
            Coming, Inviting, Entering, Provisioning, Sweeping,
            KnowsAccount, FindsNone
    <3> QED
      BY <1>2, <2>0, <2>2, <3>1, ReadEnds DEF RevokeFind, At, Fail, Entering
  <2> QED
    BY <2>1, <2>2
<1>3. CASE PersonFind(p)
  <2>0. UNCHANGED tables
    BY <1>3 DEF PersonFind, Fail
  <2>1. CASE Account(e) # 0 /\ Exists(SlotOf(req[p]))
    <3>1. ASSUME NEW r, Onward(r, p, "person_count", Account(e), NoRow)
          PROVE  Fits(r)
      BY <1>3, <2>1, <3>1 DEF PersonFind, At, Onward, Fits, SlotOf, Whole,
            Coming, Inviting, Entering, Provisioning, Sweeping,
            KnowsAccount, FindsNone
    <3> QED
      BY <1>3, <2>0, <2>1, <3>1, ReadLands DEF PersonFind
  <2>2. CASE ~(Account(e) # 0 /\ Exists(SlotOf(req[p])))
    <3>1. Whole(e)
      BY <1>3, <2>2 DEF PersonFind, At, Fits,
            Coming, Inviting, Entering, Provisioning, Sweeping,
            KnowsAccount, FindsNone
    <3> QED
      BY <1>3, <2>0, <2>2, <3>1, ReadEnds DEF PersonFind, At, Fail, Entering
  <2> QED
    BY <2>1, <2>2
<1>4. CASE PersonCount(p)
  <2>0. UNCHANGED tables
    BY <1>4 DEF PersonCount, Fail
  <2>1. CASE \E a \in Assessments \ {req[p].a} : Exists(<<a, e>>)
    <3>1. ASSUME NEW r, Onward(r, p, "person_commit", req[p].user, invitations[SlotOf(req[p])])
          PROVE  Fits(r)
      BY <1>4, <2>1, <3>1 DEF PersonCount, At, Onward, Fits, SlotOf, Whole,
            Coming, Inviting, Entering, Provisioning, Sweeping,
            KnowsAccount, FindsNone
    <3> QED
      BY <1>4, <2>0, <2>1, <3>1, ReadLands DEF PersonCount
  <2>2. CASE ~\E a \in Assessments \ {req[p].a} : Exists(<<a, e>>)
    <3>1. ASSUME NEW r, Onward(r, p, "person_erase", req[p].user, invitations[SlotOf(req[p])])
          PROVE  Fits(r)
      BY <1>4, <2>2, <3>1 DEF PersonCount, At, Onward, Fits, SlotOf, Whole,
            Coming, Inviting, Entering, Provisioning, Sweeping,
            KnowsAccount, FindsNone
    <3> QED
      BY <1>4, <2>0, <2>2, <3>1, ReadLands DEF PersonCount
  <2> QED
    BY <2>1, <2>2
<1> QED
  BY <1>1, <1>2, <1>3, <1>4

\* A new row is the only change to the rows of its address.
LEMMA InsertedRow ==
    ASSUME Consistent, NEW a \in Assessments, NEW e \in Emails, NEW cand, NEW source,
           Insert(<<a, e>>, cand, source)
    PROVE  /\ Exists(<<a, e>>)' /\ Invited(e)' /\ invitations'[<<a, e>>].cand = cand
           /\ \A b \in Assessments : b # a => invitations'[<<b, e>>] = invitations[<<b, e>>]
<1>1. <<a, e>> \in Slots /\ invitations \in [Slots -> Row] /\ issued \in [Slots -> Nat]
  BY DEF Slots, Consistent, TablesAreTyped
<1>2. \A b \in Assessments : b # a => <<b, e>> # <<a, e>> /\ <<b, e>> \in Slots
  BY DEF Slots
<1>3. Exists(<<a, e>>)' /\ invitations'[<<a, e>>].cand = cand
  BY <1>1 DEF Insert, Exists
<1>4. \A b \in Assessments : b # a => invitations'[<<b, e>>] = invitations[<<b, e>>]
  BY <1>1, <1>2 DEF Insert
<1> QED
  BY <1>3, <1>4 DEF Invited

\* What a write does to the rows of its address.
LEMMA InviteWrites ==
    ASSUME RequestsAreSound, Consistent, NEW p \in Requests, NEW e \in Emails,
           req[p].e = e, Fits(req[p]), InviteInsert(p)
    PROVE  Lands(p, e)
<1>0. PICK a : a = req[p].a
  OBVIOUS
<1> DEFINE s == <<a, e>>
<1>1. a \in Assessments /\ SlotOf(req[p]) = s /\ req[p].user \in Nat
  BY <1>0, SlotIsNamed DEF InviteInsert, At, NamesSlot, SlotOf
<1>2. /\ Whole(e) /\ req[p].user = Account(e) /\ ~Exists(s) /\ req[p].op = "invite"
  BY <1>1 DEF InviteInsert, At, Fits, Entering, Provisioning, Sweeping, KnowsAccount, Inviting
<1>3. /\ Insert(s, Account(e), "recruiter") /\ Goto(p, "provision_find") /\ users' = users
  BY <1>1, <1>2 DEF InviteInsert, Free, Referable
<1>4. /\ Exists(s)' /\ Invited(e)' /\ invitations'[s].cand = Account(e)
      /\ \A b \in Assessments : b # a => invitations'[<<b, e>>] = invitations[<<b, e>>]
  BY <1>1, <1>3, InsertedRow
<1>5. Account(e)' = Account(e)
  BY <1>3 DEF Account
<1>6. Held(e)'
  BY <1>2, <1>4, <1>5 DEF Held, Whole, Exists
<1>7. PICK r : req'[p] = r /\ Onward(r, p, "provision_find", req[p].user, req[p].row)
  BY <1>3, CarryMoves
<1>8. Fits(r)'
  BY <1>0, <1>1, <1>2, <1>4, <1>6, <1>7 DEF Fits, Onward, SlotOf, Coming, Inviting, Entering,
        Provisioning, Sweeping, KnowsAccount, FindsNone
<1> QED
  BY <1>7, <1>8 DEF Lands, Onward

\* The entrant's row is inserted, linked when the account is known.
LEMMA SelfWrites ==
    ASSUME RequestsAreSound, Consistent, NEW p \in Requests, NEW e \in Emails,
           req[p].e = e, Fits(req[p]), SelfInsert(p)
    PROVE  Lands(p, e)
<1>0. PICK a : a = req[p].a
  OBVIOUS
<1> DEFINE s == <<a, e>>
<1>1. a \in Assessments /\ SlotOf(req[p]) = s /\ req[p].user \in Nat
  BY <1>0, SlotIsNamed DEF SelfInsert, At, NamesSlot, SlotOf
<1>2. /\ Whole(e) /\ req[p].user = Account(e) /\ ~Exists(s) /\ req[p].op = "enter"
  BY <1>1 DEF SelfInsert, At, Fits, Entering, Provisioning, Sweeping, KnowsAccount, Coming
<1>3. /\ Insert(s, Account(e), "self") /\ users' = users
      /\ Carry(p, AfterSelf(p), req[p].user, invitations'[s])
  BY <1>1, <1>2 DEF SelfInsert, Free, Referable
<1>4. /\ Exists(s)' /\ Invited(e)' /\ invitations'[s].cand = Account(e)
      /\ \A b \in Assessments : b # a => invitations'[<<b, e>>] = invitations[<<b, e>>]
  BY <1>1, <1>3, InsertedRow
<1>5. Account(e)' = Account(e)
  BY <1>3 DEF Account
<1>6. Held(e)' /\ Invited(e)'
  BY <1>2, <1>4, <1>5 DEF Held, Whole, Exists
<1>7. PICK r : req'[p] = r /\ Onward(r, p, AfterSelf(p), req[p].user, invitations'[s])
  BY <1>3, CarryMoves
<1>8. r.e = e /\ r.a = a /\ r.op = "enter" /\ Given(r)'
  BY <1>0, <1>2, <1>4, <1>7 DEF Onward, Given, SlotOf
<1>9. CASE req[p].user = 0
  <2>1. r.pc = "register_find"
    BY <1>7, <1>9 DEF Onward, AfterSelf
  <2>2. Fits(r)'
    BY <1>2, <1>5, <1>6, <1>8, <1>9, <2>1 DEF Fits, Coming, Inviting, Entering,
          Provisioning, Sweeping, KnowsAccount, FindsNone
  <2> QED
    BY <1>7, <1>8, <2>2 DEF Lands
<1>10. CASE req[p].user # 0
  <2>1. r.pc = "entered"
    BY <1>7, <1>10 DEF Onward, AfterSelf
  <2>2. Whole(e)'
    BY <1>2, <1>3, <1>5, <1>6, <1>10 DEF Whole
  <2>3. Fits(r)'
    BY <1>8, <2>1, <2>2 DEF Fits, Coming, Inviting, Entering,
          Provisioning, Sweeping, KnowsAccount, FindsNone
  <2> QED
    BY <1>7, <1>8, <2>3 DEF Lands
<1> QED
  BY <1>9, <1>10

\* An account is created at an address that had none.
LEMMA AccountWrites ==
    ASSUME RequestsAreSound, Consistent, NEW p \in Requests, NEW e \in Emails,
           req[p].e = e, Fits(req[p]), ProvisionCreate(p) \/ RegisterCreate(p)
    PROVE  Lands(p, e)
<1>1. /\ Account(e) = 0 /\ req[p].a \in Assessments /\ Exists(SlotOf(req[p]))
      /\ req[p].op = "enter" => Given(req[p])
  BY DEF ProvisionCreate, RegisterCreate, At, Fits, Entering, Provisioning, Inviting,
        FindsNone, Given, RequestsAreSound, Sound
<1>2. PICK state \in {"fresh", "own"} :
        /\ NewAccount(e, state) /\ Carry(p, "link", users[e].gen + 1, req[p].row)
        /\ invitations' = invitations
  BY <1>1 DEF ProvisionCreate, RegisterCreate, CreateAccount
<1>3. Account(e)' = users[e].gen + 1 /\ users[e].gen \in Nat
  BY <1>2 DEF NewAccount, Account, Consistent, TablesAreTyped
<1>4. PICK r : req'[p] = r /\ Onward(r, p, "link", users[e].gen + 1, req[p].row)
  BY <1>2, CarryMoves
<1>5. Exists(SlotOf(r))' /\ (r.op = "enter" => Given(r)')
  BY <1>1, <1>2, <1>4 DEF Onward, SlotOf, Exists, Given
<1>6. Fits(r)'
  BY <1>1, <1>3, <1>4, <1>5 DEF Fits, Onward, Coming, Inviting, Entering,
        Provisioning, Sweeping, KnowsAccount, FindsNone
<1> QED
  BY <1>4, <1>6 DEF Lands, Onward

\* The rows of the address that were waiting for the account are linked.
LEMMA LinkWrites ==
    ASSUME RequestsAreSound, Consistent, NEW p \in Requests, NEW e \in Emails,
           req[p].e = e, Fits(req[p]), Link(p)
    PROVE  Lands(p, e)
<1> DEFINE s == SlotOf(req[p])
<1>1. /\ req[p].a \in Assessments /\ s = <<req[p].a, e>> /\ s \in Slots /\ Exists(s)
      /\ req[p].user = Account(e) /\ req[p].user # 0
      /\ req[p].op = "enter" => Given(req[p])
  BY DEF Link, At, Fits, Provisioning, KnowsAccount, SlotOf, Slots
<1>2. /\ users' = users
      /\ invitations' = [x \in Slots |-> IF x \in Unlinked(e)
                                         THEN [invitations[x] EXCEPT !.cand = req[p].user]
                                         ELSE invitations[x]]
      /\ IF req[p].op = "enter" THEN Goto(p, "issue_tokens") ELSE Done(p)
  BY <1>1 DEF Link, Referable
<1>3. Account(e)' = Account(e)
  BY <1>2 DEF Account
<1>4. ASSUME NEW b \in Assessments
      PROVE  /\ invitations'[<<b, e>>].id = invitations[<<b, e>>].id
             /\ Exists(<<b, e>>) => invitations'[<<b, e>>].cand = Account(e)
  <2>1. <<b, e>> \in Slots /\ invitations[<<b, e>>] \in Row
    BY DEF Slots, Consistent, TablesAreTyped
  <2>2. CASE <<b, e>> \in Unlinked(e)
    BY <1>1, <1>2, <2>1, <2>2 DEF Row
  <2>3. CASE <<b, e>> \notin Unlinked(e)
    BY <1>1, <1>2, <2>1, <2>3 DEF Unlinked, Consistent, NothingDangles
  <2> QED
    BY <2>2, <2>3
<1>5. Whole(e)'
  BY <1>1, <1>3, <1>4 DEF Whole, Held, Invited, Exists
<1>6. CASE req[p].op = "enter"
  <2>1. PICK r : req'[p] = r /\ Onward(r, p, "issue_tokens", req[p].user, req[p].row)
    BY <1>2, <1>6, CarryMoves
  <2>2. Given(r)'
    BY <1>1, <1>4, <1>6, <2>1 DEF Onward, Given, SlotOf, Exists
  <2>3. Fits(r)'
    BY <1>5, <2>1, <2>2 DEF Fits, Onward, Coming, Inviting, Entering,
          Provisioning, Sweeping, KnowsAccount, FindsNone
  <2> QED
    BY <2>1, <2>3 DEF Lands, Onward
<1>7. CASE req[p].op # "enter"
  BY <1>2, <1>5, <1>7 DEF Lands, Done, RequestsAreSound
<1> QED
  BY <1>6, <1>7

\* The row is deleted, and the account's use is still to be counted.
LEMMA RemoveWrites ==
    ASSUME RequestsAreSound, Consistent, NEW p \in Requests, NEW e \in Emails,
           req[p].e = e, Fits(req[p]), RemoveDelete(p)
    PROVE  Lands(p, e)
<1> DEFINE s == SlotOf(req[p])
<1>1. req[p].a \in Assessments /\ s = <<req[p].a, e>> /\ s \in Slots /\ Whole(e)
  BY SlotIsNamed DEF RemoveDelete, At, NamesSlot, SlotOf, Fits, Entering, Provisioning, Sweeping
<1>2. CASE Started(p)
  BY <1>1, <1>2, ReadEnds DEF RemoveDelete, Fail, At, Entering
<1>3. CASE ~Started(p)
  <2>1. /\ users' = users /\ Goto(p, "unused_find")
        /\ \/ invitations' = invitations
           \/ invitations' = [invitations EXCEPT ![s] = NoRow]
    BY <1>3 DEF RemoveDelete
  <2>2. Account(e)' = Account(e)
    BY <2>1 DEF Account
  <2>3. ASSUME NEW b \in Assessments, Exists(<<b, e>>)'
        PROVE  invitations'[<<b, e>>] = invitations[<<b, e>>]
    <3>1. /\ <<b, e>> \in Slots
          /\ invitations'[<<b, e>>] = invitations[<<b, e>>] \/ invitations'[<<b, e>>] = NoRow
      BY <1>1, <2>1 DEF Consistent, TablesAreTyped, Slots
    <3> QED
      BY <2>3, <3>1 DEF Exists, NoRow
  <2>4. Held(e)' /\ (Invited(e)' => Account(e) # 0)
    BY <1>1, <2>2, <2>3 DEF Whole, Held, Invited, Exists
  <2>5. PICK r : req'[p] = r /\ Onward(r, p, "unused_find", req[p].user, req[p].row)
    BY <2>1, CarryMoves
  <2>6. Fits(r)'
    BY <2>2, <2>4, <2>5 DEF Fits, Onward, Coming, Inviting, Entering,
          Provisioning, Sweeping, KnowsAccount, FindsNone
  <2> QED
    BY <2>5, <2>6 DEF Lands, Onward
<1> QED
  BY <1>2, <1>3

\* An account is deleted that nobody's invitation names.
LEMMA UnusedWrites ==
    ASSUME RequestsAreSound, Consistent, NEW p \in Requests, NEW e \in Emails,
           req[p].e = e, Fits(req[p]), UnusedDelete(p)
    PROVE  Lands(p, e)
<1>1. ~Invited(e) /\ req[p].user = Account(e)
  BY DEF UnusedDelete, At, Fits, KnowsAccount
<1>2. \A b \in Assessments : <<b, e>> \in Slots /\ ~Exists(<<b, e>>)
  BY <1>1 DEF Invited, Slots
<1>3. Linked(e, req[p].user) = {}
  BY <1>2 DEF Linked, Slots
<1>4. DeleteUser(e, req[p].user, {}) /\ Done(p)
  BY <1>3 DEF UnusedDelete, Deletable
<1>5. \A b \in Assessments : ~Exists(<<b, e>>)'
  BY <1>2, <1>3, <1>4 DEF DeleteUser, Exists
<1>6. users'[e].state = "none"
  BY <1>1, <1>4 DEF DeleteUser, Consistent, TablesAreTyped
<1> QED
  BY <1>4, <1>5, <1>6 DEF Lands, Whole, Held, Invited, Done, RequestsAreSound

\* The copy of the row is saved, or its status.
LEMMA RescheduleWrites ==
    ASSUME RequestsAreSound, Consistent, NEW p \in Requests, NEW e \in Emails,
           req[p].e = e, Fits(req[p]), RescheduleSave(p) \/ RevokeUpdate(p)
    PROVE  Lands(p, e)
<1> DEFINE s == SlotOf(req[p])
<1>1. /\ req[p].a \in Assessments /\ s = <<req[p].a, e>> /\ s \in Slots /\ Whole(e)
      /\ req[p].row.id # 0
  BY SlotIsNamed DEF RescheduleSave, RevokeUpdate, At, NamesSlot, SlotOf, Fits, Entering,
        Provisioning, Sweeping, RequestsAreSound, Sound, HoldsRow
<1>2. users' = users /\ Done(p)
  BY DEF RescheduleSave, RevokeUpdate
<1>3. Account(e)' = Account(e)
  BY <1>2 DEF Account
<1>4. CASE RescheduleSave(p)
  <2>1. req[p].row.cand = Account(e) /\ req[p].row.cand # 0
    BY <1>4 DEF RescheduleSave, At, Fits
  <2>2. ASSUME NEW b \in Assessments
        PROVE  \/ invitations'[<<b, e>>] = invitations[<<b, e>>]
               \/ invitations'[<<b, e>>] = req[p].row
    BY <1>1, <1>4 DEF RescheduleSave, Consistent, TablesAreTyped, Slots
  <2>3. Held(e)' /\ (Invited(e) => Invited(e)')
    BY <1>1, <1>3, <2>1, <2>2 DEF Whole, Held, Invited, Exists
  <2>4. Whole(e)'
    BY <1>1, <1>2, <1>3, <2>1, <2>2, <2>3 DEF Whole, Invited, Exists
  <2> QED
    BY <1>2, <2>4 DEF Lands, Done, RequestsAreSound
<1>5. CASE RevokeUpdate(p)
  <2>1. ASSUME NEW b \in Assessments
        PROVE  /\ invitations'[<<b, e>>].id = invitations[<<b, e>>].id
               /\ invitations'[<<b, e>>].cand = invitations[<<b, e>>].cand
    <3>1. <<b, e>> \in Slots /\ invitations \in [Slots -> Row]
      BY DEF Slots, Consistent, TablesAreTyped
    <3>2. \/ invitations' = invitations
          \/ invitations' = [invitations EXCEPT ![s].status = "revoked"]
      BY <1>5 DEF RevokeUpdate
    <3> QED
      BY <1>1, <3>1, <3>2 DEF Row
  <2>2. Still(e)
    BY <1>2, <1>3, <2>1 DEF Still
  <2> QED
    BY <1>1, <1>2, <2>2, StillWhole DEF Lands, Done, RequestsAreSound
<1> QED
  BY <1>4, <1>5

\* The company's row is deleted, with the account when no other company's is left.
LEMMA PersonWrites ==
    ASSUME RequestsAreSound, Consistent, NEW p \in Requests, NEW e \in Emails,
           req[p].e = e, Fits(req[p]), PersonCommit(p) \/ PersonErase(p)
    PROVE  Lands(p, e)
<1> DEFINE s == SlotOf(req[p])
<1>1. /\ req[p].a \in Assessments /\ s = <<req[p].a, e>> /\ s \in Slots /\ Whole(e)
      /\ Doomed(p) \subseteq {s}
      /\ req[p].user = Account(e) /\ req[p].user # 0
  BY SlotIsNamed DEF PersonCommit, PersonErase, At, NamesSlot, SlotOf, Fits, Entering,
        Provisioning, Sweeping, Doomed, KnowsAccount
<1>2. CASE PersonCommit(p)
  <2>1. PICK b \in Assessments \ {req[p].a} : Exists(<<b, e>>)
    BY <1>2 DEF PersonCommit, At, Fits
  <2>2. users' = users /\ Done(p)
        /\ \A x \in Slots : /\ (invitations'[x] = invitations[x] \/ invitations'[x] = NoRow)
                            /\ x # s => invitations'[x] = invitations[x]
    BY <1>1, <1>2 DEF PersonCommit
  <2>3. ASSUME NEW c \in Assessments
        PROVE  /\ invitations'[<<c, e>>] = invitations[<<c, e>>] \/ invitations'[<<c, e>>] = NoRow
               /\ c # req[p].a => invitations'[<<c, e>>] = invitations[<<c, e>>]
    <3>1. <<c, e>> \in Slots /\ (c # req[p].a => <<c, e>> # s)
      BY <1>1 DEF Slots
    <3> QED
      BY <1>1, <1>2, <3>1 DEF PersonCommit
  <2>4. Account(e)' = Account(e)
    BY <2>2 DEF Account
  <2>5. Held(e)'
    BY <1>1, <2>3, <2>4 DEF Whole, Held, Exists, NoRow
  <2>6. Invited(e)' /\ Invited(e)
    BY <2>1, <2>3 DEF Invited, Exists
  <2> QED
    BY <1>1, <2>2, <2>4, <2>5, <2>6 DEF Lands, Whole, Done, RequestsAreSound
<1>3. CASE PersonErase(p)
  <2>1. CASE UNCHANGED tables
    <3>1. Done(p) \/ Throws(p)
      BY <1>3 DEF PersonErase, Fail
    <3> QED
      BY <1>1, <1>3, <2>1, <3>1, ReadEnds DEF PersonErase, At, Entering
  <2>2. CASE DeleteUser(e, req[p].user, Doomed(p)) /\ Done(p)
    <3>1. users'[e].state = "none"
      BY <1>1, <2>2 DEF DeleteUser, Consistent, TablesAreTyped
    <3>2. ASSUME NEW b \in Assessments PROVE ~Exists(<<b, e>>)'
      <4>1. <<b, e>> \in Slots
        BY DEF Slots
      <4>2. CASE Exists(<<b, e>>)
        <5>1. <<b, e>> \in Linked(e, req[p].user)
          BY <1>1, <4>1, <4>2 DEF Linked, Whole, Held
        <5> QED
          BY <2>2, <4>1, <5>1 DEF DeleteUser, Exists, NoRow
      <4>3. CASE ~Exists(<<b, e>>)
        BY <2>2, <4>1, <4>3 DEF DeleteUser, Exists, NoRow
      <4> QED
        BY <4>2, <4>3
    <3> QED
      BY <2>2, <3>1, <3>2 DEF Lands, Whole, Held, Invited, Done, RequestsAreSound
  <2> QED
    BY <1>3, <2>1, <2>2 DEF PersonErase, Fail
<1> QED
  BY <1>2, <1>3

\* An account is made by hand, with a password of its own.
LEMMA AdminWrites ==
    ASSUME RequestsAreSound, Consistent, NEW p \in Requests, NEW e \in Emails,
           req[p].e = e, Fits(req[p]), AdminCreate(p)
    PROVE  Lands(p, e)
<1>1. Whole(e) /\ Account(e) = 0
  BY DEF AdminCreate, At, Fits, Entering, Provisioning, Sweeping, FindsNone
<1>2. \A b \in Assessments : ~Exists(<<b, e>>)
  BY <1>1 DEF Whole, Invited
<1>3. users'[e].state = "own" /\ invitations' = invitations /\ Done(p)
  BY <1>1 DEF AdminCreate, Consistent, TablesAreTyped
<1> QED
  BY <1>2, <1>3 DEF Lands, Whole, Held, Invited, Exists, Done, RequestsAreSound

\* Every step of a lone request leaves its address whole or goes on.
LEMMA StepLands ==
    ASSUME RequestsAreSound, Consistent, Numbered, NEW p \in Requests, NEW e \in Emails,
           req[p].e = e, Fits(req[p]), Step(p), ~Cut(p)
    PROVE  Lands(p, e)
<1>1. ~Discard(p)
  BY DEF Discard, At, Fits
<1> QED
  BY <1>1, InviteReads, EntryReads, RegisterReads, RemoveReads, RecordReads, InviteWrites,
     SelfWrites, AccountWrites, LinkWrites, RemoveWrites, UnusedWrites, RescheduleWrites,
     PersonWrites, AdminWrites DEF Step

(***************************************************************************)
(* A step leaves the other addresses alone                                 *)
(***************************************************************************)

\* Rows of another address are as they were.
Apart(e) ==
    /\ users'[e] = users[e]
    /\ \A a \in Assessments : invitations'[<<a, e>>] = invitations[<<a, e>>]

\* An address apart from a step does not see it.
LEMMA ApartIsStill ==
    ASSUME NEW e, Apart(e)
    PROVE  Still(e)
BY DEF Apart, Still, Account

\* A write to rows and to an account of one address leaves the others apart.
LEMMA RowsApart ==
    ASSUME Consistent, NEW e \in Emails, NEW f \in Emails, f # e,
           users'[f] = users[f],
           \A s \in Slots : s[2] # e => invitations'[s] = invitations[s]
    PROVE  Apart(f)
BY DEF Apart, Slots

\* How a step changes the request that takes it.
LEMMA StepMoves ==
    ASSUME NEW p \in Requests, Step(p)
    PROVE  \/ \E label : Goto(p, label)
           \/ \E label, u, row : Carry(p, label, u, row)
           \/ Done(p) \/ Throws(p)
BY DEF Step, InviteFind, InviteCheck, InviteInsert, ProvisionFind, ProvisionCreate, Link,
   EnterOpen, EnterFind, Login, LoginRefused, SelfFind, SelfInsert, RegisterFind,
   RegisterGate, RegisterCreate, IssueTokens, Discard, Answer, RemoveFind, RemoveCheck,
   RemoveDelete, UnusedFind, UnusedCount, UnusedDelete, RescheduleFind, RescheduleSave,
   RevokeFind, RevokeUpdate, PersonFind, PersonCount, PersonCommit, PersonErase,
   AdminFind, AdminCreate, Cut, CreateAccount, Fail

\* A step is about one request and one address.
LEMMA StepElsewhere ==
    ASSUME RequestsAreSound, Consistent, NEW p \in Requests, Step(p)
    PROVE  Elsewhere(p)
<1> USE DEF At
<1>1. ASSUME NEW q \in Requests, q # p PROVE req'[q] = req[q]
  <2>1. \/ \E label : Goto(p, label)
        \/ \E label, u, row : Carry(p, label, u, row)
        \/ Done(p) \/ Throws(p)
    BY StepMoves
  <2> QED
    BY <1>1, <2>1 DEF RequestsAreSound, Goto, Carry, Done, Throws
<1>2. ASSUME NEW f \in Emails, f # req[p].e PROVE Still(f)
  <2>0. PICK e : e = req[p].e
    OBVIOUS
  <2>1. CASE UNCHANGED tables
    BY <2>1, ReadIsStill
  <2>2. CASE ~UNCHANGED tables
    <3>1. \/ InviteInsert(p) \/ SelfInsert(p) \/ ProvisionCreate(p) \/ RegisterCreate(p)
          \/ Link(p) \/ Discard(p) \/ RemoveDelete(p) \/ UnusedDelete(p)
          \/ RescheduleSave(p) \/ RevokeUpdate(p) \/ PersonCommit(p) \/ PersonErase(p)
          \/ AdminCreate(p)
      BY <2>2 DEF Step, InviteFind, InviteCheck, ProvisionFind, EnterOpen, EnterFind, Login,
         LoginRefused, SelfFind, RegisterFind, RegisterGate, IssueTokens, Answer, RemoveFind,
         RemoveCheck, UnusedFind, UnusedCount, RescheduleFind, RevokeFind, PersonFind,
         PersonCount, AdminFind, Cut, Fail
    <3>2. e \in Emails
      BY <2>0, <3>1 DEF InviteInsert, SelfInsert, ProvisionCreate, RegisterCreate, Link, Discard,
         RemoveDelete, UnusedDelete, RescheduleSave, RevokeUpdate, PersonCommit, PersonErase,
         AdminCreate, RequestsAreSound, Sound, NamesAddress, Labels
    <3>3. \/ req[p].a \in Assessments /\ SlotOf(req[p]) = <<req[p].a, e>> /\ SlotOf(req[p]) \in Slots
          \/ ProvisionCreate(p) \/ RegisterCreate(p) \/ Link(p) \/ UnusedDelete(p) \/ AdminCreate(p)
      BY <2>0, <3>1, SlotIsNamed DEF InviteInsert, SelfInsert, Discard, RemoveDelete,
         RescheduleSave, RevokeUpdate, PersonCommit, PersonErase, NamesSlot, SlotOf
    <3>4. users'[f] = users[f]
      <4>1. users \in [Emails -> [gen: Nat, state: {"none", "fresh", "own"}]]
        BY DEF Consistent, TablesAreTyped
      <4> QED
        BY <1>2, <2>0, <3>1, <3>2, <4>1 DEF InviteInsert, SelfInsert, ProvisionCreate,
           RegisterCreate, Link, Discard, RemoveDelete, UnusedDelete, RescheduleSave,
           RevokeUpdate, PersonCommit, PersonErase, AdminCreate, CreateAccount, NewAccount,
           DeleteUser, Fail, tables
    <3>5. ASSUME NEW s \in Slots, s[2] # e PROVE invitations'[s] = invitations[s]
      <4>0. invitations \in [Slots -> Row]
        BY DEF Consistent, TablesAreTyped
      <4>1. CASE InviteInsert(p) \/ SelfInsert(p)
        <5>1. s # SlotOf(req[p])
          BY <2>0, <3>5, <4>1, SlotIsNamed DEF InviteInsert, SelfInsert, NamesSlot
        <5> QED
          BY <4>0, <4>1, <5>1 DEF InviteInsert, SelfInsert, Insert, Fail, tables
      <4>2. CASE ProvisionCreate(p) \/ RegisterCreate(p) \/ AdminCreate(p)
        BY <4>2 DEF ProvisionCreate, RegisterCreate, AdminCreate, CreateAccount, Fail, tables
      <4>3. CASE Link(p)
        BY <2>0, <3>5, <4>0, <4>3 DEF Link, Unlinked, Fail, tables
      <4>4. CASE Discard(p) \/ RemoveDelete(p) \/ RescheduleSave(p) \/ RevokeUpdate(p)
        <5>1. s # SlotOf(req[p])
          BY <2>0, <3>5, <4>4, SlotIsNamed DEF Discard, RemoveDelete, RescheduleSave,
             RevokeUpdate, NamesSlot
        <5> QED
          BY <4>0, <4>4, <5>1 DEF Discard, RemoveDelete, RescheduleSave, RevokeUpdate, Fail, tables
      <4>5. CASE UnusedDelete(p)
        BY <2>0, <3>5, <4>0, <4>5 DEF UnusedDelete, DeleteUser, Linked, Fail, tables
      <4>6. CASE PersonCommit(p) \/ PersonErase(p)
        <5>1. s \notin Doomed(p)
          BY <3>3, <3>5, <4>6 DEF Doomed, PersonCommit, PersonErase, ProvisionCreate,
             RegisterCreate, Link, UnusedDelete, AdminCreate
        <5> QED
          BY <2>0, <3>5, <4>6, <5>1 DEF PersonCommit, PersonErase, DeleteUser, Linked, Fail, tables
      <4> QED
        BY <3>1, <4>1, <4>2, <4>3, <4>4, <4>5, <4>6
    <3> QED
      BY <1>2, <2>0, <3>2, <3>4, <3>5, RowsApart, ApartIsStill
  <2> QED
    BY <2>1, <2>2
<1> QED
  BY <1>1, <1>2 DEF Elsewhere

\* A request keeps its address until it is answered.
LEMMA StepKeepsAddress ==
    ASSUME RequestsAreSound, NEW p \in Requests, NEW e \in Emails, Step(p), req'[p].e = e
    PROVE  req[p].e = e
<1>1. \/ \E label : Goto(p, label)
      \/ \E label, u, row : Carry(p, label, u, row)
      \/ Done(p) \/ Throws(p)
  BY StepMoves
<1>2. e # NoEmail
  BY ActorsAssumption
<1>3. req[p] \in Request /\ req \in [Requests -> Request]
  BY DEF RequestsAreSound
<1>4. ASSUME NEW label, Goto(p, label) PROVE req[p].e = e
  BY <1>3, <1>4 DEF Goto, Request
<1>5. ASSUME NEW label, NEW u, NEW row, Carry(p, label, u, row) PROVE req[p].e = e
  BY <1>3, <1>5 DEF Carry, Request
<1>6. ~Done(p)
  BY <1>2, <1>3 DEF Done, Idle
<1> QED
  BY <1>1, <1>4, <1>5, <1>6 DEF Throws

(***************************************************************************)
(* The invariant                                                           *)
(***************************************************************************)

\* An account is numbered when it is made.
LEMMA NextNumbered ==
    ASSUME IInv, Numbered, [Next]_vars
    PROVE  Numbered'
<1>0. users \in [Emails -> [gen: Nat, state: {"none", "fresh", "own"}]]
  BY DEF IInv, Consistent, TablesAreTyped
<1>1. CASE UNCHANGED users
  BY <1>1 DEF Numbered
<1>2. ASSUME NEW e \in Emails, NEW state, NewAccount(e, state) PROVE Numbered'
  BY <1>0, <1>2 DEF NewAccount, Numbered
<1>3. ASSUME NEW e \in Emails, ChoosePassword(e) PROVE Numbered'
  BY <1>0, <1>3 DEF ChoosePassword, Numbered
<1>4. ASSUME NEW e, NEW u, NEW gone, DeleteUser(e, u, gone) PROVE Numbered'
  BY <1>0, <1>4 DEF DeleteUser, Numbered
<1>5. ASSUME NEW p \in Requests, Step(p)
      PROVE  \/ UNCHANGED users
             \/ \E e \in Emails, state \in {"own", "fresh"} : NewAccount(e, state)
             \/ \E e, u, gone : DeleteUser(e, u, gone)
  <2>1. CASE ProvisionCreate(p) \/ RegisterCreate(p) \/ AdminCreate(p)
    <3>1. req[p].e \in Emails
      BY <2>1 DEF ProvisionCreate, RegisterCreate, AdminCreate, At, IInv, RequestsAreSound,
         Sound, NamesAddress, Labels
    <3> QED
      BY <2>1, <3>1 DEF ProvisionCreate, RegisterCreate, AdminCreate, CreateAccount,
         NewAccount, Fail, tables
  <2>2. CASE UnusedDelete(p) \/ PersonErase(p)
    BY <2>2 DEF UnusedDelete, PersonErase, Fail, tables
  <2>3. CASE ~(\/ ProvisionCreate(p) \/ RegisterCreate(p) \/ AdminCreate(p)
               \/ UnusedDelete(p) \/ PersonErase(p))
    BY <1>5, <2>3 DEF Step, InviteFind, InviteCheck, InviteInsert, ProvisionFind, Link,
       EnterOpen, EnterFind, Login, LoginRefused, SelfFind, SelfInsert, RegisterFind,
       RegisterGate, IssueTokens, Discard, Answer, RemoveFind, RemoveCheck, RemoveDelete,
       UnusedFind, UnusedCount, RescheduleFind, RescheduleSave, RevokeFind, RevokeUpdate,
       PersonFind, PersonCount, PersonCommit, AdminFind, Cut, Fail, tables
  <2> QED
    BY <2>1, <2>2, <2>3
<1> QED
  BY <1>1, <1>2, <1>3, <1>4, <1>5 DEF Next, vars, Arrive, Start, tables

\* A step that leaves an address and its requests alone keeps it served.
LEMMA WaitsServed ==
    ASSUME RequestsAreSound, NEW e \in Emails, Served(e), Still(e),
           \A q \in Requests : req[q].e = e \/ req'[q].e = e => req'[q] = req[q]
    PROVE  Served(e)'
<1>1. ~Busy(e)' => Whole(e)'
  BY StillWhole DEF Served, Busy
<1>2. ASSUME NEW q \in Requests, req'[q].e = e
      PROVE  Fits(req[q])' /\ \A t \in Requests : req'[t].e = e => t = q
  <2>1. PICK r : r = req[q]
    OBVIOUS
  <2>2. r.e = e /\ Sound(r) /\ Fits(r) /\ req'[q] = r
    BY <1>2, <2>1 DEF Served, RequestsAreSound
  <2>3. Fits(r)'
    BY <2>2, StillFits
  <2>4. Fits(req[q])'
    BY <2>2, <2>3
  <2> QED
    BY <1>2, <2>2, <2>4 DEF Served
<1> QED
  BY <1>1, <1>2 DEF Served

\* The address whose only request takes a step.
LEMMA LandsServed ==
    ASSUME NEW e \in Emails, NEW p \in Requests, Served(e), req[p].e = e, Lands(p, e),
           \A q \in Requests : q # p => req'[q] = req[q]
    PROVE  Served(e)'
<1>1. \A q \in Requests : q # p => req'[q].e # e
  BY DEF Served
<1>2. CASE req'[p] = Idle /\ Whole(e)'
  <2>1. req'[p].e # e
    BY <1>2, ActorsAssumption DEF Idle
  <2> QED
    BY <1>1, <1>2, <2>1 DEF Served
<1>3. CASE \E r : req'[p] = r /\ r.e = e /\ Fits(r)'
  <2>1. PICK r : req'[p] = r /\ r.e = e /\ Fits(r)'
    BY <1>3
  <2>2. Fits(req[p])' /\ Busy(e)'
    BY <2>1 DEF Busy
  <2> QED
    BY <1>1, <2>1, <2>2 DEF Served
<1> QED
  BY <1>2, <1>3 DEF Lands

\* A request arrives; the address is undisturbed if nobody was busy with it.
LEMMA ArriveServed ==
    ASSUME IInv, NEW f \in Emails, Undisturbed(f)', Served(f),
           NEW p \in Requests, NEW k \in Kinds,
           NEW a \in Assessments \cup {NoAssessment}, NEW e \in Emails, Arrive(p, k, a, e)
    PROVE  Served(f)'
<1> DEFINE r == [pc |-> FirstLabel[k], op |-> k, a |-> a, e |-> e, user |-> 0, row |-> NoRow]
<1>0. /\ UNCHANGED tables /\ k \in Operations
      /\ req' = [req EXCEPT ![p] = r] /\ req \in [Requests -> Request]
  BY BoundsAssumption DEF Arrive, IInv, RequestsAreSound
<1>1. Still(f)
  BY <1>0, ReadIsStill
<1>2. req'[p] = r /\ \A q \in Requests : q # p => req'[q] = req[q]
  BY <1>0
<1>3. CASE f # e /\ req[p].e # f
  <2>1. \A q \in Requests : req[q].e = f \/ req'[q].e = f => req'[q] = req[q]
    BY <1>2, <1>3
  <2> QED
    BY <1>1, <2>1, WaitsServed DEF IInv
<1>4. CASE f # e /\ req[p].e = f
  <2>1. Whole(f)
    BY <1>4 DEF Served, Fits, Arrive, At, Entering, Provisioning, Sweeping
  <2>2. Whole(f)' /\ ~Busy(f)'
    BY <1>1, <1>2, <1>4, <2>1, StillWhole DEF Served, Busy
  <2> QED
    BY <2>2 DEF Served, Busy
<1>5. CASE f = e
  <2>1. ~Busy(e)
    BY <1>5 DEF Undisturbed, Arrive
  <2>2. Whole(e)
    BY <1>5, <2>1 DEF Served
  <2>3. PICK t : t = r
    OBVIOUS
  <2>4. /\ t.pc = FirstLabel[k] /\ t.op = k /\ t.e = e /\ t.user = 0
        /\ t.pc \in {"invite_find", "register_find", "enter_open", "remove_find",
                      "reschedule_find", "revoke_find", "person_find", "admin_find"}
        /\ t.pc = "invite_find" => t.op = "invite"
        /\ t.pc = "enter_open" => t.op = "enter"
        /\ t.pc = "register_find" => t.op = "register"
    BY <1>0, <2>3 DEF FirstLabel, Operations
  <2>5. Fits(t)
    BY <2>2, <2>4 DEF Fits, Coming, Inviting, Entering, Provisioning, Sweeping, KnowsAccount,
          FindsNone
  <2>6. Fits(t)'
    BY <1>0, <2>5, ReadKeeps
  <2>7. Fits(req[p])' /\ Busy(e)'
    BY <1>2, <2>3, <2>4, <2>6 DEF Busy
  <2>8. \A q \in Requests : q # p => req'[q].e # e
    BY <1>2, <2>1 DEF Busy
  <2> QED
    BY <1>5, <2>7, <2>8 DEF Served
<1> QED
  BY <1>3, <1>4, <1>5

\* The candidate takes a password, or starts.
LEMMA CandidateIsStill ==
    ASSUME Consistent, NEW f \in Emails,
           (\E e \in Emails : ChoosePassword(e)) \/ (\E s \in Slots : Start(s))
    PROVE  Still(f) /\ req' = req
<1>1. CASE \E e \in Emails : ChoosePassword(e)
  BY <1>1 DEF ChoosePassword, Still, Account, Consistent, TablesAreTyped
<1>2. CASE \E s \in Slots : Start(s)
  <2>1. PICK s \in Slots : Start(s)
    BY <1>2
  <2>2. ASSUME NEW a \in Assessments
        PROVE  /\ invitations'[<<a, f>>].id = invitations[<<a, f>>].id
               /\ invitations'[<<a, f>>].cand = invitations[<<a, f>>].cand
    <3>1. <<a, f>> \in Slots /\ invitations \in [Slots -> Row]
      BY DEF Slots, Consistent, TablesAreTyped
    <3> QED
      BY <2>1, <3>1 DEF Start, Row
  <2> QED
    BY <2>1, <2>2 DEF Start, Still, Account
<1> QED
  BY <1>1, <1>2

\* Every step leaves an undisturbed address served.
LEMMA NextServed ==
    ASSUME IInv, Numbered, NEW f \in Emails, Undisturbed(f) => Served(f), Undisturbed(f)',
           [Next]_vars
    PROVE  Served(f)'
<1>0. Undisturbed(f) /\ Served(f)
  <2>1. disturbed \subseteq disturbed'
    <3>1. ASSUME NEW p \in Requests, Step(p) PROVE disturbed \subseteq disturbed'
      BY <3>1 DEF Step, InviteFind, InviteCheck, InviteInsert, ProvisionFind, ProvisionCreate,
         Link, EnterOpen, EnterFind, Login, LoginRefused, SelfFind, SelfInsert, RegisterFind,
         RegisterGate, RegisterCreate, IssueTokens, Discard, Answer, RemoveFind, RemoveCheck,
         RemoveDelete, UnusedFind, UnusedCount, UnusedDelete, RescheduleFind, RescheduleSave,
         RevokeFind, RevokeUpdate, PersonFind, PersonCount, PersonCommit, PersonErase,
         AdminFind, AdminCreate, Cut, CreateAccount, Fail, env
    <3> QED
      BY <3>1 DEF Next, vars, Arrive, ChoosePassword, Start, env
  <2> QED
    BY <2>1 DEF Undisturbed
<1>1. ASSUME NEW p \in Requests, Step(p) PROVE Served(f)'
  <2>1. Elsewhere(p)
    BY <1>1, StepElsewhere DEF IInv
  <2>2. CASE req[p].e = f
    <3>1. Fits(req[p])
      BY <1>0, <2>2 DEF Served
    <3>2. ~Cut(p)
      BY <2>2 DEF Cut, Undisturbed
    <3>3. Lands(p, f)
      BY <1>1, <2>2, <3>1, <3>2, StepLands DEF IInv
    <3> QED
      BY <1>0, <2>1, <2>2, <3>3, LandsServed DEF Elsewhere
  <2>3. CASE req[p].e # f
    <3>1. req'[p].e # f
      BY <1>1, <2>3, StepKeepsAddress DEF IInv
    <3>2. Still(f)
      BY <2>1, <2>3 DEF Elsewhere
    <3>3. \A q \in Requests : req[q].e = f \/ req'[q].e = f => req'[q] = req[q]
      BY <2>1, <2>3, <3>1 DEF Elsewhere
    <3> QED
      BY <1>0, <3>2, <3>3, WaitsServed DEF IInv
  <2> QED
    BY <2>2, <2>3
<1>2. ASSUME NEW p \in Requests, NEW k \in Kinds, NEW a \in Assessments \cup {NoAssessment},
             NEW e \in Emails, Arrive(p, k, a, e)
      PROVE  Served(f)'
  BY <1>0, <1>2, ArriveServed
<1>3. CASE (\E e \in Emails : ChoosePassword(e)) \/ (\E s \in Slots : Start(s))
  BY <1>0, <1>3, CandidateIsStill, WaitsServed DEF IInv
<1>4. CASE UNCHANGED vars
  <2>1. Still(f) /\ req' = req
    BY <1>4, ReadIsStill DEF vars, tables
  <2> QED
    BY <1>0, <2>1, WaitsServed DEF IInv
<1> QED
  BY <1>1, <1>2, <1>3, <1>4 DEF Next

\* Nobody is invited at first.
LEMMA WholeInitSound == Init => WholeIInv
<1> SUFFICES ASSUME Init PROVE WholeIInv
  OBVIOUS
<1>1. ASSUME NEW e \in Emails PROVE Served(e)
  <2>1. Whole(e)
    BY DEF Init, Whole, Held, Invited, Exists, Slots, NoRow
  <2>2. \A p \in Requests : req[p].e # e
    BY ActorsAssumption DEF Init, Idle
  <2> QED
    BY <2>1, <2>2 DEF Served
<1>2. Numbered
  BY DEF Init, Numbered
<1> QED
  BY <1>1, <1>2, InitSound DEF WholeIInv

\* Every step keeps the addresses whole.
LEMMA WholeNextKeeps == WholeIInv /\ [Next]_vars => WholeIInv'
<1> SUFFICES ASSUME WholeIInv, [Next]_vars PROVE WholeIInv'
  OBVIOUS
<1>1. IInv' /\ Numbered'
  BY NextKeeps, NextNumbered DEF WholeIInv
<1>2. ASSUME NEW e \in Emails, Undisturbed(e)' PROVE Served(e)'
  BY <1>2, NextServed DEF WholeIInv
<1> QED
  BY <1>1, <1>2 DEF WholeIInv

\* The inductive invariant of the addresses.
LEMMA WholeInvariant == Spec => []WholeIInv
BY WholeInitSound, WholeNextKeeps, PTL DEF Spec

\* An address whose requests never overlapped and were never cut short is left whole: its
\* invitations are held by its account, an account nobody took over is invited, and whoever
\* entered by the link can start.
THEOREM AdmissionStaysWhole == Spec => []AdmissionIsWhole
<1>1. WholeIInv => AdmissionIsWhole
  <2> SUFFICES ASSUME WholeIInv PROVE AdmissionIsWhole
    OBVIOUS
  <2>1. InvitationsAreHeld
    <3> SUFFICES ASSUME NEW s \in Slots, Exists(s), AtRest(s[2]), Undisturbed(s[2])
                 PROVE  Account(s[2]) # 0 /\ invitations[s].cand = Account(s[2])
      BY DEF InvitationsAreHeld
    <3>1. s[1] \in Assessments /\ s[2] \in Emails /\ s = <<s[1], s[2]>>
      BY DEF Slots
    <3>2. Whole(s[2])
      BY <3>1 DEF WholeIInv, Served, AtRest
    <3> QED
      BY <3>1, <3>2 DEF Whole, Held, Invited
  <2>2. FreshAccountsAreInvited
    BY DEF FreshAccountsAreInvited, WholeIInv, Served, AtRest, Whole
  <2>3. EntrantsCanStart
    <3> SUFFICES ASSUME NEW p \in Requests, At(p, "entered"), Undisturbed(req[p].e)
                 PROVE  /\ invitations[SlotOf(req[p])].id = req[p].row.id
                        /\ Account(req[p].e) # 0
                        /\ invitations[SlotOf(req[p])].cand = Account(req[p].e)
      BY DEF EntrantsCanStart
    <3>1. /\ req[p].a \in Assessments /\ req[p].e \in Emails
          /\ SlotOf(req[p]) = <<req[p].a, req[p].e>>
      BY SlotIsNamed DEF At, NamesSlot, WholeIInv, IInv, SlotOf
    <3>2. Fits(req[p])
      BY <3>1 DEF WholeIInv, Served
    <3>3. Whole(req[p].e) /\ Given(req[p])
      BY <3>2 DEF At, Fits, Entering, Provisioning, Sweeping
    <3> QED
      BY <3>1, <3>3 DEF Whole, Held, Invited, Given
  <2> QED
    BY <2>1, <2>2, <2>3 DEF AdmissionIsWhole
<1> QED
  BY <1>1, WholeInvariant, PTL

\* Every step of a request changes it.
LEMMA StepActs ==
    ASSUME RequestsAreSound, NEW p \in Requests, Step(p)
    PROVE  req'[p] # req[p]
<1> USE DEF At
<1>0. req \in [Requests -> Request] /\ req[p] \in Request
  BY DEF RequestsAreSound
<1>1. ASSUME NEW label, label # req[p].pc, Goto(p, label) PROVE req'[p] # req[p]
  BY <1>0, <1>1 DEF Goto, Request
<1>2. ASSUME NEW label, NEW u, NEW row, label # req[p].pc, Carry(p, label, u, row)
      PROVE  req'[p] # req[p]
  BY <1>0, <1>2 DEF Carry, Request
<1>3. ASSUME req[p].pc # "idle", Done(p) PROVE req'[p] # req[p]
  BY <1>0, <1>3 DEF Done, Idle
<1>4. ASSUME req[p].pc \notin {"idle", "discard"}, Throws(p) PROVE req'[p] # req[p]
  BY <1>1, <1>3, <1>4 DEF Throws
<1>5. CASE InviteFind(p) \/ InviteCheck(p) \/ InviteInsert(p)
           \/ ProvisionFind(p) \/ ProvisionCreate(p) \/ Link(p)
  BY <1>1, <1>2, <1>3, <1>4, <1>5 DEF InviteFind, InviteCheck, InviteInsert, ProvisionFind,
     ProvisionCreate, Link, CreateAccount, Fail
<1>6. CASE EnterOpen(p) \/ EnterFind(p) \/ Login(p) \/ LoginRefused(p)
           \/ SelfFind(p) \/ SelfInsert(p)
  BY <1>1, <1>2, <1>3, <1>4, <1>6 DEF EnterOpen, EnterFind, Login, LoginRefused, SelfFind,
     SelfInsert, AfterSelf, Fail
<1>7. CASE RegisterFind(p) \/ RegisterGate(p) \/ RegisterCreate(p)
           \/ IssueTokens(p) \/ Discard(p) \/ Answer(p)
  BY <1>1, <1>2, <1>3, <1>4, <1>7 DEF RegisterFind, RegisterGate, RegisterCreate,
     CreateAccount, IssueTokens, Discard, Answer, Fail
<1>8. CASE RemoveFind(p) \/ RemoveCheck(p) \/ RemoveDelete(p)
           \/ UnusedFind(p) \/ UnusedCount(p) \/ UnusedDelete(p)
  BY <1>1, <1>2, <1>3, <1>4, <1>8 DEF RemoveFind, RemoveCheck, RemoveDelete, UnusedFind,
     UnusedCount, UnusedDelete, Fail
<1>9. CASE RescheduleFind(p) \/ RescheduleSave(p) \/ RevokeFind(p) \/ RevokeUpdate(p)
           \/ AdminFind(p) \/ AdminCreate(p)
  BY <1>1, <1>2, <1>3, <1>4, <1>9 DEF RescheduleFind, RescheduleSave, RevokeFind,
     RevokeUpdate, AdminFind, AdminCreate
<1>10. CASE PersonFind(p) \/ PersonCount(p) \/ PersonCommit(p) \/ PersonErase(p)
  BY <1>1, <1>2, <1>3, <1>4, <1>10 DEF PersonFind, PersonCount, PersonCommit, PersonErase, Fail
<1>11. CASE Cut(p)
  <2>1. Throws(p) \/ Done(p)
    BY <1>11 DEF Cut
  <2>2. CASE req[p].pc = "discard"
    BY <1>3, <1>11, <2>1, <2>2 DEF Cut, Throws
  <2> QED
    BY <1>3, <1>4, <1>11, <2>1, <2>2 DEF Cut
<1> QED
  BY <1>5, <1>6, <1>7, <1>8, <1>9, <1>10, <1>11 DEF Step

\* What a step takes from the tables, it takes from the row it names, unless it erases
\* an account that no other row is linked to.
LEMMA StepErases ==
    ASSUME RequestsAreSound, Consistent, NEW p \in Requests, Step(p),
           NEW a \in Assessments, NEW e \in Emails,
           req[p].e = e => Fits(req[p]),
           ~(req[p].a = a /\ req[p].e = e)
    PROVE  /\ Exists(<<a, e>>) => Exists(<<a, e>>)'
           /\ attempts[<<a, e>>] # 0 => attempts'[<<a, e>>] = attempts[<<a, e>>]
<1> USE DEF At
<1> DEFINE s == <<a, e>>
<1>0. /\ s \in Slots /\ s # SlotOf(req[p])
      /\ invitations \in [Slots -> Row] /\ attempts \in [Slots -> Nat]
  BY DEF Slots, SlotOf, Consistent, TablesAreTyped
<1>1. CASE UNCHANGED <<invitations, attempts>>
  BY <1>1 DEF Exists
<1>2. CASE InviteInsert(p) \/ SelfInsert(p) \/ Discard(p) \/ RemoveDelete(p)
           \/ RescheduleSave(p) \/ RevokeUpdate(p)
  <2>1. attempts' = attempts /\ invitations'[s] = invitations[s]
    BY <1>0, <1>2 DEF InviteInsert, SelfInsert, Discard, RemoveDelete, RescheduleSave,
       RevokeUpdate, Insert, Fail, tables
  <2> QED
    BY <2>1 DEF Exists
<1>3. CASE Link(p)
  <2>1. attempts' = attempts /\ invitations'[s].id = invitations[s].id
    BY <1>0, <1>3 DEF Link, Fail, tables, Row
  <2> QED
    BY <2>1 DEF Exists
<1>4. CASE PersonCommit(p)
  BY <1>0, <1>4 DEF PersonCommit, Doomed, Exists
<1>5. CASE UnusedDelete(p) /\ ~UNCHANGED tables
  <2>1. CASE req[p].e # e
    BY <1>0, <1>5, <2>1 DEF UnusedDelete, DeleteUser, Linked, Fail, Exists
  <2>2. CASE req[p].e = e
    <3>1. ~Exists(s)
      BY <1>5, <2>2 DEF UnusedDelete, Fits, Invited
    <3> QED
      BY <1>0, <3>1 DEF Consistent, NothingDangles
  <2> QED
    BY <2>1, <2>2
<1>6. CASE PersonErase(p) /\ ~UNCHANGED tables
  <2>1. CASE req[p].e # e
    BY <1>0, <1>6, <2>1 DEF PersonErase, DeleteUser, Doomed, Linked, Fail, Exists
  <2>2. CASE req[p].e = e
    <3>1. ~Exists(s)
      BY <1>6, <2>2 DEF PersonErase, Fits
    <3> QED
      BY <1>0, <3>1 DEF Consistent, NothingDangles
  <2> QED
    BY <2>1, <2>2
<1> QED
  BY <1>1, <1>2, <1>3, <1>4, <1>5, <1>6 DEF Step, InviteFind, InviteCheck, ProvisionFind,
     ProvisionCreate, EnterOpen, EnterFind, Login, LoginRefused, SelfFind, RegisterFind,
     RegisterGate, RegisterCreate, IssueTokens, Answer, RemoveFind, RemoveCheck, UnusedFind,
     UnusedCount, UnusedDelete, RescheduleFind, RevokeFind, PersonFind, PersonCount,
     PersonErase, AdminFind, AdminCreate, Cut, CreateAccount, Fail, tables

\* A company's invitation or attempt disappears only in a step of a request to that company.
THEOREM RecordsStayTheCompanysOwn == Spec => RecordsAreTheCompanysOwn
<1>1. ASSUME WholeIInv, [Next]_vars, NEW s \in Slots, Undisturbed(s[2]),
             \/ Exists(s) /\ ~Exists(s)'
             \/ attempts[s] # 0 /\ attempts'[s] = 0
      PROVE  ActsFor(s[1])
  <2>0. PICK a \in Assessments, e \in Emails : s = <<a, e>>
    BY DEF Slots
  <2>1. /\ RequestsAreSound /\ Consistent
        /\ \A p \in Requests : req[p].e = e => Fits(req[p])
    BY <1>1, <2>0 DEF WholeIInv, IInv, Served
  <2>2. ASSUME NEW p \in Requests, Step(p) PROVE ActsFor(a)
    <3>1. req[p].a = a
      BY <1>1, <2>0, <2>1, <2>2, StepErases
    <3> QED
      BY <2>1, <2>2, <3>1, StepActs DEF ActsFor
  <2>3. ASSUME NEW x \in Slots, Start(x) PROVE FALSE
    <3>1. invitations \in [Slots -> Row] /\ attempts \in [Slots -> Nat]
      BY <2>1 DEF Consistent, TablesAreTyped
    <3> QED
      BY <1>1, <2>3, <3>1 DEF Start, Exists, Row
  <2>4. ~UNCHANGED <<invitations, attempts>>
    BY <1>1 DEF Exists
  <2> QED
    BY <1>1, <2>0, <2>2, <2>3, <2>4 DEF Next, vars, Arrive, ChoosePassword, tables
<1>2. WholeIInv /\ [Next]_vars
        => [\A s \in Slots :
              /\ Undisturbed(s[2])
              /\ (Exists(s) /\ ~Exists(s)') \/ (attempts[s] # 0 /\ attempts'[s] = 0)
              => ActsFor(s[1])]_vars
  BY <1>1
<1> QED
  BY <1>2, WholeInvariant, PTL DEF Spec, RecordsAreTheCompanysOwn

(***************************************************************************)
(* The cap.  A place is taken by a row of a self-registered candidate, or  *)
(* may yet be by a request that saves its copy of one; an entrant who has  *)
(* passed the test may take another.                                       *)
(***************************************************************************)
Places(a) == {e \in Emails : invitations[<<a, e>>].source = "self"}

Rescheduling(a) ==
    {p \in Requests : At(p, "reschedule_save") /\ req[p].a = a /\ req[p].row.source = "self"}

Could(a) == Places(a) \cup {e \in Emails : \E p \in Rescheduling(a) : req[p].e = e}

Passed == {"enter_find", "login", "self_find", "self_insert"}

Entrants(a) == {p \in Requests : req[p].pc \in Passed /\ req[p].a = a}

CapHolds(a) == Cardinality(Could(a)) + Cardinality(Entrants(a)) <= Cap + Cardinality(Requests) - 1

CapIInv == IInv /\ \A a \in Assessments : CapHolds(a)

\* What the cap counts can be counted.
LEMMA CapSetsAreFinite ==
    ASSUME NEW a
    PROVE  /\ IsFiniteSet(Could(a)) /\ Cardinality(Could(a)) \in Nat
           /\ IsFiniteSet(Entrants(a)) /\ Cardinality(Entrants(a)) \in Nat
           /\ IsFiniteSet(Could(a)') /\ Cardinality(Could(a)') \in Nat
           /\ IsFiniteSet(Entrants(a)') /\ Cardinality(Entrants(a)') \in Nat
           /\ Cardinality(Requests) \in Nat \ {0}
<1>1. IsFiniteSet(Emails) /\ IsFiniteSet(Requests) /\ Requests # {}
  BY ActorsAssumption
<1>2. \A S : S \subseteq Emails \/ S \subseteq Requests
              => IsFiniteSet(S) /\ Cardinality(S) \in Nat
  BY <1>1, FS_Subset, FS_CardinalityType
<1>3. /\ Could(a) \subseteq Emails /\ Could(a)' \subseteq Emails
      /\ Entrants(a) \subseteq Requests /\ Entrants(a)' \subseteq Requests
  BY DEF Could, Places, Entrants
<1>4. Cardinality(Requests) \in Nat \ {0}
  BY <1>1, <1>2, FS_EmptySet
<1> QED
  BY <1>2, <1>3, <1>4

\* A step that takes no place and lets nobody past the test.
LEMMA FewerHold ==
    ASSUME NEW a, CapHolds(a), Could(a)' \subseteq Could(a), Entrants(a)' \subseteq Entrants(a)
    PROVE  CapHolds(a)'
<1>1. /\ Cardinality(Could(a)') <= Cardinality(Could(a))
      /\ Cardinality(Entrants(a)') <= Cardinality(Entrants(a))
  BY CapSetsAreFinite, FS_Subset
<1>2. Cap \in Nat
  BY BoundsAssumption
<1> QED
  BY <1>1, <1>2, CapSetsAreFinite DEF CapHolds

\* Two disjoint parts of the requests are no more than there are.
LEMMA PartsOfRequests ==
    ASSUME NEW S \in SUBSET Requests, NEW T \in SUBSET Requests, S \cap T = {}
    PROVE  /\ IsFiniteSet(S) /\ IsFiniteSet(T)
           /\ Cardinality(S) \in Nat /\ Cardinality(T) \in Nat
           /\ Cardinality(S) + Cardinality(T) <= Cardinality(Requests)
<1>1. IsFiniteSet(Requests)
  BY ActorsAssumption
<1>2. IsFiniteSet(S) /\ IsFiniteSet(T) /\ Cardinality(S) \in Nat /\ Cardinality(T) \in Nat
  BY <1>1, FS_Subset, FS_CardinalityType
<1>3. Cardinality(S \cup T) = Cardinality(S) + Cardinality(T)
  <2>1. Cardinality(S \cap T) = 0
    BY FS_EmptySet
  <2>2. Cardinality(S \cup T) = Cardinality(S) + Cardinality(T) - Cardinality(S \cap T)
    BY <1>2, FS_Union
  <2> QED
    BY <1>2, <2>1, <2>2
<1>4. Cardinality(S \cup T) <= Cardinality(Requests)
  <2>1. (S \cup T) \in SUBSET Requests
    OBVIOUS
  <2> QED
    BY <1>1, <2>1, FS_Subset
<1> QED
  BY <1>2, <1>3, <1>4

\* No more places come back than there are requests to save them.
LEMMA ReturnsAreRequests ==
    ASSUME NEW a
    PROVE  Cardinality(Could(a)) <= SelfCount(a) + Cardinality(Rescheduling(a))
<1> DEFINE R == Rescheduling(a)
           E == {e \in Emails : \E p \in R : req[p].e = e}
           Q == {p \in R : req[p].e \in Emails}
           f == [p \in Q |-> req[p].e]
<1>1. /\ IsFiniteSet(R) /\ Cardinality(R) \in Nat
      /\ IsFiniteSet(Q) /\ Cardinality(Q) \in Nat /\ Cardinality(Q) <= Cardinality(R)
  <2>1. R \in SUBSET Requests /\ Q \in SUBSET R
    BY DEF Rescheduling
  <2> QED
    BY <2>1, ActorsAssumption, FS_Subset, FS_CardinalityType
<1>2. f \in Surjection(Q, E)
  BY DEF Surjection
<1>3. IsFiniteSet(E) /\ Cardinality(E) <= Cardinality(Q) /\ Cardinality(E) \in Nat
  BY <1>1, <1>2, FS_Surjection, FS_CardinalityType
<1>4. IsFiniteSet(Places(a)) /\ Cardinality(Places(a)) \in Nat
  <2>1. Places(a) \in SUBSET Emails
    BY DEF Places
  <2> QED
    BY <2>1, ActorsAssumption, FS_Subset, FS_CardinalityType
<1>5. SelfCount(a) = Cardinality(Places(a))
  BY DEF SelfCount, Places
<1>6. Cardinality(Places(a) \cup E) <= Cardinality(Places(a)) + Cardinality(E)
  <2>1. IsFiniteSet(Places(a) \cap E) /\ Cardinality(Places(a) \cap E) \in Nat
    BY <1>4, FS_Subset, FS_CardinalityType
  <2>2. Cardinality(Places(a) \cup E)
          = Cardinality(Places(a)) + Cardinality(E) - Cardinality(Places(a) \cap E)
    BY <1>3, <1>4, FS_Union
  <2> QED
    BY <1>3, <1>4, <2>1, <2>2
<1>7. Could(a) = Places(a) \cup E
  BY DEF Could
<1> HIDE DEF E, Q, R
<1>8. Cardinality(Could(a)) <= Cardinality(Places(a)) + Cardinality(R)
  BY <1>1, <1>3, <1>4, <1>6, <1>7, CapSetsAreFinite
<1> QED
  BY <1>5, <1>8 DEF R

\* What one step of a request does to the places: those taken or that may yet be, and
\* those past the test.
LEMMA StepHolds ==
    ASSUME IInv, NEW p \in Requests, Step(p), NEW a \in Assessments,
           \A e \in Emails : invitations'[<<a, e>>].source = "self" => e \in Could(a),
           /\ req'[p].pc = "reschedule_save" /\ req'[p].row.source = "self"
           => <<req'[p].a, req'[p].e>> = SlotOf(req[p])
              /\ invitations[SlotOf(req[p])].source = "self",
           req'[p].pc \in Passed => req[p].pc \in Passed /\ req'[p].a = req[p].a
    PROVE  Could(a)' \subseteq Could(a) /\ Entrants(a)' \subseteq Entrants(a)
<1>1. \A q \in Requests : q # p => req'[q] = req[q]
  BY StepElsewhere DEF IInv, Elsewhere
<1>2. ASSUME NEW e \in Emails, NEW q \in Requests, req'[q].pc = "reschedule_save",
             req'[q].a = a, req'[q].row.source = "self", req'[q].e = e
      PROVE  e \in Could(a)
  <2>1. CASE q = p
    <3>1. invitations[<<a, e>>].source = "self"
      BY <1>2, <2>1 DEF SlotOf
    <3> QED
      BY <3>1 DEF Could, Places
  <2>2. CASE q # p
    BY <1>1, <1>2, <2>2 DEF Could, Rescheduling, At
  <2> QED
    BY <2>1, <2>2
<1>3. Could(a)' \subseteq Could(a)
  BY <1>2 DEF Could, Places, Rescheduling, At
<1>4. Entrants(a)' \subseteq Entrants(a)
  BY <1>1 DEF Entrants
<1> QED
  BY <1>3, <1>4

\* A row is a self-registered candidate's only if it was, unless a request saves its copy of one
\* or enters.
LEMMA PlacesKept ==
    ASSUME IInv, NEW p \in Requests, Step(p), ~SelfInsert(p),
           NEW a \in Assessments, NEW e \in Emails,
           invitations'[<<a, e>>].source = "self"
    PROVE  e \in Could(a)
<1> USE DEF At
<1> DEFINE s == <<a, e>>
<1>0. /\ s \in Slots /\ invitations \in [Slots -> Row] /\ NoRow.source # "self"
      /\ RequestsAreSound
  BY DEF Slots, IInv, Consistent, TablesAreTyped, NoRow
<1>1. CASE invitations'[s].source = invitations[s].source
  BY <1>1 DEF Could, Places
<1>2. CASE InviteInsert(p) \/ Discard(p) \/ RemoveDelete(p) \/ RevokeUpdate(p)
  <2>1. invitations'[s].source \in {invitations[s].source, "none", "recruiter"}
    BY <1>0, <1>2 DEF InviteInsert, Discard, RemoveDelete, RevokeUpdate, Insert, Fail, tables,
       Row, NoRow
  <2> QED
    BY <2>1 DEF Could, Places
<1>3. CASE Link(p)
  <2>1. invitations'[s].source = invitations[s].source
    BY <1>0, <1>3 DEF Link, Fail, tables, Row
  <2> QED
    BY <1>1, <2>1
<1>4. CASE UnusedDelete(p) \/ PersonCommit(p) \/ PersonErase(p)
  <2>1. invitations'[s] \in {invitations[s], NoRow}
    BY <1>0, <1>4 DEF UnusedDelete, PersonCommit, PersonErase, DeleteUser, Fail, tables
  <2> QED
    BY <1>0, <2>1 DEF Could, Places
<1>5. CASE RescheduleSave(p)
  <2>1. invitations'[s] = invitations[s] \/ (SlotOf(req[p]) = s /\ invitations'[s] = req[p].row)
    BY <1>0, <1>5 DEF RescheduleSave
  <2>2. CASE SlotOf(req[p]) = s /\ req[p].row.source = "self"
    <3>1. p \in Rescheduling(a) /\ req[p].e = e
      BY <1>5, <2>2 DEF RescheduleSave, SlotOf, Rescheduling
    <3> QED
      BY <3>1 DEF Could
  <2> QED
    BY <1>1, <2>1, <2>2
<1> QED
  BY <1>1, <1>2, <1>3, <1>4, <1>5 DEF Step, InviteFind, InviteCheck, ProvisionFind,
     ProvisionCreate, EnterOpen, EnterFind, Login, LoginRefused, SelfFind, RegisterFind,
     RegisterGate, RegisterCreate, IssueTokens, Answer, RemoveFind, RemoveCheck, UnusedFind,
     UnusedCount, RescheduleFind, RevokeFind, PersonFind, PersonCount,
     AdminFind, AdminCreate, Cut, CreateAccount, Fail, tables

\* Where a step takes a request: to the copy of a row as it finds it, and past the test
\* only from beyond it or through it.
LEMMA StepsOnward ==
    ASSUME IInv, NEW p \in Requests, Step(p), ~(EnterOpen(p) /\ Goto(p, "enter_find"))
    PROVE  /\ /\ req'[p].pc = "reschedule_save" /\ req'[p].row.source = "self"
              => /\ <<req'[p].a, req'[p].e>> = SlotOf(req[p])
                 /\ invitations[SlotOf(req[p])].source = "self"
           /\ req'[p].pc \in Passed => req[p].pc \in Passed /\ req'[p].a = req[p].a
<1> USE DEF At
<1>0. /\ RequestsAreSound /\ req \in [Requests -> Request] /\ req[p] \in Request
  BY DEF IInv, RequestsAreSound
<1>1. ASSUME NEW label, NEW u, NEW row,
             Carry(p, label, u, row) \/ (Goto(p, label) /\ row = req[p].row)
      PROVE  /\ req'[p].pc = label /\ req'[p].a = req[p].a /\ req'[p].e = req[p].e
             /\ req'[p].row = row
  BY <1>0, <1>1 DEF Goto, Carry, Request
<1>2. ASSUME Done(p) PROVE req'[p].pc = "idle"
  BY <1>0, <1>2 DEF Done, Idle
<1>3. ASSUME Throws(p) PROVE req'[p].pc \in {"idle", "discard"}
  BY <1>0, <1>1, <1>2, <1>3 DEF Throws
<1>4. CASE req'[p].pc \notin Passed \cup {"reschedule_save"}
  BY <1>4
<1>5. CASE RescheduleFind(p)
  <2>1. CASE Carry(p, "reschedule_save", 0, invitations[SlotOf(req[p])])
    BY <1>1, <2>1 DEF SlotOf, Passed
  <2> QED
    BY <1>2, <1>4, <1>5, <2>1 DEF RescheduleFind, Passed
<1>6. CASE EnterFind(p) \/ Login(p) \/ SelfFind(p)
  <2>1. req[p].pc \in Passed
    BY <1>6 DEF EnterFind, Login, SelfFind, Passed
  <2>2. /\ req'[p].pc \in Passed \cup {"register_find", "entered"}
        /\ req'[p].a = req[p].a
    BY <1>1, <1>6 DEF EnterFind, Login, SelfFind, AfterSelf, Passed
  <2> QED
    BY <2>1, <2>2 DEF Passed
<1>7. CASE InviteFind(p) \/ InviteCheck(p) \/ InviteInsert(p)
           \/ ProvisionFind(p) \/ ProvisionCreate(p) \/ Link(p)
  <2>1. \/ Done(p) \/ Throws(p)
        \/ \E label \in {"invite_check", "invite_insert", "provision_find",
                        "provision_create", "link", "issue_tokens"} :
             Goto(p, label) \/ \E u, row : Carry(p, label, u, row)
    BY <1>7 DEF InviteFind, InviteCheck, InviteInsert, ProvisionFind,
       ProvisionCreate, Link, CreateAccount, Fail
  <2> QED
    BY <1>1, <1>2, <1>3, <1>4, <2>1 DEF Passed
<1>8. CASE EnterOpen(p) \/ LoginRefused(p) \/ SelfInsert(p)
  BY <1>1, <1>2, <1>3, <1>4, <1>8 DEF EnterOpen, LoginRefused, SelfInsert, AfterSelf, Fail, Passed
<1>9. CASE RegisterFind(p) \/ RegisterGate(p) \/ RegisterCreate(p)
           \/ IssueTokens(p) \/ Discard(p) \/ Answer(p)
  BY <1>1, <1>2, <1>3, <1>4, <1>9 DEF RegisterFind, RegisterGate, RegisterCreate,
     CreateAccount, IssueTokens, Discard, Answer, Fail, Passed
<1>10. CASE RemoveFind(p) \/ RemoveCheck(p) \/ RemoveDelete(p)
           \/ UnusedFind(p) \/ UnusedCount(p) \/ UnusedDelete(p)
  <2>1. \/ Done(p) \/ Throws(p)
        \/ \E label \in {"remove_check", "remove_delete", "unused_find", "unused_count",
                        "unused_delete"} :
             Goto(p, label) \/ \E u, row : Carry(p, label, u, row)
    BY <1>10 DEF RemoveFind, RemoveCheck, RemoveDelete, UnusedFind, UnusedCount,
       UnusedDelete, Fail
  <2> QED
    BY <1>1, <1>2, <1>3, <1>4, <2>1 DEF Passed
<1>11. CASE RescheduleSave(p) \/ RevokeFind(p) \/ RevokeUpdate(p)
           \/ AdminFind(p) \/ AdminCreate(p)
  BY <1>1, <1>2, <1>3, <1>4, <1>11 DEF RescheduleSave, RevokeFind, RevokeUpdate, AdminFind,
     AdminCreate, Passed
<1>12. CASE PersonFind(p) \/ PersonCount(p) \/ PersonCommit(p) \/ PersonErase(p) \/ Cut(p)
  BY <1>1, <1>2, <1>3, <1>4, <1>12 DEF PersonFind, PersonCount, PersonCommit, PersonErase,
     Cut, Fail, Passed
<1> QED
  BY <1>5, <1>6, <1>7, <1>8, <1>9, <1>10, <1>11, <1>12 DEF Step

\* The test lets one through only while a place is left, whoever else is past it.
LEMMA TestHolds ==
    ASSUME IInv, NEW p \in Requests, NEW a \in Assessments, EnterOpen(p), Goto(p, "enter_find"),
           CapHolds(a)
    PROVE  CapHolds(a)'
<1> USE DEF At
<1> DEFINE R == Rescheduling(a)
           T == Entrants(a) \cup {p}
<1>0. /\ req \in [Requests -> Request] /\ req[p] \in Request /\ req[p].pc = "enter_open"
      /\ UNCHANGED tables
  BY DEF IInv, RequestsAreSound, EnterOpen
<1>1. /\ req'[p].pc = "enter_find" /\ req'[p].a = req[p].a
      /\ \A q \in Requests : q # p => req'[q] = req[q]
  BY <1>0 DEF Goto, Request
<1>2. Could(a)' \subseteq Could(a)
  BY <1>0, <1>1 DEF Could, Places, Rescheduling, tables
<1>3. CASE req[p].a # a
  <2>1. Entrants(a)' \subseteq Entrants(a)
    BY <1>1, <1>3 DEF Entrants
  <2> QED
    BY <1>2, <2>1, FewerHold
<1>4. CASE req[p].a = a
  <2>1. SelfCount(a) < Cap
    BY <1>0, <1>1, <1>4 DEF EnterOpen, Done, Idle
  <2>2. Entrants(a)' \subseteq T /\ T \in SUBSET Requests /\ R \in SUBSET Requests /\ R \cap T = {}
    BY <1>0, <1>1 DEF Entrants, Rescheduling, Passed
  <2>3. Cardinality(Entrants(a)') <= Cardinality(T)
    BY <2>2, PartsOfRequests, FS_Subset
  <2>4. Cardinality(Could(a)') <= SelfCount(a) + Cardinality(R)
    <3>1. Cardinality(Could(a)') <= Cardinality(Could(a))
      BY <1>2, CapSetsAreFinite, FS_Subset
    <3>2. SelfCount(a) \in Nat
      <4>1. Places(a) \in SUBSET Emails
        BY DEF Places
      <4> QED
        BY <4>1, ActorsAssumption, FS_Subset, FS_CardinalityType DEF SelfCount, Places
    <3>3. Cardinality(R) \in Nat
      BY <2>2, PartsOfRequests
    <3> QED
      BY <3>1, <3>2, <3>3, CapSetsAreFinite, ReturnsAreRequests
  <2>5. Cardinality(R) + Cardinality(T) <= Cardinality(Requests)
    BY <2>2, PartsOfRequests
  <2>6. /\ Cardinality(R) \in Nat /\ Cardinality(T) \in Nat /\ SelfCount(a) \in Nat
        /\ Cap \in Nat
    <3>1. Places(a) \in SUBSET Emails
      BY DEF Places
    <3>2. SelfCount(a) \in Nat
      BY <3>1, ActorsAssumption, FS_Subset, FS_CardinalityType DEF SelfCount, Places
    <3> QED
      BY <2>2, <3>2, PartsOfRequests, BoundsAssumption
  <2> HIDE DEF R, T
  <2> QED
    BY <2>1, <2>3, <2>4, <2>5, <2>6, CapSetsAreFinite DEF CapHolds
<1> QED
  BY <1>3, <1>4

\* Who takes a place gives up the claim to one.
LEMMA InsertHolds ==
    ASSUME IInv, NEW p \in Requests, NEW a \in Assessments, SelfInsert(p), CapHolds(a)
    PROVE  CapHolds(a)'
<1> USE DEF At
<1>0. /\ RequestsAreSound /\ req \in [Requests -> Request] /\ req[p] \in Request
      /\ req[p].pc = "self_insert" /\ req[p].e \in Emails
      /\ invitations \in [Slots -> Row] /\ SlotOf(req[p]) \in Slots
  BY SlotIsNamed DEF IInv, RequestsAreSound, SelfInsert, Consistent, TablesAreTyped, NamesSlot
<1>1. \A q \in Requests : q # p => req'[q] = req[q]
  BY StepElsewhere DEF IInv, Elsewhere, Step
<1>2. req'[p].pc \notin Passed \cup {"reschedule_save"}
  BY <1>0 DEF SelfInsert, Carry, AfterSelf, Fail, Throws, Goto, Done, Idle, Passed, Request
<1>3. PICK e \in Emails : e = req[p].e
  BY <1>0
<1>4. \A x \in Emails : x # e \/ req[p].a # a => invitations'[<<a, x>>] = invitations[<<a, x>>]
  BY <1>0, <1>3 DEF SelfInsert, Insert, SlotOf, Fail, tables, Slots
<1>5. Entrants(a)' = Entrants(a) \ {p}
  BY <1>1, <1>2 DEF Entrants
<1>6. Could(a)' \subseteq Could(a) \cup {e}
  BY <1>1, <1>2, <1>4 DEF Could, Places, Rescheduling
<1>7. CASE req[p].a # a
  <2>1. Could(a)' \subseteq Could(a)
    BY <1>1, <1>2, <1>4, <1>7 DEF Could, Places, Rescheduling
  <2> QED
    BY <1>5, <2>1, FewerHold
<1>8. CASE req[p].a = a
  <2>1. p \in Entrants(a)
    BY <1>0, <1>8 DEF Entrants, Passed
  <2>2. Cardinality(Entrants(a)') = Cardinality(Entrants(a)) - 1
    BY <1>5, <2>1, CapSetsAreFinite, FS_RemoveElement
  <2>3. Cardinality(Could(a)') <= Cardinality(Could(a)) + 1
    <3>1. /\ IsFiniteSet(Could(a) \cup {e})
          /\ Cardinality(Could(a) \cup {e}) \in {Cardinality(Could(a)), Cardinality(Could(a)) + 1}
      BY CapSetsAreFinite, FS_AddElement
    <3>2. Cardinality(Could(a)') <= Cardinality(Could(a) \cup {e})
      BY <1>6, <3>1, FS_Subset
    <3> QED
      BY <3>1, <3>2, CapSetsAreFinite
  <2>4. Cap \in Nat
    BY BoundsAssumption
  <2> QED
    BY <2>2, <2>3, <2>4, CapSetsAreFinite DEF CapHolds
<1> QED
  BY <1>7, <1>8

\* At first no place is taken.
LEMMA CapInitSound == Init => CapIInv
<1> SUFFICES ASSUME Init PROVE CapIInv
  OBVIOUS
<1>1. ASSUME NEW a \in Assessments PROVE CapHolds(a)
  <2>1. Could(a) = {} /\ Entrants(a) = {}
    BY <1>1 DEF Init, Could, Places, Rescheduling, Entrants, Passed, At, Idle, NoRow, Slots
  <2>2. Cardinality(Could(a)) = 0 /\ Cardinality(Entrants(a)) = 0
    BY <2>1, FS_EmptySet
  <2>3. Cap \in Nat \ {0} /\ Cardinality(Requests) \in Nat \ {0}
    BY BoundsAssumption, CapSetsAreFinite
  <2> QED
    BY <2>2, <2>3 DEF CapHolds
<1> QED
  BY <1>1, InitSound DEF CapIInv

\* Every step keeps the places and the entrants within bounds.
LEMMA CapNextKeeps == CapIInv /\ [Next]_vars => CapIInv'
<1> SUFFICES ASSUME CapIInv, [Next]_vars, NEW a \in Assessments PROVE CapHolds(a)'
  BY NextKeeps DEF CapIInv
<1> USE DEF At
<1>0. IInv /\ CapHolds(a) /\ req \in [Requests -> Request]
  BY DEF CapIInv, IInv, RequestsAreSound
<1>1. ASSUME NEW p \in Requests, Step(p) PROVE CapHolds(a)'
  <2>1. CASE EnterOpen(p) /\ Goto(p, "enter_find")
    BY <1>0, <2>1, TestHolds
  <2>2. CASE SelfInsert(p)
    BY <1>0, <2>2, InsertHolds
  <2>3. CASE ~SelfInsert(p) /\ ~(EnterOpen(p) /\ Goto(p, "enter_find"))
    BY <1>0, <1>1, <2>3, PlacesKept, StepsOnward, StepHolds, FewerHold
  <2> QED
    BY <2>1, <2>2, <2>3
<1>2. ASSUME NEW p \in Requests, NEW k \in Kinds, NEW b \in Assessments \cup {NoAssessment},
             NEW e \in Emails, Arrive(p, k, b, e)
      PROVE  CapHolds(a)'
  <2>1. /\ invitations' = invitations
        /\ \A q \in Requests : q # p => req'[q] = req[q]
        /\ req'[p].pc = FirstLabel[k] /\ k \in Operations
    BY <1>0, <1>2, BoundsAssumption DEF Arrive, tables
  <2>2. req'[p].pc \notin Passed \cup {"reschedule_save"}
    BY <2>1 DEF FirstLabel, Operations, Passed
  <2>3. Could(a)' \subseteq Could(a) /\ Entrants(a)' \subseteq Entrants(a)
    BY <2>1, <2>2 DEF Could, Places, Rescheduling, Entrants
  <2> QED
    BY <1>0, <2>3, FewerHold
<1>3. ASSUME NEW e \in Emails, ChoosePassword(e) PROVE CapHolds(a)'
  <2>1. Could(a)' \subseteq Could(a) /\ Entrants(a)' \subseteq Entrants(a)
    BY <1>3 DEF ChoosePassword, Could, Places, Rescheduling, Entrants
  <2> QED
    BY <1>0, <2>1, FewerHold
<1>4. ASSUME NEW s \in Slots, Start(s) PROVE CapHolds(a)'
  <2>1. req' = req /\ \A e \in Emails : invitations'[<<a, e>>].source = invitations[<<a, e>>].source
    BY <1>0, <1>4 DEF Start, IInv, Consistent, TablesAreTyped, Slots, Row
  <2>2. Could(a)' \subseteq Could(a) /\ Entrants(a)' \subseteq Entrants(a)
    BY <2>1 DEF Could, Places, Rescheduling, Entrants
  <2> QED
    BY <1>0, <2>2, FewerHold
<1>5. CASE UNCHANGED vars
  <2>1. Could(a)' \subseteq Could(a) /\ Entrants(a)' \subseteq Entrants(a)
    BY <1>5 DEF vars, Could, Places, Rescheduling, Entrants
  <2> QED
    BY <1>0, <2>1, FewerHold
<1> QED
  BY <1>1, <1>2, <1>3, <1>4, <1>5 DEF Next

\* Whatever requests overlap, fail or save old copies, a public link admits at most one
\* entrant over its cap for each further request the server can have in flight.
THEOREM CapNearlyHolds == Spec => []CapOvershoot
<1>1. CapIInv => CapOvershoot
  <2> SUFFICES ASSUME CapIInv, NEW a \in Assessments
               PROVE  SelfCount(a) <= Cap + Cardinality(Requests) - 1
    BY DEF CapOvershoot
  <2>1. Places(a) \in SUBSET Could(a) /\ SelfCount(a) = Cardinality(Places(a))
    BY DEF Could, Places, SelfCount
  <2>2. Cardinality(Places(a)) <= Cardinality(Could(a)) /\ Cardinality(Places(a)) \in Nat
    BY <2>1, CapSetsAreFinite, FS_Subset, FS_CardinalityType
  <2>3. CapHolds(a) /\ Cap \in Nat
    BY BoundsAssumption DEF CapIInv
  <2> QED
    BY <2>1, <2>2, <2>3, CapSetsAreFinite DEF CapHolds
<1> QED
  BY <1>1, CapInitSound, CapNextKeeps, PTL DEF Spec

(***************************************************************************)
(* Entrance: what a page holds                                             *)
(***************************************************************************)
Colours == {"done", "current", "stopped", "upcoming"}

Cards == [shows: {"card"}, offer: BOOLEAN, until: Bounds, bar: [DOMAIN Stages -> Colours]]
Refusals == [shows: {"refused"}, at: Instants, from: Cards \cup {Playing}, found: Attempts,
             as: Statuses]

PagesFit == page \in [Candidates -> {Blank, Playing} \cup Cards \cup Refusals]

(***************************************************************************)
(* The public link                                                         *)
(***************************************************************************)
InRound(d) == desk[d].doing = "round"

\* A token was minted before anybody holds it, and handed out before it is retired.
TokensFit ==
    /\ round.token \in {Null} \cup 1 .. minted
    /\ handed \subseteq 1 .. minted
    /\ retired \subseteq handed

\* A row that was read differs from the round's in its link only, and a call that retires
\* the old link has a new token or none; while no two calls overlap, one that does not
\* retire it has its token, and one that mints has a token nobody was given.
DeskFits(d) ==
    InRound(d) =>
        LET row == desk[d].row
        IN  /\ row.opens = round.opens /\ row.closes = round.closes
            /\ row.token \in {Null} \cup 1 .. minted
            /\ desk[d].mints => desk[d].retires /\ row.token \in 1 .. minted
            /\ desk[d].retires /\ ~desk[d].mints => row.token = Null
            /\ ~crossed /\ desk[d].mints => row.token \notin handed
            /\ ~crossed /\ ~desk[d].retires => row.token = round.token

DesksFit == \A d \in Desks : DeskFits(d)

OneAtATime == ~crossed => \A d, e \in Desks : InRound(d) /\ InRound(e) => d = e

LinkIsSound == TokensFit /\ DesksFit /\ OneAtATime /\ LinksStayRetired

(***************************************************************************)
(* The candidate                                                           *)
(***************************************************************************)
\* What a page shows is what the rows still say, unless the invitation was saved since.
CardFits(c) ==
    LET w == EffectiveWindow(round, invite[c])
    IN  page[c].shows = "card" =>
            /\ \A n \in DOMAIN Stages : page[c].bar[n] \in {"done", "current"} =>
                   \A k \in 1 .. n - 1 : page[c].bar[k] = "done"
            /\ c \notin changed /\ page[c].offer =>
                   /\ page[c].until = w.closes
                   /\ ~NotYet(w, instant)
                   /\ invite[c].status \notin {"none", "revoked"}

RefusalFits(c) ==
    page[c].shows = "refused" /\ page[c].from.shows = "card" /\ c \notin changed =>
        page[c].from.until # Null /\ page[c].at > page[c].from.until

DoorFits(c) == door[c] # Null => IsOpen(EffectiveWindow(round, NoInvite), door[c])

\* Nobody who was withdrawn before they began is on the way in.
StaysOut(c) ==
    withdrawn[c] = "none" =>
        attempt[c] = "none" /\ runner[c] = "idle" /\ invite[c].status = "revoked"

CandidateFits(c) == CardFits(c) /\ RefusalFits(c) /\ DoorFits(c) /\ StaysOut(c)

CandidatesFit == \A c \in Candidates : CandidateFits(c)

EntranceIInv == EntranceTypeOK /\ PagesFit /\ LinkIsSound /\ CandidatesFit

(***************************************************************************)
(* Initially                                                               *)
(***************************************************************************)
LEMMA EntranceInitSound == EntranceInit => EntranceIInv
<1> SUFFICES ASSUME EntranceInit PROVE EntranceIInv
  OBVIOUS
<1>1. EntranceTypeOK
  <2>1. round \in Rounds
    <3>1. round \in [token: {Null}, enabled: {FALSE}, expires: {Null}, opens: Bounds, closes: Bounds]
      BY DEF EntranceInit
    <3>2. Null \in Bounds
      BY DEF Bounds
    <3> QED
      BY <3>1, <3>2 DEF Rounds
  <2>2. invite \in [Candidates -> Invites]
    BY DEF EntranceInit, Invites, NoInvite, Statuses, Bounds
  <2>3. /\ attempt \in [Candidates -> Attempts]
        /\ runner \in [Candidates -> {"idle", "insert", "status"}]
        /\ door \in [Candidates -> Instants \cup {Null}]
        /\ withdrawn \in [Candidates -> Attempts \cup {Null}]
    BY DEF EntranceInit, Attempts
  <2>4. desk = [d \in Desks |-> NoRequest]
    BY DEF EntranceInit
  <2>5. deskCalls = 0 /\ handed = {} /\ retired = {} /\ crossed = FALSE /\ changed = {}
        /\ reported = {}
    BY DEF EntranceInit
  <2>6. instant \in Instants /\ minted \in 0 .. MaxMinted
    BY EntranceBoundsAssumption DEF EntranceInit, Instants
  <2> QED
    BY <2>1, <2>2, <2>3, <2>4, <2>5, <2>6 DEF EntranceTypeOK
<1>2. PagesFit
  BY DEF EntranceInit, PagesFit
<1>3. LinkIsSound
  <2>1. round.token = Null /\ handed = {} /\ retired = {} /\ \A d \in Desks : ~InRound(d)
    BY DEF EntranceInit, InRound, NoRequest
  <2> QED
    BY <2>1 DEF LinkIsSound, TokensFit, DesksFit, DeskFits, OneAtATime, LinksStayRetired
<1>4. CandidatesFit
  <2> SUFFICES ASSUME NEW c \in Candidates PROVE CandidateFits(c)
    BY DEF CandidatesFit
  <2>1. page[c].shows = "nothing" /\ door[c] = Null /\ withdrawn[c] = Null
    BY DEF EntranceInit, Blank
  <2> QED
    BY <2>1, NullAssumption DEF CandidateFits, CardFits, RefusalFits, DoorFits, StaysOut
<1> QED
  BY <1>1, <1>2, <1>3, <1>4 DEF EntranceIInv

(***************************************************************************)
(* The steps                                                               *)
(***************************************************************************)
\* A candidate whose rows, page and visit are left alone.
LEMMA CandidateStays ==
    ASSUME NEW c \in Candidates, CandidateFits(c),
           invite'[c] = invite[c], attempt'[c] = attempt[c], page'[c] = page[c],
           door'[c] = door[c], runner'[c] = runner[c], withdrawn'[c] = withdrawn[c],
           c \in changed => c \in changed',
           round'.opens = round.opens, round'.closes = round.closes, instant' = instant
    PROVE  CandidateFits(c)'
BY DEF CandidateFits, CardFits, RefusalFits, DoorFits, StaysOut, EffectiveWindow

LEMMA LinkStays ==
    ASSUME LinkIsSound, UNCHANGED <<round, minted, handed, retired, crossed>>,
           \A d \in Desks : InRound(d)' => desk'[d] = desk[d]
    PROVE  LinkIsSound'
<1>1. \A d \in Desks : InRound(d)' => InRound(d)
  BY DEF InRound
<1>2. DesksFit'
  <2> SUFFICES ASSUME NEW d \in Desks, InRound(d)' PROVE DeskFits(d)'
    BY DEF DesksFit, DeskFits
  <2>1. DeskFits(d) /\ desk'[d] = desk[d] /\ InRound(d)
    BY <1>1 DEF LinkIsSound, DesksFit
  <2> QED
    BY <2>1 DEF DeskFits, InRound
<1> QED
  BY <1>1, <1>2 DEF LinkIsSound, TokensFit, OneAtATime, LinksStayRetired

LEMMA AdvanceKeeps == ASSUME EntranceIInv, Advance PROVE EntranceIInv'
<1>1. /\ EntranceTypeOK /\ instant' = instant + 1 /\ instant < LastInstant
      /\ UNCHANGED <<rows, desk, clients, deskCalls, memory>>
  BY DEF Advance, EntranceIInv
<1>2. EntranceTypeOK'
  <2>1. instant' \in Instants
    BY <1>1, EntranceBoundsAssumption DEF EntranceTypeOK, Instants
  <2> QED
    BY <1>1, <2>1 DEF EntranceTypeOK, rows, clients, memory
<1>3. PagesFit'
  BY <1>1 DEF EntranceIInv, PagesFit, clients
<1>4. LinkIsSound'
  BY <1>1, LinkStays DEF EntranceIInv, rows, memory
<1>5. CandidatesFit'
  <2> SUFFICES ASSUME NEW c \in Candidates PROVE CandidateFits(c)'
    BY DEF CandidatesFit
  <2> DEFINE w == EffectiveWindow(round, invite[c])
  <2>1. CandidateFits(c)
    BY DEF EntranceIInv, CandidatesFit
  <2>2. w.opens \in Bounds /\ instant \in Nat /\ LastInstant \in Nat
    BY <1>1, EntranceBoundsAssumption DEF EntranceTypeOK, Instants, EffectiveWindow, Else, Rounds,
       Invites
  <2>3. ~NotYet(w, instant) => ~NotYet(w, instant')
    BY <1>1, <2>2 DEF NotYet, Bounds
  <2>4. /\ CardFits(c)'
    <3>1. EffectiveWindow(round, invite[c])' = w
      BY <1>1 DEF EffectiveWindow, Else, rows
    <3> HIDE DEF w
    <3> QED
      BY <1>1, <2>1, <2>3, <3>1 DEF CandidateFits, CardFits, rows, clients, memory, w
  <2> QED
    BY <1>1, <2>1, <2>4 DEF CandidateFits, RefusalFits, DoorFits, StaysOut, EffectiveWindow, rows,
       clients, memory
<1> QED
  BY <1>2, <1>3, <1>4, <1>5 DEF EntranceIInv

\* A call that reads the round.
LEMMA ReadRoundKeeps ==
    ASSUME EntranceIInv, NEW d \in Desks, NEW row \in Rounds,
           NEW mints \in BOOLEAN, NEW retires \in BOOLEAN,
           minted' \in 0 .. MaxMinted, minted <= minted',
           row.opens = round.opens, row.closes = round.closes,
           row.token \in {Null} \cup 1 .. minted',
           mints => retires /\ row.token = minted' /\ minted' > minted,
           retires /\ ~mints => row.token = Null,
           ~retires => row.token = round.token,
           ReadRound(d, row, mints, retires)
    PROVE  EntranceIInv'
<1> DEFINE new == [doing |-> "round", row |-> row, mints |-> mints, retires |-> retires]
<1>1. /\ desk' = [desk EXCEPT ![d] = new] /\ desk[d] = NoRequest
      /\ deskCalls' = deskCalls + 1
      /\ crossed' = (crossed \/ \E e \in Desks : desk[e].doing = "round")
      /\ UNCHANGED <<instant, round, invite, attempt, reported, clients, handed, retired, changed,
                     withdrawn>>
      /\ EntranceTypeOK /\ PagesFit /\ LinkIsSound /\ CandidatesFit
  BY DEF ReadRound, Asks, EntranceIInv
<1>2. EntranceTypeOK'
  BY <1>1 DEF EntranceTypeOK, clients
<1>3. PagesFit'
  BY <1>1 DEF PagesFit, clients
<1>4. /\ desk'[d] = new /\ \A e \in Desks \ {d} : desk'[e] = desk[e]
      /\ minted \in Nat /\ minted' \in Nat
  BY <1>1, EntranceBoundsAssumption DEF EntranceTypeOK
<1>5. TokensFit'
  BY <1>1, <1>4 DEF LinkIsSound, TokensFit
<1>6. DesksFit'
  <2> SUFFICES ASSUME NEW e \in Desks PROVE DeskFits(e)'
    BY DEF DesksFit
  <2>1. CASE e = d
    <3>1. /\ desk'[e].row = row /\ desk'[e].mints = mints /\ desk'[e].retires = retires
      BY <1>4, <2>1
    <3>2. mints => row.token \notin handed' /\ row.token \in 1 .. minted'
      BY <1>1, <1>4 DEF LinkIsSound, TokensFit
    <3> QED
      BY <1>1, <3>1, <3>2 DEF DeskFits
  <2>2. CASE e # d
    <3>1. DeskFits(e) /\ desk'[e] = desk[e]
      BY <1>1, <1>4, <2>2 DEF LinkIsSound, DesksFit
    <3>2. InRound(e) => crossed'
      BY <1>1 DEF InRound
    <3>3. \A t \in 1 .. minted : t \in 1 .. minted'
      BY <1>4
    <3> QED
      BY <1>1, <3>1, <3>2, <3>3 DEF DeskFits, InRound
  <2> QED
    BY <2>1, <2>2
<1>7. OneAtATime'
  BY <1>1, <1>4 DEF OneAtATime, InRound
<1>8. LinksStayRetired'
  BY <1>1 DEF LinkIsSound, LinksStayRetired
<1>9. CandidatesFit'
  BY <1>1, CandidateStays DEF CandidatesFit, clients
<1> QED
  BY <1>2, <1>3, <1>5, <1>6, <1>7, <1>8, <1>9 DEF EntranceIInv, LinkIsSound

LEMMA RoundCallsKeep ==
    ASSUME EntranceIInv, NEW d \in Desks, Rotate(d) \/ Update(d) \/ Revoke(d) \/ SetCompany(d)
    PROVE  EntranceIInv'
<1>1. /\ EntranceTypeOK /\ TokensFit /\ round \in Rounds
      /\ minted \in 0 .. MaxMinted /\ MaxMinted \in Nat /\ minted \in Nat
  BY EntranceBoundsAssumption DEF EntranceIInv, LinkIsSound, EntranceTypeOK
<1>2. CASE Rotate(d)
  <2>1. PICK x \in Bounds :
            ReadRound(d, [round EXCEPT !.token = minted + 1, !.enabled = TRUE, !.expires = x],
                      TRUE, TRUE)
    BY <1>2 DEF Rotate
  <2> DEFINE row == [round EXCEPT !.token = minted + 1, !.enabled = TRUE, !.expires = x]
  <2>2. minted < MaxMinted /\ minted' = minted + 1
    BY <1>2 DEF Rotate
  <2>3. /\ row \in Rounds /\ row.opens = round.opens /\ row.closes = round.closes
        /\ row.token = minted + 1
    <3>1. minted + 1 \in Tokens
      BY <1>1, <2>2 DEF Tokens
    <3> QED
      BY <1>1, <3>1 DEF Rounds
  <2>4. minted' \in 0 .. MaxMinted /\ minted <= minted' /\ minted' > minted
        /\ minted + 1 \in 1 .. minted'
    BY <1>1, <2>2
  <2> HIDE DEF row
  <2>5. ReadRound(d, row, TRUE, TRUE)
    BY <2>1 DEF row
  <2> QED
    BY <2>2, <2>3, <2>4, <2>5, ReadRoundKeeps
<1>3. ASSUME NEW row \in Rounds, row.token = round.token, row.opens = round.opens,
             row.closes = round.closes, ReadRound(d, row, FALSE, FALSE), UNCHANGED minted
      PROVE  EntranceIInv'
  <2>1. row.token \in {Null} \cup 1 .. minted'
    BY <1>1, <1>3 DEF TokensFit
  <2>2. minted' \in 0 .. MaxMinted /\ minted <= minted'
    BY <1>1, <1>3
  <2> QED
    BY <1>3, <2>1, <2>2, ReadRoundKeeps
<1>4. CASE Update(d)
  <2>1. CASE \E x \in Bounds : ReadRound(d, [round EXCEPT !.expires = x], FALSE, FALSE)
    <3>1. PICK x \in Bounds : ReadRound(d, [round EXCEPT !.expires = x], FALSE, FALSE)
      BY <2>1
    <3>2. LET row == [round EXCEPT !.expires = x]
          IN  /\ row \in Rounds /\ row.opens = round.opens /\ row.closes = round.closes
              /\ row.token = round.token
      BY <1>1 DEF Rounds
    <3> QED
      BY <1>3, <1>4, <3>1, <3>2 DEF Update
  <2>2. CASE \E b \in BOOLEAN : ReadRound(d, [round EXCEPT !.enabled = b], FALSE, FALSE)
    <3>1. PICK b \in BOOLEAN : ReadRound(d, [round EXCEPT !.enabled = b], FALSE, FALSE)
      BY <2>2
    <3>2. LET row == [round EXCEPT !.enabled = b]
          IN  /\ row \in Rounds /\ row.opens = round.opens /\ row.closes = round.closes
              /\ row.token = round.token
      BY <1>1 DEF Rounds
    <3> QED
      BY <1>3, <1>4, <3>1, <3>2 DEF Update
  <2> QED
    BY <1>4, <2>1, <2>2 DEF Update
<1>5. CASE Revoke(d)
  <2> DEFINE row == [round EXCEPT !.token = Null, !.enabled = FALSE]
  <2>1. /\ row \in Rounds /\ row.opens = round.opens /\ row.closes = round.closes
        /\ row.token = Null
    BY <1>1 DEF Rounds
  <2>2. ReadRound(d, row, FALSE, TRUE) /\ minted' = minted
    BY <1>5 DEF Revoke
  <2> HIDE DEF row
  <2>3. minted' \in 0 .. MaxMinted /\ minted <= minted'
    BY <1>1, <2>2
  <2> QED
    BY <2>1, <2>2, <2>3, ReadRoundKeeps
<1>6. CASE SetCompany(d)
  BY <1>1, <1>3, <1>6 DEF SetCompany
<1> QED
  BY <1>2, <1>4, <1>5, <1>6

LEMMA SaveRoundKeeps ==
    ASSUME EntranceIInv, NEW d \in Desks, SaveRound(d)
    PROVE  EntranceIInv'
<1> DEFINE row == desk[d].row
<1>1. /\ EntranceTypeOK /\ PagesFit /\ LinkIsSound /\ CandidatesFit
      /\ InRound(d) /\ DeskFits(d)
      /\ round' = row /\ desk' = [desk EXCEPT ![d] = NoRequest]
      /\ handed' = IF desk[d].mints THEN handed \cup {row.token} ELSE handed
      /\ retired' = IF desk[d].retires THEN retired \cup handed ELSE retired
      /\ UNCHANGED <<instant, minted, invite, attempt, reported, clients, deskCalls, crossed,
                     changed, withdrawn>>
  BY DEF SaveRound, EntranceIInv, InRound, LinkIsSound, DesksFit
<1>2. /\ row \in Rounds /\ desk[d].mints \in BOOLEAN /\ desk[d].retires \in BOOLEAN
      /\ minted \in 0 .. MaxMinted /\ MaxMinted \in Nat
  BY <1>1, EntranceBoundsAssumption DEF EntranceTypeOK, InRound, NoRequest
<1>3. /\ row.opens = round.opens /\ row.closes = round.closes
      /\ row.token \in {Null} \cup 1 .. minted
      /\ desk[d].mints => desk[d].retires /\ row.token \in 1 .. minted
      /\ desk[d].retires /\ ~desk[d].mints => row.token = Null
      /\ ~crossed /\ desk[d].mints => row.token \notin handed
      /\ ~crossed /\ ~desk[d].retires => row.token = round.token
  BY <1>1 DEF DeskFits
<1>4. /\ desk'[d] = NoRequest /\ \A e \in Desks \ {d} : desk'[e] = desk[e]
      /\ ~InRound(d)'
      /\ \A e \in Desks : InRound(e)' => e # d /\ InRound(e) /\ desk'[e] = desk[e]
  BY <1>1 DEF EntranceTypeOK, InRound, NoRequest
<1> HIDE DEF row
<1>5. TokensFit /\ minted \in Nat
  BY <1>1, <1>2 DEF LinkIsSound
<1>6. EntranceTypeOK'
  <2>1. 1 .. minted \subseteq Tokens
    BY <1>2 DEF Tokens
  <2>2. handed' \subseteq Tokens /\ retired' \subseteq Tokens
    BY <1>1, <1>3, <2>1 DEF EntranceTypeOK
  <2>3. desk' \in [Desks -> {NoRequest}
                           \cup [doing: {"round"}, row: Rounds, mints: BOOLEAN, retires: BOOLEAN]
                           \cup [doing: {"window"}, of: Candidates, row: Invites]
                           \cup [doing: {"revoke"}, of: Candidates]]
    BY <1>1 DEF EntranceTypeOK
  <2> QED
    BY <1>1, <1>2, <2>2, <2>3 DEF EntranceTypeOK, clients
<1>7. PagesFit'
  BY <1>1 DEF PagesFit, clients
<1>8. TokensFit'
  BY <1>1, <1>2, <1>3, <1>5 DEF TokensFit
<1>9. OneAtATime' /\ (~crossed' => \A e \in Desks : ~InRound(e)')
  BY <1>1, <1>4 DEF LinkIsSound, OneAtATime
<1>10. DesksFit'
  <2> SUFFICES ASSUME NEW e \in Desks, InRound(e)' PROVE DeskFits(e)'
    BY DEF DesksFit, DeskFits
  <2>1. InRound(e) /\ desk'[e] = desk[e] /\ DeskFits(e) /\ crossed'
    BY <1>1, <1>4, <1>9 DEF LinkIsSound, DesksFit
  <2> QED
    BY <1>1, <1>3, <2>1 DEF DeskFits
<1>11. LinksStayRetired'
  <2> SUFFICES ASSUME ~crossed PROVE row.token \notin retired'
    BY <1>1 DEF LinksStayRetired
  <2>1. round.token \notin retired
    BY <1>1 DEF LinkIsSound, LinksStayRetired
  <2>0. Null \notin handed /\ Null \notin retired
    <3>1. Null \notin 1 .. minted
      BY <1>5, NullAssumption
    <3> QED
      BY <1>5, <3>1 DEF TokensFit
  <2>2. CASE desk[d].mints
    BY <1>1, <1>3, <1>5, <2>2 DEF TokensFit
  <2>3. CASE ~desk[d].mints /\ desk[d].retires
    BY <1>1, <1>3, <2>0, <2>3
  <2>4. CASE ~desk[d].retires
    BY <1>1, <1>3, <2>1, <2>4
  <2> QED
    BY <1>2, <2>2, <2>3, <2>4
<1>12. CandidatesFit'
  BY <1>1, <1>3, CandidateStays DEF CandidatesFit, clients
<1> QED
  BY <1>6, <1>7, <1>8, <1>9, <1>10, <1>11, <1>12 DEF EntranceIInv, LinkIsSound

\* A step that leaves the round alone and touches one candidate at most.
LEMMA CandidateStepKeeps ==
    ASSUME EntranceIInv, NEW c \in Candidates,
           EntranceTypeOK', PagesFit', CandidateFits(c)',
           UNCHANGED <<instant, round, minted, handed, retired, crossed>>,
           \A d \in Desks : InRound(d)' => desk'[d] = desk[d],
           \A k \in Candidates \ {c} :
               /\ invite'[k] = invite[k] /\ attempt'[k] = attempt[k] /\ page'[k] = page[k]
               /\ door'[k] = door[k] /\ runner'[k] = runner[k] /\ withdrawn'[k] = withdrawn[k]
               /\ k \in changed => k \in changed'
    PROVE  EntranceIInv'
<1>1. LinkIsSound'
  BY LinkStays DEF EntranceIInv
<1>2. ASSUME NEW k \in Candidates \ {c} PROVE CandidateFits(k)'
  BY CandidateStays DEF EntranceIInv, CandidatesFit
<1> QED
  BY <1>1, <1>2 DEF EntranceIInv, CandidatesFit

\* A recruiter's request about one invitation reads it.
LEMMA FindKeeps ==
    ASSUME EntranceIInv, NEW d \in Desks, NEW c \in Candidates,
           DatesFind(d, c) \/ RevokeInviteFind(d, c)
    PROVE  EntranceIInv'
<1>1. /\ EntranceTypeOK /\ PagesFit /\ CandidateFits(c)
      /\ UNCHANGED <<instant, rows, clients, memory>>
      /\ deskCalls' = deskCalls + 1
  BY DEF DatesFind, RevokeInviteFind, Asks, EntranceIInv, CandidatesFit
<1>2. PICK new \in [doing: {"window"}, of: Candidates, row: Invites]
                   \cup [doing: {"revoke"}, of: Candidates] : desk' = [desk EXCEPT ![d] = new]
  <2>1. CASE DatesFind(d, c)
    <3>1. PICK o \in Bounds, x \in Bounds :
              desk' = [desk EXCEPT ![d] = [doing |-> "window", of |-> c,
                          row |-> [invite[c] EXCEPT !.opens = o, !.closes = x]]]
      BY <2>1 DEF DatesFind
    <3>2. [invite[c] EXCEPT !.opens = o, !.closes = x] \in Invites
      BY <1>1 DEF EntranceTypeOK, Invites
    <3> QED
      BY <3>1, <3>2
  <2>2. CASE RevokeInviteFind(d, c)
    BY <2>2 DEF RevokeInviteFind
  <2> QED
    BY <2>1, <2>2
<1>3. EntranceTypeOK'
  BY <1>1, <1>2 DEF EntranceTypeOK, rows, clients, memory
<1>4. \A e \in Desks : InRound(e)' => desk'[e] = desk[e]
  BY <1>1, <1>2 DEF EntranceTypeOK, InRound
<1>5. PagesFit' /\ CandidateFits(c)'
  BY <1>1, CandidateStays DEF PagesFit, rows, clients, memory
<1> QED
  BY <1>1, <1>3, <1>4, <1>5, CandidateStepKeeps DEF rows, clients, memory

\* A recruiter's request writes the invitation it read.
LEMMA InviteSaveKeeps ==
    ASSUME EntranceIInv, NEW d \in Desks, DatesSave(d) \/ RevokeInvite(d)
    PROVE  EntranceIInv'
<1>0. PICK c \in Candidates : c = desk[d].of
  BY DEF DatesSave, RevokeInvite, EntranceIInv, EntranceTypeOK, NoRequest
<1>1. /\ EntranceTypeOK /\ PagesFit /\ CandidateFits(c)
      /\ desk[d].doing = "window" => desk[d].row \in Invites
      /\ desk' = [desk EXCEPT ![d] = NoRequest] /\ changed' = changed \cup {c}
      /\ UNCHANGED <<instant, round, minted, attempt, reported, clients, deskCalls, handed, retired,
                     crossed>>
  BY <1>0 DEF DatesSave, RevokeInvite, EntranceIInv, CandidatesFit, EntranceTypeOK, NoRequest
<1>2. PICK i \in Invites, w \in Attempts \cup {Null} :
        /\ invite' = [invite EXCEPT ![c] = i] /\ withdrawn' = [withdrawn EXCEPT ![c] = w]
        /\ w = "none" => attempt[c] = "none" /\ runner[c] = "idle" /\ i.status = "revoked"
  <2>1. CASE DatesSave(d)
    <3>1. desk[d].row \in Invites /\ invite' = [invite EXCEPT ![c] = desk[d].row]
      BY <1>1, <2>1, <1>0 DEF DatesSave
    <3>2. CASE desk[d].row.status = "revoked"
      <4>1. /\ withdrawn' = [withdrawn EXCEPT ![c] = withdrawn[c]]
            /\ withdrawn[c] \in Attempts \cup {Null}
        BY <1>1, <2>1, <3>2, <1>0 DEF DatesSave, EntranceTypeOK
      <4> QED
        BY <1>1, <3>1, <3>2, <4>1 DEF CandidateFits, StaysOut
    <3>3. CASE desk[d].row.status # "revoked"
      BY <2>1, <3>1, <3>3, NullAssumption, <1>0 DEF DatesSave
    <3> QED
      BY <3>2, <3>3
  <2>2. CASE RevokeInvite(d)
    <3> DEFINE i == [invite[c] EXCEPT !.status = "revoked"]
    <3>1. i \in Invites /\ i.status = "revoked" /\ invite' = [invite EXCEPT ![c] = i]
      BY <1>1, <2>2, <1>0 DEF RevokeInvite, EntranceTypeOK, Invites, Statuses
    <3> HIDE DEF i
    <3>2. attempt[c] \in Attempts \cup {Null} /\ withdrawn[c] \in Attempts \cup {Null}
      BY <1>1 DEF EntranceTypeOK
    <3>3. CASE runner[c] = "idle"
      BY <2>2, <3>1, <3>2, <3>3, <1>0 DEF RevokeInvite
    <3>4. CASE runner[c] # "idle"
      <4>1. withdrawn' = [withdrawn EXCEPT ![c] = withdrawn[c]]
        BY <1>1, <2>2, <3>4, <1>0 DEF RevokeInvite, EntranceTypeOK
      <4>2. withdrawn[c] # "none"
        BY <1>1, <3>4 DEF CandidateFits, StaysOut
      <4> QED
        BY <3>1, <3>2, <4>1, <4>2
    <3> QED
      BY <3>3, <3>4
  <2> QED
    BY <2>1, <2>2
<1>3. EntranceTypeOK'
  BY <1>1, <1>2 DEF EntranceTypeOK, clients
<1>4. PagesFit'
  BY <1>1 DEF PagesFit, clients
<1>5. CandidateFits(c)'
  <2>1. c \in changed' /\ page'[c] = page[c] /\ door'[c] = door[c]
    BY <1>1 DEF clients
  <2>2. CardFits(c)' /\ RefusalFits(c)' /\ DoorFits(c)'
    BY <1>1, <2>1 DEF CandidateFits, CardFits, RefusalFits, DoorFits, EffectiveWindow
  <2>3. StaysOut(c)'
    BY <1>1, <1>2 DEF StaysOut, clients, EntranceTypeOK
  <2> QED
    BY <2>2, <2>3 DEF CandidateFits
<1>6. \A e \in Desks : InRound(e)' => desk'[e] = desk[e]
  BY <1>1 DEF EntranceTypeOK, InRound, NoRequest
<1> QED
  BY <1>1, <1>2, <1>3, <1>4, <1>5, <1>6, CandidateStepKeeps DEF clients, EntranceTypeOK

\* A step of one candidate that leaves the page, the round and the desks alone.
LEMMA CandidateRowKeeps ==
    ASSUME EntranceIInv, NEW c \in Candidates, NEW i \in Invites, NEW a \in Attempts,
           NEW x \in {"idle", "insert", "status"},
           invite' = [invite EXCEPT ![c] = i], attempt' = [attempt EXCEPT ![c] = a],
           runner' = [runner EXCEPT ![c] = x],
           door' = [door EXCEPT ![c] = Null] \/ UNCHANGED door,
           UNCHANGED <<instant, round, minted, desk, page, deskCalls, memory>>,
           reported' \subseteq Candidates,
           i.opens = invite[c].opens, i.closes = invite[c].closes,
           i.status \in {"none", "revoked"} => i.status = invite[c].status,
           withdrawn[c] = "none" => a = "none" /\ x = "idle" /\ i.status = "revoked"
    PROVE  EntranceIInv'
<1>1. EntranceTypeOK /\ PagesFit /\ CandidateFits(c)
  BY DEF EntranceIInv, CandidatesFit
<1>2. EntranceTypeOK'
  <2>1. invite' \in [Candidates -> Invites] /\ attempt' \in [Candidates -> Attempts]
    BY <1>1 DEF EntranceTypeOK
  <2>2. /\ door' \in [Candidates -> Instants \cup {Null}]
        /\ runner' \in [Candidates -> {"idle", "insert", "status"}]
    BY <1>1 DEF EntranceTypeOK
  <2> QED
    BY <1>1, <2>1, <2>2 DEF EntranceTypeOK, memory
<1>3. PagesFit'
  BY <1>1 DEF PagesFit
<1>4. /\ invite'[c] = i /\ attempt'[c] = a /\ runner'[c] = x
      /\ door'[c] = Null \/ door'[c] = door[c]
      /\ \A k \in Candidates \ {c} : /\ invite'[k] = invite[k] /\ attempt'[k] = attempt[k]
                                   /\ door'[k] = door[k] /\ runner'[k] = runner[k]
  BY <1>1 DEF EntranceTypeOK
<1>5. CandidateFits(c)'
  <2>1. CardFits(c)'
    BY <1>1, <1>4 DEF CandidateFits, CardFits, EffectiveWindow, memory
  <2>2. RefusalFits(c)' /\ DoorFits(c)'
    BY <1>1, <1>4 DEF CandidateFits, RefusalFits, DoorFits, memory
  <2>3. StaysOut(c)'
    BY <1>1, <1>4 DEF StaysOut, memory
  <2> QED
    BY <2>1, <2>2, <2>3 DEF CandidateFits
<1> QED
  BY <1>2, <1>3, <1>4, <1>5, CandidateStepKeeps DEF memory

\* What a step that leaves a function alone writes at c.
LEMMA SameRow ==
    ASSUME EntranceTypeOK, NEW c \in Candidates
    PROVE  /\ invite = [invite EXCEPT ![c] = invite[c]] /\ invite[c] \in Invites
           /\ attempt = [attempt EXCEPT ![c] = attempt[c]] /\ attempt[c] \in Attempts
           /\ runner = [runner EXCEPT ![c] = runner[c]]
           /\ runner[c] \in {"idle", "insert", "status"}
           /\ door = [door EXCEPT ![c] = door[c]]
           /\ \A s \in Statuses : LET i == [invite[c] EXCEPT !.status = s]
                                 IN  /\ i \in Invites /\ i.status = s
                                     /\ i.opens = invite[c].opens /\ i.closes = invite[c].closes
                                     /\ [invite EXCEPT ![c].status = s]
                                            = [invite EXCEPT ![c] = i]
BY DEF EntranceTypeOK, Invites

LEMMA CandidateRowsKeep ==
    ASSUME EntranceIInv, NEW c \in Candidates,
           \/ InviteByName(c) \/ Admit(c) \/ StartInsert(c) \/ StartStatus(c) \/ StartCut(c)
           \/ Submit(c) \/ MakeReport(c)
    PROVE  EntranceIInv'
<1>1. /\ EntranceTypeOK /\ StaysOut(c) /\ reported \subseteq Candidates
      /\ UNCHANGED <<instant, round, minted, desk, page, deskCalls, memory>>
  BY DEF InviteByName, Admit, StartInsert, StartStatus, StartCut, Submit, MakeReport, EntranceIInv,
     CandidatesFit, CandidateFits, EntranceTypeOK, rows, clients
<1>3. /\ {"pending", "in_progress", "completed"} \subseteq Statuses
      /\ {"open", "submitted"} \subseteq Attempts
  BY DEF Statuses, Attempts
<1>4. /\ invite = [invite EXCEPT ![c] = invite[c]] /\ invite[c] \in Invites
      /\ attempt = [attempt EXCEPT ![c] = attempt[c]] /\ attempt[c] \in Attempts
      /\ runner = [runner EXCEPT ![c] = runner[c]] /\ runner[c] \in {"idle", "insert", "status"}
  BY <1>1, SameRow
<1>5. ASSUME NEW s \in {"pending", "in_progress", "completed"}, withdrawn[c] # "none",
             NEW a \in Attempts, NEW x \in {"idle", "insert", "status"},
             invite' = [invite EXCEPT ![c].status = s], attempt' = [attempt EXCEPT ![c] = a],
             runner' = [runner EXCEPT ![c] = x],
             door' = [door EXCEPT ![c] = Null] \/ UNCHANGED door, UNCHANGED reported
      PROVE  EntranceIInv'
  <2> DEFINE i == [invite[c] EXCEPT !.status = s]
  <2>1. /\ i \in Invites /\ i.status = s /\ i.opens = invite[c].opens
        /\ i.closes = invite[c].closes /\ invite' = [invite EXCEPT ![c] = i]
    BY <1>1, <1>3, <1>5, SameRow
  <2>2. i.status \notin {"none", "revoked"}
    BY <2>1
  <2> HIDE DEF i
  <2> QED
    BY <1>1, <1>5, <2>1, <2>2, CandidateRowKeeps
<1>6. CASE InviteByName(c)
  <2>1. withdrawn[c] # "none"
    BY <1>1, <1>6 DEF InviteByName, StaysOut
  <2> QED
    BY <1>4, <1>5, <1>6, <2>1 DEF InviteByName, clients
<1>7. CASE Admit(c)
  <2>1. CASE invite[c].status = "none"
    <3>1. withdrawn[c] # "none"
      BY <1>1, <2>1 DEF StaysOut
    <3> QED
      BY <1>4, <1>5, <1>7, <2>1, <3>1 DEF Admit
  <2>2. CASE invite[c].status # "none"
    <3>1. /\ invite' = [invite EXCEPT ![c] = invite[c]] /\ attempt' = [attempt EXCEPT ![c] = attempt[c]]
          /\ runner' = [runner EXCEPT ![c] = runner[c]] /\ reported' \subseteq Candidates
          /\ door' = [door EXCEPT ![c] = Null]
      BY <1>1, <1>4, <1>7, <2>2 DEF Admit
    <3>2. withdrawn[c] = "none" =>
              attempt[c] = "none" /\ runner[c] = "idle" /\ invite[c].status = "revoked"
      BY <1>1 DEF StaysOut
    <3> QED
      BY <1>1, <1>4, <3>1, <3>2, CandidateRowKeeps
  <2> QED
    BY <2>1, <2>2
<1>8. CASE StartInsert(c)
  <2>1. /\ withdrawn[c] # "none" /\ attempt' = [attempt EXCEPT ![c] = "open"]
        /\ runner' = [runner EXCEPT ![c] = "status"]
    BY <1>1, <1>8 DEF StartInsert, StaysOut
  <2> QED
    BY <1>1, <1>3, <1>4, <1>8, <2>1, CandidateRowKeeps DEF StartInsert
<1>9. CASE StartStatus(c)
  <2>1. withdrawn[c] # "none"
    BY <1>1, <1>9 DEF StartStatus, StaysOut
  <2> QED
    BY <1>4, <1>5, <1>9, <2>1 DEF StartStatus
<1>10. CASE StartCut(c)
  <2>1. withdrawn[c] # "none"
    BY <1>1, <1>10 DEF StartCut, StaysOut
  <2> QED
    BY <1>1, <1>4, <1>10, <2>1, CandidateRowKeeps DEF StartCut, rows
<1>11. CASE Submit(c)
  <2>1. withdrawn[c] # "none"
    BY <1>1, <1>11 DEF Submit, StaysOut
  <2> QED
    BY <1>3, <1>4, <1>5, <1>11, <2>1 DEF Submit, clients
<1>12. CASE MakeReport(c)
  BY <1>1, <1>4, <1>12, CandidateRowKeeps DEF MakeReport, clients, StaysOut
<1> QED
  BY <1>6, <1>7, <1>8, <1>9, <1>10, <1>11, <1>12

\* A visitor is let in while the round is open to whoever has no dates of their own.
LEMMA EnterKeeps ==
    ASSUME EntranceIInv, NEW c \in Candidates, EnterByLink(c)
    PROVE  EntranceIInv'
<1>1. /\ EntranceTypeOK /\ PagesFit /\ CandidateFits(c)
      /\ LinkIsOpen(round, instant) /\ door' = [door EXCEPT ![c] = instant]
      /\ UNCHANGED <<instant, rows, desk, page, runner, deskCalls, memory>>
  BY DEF EnterByLink, EntranceIInv, CandidatesFit
<1>2. EntranceTypeOK'
  BY <1>1 DEF EntranceTypeOK, rows, memory
<1>3. PagesFit'
  BY <1>1 DEF PagesFit
<1>4. IsOpen(EffectiveWindow(round, NoInvite), instant)
  <2>1. EffectiveWindow(round, NoInvite).opens = round.opens
    BY DEF EffectiveWindow, Else, NoInvite
  <2>2. EffectiveWindow(round, NoInvite).closes = round.closes
    BY DEF EffectiveWindow, Else, NoInvite
  <2>3. instant \in Nat /\ round.opens \in Nat \cup {Null} /\ round.closes \in Nat \cup {Null}
    BY <1>1, EntranceBoundsAssumption DEF EntranceTypeOK, Instants, Rounds, Bounds
  <2> QED
    BY <1>1, <2>1, <2>2, <2>3 DEF LinkIsOpen, IsOpen, NotYet, Closed
<1>5. CandidateFits(c)'
  <2>1. DoorFits(c)'
    BY <1>1, <1>4 DEF DoorFits, EntranceTypeOK, EffectiveWindow, rows
  <2> QED
    BY <1>1, <2>1 DEF CandidateFits, CardFits, RefusalFits, StaysOut, EffectiveWindow, rows, memory
<1> QED
  BY <1>1, <1>2, <1>3, <1>5, CandidateStepKeeps DEF rows, memory, EntranceTypeOK

\* The stages that have been reached are the first few.
LEMMA BarFits ==
    ASSUME NEW c \in Candidates
    PROVE  /\ Bar(c) \in [DOMAIN Stages -> Colours]
           /\ \A n \in DOMAIN Stages : Bar(c)[n] \in {"done", "current"} =>
                   \A k \in 1 .. n - 1 : Bar(c)[k] = "done"
<1>1. DOMAIN Stages = 1 .. 4
  BY DEF Stages
<1>2. \A n \in DOMAIN Stages : Bar(c)[n] =
        IF n \in Reached(c)
        THEN IF \A k \in Reached(c) : k <= n THEN "current" ELSE "done"
        ELSE IF attempt[c] # "submitted" /\ invite[c].status = "revoked"
             THEN "stopped" ELSE "upcoming"
  BY DEF Bar
<1>3. Bar(c) \in [DOMAIN Stages -> Colours]
  BY DEF Bar, Colours
<1>4. /\ 1 \in Reached(c)
      /\ 2 \in Reached(c) <=> attempt[c] # "none"
      /\ 3 \in Reached(c) <=> attempt[c] = "submitted"
      /\ 4 \in Reached(c) <=> ReviewReady(c)
  <2>1. /\ Stages[1] = "invited" /\ Stages[2] = "started" /\ Stages[3] = "submitted"
        /\ Stages[4] = "under_review"
    BY DEF Stages
  <2>2. \A n \in 1 .. 4 : n \in Reached(c) <=>
            CASE Stages[n] = "invited"      -> TRUE
              [] Stages[n] = "started"      -> attempt[c] # "none"
              [] Stages[n] = "submitted"    -> attempt[c] = "submitted"
              [] Stages[n] = "under_review" -> ReviewReady(c)
    BY <1>1 DEF Reached
  <2>3. 1 \in 1 .. 4 /\ 2 \in 1 .. 4 /\ 3 \in 1 .. 4 /\ 4 \in 1 .. 4
    OBVIOUS
  <2> QED
    BY <2>1, <2>2, <2>3
<1>5. ASSUME NEW n \in DOMAIN Stages, n \in Reached(c), NEW k \in 1 .. n - 1
      PROVE  k \in DOMAIN Stages /\ k \in Reached(c) /\ k < n
  BY <1>1, <1>4, <1>5 DEF ReviewReady
<1>6. \A n \in DOMAIN Stages : Bar(c)[n] \in {"done", "current"} => n \in Reached(c)
  BY <1>2
<1>7. ASSUME NEW n \in DOMAIN Stages, n \in Reached(c), NEW k \in 1 .. n - 1
      PROVE  Bar(c)[k] = "done"
  <2>1. k \in DOMAIN Stages /\ k \in Reached(c) /\ ~(n <= k)
    BY <1>1, <1>5, <1>7
  <2> QED
    BY <1>2, <1>7, <2>1
<1> QED
  BY <1>3, <1>6, <1>7

LEMMA LoadPageKeeps ==
    ASSUME EntranceIInv, NEW c \in Candidates, LoadPage(c)
    PROVE  EntranceIInv'
<1> DEFINE w == EffectiveWindow(round, invite[c])
           card == [shows |-> "card",
                    offer |-> invite[c].status \in {"pending", "in_progress"} /\ IsOpen(w, instant),
                    until |-> w.closes, bar |-> Bar(c)]
<1>1. /\ EntranceTypeOK /\ PagesFit /\ CandidateFits(c)
      /\ page' = [page EXCEPT ![c] = card] /\ changed' = changed \ {c}
      /\ UNCHANGED <<instant, rows, desk, door, runner, deskCalls, handed, retired, crossed,
                     withdrawn>>
  BY DEF LoadPage, EntranceIInv, CandidatesFit
<1>2. w.closes \in Bounds
  BY <1>1 DEF EntranceTypeOK, EffectiveWindow, Else, Rounds, Invites
<1>3. card \in Cards
  BY <1>2, BarFits DEF Cards
<1>4. EntranceTypeOK'
  BY <1>1 DEF EntranceTypeOK, rows
<1>5. PagesFit'
  BY <1>1, <1>3 DEF PagesFit
<1>6. page'[c] = card
  BY <1>1 DEF PagesFit
<1>7. CardFits(c)'
  <2>1. page'[c].bar = Bar(c) /\ page'[c].until = w.closes
    BY <1>6
  <2>2. page'[c].offer => /\ invite[c].status \in {"pending", "in_progress"}
                          /\ ~NotYet(w, instant)
    <3>1. page'[c].offer = (invite[c].status \in {"pending", "in_progress"} /\ IsOpen(w, instant))
      BY <1>6
    <3> HIDE DEF w
    <3> QED
      BY <3>1 DEF IsOpen
  <2>3. EffectiveWindow(round, invite[c])' = w
    BY <1>1 DEF EffectiveWindow, Else, rows
  <2> HIDE DEF w, card
  <2>4. page'[c].offer => invite'[c].status \notin {"none", "revoked"} /\ ~NotYet(w, instant')
    BY <1>1, <2>2 DEF rows
  <2> QED
    BY <2>1, <2>3, <2>4, BarFits DEF CardFits
<1>8. CandidateFits(c)'
  <2>1. page'[c].shows = "card"
    BY <1>6
  <2> QED
    BY <1>1, <1>7, <2>1 DEF CandidateFits, RefusalFits, DoorFits, StaysOut, EffectiveWindow, rows
<1> QED
  BY <1>1, <1>4, <1>5, <1>8, CandidateStepKeeps DEF rows, PagesFit

\* A start that a page offers is refused past the deadline the page shows.
LEMMA StartRefusedKeeps ==
    ASSUME EntranceIInv, NEW c \in Candidates, StartRefused(c)
    PROVE  EntranceIInv'
<1> DEFINE new == [shows |-> "refused", at |-> instant, from |-> page[c], found |-> attempt[c],
                   as |-> invite[c].status]
<1>1. /\ EntranceTypeOK /\ PagesFit /\ CandidateFits(c) /\ Asking(c) /\ ~MayStart(c)
      /\ page' = [page EXCEPT ![c] = new]
      /\ UNCHANGED <<instant, rows, desk, door, runner, deskCalls, memory>>
  BY DEF StartRefused, EntranceIInv, CandidatesFit
<1>2. page[c] \in Cards \cup {Playing}
  BY <1>1 DEF PagesFit, Asking, Cards, Refusals, Blank, Playing
<1>3. new \in Refusals
  BY <1>1, <1>2 DEF Refusals, EntranceTypeOK, Invites
<1>4. EntranceTypeOK'
  BY <1>1 DEF EntranceTypeOK, rows, memory
<1>5. PagesFit'
  BY <1>1, <1>3 DEF PagesFit
<1>6. page'[c] = new
  BY <1>1 DEF PagesFit
<1>7. ASSUME page[c].shows = "card", c \notin changed
      PROVE  page[c].until # Null /\ instant > page[c].until
  <2> DEFINE w == EffectiveWindow(round, invite[c])
  <2>1. /\ page[c].until = w.closes /\ ~NotYet(w, instant)
        /\ invite[c].status \notin {"none", "revoked"}
    BY <1>1, <1>7 DEF CandidateFits, CardFits, Asking
  <2>2. Closed(w, instant)
    BY <1>1, <2>1 DEF MayStart, IsOpen
  <2> QED
    BY <2>1, <2>2 DEF Closed
<1>8. CandidateFits(c)'
  <2>1. /\ page'[c].shows = "refused" /\ page'[c].at = instant /\ page'[c].from = page[c]
    BY <1>6
  <2>2. CardFits(c)'
    BY <2>1 DEF CardFits
  <2>3. RefusalFits(c)'
    BY <1>1, <1>7, <2>1 DEF RefusalFits, memory
  <2> QED
    BY <1>1, <2>2, <2>3 DEF CandidateFits, DoorFits, StaysOut, EffectiveWindow, rows, memory
<1> QED
  BY <1>1, <1>4, <1>5, <1>8, CandidateStepKeeps DEF rows, memory, PagesFit

LEMMA StartCheckKeeps ==
    ASSUME EntranceIInv, NEW c \in Candidates, StartCheck(c)
    PROVE  EntranceIInv'
<1>1. /\ EntranceTypeOK /\ PagesFit /\ CandidateFits(c) /\ MayStart(c)
      /\ page' = [page EXCEPT ![c] = Playing]
      /\ runner' = IF attempt[c] = "none" THEN [runner EXCEPT ![c] = "insert"] ELSE runner
      /\ UNCHANGED <<instant, rows, desk, door, deskCalls, memory>>
  BY DEF StartCheck, EntranceIInv, CandidatesFit
<1>2. EntranceTypeOK'
  <2>1. runner' \in [Candidates -> {"idle", "insert", "status"}]
    BY <1>1 DEF EntranceTypeOK
  <2> QED
    BY <1>1, <2>1 DEF EntranceTypeOK, rows, memory
<1>3. PagesFit' /\ page'[c].shows = "test"
  BY <1>1 DEF PagesFit, Playing
<1>4. withdrawn[c] # "none"
  BY <1>1 DEF CandidateFits, StaysOut, MayStart
<1>5. CandidateFits(c)'
  BY <1>1, <1>3, <1>4 DEF CandidateFits, CardFits, RefusalFits, DoorFits, StaysOut,
     EffectiveWindow, rows, memory
<1>6. \A k \in Candidates \ {c} : page'[k] = page[k] /\ runner'[k] = runner[k]
  BY <1>1 DEF EntranceTypeOK, PagesFit
<1> QED
  BY <1>1, <1>2, <1>3, <1>5, <1>6, CandidateStepKeeps DEF rows, memory

LEMMA EntranceNextKeeps == EntranceIInv /\ [EntranceNext]_entrance => EntranceIInv'
<1>1. ASSUME EntranceIInv, UNCHANGED entrance PROVE EntranceIInv'
  <2>1. EntranceTypeOK' /\ PagesFit'
    BY <1>1 DEF EntranceIInv, EntranceTypeOK, PagesFit, entrance, rows, clients, memory
  <2>2. LinkIsSound'
    BY <1>1, LinkStays DEF EntranceIInv, entrance, rows, memory
  <2>3. CandidatesFit'
    BY <1>1, CandidateStays DEF EntranceIInv, CandidatesFit, entrance, rows, clients, memory
  <2> QED
    BY <2>1, <2>2, <2>3 DEF EntranceIInv
<1> QED
  BY <1>1, AdvanceKeeps, RoundCallsKeep, SaveRoundKeeps, FindKeeps, InviteSaveKeeps,
     CandidateRowsKeep, EnterKeeps, LoadPageKeeps, StartRefusedKeeps, StartCheckKeeps
     DEF EntranceNext

\* Pages and rows are of their types, links are known to whom they were given, and what a
\* page shows is what the rows still say unless the invitation was saved since.
THEOREM EntranceInvariant == EntranceSpec => []EntranceIInv
BY EntranceInitSound, EntranceNextKeeps, PTL DEF EntranceSpec

\* windowViewOf, publicLinkState and buildStages agree with the runtime's start: an offer is
\* refused only past the deadline it shows, whom the link admits could have started, and the
\* stages are reached in order, for any dates and any candidates.
THEOREM PagesDoAgree == EntranceSpec => []PagesAgree
<1>1. EntranceIInv => PagesAgree
  BY DEF EntranceIInv, CandidatesFit, CandidateFits, CardFits, RefusalFits, DoorFits, PagesAgree,
     OffersAreHonoured, EntrantsMayStart, BarIsInOrder
<1> QED
  BY <1>1, EntranceInvariant, PTL

\* rotate and revoke: a token that was rotated away or revoked never opens the round again,
\* while no two requests on the round overlap, and whoever was withdrawn before they began
\* stays out.
THEOREM RetractionsDoHold == EntranceSpec => []RetractionsHold
<1>1. EntranceIInv => RetractionsHold
  BY DEF EntranceIInv, LinkIsSound, CandidatesFit, CandidateFits, StaysOut, RetractionsHold,
     WithdrawnStaysOut
<1> QED
  BY <1>1, EntranceInvariant, PTL

=============================================================================
