--------------------------- MODULE AdmissionSafety ---------------------------
(***************************************************************************)
(* What the admission of candidates promises.  Most of it is a promise     *)
(* about an address whose requests came one after the other: none of the   *)
(* handlers takes a lock, and two overlapping requests about one address   *)
(* can leave an invitation unlinked or discard the one the other was given.*)
(***************************************************************************)
EXTENDS Admission

AtRest(e) == ~Busy(e)
Undisturbed(e) == e \notin disturbed

\* Every invitation is held by the account of its address: a candidate who is
\* invited has an account, and start (sessions.service.ts:127) will find the
\* invitation theirs.  Whatever calls came before: invitations, registrations,
\* entries, removals, deletions, accounts made by hand.
InvitationsAreHeld ==
    \A s \in Slots :
        Exists(s) /\ AtRest(s[2]) /\ Undisturbed(s[2]) =>
            /\ Account(s[2]) # 0
            /\ invitations[s].cand = Account(s[2])

\* An account the invite flow made and nobody took over exists only while some
\* company's invitation names it: remove and deletePerson leave no live account
\* behind with a password in a stranger's inbox (users.service.ts:498-500).
FreshAccountsAreInvited ==
    \A e \in Emails :
        users[e].state = "fresh" /\ AtRest(e) /\ Undisturbed(e) => Invited(e)

\* An entrant who is given an invitation id can start it: the row is there and
\* linked to the account they were signed in to (public-entry.service.ts:209).
EntrantsCanStart ==
    \A p \in Requests :
        At(p, "entered") /\ Undisturbed(req[p].e) =>
            LET s == SlotOf(req[p]) IN
            /\ invitations[s].id = req[p].row.id
            /\ Account(req[p].e) # 0
            /\ invitations[s].cand = Account(req[p].e)

\* The three together: what an address is left with by requests that did not overlap.
AdmissionIsWhole == InvitationsAreHeld /\ FreshAccountsAreInvited /\ EntrantsCanStart

\* With every request overlapping every other, the link admits at most one
\* entrant over its cap for each further request the server has in flight, and
\* no chain of removals and reschedules adds to that (public-entry.service.ts:318).
CapOvershoot ==
    \A a \in Assessments : SelfCount(a) <= Cap + Cardinality(Requests) - 1

\* A link always points to a living account, and an attempt to a living
\* account and to an invitation that exists, however requests overlap or fail.
NothingDangles ==
    \A s \in Slots :
        /\ invitations[s].cand # 0 => invitations[s].cand = Account(s[2])
        /\ attempts[s] # 0 => Exists(s) /\ attempts[s] = Account(s[2])

\* The company on whose behalf a step is taken.
ActsFor(a) == \E p \in Requests : req[p].a = a /\ req'[p] # req[p]

\* One customer never erases another's records (users.service.ts:371): a
\* company's invitation or attempt disappears only by a request to that company.
RecordsAreTheCompanysOwn ==
    [][\A s \in Slots :
          /\ Undisturbed(s[2])
          /\ (Exists(s) /\ ~Exists(s)') \/ (attempts[s] # 0 /\ attempts'[s] = 0)
          => ActsFor(s[1])]_vars

=============================================================================
