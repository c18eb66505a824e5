----------------------------- MODULE ReviewDesk -----------------------------
(***************************************************************************)
(* What a company decides about one attempt, and what it tells the         *)
(* candidate (backend/src/reports/reports.service.ts and the cohort page,  *)
(* frontend/src/routes/recruiter-admin/AssessmentReports.tsx).             *)
(*                                                                         *)
(* Recruiters have the cohort page open, each with the copy of the review  *)
(* it last heard of.  A click sends a request; the request reads the row,  *)
(* and every save it makes writes the whole row it read, with no lock.     *)
(* One action is what runs between two awaited calls.                      *)
(***************************************************************************)
EXTENDS Naturals, FiniteSets

CONSTANTS
    Pages,          \* the open cohort pages
    NoNote          \* a review without a note

CONSTANTS           \* bounds of the exploration, not of the program
    MaxCalls,       \* requests ever sent
    MaxFaults,      \* calls that are refused
    MaxCrashes      \* times the server dies

ASSUME PagesAssumption == NoNote \notin Pages

ASSUME BoundsAssumption == {MaxCalls, MaxFaults, MaxCrashes} \subseteq Nat

\* A page keeps one flag per kind of call (saving, notifying, sendingMessage), so it has
\* at most one request of each kind in flight.
Lanes == {"save", "send", "write"}
Requests == Pages \X Lanes
PageOf(r) == r[1]
LaneOf(r) == r[2]

Decisions == {"none", "shortlisted", "rejected"}
Kinds == {"rejection", "candidate-message"}

VARIABLES
    review,         \* the candidate_reviews row of the attempt
    logged,         \* how many candidate_messages rows there are
    queued,         \* how many e-mails of each kind were ever queued
    page,           \* the review each page shows
    pc, ask, copy,  \* the requests: program counter, what was asked, the row as read
    calls, faults, crashes,
    \* history
    overlapped      \* whether two requests on the review were ever in flight together

db == <<review, logged>>
requests == <<pc, ask, copy>>
env == <<calls, faults, crashes>>
vars == <<db, queued, page, requests, env, overlapped>>

\* The row: its note stands for the note and the tags, sentAt for a non-null
\* rejectionEmailSentAt.
Reviews ==
    [exists: BOOLEAN, decision: Decisions, note: Pages \cup {NoNote}, sentAt: BOOLEAN]

NoReview == [exists |-> FALSE, decision |-> "none", note |-> NoNote, sentAt |-> FALSE]

\* What a patch carries: a decision, or "unsent" and then the page's note.
Patches == Decisions \cup {"unsent"}
NoPatch == "unsent"

TypeOK ==
    /\ review \in Reviews
    /\ logged \in Nat
    /\ queued \in [Kinds -> Nat]
    /\ page \in [Pages -> Reviews]
    /\ pc \in [Requests -> {"idle", "find", "save", "stamp", "add", "unstamp", "read", "log"}]
    /\ ask \in [Requests -> Patches]
    /\ copy \in [Requests -> Reviews]
    /\ {calls, faults, crashes} \subseteq Nat
    /\ overlapped \in BOOLEAN

\* The requests that read or write the review.
Desk == {r \in Requests : LaneOf(r) # "write"}
Idle(r) == pc[r] = "idle"
Quiet == \A r \in Requests : Idle(r)

\* How often the candidate is written to that the answer is no.
Tellings == queued["rejection"]

Init ==
    /\ review = NoReview
    /\ logged = 0
    /\ queued = [k \in Kinds |-> 0]
    /\ page = [p \in Pages |-> NoReview]
    /\ pc = [r \in Requests |-> "idle"]
    /\ ask = [r \in Requests |-> NoPatch]
    /\ copy = [r \in Requests |-> NoReview]
    /\ calls = 0 /\ faults = 0 /\ crashes = 0
    /\ overlapped = FALSE

(***************************************************************************)
(* The page                                                                *)
(***************************************************************************)
Goto(r, l) == pc' = [pc EXCEPT ![r] = l]

\* A click puts a request in flight.
Call(r, patch) ==
    /\ Idle(r)
    /\ calls < MaxCalls
    /\ calls' = calls + 1
    /\ Goto(r, "find")
    /\ ask' = [ask EXCEPT ![r] = patch]
    /\ overlapped' = (overlapped \/ (r \in Desk /\ \E s \in Desk : ~Idle(s)))
    /\ UNCHANGED <<db, queued, page, copy, faults, crashes>>

\* decide: clicking the decision the page shows clears it; the buttons are off once the
\* page shows the candidate as told.
Decide(p, d) ==
    /\ ~page[p].sentAt
    /\ Call(<<p, "save">>, IF page[p].decision = d THEN "none" ELSE d)

\* The note editor.
EditNote(p) == Call(<<p, "save">>, NoPatch)

\* resendRejection: "Not emailed - send now".
Resend(p) ==
    /\ page[p].decision = "rejected"
    /\ ~page[p].sentAt
    /\ Call(<<p, "send">>, NoPatch)

\* openContact, sendMessage: offered on a row shown as told.
Contact(p) ==
    /\ page[p].decision = "rejected"
    /\ page[p].sentAt
    /\ Call(<<p, "write">>, NoPatch)

\* The page is loaded, or loaded again.
Reload(p) ==
    /\ page' = [page EXCEPT ![p] = review]
    /\ UNCHANGED <<db, queued, requests, env, overlapped>>

\* A response arrives.
Respond(r) ==
    /\ Goto(r, "idle")
    /\ ask' = [ask EXCEPT ![r] = NoPatch]
    /\ copy' = [copy EXCEPT ![r] = NoReview]

\* The request fails with an error, and the page stays as it is.
Fails(r) ==
    /\ Respond(r)
    /\ UNCHANGED page

(***************************************************************************)
(* saveReview                                                              *)
(***************************************************************************)
\* What is saved: the copy, with the fields the patch carries.
Patched(r) ==
    [exists |-> TRUE,
     decision |-> IF ask[r] = "unsent" THEN copy[r].decision ELSE ask[r],
     note |-> IF ask[r] = "unsent" THEN PageOf(r) ELSE copy[r].note,
     sentAt |-> copy[r].sentAt]

\* Mutant of Frozen: clearing the decision is let through.
FrozenUnlessCleared(r) ==
    /\ review.sentAt
    /\ ask[r] \notin {"unsent", "rejected", "none"}

\* "A rejection the candidate has been told about is final."
Frozen(r) ==
    /\ review.sentAt
    /\ ask[r] \notin {"unsent", "rejected"}

\* loadSession and the read of the existing review.
SaveFind(r) ==
    /\ LaneOf(r) = "save" /\ pc[r] = "find"
    /\ \/ /\ Frozen(r)
          /\ Fails(r)
       \/ /\ ~Frozen(r)
          /\ copy' = [copy EXCEPT ![r] = review]
          /\ Goto(r, "save")
          /\ UNCHANGED <<page, ask>>
    /\ UNCHANGED <<db, queued, env, overlapped>>

\* Mutant of Tells: every call that asks for it.
TellsAgain(r) == ask[r] = "rejected"

\* Whether this call is the one that tells the candidate: it asks for the rejection, and
\* nothing had been sent when it read the row.
Tells(r) == ask[r] = "rejected" /\ ~copy[r].sentAt

\* The save: an update of the row that was read, or an insert that the unique index
\* refuses if a row has appeared.  Then, for the call that tells the candidate, the rejection.
SaveWrite(r) ==
    /\ pc[r] = "save"
    /\ \/ /\ ~copy[r].exists /\ review.exists
          /\ Fails(r)
          /\ UNCHANGED review
       \/ /\ copy[r].exists \/ ~review.exists
          /\ review' = Patched(r)
          /\ copy' = [copy EXCEPT ![r] = Patched(r)]
          /\ Goto(r, IF Tells(r) THEN "stamp" ELSE "read")
          /\ UNCHANGED <<page, ask>>
    /\ UNCHANGED <<logged, queued, env, overlapped>>

\* The review is read again for the response.
SaveRead(r) ==
    /\ pc[r] = "read"
    /\ page' = [page EXCEPT ![PageOf(r)] = review]
    /\ Respond(r)
    /\ UNCHANGED <<db, queued, env, overlapped>>

(***************************************************************************)
(* sendRejectionEmail and queueRejection                                   *)
(***************************************************************************)
\* The manual retry refuses unless the review is rejected and not yet stamped.
SendFind(r) ==
    /\ LaneOf(r) = "send" /\ pc[r] = "find"
    /\ \/ /\ review.decision # "rejected" \/ review.sentAt
          /\ Fails(r)
       \/ /\ review.decision = "rejected" /\ ~review.sentAt
          /\ copy' = [copy EXCEPT ![r] = review]
          /\ Goto(r, "stamp")
          /\ UNCHANGED <<page, ask>>
    /\ UNCHANGED <<db, queued, env, overlapped>>

Stamped(r, isSent) ==
    [exists |-> TRUE, decision |-> copy[r].decision, note |-> copy[r].note, sentAt |-> isSent]

\* "Stamped before the job is queued": saves the whole copy.
Stamp(r) ==
    /\ pc[r] = "stamp"
    /\ review' = Stamped(r, TRUE)
    /\ copy' = [copy EXCEPT ![r] = Stamped(r, TRUE)]
    /\ Goto(r, "add")
    /\ UNCHANGED <<logged, queued, page, ask, env, overlapped>>

\* A job is added to the e-mail queue.
Enqueue(kind) == queued' = [queued EXCEPT ![kind] = @ + 1]

\* saveReview goes on to its last read; sendRejectionEmail answers, and the page shows
\* the stamp.
AddRejection(r) ==
    /\ pc[r] = "add"
    /\ Enqueue("rejection")
    /\ \/ /\ LaneOf(r) = "save"
          /\ Goto(r, "read")
          /\ UNCHANGED <<page, ask, copy>>
       \/ /\ LaneOf(r) = "send"
          /\ page' = [page EXCEPT ![PageOf(r)].sentAt = TRUE]
          /\ Respond(r)
    /\ UNCHANGED <<db, env, overlapped>>

\* What becomes of an error of queueRejection: saveReview catches it and answers with
\* the review, sendRejectionEmail passes it on.
GiveUp(r) ==
    \/ /\ LaneOf(r) = "save"
       /\ Goto(r, "read")
       /\ UNCHANGED <<page, ask, copy>>
    \/ /\ LaneOf(r) = "send"
       /\ Fails(r)

\* Mutant of Unstamp: the stamp is set again.
UnstampKept(r) ==
    /\ pc[r] = "unstamp"
    /\ review' = Stamped(r, TRUE)
    /\ GiveUp(r)
    /\ UNCHANGED <<logged, queued, env, overlapped>>

\* "Undo the stamp": saves the whole copy again.
Unstamp(r) ==
    /\ pc[r] = "unstamp"
    /\ review' = Stamped(r, FALSE)
    /\ GiveUp(r)
    /\ UNCHANGED <<logged, queued, env, overlapped>>

(***************************************************************************)
(* sendCandidateMessage                                                    *)
(***************************************************************************)
\* "Sends first, then records."
MessageAdd(r) ==
    /\ LaneOf(r) = "write" /\ pc[r] = "find"
    /\ Enqueue("candidate-message")
    /\ Goto(r, "log")
    /\ UNCHANGED <<db, page, ask, copy, env, overlapped>>

MessageLog(r) ==
    /\ pc[r] = "log"
    /\ logged' = logged + 1
    /\ Fails(r)
    /\ UNCHANGED <<review, queued, env, overlapped>>

(***************************************************************************)
(* Failures                                                                *)
(***************************************************************************)
\* An awaited call is refused and does nothing.  An error of queueRejection after the
\* stamp undoes it first; before it, and in the undo, it ends queueRejection.
Refuse(r) ==
    /\ ~Idle(r)
    /\ faults < MaxFaults
    /\ faults' = faults + 1
    /\ \/ /\ pc[r] = "add"
          /\ Goto(r, "unstamp")
          /\ UNCHANGED <<page, ask, copy>>
       \/ /\ pc[r] \in {"stamp", "unstamp"}
          /\ GiveUp(r)
       \/ /\ pc[r] \in {"find", "save", "read", "log"}
          /\ Fails(r)
    /\ UNCHANGED <<db, queued, calls, crashes, overlapped>>

\* The server dies, and with it every request in flight: the pages get an error.
Crash ==
    /\ ~Quiet
    /\ crashes < MaxCrashes
    /\ crashes' = crashes + 1
    /\ pc' = [r \in Requests |-> "idle"]
    /\ ask' = [r \in Requests |-> NoPatch]
    /\ copy' = [r \in Requests |-> NoReview]
    /\ UNCHANGED <<db, queued, page, calls, faults, overlapped>>

ClickAt(p) ==
    \/ \E d \in {"shortlisted", "rejected"} : Decide(p, d)
    \/ EditNote(p)
    \/ Resend(p)
    \/ Contact(p)
    \/ Reload(p)

Step(r) ==
    \/ SaveFind(r) \/ SaveWrite(r) \/ SaveRead(r)
    \/ SendFind(r) \/ Stamp(r) \/ AddRejection(r) \/ Unstamp(r)
    \/ MessageAdd(r) \/ MessageLog(r)
    \/ Refuse(r)

Next ==
    \/ \E p \in Pages : ClickAt(p)
    \/ \E r \in Requests : Step(r)
    \/ Crash

Spec == Init /\ [][Next]_vars

(***************************************************************************)
(* What must hold                                                          *)
(***************************************************************************)
\* The stamp is written before the e-mail is queued, and only an unstamped review is
\* stamped: as long as no two requests on the review overlap, the candidate is told at
\* most once, whatever is refused, whenever the server dies, however stale the pages are,
\* and however many messages are written meanwhile.
ToldOnce == ~overlapped => Tellings <= 1

\* "A rejection the candidate has been told about is final": as long as no two requests
\* on the review overlap, what the candidate was told is the decision on record, with
\* its stamp.
ToldIsOnRecord ==
    ~overlapped /\ Tellings > 0 => review.decision = "rejected" /\ review.sentAt

\* "Queues the email and stamps the review, or leaves both undone": the manual send of a
\* rejection that was not queued is not refused as already sent, unless the server died or
\* the undo was refused as well.
RetryIsOpen ==
    ~overlapped /\ Quiet /\ crashes = 0 /\ faults <= 1 /\ Tellings = 0 => ~review.sentAt

==============================================================================
