------------------------------ MODULE Entrance ------------------------------
(***************************************************************************)
(* When a candidate may enter a round: its public link, its dates, the     *)
(* dates of one invitation, and the page that offers to start              *)
(* (backend/src/assessments/assessment-window.ts, public-link.ts and       *)
(* public-link.service.ts, invitations.service.ts, candidate-attempt.ts,   *)
(* public-entry.service.ts, sessions.service.ts start;                     *)
(* frontend/src/routes/candidate and PublicEntry.tsx).                     *)
(*                                                                         *)
(* A recruiter's request reads a row and saves it whole.  A candidate's    *)
(* page shows what the server said when it was loaded.  The accounts and   *)
(* the cap are Admission's, the attempt itself SessionRuntime's.           *)
(***************************************************************************)
EXTENDS Naturals

CONSTANTS
    Candidates,
    Desks,          \* the recruiters' requests in flight
    Null            \* no bound, and no token

CONSTANTS           \* bounds of the exploration, not of the program
    LastInstant,    \* the last millisecond
    MaxDeskCalls,   \* recruiters' requests
    MaxMinted       \* tokens ever minted

ASSUME NullAssumption == Null \notin Nat /\ Null \notin {"none", "open", "submitted"}

ASSUME EntranceBoundsAssumption == {LastInstant, MaxDeskCalls, MaxMinted} \subseteq Nat

VARIABLES
    instant,
    round,          \* the assessments row: its public link and its dates
    minted,         \* the tokens minted
    invite,         \* the invitation of each candidate
    attempt,        \* the attempt of each candidate
    reported,       \* whose attempt has a report
    desk,           \* what each recruiter's request is about to save
    door,           \* a visitor's entry, checked and not yet admitted
    page,           \* the candidate's page
    runner,         \* the candidate's start request
    deskCalls,
    \* history
    handed,         \* the tokens given out
    retired,        \* those of them rotated or revoked since
    crossed,        \* whether two requests on the round were ever in flight at once
    changed,        \* whose invitation was saved since the page was loaded
    withdrawn       \* whose invitation was revoked, and the attempt it was revoked at

rows == <<round, minted, invite, attempt, reported>>
clients == <<door, page, runner>>
memory == <<handed, retired, crossed, changed, withdrawn>>
entrance == <<instant, rows, desk, clients, deskCalls, memory>>

Instants == 0 .. LastInstant
\* The dates of the first instant are left out: opening then is having no opening date.
Bounds == (1 .. LastInstant) \cup {Null}
Tokens == 1 .. MaxMinted

Rounds == [token: Tokens \cup {Null}, enabled: BOOLEAN, expires: Bounds,
           opens: Bounds, closes: Bounds]
Statuses == {"none", "pending", "in_progress", "completed", "revoked"}
Invites == [status: Statuses, opens: Bounds, closes: Bounds]
Attempts == {"none", "open", "submitted"}
Stages == <<"invited", "started", "submitted", "under_review">>

Unscheduled == [token |-> Null, enabled |-> FALSE, expires |-> Null, opens |-> Null,
                closes |-> Null]
NoInvite == [status |-> "none", opens |-> Null, closes |-> Null]
NoRequest == [doing |-> "nothing"]
Blank == [shows |-> "nothing"]

EntranceTypeOK ==
    /\ instant \in Instants
    /\ round \in Rounds
    /\ minted \in 0 .. MaxMinted
    /\ invite \in [Candidates -> Invites]
    /\ attempt \in [Candidates -> Attempts]
    /\ reported \subseteq Candidates
    /\ desk \in [Desks -> {NoRequest}
                           \cup [doing: {"round"}, row: Rounds, mints: BOOLEAN, retires: BOOLEAN]
                           \cup [doing: {"window"}, of: Candidates, row: Invites]
                           \cup [doing: {"revoke"}, of: Candidates]]
    /\ door \in [Candidates -> Instants \cup {Null}]
    /\ runner \in [Candidates -> {"idle", "insert", "status"}]
    /\ deskCalls \in Nat
    /\ handed \subseteq Tokens
    /\ retired \subseteq Tokens
    /\ crossed \in BOOLEAN
    /\ changed \subseteq Candidates
    /\ withdrawn \in [Candidates -> Attempts \cup {Null}]

(***************************************************************************)
(* The dates                                                               *)
(***************************************************************************)
Else(b, default) == IF b = Null THEN default ELSE b

\* An override wins over the round's date; a null one inherits.
EffectiveWindow(r, i) == [opens |-> Else(i.opens, r.opens), closes |-> Else(i.closes, r.closes)]

NotYet(w, t) == w.opens # Null /\ t < w.opens
Closed(w, t) == w.closes # Null /\ t > w.closes
IsOpen(w, t) == ~NotYet(w, t) /\ ~Closed(w, t)

\* Mutant of LinkIsOpen: the link knows its own dates only.
LinkIsOpenAlone(r, t) ==
    /\ r.token # Null
    /\ r.enabled
    /\ r.expires # Null => t < r.expires

\* The link admits at t, as far as its token, its switch and its dates go.
LinkIsOpen(r, t) ==
    /\ r.token # Null
    /\ r.enabled
    /\ r.opens # Null => t >= r.opens
    /\ r.closes # Null => t < r.closes
    /\ r.expires # Null => t < r.expires

EntranceInit ==
    /\ instant = 0
    /\ round \in [token: {Null}, enabled: {FALSE}, expires: {Null}, opens: Bounds, closes: Bounds]
    /\ round.opens # Null /\ round.closes # Null => round.opens < round.closes
    /\ minted = 0
    /\ invite \in [Candidates -> {NoInvite, [NoInvite EXCEPT !.status = "pending"]}]
    /\ attempt = [c \in Candidates |-> "none"]
    /\ reported = {}
    /\ desk = [d \in Desks |-> NoRequest]
    /\ door = [c \in Candidates |-> Null]
    /\ page = [c \in Candidates |-> Blank]
    /\ runner = [c \in Candidates |-> "idle"]
    /\ deskCalls = 0
    /\ handed = {} /\ retired = {}
    /\ crossed = FALSE
    /\ changed = {}
    /\ withdrawn = [c \in Candidates |-> Null]

Advance ==
    /\ instant < LastInstant
    /\ instant' = instant + 1
    /\ UNCHANGED <<rows, desk, clients, deskCalls, memory>>

(***************************************************************************)
(* The recruiter's requests                                                *)
(***************************************************************************)
Asks(d) ==
    /\ desk[d] = NoRequest
    /\ deskCalls < MaxDeskCalls
    /\ deskCalls' = deskCalls + 1

\* The assessment is read, and changed in memory.
ReadRound(d, row, mints, retires) ==
    /\ Asks(d)
    /\ desk' = [desk EXCEPT ![d] = [doing |-> "round", row |-> row, mints |-> mints,
                                    retires |-> retires]]
    /\ crossed' = (crossed \/ \E e \in Desks : desk[e].doing = "round")
    /\ UNCHANGED <<instant, round, invite, attempt, reported, clients, handed, retired, changed,
                   withdrawn>>

\* rotate: a new token replaces the old one and the link is switched on; the panel sends
\* its date with it, and an empty box clears the date.
Rotate(d) ==
    /\ minted < MaxMinted
    /\ minted' = minted + 1
    /\ \E x \in Bounds :
        ReadRound(d, [round EXCEPT !.token = minted + 1, !.enabled = TRUE, !.expires = x],
                  TRUE, TRUE)

\* update: the date, or the switch.
Update(d) ==
    /\ \/ \E x \in Bounds : ReadRound(d, [round EXCEPT !.expires = x], FALSE, FALSE)
       \/ \E b \in BOOLEAN : ReadRound(d, [round EXCEPT !.enabled = b], FALSE, FALSE)
    /\ UNCHANGED minted

\* Mutant of Revoke: the link is switched off, its token kept.
RevokeBySwitch(d) ==
    /\ ReadRound(d, [round EXCEPT !.enabled = FALSE], FALSE, TRUE)
    /\ UNCHANGED minted

\* revoke: the token goes.
Revoke(d) ==
    /\ ReadRound(d, [round EXCEPT !.token = Null, !.enabled = FALSE], FALSE, TRUE)
    /\ UNCHANGED minted

\* setCompany: the link is not touched, and is written back with the rest of the row.
SetCompany(d) ==
    /\ ReadRound(d, round, FALSE, FALSE)
    /\ UNCHANGED minted

\* The whole row is saved, and a minted token is handed out once.
SaveRound(d) ==
    /\ desk[d].doing = "round"
    /\ round' = desk[d].row
    /\ handed' = IF desk[d].mints THEN handed \cup {desk[d].row.token} ELSE handed
    /\ retired' = IF desk[d].retires THEN retired \cup handed ELSE retired
    /\ desk' = [desk EXCEPT ![d] = NoRequest]
    /\ UNCHANGED <<instant, minted, invite, attempt, reported, clients, deskCalls, crossed,
                   changed, withdrawn>>

\* inviteOne, for an address that is not in the round yet.
InviteByName(c) ==
    /\ invite[c].status = "none"
    /\ invite' = [invite EXCEPT ![c].status = "pending"]
    /\ UNCHANGED <<instant, round, minted, attempt, reported, desk, clients, deskCalls, memory>>

\* reschedule: both dates are sent, and must be in order once layered over the round's.
DatesFind(d, c) ==
    /\ invite[c].status # "none"
    /\ Asks(d)
    /\ \E o, x \in Bounds :
        LET row == [invite[c] EXCEPT !.opens = o, !.closes = x]
            w == EffectiveWindow(round, row)
        IN  /\ w.opens # Null /\ w.closes # Null => w.opens < w.closes
            /\ desk' = [desk EXCEPT ![d] = [doing |-> "window", of |-> c, row |-> row]]
    /\ UNCHANGED <<instant, rows, clients, memory>>

\* Whose revocation a save of the row may be undoing, or has undone.
DatesSave(d) ==
    /\ desk[d].doing = "window"
    /\ LET c == desk[d].of
       IN  /\ invite' = [invite EXCEPT ![c] = desk[d].row]
           /\ changed' = changed \cup {c}
           /\ withdrawn' = IF desk[d].row.status = "revoked" THEN withdrawn
                           ELSE [withdrawn EXCEPT ![c] = Null]
    /\ desk' = [desk EXCEPT ![d] = NoRequest]
    /\ UNCHANGED <<instant, round, minted, attempt, reported, clients, deskCalls, handed, retired,
                   crossed>>

RevokeInviteFind(d, c) ==
    /\ invite[c].status \notin {"none", "revoked"}
    /\ Asks(d)
    /\ desk' = [desk EXCEPT ![d] = [doing |-> "revoke", of |-> c]]
    /\ UNCHANGED <<instant, rows, clients, memory>>

\* revoke: the status alone is written.  A start that has passed its checks will write
\* its own after it.
RevokeInvite(d) ==
    /\ desk[d].doing = "revoke"
    /\ LET c == desk[d].of
       IN  /\ invite' = [invite EXCEPT ![c].status = "revoked"]
           /\ changed' = changed \cup {c}
           /\ withdrawn' = IF runner[c] = "idle" THEN [withdrawn EXCEPT ![c] = attempt[c]]
                           ELSE withdrawn
    /\ desk' = [desk EXCEPT ![d] = NoRequest]
    /\ UNCHANGED <<instant, round, minted, attempt, reported, clients, deskCalls, handed, retired,
                   crossed>>

(***************************************************************************)
(* The visitor                                                             *)
(***************************************************************************)
\* enter: the token is looked up, and the link must be open.
EnterByLink(c) ==
    /\ door[c] = Null
    /\ round.token \in handed
    /\ LinkIsOpen(round, instant)
    /\ door' = [door EXCEPT ![c] = instant]
    /\ UNCHANGED <<instant, rows, desk, page, runner, deskCalls, memory>>

\* Mutant of Admit: an entry renews the invitation it finds.
AdmitRenewed(c) ==
    /\ door[c] # Null
    /\ invite' = [invite EXCEPT ![c].status = IF attempt[c] = "none" THEN "pending" ELSE @]
    /\ door' = [door EXCEPT ![c] = Null]
    /\ UNCHANGED <<instant, round, minted, attempt, reported, desk, page, runner, deskCalls,
                   memory>>

\* createSelfRegistered: an invitation there is stays as it is.
Admit(c) ==
    /\ door[c] # Null
    /\ invite' = IF invite[c].status = "none"
                 THEN [invite EXCEPT ![c].status = "pending"] ELSE invite
    /\ door' = [door EXCEPT ![c] = Null]
    /\ UNCHANGED <<instant, round, minted, attempt, reported, desk, page, runner, deskCalls,
                   memory>>

(***************************************************************************)
(* The candidate                                                           *)
(***************************************************************************)
\* Mutant of ReviewReady: looked up for any attempt.
ReviewReadyAny(c) == attempt[c] # "none" /\ c \in reported

\* When the recruiting team's copy became available, which is looked up for a submitted
\* attempt only.
ReviewReady(c) == attempt[c] = "submitted" /\ c \in reported

\* The stages that have been reached, by number.
Reached(c) == {n \in DOMAIN Stages :
    CASE Stages[n] = "invited"      -> TRUE
      [] Stages[n] = "started"      -> attempt[c] # "none"
      [] Stages[n] = "submitted"    -> attempt[c] = "submitted"
      [] Stages[n] = "under_review" -> ReviewReady(c)}

\* buildStages.
Bar(c) ==
    LET halted == attempt[c] # "submitted" /\ invite[c].status = "revoked"
    IN  [n \in DOMAIN Stages |->
            IF n \in Reached(c)
            THEN IF \A k \in Reached(c) : k <= n THEN "current" ELSE "done"
            ELSE IF halted THEN "stopped" ELSE "upcoming"]

\* The list or the record: the window as the server sees it, and the button.
LoadPage(c) ==
    /\ invite[c].status # "none"
    /\ runner[c] = "idle"
    /\ LET w == EffectiveWindow(round, invite[c])
       IN  page' = [page EXCEPT ![c] =
                [shows |-> "card",
                 offer |-> invite[c].status \in {"pending", "in_progress"} /\ IsOpen(w, instant),
                 until |-> w.closes,
                 bar |-> Bar(c)]]
    /\ changed' = changed \ {c}
    /\ UNCHANGED <<instant, rows, desk, door, runner, deskCalls, handed, retired, crossed,
                   withdrawn>>

\* Start and Resume, or a reload of the test screen, which starts the session again.
Asking(c) ==
    /\ runner[c] = "idle"
    /\ page[c].shows = "test" \/ (page[c].shows = "card" /\ page[c].offer)

\* Mutant of MayStart: the round's dates, whatever the invitation's.
MayStartByRound(c) ==
    /\ invite[c].status \notin {"none", "revoked"}
    /\ IsOpen(round, instant)

MayStart(c) ==
    /\ invite[c].status \notin {"none", "revoked"}
    /\ IsOpen(EffectiveWindow(round, invite[c]), instant)

\* start is refused: the page shows the error.
StartRefused(c) ==
    /\ Asking(c)
    /\ ~MayStart(c)
    /\ page' = [page EXCEPT ![c] =
            [shows |-> "refused", at |-> instant, from |-> page[c], found |-> attempt[c],
             as |-> invite[c].status]]
    /\ UNCHANGED <<instant, rows, desk, door, runner, deskCalls, memory>>

Playing == [shows |-> "test"]

\* start: an attempt there is is resumed, and otherwise made.
StartCheck(c) ==
    /\ Asking(c)
    /\ MayStart(c)
    /\ page' = [page EXCEPT ![c] = Playing]
    /\ runner' = IF attempt[c] = "none" THEN [runner EXCEPT ![c] = "insert"] ELSE runner
    /\ UNCHANGED <<instant, rows, desk, door, deskCalls, memory>>

StartInsert(c) ==
    /\ runner[c] = "insert"
    /\ attempt' = [attempt EXCEPT ![c] = "open"]
    /\ runner' = [runner EXCEPT ![c] = "status"]
    /\ UNCHANGED <<instant, round, minted, invite, reported, desk, door, page, deskCalls, memory>>

StartStatus(c) ==
    /\ runner[c] = "status"
    /\ invite' = [invite EXCEPT ![c].status = "in_progress"]
    /\ runner' = [runner EXCEPT ![c] = "idle"]
    /\ UNCHANGED <<instant, round, minted, attempt, reported, desk, door, page, deskCalls, memory>>

\* The server dies between the insert and the status, which is then never written.
StartCut(c) ==
    /\ runner[c] # "idle"
    /\ runner' = [runner EXCEPT ![c] = "idle"]
    /\ UNCHANGED <<instant, rows, desk, door, page, deskCalls, memory>>

\* finalize: by the last answer, or by the attempt's own clock.
Submit(c) ==
    /\ attempt[c] = "open"
    /\ runner[c] = "idle"
    /\ attempt' = [attempt EXCEPT ![c] = "submitted"]
    /\ invite' = [invite EXCEPT ![c].status = "completed"]
    /\ UNCHANGED <<instant, round, minted, reported, desk, clients, deskCalls, memory>>

\* A report is made by the job, or by a recruiter who opens it, which may be before the
\* attempt is submitted.
MakeReport(c) ==
    /\ attempt[c] # "none"
    /\ c \notin reported
    /\ reported' = reported \cup {c}
    /\ UNCHANGED <<instant, round, minted, invite, attempt, desk, clients, deskCalls, memory>>

EntranceNext ==
    \/ Advance
    \/ \E d \in Desks :
        \/ Rotate(d) \/ Update(d) \/ Revoke(d) \/ SetCompany(d) \/ SaveRound(d)
        \/ \E c \in Candidates : DatesFind(d, c) \/ RevokeInviteFind(d, c)
        \/ DatesSave(d) \/ RevokeInvite(d)
    \/ \E c \in Candidates :
        \/ InviteByName(c) \/ EnterByLink(c) \/ Admit(c)
        \/ LoadPage(c) \/ StartRefused(c) \/ StartCheck(c) \/ StartInsert(c) \/ StartStatus(c)
        \/ StartCut(c) \/ Submit(c) \/ MakeReport(c)

EntranceSpec == EntranceInit /\ [][EntranceNext]_entrance

(***************************************************************************)
(* What must hold                                                          *)
(***************************************************************************)
\* windowViewOf is shared so that the pages and the runtime "cannot disagree about when
\* somebody may sit": a Start or Resume that a page offers is refused only after the
\* deadline the page shows, or when the invitation was rescheduled or revoked since.
OffersAreHonoured ==
    \A c \in Candidates :
        page[c].shows = "refused" /\ page[c].from.shows = "card" /\ c \notin changed =>
            page[c].from.until # Null /\ page[c].at > page[c].from.until

\* publicLinkState bounds the link by the round's dates, lest it "admit somebody to a test
\* the runtime would then refuse to start": whoever it lets in with no dates of their own
\* could have started at that instant.
EntrantsMayStart ==
    \A c \in Candidates : door[c] # Null => IsOpen(EffectiveWindow(round, NoInvite), door[c])

\* The four stages are reached in order, whenever the page was loaded and however early a
\* report was made.
BarIsInOrder ==
    \A c \in Candidates : page[c].shows = "card" =>
        \A n \in DOMAIN Stages : page[c].bar[n] \in {"done", "current"} =>
            \A k \in 1 .. n - 1 : page[c].bar[k] = "done"

\* The three together: whoever says that somebody may sit, or how far they are, agrees.
PagesAgree == OffersAreHonoured /\ EntrantsMayStart /\ BarIsInOrder

\* "Rotating invalidates the previous link immediately": a token rotated away or revoked
\* never opens the round again, whatever is saved or switched on later, as long as no two
\* requests on the round overlapped.
LinksStayRetired == ~crossed => round.token \notin retired

\* Revoking "withdraws access": a candidate whose invitation was revoked before they began
\* never begins, whatever page is still open, whoever reschedules them, and however often
\* they come back by the link; unless a reschedule that had read the row put it back.
WithdrawnStaysOut == \A c \in Candidates : withdrawn[c] = "none" => attempt[c] = "none"

\* What was taken back stays taken back: the old link and the withdrawn invitation.
RetractionsHold == LinksStayRetired /\ WithdrawnStaysOut

(***************************************************************************)
(* What the code says of itself and does not keep                          *)
(***************************************************************************)
\* start: "A candidate who started inside the window and is still working when it closes
\* keeps their session": with an attempt under way, only a revocation refuses a start.
KeepsTheirSession ==
    \A c \in Candidates :
        page[c].shows = "refused" /\ page[c].found = "open" => page[c].as = "revoked"

=============================================================================
