------------------------- MODULE ReviewDesk_proofs -------------------------
(***************************************************************************)
(* Theorems of ReviewDesk, for any number of cohort pages, clicks, refused *)
(* calls and crashes.                                                      *)
(***************************************************************************)
EXTENDS ReviewDesk, TLAPS

\* Each kind of request has its own steps.
LanesAreKept ==
    \A r \in Requests :
        /\ pc[r] \in {"save", "read"} => LaneOf(r) = "save"
        /\ pc[r] \in {"stamp", "add", "unstamp"} => LaneOf(r) # "write"
        /\ pc[r] = "log" => LaneOf(r) = "write"

Alone == \A r, s \in Desk : ~Idle(r) /\ ~Idle(s) => r = s

\* What a request on the review knows about the row, while it is the only one.
Knows(r) ==
    /\ pc[r] = "save" =>
           copy[r] = review /\ (review.sentAt => ask[r] \in {"unsent", "rejected"})
    /\ pc[r] = "stamp" =>
           copy[r] = review /\ review.decision = "rejected" /\ ~review.sentAt
    /\ pc[r] \in {"add", "unstamp"} =>
           /\ copy[r] = review /\ review.decision = "rejected" /\ review.sentAt
           /\ Tellings = 0
    /\ pc[r] = "unstamp" => faults >= 1

Told ==
    /\ Tellings <= 1
    /\ Tellings > 0 => review.decision = "rejected" /\ review.sentAt

\* A stamp without an e-mail has a request that is still to send it or to undo the stamp,
\* or a crash or two refused calls behind it.
StampIsExplained ==
    crashes = 0 /\ Tellings = 0 /\ review.sentAt =>
        faults >= 2 \/ \E r \in Desk : pc[r] \in {"add", "unstamp"}

Orderly == Alone /\ (\A r \in Requests : Knows(r)) /\ Told /\ StampIsExplained

IInv == TypeOK /\ LanesAreKept /\ (~overlapped => Orderly)

-----------------------------------------------------------------------------
LEMMA RequestFacts ==
    /\ \A r \in Requests : PageOf(r) \in Pages /\ LaneOf(r) \in Lanes
    /\ \A r \in Requests : r \in Desk <=> LaneOf(r) # "write"
    /\ \A p \in Pages, l \in Lanes : <<p, l>> \in Requests /\ LaneOf(<<p, l>>) = l
BY DEF Requests, PageOf, LaneOf, Desk, Lanes

LEMMA Blanks == NoPatch \in Patches /\ NoReview \in Reviews
BY DEF NoPatch, Patches, NoReview, Reviews, Decisions

LEMMA InitSound == Init => IInv
<1> SUFFICES ASSUME Init PROVE IInv
  OBVIOUS
<1>1. /\ review \in Reviews
      /\ page \in [Pages -> Reviews]
      /\ ask \in [Requests -> Patches]
      /\ copy \in [Requests -> Reviews]
  BY Blanks DEF Init
<1>2. /\ logged \in Nat
      /\ queued \in [Kinds -> Nat]
      /\ {calls, faults, crashes} \subseteq Nat
      /\ pc \in [Requests -> {"idle", "find", "save", "stamp", "add", "unstamp", "read",
                              "log"}]
  BY DEF Init
<1>6. overlapped \in BOOLEAN
  BY DEF Init
<1>5. TypeOK
  BY <1>1, <1>2, <1>6 DEF TypeOK
<1>3. LanesAreKept
  BY DEF Init, LanesAreKept
<1>4. Orderly
  BY DEF Init, Orderly, Alone, Knows, Told, StampIsExplained, Tellings, Idle, Desk, Kinds,
     NoReview
<1> QED
  BY <1>3, <1>4, <1>5 DEF IInv

\* A click.
LEMMA CallKeeps ==
    ASSUME IInv, NEW r \in Requests, NEW patch \in Patches, Call(r, patch)
    PROVE  IInv'
<1>1. TypeOK'
  BY DEF IInv, TypeOK, Call, Goto, db, env, requests
<1>2. LanesAreKept'
  BY DEF IInv, LanesAreKept, Call, Goto, TypeOK
<1>3. ASSUME ~overlapped' PROVE Orderly'
  <2>1. Orderly /\ (r \in Desk => \A s \in Desk : Idle(s))
    BY <1>3 DEF IInv, Call
  <2>2. Alone'
    BY <2>1 DEF Orderly, Alone, Call, Goto, Idle, Desk, IInv, TypeOK
  <2>3. \A s \in Requests : Knows(s)'
    BY <2>1 DEF Orderly, Knows, Call, Goto, Tellings, IInv, TypeOK, db
  <2>4. Told'
    BY <2>1 DEF Orderly, Told, Call, Tellings, db
  <2>5. StampIsExplained'
    BY <2>1 DEF Orderly, StampIsExplained, Call, Tellings, db, Goto, Idle, IInv, TypeOK, Desk
  <2> QED
    BY <2>2, <2>3, <2>4, <2>5 DEF Orderly
<1> QED
  BY <1>1, <1>2, <1>3 DEF IInv

LEMMA ClickKeeps ==
    ASSUME IInv, NEW p \in Pages, ClickAt(p)
    PROVE  IInv'
<1>1. CASE Reload(p)
  <2>1. TypeOK'
    BY <1>1 DEF IInv, TypeOK, Reload, db, requests, env
  <2>2. UNCHANGED <<db, queued, requests, env, overlapped>>
    BY <1>1 DEF Reload
  <2> QED
    BY <2>1, <2>2 DEF IInv, LanesAreKept, Orderly, Alone, Knows, Told, StampIsExplained,
       Tellings, Idle, db, requests, env, Desk
<1>2. CASE \E d \in {"shortlisted", "rejected"} : Decide(p, d)
  BY <1>2, CallKeeps, RequestFacts DEF Decide, Patches, Decisions, Lanes
<1>3. CASE EditNote(p) \/ Resend(p) \/ Contact(p)
  BY <1>3, CallKeeps, RequestFacts DEF EditNote, Resend, Contact, Patches, NoPatch, Lanes
<1> QED
  BY <1>1, <1>2, <1>3 DEF ClickAt

-----------------------------------------------------------------------------
\* A request that ends, with the row, the queue and the counters as they were.
LEMMA RespondKeeps ==
    ASSUME IInv, NEW r \in Requests, Respond(r), page' \in [Pages -> Reviews],
           pc[r] \notin {"add", "unstamp"},
           UNCHANGED <<db, queued, overlapped, calls, crashes>>,
           faults' \in Nat, faults' >= faults
    PROVE  IInv'
<1>1. TypeOK'
  BY DEF IInv, TypeOK, Respond, Goto, db, NoPatch, Patches, NoReview, Reviews, Decisions
<1>2. LanesAreKept'
  BY DEF IInv, LanesAreKept, Respond, Goto, TypeOK
<1>3. ASSUME ~overlapped' PROVE Orderly'
  <2>1. Orderly
    BY <1>3 DEF IInv
  <2>2. Alone'
    BY <2>1 DEF Orderly, Alone, Respond, Goto, Idle, Desk, IInv, TypeOK
  <2>3. \A s \in Requests : Knows(s)'
    BY <2>1 DEF Orderly, Knows, Respond, Goto, Tellings, IInv, TypeOK, db
  <2>4. Told'
    BY <2>1 DEF Orderly, Told, Tellings, db
  <2>5. StampIsExplained'
    BY <2>1 DEF Orderly, StampIsExplained, Respond, Tellings, db, Goto, IInv, TypeOK, Desk
  <2> QED
    BY <2>2, <2>3, <2>4, <2>5 DEF Orderly
<1> QED
  BY <1>1, <1>2, <1>3 DEF IInv

\* A request that goes on to its next step, with everything but its own copy as it was.
LEMMA GotoKeeps ==
    ASSUME IInv, NEW r \in Requests, NEW l \in {"save", "stamp", "read", "log"},
           ~Idle(r), Goto(r, l),
           pc[r] \notin {"add", "unstamp"},
           copy' \in [Requests -> Reviews],
           \A s \in Requests : s # r => copy'[s] = copy[s],
           UNCHANGED <<db, page, queued, ask, env, overlapped>>,
           l \in {"save", "read"} => LaneOf(r) = "save",
           l = "stamp" => LaneOf(r) # "write",
           l = "log" => LaneOf(r) = "write",
           ~overlapped => Knows(r)'
    PROVE  IInv'
<1>1. TypeOK'
  BY DEF IInv, TypeOK, Goto, db, env
<1>2. LanesAreKept'
  BY DEF IInv, LanesAreKept, Goto, TypeOK
<1>3. ASSUME ~overlapped' PROVE Orderly'
  <2>1. Orderly /\ Knows(r)'
    BY <1>3 DEF IInv
  <2>2. Alone'
    BY <2>1 DEF Orderly, Alone, Goto, Idle, Desk, IInv, TypeOK
  <2>3. \A s \in Requests : s # r => Knows(s)'
    BY <2>1 DEF Orderly, Knows, Goto, Tellings, IInv, TypeOK, db, env
  <2>4. Told'
    BY <2>1 DEF Orderly, Told, Tellings, db
  <2>5. StampIsExplained'
    BY <2>1 DEF Orderly, StampIsExplained, Tellings, db, env, Goto, IInv, TypeOK, Desk
  <2> QED
    BY <2>1, <2>2, <2>3, <2>4, <2>5 DEF Orderly
<1> QED
  BY <1>1, <1>2, <1>3 DEF IInv

\* While requests on the review do not overlap, the others have nothing to know about it.
LEMMA OthersKnowNothing ==
    ASSUME IInv, ~overlapped, NEW r \in Desk, ~Idle(r), NEW s \in Requests, s # r
    PROVE  pc[s] \in {"idle", "find", "log"}
<1>1. CASE s \in Desk
  BY <1>1 DEF IInv, Orderly, Alone, Idle
<1>2. CASE s \notin Desk
  BY <1>2 DEF IInv, TypeOK, LanesAreKept, Desk
<1> QED
  BY <1>1, <1>2

-----------------------------------------------------------------------------
LEMMA SaveFindKeeps ==
    ASSUME IInv, NEW r \in Requests, SaveFind(r)
    PROVE  IInv'
<1>1. CASE Frozen(r) /\ Fails(r)
  BY <1>1, RespondKeeps DEF SaveFind, Fails, IInv, TypeOK, env
<1>2. CASE /\ ~Frozen(r)
           /\ copy' = [copy EXCEPT ![r] = review]
           /\ Goto(r, "save")
           /\ UNCHANGED <<page, ask>>
  <2>1. /\ copy' \in [Requests -> Reviews]
        /\ copy'[r] = review
        /\ pc'[r] = "save"
    BY <1>2 DEF IInv, TypeOK, Goto
  <2>2. Knows(r)'
    BY <1>2, <2>1 DEF Knows, Frozen, SaveFind, db
  <2> QED
    BY <1>2, <2>1, <2>2, GotoKeeps DEF SaveFind, IInv, TypeOK, Idle
<1> QED
  BY <1>1, <1>2 DEF SaveFind

LEMMA SaveWriteKeeps ==
    ASSUME IInv, NEW r \in Requests, SaveWrite(r)
    PROVE  IInv'
<1>1. CASE ~copy[r].exists /\ review.exists /\ Fails(r) /\ UNCHANGED review
  BY <1>1, RespondKeeps DEF SaveWrite, Fails, IInv, TypeOK, env, db
<1>2. CASE /\ review' = Patched(r)
           /\ copy' = [copy EXCEPT ![r] = Patched(r)]
           /\ Goto(r, IF Tells(r) THEN "stamp" ELSE "read")
           /\ UNCHANGED <<page, ask>>
  <2>1. /\ PageOf(r) \in Pages
        /\ LaneOf(r) = "save"
        /\ r \in Desk
        /\ ~Idle(r)
    BY RequestFacts DEF SaveWrite, IInv, LanesAreKept, Idle
  <2>2. Patched(r) \in Reviews
    BY <2>1 DEF IInv, TypeOK, Patched, Reviews, Patches
  <2>3. TypeOK'
    BY <1>2, <2>2 DEF SaveWrite, IInv, TypeOK, Goto, env
  <2>4. LanesAreKept'
    BY <1>2, <2>1 DEF IInv, LanesAreKept, Goto, TypeOK
  <2>5. ASSUME ~overlapped' PROVE Orderly'
    <3>1. ~overlapped /\ Orderly
      BY <2>5 DEF SaveWrite, IInv
    <3>2. /\ copy[r] = review
          /\ review.sentAt => ask[r] \in {"unsent", "rejected"}
      BY <3>1 DEF Orderly, Knows, SaveWrite
    <3>3. /\ review'.sentAt = review.sentAt
          /\ review.decision = "rejected" /\ review.sentAt => review'.decision = "rejected"
          /\ Tells(r) => review'.decision = "rejected" /\ ~review'.sentAt
      BY <1>2, <3>2 DEF Patched, Tells
    <3>4. /\ pc' = [pc EXCEPT ![r] = IF Tells(r) THEN "stamp" ELSE "read"]
          /\ copy'[r] = review'
          /\ UNCHANGED <<queued, env>>
      BY <1>2 DEF Goto, IInv, TypeOK, SaveWrite
    <3>5. Alone'
      BY <3>1, <3>4, <2>1 DEF Orderly, Alone, Idle, Desk, IInv, TypeOK
    <3>6. ASSUME NEW s \in Requests PROVE Knows(s)'
      <4>1. CASE s = r
        BY <4>1, <3>3, <3>4 DEF Knows, IInv, TypeOK
      <4>2. CASE s # r
        <5>1. pc[s] \in {"idle", "find", "log"}
          BY <4>2, <3>1, <2>1, OthersKnowNothing
        <5> QED
          BY <4>2, <5>1, <3>4 DEF Knows, IInv, TypeOK
      <4> QED
        BY <4>1, <4>2
    <3>7. Told'
      BY <3>1, <3>3, <3>4 DEF Orderly, Told, Tellings
    <3>8. StampIsExplained'
      BY <3>1, <3>3, <3>4, <2>1 DEF Orderly, StampIsExplained, Tellings, env, IInv, TypeOK,
         SaveWrite, Desk
    <3> QED
      BY <3>5, <3>6, <3>7, <3>8 DEF Orderly
  <2> QED
    BY <2>3, <2>4, <2>5 DEF IInv
<1> QED
  BY <1>1, <1>2 DEF SaveWrite

LEMMA SaveReadKeeps ==
    ASSUME IInv, NEW r \in Requests, SaveRead(r)
    PROVE  IInv'
<1>1. page' \in [Pages -> Reviews]
  BY RequestFacts DEF SaveRead, IInv, TypeOK
<1> QED
  BY <1>1, RespondKeeps DEF SaveRead, IInv, TypeOK, env

LEMMA SendFindKeeps ==
    ASSUME IInv, NEW r \in Requests, SendFind(r)
    PROVE  IInv'
<1>1. CASE Fails(r)
  BY <1>1, RespondKeeps DEF SendFind, Fails, IInv, TypeOK, env
<1>2. CASE /\ review.decision = "rejected" /\ ~review.sentAt
           /\ copy' = [copy EXCEPT ![r] = review]
           /\ Goto(r, "stamp")
           /\ UNCHANGED <<page, ask>>
  <2>1. /\ copy' \in [Requests -> Reviews]
        /\ copy'[r] = review
        /\ pc'[r] = "stamp"
    BY <1>2 DEF IInv, TypeOK, Goto
  <2>2. Knows(r)'
    BY <1>2, <2>1 DEF Knows, SendFind, db
  <2> QED
    BY <1>2, <2>1, <2>2, GotoKeeps DEF SendFind, IInv, TypeOK, Idle
<1> QED
  BY <1>1, <1>2 DEF SendFind

\* Stamping, as the only request on the review.
LEMMA StampKeeps ==
    ASSUME IInv, NEW r \in Requests, Stamp(r)
    PROVE  IInv'
<1>1. /\ r \in Desk
      /\ ~Idle(r)
      /\ LaneOf(r) # "write"
  BY RequestFacts DEF Stamp, IInv, LanesAreKept, Idle
<1>2. Stamped(r, TRUE) \in Reviews
  BY DEF IInv, TypeOK, Stamped, Reviews
<1>3. TypeOK'
  BY <1>2 DEF Stamp, IInv, TypeOK, Goto, env
<1>4. LanesAreKept'
  BY <1>1 DEF IInv, LanesAreKept, Goto, TypeOK, Stamp
<1>5. ASSUME ~overlapped' PROVE Orderly'
  <2>1. ~overlapped /\ Orderly
    BY <1>5 DEF Stamp, IInv
  <2>2. copy[r] = review /\ review.decision = "rejected" /\ Tellings = 0
    BY <2>1 DEF Orderly, Knows, Stamp, Told, Tellings, IInv, TypeOK, Kinds
  <2>3. /\ pc' = [pc EXCEPT ![r] = "add"]
        /\ copy'[r] = review'
        /\ review'.decision = "rejected" /\ review'.sentAt
        /\ UNCHANGED <<queued, env>>
    BY <2>2 DEF Goto, IInv, TypeOK, Stamp, Stamped
  <2>4. Alone'
    BY <2>1, <2>3, <1>1 DEF Orderly, Alone, Idle, Desk, IInv, TypeOK
  <2>5. ASSUME NEW s \in Requests PROVE Knows(s)'
    <3>1. CASE s = r
      BY <3>1, <2>2, <2>3 DEF Knows, IInv, TypeOK, Tellings
    <3>2. CASE s # r
      <4>1. pc[s] \in {"idle", "find", "log"}
        BY <3>2, <2>1, <1>1, OthersKnowNothing
      <4> QED
        BY <3>2, <4>1, <2>3 DEF Knows, IInv, TypeOK
    <3> QED
      BY <3>1, <3>2
  <2>6. Told'
    BY <2>2, <2>3 DEF Told, Tellings
  <2>7. StampIsExplained'
    BY <2>3, <1>1 DEF StampIsExplained, IInv, TypeOK, Desk
  <2> QED
    BY <2>4, <2>5, <2>6, <2>7 DEF Orderly
<1> QED
  BY <1>3, <1>4, <1>5 DEF IInv

\* A request on the review that ends, or goes on to the last read.
Leaves(r) ==
    \/ pc' = [pc EXCEPT ![r] = "idle"]
    \/ LaneOf(r) = "save" /\ pc' = [pc EXCEPT ![r] = "read"]

LEMMA GiveUpIsTyped ==
    ASSUME TypeOK, NEW r \in Requests, GiveUp(r)
    PROVE  /\ Leaves(r)
           /\ pc' \in [Requests -> {"idle", "find", "save", "stamp", "add", "unstamp",
                                    "read", "log"}]
           /\ ask' \in [Requests -> Patches]
           /\ copy' \in [Requests -> Reviews]
           /\ page' \in [Pages -> Reviews]
           /\ \A s \in Requests : s # r => copy'[s] = copy[s] /\ ask'[s] = ask[s]
<1>1. CASE LaneOf(r) = "save" /\ Goto(r, "read") /\ UNCHANGED <<page, ask, copy>>
  BY <1>1 DEF Goto, TypeOK, Leaves
<1>2. CASE Fails(r)
  BY <1>2, Blanks DEF Fails, Respond, Goto, TypeOK, Leaves
<1> QED
  BY <1>1, <1>2 DEF GiveUp

\* Such a step keeps the order, if it leaves no stamp unexplained.
LEMMA LeavingKeeps ==
    ASSUME IInv, NEW r \in Desk, ~Idle(r), TypeOK', Leaves(r),
           UNCHANGED <<overlapped, crashes>>, faults' >= faults,
           ~overlapped => Told' /\ (crashes = 0 /\ Tellings' = 0 /\ review'.sentAt => faults' >= 2)
    PROVE  IInv'
<1>1. r \in Requests
  BY DEF Desk
<1>2. LanesAreKept'
  BY <1>1 DEF IInv, LanesAreKept, Leaves, TypeOK
<1>3. ASSUME ~overlapped' PROVE Orderly'
  <2>1. ~overlapped /\ Orderly
    BY <1>3 DEF IInv
  <2>2. Alone'
    BY <2>1, <1>1 DEF Orderly, Alone, Idle, Desk, IInv, TypeOK, Leaves
  <2>3. ASSUME NEW s \in Requests PROVE Knows(s)'
    <3>1. CASE s = r
      BY <3>1 DEF Knows, IInv, TypeOK, Leaves
    <3>2. CASE s # r
      <4>1. pc[s] \in {"idle", "find", "log"}
        BY <3>2, <2>1, OthersKnowNothing
      <4>2. pc'[s] = pc[s]
        BY <3>2, <1>1 DEF IInv, TypeOK, Leaves
      <4> QED
        BY <4>1, <4>2 DEF Knows
    <3> QED
      BY <3>1, <3>2
  <2>4. Told' /\ StampIsExplained'
    BY <2>1 DEF StampIsExplained
  <2> QED
    BY <2>2, <2>3, <2>4 DEF Orderly
<1> QED
  BY <1>2, <1>3 DEF IInv

LEMMA AddRejectionKeeps ==
    ASSUME IInv, NEW r \in Requests, AddRejection(r)
    PROVE  IInv'
<1>1. r \in Desk /\ ~Idle(r) /\ PageOf(r) \in Pages
  BY RequestFacts DEF AddRejection, IInv, LanesAreKept, Idle
<1>2. /\ queued' \in [Kinds -> Nat]
      /\ Tellings' = Tellings + 1
  BY DEF AddRejection, Enqueue, IInv, TypeOK, Kinds, Tellings
<1>3. page' \in [Pages -> Reviews]
  <2>1. CASE UNCHANGED page
    BY <2>1 DEF IInv, TypeOK
  <2>2. CASE page' = [page EXCEPT ![PageOf(r)].sentAt = TRUE]
    <3>1. [page[PageOf(r)] EXCEPT !.sentAt = TRUE] \in Reviews
      BY <1>1 DEF IInv, TypeOK, Reviews
    <3> QED
      BY <2>2, <3>1, <1>1 DEF IInv, TypeOK
  <2> QED
    BY <2>1, <2>2 DEF AddRejection
<1>4. TypeOK' /\ Leaves(r)
  <2>1. CASE LaneOf(r) = "save" /\ Goto(r, "read") /\ UNCHANGED <<page, ask, copy>>
    BY <2>1, <1>2, <1>3 DEF AddRejection, Goto, IInv, TypeOK, Leaves, db, env
  <2>2. CASE Respond(r)
    BY <2>2, <1>2, <1>3, Blanks DEF AddRejection, Respond, Goto, IInv, TypeOK, Leaves, db, env
  <2> QED
    BY <2>1, <2>2 DEF AddRejection
<1>5. ~overlapped => Told' /\ Tellings' # 0
  <2> SUFFICES ASSUME ~overlapped PROVE Told' /\ Tellings' # 0
    OBVIOUS
  <2>1. Tellings = 0 /\ review.decision = "rejected" /\ review.sentAt
    BY DEF IInv, Orderly, Knows, AddRejection
  <2> QED
    BY <2>1, <1>2 DEF Told, AddRejection, db
<1>6. UNCHANGED <<overlapped, crashes, faults>> /\ faults' >= faults
  BY DEF AddRejection, env, IInv, TypeOK
<1> QED
  BY <1>1, <1>4, <1>5, <1>6, LeavingKeeps

LEMMA UnstampKeeps ==
    ASSUME IInv, NEW r \in Requests, Unstamp(r)
    PROVE  IInv'
<1>1. r \in Desk /\ ~Idle(r)
  BY RequestFacts DEF Unstamp, IInv, LanesAreKept, Idle
<1>2. Stamped(r, FALSE) \in Reviews
  BY DEF IInv, TypeOK, Stamped, Reviews
<1>3. TypeOK' /\ Leaves(r)
  BY <1>2, GiveUpIsTyped DEF Unstamp, IInv, TypeOK, env
<1>4. ~overlapped => Told' /\ ~review'.sentAt
  <2> SUFFICES ASSUME ~overlapped PROVE Told' /\ ~review'.sentAt
    OBVIOUS
  <2>1. Tellings = 0
    BY DEF IInv, Orderly, Knows, Unstamp
  <2> QED
    BY <2>1 DEF Told, Unstamp, Tellings, Stamped
<1>5. UNCHANGED <<overlapped, crashes, faults>> /\ faults' >= faults
  BY DEF Unstamp, env, IInv, TypeOK
<1> QED
  BY <1>1, <1>3, <1>4, <1>5, LeavingKeeps

LEMMA MessageKeeps ==
    ASSUME IInv, NEW r \in Requests, MessageAdd(r) \/ MessageLog(r)
    PROVE  IInv'
<1>1. CASE MessageAdd(r)
  <2>1. /\ queued' \in [Kinds -> Nat]
        /\ Tellings' = Tellings
        /\ LaneOf(r) = "write"
    BY <1>1 DEF MessageAdd, Enqueue, IInv, TypeOK, Kinds, Tellings
  <2>2. TypeOK'
    BY <1>1, <2>1 DEF MessageAdd, IInv, TypeOK, Goto, db, env
  <2>3. LanesAreKept'
    BY <1>1, <2>1 DEF MessageAdd, IInv, LanesAreKept, Goto, TypeOK
  <2>4. ASSUME Orderly PROVE Orderly'
    <3>1. Alone'
      BY <1>1, <2>1, <2>4 DEF Orderly, Alone, MessageAdd, Goto, Idle, Desk, IInv, TypeOK
    <3>2. \A s \in Requests : Knows(s)'
      BY <1>1, <2>1, <2>4 DEF Orderly, Knows, MessageAdd, Goto, IInv, TypeOK, db, env
    <3>3. Told'
      BY <1>1, <2>1, <2>4 DEF Orderly, Told, MessageAdd, db
    <3>4. StampIsExplained'
      BY <1>1, <2>1, <2>4 DEF Orderly, StampIsExplained, MessageAdd, db, env, Goto, IInv,
         TypeOK, Desk
    <3> QED
      BY <3>1, <3>2, <3>3, <3>4 DEF Orderly
  <2> QED
    BY <1>1, <2>2, <2>3, <2>4 DEF IInv, MessageAdd
<1>2. CASE MessageLog(r)
  <2>1. TypeOK'
    BY <1>2 DEF MessageLog, Fails, Respond, Goto, IInv, TypeOK, env, NoPatch, Patches,
       NoReview, Reviews, Decisions
  <2>2. LanesAreKept'
    BY <1>2 DEF MessageLog, Fails, Respond, IInv, LanesAreKept, Goto, TypeOK
  <2>3. ASSUME Orderly PROVE Orderly'
    <3>1. Alone'
      BY <1>2, <2>3 DEF Orderly, Alone, MessageLog, Fails, Respond, Goto, Idle, Desk, IInv,
         TypeOK
    <3>2. \A s \in Requests : Knows(s)'
      BY <1>2, <2>3 DEF Orderly, Knows, MessageLog, Fails, Respond, Goto, IInv, TypeOK, env,
         Tellings
    <3>3. Told'
      BY <1>2, <2>3 DEF Orderly, Told, MessageLog, Tellings
    <3>4. StampIsExplained'
      BY <1>2, <2>3 DEF Orderly, StampIsExplained, MessageLog, Fails, Respond, env, Goto,
         IInv, TypeOK, Desk, Tellings
    <3> QED
      BY <3>1, <3>2, <3>3, <3>4 DEF Orderly
  <2> QED
    BY <1>2, <2>1, <2>2, <2>3 DEF IInv, MessageLog
<1> QED
  BY <1>1, <1>2

-----------------------------------------------------------------------------
\* A refused call, at each of the places where it can be refused.
LEMMA RefuseKeeps ==
    ASSUME IInv, NEW r \in Requests, Refuse(r)
    PROVE  IInv'
<1>1. faults' = faults + 1 /\ faults \in Nat
  BY DEF Refuse, IInv, TypeOK
<1>2. CASE pc[r] = "add" /\ Goto(r, "unstamp") /\ UNCHANGED <<page, ask, copy>>
  <2>1. r \in Desk /\ LaneOf(r) # "write" /\ ~Idle(r)
    BY <1>2, RequestFacts DEF IInv, LanesAreKept, Idle
  <2>2. TypeOK'
    BY <1>1, <1>2 DEF Refuse, IInv, TypeOK, Goto, db
  <2>3. LanesAreKept'
    BY <1>2, <2>1 DEF IInv, LanesAreKept, Goto, TypeOK
  <2>4. ASSUME ~overlapped' PROVE Orderly'
    <3>1. Orderly /\ UNCHANGED <<db, queued, crashes>>
      BY <2>4 DEF Refuse, IInv
    <3>2. Alone'
      BY <1>2, <3>1 DEF Orderly, Alone, Goto, Idle, Desk, IInv, TypeOK
    <3>3. \A s \in Requests : Knows(s)'
      BY <1>1, <1>2, <3>1 DEF Orderly, Knows, Goto, Tellings, IInv, TypeOK, db
    <3>4. Told'
      BY <3>1 DEF Orderly, Told, Tellings, db
    <3>5. StampIsExplained'
      BY <1>1, <1>2, <3>1, <2>1 DEF Orderly, StampIsExplained, Tellings, db, Goto, IInv,
         TypeOK, Desk
    <3> QED
      BY <3>2, <3>3, <3>4, <3>5 DEF Orderly
  <2> QED
    BY <2>2, <2>3, <2>4 DEF IInv
<1>3. CASE pc[r] \in {"stamp", "unstamp"} /\ GiveUp(r)
  <2>1. r \in Desk /\ ~Idle(r)
    BY <1>3, RequestFacts DEF IInv, LanesAreKept, Idle
  <2>2. TypeOK' /\ Leaves(r)
    BY <1>1, <1>3, GiveUpIsTyped DEF Refuse, IInv, TypeOK, db
  <2>3. ~overlapped =>
            /\ Told'
            /\ crashes = 0 /\ Tellings' = 0 /\ review'.sentAt => faults' >= 2
    <3> SUFFICES ASSUME ~overlapped
                 PROVE  /\ Told'
                        /\ crashes = 0 /\ Tellings' = 0 /\ review'.sentAt => faults' >= 2
      OBVIOUS
    <3>1. Orderly /\ UNCHANGED <<db, queued>>
      BY DEF Refuse, IInv
    <3>2. review.sentAt => faults >= 1
      BY <1>3, <3>1 DEF Orderly, Knows
    <3> QED
      BY <3>1, <3>2, <1>1 DEF Orderly, Told, Tellings, db
  <2> QED
    BY <1>1, <2>1, <2>2, <2>3, LeavingKeeps DEF Refuse
<1>4. CASE pc[r] \in {"find", "save", "read", "log"} /\ Fails(r)
  BY <1>1, <1>4, RespondKeeps DEF Refuse, Fails, IInv, TypeOK, db
<1> QED
  BY <1>2, <1>3, <1>4 DEF Refuse

LEMMA CrashKeeps ==
    ASSUME IInv, Crash
    PROVE  IInv'
<1>1. TypeOK'
  BY DEF Crash, IInv, TypeOK, db, NoPatch, Patches, NoReview, Reviews, Decisions
<1>2. LanesAreKept'
  BY DEF Crash, LanesAreKept
<1>3. ASSUME ~overlapped' PROVE Orderly'
  <2>1. Orderly /\ crashes' # 0
    BY <1>3 DEF Crash, IInv, TypeOK
  <2>2. Alone' /\ \A s \in Requests : Knows(s)'
    BY DEF Crash, Alone, Knows, Idle, Desk
  <2>3. Told' /\ StampIsExplained'
    BY <2>1 DEF Orderly, Told, StampIsExplained, Crash, Tellings, db
  <2> QED
    BY <2>2, <2>3 DEF Orderly
<1> QED
  BY <1>1, <1>2, <1>3 DEF IInv

LEMMA NextKeeps == IInv /\ [Next]_vars => IInv'
<1> SUFFICES ASSUME IInv, [Next]_vars PROVE IInv'
  OBVIOUS
<1>1. CASE \E p \in Pages : ClickAt(p)
  BY <1>1, ClickKeeps
<1>2. ASSUME NEW r \in Requests, Step(r) PROVE IInv'
  BY <1>2, SaveFindKeeps, SaveWriteKeeps, SaveReadKeeps, SendFindKeeps, StampKeeps,
     AddRejectionKeeps, UnstampKeeps, MessageKeeps, RefuseKeeps DEF Step
<1>3. CASE Crash
  BY <1>3, CrashKeeps
<1>4. CASE UNCHANGED vars
  BY <1>4 DEF IInv, TypeOK, LanesAreKept, Orderly, Alone, Knows, Told, StampIsExplained,
     Tellings, Idle, Desk, vars, db, requests, env
<1> QED
  BY <1>1, <1>2, <1>3, <1>4 DEF Next

LEMMA InvariantHolds == Spec => []IInv
<1> QED
  BY InitSound, NextKeeps, PTL DEF Spec

-----------------------------------------------------------------------------
\* Every variable keeps its type: no handler acts on a row it has not read.
THEOREM TypeCorrect == Spec => []TypeOK
<1>1. IInv => TypeOK
  BY DEF IInv
<1> QED
  BY <1>1, InvariantHolds, PTL

\* However many pages there are and however stale, the candidate is told at most once
\* (reports.service.ts:1168, 1333), as long as requests on the review do not overlap.
THEOREM ToldAtMostOnce == Spec => []ToldOnce
<1>1. IInv => ToldOnce
  BY DEF IInv, ToldOnce, Orderly, Told
<1> QED
  BY <1>1, InvariantHolds, PTL

\* A rejection the candidate has been told about stays on record with its stamp
\* (reports.service.ts:1108), under the same condition.
THEOREM TellingsStayOnRecord == Spec => []ToldIsOnRecord
<1>1. IInv => ToldIsOnRecord
  BY DEF IInv, ToldIsOnRecord, Orderly, Told
<1> QED
  BY <1>1, InvariantHolds, PTL

\* A rejection that was not queued can be sent by hand (reports.service.ts:1389), unless
\* the server died or the undo was refused too.
THEOREM RetryStaysOpen == Spec => []RetryIsOpen
<1>1. IInv => RetryIsOpen
  <2> SUFFICES ASSUME IInv, ~overlapped, Quiet, crashes = 0, faults <= 1, Tellings = 0
               PROVE  ~review.sentAt
    BY DEF RetryIsOpen
  <2>1. StampIsExplained
    BY DEF IInv, Orderly
  <2>2. ~\E r \in Desk : pc[r] \in {"add", "unstamp"}
    BY DEF Quiet, Idle, Desk
  <2> QED
    BY <2>1, <2>2 DEF StampIsExplained, IInv, TypeOK
<1> QED
  BY <1>1, InvariantHolds, PTL

============================================================================
