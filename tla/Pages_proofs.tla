---------------------------- MODULE Pages_proofs ----------------------------
(***************************************************************************)
(* Theorems of MailDelivery, for any emails, slots, attempts and restarts; *)
(* of FaceMonitor, for any number of sustained frames; and of              *)
(* ProctoringPage, for any number of sections and of calls in flight.      *)
(***************************************************************************)
EXTENDS ProctoringPage, FaceMonitor, MailDelivery, FiniteSetTheorems, WellFoundedInduction, TLAPS

(***************************************************************************)
(* Emails                                                                  *)
(***************************************************************************)
States == {"absent", "waiting", "active", "done", "failed"}
Places == {"idle", "token", "refresh", "post", "sent", "failed"}
Held0 == {NoToken} \cup Tokens
Deliveries == [at: Places, forced: BOOLEAN, token: Held0, refused: Held0]

Jobs == [state: States, made: Nat, stalls: Nat]

MailTyped ==
    /\ mail \in [Mails -> Jobs]
    /\ delivery \in [Mails -> Deliveries]
    /\ accessToken \in Held0
    /\ refreshing \in BOOLEAN /\ tokenRequests \in Nat
    /\ copies \in [Mails -> Nat]

\* A job somebody has in hand is active, its copies are what its state and place say, and a
\* retry has another token than the one that was refused.
EmailFits(m) ==
    /\ ~At(m, "idle") => mail[m].state = "active"
    /\ copies[m] = IF mail[m].state = "done" \/ At(m, "sent") THEN 1 ELSE 0
    /\ At(m, "refresh") => refreshing
    /\ At(m, "post") /\ delivery[m].forced => delivery[m].token # delivery[m].refused

OneRequest == tokenRequests = IF refreshing THEN 1 ELSE 0

MailIInv == MailTyped /\ OneRequest /\ \A m \in Mails : EmailFits(m)

LEMMA NoDeliveryTyped == NoDelivery \in Deliveries /\ NoDelivery.at = "idle" /\ NoDelivery.forced = FALSE
BY DEF NoDelivery, Deliveries, Places, Held0

\* What is in use at once leaves a token to be issued.
LEMMA TokenToSpare == Tokens \ InUse # {}
<1> DEFINE n == Cardinality(Mails)
           P == {delivery[m].token : m \in Mails}
           Q == {delivery[m].refused : m \in Mails}
<1>1. IsFiniteSet(Mails) /\ n \in Nat /\ Tokens = 1 .. (2 * n + 2)
  BY MailAssumption, FS_CardinalityType
<1>2. IsFiniteSet(P) /\ Cardinality(P) <= n
  <2> DEFINE f == [m \in Mails |-> delivery[m].token]
  <2>1. f \in Surjection(Mails, P)
    BY DEF Surjection
  <2> HIDE DEF f, P
  <2> QED
    BY <1>1, <2>1, FS_Surjection
<1>3. IsFiniteSet(Q) /\ Cardinality(Q) <= n
  <2> DEFINE f == [m \in Mails |-> delivery[m].refused]
  <2>1. f \in Surjection(Mails, Q)
    BY DEF Surjection
  <2> HIDE DEF f, Q
  <2> QED
    BY <1>1, <2>1, FS_Surjection
<1>4. InUse = (P \cup Q) \cup {accessToken}
  BY DEF InUse
<1>5. Tokens \in SUBSET Nat /\ Cardinality(Tokens) = 2 * n + 2 /\ IsFiniteSet(Tokens)
  <2> DEFINE k == 2 * n + 2
  <2>1. 1 \in Int /\ k \in Int /\ Tokens = 1 .. k /\ ~(1 > k) /\ k - 1 + 1 = k
    BY <1>1
  <2> HIDE DEF n, k
  <2>2. IsFiniteSet(1 .. k) /\ Cardinality(1 .. k) = k - 1 + 1
    BY <2>1, FS_Interval
  <2> QED
    BY <2>1, <2>2 DEF k
<1> HIDE DEF n, P, Q
<1>6. Cardinality(P) \in Nat /\ Cardinality(Q) \in Nat
  BY <1>2, <1>3, FS_CardinalityType
<1>7. IsFiniteSet(P \cup Q) /\ Cardinality(P \cup Q) <= 2 * n
  <2>1. /\ IsFiniteSet(P \cup Q)
        /\ Cardinality(P \cup Q) = Cardinality(P) + Cardinality(Q) - Cardinality(P \cap Q)
    BY <1>2, <1>3, FS_Union
  <2>2. IsFiniteSet(P \cap Q)
    BY <1>2, FS_Intersection
  <2>3. Cardinality(P \cap Q) \in Nat
    BY <2>2, FS_CardinalityType
  <2> QED
    BY <1>1, <1>2, <1>3, <1>6, <2>1, <2>3
<1>8. IsFiniteSet(InUse) /\ Cardinality(InUse) <= 2 * n + 1
  <2>1. Cardinality(P \cup Q) \in Nat
    BY <1>7, FS_CardinalityType
  <2> QED
    <3> DEFINE U == P \cup Q
    <3>1. IsFiniteSet(U) /\ Cardinality(U) \in Nat /\ Cardinality(U) <= 2 * n
      BY <1>7, <2>1
    <3>2. InUse = U \cup {accessToken}
      BY <1>4
    <3> HIDE DEF U
    <3>3. IsFiniteSet(InUse) /\ Cardinality(InUse) <= Cardinality(U) + 1
      BY <3>1, <3>2, FS_AddElement
    <3>4. Cardinality(InUse) \in Nat
      BY <3>3, FS_CardinalityType
    <3> QED
      BY <1>1, <3>1, <3>3, <3>4
<1>9. CASE Tokens \subseteq InUse
  <2>1. Cardinality(Tokens) <= Cardinality(InUse)
    BY <1>8, <1>9, FS_Subset
  <2>2. Cardinality(InUse) \in Nat
    BY <1>8, FS_CardinalityType
  <2> QED
    BY <1>1, <1>5, <1>8, <2>1, <2>2
<1> QED
  BY <1>9

LEMMA ATokenIsIssued == NextToken \in Tokens \ InUse
<1> DEFINE S == Tokens \ InUse
           R == OpToRel(<, Nat)
<1>1. S \subseteq Nat /\ S # {}
  BY TokenToSpare, MailAssumption, FS_CardinalityType
<1>2. IsWellFoundedOn(R, Nat)
  BY NatLessThanWellFounded
<1> HIDE DEF S
<1>3. \E x \in S : \A y \in S : ~(<<y, x>> \in R)
  <2> HIDE DEF R
  <2> QED
    BY <1>1, <1>2, WFMin
<1>4. \A x, y \in Nat : y < x => <<y, x>> \in R
  BY DEF OpToRel
<1> HIDE DEF R
<1>7. \E x \in S : \A y \in S : x <= y
  <2>1. PICK x \in S : \A y \in S : ~(<<y, x>> \in R)
    BY <1>3
  <2>2. ASSUME NEW y \in S PROVE x <= y
    <3>1. x \in Nat /\ y \in Nat /\ ~(y < x)
      BY <1>1, <1>4, <2>1
    <3> QED
      BY <3>1
  <2> QED
    BY <2>2
<1>5. NextToken = CHOOSE t \in S : \A u \in S : t <= u
  BY DEF S, NextToken
<1>6. NextToken \in S
  BY <1>5, <1>7
<1> QED
  BY <1>6 DEF S

LEMMA MailInitSound == MailInit => MailIInv
<1> SUFFICES ASSUME MailInit PROVE MailIInv
  OBVIOUS
<1>1. MailTyped
  BY NoDeliveryTyped DEF MailInit, MailTyped, Jobs, States, Held0
<1>2. OneRequest
  BY DEF MailInit, OneRequest
<1>3. \A m \in Mails : EmailFits(m)
  BY NoDeliveryTyped DEF MailInit, EmailFits, At
<1> QED
  BY <1>1, <1>2, <1>3 DEF MailIInv

LEMMA MailUse ==
  ASSUME MailIInv, NEW m \in Mails
  PROVE  /\ mail \in [Mails -> Jobs] /\ delivery \in [Mails -> Deliveries]
         /\ copies \in [Mails -> Nat] /\ copies[m] \in Nat
         /\ mail[m].state \in States /\ mail[m].made \in Nat /\ mail[m].stalls \in Nat
         /\ mail[m] = [state |-> mail[m].state, made |-> mail[m].made, stalls |-> mail[m].stalls]
         /\ delivery[m].at \in Places /\ delivery[m].forced \in BOOLEAN
         /\ delivery[m].token \in Held0 /\ delivery[m].refused \in Held0
BY DEF MailIInv, MailTyped, Jobs, Deliveries

\* A step of one email, which may set the shared promise.
LEMMA EmailMoves ==
  ASSUME MailIInv, NEW m \in Mails, NEW j \in Jobs, NEW d \in Deliveries, NEW c \in Nat,
         mail' = [mail EXCEPT ![m] = j], delivery' = [delivery EXCEPT ![m] = d],
         copies' = [copies EXCEPT ![m] = c],
         UNCHANGED accessToken, refreshing' \in BOOLEAN, tokenRequests' \in Nat,
         refreshing => refreshing', OneRequest',
         d.at # "idle" => j.state = "active",
         c = IF j.state = "done" \/ d.at = "sent" THEN 1 ELSE 0,
         d.at = "refresh" => refreshing',
         d.at = "post" /\ d.forced => d.token # d.refused
  PROVE  MailIInv'
<1>1. MailTyped'
  <2>1. mail' \in [Mails -> Jobs] /\ delivery' \in [Mails -> Deliveries] /\ copies' \in [Mails -> Nat]
    BY DEF MailIInv, MailTyped
  <2>2. accessToken' \in Held0
    BY DEF MailIInv, MailTyped
  <2> QED
    BY <2>1, <2>2 DEF MailTyped
<1>2. mail'[m] = j /\ delivery'[m] = d /\ copies'[m] = c
  BY DEF MailIInv, MailTyped
<1>3. EmailFits(m)'
  BY <1>2 DEF EmailFits, At
<1>4. ASSUME NEW n \in Mails, n # m PROVE EmailFits(n)'
  <2>1. mail'[n] = mail[n] /\ delivery'[n] = delivery[n] /\ copies'[n] = copies[n]
    BY <1>4 DEF MailIInv, MailTyped
  <2>2. EmailFits(n)
    BY DEF MailIInv
  <2> QED
    BY <2>1, <2>2 DEF EmailFits, At
<1>5. \A n \in Mails : EmailFits(n)'
  BY <1>3, <1>4
<1> QED
  BY <1>1, <1>5 DEF MailIInv

\* The same with the promise and the copies as they are.
LEMMA EmailMovesAlone ==
  ASSUME MailIInv, NEW m \in Mails, NEW j \in Jobs, NEW d \in Deliveries,
         mail' = [mail EXCEPT ![m] = j], delivery' = [delivery EXCEPT ![m] = d],
         UNCHANGED <<copies, accessToken, refreshing, tokenRequests>>,
         d.at # "idle" => j.state = "active",
         (j.state = "done" \/ d.at = "sent") <=> (mail[m].state = "done" \/ At(m, "sent")),
         d.at # "refresh",
         d.at = "post" /\ d.forced => d.token # d.refused
  PROVE  MailIInv'
<1> DEFINE c == copies[m]
<1>1. c \in Nat /\ copies' = [copies EXCEPT ![m] = c]
  BY MailUse
<1>2. EmailFits(m) /\ OneRequest
  BY DEF MailIInv
<1>3. c = IF j.state = "done" \/ d.at = "sent" THEN 1 ELSE 0
  BY <1>2 DEF EmailFits
<1>4. refreshing' \in BOOLEAN /\ tokenRequests' \in Nat
  BY DEF MailIInv, MailTyped
<1>5. OneRequest'
  BY <1>2 DEF OneRequest
<1> HIDE DEF c
<1> QED
  BY <1>1, <1>3, <1>4, <1>5, EmailMoves

(***************************************************************************)
(* The queue                                                               *)
(***************************************************************************)
LEMMA EnqueueMailSound ==
  ASSUME MailIInv, NEW m \in Mails, EnqueueMail(m) PROVE MailIInv'
<1>1. PICK j \in Jobs : j = [mail[m] EXCEPT !.state = "waiting"]
  BY MailUse DEF Jobs, States
<1>2. PICK d \in Deliveries : d = delivery[m]
  BY DEF MailIInv, MailTyped
<1>3. /\ mail' = [mail EXCEPT ![m] = j] /\ delivery' = [delivery EXCEPT ![m] = d]
      /\ UNCHANGED <<copies, accessToken, refreshing, tokenRequests>>
      /\ mail[m].state = "absent"
  BY <1>1, <1>2, MailUse DEF EnqueueMail, JobBecomes, cache
<1>4. j.state = "waiting" /\ d.at = "idle"
  BY <1>1, <1>2, <1>3, MailUse DEF MailIInv, EmailFits, At
<1> QED
  BY <1>1, <1>2, <1>3, <1>4, EmailMovesAlone DEF At

LEMMA TakeJobSound ==
  ASSUME MailIInv, NEW m \in Mails, TakeJob(m) PROVE MailIInv'
<1>1. PICK j \in Jobs : j = [mail[m] EXCEPT !.state = "active"]
  BY MailUse DEF Jobs, States
<1>2. PICK d \in Deliveries : d = [NoDelivery EXCEPT !.at = "token"]
  BY NoDeliveryTyped DEF Deliveries, Places
<1>3. /\ mail' = [mail EXCEPT ![m] = j] /\ delivery' = [delivery EXCEPT ![m] = d]
      /\ UNCHANGED <<copies, accessToken, refreshing, tokenRequests>>
      /\ mail[m].state = "waiting"
  BY <1>1, <1>2, MailUse DEF TakeJob, JobBecomes, cache
<1>4. j.state = "active" /\ d.at = "token" /\ ~At(m, "sent")
  BY <1>1, <1>2, <1>3, MailUse DEF MailIInv, EmailFits, At, NoDelivery
<1> QED
  BY <1>3, <1>4, EmailMovesAlone

LEMMA CompletesSound ==
  ASSUME MailIInv, NEW m \in Mails, Completes(m) PROVE MailIInv'
<1>1. PICK j \in Jobs : j = [mail[m] EXCEPT !.state = "done"]
  BY MailUse DEF Jobs, States
<1>2. PICK d \in Deliveries : d = NoDelivery
  BY NoDeliveryTyped
<1>3. /\ mail' = [mail EXCEPT ![m] = j] /\ delivery' = [delivery EXCEPT ![m] = d]
      /\ UNCHANGED <<copies, accessToken, refreshing, tokenRequests>>
      /\ At(m, "sent")
  BY <1>1, <1>2, MailUse DEF Completes, JobBecomes, cache
<1>4. j.state = "done" /\ d.at = "idle"
  BY <1>1, <1>2, MailUse, NoDeliveryTyped
<1> QED
  BY <1>3, <1>4, EmailMovesAlone

LEMMA JobParts ==
  ASSUME MailIInv, NEW m \in Mails
  PROVE  \E a \in States, b, c \in Nat : mail[m] = [state |-> a, made |-> b, stalls |-> c]
BY DEF MailIInv, MailTyped, Jobs

LEMMA ThrowsSound ==
  ASSUME MailIInv, NEW m \in Mails, Throws(m) PROVE MailIInv'
<1>1. PICK a \in States, b, c \in Nat : mail[m] = [state |-> a, made |-> b, stalls |-> c]
  BY JobParts
<1>2. PICK q \in {"waiting", "failed"} : q = IF mail[m].made + 1 < MailAttempts THEN "waiting" ELSE "failed"
  OBVIOUS
<1>3. PICK x \in Nat : x = b + 1
  OBVIOUS
<1>4. PICK j \in Jobs : j = [state |-> q, made |-> x, stalls |-> c]
  <2>1. q \in States
    BY DEF States
  <2> QED
    BY <2>1 DEF Jobs
<1>5. PICK d \in Deliveries : d = NoDelivery
  BY NoDeliveryTyped
<1>6. mail' = [mail EXCEPT ![m] = j]
  <2>1. mail' = [mail EXCEPT ![m].made = x, ![m].state = q]
    BY <1>1, <1>2, <1>3 DEF Throws
  <2>2. mail' = [mail EXCEPT ![m] = [[mail[m] EXCEPT !.made = x] EXCEPT !.state = q]]
    BY <2>1, MailUse
  <2>3. [[mail[m] EXCEPT !.made = x] EXCEPT !.state = q] = j
    <3>1. [[state |-> a, made |-> b, stalls |-> c] EXCEPT !.made = x] = [state |-> a, made |-> x, stalls |-> c]
      OBVIOUS
    <3>2. [[state |-> a, made |-> x, stalls |-> c] EXCEPT !.state = q] = j
      BY <1>4
    <3> QED
      BY <1>1, <3>1, <3>2, Zenon
  <2> QED
    BY <2>2, <2>3
<1>7. /\ delivery' = [delivery EXCEPT ![m] = d]
      /\ UNCHANGED <<copies, accessToken, refreshing, tokenRequests>>
      /\ At(m, "failed")
  BY <1>5, MailUse DEF Throws, cache
<1>8. j.state = q /\ d.at = "idle" /\ mail[m].state = "active" /\ ~At(m, "sent")
  BY <1>4, <1>5, <1>7, NoDeliveryTyped DEF MailIInv, EmailFits, At
<1> QED
  BY <1>6, <1>7, <1>8, EmailMovesAlone

LEMMA StallsSound ==
  ASSUME MailIInv, NEW m \in Mails, Stalls(m) PROVE MailIInv'
<1>1. PICK a \in States, b, c \in Nat : mail[m] = [state |-> a, made |-> b, stalls |-> c]
  BY JobParts
<1>2. PICK q \in {"waiting", "failed"} : q = IF mail[m].stalls < MaxRestarts THEN "waiting" ELSE "failed"
  OBVIOUS
<1>3. PICK x \in Nat : x = c + 1
  OBVIOUS
<1>4. PICK j \in Jobs : j = [state |-> q, made |-> b, stalls |-> x]
  <2>1. q \in States
    BY DEF States
  <2> QED
    BY <2>1 DEF Jobs
<1>5. PICK d \in Deliveries : d = delivery[m]
  BY DEF MailIInv, MailTyped
<1>6. mail' = [mail EXCEPT ![m] = j]
  <2>1. mail' = [mail EXCEPT ![m].stalls = x, ![m].state = q]
    BY <1>1, <1>2, <1>3 DEF Stalls
  <2>2. mail' = [mail EXCEPT ![m] = [[mail[m] EXCEPT !.stalls = x] EXCEPT !.state = q]]
    BY <2>1, MailUse
  <2>3. [[mail[m] EXCEPT !.stalls = x] EXCEPT !.state = q] = j
    <3>1. [[state |-> a, made |-> b, stalls |-> c] EXCEPT !.stalls = x] = [state |-> a, made |-> b, stalls |-> x]
      OBVIOUS
    <3>2. [[state |-> a, made |-> b, stalls |-> x] EXCEPT !.state = q] = j
      BY <1>4
    <3> QED
      BY <1>1, <3>1, <3>2, Zenon
  <2> QED
    BY <2>2, <2>3
<1>7. /\ delivery' = [delivery EXCEPT ![m] = d]
      /\ UNCHANGED <<copies, accessToken, refreshing, tokenRequests>>
      /\ At(m, "idle") /\ mail[m].state = "active"
  BY <1>5, MailUse DEF Stalls, cache
<1>8. j.state = q /\ d.at = "idle"
  BY <1>4, <1>5, <1>7 DEF At
<1> QED
  BY <1>6, <1>7, <1>8, EmailMovesAlone DEF At

LEMMA ProcessDiesSound == MailIInv /\ ProcessDies => MailIInv'
<1> SUFFICES ASSUME MailIInv, ProcessDies PROVE MailIInv'
  OBVIOUS
<1>1. /\ copies' = [m \in Mails |-> copies[m] - (IF At(m, "sent") THEN 1 ELSE 0)]
      /\ delivery' = [m \in Mails |-> NoDelivery]
      /\ accessToken' = NoToken /\ refreshing' = FALSE /\ tokenRequests' = 0 /\ UNCHANGED mail
  BY DEF ProcessDies
<1>2. ASSUME NEW m \in Mails
      PROVE  /\ copies'[m] = IF mail[m].state = "done" THEN 1 ELSE 0
             /\ copies'[m] \in Nat
  <2>1. copies'[m] = copies[m] - (IF At(m, "sent") THEN 1 ELSE 0)
    BY <1>1
  <2>2. EmailFits(m)
    BY DEF MailIInv
  <2>3. At(m, "sent") => mail[m].state = "active"
    BY <2>2 DEF EmailFits, At
  <2> QED
    BY <2>1, <2>2, <2>3 DEF EmailFits
<1>3. copies' \in [Mails -> Nat]
  BY <1>1, <1>2
<1>4. MailTyped'
  <2>1. delivery' \in [Mails -> Deliveries]
    BY <1>1, NoDeliveryTyped
  <2>2. refreshing' \in BOOLEAN /\ tokenRequests' \in Nat /\ accessToken' \in Held0
    BY <1>1 DEF Held0
  <2> QED
    BY <1>1, <1>3, <2>1, <2>2 DEF MailIInv, MailTyped
<1>5. OneRequest'
  BY <1>1 DEF OneRequest
<1>6. ASSUME NEW m \in Mails PROVE EmailFits(m)'
  <2>1. delivery'[m].at = "idle" /\ mail'[m] = mail[m]
    BY <1>1, NoDeliveryTyped
  <2> QED
    BY <1>2, <2>1 DEF EmailFits, At
<1> QED
  BY <1>4, <1>5, <1>6 DEF MailIInv

(***************************************************************************)
(* The transport                                                           *)
(***************************************************************************)
\* A step of one delivery, whose job goes on.
LEMMA DeliveryMoves ==
  ASSUME MailIInv, NEW m \in Mails, ~At(m, "idle"), NEW d \in Deliveries, NEW c \in Nat,
         UNCHANGED mail, delivery' = [delivery EXCEPT ![m] = d],
         copies' = [copies EXCEPT ![m] = c],
         UNCHANGED accessToken, refreshing' \in BOOLEAN, tokenRequests' \in Nat,
         refreshing => refreshing', OneRequest',
         c = IF d.at = "sent" THEN 1 ELSE 0,
         d.at = "refresh" => refreshing',
         d.at = "post" /\ d.forced => d.token # d.refused
  PROVE  MailIInv'
<1>1. PICK j \in Jobs : j = mail[m]
  BY DEF MailIInv, MailTyped
<1>2. mail' = [mail EXCEPT ![m] = j]
  BY <1>1, MailUse
<1>3. j.state = "active"
  BY <1>1 DEF MailIInv, EmailFits
<1> QED
  BY <1>2, <1>3, EmailMoves

LEMMA DeliveryMovesAlone ==
  ASSUME MailIInv, NEW m \in Mails, ~At(m, "idle"), ~At(m, "sent"), NEW d \in Deliveries,
         UNCHANGED mail, delivery' = [delivery EXCEPT ![m] = d],
         UNCHANGED <<copies, accessToken, refreshing, tokenRequests>>,
         d.at \notin {"sent", "refresh"},
         d.at = "post" /\ d.forced => d.token # d.refused
  PROVE  MailIInv'
<1>1. EmailFits(m) /\ OneRequest /\ mail[m].state = "active"
  BY DEF MailIInv, EmailFits
<1>2. copies[m] = 0
  BY <1>1 DEF EmailFits
<1>3. copies' = [copies EXCEPT ![m] = 0]
  BY <1>2, MailUse
<1>4. refreshing' \in BOOLEAN /\ tokenRequests' \in Nat
  BY DEF MailIInv, MailTyped
<1>5. OneRequest'
  BY <1>1 DEF OneRequest
<1> QED
  BY <1>3, <1>4, <1>5, DeliveryMoves

LEMMA UsesCacheSound ==
  ASSUME MailIInv, NEW m \in Mails, UsesCache(m) PROVE MailIInv'
<1>1. PICK d : d = [at |-> "post", forced |-> delivery[m].forced,
                    token |-> accessToken, refused |-> delivery[m].refused]
  OBVIOUS
<1>2. d \in Deliveries
  BY <1>1, MailUse DEF MailIInv, MailTyped, Deliveries, Places
<1>3. delivery' = [delivery EXCEPT ![m] = d]
  <2>1. delivery[m] = [at |-> delivery[m].at, forced |-> delivery[m].forced,
                       token |-> delivery[m].token, refused |-> delivery[m].refused]
    BY DEF MailIInv, MailTyped, Deliveries
  <2>2. delivery' = [delivery EXCEPT ![m] = [[delivery[m] EXCEPT !.at = "post"] EXCEPT !.token = accessToken]]
    BY MailUse DEF UsesCache
  <2>3. [[delivery[m] EXCEPT !.at = "post"] EXCEPT !.token = accessToken] = d
    <3> DEFINE f == delivery[m].forced
               r == delivery[m].refused
               a == delivery[m].at
               u == delivery[m].token
    <3>1. delivery[m] = [at |-> a, forced |-> f, token |-> u, refused |-> r]
      BY <2>1
    <3>2. d = [at |-> "post", forced |-> f, token |-> accessToken, refused |-> r]
      BY <1>1
    <3> HIDE DEF a, f, r, u
    <3>3. [[at |-> a, forced |-> f, token |-> u, refused |-> r] EXCEPT !.at = "post"]
            = [at |-> "post", forced |-> f, token |-> u, refused |-> r]
      OBVIOUS
    <3>4. [[at |-> "post", forced |-> f, token |-> u, refused |-> r] EXCEPT !.token = accessToken]
            = [at |-> "post", forced |-> f, token |-> accessToken, refused |-> r]
      OBVIOUS
    <3> QED
      BY <3>1, <3>2, <3>3, <3>4, Zenon
  <2> QED
    BY <2>2, <2>3
<1>4. At(m, "token") /\ ~delivery[m].forced
  BY DEF UsesCache, MayUseCache
<1>5. UNCHANGED mail /\ UNCHANGED <<copies, accessToken, refreshing, tokenRequests>>
  BY DEF UsesCache, cache
<1>6. d.at = "post" /\ d.forced = delivery[m].forced
  BY <1>1
<1> QED
  BY <1>2, <1>3, <1>4, <1>5, <1>6, DeliveryMovesAlone DEF At

LEMMA AwaitsRefreshSound ==
  ASSUME MailIInv, NEW m \in Mails, AwaitsRefresh(m) PROVE MailIInv'
<1>1. PICK d \in Deliveries : d = [delivery[m] EXCEPT !.at = "refresh"]
  BY MailUse DEF Deliveries, Places
<1>2. delivery' = [delivery EXCEPT ![m] = d]
  BY <1>1, MailUse DEF AwaitsRefresh, DeliveryGoes
<1>3. d.at = "refresh"
  BY <1>1, MailUse DEF Deliveries
<1>4. /\ At(m, "token") /\ refreshing' = TRUE /\ tokenRequests' = tokenRequests + NewRequests
      /\ UNCHANGED <<mail, copies, accessToken>>
  BY DEF AwaitsRefresh
<1>5. OneRequest /\ EmailFits(m) /\ tokenRequests \in Nat /\ refreshing \in BOOLEAN
  BY DEF MailIInv, MailTyped
<1>6. OneRequest' /\ tokenRequests' \in Nat
  <2>1. tokenRequests' = 1
    BY <1>4, <1>5 DEF OneRequest, NewRequests
  <2> QED
    BY <1>4, <2>1 DEF OneRequest
<1>10. PICK c \in Nat : c = 0
  OBVIOUS
<1>7. copies[m] = c /\ copies' = [copies EXCEPT ![m] = c]
  BY <1>4, <1>5, <1>10, MailUse DEF EmailFits, At
<1>8. ~At(m, "idle")
  BY <1>4 DEF At
<1>9. /\ UNCHANGED mail /\ UNCHANGED accessToken /\ refreshing' \in BOOLEAN /\ (refreshing => refreshing')
      /\ c = (IF d.at = "sent" THEN 1 ELSE 0) /\ (d.at = "refresh" => refreshing')
      /\ (d.at = "post" /\ d.forced => d.token # d.refused)
  BY <1>3, <1>4, <1>10
<1> QED
  BY <1>2, <1>6, <1>7, <1>8, <1>9, DeliveryMoves

LEMMA PostAcceptedSound ==
  ASSUME MailIInv, NEW m \in Mails, PostAccepted(m) PROVE MailIInv'
<1>1. PICK d \in Deliveries : d = [NoDelivery EXCEPT !.at = "sent"]
  BY NoDeliveryTyped DEF Deliveries, Places
<1>2. delivery' = [delivery EXCEPT ![m] = d]
  BY <1>1, MailUse DEF PostAccepted, DeliveryGoes
<1>3. d.at = "sent"
  BY <1>1 DEF NoDelivery
<1>4. /\ At(m, "post") /\ copies' = [copies EXCEPT ![m] = copies[m] + 1]
      /\ UNCHANGED <<mail, accessToken, refreshing, tokenRequests>>
  BY DEF PostAccepted, cache
<1>5. OneRequest /\ EmailFits(m) /\ tokenRequests' \in Nat /\ refreshing' \in BOOLEAN
  BY <1>4 DEF MailIInv, MailTyped
<1>6. OneRequest'
  BY <1>4, <1>5 DEF OneRequest
<1>7. copies[m] = 0
  BY <1>4, <1>5 DEF EmailFits, At
<1>8. copies' = [copies EXCEPT ![m] = 1]
  BY <1>4, <1>7
<1>9. ~At(m, "idle")
  BY <1>4 DEF At
<1> QED
  BY <1>2, <1>3, <1>4, <1>5, <1>6, <1>8, <1>9, DeliveryMoves

LEMMA PostFailsSound ==
  ASSUME MailIInv, NEW m \in Mails, PostFails(m) PROVE MailIInv'
<1>1. PICK d \in Deliveries : d = [NoDelivery EXCEPT !.at = "failed"]
  BY NoDeliveryTyped DEF Deliveries, Places
<1>2. delivery' = [delivery EXCEPT ![m] = d]
  BY <1>1, MailUse DEF PostFails, DeliveryGoes, VerdictOfFailure
<1>3. d.at = "failed"
  BY <1>1 DEF NoDelivery
<1>4. At(m, "post") /\ UNCHANGED mail /\ UNCHANGED <<copies, accessToken, refreshing, tokenRequests>>
  BY DEF PostFails, cache
<1> QED
  BY <1>2, <1>3, <1>4, DeliveryMovesAlone DEF At

LEMMA PostRefusedSound ==
  ASSUME MailIInv, NEW m \in Mails, PostRefused(m) PROVE MailIInv'
<1>1. PICK d : d = IF delivery[m].forced THEN [NoDelivery EXCEPT !.at = "failed"]
                   ELSE [at |-> "token", forced |-> TRUE, token |-> NoToken, refused |-> delivery[m].token]
  OBVIOUS
<1>2. d \in Deliveries /\ d.at \in {"failed", "token"}
  <2>1. CASE delivery[m].forced
    <3>1. d = [NoDelivery EXCEPT !.at = "failed"]
      BY <1>1, <2>1
    <3> QED
      BY <3>1, NoDeliveryTyped DEF Deliveries, Places, NoDelivery
  <2>2. CASE ~delivery[m].forced
    <3>1. d = [at |-> "token", forced |-> TRUE, token |-> NoToken, refused |-> delivery[m].token]
      BY <1>1, <2>2
    <3> QED
      BY <3>1, MailUse DEF Deliveries, Places, Held0
  <2> QED
    BY <2>1, <2>2
<1>3. delivery' = [delivery EXCEPT ![m] = d]
  BY <1>1, MailUse DEF PostRefused
<1>4. At(m, "post") /\ UNCHANGED mail /\ UNCHANGED <<copies, accessToken, refreshing, tokenRequests>>
  BY DEF PostRefused, cache
<1> QED
  BY <1>2, <1>3, <1>4, DeliveryMovesAlone DEF At

\* What the answer to a refresh does: those who waited go on or fail, the rest stay.
LEMMA WaitersMove ==
  ASSUME MailIInv, tokenRequests > 0, delivery' \in [Mails -> Deliveries],
         \A m \in Mails : IF m \in Waiters THEN delivery'[m].at \in {"post", "failed"}
                                          ELSE delivery'[m] = delivery[m],
         \A m \in Waiters : delivery'[m].at = "post" => delivery'[m].token # delivery'[m].refused,
         accessToken' \in Held0, refreshing' = FALSE, tokenRequests' = tokenRequests - 1,
         UNCHANGED <<mail, copies>>
  PROVE  MailIInv'
<1>1. OneRequest /\ refreshing \in BOOLEAN /\ tokenRequests \in Nat
  BY DEF MailIInv, MailTyped
<1>2. tokenRequests' = 0 /\ refreshing' = FALSE
  BY <1>1 DEF OneRequest
<1>3. OneRequest' /\ tokenRequests' \in Nat
  <2>1. (IF refreshing' THEN 1 ELSE 0) = 0
    BY <1>2
  <2>2. tokenRequests' = (IF refreshing' THEN 1 ELSE 0)
    BY <1>2, <2>1
  <2>3. OneRequest'
    BY <2>2 DEF OneRequest
  <2> QED
    BY <1>2, <2>3
<1>4. MailTyped'
  BY <1>3 DEF MailIInv, MailTyped
<1>5. ASSUME NEW m \in Mails PROVE EmailFits(m)'
  <2>1. EmailFits(m) /\ mail'[m] = mail[m] /\ copies'[m] = copies[m]
    BY DEF MailIInv
  <2>2. CASE m \in Waiters
    <3>1. /\ At(m, "refresh") /\ delivery'[m].at \in {"post", "failed"}
          /\ (delivery'[m].at = "post" => delivery'[m].token # delivery'[m].refused)
      BY <2>2 DEF Waiters
    <3>2. mail[m].state = "active" /\ copies[m] = 0
      BY <2>1, <3>1 DEF EmailFits, At
    <3> QED
      BY <2>1, <3>1, <3>2 DEF EmailFits, At
  <2>3. CASE m \notin Waiters
    <3>1. delivery'[m] = delivery[m] /\ ~At(m, "refresh")
      BY <2>3 DEF Waiters
    <3> QED
      BY <2>1, <3>1 DEF EmailFits, At
  <2> QED
    BY <2>2, <2>3
<1> QED
  BY <1>3, <1>4, <1>5 DEF MailIInv

LEMMA RefreshOkSound == MailIInv /\ RefreshOk => MailIInv'
<1> SUFFICES ASSUME MailIInv, RefreshOk PROVE MailIInv'
  OBVIOUS
<1>1. NextToken \in Tokens /\ NextToken \notin InUse
  BY ATokenIsIssued
<1>2. /\ delivery' = [m \in Mails |->
            IF m \in Waiters THEN [delivery[m] EXCEPT !.at = "post", !.token = NextToken] ELSE delivery[m]]
      /\ accessToken' = NextToken /\ refreshing' = FALSE /\ tokenRequests' = tokenRequests - 1
      /\ UNCHANGED <<mail, copies>> /\ tokenRequests > 0
  BY DEF RefreshOk
<1>3. ASSUME NEW m \in Waiters
      PROVE  /\ delivery'[m] \in Deliveries /\ delivery'[m].at = "post"
             /\ delivery'[m].token # delivery'[m].refused
  <2>1. m \in Mails
    BY DEF Waiters
  <2>2. delivery'[m] = [delivery[m] EXCEPT !.at = "post", !.token = NextToken]
    BY <1>2, <2>1
  <2>3. PICK a \in Places, f \in BOOLEAN, u \in Held0, r \in Held0 :
            delivery[m] = [at |-> a, forced |-> f, token |-> u, refused |-> r]
    BY <2>1 DEF MailIInv, MailTyped, Deliveries
  <2>4. delivery[m].refused # NextToken
    BY <1>1, <2>1 DEF InUse
  <2>5. delivery'[m] = [at |-> "post", forced |-> f, token |-> NextToken, refused |-> r]
    <3>1. [[at |-> a, forced |-> f, token |-> u, refused |-> r] EXCEPT !.at = "post"]
            = [at |-> "post", forced |-> f, token |-> u, refused |-> r]
      OBVIOUS
    <3>2. [[at |-> "post", forced |-> f, token |-> u, refused |-> r] EXCEPT !.token = NextToken]
            = [at |-> "post", forced |-> f, token |-> NextToken, refused |-> r]
      OBVIOUS
    <3>3. delivery'[m] = [[delivery[m] EXCEPT !.at = "post"] EXCEPT !.token = NextToken]
      BY <2>2
    <3> QED
      BY <2>3, <3>1, <3>2, <3>3, Zenon
  <2>6. delivery'[m] \in Deliveries
    BY <1>1, <2>5 DEF Deliveries, Places, Held0
  <2>7. delivery'[m].token = NextToken /\ delivery'[m].refused = r /\ r = delivery[m].refused
    BY <2>3, <2>5
  <2> QED
    BY <2>4, <2>5, <2>6, <2>7
<1>4. delivery' \in [Mails -> Deliveries]
  BY <1>2, <1>3, MailUse
<1>5. \A m \in Mails : IF m \in Waiters THEN delivery'[m].at \in {"post", "failed"}
                                         ELSE delivery'[m] = delivery[m]
  BY <1>2, <1>3
<1>6. \A m \in Waiters : delivery'[m].at = "post" => delivery'[m].token # delivery'[m].refused
  BY <1>3
<1>7. accessToken' \in Held0
  BY <1>1, <1>2 DEF Held0
<1> QED
  BY <1>2, <1>4, <1>5, <1>6, <1>7, WaitersMove

LEMMA RefreshFailsSound == MailIInv /\ RefreshFails => MailIInv'
<1> SUFFICES ASSUME MailIInv, RefreshFails PROVE MailIInv'
  OBVIOUS
<1>1. PICK d \in Deliveries : d = [NoDelivery EXCEPT !.at = "failed"]
  BY NoDeliveryTyped DEF Deliveries, Places
<1>2. d.at = "failed"
  BY <1>1 DEF NoDelivery
<1>3. /\ delivery' = [m \in Mails |-> IF m \in Waiters THEN d ELSE delivery[m]]
      /\ UNCHANGED accessToken /\ refreshing' = FALSE /\ tokenRequests' = tokenRequests - 1
      /\ UNCHANGED <<mail, copies>> /\ tokenRequests > 0
  BY <1>1 DEF RefreshFails, HandleAfterFailure
<1>4. delivery' \in [Mails -> Deliveries]
  BY <1>3, MailUse
<1>5. \A m \in Mails : IF m \in Waiters THEN delivery'[m].at \in {"post", "failed"}
                                         ELSE delivery'[m] = delivery[m]
  BY <1>2, <1>3
<1>6. \A m \in Waiters : delivery'[m].at = "post" => delivery'[m].token # delivery'[m].refused
  BY <1>2, <1>3 DEF Waiters
<1>7. accessToken' \in Held0
  BY <1>3 DEF MailIInv, MailTyped
<1> QED
  BY <1>3, <1>4, <1>5, <1>6, <1>7, WaitersMove

LEMMA TheRestKeepsMail ==
  ASSUME MailIInv, Expires \/ Invalidated \/ UNCHANGED mailVars
  PROVE  MailIInv'
<1>1. UNCHANGED <<mail, delivery, refreshing, tokenRequests, copies>> /\ accessToken' \in Held0
  <2>1. accessToken \in Held0
    BY DEF MailIInv, MailTyped
  <2> QED
    BY <2>1 DEF Expires, Invalidated, mailVars, Held0
<1>2. MailTyped' /\ OneRequest'
  BY <1>1 DEF MailIInv, MailTyped, OneRequest
<1>3. ASSUME NEW m \in Mails PROVE EmailFits(m)'
  BY <1>1 DEF MailIInv, EmailFits, At
<1> QED
  BY <1>2, <1>3 DEF MailIInv

LEMMA MailStep == MailIInv /\ [MailNext]_mailVars => MailIInv'
<1> SUFFICES ASSUME MailIInv, [MailNext]_mailVars PROVE MailIInv'
  OBVIOUS
<1>1. ASSUME NEW m \in Mails, EnqueueMail(m) \/ Works(m) PROVE MailIInv'
  BY <1>1, EnqueueMailSound, TakeJobSound, CompletesSound, ThrowsSound, StallsSound,
     UsesCacheSound, AwaitsRefreshSound DEF Works
<1>2. ASSUME NEW m \in Mails, Answered(m) PROVE MailIInv'
  BY <1>2, PostAcceptedSound, PostFailsSound, PostRefusedSound DEF Answered
<1> QED
  BY <1>1, <1>2, RefreshOkSound, RefreshFailsSound, ProcessDiesSound, TheRestKeepsMail DEF MailNext

(***************************************************************************)
(* Every job somebody delivers is active, an email's copies are what its   *)
(* job and its delivery say, the requests for a token are those of the     *)
(* shared promise, and a retry never holds the token that was refused      *)
(* (zoho-api.transport.ts), whatever fails and whenever the process dies.  *)
(***************************************************************************)
THEOREM MailInvariant == MailSpec => []MailIInv
<1>1. MailInit => MailIInv
  BY MailInitSound
<1>2. MailIInv /\ [MailNext]_mailVars => MailIInv'
  BY MailStep
<1> QED
  BY <1>1, <1>2, PTL DEF MailSpec

(***************************************************************************)
(* An email is recorded as sent exactly when the provider took one copy of *)
(* it and said so; concurrent sends share one request for a token.         *)
(***************************************************************************)
THEOREM MailIsAlwaysAccounted == MailSpec => []MailIsAccounted
<1>1. MailIInv => MailIsAccounted
  <2> SUFFICES ASSUME MailIInv PROVE MailIsAccounted
    OBVIOUS
  <2>1. CopiesAreKnown
    BY DEF MailIInv, EmailFits, CopiesAreKnown
  <2>2. TokensAreShared
    <3>1. Waiters # {} => refreshing
      BY DEF MailIInv, EmailFits, Waiters
    <3> QED
      BY <3>1 DEF MailIInv, EmailFits, OneRequest, TokensAreShared
  <2> QED
    BY <2>1, <2>2 DEF MailIsAccounted
<1> QED
  BY <1>1, MailInvariant, PTL

(***************************************************************************)
(* The face monitor                                                        *)
(***************************************************************************)
\* The verdict k reads ago.
Ago(k) == verdicts[Len(verdicts) - k]
Alike(a, b) == Framed(a) = Framed(b)

\* The counters say how many of the last verdicts agree with the last of all: in being
\* framed or not, and in the verdict itself.
CountersFit ==
    /\ Len(verdicts) <= Sustained /\ runs <= Len(verdicts) /\ codeRuns <= runs
    /\ pending = IF verdicts = <<>> THEN "none" ELSE Ago(0)

RunIsAlike == \A k \in 0 .. runs - 1 : Alike(Ago(k), pending)

RunIsLong ==
    \A j \in 1 .. Len(verdicts) : (\A k \in 0 .. j - 1 : Alike(Ago(k), pending)) => runs >= j

CodeRunIsLong ==
    \A j \in 1 .. Len(verdicts) : (\A k \in 0 .. j - 1 : Ago(k) = pending) => codeRuns >= j

\* What has held long enough is what was reported last.
ReportedFits ==
    /\ runs = Sustained => reported # "none" /\ Alike(reported, pending)
    /\ codeRuns = Sustained /\ pending \in {"absent", "multiple"} => reported = pending

SignalFits ==
    /\ signal.code # "none" => /\ Len(signal.verdicts) = Sustained
                               /\ \A i \in 1 .. Sustained : ~Framed(signal.verdicts[i])
    /\ notice = "face" => signal.code # "none" /\ (running => ~Framed(reported))

FaceIInv ==
    FaceTypeOK /\ CountersFit /\ RunIsAlike /\ RunIsLong /\ CodeRunIsLong /\ ReportedFits /\ SignalFits

LEMMA LongerGrows ==
  ASSUME NEW m \in 0 .. Sustained, NEW n \in 0 .. Sustained
  PROVE  /\ Longer(n) \in 1 .. Sustained /\ n <= Longer(n) /\ Longer(n) <= n + 1
         /\ (m <= n => Longer(m) <= Longer(n))
         /\ (n < Sustained => Longer(n) = n + 1)
BY FaceAssumption DEF Longer

\* The window after a verdict: the verdict, and those before it one place further back.
LEMMA VerdictAdded ==
  ASSUME NEW S, NEW s \in Seq(S), NEW x \in S, NEW n \in Nat \ {0}, Len(s) <= n,
         NEW w, w = IF Len(s) < n THEN Append(s, x) ELSE Append(Tail(s), x)
  PROVE  /\ w \in Seq(S) /\ Len(w) = IF Len(s) < n THEN Len(s) + 1 ELSE n
         /\ w[Len(w)] = x
         /\ \A k \in 1 .. Len(w) - 1 : w[Len(w) - k] = s[Len(s) - (k - 1)]
<1>1. Len(s) \in Nat
  OBVIOUS
<1>2. CASE Len(s) < n
  <2>1. w = Append(s, x) /\ Len(w) = Len(s) + 1
    BY <1>2
  <2>2. \A k \in 1 .. Len(w) - 1 : w[Len(w) - k] = s[Len(s) - (k - 1)]
    BY <1>1, <2>1
  <2>3. w[Len(w)] = x /\ w \in Seq(S)
    BY <1>1, <2>1
  <2> QED
    BY <1>2, <2>1, <2>2, <2>3
<1>3. CASE Len(s) = n
  <2>1. w = Append(Tail(s), x)
    BY <1>1, <1>3
  <2>2. s # <<>>
    BY <1>1, <1>3
  <2>3. PICK u : u = Tail(s)
    OBVIOUS
  <2>4. u \in Seq(S) /\ Len(u) = Len(s) - 1 /\ \A i \in 1 .. Len(s) - 1 : u[i] = s[i + 1]
    BY <1>1, <2>2, <2>3
  <2>5. w = Append(u, x)
    BY <2>1, <2>3
  <2>6. w \in Seq(S) /\ Len(w) = Len(u) + 1 /\ w[Len(u) + 1] = x /\ \A i \in 1 .. Len(u) : w[i] = u[i]
    BY <2>4, <2>5
  <2>7. w \in Seq(S) /\ Len(w) = Len(s) /\ w[Len(w)] = x
    BY <1>1, <2>4, <2>6
  <2>8. ASSUME NEW k \in 1 .. Len(w) - 1 PROVE w[Len(w) - k] = s[Len(s) - (k - 1)]
    <3>1. PICK i : i = Len(s) - k
      OBVIOUS
    <3>4. Len(w) = Len(s) /\ Len(u) = Len(s) - 1 /\ k \in 1 .. Len(s) - 1
      BY <2>4, <2>7
    <3>2. i \in 1 .. Len(u) /\ i \in 1 .. Len(s) - 1 /\ Len(w) - k = i /\ i + 1 = Len(s) - (k - 1)
      BY <1>1, <3>1, <3>4
    <3>3. w[i] = u[i] /\ u[i] = s[i + 1]
      BY <2>4, <2>6, <3>2
    <3> QED
      BY <3>2, <3>3
  <2> QED
    BY <1>1, <1>3, <2>7, <2>8
<1> QED
  BY <1>1, <1>2, <1>3

LEMMA FaceInitSound == FaceInit => FaceIInv
<1> SUFFICES ASSUME FaceInit PROVE FaceIInv
  OBVIOUS
<1>1. /\ running = FALSE /\ reported = "none" /\ pending = "none" /\ runs = 0 /\ codeRuns = 0
      /\ detecting = FALSE /\ notice = "none" /\ verdicts = <<>>
      /\ signal = [code |-> "none", verdicts |-> <<>>]
  BY DEF FaceInit
<1>2. <<>> \in Seq(Codes) /\ Len(<<>>) = 0 /\ Sustained \in Nat \ {0}
  BY FaceAssumption
<1>3. FaceTypeOK
  <2>1. signal \in [code: Codes \cup {"none"}, verdicts: Seq(Codes)]
    BY <1>1, <1>2
  <2>2. running \in BOOLEAN /\ detecting \in BOOLEAN
    BY <1>1
  <2>3. /\ runs \in 0 .. Sustained /\ codeRuns \in 0 .. Sustained
        /\ reported \in Codes \cup {"none"} /\ pending \in Codes \cup {"none"}
        /\ notice \in Sources \cup {"none"} /\ verdicts \in Seq(Codes)
    BY <1>1, <1>2
  <2> QED
    BY <2>1, <2>2, <2>3 DEF FaceTypeOK
<1>4. CountersFit /\ RunIsAlike /\ RunIsLong /\ CodeRunIsLong
  BY <1>1, <1>2 DEF CountersFit, RunIsAlike, RunIsLong, CodeRunIsLong
<1>5. ReportedFits /\ SignalFits
  BY <1>1, <1>2 DEF ReportedFits, SignalFits
<1> QED
  BY <1>3, <1>4, <1>5 DEF FaceIInv

LEMMA FaceUse ==
  ASSUME FaceIInv
  PROVE  /\ verdicts \in Seq(Codes) /\ Len(verdicts) \in Nat /\ Len(verdicts) <= Sustained
         /\ runs \in 0 .. Sustained /\ codeRuns \in 0 .. Sustained /\ Sustained \in Nat \ {0}
         /\ runs \in Nat /\ codeRuns \in Nat /\ runs <= Len(verdicts) /\ codeRuns <= runs
         /\ "none" \notin Codes
BY FaceAssumption DEF FaceIInv, FaceTypeOK, CountersFit, Codes

\* A verdict, in the code's terms and in those of the window.
LEMMA ReadUse ==
  ASSUME FaceIInv, NEW code \in Codes, Read(code)
  PROVE  /\ runs' = Runs(code) /\ codeRuns' = CodeRuns(code) /\ pending' = code
         /\ runs' \in 1 .. Sustained /\ codeRuns' \in 1 .. Sustained
         /\ codeRuns' <= runs'
         /\ verdicts' \in Seq(Codes) /\ Len(verdicts') = Longer(Len(verdicts))
         /\ verdicts'[Len(verdicts')] = code
         /\ \A k \in 1 .. Len(verdicts') - 1 :
                k - 1 \in 0 .. Len(verdicts) - 1 /\ verdicts'[Len(verdicts') - k] = Ago(k - 1)
<1>1. /\ runs' = Runs(code) /\ codeRuns' = CodeRuns(code) /\ pending' = code
      /\ verdicts' = IF Len(verdicts) < Sustained THEN Append(verdicts, code)
                     ELSE Append(Tail(verdicts), code)
  BY DEF Read
<1>2. 0 \in 0 .. Sustained /\ Len(verdicts) \in 0 .. Sustained
  BY FaceUse
<1>3. Runs(code) \in {Longer(runs), Longer(0)} /\ CodeRuns(code) \in {Longer(codeRuns), Longer(0)}
  BY DEF Runs, CodeRuns
<1>4. runs' \in 1 .. Sustained /\ codeRuns' \in 1 .. Sustained
  BY <1>1, <1>2, <1>3, FaceUse, LongerGrows
<1>5. codeRuns' <= runs'
  <2>1. Longer(codeRuns) <= Longer(runs) /\ Longer(0) <= Longer(runs)
    BY <1>2, FaceUse, LongerGrows
  <2>2. CASE code = pending
    <3>1. Runs(code) = Longer(runs) /\ CodeRuns(code) = Longer(codeRuns)
      BY <2>2, FaceUse DEF Runs, CodeRuns
    <3> QED
      BY <1>1, <2>1, <3>1
  <2>3. CASE code # pending
    <3>1. CodeRuns(code) = Longer(0)
      BY <2>3 DEF CodeRuns
    <3>2. Longer(0) <= Runs(code)
      BY <1>2, <1>3, <2>1, LongerGrows
    <3> QED
      BY <1>1, <3>1, <3>2
  <2> QED
    BY <2>2, <2>3
<1>6. PICK w : w = verdicts'
  OBVIOUS
<1>7. /\ w \in Seq(Codes) /\ Len(w) = Longer(Len(verdicts)) /\ w[Len(w)] = code
      /\ \A k \in 1 .. Len(w) - 1 : w[Len(w) - k] = verdicts[Len(verdicts) - (k - 1)]
  <2> DEFINE s == verdicts
             n == Sustained
  <2>1. s \in Seq(Codes) /\ Len(s) <= n /\ n \in Nat \ {0}
    BY FaceUse
  <2>2. w = IF Len(s) < n THEN Append(s, code) ELSE Append(Tail(s), code)
    BY <1>1, <1>6
  <2> HIDE DEF s, n
  <2>3. /\ w \in Seq(Codes) /\ Len(w) = IF Len(s) < n THEN Len(s) + 1 ELSE n
        /\ w[Len(w)] = code
        /\ \A k \in 1 .. Len(w) - 1 : w[Len(w) - k] = s[Len(s) - (k - 1)]
    BY <2>1, <2>2, VerdictAdded
  <2>4. Len(w) = Longer(Len(verdicts))
    <3>1. Len(s) \in Nat
      BY <2>1
    <3> QED
      BY <2>1, <2>3, <3>1 DEF Longer, s, n
  <2> QED
    BY <2>3, <2>4 DEF s
<1>8. ASSUME NEW k \in 1 .. Len(w) - 1 PROVE k - 1 \in 0 .. Len(verdicts) - 1
  <2>1. Len(w) <= Len(verdicts) + 1 /\ Len(w) \in Nat
    BY <1>2, <1>7, LongerGrows
  <2> QED
    BY <1>2, <2>1
<1> QED
  BY <1>1, <1>4, <1>5, <1>6, <1>7, <1>8 DEF Ago

LEMMA ReadCounts ==
  ASSUME FaceIInv, NEW code \in Codes, Read(code)
  PROVE  CountersFit' /\ RunIsAlike' /\ RunIsLong' /\ CodeRunIsLong'
<1> DEFINE n == Len(verdicts')
<1>1. /\ n \in Nat /\ n \in 1 .. Sustained /\ n <= Len(verdicts) + 1 /\ runs' <= n
      /\ Sustained \in Nat
  <2>1. n = Longer(Len(verdicts)) /\ Len(verdicts) \in 0 .. Sustained /\ 0 \in 0 .. Sustained
        /\ runs \in 0 .. Sustained /\ runs <= Len(verdicts)
    BY ReadUse, FaceUse
  <2>2. runs' \in {Longer(runs), Longer(0)}
    BY ReadUse DEF Runs
  <2>3. n \in 1 .. Sustained /\ n <= Len(verdicts) + 1
    BY <2>1, LongerGrows
  <2>4. Longer(runs) <= n /\ Longer(0) <= n
    BY <2>1, LongerGrows
  <2> QED
    BY <2>2, <2>3, <2>4, FaceUse
<1>2. \A k \in 1 .. n - 1 : k - 1 \in 0 .. Len(verdicts) - 1 /\ Ago(k)' = Ago(k - 1)
  BY ReadUse DEF Ago
<1>3. Ago(0)' = code /\ pending' = code
  <2>1. Len(verdicts') - 0 = Len(verdicts')
    BY <1>1
  <2> QED
    BY <2>1, ReadUse DEF Ago
<1>4. /\ runs' = Runs(code) /\ runs' \in 1 .. Sustained /\ codeRuns' = CodeRuns(code)
      /\ codeRuns' \in 1 .. Sustained /\ codeRuns' <= runs'
  BY ReadUse
<1>5. CountersFit'
  <2>1. verdicts' # <<>>
    BY <1>1
  <2> QED
    BY <1>1, <1>3, <1>4, <2>1 DEF CountersFit
<1>6. ASSUME NEW k \in 1 .. n - 1 PROVE k \in Nat /\ k - 1 \in Nat /\ Len(verdicts) > 0
  BY <1>1, <1>2, FaceUse
<1>7. verdicts # <<>> => pending = Ago(0)
  BY DEF FaceIInv, CountersFit
<1>8. RunIsAlike'
  <2> SUFFICES ASSUME NEW k \in 0 .. runs' - 1 PROVE Alike(Ago(k)', code)
    BY <1>3 DEF RunIsAlike, Alike
  <2>1. CASE k = 0
    BY <1>3, <2>1 DEF Alike
  <2>2. CASE k # 0
    <3>1. k \in 1 .. n - 1 /\ runs' >= 2
      BY <1>1, <1>4, <2>2
    <3>2. 0 \in 0 .. Sustained /\ runs \in 0 .. Sustained /\ Longer(0) <= 1
      BY <1>1, FaceUse, LongerGrows
    <3>3. runs' # Longer(0)
      BY <3>1, <3>2, LongerGrows
    <3>4. Framed(pending) = Framed(code) /\ runs' = Longer(runs)
      BY <1>4, <3>3 DEF Runs
    <3>5. k - 1 \in 0 .. runs - 1
      BY <1>4, <3>1, <3>2, <3>4, LongerGrows
    <3>6. Alike(Ago(k - 1), pending)
      BY <3>5 DEF FaceIInv, RunIsAlike
    <3> QED
      BY <1>2, <3>1, <3>4, <3>6 DEF Alike
  <2> QED
    BY <2>1, <2>2
<1>9. RunIsLong'
  <2> SUFFICES ASSUME NEW j \in 1 .. n, \A k \in 0 .. j - 1 : Alike(Ago(k)', code)
               PROVE  runs' >= j
    BY <1>3 DEF RunIsLong, Alike
  <2>1. CASE j = 1
    BY <1>4, <2>1
  <2>2. CASE j # 1
    <3>1. 1 \in 1 .. n - 1 /\ 1 \in 0 .. j - 1
      BY <1>1, <2>2
    <3>2. verdicts # <<>>
      BY <1>6, <3>1
    <3>3. Alike(pending, code) /\ pending # "none"
      <4>1. Ago(1)' = Ago(0)
        BY <1>2, <3>1
      <4>2. pending \in Codes
        <5>1. Len(verdicts) > 0 /\ verdicts \in Seq(Codes)
          BY <3>1, <1>6, FaceUse
        <5>3. Len(verdicts) - 0 \in 1 .. Len(verdicts)
          BY <5>1
        <5>2. Ago(0) \in Codes
          BY <5>1, <5>3 DEF Ago
        <5> QED
          BY <1>7, <3>2, <5>2
      <4> QED
        BY <1>7, <3>1, <3>2, <4>1, <4>2, FaceUse
    <3>4. runs' = Longer(runs)
      BY <1>4, <3>3 DEF Runs, Alike
    <3>5. j - 1 \in 1 .. Len(verdicts)
      BY <1>1, <2>2, FaceUse
    <3>6. ASSUME NEW k \in 0 .. (j - 1) - 1 PROVE Alike(Ago(k), pending)
      <4>1. k + 1 \in 1 .. n - 1 /\ k + 1 \in 0 .. j - 1 /\ (k + 1) - 1 = k
        BY <1>1
      <4>2. Ago(k + 1)' = Ago(k)
        BY <1>2, <4>1
      <4>3. Alike(Ago(k + 1)', code)
        BY <4>1
      <4> QED
        BY <3>3, <4>2, <4>3 DEF Alike
    <3>7. runs >= j - 1
      BY <3>5, <3>6 DEF FaceIInv, RunIsLong
    <3>8. runs \in 0 .. Sustained /\ j \in Nat /\ j <= Sustained /\ Sustained \in Nat
      BY <1>1, FaceUse
    <3>9. Longer(runs) = (IF runs < Sustained THEN runs + 1 ELSE runs)
      BY DEF Longer
    <3> QED
      BY <3>4, <3>7, <3>8, <3>9
  <2> QED
    BY <2>1, <2>2
<1>10. CodeRunIsLong'
  <2> SUFFICES ASSUME NEW j \in 1 .. n, \A k \in 0 .. j - 1 : Ago(k)' = code
               PROVE  codeRuns' >= j
    BY <1>3 DEF CodeRunIsLong
  <2>1. CASE j = 1
    BY <1>4, <2>1
  <2>2. CASE j # 1
    <3>1. 1 \in 1 .. n - 1 /\ 1 \in 0 .. j - 1
      BY <1>1, <2>2
    <3>2. verdicts # <<>>
      BY <1>6, <3>1
    <3>3. pending = code
      <4>1. Ago(1)' = Ago(0)
        BY <1>2, <3>1
      <4> QED
        BY <1>7, <3>1, <3>2, <4>1
    <3>4. codeRuns' = Longer(codeRuns)
      BY <1>4, <3>3 DEF CodeRuns
    <3>5. j - 1 \in 1 .. Len(verdicts)
      BY <1>1, <2>2, FaceUse
    <3>6. ASSUME NEW k \in 0 .. (j - 1) - 1 PROVE Ago(k) = pending
      <4>1. k + 1 \in 1 .. n - 1 /\ k + 1 \in 0 .. j - 1 /\ (k + 1) - 1 = k
        BY <1>1
      <4>2. Ago(k + 1)' = Ago(k)
        BY <1>2, <4>1
      <4>3. Ago(k + 1)' = code
        BY <4>1
      <4> QED
        BY <3>3, <4>2, <4>3
    <3>7. codeRuns >= j - 1
      BY <3>5, <3>6 DEF FaceIInv, CodeRunIsLong
    <3>8. codeRuns \in 0 .. Sustained /\ j \in Nat /\ j <= Sustained /\ Sustained \in Nat
      BY <1>1, FaceUse
    <3>9. Longer(codeRuns) = (IF codeRuns < Sustained THEN codeRuns + 1 ELSE codeRuns)
      BY DEF Longer
    <3> QED
      BY <3>4, <3>7, <3>8, <3>9
  <2> QED
    BY <2>1, <2>2
<1> QED
  BY <1>5, <1>8, <1>9, <1>10

LEMMA ReadReports ==
  ASSUME FaceIInv, NEW code \in Codes, Read(code)
  PROVE  FaceTypeOK' /\ ReportedFits' /\ SignalFits'
<1>1. /\ runs' = Runs(code) /\ codeRuns' = CodeRuns(code) /\ pending' = code
      /\ runs' \in 1 .. Sustained /\ codeRuns' \in 1 .. Sustained /\ codeRuns' <= runs'
      /\ verdicts' \in Seq(Codes) /\ Sustained \in Nat \ {0} /\ code # "none"
  BY ReadUse, FaceUse
<1>2. detecting' = FALSE /\ UNCHANGED running
  BY DEF Read
<1>3. FaceTypeOK /\ SignalFits
  BY DEF FaceIInv
<1>4. CountersFit' /\ RunIsAlike'
  BY ReadCounts
<1>5. CASE Becomes(code)
  <2>1. /\ reported' = code /\ notice' = NoticeAfter(code) /\ Runs(code) >= Sustained
        /\ signal' = IF Framed(code) THEN signal ELSE [code |-> code, verdicts |-> verdicts']
    BY <1>5 DEF Read, Becomes
  <2>2. signal' \in [code: Codes \cup {"none"}, verdicts: Seq(Codes)]
    <3>1. signal \in [code: Codes \cup {"none"}, verdicts: Seq(Codes)]
      BY <1>3 DEF FaceTypeOK
    <3> QED
      BY <1>1, <2>1, <3>1
  <2>3. notice' \in Sources \cup {"none"}
    BY <1>3, <2>1 DEF FaceTypeOK, NoticeAfter, Sources
  <2>4. FaceTypeOK'
    <3>1. running' \in BOOLEAN /\ detecting' \in BOOLEAN
      BY <1>2, <1>3 DEF FaceTypeOK
    <3>2. reported' \in Codes \cup {"none"} /\ pending' \in Codes \cup {"none"}
          /\ runs' \in 0 .. Sustained /\ codeRuns' \in 0 .. Sustained
      BY <1>1, <2>1
    <3> QED
      BY <1>1, <2>2, <2>3, <3>1, <3>2 DEF FaceTypeOK
  <2>5. ReportedFits'
    BY <1>1, <2>1 DEF ReportedFits, Alike
  <2>6. SignalFits'
    <3>1. CASE Framed(code)
      <4>1. signal' = signal /\ notice' # "face"
        BY <2>1, <3>1 DEF NoticeAfter
      <4> QED
        BY <1>3, <4>1 DEF SignalFits
    <3>2. CASE ~Framed(code)
      <4>1. signal'.code = code /\ signal'.verdicts = verdicts' /\ reported' = code
        BY <2>1, <3>2
      <4>2. Len(verdicts') = Sustained /\ runs' = Sustained
        <5>1. runs' <= Len(verdicts') /\ Len(verdicts') <= Sustained /\ Len(verdicts') \in Nat
          BY <1>1, <1>4 DEF CountersFit
        <5> QED
          BY <1>1, <2>1, <5>1
      <4>3. ASSUME NEW i \in 1 .. Sustained PROVE ~Framed(verdicts'[i])
        <5>1. Sustained - i \in 0 .. runs' - 1 /\ Len(verdicts') - (Sustained - i) = i
          BY <1>1, <4>2
        <5>2. Alike(Ago(Sustained - i)', code)
          BY <1>1, <1>4, <5>1 DEF RunIsAlike, Alike
        <5>3. Ago(Sustained - i)' = verdicts'[i]
          BY <5>1 DEF Ago
        <5> QED
          BY <3>2, <5>2, <5>3 DEF Alike
      <4> QED
        BY <1>1, <3>2, <4>1, <4>2, <4>3 DEF SignalFits
    <3> QED
      BY <3>1, <3>2
  <2> QED
    BY <2>4, <2>5, <2>6
<1>6. CASE ~Becomes(code)
  <2>1. UNCHANGED <<reported, notice, signal>>
    BY <1>6 DEF Read
  <2>2. FaceTypeOK'
    <3>1. running' \in BOOLEAN /\ detecting' \in BOOLEAN
      BY <1>2, <1>3 DEF FaceTypeOK
    <3>2. pending' \in Codes \cup {"none"} /\ runs' \in 0 .. Sustained /\ codeRuns' \in 0 .. Sustained
      BY <1>1
    <3>3. /\ reported' \in Codes \cup {"none"} /\ notice' \in Sources \cup {"none"}
          /\ signal' \in [code: Codes \cup {"none"}, verdicts: Seq(Codes)]
      BY <1>3, <2>1 DEF FaceTypeOK
    <3> QED
      BY <1>1, <3>1, <3>2, <3>3 DEF FaceTypeOK
  <2>3. SignalFits'
    BY <1>2, <1>3, <2>1 DEF SignalFits
  <2>4. ASSUME runs' = Sustained PROVE ~FramedChanged(code) /\ ~Worsened(code)
    BY <1>1, <1>6, <2>4 DEF Becomes
  <2>5. runs' = Sustained => reported' # "none" /\ Alike(reported', code)
    BY <2>1, <2>4 DEF FramedChanged, Alike
  <2>6. codeRuns' = Sustained /\ code \in {"absent", "multiple"} => reported' = code
    <3> SUFFICES ASSUME codeRuns' = Sustained, code \in {"absent", "multiple"} PROVE reported' = code
      OBVIOUS
    <3>1. runs' = Sustained
      BY <1>1
    <3>2. CodeRuns(code) >= Sustained
      BY <1>1
    <3> QED
      BY <2>1, <2>4, <3>1, <3>2 DEF Worsened
  <2>7. ReportedFits'
    BY <1>1, <2>5, <2>6 DEF ReportedFits, Alike
  <2> QED
    BY <2>2, <2>3, <2>7
<1> QED
  BY <1>5, <1>6

LEMMA StartSound == FaceIInv /\ Start => FaceIInv'
<1> SUFFICES ASSUME FaceIInv, Start PROVE FaceIInv'
  OBVIOUS
<1>1. /\ reported' = "none" /\ pending' = "none" /\ runs' = 0 /\ codeRuns' = 0
      /\ running' = TRUE /\ detecting' = FALSE /\ verdicts' = <<>> /\ UNCHANGED <<notice, signal>>
  BY DEF Start
<1>2. <<>> \in Seq(Codes) /\ Len(<<>>) = 0 /\ Sustained \in Nat \ {0} /\ 0 \in 0 .. Sustained
  BY FaceAssumption
<1>3. FaceTypeOK'
  BY <1>1, <1>2 DEF FaceIInv, FaceTypeOK
<1>4. CountersFit' /\ RunIsAlike' /\ RunIsLong' /\ CodeRunIsLong'
  BY <1>1, <1>2 DEF CountersFit, RunIsAlike, RunIsLong, CodeRunIsLong
<1>5. ReportedFits' /\ SignalFits'
  BY <1>1, <1>2 DEF FaceIInv, ReportedFits, SignalFits, Framed
<1> QED
  BY <1>3, <1>4, <1>5 DEF FaceIInv

\* The steps that read nothing.
LEMMA BlindSound ==
  ASSUME FaceIInv, Stop \/ Tick \/ Unknown \/ OtherNotice \/ UNCHANGED face
  PROVE  FaceIInv'
<1>1. UNCHANGED <<reported, pending, runs, codeRuns, verdicts, signal>>
  BY DEF Stop, Tick, Unknown, OtherNotice, face
<1>2. detecting' \in BOOLEAN /\ running' \in BOOLEAN /\ notice' \in Sources \cup {"none"}
  <2>1. detecting \in BOOLEAN /\ running \in BOOLEAN /\ notice \in Sources \cup {"none"}
    BY DEF FaceIInv, FaceTypeOK
  <2> QED
    BY <2>1 DEF Stop, Tick, Unknown, OtherNotice, face, Sources
<1>3. FaceTypeOK'
  BY <1>1, <1>2 DEF FaceIInv, FaceTypeOK
<1>4. CountersFit' /\ RunIsAlike' /\ RunIsLong' /\ CodeRunIsLong' /\ ReportedFits'
  BY <1>1 DEF FaceIInv, CountersFit, RunIsAlike, RunIsLong, CodeRunIsLong, ReportedFits, Ago
<1>5. SignalFits'
  <2>1. (notice' = "face" => notice = "face") /\ (running' => running)
    BY DEF Stop, Tick, Unknown, OtherNotice, face
  <2> QED
    BY <1>1, <2>1 DEF FaceIInv, SignalFits
<1> QED
  BY <1>3, <1>4, <1>5 DEF FaceIInv

(***************************************************************************)
(* The loop's counters are exactly the length of the run the last verdicts *)
(* form, its report is what held that long, and the last signal rests on   *)
(* as many verdicts out of frame (useProctoring.ts), for any number of     *)
(* sustained frames and any mounting and unmounting of the effect.         *)
(***************************************************************************)
THEOREM FaceInvariant == FaceSpec => []FaceIInv
<1>1. FaceInit => FaceIInv
  BY FaceInitSound
<1>2. FaceIInv /\ [FaceNext]_face => FaceIInv'
  <2> SUFFICES ASSUME FaceIInv, [FaceNext]_face PROVE FaceIInv'
    OBVIOUS
  <2>1. ASSUME NEW code \in Codes, Read(code) PROVE FaceIInv'
    BY <2>1, ReadCounts, ReadReports DEF FaceIInv
  <2> QED
    BY <2>1, StartSound, BlindSound DEF FaceNext
<1> QED
  BY <1>1, <1>2, PTL DEF FaceSpec

(***************************************************************************)
(* A face signal rests on Sustained reads in a row out of frame; an empty  *)
(* chair, a second person or a framed face that held that long is what the *)
(* loop reported last; its notice is never left over a framed candidate.   *)
(***************************************************************************)
THEOREM FaceSignalsAreAlwaysEarned == FaceSpec => []FaceSignalsAreEarned
<1>1. FaceIInv => FaceSignalsAreEarned
  <2> SUFFICES ASSUME FaceIInv PROVE FaceSignalsAreEarned
    OBVIOUS
  <2>1. ASSUME NEW code \in Codes, Held(code)
        PROVE  IF code \in OffCodes THEN reported \notin {"none", "ok"} ELSE reported = code
    <3>1. Len(verdicts) = Sustained /\ \A i \in 1 .. Sustained : verdicts[i] = code
      BY <2>1 DEF Held
    <3>2. ASSUME NEW k \in 0 .. Sustained - 1 PROVE Ago(k) = code
      <4>1. Sustained - k \in 1 .. Sustained
        BY FaceUse
      <4> QED
        BY <3>1, <4>1 DEF Ago
    <3>3. pending = code
      <4>1. 0 \in 0 .. Sustained - 1 /\ verdicts # <<>>
        BY <3>1, FaceUse
      <4> QED
        BY <3>2, <4>1 DEF FaceIInv, CountersFit
    <3>4. Sustained \in 1 .. Len(verdicts)
      BY <3>1, FaceUse
    <3>5. runs >= Sustained
      BY <3>2, <3>3, <3>4 DEF FaceIInv, RunIsLong, Alike
    <3>6. codeRuns >= Sustained
      BY <3>2, <3>3, <3>4 DEF FaceIInv, CodeRunIsLong
    <3>7. runs = Sustained /\ codeRuns = Sustained
      BY <3>5, <3>6, FaceUse
    <3>8. /\ reported # "none" /\ Alike(reported, code)
          /\ (code \in {"absent", "multiple"} => reported = code)
      BY <3>3, <3>7 DEF FaceIInv, ReportedFits
    <3>9. code \in OffCodes => code # "ok"
      BY FaceAssumption
    <3> QED
      BY <3>8, <3>9 DEF Alike, Framed, Codes
  <2>2. SignalFits
    BY DEF FaceIInv
  <2> QED
    BY <2>1, <2>2 DEF FaceSignalsAreEarned, SignalFits
<1> QED
  BY <1>1, FaceInvariant, PTL

(***************************************************************************)
(* The candidate's page                                                    *)
(***************************************************************************)
\* How far a reply can be ahead of the screen while nobody asks for a section to begin.
Bound(o) == IF Question(o) THEN o + 1 ELSE o
Within(v, o) == v <= Bound(o) \/ v = Last

OneCall == \A s, t \in Slots : kind[s] # "free" /\ kind[t] # "free" => s = t
Unmarked == signals = 0 /\ ~armedSince
Fresh == \A s \in Slots : view[s] # 0 => at \in {view[s], Last}

\* Until a call is overtaken the page is in one of three modes: the first load, a section
\* being begun, and the rest, when nothing in flight can begin one.
Loading == onScreen = 0 /\ (\A s \in Slots : kind[s] \in {"free", "load"}) /\ OneCall
Beginning == Intro(onScreen) /\ (\A s \in Slots : kind[s] \in {"free", "begin", "start"}) /\ OneCall
Quiet ==
    /\ onScreen # 0
    /\ \A s \in Slots : kind[s] \notin {"begin", "start"} /\ Within(view[s], onScreen)
    /\ Within(at, onScreen)

Settled == Quiet \/ ((Loading \/ Beginning) /\ Unmarked /\ Fresh)

CallsFit ==
    /\ \A s \in Slots : kind[s] \in {"free", "begin"} => view[s] = 0
    /\ ~tangled /\ mounted => Settled

WindowFits ==
    /\ timer \/ away => Armed
    /\ Here => Unmarked /\ ~away
    /\ away => signals > 0
    /\ ~tangled => /\ signals <= 1
                   /\ Armed /\ signals = 1 => away
                   /\ Armed /\ armedSince /\ ~visible => signals = 1

FullFits ==
    ~tangled => /\ unheard = 0
                /\ mounted /\ ~Completed(onScreen) => ~selfExit /\ exiting = "no"

CameraFits ==
    /\ mounted /\ camera = "active" => held
    /\ \A s \in Slots : kind[s] \in {"begin", "start"} => camera = "active"
    /\ begun => camera = "active"
    /\ ~mounted /\ ~late => ~held /\ ~opening
    /\ (camera = "starting") <=> opening

PageIInv == PageTypeOK /\ CallsFit /\ WindowFits /\ FullFits /\ CameraFits

LEMMA StepsCounted ==
  /\ Steps \subseteq Nat /\ Last \in Steps /\ 0 \notin Steps /\ Last \in Nat
  /\ \A v \in Steps : v <= Last /\ v >= 1
  /\ Last % 2 = 1 /\ ~Question(Last) /\ ~Intro(0) /\ ~Question(0)
  /\ \A v \in Steps : ~(Intro(v) /\ Question(v))
  /\ \A v \in {0} \cup Steps : v \in Nat
<1>1. SectionCount \in Nat /\ SectionCount >= 1
  BY PageAssumption
<1>2. Last \in Nat /\ Last >= 1 /\ Last % 2 = 1
  BY <1>1 DEF Last
<1> QED
  BY <1>2 DEF Steps, Intro, Question

LEMMA NextStep ==
  ASSUME NEW v \in Steps, Intro(v) \/ Question(v)
  PROVE  v + 1 \in Steps
<1>1. v # Last
  BY StepsCounted DEF Intro
<1>2. v \in Nat /\ v >= 1 /\ v <= Last /\ Last \in Nat
  BY StepsCounted
<1>3. v + 1 \in Nat /\ v + 1 <= Last /\ v + 1 >= 1
  BY <1>1, <1>2
<1> QED
  BY <1>2, <1>3 DEF Steps

LEMMA TimeUpStaysWithin ==
  ASSUME NEW v \in Steps, NEW o \in Steps, Question(v), Within(v, o)
  PROVE  Within(v + 1, o)
<1>1. v # Last /\ v <= Bound(o) /\ v \in Nat /\ o \in Nat
  BY StepsCounted DEF Within
<1>2. v % 2 = 0
  BY DEF Question
<1>3. CASE Question(o)
  <2>1. o % 2 = 0 /\ v <= o + 1
    BY <1>1, <1>3 DEF Bound, Question
  <2>2. v + 1 <= o + 1
    BY <1>1, <1>2, <2>1
  <2> QED
    BY <1>3, <2>2 DEF Bound, Within
<1>4. CASE ~Question(o)
  <2>1. o % 2 # 0 /\ v <= o
    BY <1>1, <1>4 DEF Bound, Question
  <2>2. v + 1 <= o
    BY <1>1, <1>2, <2>1
  <2> QED
    BY <1>4, <2>2 DEF Bound, Within
<1> QED
  BY <1>3, <1>4

\* What a reply that does not go back brings on a page that begins nothing.
LEMMA ReplyAhead ==
  ASSUME NEW v \in Steps, NEW o \in Steps, Within(v, o), ~(v < o)
  PROVE  /\ Question(v) => v = o
         /\ \A w \in {0} \cup Steps : Within(w, o) => Within(w, v)
<1>1. v \in Nat /\ o \in Nat /\ v >= o /\ v <= Last /\ Last \in Nat
  BY StepsCounted
<1>2. CASE v = Last
  <2>1. ~Question(v) /\ \A w \in {0} \cup Steps : w <= v
    BY <1>2, StepsCounted
  <2>2. \A w \in {0} \cup Steps : Within(w, v)
    BY <2>1 DEF Within, Bound
  <2> QED
    BY <2>1, <2>2
<1>3. CASE v # Last /\ ~Question(o)
  <2>1. v = o
    BY <1>1, <1>3 DEF Within, Bound
  <2> QED
    BY <2>1
<1>4. CASE v # Last /\ Question(o)
  <2>1. v \in {o, o + 1} /\ o % 2 = 0
    BY <1>1, <1>4 DEF Within, Bound, Question
  <2>2. CASE v = o
    BY <2>2
  <2>3. CASE v = o + 1
    <3>1. ~Question(v)
      BY <1>1, <2>1, <2>3 DEF Question
    <3> QED
      BY <1>4, <2>3, <3>1 DEF Within, Bound
  <2> QED
    BY <2>1, <2>2, <2>3
<1> QED
  BY <1>2, <1>3, <1>4

LEMMA PageTypes ==
  ASSUME PageIInv
  PROVE  /\ at \in Steps /\ onScreen \in {0} \cup Steps /\ signals \in Nat /\ unheard \in Nat
         /\ kind \in [Slots -> {"free", "load", "begin", "start", "answer", "refresh"}]
         /\ view \in [Slots -> {0} \cup Steps]
         /\ camera \in {"idle", "starting", "active", "denied"}
         /\ permission \in {"granted", "prompt", "denied"} /\ exiting \in {"no", "first", "retry"}
BY DEF PageIInv, PageTypeOK

LEMMA PageFlags ==
  ASSUME PageIInv
  PROVE  /\ mounted \in BOOLEAN /\ busy \in BOOLEAN /\ asked \in BOOLEAN /\ opening \in BOOLEAN
         /\ held \in BOOLEAN /\ fullscreen \in BOOLEAN /\ selfExit \in BOOLEAN
         /\ focused \in BOOLEAN /\ visible \in BOOLEAN /\ timer \in BOOLEAN /\ away \in BOOLEAN
         /\ armedSince \in BOOLEAN /\ begun \in BOOLEAN /\ late \in BOOLEAN /\ tangled \in BOOLEAN
BY DEF PageIInv, PageTypeOK

(***************************************************************************)
(* What a step leaves alone                                                *)
(***************************************************************************)
LEMMA CallsStay ==
  ASSUME PageIInv, UNCHANGED <<at, kind, view, onScreen, mounted>>, ~tangled' => ~tangled,
         ~Armed /\ Unmarked => Unmarked'
  PROVE  CallsFit'
<1>1. CallsFit /\ onScreen \in {0} \cup Steps
  BY PageTypes DEF PageIInv
<1>2. Loading \/ Beginning => ~Armed
  BY <1>1, StepsCounted DEF Loading, Beginning, Armed, Intro
<1>3. Quiet => Quiet'
  BY DEF Quiet, Within, Bound, Question, Steps, Last
<1>4. Loading => Loading'
  BY DEF Loading, OneCall
<1>5. Beginning => Beginning'
  BY DEF Beginning, OneCall, Intro, Steps, Last
<1>6. Fresh => Fresh'
  BY DEF Fresh, Last
<1>7. Settled => Settled'
  BY <1>2, <1>3, <1>4, <1>5, <1>6 DEF Settled
<1> QED
  BY <1>1, <1>7 DEF CallsFit

LEMMA WindowStays ==
  ASSUME PageIInv, UNCHANGED <<mounted, onScreen, window>>, ~tangled' => ~tangled
  PROVE  WindowFits'
<1>1. UNCHANGED <<focused, visible, timer, away, signals, armedSince>>
  BY DEF window
<1>2. Armed' = Armed /\ Here' = Here /\ Unmarked' = Unmarked
  BY <1>1 DEF Armed, Here, Unmarked, Question, Steps, Last
<1> QED
  BY <1>1, <1>2 DEF PageIInv, WindowFits

LEMMA FullStays ==
  ASSUME PageIInv, UNCHANGED <<mounted, onScreen, selfExit, exiting, unheard>>, ~tangled' => ~tangled
  PROVE  FullFits'
BY DEF PageIInv, FullFits, Completed, Last

LEMMA CameraStays ==
  ASSUME PageIInv, UNCHANGED <<mounted, camera, held, opening, late>>,
         begun' => camera = "active", \A s \in Slots : kind'[s] \in {"begin", "start"} => camera = "active"
  PROVE  CameraFits'
BY DEF PageIInv, CameraFits

(***************************************************************************)
(* The calls                                                               *)
(***************************************************************************)
LEMMA PageInitSound == PageInit => PageIInv
<1> SUFFICES ASSUME PageInit PROVE PageIInv
  OBVIOUS
<1>1. /\ at \in Steps /\ view = [s \in Slots |-> 0]
      /\ onScreen = 0 /\ mounted = TRUE /\ busy = FALSE
      /\ camera = "idle" /\ asked = FALSE /\ opening = FALSE /\ held = FALSE
      /\ permission \in {"granted", "prompt", "denied"}
      /\ fullscreen = FALSE /\ selfExit = FALSE /\ exiting = "no"
      /\ focused = TRUE /\ visible = TRUE /\ timer = FALSE /\ away = FALSE
      /\ signals = 0 /\ unheard = 0
      /\ armedSince = FALSE /\ begun = FALSE /\ late = FALSE /\ tangled = FALSE
  BY DEF PageInit
<1>2. PICK s \in Slots : kind = [t \in Slots |-> IF t = s THEN "load" ELSE "free"]
  BY DEF PageInit
<1>3. PageTypeOK
  BY <1>1, <1>2 DEF PageTypeOK
<1>4. CallsFit
  <2>1. Loading
    BY <1>1, <1>2 DEF Loading, OneCall
  <2>2. Unmarked /\ Fresh
    BY <1>1 DEF Unmarked, Fresh
  <2>3. \A t \in Slots : view[t] = 0
    BY <1>1
  <2> QED
    BY <2>1, <2>2, <2>3 DEF CallsFit, Settled
<1>5. WindowFits /\ FullFits
  BY <1>1 DEF WindowFits, FullFits, Unmarked
<1>6. CameraFits
  BY <1>1, <1>2 DEF CameraFits
<1> QED
  BY <1>3, <1>4, <1>5, <1>6 DEF PageIInv

LEMMA MovesUse ==
  ASSUME PageIInv, NEW what \in {"load", "start", "answer", "refresh"}, Moves(what)
  PROVE  /\ at' \in Steps
         /\ what # "start" /\ onScreen \in Steps /\ Within(at, onScreen) => Within(at', onScreen)
         /\ what = "load" => at' = at
<1>1. at \in Steps
  BY PageTypes
<1>2. CASE at' = at
  BY <1>1, <1>2
<1>3. CASE what = "start" /\ Intro(at) /\ at' = at + 1
  BY <1>1, <1>3, NextStep
<1>4. CASE what \in {"answer", "refresh"} /\ Question(at) /\ at' = at + 1
  <2>1. at' \in Steps
    BY <1>1, <1>4, NextStep
  <2>2. onScreen \in Steps /\ Within(at, onScreen) => Within(at', onScreen)
    BY <1>1, <1>4, TimeUpStaysWithin
  <2> QED
    BY <1>4, <2>1, <2>2
<1> QED
  BY <1>2, <1>3, <1>4 DEF Moves

LEMMA ServeSound ==
  ASSUME PageIInv, NEW s \in Slots, Serve(s) PROVE PageIInv'
<1>1. /\ kind[s] \notin {"free", "begin"} /\ view[s] = 0 /\ Moves(kind[s]) /\ view' = [view EXCEPT ![s] = at']
      /\ UNCHANGED <<kind, screen, eye, full, window, begun, tangled>>
  BY DEF Serve
<1>2. kind[s] \in {"load", "start", "answer", "refresh"}
  BY <1>1, PageTypes
<1>3. /\ at' \in Steps
      /\ kind[s] # "start" /\ onScreen \in Steps /\ Within(at, onScreen) => Within(at', onScreen)
      /\ kind[s] = "load" => at' = at
  BY <1>1, <1>2, MovesUse
<1>4. /\ view' \in [Slots -> {0} \cup Steps] /\ view'[s] = at'
      /\ \A t \in Slots : t # s => view'[t] = view[t]
  BY <1>1, <1>3, PageTypes
<1>5. UNCHANGED <<onScreen, mounted, busy, camera, asked, opening, held, permission, late,
                  fullscreen, selfExit, exiting, unheard>>
  BY <1>1 DEF screen, eye, full
<1>6. PageTypeOK'
  <2>1. UNCHANGED <<focused, visible, timer, away, signals, armedSince>>
    BY <1>1 DEF window
  <2> QED
    BY <1>1, <1>3, <1>4, <1>5, <2>1 DEF PageIInv, PageTypeOK, Steps, Last
<1>7. CallsFit'
  <2>1. CallsFit /\ UNCHANGED <<signals, armedSince>>
    BY <1>1 DEF PageIInv, window
  <2>2. \A t \in Slots : kind'[t] \in {"free", "begin"} => view'[t] = 0
    BY <1>1, <1>4, <2>1 DEF CallsFit
  <2>3. ASSUME Quiet PROVE Quiet'
    <3>1. onScreen \in Steps /\ Within(at', onScreen)
      BY <1>1, <1>3, <2>3, PageTypes DEF Quiet
    <3>2. \A t \in Slots : Within(view'[t], onScreen)
      BY <1>4, <2>3, <3>1 DEF Quiet
    <3>3. \A v : Within(v, onScreen)' <=> Within(v, onScreen)
      BY <1>5 DEF Within, Bound, Question, Steps, Last
    <3> QED
      BY <1>1, <1>5, <2>3, <3>1, <3>2 DEF Quiet, Within, Bound, Question, Steps, Last
  <2>4. ASSUME Loading \/ Beginning PROVE (Loading \/ Beginning)' /\ Fresh'
    <3>1. \A t \in Slots : t # s => view'[t] = 0
      BY <1>1, <1>4, <2>1, <2>4 DEF CallsFit, Loading, Beginning, OneCall
    <3>2. Fresh'
      BY <1>4, <3>1 DEF Fresh
    <3> QED
      BY <1>1, <1>5, <2>4, <3>2 DEF Loading, Beginning, OneCall, Intro, Steps, Last
  <2>5. Unmarked' = Unmarked
    BY <2>1 DEF Unmarked
  <2> QED
    BY <1>1, <1>5, <2>1, <2>2, <2>3, <2>4, <2>5 DEF CallsFit, Settled
<1>8. WindowFits' /\ FullFits' /\ CameraFits'
  <2>1. begun' => camera = "active"
    BY <1>1 DEF PageIInv, CameraFits
  <2>2. \A t \in Slots : kind'[t] \in {"begin", "start"} => camera = "active"
    BY <1>1 DEF PageIInv, CameraFits
  <2> QED
    BY <1>1, <1>5, <2>1, <2>2, WindowStays, FullStays, CameraStays
<1> QED
  BY <1>6, <1>7, <1>8 DEF PageIInv

LEMMA AutoSubmitSound == PageIInv /\ AutoSubmit => PageIInv'
<1> SUFFICES ASSUME PageIInv, AutoSubmit PROVE PageIInv'
  OBVIOUS
<1>1. at' = Last /\ UNCHANGED <<kind, view, screen, eye, full, window, begun, tangled>>
  BY DEF AutoSubmit
<1>2. /\ UNCHANGED <<onScreen, mounted, busy, camera, asked, opening, held, permission, late,
                     fullscreen, selfExit, exiting, unheard>>
      /\ UNCHANGED <<focused, visible, timer, away, signals, armedSince>>
  BY <1>1 DEF screen, eye, full, window
<1>3. PageTypeOK'
  BY <1>1, <1>2, StepsCounted DEF PageIInv, PageTypeOK, Steps, Last
<1>4. CallsFit'
  <2>1. CallsFit /\ Within(at, onScreen)' /\ Unmarked' = Unmarked
    BY <1>1, <1>2 DEF PageIInv, Within, Unmarked, Last
  <2>2. Quiet => Quiet'
    BY <1>1, <1>2, <2>1 DEF Quiet, Within, Bound, Question, Steps, Last
  <2>3. (Loading => Loading') /\ (Beginning => Beginning')
    BY <1>1, <1>2 DEF Loading, Beginning, OneCall, Intro, Steps, Last
  <2>4. Fresh'
    BY <1>1 DEF Fresh, Last
  <2> QED
    BY <1>1, <1>2, <2>1, <2>2, <2>3, <2>4 DEF CallsFit, Settled
<1>5. WindowFits' /\ FullFits' /\ CameraFits'
  <2>1. begun' => camera = "active"
    BY <1>1 DEF PageIInv, CameraFits
  <2>2. \A t \in Slots : kind'[t] \in {"begin", "start"} => camera = "active"
    BY <1>1 DEF PageIInv, CameraFits
  <2> QED
    BY <1>1, <1>2, <2>1, <2>2, WindowStays, FullStays, CameraStays
<1> QED
  BY <1>3, <1>4, <1>5 DEF PageIInv

\* A call that is sent on a quiet page and begins nothing.
LEMMA AskingSound ==
  ASSUME PageIInv, NEW s \in Slots, NEW what \in {"answer", "refresh"}, Armed, Sends(s, what),
         busy' = TRUE, UNCHANGED <<onScreen, mounted, eye, full, window, begun, tangled>>
  PROVE  PageIInv'
<1>1. /\ kind[s] = "free" /\ kind' = [kind EXCEPT ![s] = what] /\ UNCHANGED <<at, view>>
      /\ kind' \in [Slots -> {"free", "load", "begin", "start", "answer", "refresh"}]
      /\ kind'[s] = what /\ \A t \in Slots : t # s => kind'[t] = kind[t]
  BY PageTypes DEF Sends
<1>2. /\ UNCHANGED <<camera, asked, opening, held, permission, late, fullscreen, selfExit, exiting, unheard>>
      /\ UNCHANGED <<focused, visible, timer, away, signals, armedSince>>
  BY DEF eye, full, window
<1>3. PageTypeOK'
  BY <1>1, <1>2 DEF PageIInv, PageTypeOK, Steps, Last
<1>4. CallsFit'
  <2>1. CallsFit /\ ~Loading /\ ~Beginning
    <3>1. mounted /\ Question(onScreen) /\ onScreen \in {0} \cup Steps
      BY PageTypes DEF Armed
    <3> QED
      BY <3>1, StepsCounted DEF PageIInv, Loading, Beginning, Intro
  <2>2. \A t \in Slots : kind'[t] \in {"free", "begin"} => view'[t] = 0
    BY <1>1, <2>1 DEF CallsFit
  <2>3. Quiet => Quiet'
    BY <1>1 DEF Quiet, Within, Bound, Question, Steps, Last
  <2> QED
    BY <1>1, <2>1, <2>2, <2>3 DEF CallsFit, Settled
<1>5. WindowFits' /\ FullFits' /\ CameraFits'
  <2>1. begun' => camera = "active"
    BY DEF PageIInv, CameraFits
  <2>2. \A t \in Slots : kind'[t] \in {"begin", "start"} => camera = "active"
    BY <1>1 DEF PageIInv, CameraFits
  <2> QED
    BY <1>1, <1>2, <2>1, <2>2, WindowStays, FullStays, CameraStays
<1> QED
  BY <1>3, <1>4, <1>5 DEF PageIInv

LEMMA PressSound ==
  ASSUME PageIInv, NEW s \in Slots, PressBegin(s) PROVE PageIInv'
<1>1. /\ mounted /\ Intro(onScreen) /\ Here /\ camera = "active"
      /\ tangled' = (tangled \/ \E t \in Slots : kind[t] # "free")
      /\ UNCHANGED <<onScreen, mounted, busy, fullscreen, selfExit, exiting, unheard>>
      /\ UNCHANGED <<eye, window, begun>>
  BY DEF PressBegin, CameraReady, screen, full
<1>2. /\ kind[s] = "free" /\ kind' = [kind EXCEPT ![s] = "begin"] /\ UNCHANGED <<at, view>>
      /\ kind' \in [Slots -> {"free", "load", "begin", "start", "answer", "refresh"}]
      /\ kind'[s] = "begin" /\ \A t \in Slots : t # s => kind'[t] = kind[t]
  BY PageTypes DEF PressBegin, Sends
<1>3. /\ UNCHANGED <<camera, asked, opening, held, permission, late>>
      /\ UNCHANGED <<focused, visible, timer, away, signals, armedSince>>
  BY <1>1 DEF eye, window
<1>4. PageTypeOK'
  <2>1. tangled' \in BOOLEAN
    BY <1>1, PageFlags
  <2> QED
    BY <1>1, <1>2, <1>3, <2>1 DEF PageIInv, PageTypeOK, Steps, Last
<1>5. CallsFit'
  <2>1. CallsFit /\ WindowFits
    BY DEF PageIInv
  <2>2. \A t \in Slots : kind'[t] \in {"free", "begin"} => view'[t] = 0
    BY <1>2, <2>1 DEF CallsFit
  <2>3. ASSUME ~tangled' PROVE Settled'
    <3>1. \A t \in Slots : kind[t] = "free" /\ view'[t] = 0
      BY <1>1, <1>2, <2>1, <2>3 DEF CallsFit
    <3>2. Beginning'
      BY <1>1, <1>2, <3>1 DEF Beginning, OneCall, Intro, Steps, Last
    <3>3. Unmarked' /\ Fresh'
      BY <1>1, <1>3, <2>1, <3>1 DEF WindowFits, Unmarked, Fresh
    <3> QED
      BY <3>2, <3>3 DEF Settled
  <2> QED
    BY <2>2, <2>3 DEF CallsFit
<1>6. WindowFits' /\ FullFits' /\ CameraFits'
  <2>1. begun' => camera = "active"
    BY <1>1
  <2>2. \A t \in Slots : kind'[t] \in {"begin", "start"} => camera = "active"
    BY <1>1
  <2>3. ~tangled' => ~tangled
    BY <1>1
  <2> QED
    BY <1>1, <1>3, <2>1, <2>2, <2>3, WindowStays, FullStays, CameraStays
<1> QED
  BY <1>4, <1>5, <1>6 DEF PageIInv

\* The call that goes out when full screen was granted or refused: on a page that is still
\* there nothing has moved since Begin was pressed.
LEMMA BeginSound ==
  ASSUME PageIInv, NEW s \in Slots, Begin(s) PROVE PageIInv'
<1>1. /\ kind[s] = "begin" /\ kind' = [kind EXCEPT ![s] = "start"] /\ busy' = TRUE
      /\ fullscreen' \in {fullscreen, TRUE}
      /\ UNCHANGED <<at, view, onScreen, mounted, selfExit, exiting, unheard>>
      /\ UNCHANGED <<eye, window, begun, tangled>>
  BY DEF Begin
<1>2. /\ kind' \in [Slots -> {"free", "load", "begin", "start", "answer", "refresh"}]
      /\ kind'[s] = "start" /\ \A t \in Slots : t # s => kind'[t] = kind[t]
  BY <1>1, PageTypes
<1>3. /\ UNCHANGED <<camera, asked, opening, held, permission, late>>
      /\ UNCHANGED <<focused, visible, timer, away, signals, armedSince>>
  BY <1>1 DEF eye, window
<1>4. PageTypeOK'
  <2>1. fullscreen' \in BOOLEAN
    BY <1>1, PageFlags
  <2> QED
    BY <1>1, <1>2, <1>3, <2>1 DEF PageIInv, PageTypeOK, Steps, Last
<1>5. CallsFit'
  <2>1. CallsFit /\ Unmarked' = Unmarked
    BY <1>3 DEF PageIInv, Unmarked
  <2>2. \A t \in Slots : kind'[t] \in {"free", "begin"} => view'[t] = 0
    BY <1>1, <1>2, <2>1 DEF CallsFit
  <2>3. ~Quiet /\ ~Loading
    BY <1>1 DEF Quiet, Loading
  <2>4. Beginning => Beginning'
    BY <1>1, <1>2 DEF Beginning, OneCall, Intro, Steps, Last
  <2>5. Fresh => Fresh'
    BY <1>1 DEF Fresh, Last
  <2> QED
    BY <1>1, <2>1, <2>2, <2>3, <2>4, <2>5 DEF CallsFit, Settled
<1>6. WindowFits' /\ FullFits' /\ CameraFits'
  <2>1. (begun' => camera = "active") /\ camera = "active"
    BY <1>1 DEF PageIInv, CameraFits
  <2> QED
    BY <1>1, <1>3, <2>1, WindowStays, FullStays, CameraStays
<1> QED
  BY <1>4, <1>5, <1>6 DEF PageIInv

\* A call that ends, whatever it does to the screen.
LEMMA FreeUse ==
  ASSUME PageIInv, NEW s \in Slots, Free(s)
  PROVE  /\ UNCHANGED at
         /\ kind' \in [Slots -> {"free", "load", "begin", "start", "answer", "refresh"}]
         /\ view' \in [Slots -> {0} \cup Steps]
         /\ kind'[s] = "free" /\ view'[s] = 0
         /\ \A t \in Slots : t # s => kind'[t] = kind[t] /\ view'[t] = view[t]
         /\ \A t \in Slots : kind'[t] \in {"free", "begin"} => view'[t] = 0
<1>1. /\ kind' = [kind EXCEPT ![s] = "free"] /\ view' = [view EXCEPT ![s] = 0] /\ UNCHANGED at
      /\ \A t \in Slots : kind[t] \in {"free", "begin"} => view[t] = 0
  BY DEF Free, PageIInv, CallsFit
<1> QED
  BY <1>1, PageTypes

LEMMA FailSound ==
  ASSUME PageIInv, NEW s \in Slots, Fail(s) PROVE PageIInv'
<1>1. /\ kind[s] \notin {"free", "begin"} /\ Free(s) /\ busy' = FALSE
      /\ UNCHANGED <<onScreen, mounted, eye, full, window, begun, tangled>>
  BY DEF Fail
<1>2. /\ UNCHANGED <<camera, asked, opening, held, permission, late, fullscreen, selfExit, exiting, unheard>>
      /\ UNCHANGED <<focused, visible, timer, away, signals, armedSince>>
  BY <1>1 DEF eye, full, window
<1>3. PageTypeOK'
  <2>1. /\ kind' \in [Slots -> {"free", "load", "begin", "start", "answer", "refresh"}]
        /\ view' \in [Slots -> {0} \cup Steps] /\ UNCHANGED at
    BY <1>1, FreeUse
  <2> QED
    BY <1>1, <1>2, <2>1 DEF PageIInv, PageTypeOK, Steps, Last
<1>4. CallsFit'
  <2>1. CallsFit /\ Unmarked' = Unmarked /\ at' = at
    BY <1>1, <1>2, FreeUse DEF PageIInv, Unmarked
  <2>2. ASSUME Quiet PROVE Quiet'
    <3>1. \A t \in Slots : kind'[t] \notin {"begin", "start"} /\ view'[t] \in {0, view[t]}
      BY <1>1, <2>2, FreeUse DEF Quiet
    <3>2. Within(0, onScreen)
      <4>1. onScreen \in Nat
        BY PageTypes, StepsCounted
      <4>2. onScreen >= 0 /\ onScreen + 1 >= 0
        BY <4>1
      <4> QED
        BY <4>2 DEF Within, Bound
    <3>3. \A t \in Slots : Within(view'[t], onScreen)
      BY <2>2, <3>1, <3>2 DEF Quiet
    <3> QED
      BY <1>1, <2>1, <2>2, <3>1, <3>3 DEF Quiet, Within, Bound, Question, Steps, Last
  <2>3. ASSUME Loading \/ Beginning PROVE (Loading \/ Beginning)' /\ Fresh'
    <3>1. \A t \in Slots : kind[t] # "free" => t = s
      BY <1>1, <2>3 DEF Loading, Beginning, OneCall
    <3>2. \A t \in Slots : kind'[t] = "free" /\ view'[t] = 0
      BY <1>1, <3>1, FreeUse
    <3> QED
      BY <1>1, <2>3, <3>2 DEF Loading, Beginning, OneCall, Fresh, Intro, Steps, Last
  <2> QED
    BY <1>1, <2>1, <2>2, <2>3, FreeUse DEF CallsFit, Settled
<1>5. WindowFits' /\ FullFits' /\ CameraFits'
  <2>1. begun' => camera = "active"
    BY <1>1 DEF PageIInv, CameraFits
  <2>2. \A t \in Slots : kind'[t] \in {"begin", "start"} => camera = "active"
    BY <1>1, FreeUse DEF PageIInv, CameraFits
  <2> QED
    BY <1>1, <1>2, <2>1, <2>2, WindowStays, FullStays, CameraStays
<1> QED
  BY <1>3, <1>4, <1>5 DEF PageIInv

\* A reply is applied: what the screen moves to, and what the effects' cleanups do.
LEMMA ApplyUse ==
  ASSUME PageIInv, NEW step \in Steps, mounted, Apply(step)
  PROVE  /\ onScreen' = step /\ UNCHANGED mounted
         /\ timer' = (timer /\ Question(step)) /\ away' = (away /\ Question(step))
         /\ UNCHANGED <<focused, visible, signals, armedSince>>
         /\ asked' \in BOOLEAN /\ UNCHANGED <<camera, opening, held, permission, late>>
         /\ unheard' = unheard /\ fullscreen' = fullscreen
         /\ selfExit' \in BOOLEAN /\ exiting' \in {"no", "first", "retry"}
         /\ ~Completed(step) => selfExit' = selfExit /\ exiting' = exiting
         /\ tangled' = (tangled \/ step < onScreen)
<1>1. /\ onScreen' = step /\ UNCHANGED mounted
      /\ timer' = (timer /\ Question(step)) /\ away' = (away /\ Question(step))
      /\ UNCHANGED <<focused, visible, signals, armedSince>>
      /\ asked' = (asked /\ ~Completed(step)) /\ UNCHANGED <<camera, opening, held, permission, late>>
      /\ tangled' = (tangled \/ step < onScreen) /\ GiveBack(~Completed(step))
  BY DEF Apply, Disarm, Forget
<1>2. asked' \in BOOLEAN
  BY <1>1, PageFlags
<1>3. /\ unheard' = unheard /\ fullscreen' = fullscreen
      /\ selfExit' \in BOOLEAN /\ exiting' \in {"no", "first", "retry"}
      /\ (~Completed(step) => selfExit' = selfExit /\ exiting' = exiting)
  <2>1. CASE Completed(step) /\ fullscreen /\ exiting = "no"
    <3>1. selfExit' = TRUE /\ exiting' = "first" /\ UNCHANGED <<fullscreen, unheard>>
      BY <1>1, <2>1 DEF GiveBack
    <3> QED
      BY <2>1, <3>1
  <2>2. CASE ~(Completed(step) /\ fullscreen /\ exiting = "no")
    <3>1. UNCHANGED <<fullscreen, selfExit, exiting, unheard>>
      BY <1>1, <2>2 DEF GiveBack, full
    <3> QED
      BY <3>1, PageFlags, PageTypes
  <2> QED
    BY <2>1, <2>2
<1> QED
  BY <1>1, <1>2, <1>3

LEMMA AppliedSound ==
  ASSUME PageIInv, NEW s \in Slots, Reply(s), mounted PROVE PageIInv'
<1>1. PICK step \in Steps : step = view[s]
  BY PageTypes DEF Reply
<1>2. /\ view[s] # 0 /\ Free(s) /\ busy' = FALSE /\ Apply(step)
      /\ begun' = (kind[s] = "start" \/ (begun /\ view[s] = onScreen))
  BY <1>1 DEF Reply
<1>3. /\ onScreen' = step /\ UNCHANGED mounted
      /\ timer' = (timer /\ Question(step)) /\ away' = (away /\ Question(step))
      /\ UNCHANGED <<focused, visible, signals, armedSince>>
      /\ asked' \in BOOLEAN /\ UNCHANGED <<camera, opening, held, permission, late>>
      /\ unheard' = unheard /\ fullscreen' = fullscreen
      /\ selfExit' \in BOOLEAN /\ exiting' \in {"no", "first", "retry"}
      /\ (~Completed(step) => selfExit' = selfExit /\ exiting' = exiting)
      /\ tangled' = (tangled \/ step < onScreen)
  BY <1>2, ApplyUse
<1>4. /\ UNCHANGED at
      /\ kind' \in [Slots -> {"free", "load", "begin", "start", "answer", "refresh"}]
      /\ view' \in [Slots -> {0} \cup Steps]
      /\ kind'[s] = "free" /\ view'[s] = 0
      /\ \A t \in Slots : t # s => kind'[t] = kind[t] /\ view'[t] = view[t]
      /\ \A t \in Slots : kind'[t] \in {"free", "begin"} => view'[t] = 0
  BY <1>2, FreeUse
<1>5. onScreen \in Nat /\ step \in Nat /\ kind[s] # "free" /\ CallsFit
  <2>1. onScreen \in Nat /\ step \in Nat
    BY PageTypes, StepsCounted
  <2>2. CallsFit
    BY DEF PageIInv
  <2> QED
    BY <1>2, <2>1, <2>2 DEF CallsFit
<1>6. PageTypeOK'
  <2>1. timer' \in BOOLEAN /\ away' \in BOOLEAN
    BY <1>3, PageFlags
  <2>2. begun' \in BOOLEAN /\ tangled' \in BOOLEAN /\ busy' \in BOOLEAN
    BY <1>2, <1>3, PageFlags
  <2>3. /\ mounted' \in BOOLEAN /\ opening' \in BOOLEAN /\ held' \in BOOLEAN /\ late' \in BOOLEAN
        /\ fullscreen' \in BOOLEAN /\ focused' \in BOOLEAN /\ visible' \in BOOLEAN
        /\ armedSince' \in BOOLEAN
    BY <1>3, PageFlags
  <2>4. /\ at' \in Steps /\ onScreen' \in {0} \cup Steps /\ signals' \in Nat /\ unheard' \in Nat
        /\ camera' \in {"idle", "starting", "active", "denied"}
        /\ permission' \in {"granted", "prompt", "denied"}
    BY <1>3, <1>4, PageTypes
  <2> QED
    BY <1>3, <1>4, <2>1, <2>2, <2>3, <2>4 DEF PageTypeOK, Steps, Last
\* Nothing that was watched for is disturbed unless the reply goes back.
<1>7. ASSUME ~tangled'
      PROVE  /\ ~tangled /\ ~(step < onScreen)
             /\ \/ /\ Quiet /\ onScreen \in Steps /\ Within(step, onScreen)
                \/ /\ Unmarked /\ \A t \in Slots : kind'[t] = "free" /\ view'[t] = 0
                   /\ at \in {step, Last}
  <2>1. ~tangled /\ ~(step < onScreen) /\ Settled
    BY <1>3, <1>5, <1>7 DEF CallsFit
  <2>2. CASE Quiet
    <3>1. onScreen \in Steps
      BY <2>2, PageTypes DEF Quiet
    <3>2. Within(step, onScreen)
      BY <1>1, <2>2 DEF Quiet
    <3> QED
      BY <2>1, <2>2, <3>1, <3>2
  <2>3. CASE (Loading \/ Beginning) /\ Unmarked /\ Fresh
    <3>1. \A t \in Slots : t # s => kind[t] = "free"
      BY <1>5, <2>3 DEF Loading, Beginning, OneCall
    <3>2. \A t \in Slots : kind'[t] = "free" /\ view'[t] = 0
      BY <1>4, <3>1
    <3>3. at \in {step, Last}
      BY <1>1, <1>2, <2>3 DEF Fresh
    <3> QED
      BY <2>1, <2>3, <3>2, <3>3 DEF Loading, Beginning
  <2> QED
    BY <2>1, <2>2, <2>3 DEF Settled
<1>8. CallsFit'
  <2>1. ASSUME ~tangled' PROVE Quiet'
    <3>1. onScreen' = step /\ onScreen' # 0 /\ \A v : Within(v, onScreen)' <=> Within(v, step)
      BY <1>3, StepsCounted DEF Within, Bound, Question, Steps, Last
    <3>2. CASE Quiet /\ onScreen \in Steps /\ Within(step, onScreen)
      <4>1. \A w \in {0} \cup Steps : Within(w, onScreen) => Within(w, step)
        BY <1>7, <2>1, <3>2, ReplyAhead
      <4>2. Within(0, onScreen)
        <5>1. onScreen >= 0 /\ onScreen + 1 >= 0
          BY <1>5
        <5> QED
          BY <5>1 DEF Within, Bound
      <4>3. \A t \in Slots : Within(view'[t], step)
        <5>1. \A t \in Slots : view'[t] \in {0} \cup Steps /\ Within(view'[t], onScreen)
          BY <1>4, <3>2, <4>2 DEF Quiet
        <5> QED
          BY <4>1, <5>1
      <4>4. Within(at', step)
        BY <1>4, <3>2, <4>1, PageTypes DEF Quiet
      <4>5. \A t \in Slots : kind'[t] \notin {"begin", "start"}
        BY <1>4, <3>2 DEF Quiet
      <4> QED
        BY <1>3, <3>1, <4>3, <4>4, <4>5 DEF Quiet, Within, Bound, Question, Steps, Last
    <3>3. CASE (\A t \in Slots : kind'[t] = "free" /\ view'[t] = 0) /\ at \in {step, Last}
      <4>1. Within(0, step) /\ Within(at', step)
        <5>1. step >= 0 /\ step + 1 >= 0 /\ step <= step + 1 /\ step <= step
          BY <1>5
        <5> QED
          BY <1>4, <3>3, <5>1 DEF Within, Bound
      <4> QED
        BY <1>3, <3>1, <3>3, <4>1 DEF Quiet, Within, Bound, Question, Steps, Last
    <3> QED
      BY <1>7, <2>1, <3>2, <3>3
  <2> QED
    BY <1>4, <2>1 DEF CallsFit, Settled
<1>9. WindowFits'
  <2>1. WindowFits /\ Here' = Here /\ Unmarked' = Unmarked /\ Armed' = Question(step)
    BY <1>3 DEF PageIInv, Here, Unmarked, Armed, Question, Steps, Last
  <2>2. ASSUME ~tangled', Armed' PROVE Armed \/ Unmarked
    <3>1. Question(step)
      BY <2>1, <2>2
    <3>2. CASE Quiet /\ onScreen \in Steps /\ Within(step, onScreen)
      <4>1. step = onScreen
        BY <1>7, <2>2, <3>1, <3>2, ReplyAhead
      <4> QED
        BY <3>1, <4>1 DEF Armed
    <3> QED
      BY <1>7, <2>2, <3>2
  <2>3. (timer' \/ away' => Armed') /\ (Here' => Unmarked' /\ ~away') /\ (away' => signals' > 0)
    BY <1>3, <2>1 DEF WindowFits
  <2>4. ASSUME ~tangled'
        PROVE  /\ signals' <= 1
               /\ Armed' /\ signals' = 1 => away'
               /\ Armed' /\ armedSince' /\ ~visible' => signals' = 1
    <3>1. ~tangled /\ UNCHANGED <<visible, signals, armedSince>>
      BY <1>3, <1>7, <2>4
    <3>2. signals <= 1 /\ (Armed /\ signals = 1 => away) /\ (Armed /\ armedSince /\ ~visible => signals = 1)
      BY <2>1, <3>1 DEF WindowFits
    <3>3. Armed' => away' = away
      BY <1>3, <2>1, PageFlags
    <3>4. Unmarked => signals = 0 /\ ~armedSince
      BY DEF Unmarked
    <3> QED
      BY <2>2, <2>4, <3>1, <3>2, <3>3, <3>4
  <2> QED
    BY <2>3, <2>4 DEF WindowFits
<1>10. FullFits'
  <2> SUFFICES ASSUME ~tangled'
               PROVE  unheard' = 0 /\ (~Completed(step) => ~selfExit' /\ exiting' = "no")
    BY <1>3 DEF FullFits, Completed, Last
  <2>1. unheard = 0 /\ (~Completed(onScreen) => ~selfExit /\ exiting = "no")
    BY <1>7 DEF PageIInv, FullFits
  <2>2. Completed(onScreen) => Completed(step)
    <3>1. ~(step < onScreen) /\ step <= Last /\ Last \in Nat
      BY <1>7, StepsCounted
    <3> QED
      BY <1>5, <3>1 DEF Completed
  <2> QED
    BY <1>3, <2>1, <2>2
<1>11. CameraFits'
  <2>1. begun' => camera = "active"
    BY <1>2 DEF PageIInv, CameraFits
  <2>2. \A t \in Slots : kind'[t] \in {"begin", "start"} => camera = "active"
    BY <1>4 DEF PageIInv, CameraFits
  <2> QED
    BY <1>3, <2>1, <2>2, CameraStays
<1> QED
  BY <1>6, <1>8, <1>9, <1>10, <1>11 DEF PageIInv

LEMMA DroppedSound ==
  ASSUME PageIInv, NEW s \in Slots, Reply(s), ~mounted PROVE PageIInv'
<1>1. /\ view[s] # 0 /\ Free(s) /\ busy' = FALSE
      /\ UNCHANGED <<onScreen, mounted, eye, full, window, begun, tangled>>
  BY DEF Reply
<1>2. kind[s] \notin {"free", "begin"}
  BY <1>1 DEF PageIInv, CallsFit
<1>3. Fail(s)
  BY <1>1, <1>2 DEF Fail
<1> QED
  BY <1>3, FailSound

LEMMA LeaveSound == PageIInv /\ Leave => PageIInv'
<1> SUFFICES ASSUME PageIInv, Leave PROVE PageIInv'
  OBVIOUS
<1>1. /\ mounted' = FALSE /\ held' = FALSE /\ asked' = FALSE /\ late' = opening
      /\ UNCHANGED <<server, onScreen, busy, camera, opening, permission, begun, tangled>>
      /\ timer' = (timer /\ FALSE) /\ away' = (away /\ FALSE)
      /\ UNCHANGED <<focused, visible, signals, armedSince>>
      /\ GiveBack(FALSE)
  BY DEF Leave, Disarm
<1>2. timer' = FALSE /\ away' = FALSE /\ UNCHANGED <<at, kind, view>>
  BY <1>1 DEF server
<1>3. unheard' = unheard /\ fullscreen' = fullscreen /\ selfExit' \in BOOLEAN
      /\ exiting' \in {"no", "first", "retry"}
  <2>1. CASE fullscreen /\ exiting = "no"
    <3>1. selfExit' = TRUE /\ exiting' = "first" /\ UNCHANGED <<fullscreen, unheard>>
      BY <1>1, <2>1 DEF GiveBack
    <3> QED
      BY <3>1
  <2>2. CASE ~(fullscreen /\ exiting = "no")
    <3>1. UNCHANGED <<fullscreen, selfExit, exiting, unheard>>
      BY <1>1, <2>2 DEF GiveBack, full
    <3> QED
      BY <3>1, PageFlags, PageTypes
  <2> QED
    BY <2>1, <2>2
<1>4. PageTypeOK'
  <2>1. /\ mounted' \in BOOLEAN /\ opening' \in BOOLEAN /\ held' \in BOOLEAN /\ late' \in BOOLEAN
        /\ asked' \in BOOLEAN /\ timer' \in BOOLEAN /\ away' \in BOOLEAN /\ busy' \in BOOLEAN
        /\ fullscreen' \in BOOLEAN /\ focused' \in BOOLEAN /\ visible' \in BOOLEAN
        /\ armedSince' \in BOOLEAN /\ begun' \in BOOLEAN /\ tangled' \in BOOLEAN
    BY <1>1, <1>2, <1>3, PageFlags
  <2>2. /\ at' \in Steps /\ onScreen' \in {0} \cup Steps /\ signals' \in Nat /\ unheard' \in Nat
        /\ kind' \in [Slots -> {"free", "load", "begin", "start", "answer", "refresh"}]
        /\ view' \in [Slots -> {0} \cup Steps]
        /\ camera' \in {"idle", "starting", "active", "denied"}
        /\ permission' \in {"granted", "prompt", "denied"}
    BY <1>1, <1>2, <1>3, PageTypes
  <2> QED
    BY <1>3, <2>1, <2>2 DEF PageTypeOK, Steps, Last
<1>5. CallsFit'
  BY <1>1, <1>2 DEF PageIInv, CallsFit
<1>6. WindowFits'
  <2>1. WindowFits /\ Here' = Here /\ Unmarked' = Unmarked /\ ~Armed'
    BY <1>1 DEF PageIInv, Here, Unmarked, Armed
  <2> QED
    BY <1>1, <1>2, <2>1 DEF WindowFits
<1>7. FullFits'
  BY <1>1, <1>3 DEF PageIInv, FullFits
<1>8. CameraFits'
  <2>1. (camera' = "starting") <=> opening'
    BY <1>1 DEF PageIInv, CameraFits
  <2>2. (\A s \in Slots : kind'[s] \in {"begin", "start"} => camera' = "active") /\ (begun' => camera' = "active")
    BY <1>1, <1>2 DEF PageIInv, CameraFits
  <2>3. ~mounted' /\ (~late' => ~opening') /\ ~held'
    BY <1>1
  <2> QED
    BY <2>1, <2>2, <2>3 DEF CameraFits
<1> QED
  BY <1>4, <1>5, <1>6, <1>7, <1>8 DEF PageIInv

(***************************************************************************)
(* The camera                                                              *)
(***************************************************************************)
\* A step of the camera alone.
LEMMA EyeMoves ==
  ASSUME PageIInv, UNCHANGED <<server, screen, full, window, begun, tangled>>, UNCHANGED late,
         camera' \in {"idle", "starting", "active", "denied"}, asked' \in BOOLEAN,
         opening' \in BOOLEAN, held' \in BOOLEAN, permission' \in {"granted", "prompt", "denied"},
         mounted /\ camera' = "active" => held',
         camera = "active" => camera' = "active",
         ~mounted /\ ~late => ~held' /\ ~opening',
         (camera' = "starting") <=> opening'
  PROVE  PageIInv'
<1>1. /\ UNCHANGED <<at, kind, view, onScreen, mounted, busy, fullscreen, selfExit, exiting, unheard>>
      /\ UNCHANGED <<focused, visible, timer, away, signals, armedSince>> /\ UNCHANGED <<begun, tangled, late>>
  BY DEF server, screen, full, window
<1>2. PageTypeOK'
  BY <1>1 DEF PageIInv, PageTypeOK, Steps, Last
<1>3. CallsFit' /\ WindowFits' /\ FullFits'
  <2>1. ~Armed /\ Unmarked => Unmarked'
    BY <1>1 DEF Unmarked
  <2>2. UNCHANGED <<mounted, onScreen, window>> /\ UNCHANGED <<at, kind, view, onScreen, mounted>>
        /\ UNCHANGED <<mounted, onScreen, selfExit, exiting, unheard>> /\ (~tangled' => ~tangled)
    BY <1>1
  <2> QED
    BY <2>1, <2>2, CallsStay, WindowStays, FullStays
<1>4. CameraFits'
  BY <1>1 DEF PageIInv, CameraFits
<1> QED
  BY <1>2, <1>3, <1>4 DEF PageIInv

LEMMA EyeUse ==
  ASSUME PageIInv
  PROVE  /\ mounted /\ camera = "active" => held
         /\ ~mounted /\ ~late => ~held /\ ~opening
         /\ (camera = "starting") <=> opening
BY DEF PageIInv, CameraFits

LEMMA CameraSound ==
  ASSUME PageIInv, PermissionState \/ TryAgain \/ Opened \/ NotOpened \/ ChangePermission
  PROVE  PageIInv'
<1>1. CASE PermissionState
  <2>1. /\ mounted /\ camera = "idle" /\ asked' = TRUE /\ UNCHANGED <<held, permission, late>>
        /\ UNCHANGED <<server, screen, full, window, begun, tangled>>
        /\ (camera' = "starting" /\ opening' = TRUE) \/ (camera' = camera /\ opening' = opening)
    BY <1>1 DEF PermissionState, Active, StartCamera
  <2>2. CASE camera' = "starting" /\ opening' = TRUE
    BY <2>1, <2>2, EyeMoves, EyeUse, PageTypes, PageFlags
  <2>3. CASE camera' = camera /\ opening' = opening
    BY <2>1, <2>3, EyeMoves, EyeUse, PageTypes, PageFlags
  <2> QED
    BY <2>1, <2>2, <2>3
<1>2. CASE TryAgain
  <2>1. /\ mounted /\ camera = "denied" /\ camera' = "starting" /\ opening' = TRUE
        /\ UNCHANGED <<asked, held, permission, late>>
        /\ UNCHANGED <<server, screen, full, window, begun, tangled>>
    BY <1>2 DEF TryAgain, ControlShown, StartCamera
  <2> QED
    BY <2>1, EyeMoves, EyeUse, PageTypes, PageFlags
<1>3. CASE Opened
  <2>1. /\ opening /\ opening' = FALSE /\ camera' = "active" /\ held' = TRUE
        /\ UNCHANGED <<asked, permission, late>>
        /\ UNCHANGED <<server, screen, full, window, begun, tangled>>
    BY <1>3 DEF Opened
  <2> QED
    BY <2>1, EyeMoves, EyeUse, PageTypes, PageFlags
<1>4. CASE NotOpened
  <2>1. /\ opening /\ opening' = FALSE /\ camera' = "denied"
        /\ UNCHANGED <<asked, held, permission, late>>
        /\ UNCHANGED <<server, screen, full, window, begun, tangled>>
    BY <1>4 DEF NotOpened
  <2> QED
    BY <2>1, EyeMoves, EyeUse, PageTypes, PageFlags
<1>5. CASE ChangePermission
  <2>1. /\ permission' \in {"granted", "denied"} /\ UNCHANGED <<camera, asked, opening, held, late>>
        /\ UNCHANGED <<server, screen, full, window, begun, tangled>>
    BY <1>5 DEF ChangePermission
  <2> QED
    BY <2>1, EyeMoves, EyeUse, PageTypes, PageFlags
<1> QED
  BY <1>1, <1>2, <1>3, <1>4, <1>5

(***************************************************************************)
(* Full screen                                                             *)
(***************************************************************************)
LEMMA FullMoves ==
  ASSUME PageIInv, UNCHANGED <<server, screen, eye, window, begun, tangled>>,
         fullscreen' \in BOOLEAN, selfExit' \in BOOLEAN, exiting' \in {"no", "first", "retry"},
         unheard' \in Nat, FullFits'
  PROVE  PageIInv'
<1>1. /\ UNCHANGED <<at, kind, view, onScreen, mounted, busy, camera, asked, opening, held, permission, late>>
      /\ UNCHANGED <<focused, visible, timer, away, signals, armedSince>> /\ UNCHANGED <<begun, tangled>>
  BY DEF server, screen, eye, window
<1>2. PageTypeOK'
  BY <1>1 DEF PageIInv, PageTypeOK, Steps, Last
<1>3. CallsFit' /\ WindowFits' /\ CameraFits'
  <2>1. ~Armed /\ Unmarked => Unmarked'
    BY <1>1 DEF Unmarked
  <2>2. UNCHANGED <<mounted, onScreen, window>> /\ UNCHANGED <<at, kind, view, onScreen, mounted>>
        /\ UNCHANGED <<mounted, camera, held, opening, late>> /\ (~tangled' => ~tangled)
    BY <1>1
  <2>3. (begun' => camera = "active") /\ (\A s \in Slots : kind'[s] \in {"begin", "start"} => camera = "active")
    BY <1>1 DEF PageIInv, CameraFits
  <2> QED
    BY <2>1, <2>2, <2>3, CallsStay, WindowStays, CameraStays
<1> QED
  BY <1>2, <1>3 DEF PageIInv

LEMMA ExitUse ==
  ASSUME PageIInv, NEW b \in BOOLEAN, OnExit(b)
  PROVE  selfExit' \in BOOLEAN /\ unheard' \in Nat
<1>1. CASE ~Active
  <2>1. UNCHANGED <<selfExit, unheard>>
    BY <1>1 DEF OnExit
  <2> QED
    BY <2>1, PageFlags, PageTypes
<1>2. CASE Active
  <2>1. selfExit' = FALSE /\ (unheard' = unheard \/ unheard' = unheard + 1)
    BY <1>2 DEF OnExit
  <2>2. unheard \in Nat
    BY PageTypes
  <2>3. unheard' \in Nat
    BY <2>1, <2>2
  <2>4. selfExit' \in BOOLEAN
    BY <2>1
  <2> QED
    BY <2>3, <2>4
<1> QED
  BY <1>1, <1>2

LEMMA FullscreenSound ==
  ASSUME PageIInv, ExitedByCandidate \/ ExitLands \/ ExitRefused \/ ReturnToFullscreen
  PROVE  PageIInv'
<1>1. FullFits /\ selfExit \in BOOLEAN /\ exiting \in {"no", "first", "retry"} /\ unheard \in Nat
  BY PageFlags, PageTypes DEF PageIInv
<1>2. ASSUME UNCHANGED <<server, screen, eye, window, begun, tangled>>
      PROVE  /\ UNCHANGED <<mounted, onScreen, tangled>>
             /\ Completed(onScreen)' = Completed(onScreen)
  BY <1>2 DEF server, screen, Completed, Last
<1>3. Active => mounted /\ ~Completed(onScreen)
  BY DEF Active
<1>4. CASE ExitedByCandidate
  <2>1. /\ fullscreen' = FALSE /\ OnExit(TRUE) /\ exiting' = exiting
        /\ UNCHANGED <<server, screen, eye, window, begun, tangled>>
    BY <1>4 DEF ExitedByCandidate
  <2>2. selfExit' \in BOOLEAN /\ unheard' \in Nat
    BY <1>1, <2>1, ExitUse
  <2>3. FullFits'
    <3>1. CASE Active
      <4>1. selfExit' = FALSE /\ (~selfExit => unheard' = unheard)
        BY <2>1, <3>1 DEF OnExit
      <4> QED
        BY <1>1, <1>2, <1>3, <2>1, <3>1, <4>1 DEF FullFits
    <3>2. CASE ~Active
      <4>1. UNCHANGED <<selfExit, unheard>>
        BY <2>1, <3>2 DEF OnExit
      <4> QED
        BY <1>1, <1>2, <2>1, <4>1 DEF FullFits
    <3> QED
      BY <3>1, <3>2
  <2> QED
    BY <1>1, <2>1, <2>2, <2>3, FullMoves
<1>5. CASE ExitLands
  <2>1. /\ exiting # "no" /\ fullscreen' = FALSE /\ OnExit(FALSE) /\ exiting' = "no"
        /\ UNCHANGED <<server, screen, eye, window, begun, tangled>>
    BY <1>5 DEF ExitLands
  <2>2. selfExit' \in BOOLEAN /\ unheard' \in Nat
    BY <1>1, <2>1, ExitUse
  <2>3. FullFits'
    <3>1. CASE tangled
      BY <1>2, <2>1, <3>1 DEF FullFits
    <3>2. CASE ~tangled
      <4>1. ~(mounted /\ ~Completed(onScreen)) /\ ~Active
        BY <1>1, <1>3, <2>1, <3>2 DEF FullFits
      <4>2. UNCHANGED <<selfExit, unheard>>
        BY <2>1, <4>1 DEF OnExit
      <4> QED
        BY <1>1, <1>2, <2>1, <4>1, <4>2 DEF FullFits
    <3> QED
      BY <3>1, <3>2
  <2> QED
    BY <1>1, <2>1, <2>2, <2>3, FullMoves
<1>6. CASE ExitRefused
  <2>1. /\ exiting # "no" /\ exiting' = (IF exiting = "first" THEN "retry" ELSE "no")
        /\ selfExit' = (exiting = "first") /\ UNCHANGED <<fullscreen, unheard>>
        /\ UNCHANGED <<server, screen, eye, window, begun, tangled>>
    BY <1>6 DEF ExitRefused
  <2>2. selfExit' \in BOOLEAN /\ exiting' \in {"no", "first", "retry"} /\ fullscreen' \in BOOLEAN
    BY <2>1, PageFlags
  <2>3. FullFits'
    <3>1. CASE tangled
      BY <1>2, <2>1, <3>1 DEF FullFits
    <3>2. CASE ~tangled
      <4>1. ~(mounted /\ ~Completed(onScreen))
        BY <1>1, <2>1, <3>2 DEF FullFits
      <4> QED
        BY <1>1, <1>2, <2>1, <4>1 DEF FullFits
    <3> QED
      BY <3>1, <3>2
  <2> QED
    BY <1>1, <2>1, <2>2, <2>3, FullMoves
<1>7. CASE ReturnToFullscreen
  <2>1. /\ fullscreen' = TRUE /\ UNCHANGED <<selfExit, exiting, unheard>>
        /\ UNCHANGED <<server, screen, eye, window, begun, tangled>>
    BY <1>7 DEF ReturnToFullscreen
  <2>2. FullFits'
    BY <1>1, <1>2, <2>1 DEF FullFits
  <2> QED
    BY <1>1, <2>1, <2>2, FullMoves
<1> QED
  BY <1>4, <1>5, <1>6, <1>7

(***************************************************************************)
(* The window                                                              *)
(***************************************************************************)
LEMMA WindowMoves ==
  ASSUME PageIInv, UNCHANGED <<server, screen, eye, full, begun, tangled>>,
         focused' \in BOOLEAN, visible' \in BOOLEAN, timer' \in BOOLEAN, away' \in BOOLEAN,
         signals' \in Nat, armedSince' \in BOOLEAN,
         ~Armed /\ Unmarked => Unmarked', WindowFits'
  PROVE  PageIInv'
<1>1. /\ UNCHANGED <<at, kind, view, onScreen, mounted, busy, camera, asked, opening, held, permission, late>>
      /\ UNCHANGED <<fullscreen, selfExit, exiting, unheard>> /\ UNCHANGED <<begun, tangled>>
  BY DEF server, screen, eye, full
<1>2. PageTypeOK'
  BY <1>1 DEF PageIInv, PageTypeOK, Steps, Last
<1>3. CallsFit' /\ FullFits' /\ CameraFits'
  <2>1. UNCHANGED <<mounted, onScreen, selfExit, exiting, unheard>>
        /\ UNCHANGED <<at, kind, view, onScreen, mounted>>
        /\ UNCHANGED <<mounted, camera, held, opening, late>> /\ (~tangled' => ~tangled)
    BY <1>1
  <2>2. (begun' => camera = "active") /\ (\A s \in Slots : kind'[s] \in {"begin", "start"} => camera = "active")
    BY <1>1 DEF PageIInv, CameraFits
  <2> QED
    BY <2>1, <2>2, CallsStay, FullStays, CameraStays
<1> QED
  BY <1>2, <1>3 DEF PageIInv

LEMMA WindowUse ==
  ASSUME PageIInv, UNCHANGED <<server, screen, eye, full, begun, tangled>>
  PROVE  /\ Armed' = Armed /\ UNCHANGED tangled /\ WindowFits
         /\ focused \in BOOLEAN /\ visible \in BOOLEAN /\ timer \in BOOLEAN /\ away \in BOOLEAN
         /\ signals \in Nat /\ armedSince \in BOOLEAN /\ Armed \in BOOLEAN
BY PageFlags, PageTypes DEF PageIInv, screen, Armed, Question, Steps, Last

LEMMA BlurSound == PageIInv /\ OnBlur => PageIInv'
<1> SUFFICES ASSUME PageIInv, OnBlur PROVE PageIInv'
  OBVIOUS
<1>1. /\ focused' = FALSE /\ timer' = Armed /\ armedSince' = (IF Here THEN Armed ELSE armedSince)
      /\ UNCHANGED <<visible, away, signals>> /\ UNCHANGED <<server, screen, eye, full, begun, tangled>>
  BY DEF OnBlur, Absent
<1>2. /\ Armed' = Armed /\ UNCHANGED tangled /\ WindowFits
      /\ focused \in BOOLEAN /\ visible \in BOOLEAN /\ timer \in BOOLEAN /\ away \in BOOLEAN
      /\ signals \in Nat /\ armedSince \in BOOLEAN /\ Armed \in BOOLEAN
  BY <1>1, WindowUse
<1>3. WindowFits'
  <2>1. (timer' \/ away' => Armed') /\ (away' => signals' > 0) /\ ~Here'
    BY <1>1, <1>2 DEF WindowFits, Here
  <2>2. ASSUME ~tangled'
        PROVE  /\ signals' <= 1 /\ (Armed' /\ signals' = 1 => away')
               /\ (Armed' /\ armedSince' /\ ~visible' => signals' = 1)
    <3>1. ~visible => armedSince' = armedSince
      BY <1>1 DEF Here
    <3> QED
      BY <1>1, <1>2, <2>2, <3>1 DEF WindowFits
  <2> QED
    BY <2>1, <2>2 DEF WindowFits
<1>4. ~Armed /\ Unmarked => Unmarked'
  BY <1>1 DEF Unmarked
<1>5. armedSince' \in BOOLEAN /\ timer' \in BOOLEAN
  BY <1>1, <1>2
<1> QED
  BY <1>1, <1>2, <1>3, <1>4, <1>5, WindowMoves

\* A departure of a candidate who was being watched.
LEMMA DepartUse ==
  ASSUME PageIInv, Armed, Depart
  PROVE  /\ away' = TRUE /\ signals' \in Nat /\ signals' > 0
         /\ ~tangled => signals' = 1
<1>1. away' = TRUE /\ signals' = (IF away THEN signals ELSE signals + 1) /\ signals \in Nat
  BY PageTypes DEF Depart
<1>2. away => signals > 0
  BY DEF PageIInv, WindowFits
<1>3. ~tangled => signals <= 1 /\ (signals = 1 => away)
  BY DEF PageIInv, WindowFits
<1> QED
  BY <1>1, <1>2, <1>3

LEMMA GraceSound == PageIInv /\ GraceElapses => PageIInv'
<1> SUFFICES ASSUME PageIInv, GraceElapses PROVE PageIInv'
  OBVIOUS
<1>1. /\ timer /\ timer' = FALSE /\ UNCHANGED <<focused, visible, armedSince>>
      /\ UNCHANGED <<server, screen, eye, full, begun, tangled>>
      /\ (IF ~focused THEN Depart ELSE UNCHANGED <<away, signals>>)
  BY DEF GraceElapses
<1>2. /\ Armed' = Armed /\ UNCHANGED tangled /\ WindowFits
      /\ focused \in BOOLEAN /\ visible \in BOOLEAN /\ timer \in BOOLEAN /\ away \in BOOLEAN
      /\ signals \in Nat /\ armedSince \in BOOLEAN /\ Armed \in BOOLEAN
  BY <1>1, WindowUse
<1>3. Armed
  BY <1>1, <1>2 DEF WindowFits
<1>4. CASE focused
  <2>1. UNCHANGED <<away, signals>> /\ Here' = Here /\ Unmarked' = Unmarked
    BY <1>1, <1>4 DEF Here, Unmarked
  <2>2. WindowFits'
    BY <1>1, <1>2, <2>1 DEF WindowFits
  <2> QED
    BY <1>1, <1>2, <1>3, <2>1, <2>2, WindowMoves
<1>5. CASE ~focused
  <2>1. away' = TRUE /\ signals' \in Nat /\ signals' > 0 /\ (~tangled => signals' = 1)
    BY <1>1, <1>3, <1>5, DepartUse
  <2>2. ~Here'
    BY <1>1, <1>5 DEF Here
  <2>3. WindowFits'
    BY <1>1, <1>2, <1>3, <2>1, <2>2 DEF WindowFits
  <2> QED
    BY <1>1, <1>2, <1>3, <2>1, <2>3, WindowMoves
<1> QED
  BY <1>4, <1>5

LEMMA HiddenSound == PageIInv /\ OnHidden => PageIInv'
<1> SUFFICES ASSUME PageIInv, OnHidden PROVE PageIInv'
  OBVIOUS
<1>1. /\ visible /\ visible' = FALSE /\ timer' = FALSE /\ UNCHANGED focused
      /\ armedSince' = (IF Here THEN Armed ELSE armedSince)
      /\ UNCHANGED <<server, screen, eye, full, begun, tangled>>
      /\ (IF Armed THEN Depart ELSE UNCHANGED <<away, signals>>)
  BY DEF OnHidden, Absent
<1>2. /\ Armed' = Armed /\ UNCHANGED tangled /\ WindowFits
      /\ focused \in BOOLEAN /\ visible \in BOOLEAN /\ timer \in BOOLEAN /\ away \in BOOLEAN
      /\ signals \in Nat /\ armedSince \in BOOLEAN /\ Armed \in BOOLEAN
  BY <1>1, WindowUse
<1>3. ~Here' /\ armedSince' \in BOOLEAN
  BY <1>1, <1>2 DEF Here
<1>4. CASE Armed
  <2>1. away' = TRUE /\ signals' \in Nat /\ signals' > 0 /\ (~tangled => signals' = 1)
    BY <1>1, <1>4, DepartUse
  <2>2. WindowFits'
    BY <1>1, <1>2, <1>3, <1>4, <2>1 DEF WindowFits
  <2> QED
    BY <1>1, <1>2, <1>3, <1>4, <2>1, <2>2, WindowMoves
<1>5. CASE ~Armed
  <2>1. UNCHANGED <<away, signals>> /\ ~away
    BY <1>1, <1>2, <1>5 DEF WindowFits
  <2>2. WindowFits'
    BY <1>1, <1>2, <1>3, <1>5, <2>1 DEF WindowFits
  <2>3. Unmarked => Unmarked'
    BY <1>1, <1>5, <2>1 DEF Unmarked
  <2> QED
    BY <1>1, <1>2, <1>3, <2>1, <2>2, <2>3, WindowMoves
<1> QED
  BY <1>4, <1>5

LEMMA ReturnSound == PageIInv /\ OnReturn => PageIInv'
<1> SUFFICES ASSUME PageIInv, OnReturn PROVE PageIInv'
  OBVIOUS
<1>1. /\ timer' = FALSE /\ away' = FALSE /\ signals' = 0 /\ armedSince' = FALSE
      /\ UNCHANGED <<server, screen, eye, full, begun, tangled>>
      /\ (focused' = TRUE /\ visible' = visible) \/ (visible' = TRUE /\ focused' = focused)
  BY DEF OnReturn, Returned
<1>2. focused' \in BOOLEAN /\ visible' \in BOOLEAN
  BY <1>1, PageFlags
<1>3. Unmarked'
  BY <1>1 DEF Unmarked
<1>4. WindowFits'
  BY <1>1, <1>3 DEF WindowFits
<1>5. signals' \in Nat /\ timer' \in BOOLEAN /\ away' \in BOOLEAN /\ armedSince' \in BOOLEAN
  BY <1>1
<1> QED
  BY <1>1, <1>2, <1>3, <1>4, <1>5, WindowMoves

LEMMA PageRests == PageIInv /\ UNCHANGED pageVars => PageIInv'
<1> SUFFICES ASSUME PageIInv, UNCHANGED pageVars PROVE PageIInv'
  OBVIOUS
<1>1. UNCHANGED <<server, screen, full, window, begun, tangled>> /\ UNCHANGED <<camera, asked, opening, held, permission, late>>
  BY DEF pageVars, eye
<1> QED
  BY <1>1, EyeMoves, EyeUse, PageTypes, PageFlags

LEMMA PageStep == PageIInv /\ [PageNext]_pageVars => PageIInv'
<1> SUFFICES ASSUME PageIInv, [PageNext]_pageVars PROVE PageIInv'
  OBVIOUS
<1>1. ASSUME NEW s \in Slots, Serve(s) \/ Reply(s) \/ Fail(s) \/ Expire(s) \/ Answer(s)
               \/ PressBegin(s) \/ Begin(s)
      PROVE  PageIInv'
  <2>1. CASE Reply(s)
    BY <2>1, AppliedSound, DroppedSound
  <2>2. CASE Expire(s)
    BY <2>2, AskingSound DEF Expire
  <2>3. CASE Answer(s)
    BY <2>3, AskingSound DEF Answer
  <2> QED
    BY <1>1, <2>1, <2>2, <2>3, ServeSound, FailSound, PressSound, BeginSound
<1> QED
  BY <1>1, AutoSubmitSound, LeaveSound, CameraSound, FullscreenSound, BlurSound, GraceSound,
     HiddenSound, ReturnSound, PageRests DEF PageNext

(***************************************************************************)
(* Until an older reply replaces a newer one or Begin is pressed with      *)
(* another call in flight, the page is loading, beginning a section or     *)
(* quiet, no reply in flight goes further than the end of the section on   *)
(* screen, and the latch, the timer and the counts of the window's watch   *)
(* say where the candidate is (useProctoring.ts, useSession.ts).           *)
(***************************************************************************)
THEOREM PageInvariant == PageSpec => []PageIInv
<1>1. PageInit => PageIInv
  BY PageInitSound
<1>2. PageIInv /\ [PageNext]_pageVars => PageIInv'
  BY PageStep
<1> QED
  BY <1>1, <1>2, PTL DEF PageSpec

(***************************************************************************)
(* One departure is one event, each exit from full screen is recorded when *)
(* the candidate made it, and the section on screen is watched by a camera *)
(* the hook holds - for any number of sections and of calls in flight.     *)
(***************************************************************************)
THEOREM WatchAlwaysFollowsThePage == PageSpec => []WatchFollowsThePage
<1>1. PageIInv => WatchFollowsThePage
  <2> SUFFICES ASSUME PageIInv PROVE WatchFollowsThePage
    OBVIOUS
  <2>1. OneSignalPerDeparture
    BY DEF PageIInv, WindowFits, FullFits, Unmarked, OneSignalPerDeparture
  <2>2. CameraFollowsThePage
    BY DEF PageIInv, CameraFits, Armed, CameraFollowsThePage
  <2> QED
    BY <2>1, <2>2 DEF WatchFollowsThePage
<1> QED
  BY <1>1, PageInvariant, PTL
=============================================================================
