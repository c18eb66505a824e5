-------------------------- MODULE Accounts_proofs --------------------------
(***************************************************************************)
(* Theorems of Workspace and SignIn, for any number of colleagues,         *)
(* browsers, links and requests, and any bounds.                           *)
(***************************************************************************)
EXTENDS SignIn, Workspace, FiniteSetTheorems, TLAPS

(***************************************************************************)
(* Workspace                                                               *)
(***************************************************************************)
Waiting(c) == order[c].step # "idle"

OneAtATime == \A c, d \in Clerks : Waiting(c) /\ Waiting(d) => c = d

\* What a request knows of the roles while it is the only one.
OrderKnows(c) ==
    LET o == order[c]
    IN  /\ Waiting(c) => Admitted(o.actor)
        /\ o.step \in {"actor", "count", "save"} =>
               o.target \in Present /\ o.was = role[o.target]
        /\ o.step = "save" /\ o.was = "owner" /\ o.wanted # "owner" => Cardinality(Owners) > 1
        /\ o.step = "delete" => o.target # o.actor

Held ==
    /\ Present # {}
    /\ ~deposed => Owners # {}

Serial == OneAtATime /\ (\A c \in Clerks : OrderKnows(c)) /\ Held

WorkspaceIInv == WorkspaceTypeOK /\ (~crossed => Serial)

LEMMA NoOrderIsAnOrder == NoOrder \in Orders
BY WorkspaceAssumption DEF NoOrder, Orders, Ranked

LEMMA WorkspaceInitSound == WorkspaceInit => WorkspaceIInv
<1> SUFFICES ASSUME WorkspaceInit PROVE WorkspaceIInv
  OBVIOUS
<1>1. WorkspaceTypeOK
  BY NoOrderIsAnOrder DEF WorkspaceInit, WorkspaceTypeOK, Ranked
<1>2. Founder \in Owners /\ Founder \in Present
  BY WorkspaceAssumption DEF WorkspaceInit, Owners, Present, Ranked
<1>3. \A c \in Clerks : ~Waiting(c) /\ order[c].step = "idle"
  BY DEF WorkspaceInit, Waiting, NoOrder
<1> QED
  BY <1>1, <1>2, <1>3 DEF WorkspaceIInv, Serial, OneAtATime, OrderKnows, Held

\* A request that arrives finds nobody else, or crosses somebody.
LEMMA OrderKeeps ==
    ASSUME WorkspaceIInv, NEW c \in Clerks, NEW actor \in Members, NEW target \in Members,
           NEW wanted \in Ranked, NEW step \in {"target", "delete", "create"},
           step = "delete" => target # actor,
           Order(c, step, actor, target, wanted)
    PROVE  WorkspaceIInv'
<1>1. [step |-> step, actor |-> actor, target |-> target, wanted |-> wanted, was |-> "owner"]
        \in Orders
  BY DEF Orders, Ranked
<1>2. WorkspaceTypeOK'
  BY <1>1 DEF Order, WorkspaceIInv, WorkspaceTypeOK
<1>3. ASSUME ~crossed' PROVE Serial'
  <2>1. ~crossed /\ Serial /\ \A d \in Clerks : ~Waiting(d)
    BY <1>3 DEF Order, WorkspaceIInv, Waiting
  <2>2. /\ order' = [order EXCEPT ![c] = [step |-> step, actor |-> actor, target |-> target,
                                          wanted |-> wanted, was |-> "owner"]]
        /\ UNCHANGED <<role, deposed>>
        /\ Admitted(actor)
    BY DEF Order
  <2>3. OneAtATime' /\ Held'
    BY <2>1, <2>2 DEF OneAtATime, Waiting, Serial, Held, Present, Owners, WorkspaceIInv,
       WorkspaceTypeOK
  <2>4. \A d \in Clerks : OrderKnows(d)'
    BY <2>1, <2>2 DEF OrderKnows, Waiting, Serial, Present, Owners, Admitted, WorkspaceIInv,
       WorkspaceTypeOK
  <2> QED
    BY <2>3, <2>4 DEF Serial
<1> QED
  BY <1>2, <1>3 DEF WorkspaceIInv

\* A step of a request that changes nothing but its own order keeps what the others, of
\* whom there are none, and the roles are held to.
LEMMA OwnOrderKeeps ==
    ASSUME WorkspaceIInv, NEW c \in Clerks, Waiting(c), NEW o \in Orders,
           order' = [order EXCEPT ![c] = o],
           UNCHANGED <<role, orders, crossed, deposed>>,
           ~crossed => OrderKnows(c)'
    PROVE  WorkspaceIInv'
<1>1. WorkspaceTypeOK'
  BY DEF WorkspaceIInv, WorkspaceTypeOK
<1>2. ASSUME ~crossed PROVE Serial'
  <2>1. Serial /\ \A d \in Clerks \ {c} : order'[d] = order[d] /\ ~Waiting(d)
    BY <1>2 DEF WorkspaceIInv, Serial, OneAtATime, Waiting, WorkspaceTypeOK
  <2>2. OneAtATime' /\ Held'
    BY <2>1 DEF OneAtATime, Waiting, Serial, Held, Present, Owners
  <2>3. \A d \in Clerks : OrderKnows(d)'
    <3> TAKE d \in Clerks
    <3>1. CASE d = c
      BY <3>1, <1>2
    <3>2. CASE d # c
      BY <3>2, <2>1 DEF OrderKnows, Waiting, Serial, Present, Owners, Admitted
    <3> QED
      BY <3>1, <3>2
  <2> QED
    BY <2>2, <2>3 DEF Serial
<1> QED
  BY <1>1, <1>2 DEF WorkspaceIInv

LEMMA RefusedKeeps ==
    ASSUME WorkspaceIInv, NEW c \in Clerks, Waiting(c), Refused(c)
    PROVE  WorkspaceIInv'
<1>1. order'[c] = NoOrder /\ NoOrder.step = "idle"
  BY DEF Refused, Close, WorkspaceIInv, WorkspaceTypeOK, NoOrder
<1>2. OrderKnows(c)'
  BY <1>1 DEF OrderKnows, Waiting
<1> QED
  BY <1>2, NoOrderIsAnOrder, OwnOrderKeeps DEF Refused, Close

LEMMA ProceedKeeps ==
    ASSUME WorkspaceIInv, NEW c \in Clerks, Waiting(c),
           NEW step \in {"actor", "count", "save"}, NEW was \in Ranked,
           Proceed(c, step, was),
           ~crossed => /\ order[c].target \in Present
                       /\ was = role[order[c].target]
                       /\ step = "save" /\ was = "owner" /\ order[c].wanted # "owner" =>
                              Cardinality(Owners) > 1
    PROVE  WorkspaceIInv'
<1> DEFINE o == [step |-> step, actor |-> order[c].actor, target |-> order[c].target,
                 wanted |-> order[c].wanted, was |-> was]
<1>1. o \in Orders
  BY DEF WorkspaceIInv, WorkspaceTypeOK, Orders
<1>2. order' = [order EXCEPT ![c] = o] /\ UNCHANGED <<role, orders, crossed, deposed>>
  BY DEF Proceed
<1>3. ASSUME ~crossed PROVE OrderKnows(c)'
  <2>1. order'[c] = o
    BY <1>2 DEF WorkspaceIInv, WorkspaceTypeOK
  <2>2. Admitted(order[c].actor)
    BY <1>3 DEF WorkspaceIInv, Serial, OrderKnows
  <2>3. Present' = Present /\ Owners' = Owners
    BY <1>2 DEF Present, Owners
  <2> QED
    BY <1>2, <1>3, <2>1, <2>2, <2>3 DEF OrderKnows, Admitted
<1> QED
  BY <1>1, <1>2, <1>3, OwnOrderKeeps

\* One person's role is written and the request is over.
LEMMA RoleKeeps ==
    ASSUME WorkspaceIInv, NEW c \in Clerks, Waiting(c), NEW new \in Ranked \cup {"gone"},
           role' = [role EXCEPT ![order[c].target] = new],
           Close(c), UNCHANGED <<orders, crossed>>, deposed' \in BOOLEAN,
           ~crossed => Held'
    PROVE  WorkspaceIInv'
<1>1. WorkspaceTypeOK'
  BY NoOrderIsAnOrder DEF WorkspaceIInv, WorkspaceTypeOK, Close, Orders
<1>2. ASSUME ~crossed PROVE Serial'
  <2>1. \A d \in Clerks : order'[d].step = "idle"
    BY <1>2 DEF WorkspaceIInv, Serial, OneAtATime, Waiting, WorkspaceTypeOK, Close, NoOrder
  <2>2. OneAtATime' /\ \A d \in Clerks : OrderKnows(d)'
    BY <2>1 DEF OneAtATime, OrderKnows, Waiting
  <2> QED
    BY <1>2, <2>2 DEF Serial
<1> QED
  BY <1>1, <1>2 DEF WorkspaceIInv

\* More than one owner, and another is left when one goes.
LEMMA AnotherOwner ==
    ASSUME WorkspaceTypeOK, Cardinality(Owners) > 1, NEW m \in Members
    PROVE  \E n \in Owners : n # m
<1>1. IsFiniteSet(Owners)
  BY WorkspaceAssumption, FS_Subset DEF Owners
<1> SUFFICES ASSUME \A n \in Owners : n = m PROVE FALSE
  OBVIOUS
<1>2. Owners \subseteq {m} /\ IsFiniteSet({m}) /\ Cardinality({m}) = 1
  BY FS_Singleton
<1>3. Cardinality(Owners) <= 1
  BY <1>2, FS_Subset
<1> QED
  BY <1>1, <1>3, FS_CardinalityType

LEMMA SaveRoleKeeps ==
    ASSUME WorkspaceIInv, NEW c \in Clerks, SaveRole(c)
    PROVE  WorkspaceIInv'
<1>1. Waiting(c) /\ order[c].step = "save" /\ order[c] \in Orders
  BY DEF SaveRole, Waiting, WorkspaceIInv, WorkspaceTypeOK
<1>2. CASE Refused(c)
  BY <1>1, <1>2, RefusedKeeps
<1>3. CASE /\ order[c].target \in Present
           /\ role' = [role EXCEPT ![order[c].target] = order[c].wanted]
           /\ Close(c)
           /\ UNCHANGED <<orders, crossed, deposed>>
  <2> DEFINE t == order[c].target
  <2>1. order[c].wanted \in Ranked /\ t \in Members
    BY <1>1 DEF Orders
  <2>2. ASSUME ~crossed PROVE Held'
    <3>1. t \in Present'
      BY <1>3, <2>1 DEF Present, WorkspaceIInv, WorkspaceTypeOK
    <3>2. ASSUME ~deposed PROVE Owners' # {}
      <4>1. OrderKnows(c) /\ Owners # {}
        BY <2>2, <3>2 DEF WorkspaceIInv, Serial, Held
      <4>2. \A n \in Owners : n # t => n \in Owners'
        BY <1>3, <2>1 DEF Owners, WorkspaceIInv, WorkspaceTypeOK
      <4>3. CASE order[c].wanted = "owner"
        BY <4>3, <1>3, <2>1 DEF Owners, WorkspaceIInv, WorkspaceTypeOK
      <4>4. CASE order[c].wanted # "owner" /\ order[c].was = "owner"
        BY <4>1, <4>2, <4>4, <1>1, <2>1, AnotherOwner DEF OrderKnows, WorkspaceIInv
      <4>5. CASE order[c].was # "owner"
        BY <4>1, <4>2, <4>5, <1>1 DEF OrderKnows, Owners
      <4> QED
        BY <4>3, <4>4, <4>5
    <3> QED
      BY <1>3, <3>1, <3>2 DEF Held
  <2> QED
    BY <1>1, <1>3, <2>1, <2>2, RoleKeeps DEF WorkspaceIInv, WorkspaceTypeOK
<1> QED
  BY <1>2, <1>3 DEF SaveRole

LEMMA DeleteColleagueKeeps ==
    ASSUME WorkspaceIInv, NEW c \in Clerks, DeleteColleague(c)
    PROVE  WorkspaceIInv'
<1>1. /\ Waiting(c) /\ order[c].step = "delete" /\ order[c] \in Orders
      /\ role' = [role EXCEPT ![order[c].target] = "gone"]
      /\ deposed' = (deposed \/ order[c].target \in Owners)
      /\ Close(c) /\ UNCHANGED <<orders, crossed>>
  BY DEF DeleteColleague, Waiting, WorkspaceIInv, WorkspaceTypeOK
<1>2. ASSUME ~crossed PROVE Held'
  <2>1. /\ OrderKnows(c) /\ Held
        /\ order[c].actor \in Members /\ order[c].target \in Members
    BY <1>1, <1>2 DEF WorkspaceIInv, Serial, Orders
  <2>2. order[c].actor \in Present'
    BY <1>1, <2>1 DEF OrderKnows, Admitted, Present, Ranked, WorkspaceIInv, WorkspaceTypeOK
  <2>3. ~deposed' => Owners' # {}
    <3>1. \A n \in Owners : n # order[c].target => n \in Owners'
      BY <1>1, <2>1 DEF Owners, WorkspaceIInv, WorkspaceTypeOK
    <3> QED
      BY <1>1, <2>1, <3>1 DEF Held
  <2> QED
    BY <2>2, <2>3 DEF Held
<1>3. deposed' \in BOOLEAN
  BY <1>1
<1> QED
  BY <1>1, <1>2, <1>3, RoleKeeps

LEMMA CreateColleagueKeeps ==
    ASSUME WorkspaceIInv, NEW c \in Clerks, CreateColleague(c)
    PROVE  WorkspaceIInv'
<1>1. Waiting(c) /\ order[c] \in Orders
  BY DEF CreateColleague, Waiting, WorkspaceIInv, WorkspaceTypeOK
<1>2. CASE Refused(c)
  BY <1>1, <1>2, RefusedKeeps
<1>3. CASE /\ role[order[c].target] = "new"
           /\ role' = [role EXCEPT ![order[c].target] = order[c].wanted]
           /\ Close(c)
           /\ UNCHANGED <<orders, crossed, deposed>>
  <2>1. order[c].wanted \in Ranked /\ order[c].target \in Members
    BY <1>1 DEF Orders
  <2>2. Owners \subseteq Owners' /\ Present \subseteq Present'
    BY <1>3, <2>1 DEF Owners, Present, WorkspaceIInv, WorkspaceTypeOK, Ranked
  <2>3. ~crossed => Held'
    BY <1>3, <2>2 DEF Held, WorkspaceIInv, Serial
  <2> QED
    BY <1>1, <1>3, <2>1, <2>3, RoleKeeps DEF WorkspaceIInv, WorkspaceTypeOK
<1> QED
  BY <1>2, <1>3 DEF CreateColleague

LEMMA WorkspaceNextKeeps == WorkspaceIInv /\ [WorkspaceNext]_workspace => WorkspaceIInv'
<1> SUFFICES ASSUME WorkspaceIInv, [WorkspaceNext]_workspace PROVE WorkspaceIInv'
  OBVIOUS
<1>1. ASSUME NEW c \in Clerks, NEW actor \in Members, NEW target \in Members,
             NEW wanted \in Ranked, SetOrgRole(c, actor, target, wanted)
      PROVE  WorkspaceIInv'
  BY <1>1, OrderKeeps DEF SetOrgRole
<1>2. ASSUME NEW c \in Clerks, NEW actor \in Members, NEW target \in Members,
             DeleteFind(c, actor, target)
      PROVE  WorkspaceIInv'
  BY <1>2, OrderKeeps DEF DeleteFind, Ranked
<1>3. ASSUME NEW c \in Clerks, NEW actor \in Members, NEW target \in Members,
             CreateFind(c, actor, target)
      PROVE  WorkspaceIInv'
  BY <1>3, OrderKeeps DEF CreateFind, Ranked
<1>4. ASSUME NEW c \in Clerks, FindTarget(c) PROVE WorkspaceIInv'
  <2>1. Waiting(c)
    BY <1>4 DEF FindTarget, Waiting
  <2>2. CASE Refused(c)
    BY <2>1, <2>2, RefusedKeeps
  <2>3. CASE order[c].target \in Present /\ Proceed(c, "actor", role[order[c].target])
    BY <2>1, <2>3, ProceedKeeps DEF Present
  <2> QED
    BY <1>4, <2>2, <2>3 DEF FindTarget
<1>5. ASSUME NEW c \in Clerks, FindActor(c) PROVE WorkspaceIInv'
  <2>1. Waiting(c) /\ order[c].step = "actor" /\ order[c] \in Orders
    BY <1>5 DEF FindActor, Waiting, WorkspaceIInv, WorkspaceTypeOK
  <2>2. CASE Refused(c)
    BY <2>1, <2>2, RefusedKeeps
  <2>3. CASE Proceed(c, IF order[c].was = "owner" /\ order[c].wanted # "owner"
                        THEN "count" ELSE "save", order[c].was)
    <3>1. ~crossed => order[c].target \in Present /\ order[c].was = role[order[c].target]
      BY <2>1 DEF WorkspaceIInv, Serial, OrderKnows
    <3>2. order[c].was \in Ranked
      BY <2>1 DEF Orders
    <3>3. CASE order[c].was = "owner" /\ order[c].wanted # "owner"
      BY <2>1, <2>3, <3>1, <3>2, <3>3, ProceedKeeps
    <3>4. CASE ~(order[c].was = "owner" /\ order[c].wanted # "owner")
      BY <2>1, <2>3, <3>1, <3>2, <3>4, ProceedKeeps
    <3> QED
      BY <3>3, <3>4
  <2> QED
    BY <1>5, <2>2, <2>3 DEF FindActor
<1>6. ASSUME NEW c \in Clerks, CountOwners(c) PROVE WorkspaceIInv'
  <2>1. Waiting(c) /\ order[c].step = "count" /\ order[c] \in Orders
    BY <1>6 DEF CountOwners, Waiting, WorkspaceIInv, WorkspaceTypeOK
  <2>2. CASE Refused(c)
    BY <2>1, <2>2, RefusedKeeps
  <2>3. CASE Cardinality(Owners) > 1 /\ Proceed(c, "save", order[c].was)
    <3>1. ~crossed => order[c].target \in Present /\ order[c].was = role[order[c].target]
      BY <2>1 DEF WorkspaceIInv, Serial, OrderKnows
    <3> QED
      BY <2>1, <2>3, <3>1, ProceedKeeps DEF Orders
  <2> QED
    BY <1>6, <2>2, <2>3 DEF CountOwners
<1>7. CASE UNCHANGED workspace
  BY <1>7 DEF workspace, WorkspaceIInv, WorkspaceTypeOK, Serial, OneAtATime, OrderKnows, Held,
     Waiting, Admitted, Present, Owners
<1> QED
  BY <1>1, <1>2, <1>3, <1>4, <1>5, <1>6, <1>7, SaveRoleKeeps, DeleteColleagueKeeps,
     CreateColleagueKeeps DEF WorkspaceNext

\* While no two requests of colleagues overlap, a request that was read still says what
\* the roles are.
THEOREM WorkspaceInvariant == WorkspaceSpec => []WorkspaceIInv
BY WorkspaceInitSound, WorkspaceNextKeeps, PTL DEF WorkspaceSpec

\* setOrgRole, deletePerson and createByAdmin, one after the other, leave somebody in the
\* workspace, and an owner as long as no owner's account is deleted (users.service.ts:145).
THEOREM WorkspaceStaysHeld == WorkspaceSpec => []WorkspaceIsHeld
<1>1. WorkspaceIInv => WorkspaceIsHeld
  BY DEF WorkspaceIInv, Serial, Held, WorkspaceIsHeld
<1> QED
  BY <1>1, WorkspaceInvariant, PTL

(***************************************************************************)
(* SignIn                                                                  *)
(***************************************************************************)
\* Whom a request serves, and what it was sent.  A copy that is as new as the row is the row.
Fit(r) ==
    /\ pc[r] \in {"claim", "burn", "password", "clear"} => who[r] \in Links
    /\ pc[r] \in {"start", "rotate", "revoke", "change"} =>
           /\ who[r] \in Browsers
           /\ copy[r].version <= version
           /\ copy[r].version = version => copy[r].account = account
    /\ pc[r] = "rotate" =>
           /\ copy[r].account.current # None
           /\ copy[r].presented \in {copy[r].account.current} \cup Tokens(copy[r].account.recent)

RequestsFit == \A r \in Handlers : Fit(r)

\* The current token is the last one issued; the recent ones are older, in every row that
\* a request still carries as well.
Numbered(aRow) ==
    /\ aRow.current <= Len(given)
    /\ \A e \in aRow.recent : 0 < e.token /\ e.token < aRow.current

RowsAreNumbered ==
    /\ account.current \in {None, Len(given)}
    /\ Numbered(account)
    /\ \A r \in Handlers : Numbered(copy[r].account)
    /\ account.password = passwords
    /\ resetTo <= passwords
    /\ \A t \in 1 .. Len(given) : given[t].signIn <= version
    /\ signedOut <= version

\* A link that was not claimed has set no password and nobody is about to; one that was
\* has one request that is about to, or has set its one.
Holding(r, l) == who[r] = l /\ pc[r] \in {"burn", "password"}

Claimed(l) ==
    /\ redeemed[l] <= 1
    /\ \A r, s \in Handlers : Holding(r, l) /\ Holding(s, l) => r = s
    /\ (\E r \in Handlers : Holding(r, l)) => link[l] = "used" /\ redeemed[l] = 0
    /\ redeemed[l] > 0 => link[l] = "used"

LinksAreClaimed == \A l \in Links : Claimed(l)

\* What a row that was never written from a stale copy remembers: tokens of one session,
\* made since the last sign-out, with the moment each was superseded; and none of those
\* that could still be presented is missing.
Remembered(t) ==
    /\ given[t].signIn = given[account.current].signIn
    /\ account.current - t <= MaxRecent
    /\ given[t].superseded + Grace >= now
    => t \in Tokens(account.recent)

OneSession ==
    account.current # None =>
        /\ given[account.current].signIn > signedOut
        /\ \A e \in account.recent :
            /\ given[e.token].signIn = given[account.current].signIn
            /\ given[e.token].password = given[account.current].password
            /\ given[e.token].superseded = e.at
        /\ \A t \in 1 .. account.current - 1 : Remembered(t)

ResetsAreEnforced ==
    mishaps = 0 /\ account.current # None =>
        \/ \E r \in Handlers : pc[r] = "clear"
        \/ given[account.current].password >= resetTo

SignInIInv ==
    /\ SignInTypeOK /\ RequestsFit /\ RowsAreNumbered /\ LinksAreClaimed
    /\ ~raced => OneSession /\ ResetsAreEnforced

LEMMA NoCopyIsACopy == NoCopy \in Copies
BY DEF NoCopy, NoAccount, None, Copies, Rows

LEMMA SignInInitSound == SignInInit => SignInIInv
<1> SUFFICES ASSUME SignInInit PROVE SignInIInv
  OBVIOUS
<1>1. SignInTypeOK
  <2>1. given \in Seq(Issues)
    BY DEF SignInInit
  <2>2. account \in Rows
    BY DEF SignInInit, NoAccount, None, Rows
  <2>3. cookie \in [Browsers -> Nat] /\ redeemed \in [Links -> Nat]
    BY DEF SignInInit, None
  <2>4. /\ link \in [Links -> {"unminted", "live", "used", "expired"}]
        /\ who \in [Handlers -> Browsers \cup Links \cup {Nobody}]
        /\ pc \in [Handlers -> {"idle", "start", "rotate", "revoke", "change",
                                "claim", "burn", "password", "clear"}]
        /\ copy \in [Handlers -> Copies]
    BY NoCopyIsACopy DEF SignInInit
  <2>5. /\ now = 0 /\ mishaps = 0 /\ sent = 0 /\ version = 0 /\ signedOut = 0
        /\ passwords = 0 /\ resetTo = 0 /\ raced = FALSE /\ responses = {}
    BY DEF SignInInit
  <2>6. {now, mishaps, sent, version, signedOut, passwords, resetTo} \subseteq Nat
    BY <2>5
  <2>7. responses \subseteq [browser: Browsers, token: Nat] /\ raced \in BOOLEAN
    BY <2>5
  <2> QED
    BY <2>1, <2>2, <2>3, <2>4, <2>6, <2>7 DEF SignInTypeOK
<1>2. RequestsFit /\ LinksAreClaimed
  BY DEF SignInInit, RequestsFit, Fit, LinksAreClaimed, Claimed, Holding
<1>3. RowsAreNumbered
  BY DEF SignInInit, RowsAreNumbered, Numbered, NoAccount, NoCopy, None
<1>4. OneSession /\ ResetsAreEnforced
  BY DEF SignInInit, OneSession, ResetsAreEnforced, NoAccount
<1> QED
  BY <1>1, <1>2, <1>3, <1>4 DEF SignInIInv

\* Of entries older than the current token, one that at most n tokens superseded is among
\* the n newest.
LEMMA NewestHasTheYoung ==
    ASSUME NEW S \in SUBSET Entries, NEW current \in Nat, NEW n \in Nat,
           \A e \in S : e.token < current,
           NEW f \in S, current - f.token <= n
    PROVE  f \in Newest(S, n)
<1> DEFINE younger == {t \in Tokens(S) : t > f.token}
<1>1. f.token \in Nat /\ f.token < current
  BY DEF Entries
<1>2. younger \subseteq (f.token + 1) .. (current - 1)
  BY DEF Tokens, Entries
<1>3. /\ IsFiniteSet((f.token + 1) .. (current - 1))
      /\ Cardinality((f.token + 1) .. (current - 1)) = current - 1 - f.token
  <2> DEFINE a == f.token + 1
             b == current - 1
  <2>1. a \in Int /\ b \in Int /\ b - a + 1 = current - 1 - f.token /\ a <= b + 1
    BY <1>1
  <2> HIDE DEF a, b
  <2>2. IsFiniteSet(a .. b) /\ Cardinality(a .. b) = IF a > b THEN 0 ELSE b - a + 1
    BY <2>1, FS_Interval
  <2>3. Cardinality(a .. b) = b - a + 1
    BY <2>1, <2>2
  <2>4. Cardinality(a .. b) = current - 1 - f.token
    BY <2>1, <2>3
  <2> QED
    BY <2>2, <2>4 DEF a, b
<1>4. IsFiniteSet(younger) /\ Cardinality(younger) <= current - 1 - f.token
  BY <1>2, <1>3, FS_Subset
<1>5. Cardinality(younger) \in Nat
  BY <1>4, FS_CardinalityType
<1>6. Cardinality(younger) < n
  BY <1>1, <1>4, <1>5
<1> QED
  BY <1>6 DEF Newest

LEMMA NewestAreSome == ASSUME NEW S, NEW n PROVE Newest(S, n) \subseteq S
BY DEF Newest

LEMMA LiveAreSome == ASSUME NEW S PROVE Live(S) \subseteq S
BY NewestAreSome DEF Live

\* A superseded token in its grace is live unless MaxRecent later ones were made.
LEMMA LiveHasTheYoung ==
    ASSUME NEW S \in SUBSET Entries, NEW current \in Nat,
           \A e \in S : e.token < current,
           NEW f \in S, current - f.token <= MaxRecent, f.at + Grace >= now
    PROVE  f \in Live(S)
<1> DEFINE T == {e \in S : e.at + Grace >= now}
<1>1. T \in SUBSET Entries /\ f \in T /\ \A e \in T : e.token < current
  OBVIOUS
<1>2. MaxRecent \in Nat
  BY SignInBounds
<1> HIDE DEF T
<1>3. f \in Newest(T, MaxRecent)
  BY <1>1, <1>2, NewestHasTheYoung
<1> QED
  BY <1>3 DEF Live, T

\* What issuing a token does to the tokens.
LEMMA IssueAdds ==
    ASSUME SignInTypeOK, RowsAreNumbered, NEW r \in Handlers, who[r] \in Browsers,
           NEW signIn \in Nat, NEW pw \in Nat, Issue(r, signIn, pw)
    PROVE  /\ given' \in Seq(Issues)
           /\ Len(given') = Len(given) + 1
           /\ \A t \in 1 .. Len(given) :
                /\ given'[t].signIn = given[t].signIn
                /\ given'[t].password = given[t].password
                /\ t # account.current => given'[t].superseded = given[t].superseded
                /\ t = account.current => given'[t].superseded = now
           /\ given'[Len(given) + 1] =
                [signIn |-> signIn, password |-> pw, superseded |-> now]
           /\ responses' \subseteq [browser : Browsers, token : Nat]
<1> DEFINE left == [i \in 1 .. Len(given) |->
                       IF i = account.current THEN [given[i] EXCEPT !.superseded = now]
                                          ELSE given[i]]
           new == [signIn |-> signIn, password |-> pw, superseded |-> now]
<1>1. given \in Seq(Issues) /\ now \in Nat /\ Len(given) \in Nat
  BY DEF SignInTypeOK
<1>2. new \in Issues
  BY <1>1 DEF Issues
<1>3. \A i \in 1 .. Len(given) : left[i] \in Issues
  <2> TAKE i \in 1 .. Len(given)
  <2>1. given[i] \in Issues
    BY <1>1
  <2>2. [given[i] EXCEPT !.superseded = now] \in Issues
    BY <1>1, <2>1 DEF Issues
  <2> QED
    BY <2>1, <2>2
<1>4. left \in Seq(Issues) /\ Len(left) = Len(given)
  BY <1>1, <1>3
<1>5. given' = Append(left, new)
  BY DEF Issue
<1>6. /\ given' \in Seq(Issues) /\ Len(given') = Len(given) + 1
      /\ \A t \in 1 .. Len(given) : given'[t] = left[t]
      /\ given'[Len(given) + 1] = new
  <2> HIDE DEF left, new
  <2> QED
    BY <1>1, <1>2, <1>4, <1>5
<1>7. \A t \in 1 .. Len(given) :
                /\ left[t].signIn = given[t].signIn
                /\ left[t].password = given[t].password
                /\ t # account.current => left[t].superseded = given[t].superseded
                /\ t = account.current => left[t].superseded = now
  BY <1>1 DEF Issues
<1>8. responses' \subseteq [browser : Browsers, token : Nat]
  BY <1>1 DEF Issue, SignInTypeOK
<1> QED
  BY <1>6, <1>7, <1>8

\* Types of the parts an action leaves alone or replaces by its own.
LEMMA CallTypes ==
    ASSUME SignInIInv, NEW r \in Handlers, NEW x \in Browsers \cup Links,
           NEW presented \in Nat,
           NEW l \in {"start", "rotate", "revoke", "change", "claim"},
           Read(r, x, presented, l), UNCHANGED <<account, link, client, now, mishaps, history>>
    PROVE  SignInTypeOK'
<1>1. [account |-> account, presented |-> presented, version |-> version] \in Copies
  BY DEF SignInIInv, SignInTypeOK, Copies
<1>2. copy' \in [Handlers -> Copies] /\ sent' \in Nat
  BY <1>1 DEF SignInIInv, SignInTypeOK, Read
<1> QED
  BY <1>2 DEF SignInIInv, SignInTypeOK, Read, MoveTo, client, history

\* A request that arrives.
LEMMA ReadKeeps ==
    ASSUME SignInIInv, NEW r \in Handlers, NEW x \in Browsers \cup Links,
           NEW presented \in Nat,
           NEW l \in {"start", "rotate", "revoke", "change", "claim"},
           l = "claim" => x \in Links,
           l # "claim" => x \in Browsers,
           l = "rotate" => account.current # None /\ presented \in Accepted,
           Read(r, x, presented, l), UNCHANGED <<account, link, client, now, mishaps, history>>
    PROVE  SignInIInv'
<1>1. SignInTypeOK'
  BY CallTypes
<1>2. /\ \A s \in Handlers \ {r} : pc'[s] = pc[s] /\ who'[s] = who[s] /\ copy'[s] = copy[s]
      /\ pc'[r] = l /\ who'[r] = x /\ pc[r] = "idle"
      /\ copy'[r] = [account |-> account, presented |-> presented, version |-> version]
      /\ UNCHANGED <<account, link, now, mishaps, given, version, signedOut, passwords, resetTo,
                     redeemed, raced>>
  BY DEF SignInIInv, SignInTypeOK, Read, MoveTo, history
<1>3. RequestsFit'
  <2>1. Tokens(Live(account.recent)) \subseteq Tokens(account.recent)
    BY LiveAreSome DEF Tokens
  <2>2. Fit(r)'
    <3>1. l = "rotate" => presented \in {account.current} \cup Tokens(account.recent)
      BY <2>1 DEF Accepted
    <3> QED
      BY <1>2, <3>1 DEF Fit, Tokens, SignInIInv, SignInTypeOK
  <2>3. \A s \in Handlers \ {r} : Fit(s)'
    BY <1>2 DEF Fit, Tokens, SignInIInv, RequestsFit
  <2> QED
    BY <2>2, <2>3 DEF RequestsFit
<1>4. RowsAreNumbered'
  BY <1>2 DEF RowsAreNumbered, Numbered, SignInIInv
<1>5. LinksAreClaimed'
  BY <1>2 DEF LinksAreClaimed, Claimed, Holding, SignInIInv
<1>6. ASSUME ~raced PROVE OneSession' /\ ResetsAreEnforced'
  <2>1. OneSession'
    BY <1>2, <1>6 DEF OneSession, Remembered, Tokens, SignInIInv
  <2>2. \A s \in Handlers : pc[s] = "clear" => pc'[s] = "clear"
    BY <1>2
  <2> QED
    BY <1>2, <1>6, <2>1, <2>2 DEF ResetsAreEnforced, SignInIInv
<1> QED
  BY <1>1, <1>2, <1>3, <1>4, <1>5, <1>6 DEF SignInIInv

\* A request ends, or goes on to hold its link or to clear the tokens; the others are left
\* alone, and the row changes only with its version.
LEMMA FitKeeps ==
    ASSUME SignInIInv, NEW r \in Handlers,
           \A s \in Handlers \ {r} : pc'[s] = pc[s] /\ who'[s] = who[s] /\ copy'[s] = copy[s],
           \/ pc'[r] = "idle"
           \/ pc'[r] \in {"burn", "password", "clear"} /\ who'[r] \in Links,
           \/ version' = version /\ account' = account
           \/ version' = version + 1
    PROVE  RequestsFit'
<1>1. Fit(r)'
  BY DEF Fit
<1>2. ASSUME NEW s \in Handlers \ {r} PROVE Fit(s)'
  <2>1. Fit(s) /\ pc'[s] = pc[s] /\ who'[s] = who[s] /\ copy'[s] = copy[s]
    BY DEF SignInIInv, RequestsFit
  <2>2. version \in Nat /\ copy[s].version \in Nat
    BY DEF SignInIInv, SignInTypeOK, Copies
  <2>3. ASSUME pc[s] \in {"start", "rotate", "revoke", "change"}
        PROVE  /\ copy'[s].version <= version'
               /\ copy'[s].version = version' => copy'[s].account = account'
    BY <2>1, <2>2, <2>3 DEF Fit
  <2> QED
    BY <2>1, <2>3 DEF Fit, Tokens
<1> QED
  BY <1>1, <1>2 DEF RequestsFit

\* A request that holds no link takes or gives up none.
LEMMA LinksKeep ==
    ASSUME SignInIInv, UNCHANGED <<link, redeemed>>,
           \A s \in Handlers, l \in Links : Holding(s, l)' => Holding(s, l)
    PROVE  LinksAreClaimed'
BY DEF LinksAreClaimed, Claimed, SignInIInv

\* A request that is done.
LEMMA FinishEffect ==
    ASSUME SignInTypeOK, NEW r \in Handlers, Finish(r)
    PROVE  /\ \A s \in Handlers \ {r} :
                 pc'[s] = pc[s] /\ who'[s] = who[s] /\ copy'[s] = copy[s]
           /\ pc'[r] = "idle" /\ who'[r] = Nobody /\ copy'[r] = NoCopy
           /\ pc' \in [Handlers -> {"idle", "start", "rotate", "revoke", "change",
                                   "claim", "burn", "password", "clear"}]
           /\ who' \in [Handlers -> Browsers \cup Links \cup {Nobody}]
           /\ copy' \in [Handlers -> Copies]
BY NoCopyIsACopy DEF SignInTypeOK, Finish, MoveTo

\* Copies stay numbered while tokens are only added.
LEMMA CopiesKeep ==
    ASSUME SignInIInv, NEW r \in Handlers, Finish(r), Len(given') \in Nat,
           Len(given) <= Len(given')
    PROVE  \A s \in Handlers : Numbered(copy[s].account)'
<1>1. Numbered(NoCopy.account)'
  BY DEF Numbered, NoCopy, NoAccount, None
<1>2. ASSUME NEW s \in Handlers \ {r} PROVE Numbered(copy[s].account)'
  <2>1. SignInTypeOK /\ Numbered(copy[s].account)
    BY DEF SignInIInv, RowsAreNumbered
  <2>2. copy'[s] = copy[s]
    BY <2>1, FinishEffect, Zenon
  <2>3. copy'[s] = copy[s] /\ Numbered(copy[s].account) /\ copy[s] \in Copies
    BY <2>1, <2>2 DEF SignInTypeOK
  <2>4. Len(given) \in Nat /\ copy[s].account.current \in Nat
    <3>1. given \in Seq(Issues)
      BY <2>1 DEF SignInTypeOK
    <3>2. copy[s].account \in Rows
      BY <2>3, Zenon DEF Copies
    <3> QED
      BY <3>1, <3>2 DEF Rows
  <2> QED
    BY <2>3, <2>4 DEF Numbered
<1> QED
  BY <1>1, <1>2, FinishEffect DEF SignInIInv

\* A request that is done and leaves everything else as it is.
LEMMA EndKeeps ==
    ASSUME SignInIInv, NEW r \in Handlers, Finish(r),
           pc[r] = "clear" => mishaps' # 0,
           mishaps' \in Nat, mishaps <= mishaps',
           UNCHANGED <<account, link, client, now, sent, history>>
    PROVE  SignInIInv'
<1>1. SignInTypeOK'
  BY FinishEffect DEF SignInIInv, SignInTypeOK, client, history
<1>2. RequestsFit'
  BY FinishEffect, FitKeeps DEF SignInIInv, history
<1>3. RowsAreNumbered'
  <2>1. Len(given') = Len(given) /\ Len(given) \in Nat
    BY DEF SignInIInv, SignInTypeOK, history
  <2>2. \A s \in Handlers : Numbered(copy[s].account)'
    BY <2>1, CopiesKeep
  <2> QED
    BY <2>2 DEF RowsAreNumbered, Numbered, SignInIInv, history
<1>4. LinksAreClaimed'
  BY FinishEffect, LinksKeep DEF SignInIInv, Holding, history
<1>5. ASSUME ~raced PROVE OneSession' /\ ResetsAreEnforced'
  <2>1. OneSession'
    BY <1>5 DEF OneSession, Remembered, Tokens, SignInIInv, history
  <2>2. ASSUME mishaps' = 0 PROVE ResetsAreEnforced'
    <3>1. mishaps = 0 /\ \A s \in Handlers : pc[s] = "clear" => pc'[s] = "clear"
      BY <2>2, FinishEffect DEF SignInIInv, SignInTypeOK
    <3> QED
      BY <1>5, <3>1 DEF ResetsAreEnforced, SignInIInv, history
  <2> QED
    BY <2>1, <2>2 DEF ResetsAreEnforced
<1> QED
  BY <1>1, <1>2, <1>3, <1>4, <1>5 DEF SignInIInv, history

\* The tokens are cleared: nothing is left to remember.
LEMMA ClearKeeps ==
    ASSUME SignInIInv, NEW r \in Handlers, Finish(r),
           account' = [account EXCEPT !.current = None, !.recent = {}],
           version' = version + 1, signedOut' = version + 1,
           raced' \in BOOLEAN,
           UNCHANGED <<link, client, elapsed, given, passwords, resetTo, redeemed>>
    PROVE  SignInIInv'
<1>1. /\ account' \in Rows /\ account'.current = None /\ account'.recent = {}
      /\ account'.password = account.password
  BY DEF SignInIInv, SignInTypeOK, Rows, None
<1>2. SignInTypeOK'
  BY <1>1, FinishEffect DEF SignInIInv, SignInTypeOK, client, elapsed
<1>3. RequestsFit'
  BY FinishEffect, FitKeeps DEF SignInIInv
<1>4. RowsAreNumbered'
  <2>1. Len(given') = Len(given) /\ Len(given) \in Nat
    BY DEF SignInIInv, SignInTypeOK
  <2>2. \A s \in Handlers : Numbered(copy[s].account)'
    BY <2>1, CopiesKeep
  <2>3. Numbered(account)'
    BY <1>1, <2>1 DEF Numbered, None
  <2>4. \A t \in 1 .. Len(given') : given'[t].signIn <= version'
    <3> TAKE t \in 1 .. Len(given')
    <3>1. given[t] \in Issues /\ given[t].signIn <= version /\ version \in Nat
      BY DEF SignInIInv, RowsAreNumbered, SignInTypeOK
    <3> QED
      BY <3>1 DEF Issues
  <2>5. signedOut' <= version'
    BY DEF SignInIInv, SignInTypeOK
  <2> QED
    BY <1>1, <2>2, <2>3, <2>4, <2>5 DEF RowsAreNumbered, SignInIInv
<1>5. LinksAreClaimed'
  BY FinishEffect, LinksKeep DEF SignInIInv, Holding
<1>6. OneSession' /\ ResetsAreEnforced'
  BY <1>1 DEF OneSession, ResetsAreEnforced
<1> QED
  BY <1>2, <1>3, <1>4, <1>5, <1>6 DEF SignInIInv

LEMMA LogoutKeeps ==
    ASSUME SignInIInv, NEW r \in Handlers, NEW b \in Browsers, Logout(r, b)
    PROVE  SignInIInv'
<1>1. /\ account' \in Rows /\ account'.current = None /\ account'.recent = {}
      /\ account'.password = account.password
  BY DEF Logout, SignInIInv, SignInTypeOK, Rows, None
<1>2. SignInTypeOK'
  <2>1. responses' \subseteq [browser: Browsers, token: Nat]
    BY DEF Logout, SignInIInv, SignInTypeOK, None
  <2> QED
    BY <1>1, <2>1 DEF Logout, SignInIInv, SignInTypeOK, requests
<1>3. RequestsFit'
  BY FitKeeps DEF Logout, requests, SignInIInv
<1>4. RowsAreNumbered'
  <2>1. \A s \in Handlers : Numbered(copy[s].account)'
    BY DEF Logout, requests, SignInIInv, RowsAreNumbered, Numbered
  <2>2. Numbered(account)'
    BY <1>1 DEF Logout, Numbered, None, SignInIInv, SignInTypeOK
  <2>3. \A t \in 1 .. Len(given') : given'[t].signIn <= version'
    <3> TAKE t \in 1 .. Len(given')
    <3>1. given[t] \in Issues /\ given[t].signIn <= version /\ version \in Nat
      BY DEF Logout, SignInIInv, RowsAreNumbered, SignInTypeOK
    <3> QED
      BY <3>1 DEF Issues, Logout
  <2>4. signedOut' <= version'
    BY DEF Logout, SignInIInv, SignInTypeOK
  <2> QED
    BY <1>1, <2>1, <2>2, <2>3, <2>4 DEF RowsAreNumbered, SignInIInv, Logout
<1>5. LinksAreClaimed'
  BY LinksKeep DEF Logout, requests, Holding
<1>6. OneSession' /\ ResetsAreEnforced'
  BY <1>1 DEF OneSession, ResetsAreEnforced
<1> QED
  BY <1>2, <1>3, <1>4, <1>5, <1>6 DEF SignInIInv

\* A token is issued and becomes the current one of the row.
LEMMA IssueKeepsNumbers ==
    ASSUME SignInIInv, NEW r \in Handlers, who[r] \in Browsers,
           NEW signIn \in Nat, NEW pw \in Nat, NEW recent \in SUBSET Entries,
           Issue(r, signIn, pw), Finish(r), signIn <= version + 1,
           account' = [account EXCEPT !.current = Len(given) + 1, !.recent = recent],
           version' = version + 1, raced' \in BOOLEAN,
           \A e \in recent : 0 < e.token /\ e.token <= Len(given),
           UNCHANGED <<link, cookie, elapsed, signedOut, passwords, resetTo, redeemed>>
    PROVE  /\ SignInTypeOK' /\ RequestsFit' /\ RowsAreNumbered' /\ LinksAreClaimed'
           /\ account'.current = Len(given) + 1 /\ account'.recent = recent
<1>1. /\ given' \in Seq(Issues) /\ Len(given') = Len(given) + 1
      /\ \A t \in 1 .. Len(given) : given'[t].signIn = given[t].signIn
      /\ given'[Len(given) + 1].signIn = signIn
      /\ responses' \subseteq [browser : Browsers, token : Nat]
  <2>1. SignInTypeOK /\ RowsAreNumbered
    BY DEF SignInIInv
  <2>2. /\ given' \in Seq(Issues) /\ Len(given') = Len(given) + 1
        /\ \A t \in 1 .. Len(given) : given'[t].signIn = given[t].signIn
        /\ given'[Len(given) + 1] =
                [signIn |-> signIn, password |-> pw, superseded |-> now]
        /\ responses' \subseteq [browser : Browsers, token : Nat]
    BY <2>1, IssueAdds, Zenon
  <2> QED
    BY <2>2
<1>2. Len(given) \in Nat /\ version \in Nat /\ given \in Seq(Issues)
  BY DEF SignInIInv, SignInTypeOK
<1>3. /\ account' \in Rows /\ account'.current = Len(given) + 1 /\ account'.recent = recent
      /\ account'.password = account.password
  <2>1. account \in Rows /\ Len(given) + 1 \in Nat
    BY <1>2 DEF SignInIInv, SignInTypeOK
  <2> QED
    BY <2>1 DEF Rows
<1>4. SignInTypeOK'
  <2>1. SignInTypeOK
    BY DEF SignInIInv
  <2>2. /\ pc' \in [Handlers -> {"idle", "start", "rotate", "revoke", "change",
                                "claim", "burn", "password", "clear"}]
        /\ who' \in [Handlers -> Browsers \cup Links \cup {Nobody}]
        /\ copy' \in [Handlers -> Copies]
    BY <2>1, FinishEffect, Zenon
  <2>3. /\ link' = link /\ cookie' = cookie /\ redeemed' = redeemed
        /\ now' = now /\ mishaps' = mishaps /\ sent' = sent
        /\ signedOut' = signedOut /\ passwords' = passwords /\ resetTo' = resetTo
    BY DEF elapsed
  <2>4. {now, mishaps, sent, version, signedOut, passwords, resetTo}' \subseteq Nat
    BY <2>1, <2>3, <1>2 DEF SignInTypeOK
  <2> QED
    BY <1>1, <1>3, <2>1, <2>2, <2>3, <2>4, Zenon DEF SignInTypeOK
<1>5. RequestsFit'
  BY FinishEffect, FitKeeps DEF SignInIInv
<1>6. RowsAreNumbered'
  <2>1. \A s \in Handlers : Numbered(copy[s].account)'
    BY <1>1, <1>2, CopiesKeep
  <2>2. Numbered(account)'
    BY <1>1, <1>2, <1>3 DEF Numbered, Entries
  <2>3. ASSUME NEW t \in 1 .. Len(given') PROVE given'[t].signIn <= version'
    <3>1. CASE t = Len(given) + 1
      BY <1>1, <3>1
    <3>2. CASE t \in 1 .. Len(given)
      <4>1. given[t].signIn <= version /\ given[t] \in Issues
        BY <1>2, <3>2 DEF SignInIInv, RowsAreNumbered
      <4>2. given'[t].signIn = given[t].signIn /\ given[t].signIn \in Nat
        BY <1>1, <3>2, <4>1 DEF Issues
      <4> QED
        BY <1>2, <4>1, <4>2
    <3> QED
      BY <1>1, <1>2, <3>1, <3>2
  <2>4. signedOut' <= version'
    BY DEF SignInIInv, SignInTypeOK, RowsAreNumbered
  <2> QED
    BY <1>1, <1>3, <2>1, <2>2, <2>3, <2>4 DEF RowsAreNumbered, SignInIInv
<1>7. LinksAreClaimed'
  BY FinishEffect, LinksKeep DEF SignInIInv, Holding
<1> QED
  BY <1>3, <1>4, <1>5, <1>6, <1>7

LEMMA StartChainKeeps ==
    ASSUME SignInIInv, NEW r \in Handlers, StartChain(r)
    PROVE  SignInIInv'
<1>1. /\ pc[r] = "start" /\ Update(r, [account EXCEPT !.current = Len(given) + 1, !.recent = {}])
      /\ Issue(r, version + 1, copy[r].account.password) /\ Finish(r)
      /\ UNCHANGED <<link, cookie, elapsed, signedOut, passwords, resetTo, redeemed>>
  BY DEF StartChain
<1>2. /\ Fit(r) /\ who[r] \in Browsers /\ version \in Nat /\ version + 1 \in Nat
      /\ Len(given) \in Nat /\ copy[r] \in Copies /\ copy[r].account.password \in Nat
      /\ account \in Rows /\ raced \in BOOLEAN /\ SignInTypeOK /\ RowsAreNumbered
  <2>1. Fit(r) /\ SignInTypeOK /\ RowsAreNumbered
    BY DEF SignInIInv, RequestsFit
  <2>2. /\ version \in Nat /\ Len(given) \in Nat /\ copy[r] \in Copies
        /\ account \in Rows /\ raced \in BOOLEAN
    BY <2>1 DEF SignInTypeOK
  <2>3. who[r] \in Browsers
    BY <1>1, <2>1 DEF Fit
  <2> QED
    BY <2>1, <2>2, <2>3 DEF Copies, Rows
<1>3. /\ account' = [account EXCEPT !.current = Len(given) + 1, !.recent = {}]
      /\ version' = version + 1 /\ raced' = (raced \/ copy[r].version # version)
  BY <1>1 DEF Update
<1>4. /\ SignInTypeOK' /\ RequestsFit' /\ RowsAreNumbered' /\ LinksAreClaimed'
      /\ account'.current = Len(given) + 1 /\ account'.recent = {}
  <2>1. raced' \in BOOLEAN /\ {} \in SUBSET Entries /\ version + 1 <= version + 1
    BY <1>2, <1>3
  <2> QED
    BY <1>1, <1>2, <1>3, <2>1, IssueKeepsNumbers
<1>5. ASSUME ~raced' PROVE OneSession' /\ ResetsAreEnforced'
  <2>1. /\ given'[Len(given) + 1] =
              [signIn |-> version + 1, password |-> copy[r].account.password, superseded |-> now]
        /\ \A t \in 1 .. Len(given) : given'[t].signIn = given[t].signIn
    BY <1>1, <1>2, IssueAdds, Zenon
  <2>2. /\ given'[Len(given) + 1].signIn = version + 1
        /\ given'[Len(given) + 1].password = copy[r].account.password
    BY <2>1
  <2>3. copy[r].account.password = passwords
    BY <1>1, <1>2, <1>3, <1>5 DEF Fit, RowsAreNumbered
  <2>4. signedOut' = signedOut /\ signedOut \in Nat /\ signedOut <= version
    BY <1>1, <1>2 DEF RowsAreNumbered, SignInTypeOK
  <2>5. ASSUME NEW t \in 1 .. Len(given) PROVE given'[t].signIn # version + 1
    <3>1. given[t].signIn <= version /\ given[t] \in Issues
      BY <1>2 DEF RowsAreNumbered, SignInTypeOK
    <3> QED
      BY <1>2, <2>1, <3>1 DEF Issues
  <2>6. OneSession'
    <3>1. given'[account'.current].signIn > signedOut'
      BY <1>2, <1>4, <2>2, <2>4
    <3>2. \A t \in 1 .. account'.current - 1 : Remembered(t)'
      BY <1>2, <1>4, <2>2, <2>5 DEF Remembered
    <3> QED
      BY <1>4, <3>1, <3>2 DEF OneSession
  <2>7. ResetsAreEnforced'
    <3>1. given'[account'.current].password >= resetTo'
      BY <1>1, <1>2, <1>4, <2>2, <2>3 DEF RowsAreNumbered, SignInTypeOK
    <3> QED
      BY <3>1 DEF ResetsAreEnforced
  <2> QED
    BY <2>6, <2>7
<1> QED
  BY <1>4, <1>5 DEF SignInIInv

\* What a rotation keeps comes from the row that was read.
LEMMA RotatedIsOld ==
    ASSUME SignInIInv, NEW r \in Handlers, pc[r] = "rotate"
    PROVE  /\ Rotated(r) \in SUBSET Entries
           /\ \A e \in Rotated(r) : 0 < e.token /\ e.token <= Len(given)
           /\ Kept(r) \subseteq copy[r].account.recent
<1>1. Kept(r) \subseteq copy[r].account.recent
  BY NewestAreSome, LiveAreSome DEF Kept
<1>2. /\ copy[r].account \in Rows /\ Numbered(copy[r].account) /\ copy[r].account.current # None
      /\ now \in Nat /\ Len(given) \in Nat
  BY DEF SignInIInv, SignInTypeOK, RowsAreNumbered, RequestsFit, Fit, Copies
<1>3. \A e \in Kept(r) : e \in Entries /\ 0 < e.token /\ e.token <= Len(given)
  BY <1>1, <1>2 DEF Numbered, Rows, Entries
<1>4. LET e == [token |-> copy[r].account.current, at |-> now]
      IN  e \in Entries /\ 0 < e.token /\ e.token <= Len(given)
  BY <1>2 DEF Numbered, Rows, Entries, None
<1> QED
  BY <1>1, <1>3, <1>4 DEF Rotated

LEMMA RotateKeeps ==
    ASSUME SignInIInv, NEW r \in Handlers, Rotate(r)
    PROVE  SignInIInv'
<1> DEFINE c == account.current
           p == copy[r].presented
           from == given[copy[r].presented]
<1>1. /\ pc[r] = "rotate"
      /\ Update(r, [account EXCEPT !.current = Len(given) + 1, !.recent = Rotated(r)])
      /\ Issue(r, from.signIn, from.password) /\ Finish(r)
      /\ UNCHANGED <<link, cookie, elapsed, signedOut, passwords, resetTo, redeemed>>
  BY DEF Rotate
<1>2. /\ Fit(r) /\ who[r] \in Browsers /\ version \in Nat /\ now \in Nat
      /\ Len(given) \in Nat /\ copy[r] \in Copies /\ Numbered(copy[r].account)
      /\ account \in Rows /\ raced \in BOOLEAN /\ SignInTypeOK /\ RowsAreNumbered /\ given \in Seq(Issues)
  <2>1. Fit(r) /\ SignInTypeOK /\ RowsAreNumbered /\ Numbered(copy[r].account)
    BY DEF SignInIInv, RequestsFit, RowsAreNumbered
  <2>2. /\ version \in Nat /\ now \in Nat /\ Len(given) \in Nat /\ copy[r] \in Copies
        /\ account \in Rows /\ raced \in BOOLEAN /\ given \in Seq(Issues)
    BY <2>1 DEF SignInTypeOK
  <2>3. who[r] \in Browsers
    BY <1>1, <2>1 DEF Fit
  <2> QED
    BY <2>1, <2>2, <2>3
<1>3. p \in 1 .. Len(given)
  <2>1. copy[r].account.current \in 1 .. Len(given) /\ copy[r].account \in Rows
    BY <1>1, <1>2 DEF Fit, Numbered, Copies, Rows, None
  <2>2. p = copy[r].account.current \/ \E e \in copy[r].account.recent : p = e.token
    BY <1>1, <1>2 DEF Fit, Tokens
  <2> QED
    BY <1>2, <2>1, <2>2 DEF Numbered, Rows, Entries
<1>4. /\ from.signIn \in Nat /\ from.password \in Nat /\ from.signIn <= version
  <2>1. from \in Issues
    BY <1>2, <1>3
  <2> QED
    BY <1>2, <1>3, <2>1 DEF RowsAreNumbered, Issues
<1>5. /\ account' = [account EXCEPT !.current = Len(given) + 1, !.recent = Rotated(r)]
      /\ version' = version + 1 /\ raced' = (raced \/ copy[r].version # version)
  BY <1>1 DEF Update
<1>6. /\ SignInTypeOK' /\ RequestsFit' /\ RowsAreNumbered' /\ LinksAreClaimed'
      /\ account'.current = Len(given) + 1 /\ account'.recent = Rotated(r)
  <2>1. raced' \in BOOLEAN /\ from.signIn <= version + 1
    BY <1>2, <1>4, <1>5
  <2> HIDE DEF from
  <2> QED
    BY <1>1, <1>2, <1>4, <1>5, <2>1, RotatedIsOld, IssueKeepsNumbers
<1>7. ASSUME ~raced' PROVE OneSession' /\ ResetsAreEnforced'
  <2>1. /\ \A t \in 1 .. Len(given) :
                /\ given'[t].signIn = given[t].signIn
                /\ given'[t].password = given[t].password
                /\ t # account.current => given'[t].superseded = given[t].superseded
                /\ t = account.current => given'[t].superseded = now
        /\ given'[Len(given) + 1] =
              [signIn |-> from.signIn, password |-> from.password, superseded |-> now]
    <3> HIDE DEF from
    <3> QED
      BY <1>1, <1>2, <1>4, IssueAdds, Zenon
  <2>2. copy[r].account = account /\ OneSession /\ ResetsAreEnforced
    BY <1>1, <1>2, <1>5, <1>7 DEF Fit, SignInIInv
  <2>3. c # None /\ c = Len(given) /\ c \in 1 .. Len(given) /\ Numbered(account)
    BY <1>1, <1>2, <2>2 DEF Fit, RowsAreNumbered, None
  <2>4. from.signIn = given[c].signIn /\ from.password = given[c].password
    <3>1. p = c \/ \E e \in account.recent : p = e.token
      BY <1>1, <1>2, <2>2 DEF Fit, Tokens
    <3> QED
      BY <2>2, <2>3, <3>1 DEF OneSession
  <2>5. /\ given'[Len(given) + 1].signIn = given[c].signIn
        /\ given'[Len(given) + 1].password = given[c].password
    <3>1. /\ given'[Len(given) + 1].signIn = from.signIn
          /\ given'[Len(given) + 1].password = from.password
      BY <2>1
    <3> QED
      BY <2>4, <3>1
  <2>6. /\ UNCHANGED <<now, mishaps, signedOut, passwords, resetTo>>
        /\ account'.current = c + 1
    BY <1>1, <1>6, <2>3 DEF elapsed
  <2>7. ASSUME NEW e \in Rotated(r)
        PROVE  /\ given'[e.token].signIn = given[c].signIn
               /\ given'[e.token].password = given[c].password
               /\ given'[e.token].superseded = e.at
    <3>1. CASE e = [token |-> copy[r].account.current, at |-> now]
      <4>1. e.token = c /\ e.at = now
        BY <2>2, <3>1
      <4> QED
        BY <2>1, <2>3, <4>1
    <3>2. CASE e \in Kept(r)
      <4>1. e \in account.recent
        BY <1>1, <2>2, <3>2, RotatedIsOld
      <4>2. e.token \in 1 .. Len(given) /\ e.token # c
        BY <1>2, <2>3, <4>1 DEF Numbered, Rows, Entries
      <4> QED
        BY <2>1, <2>2, <2>3, <4>1, <4>2 DEF OneSession
    <3> QED
      BY <3>1, <3>2 DEF Rotated
  <2>8. ASSUME NEW t \in 1 .. c,
               given'[t].signIn = given[c].signIn,
               c + 1 - t <= MaxRecent, given'[t].superseded + Grace >= now
        PROVE  t \in Tokens(Rotated(r))
    <3>1. CASE t = c
      <4>1. [token |-> c, at |-> now] \in Rotated(r)
        BY <2>2 DEF Rotated
      <4>2. [token |-> c, at |-> now].token = c
        OBVIOUS
      <4> QED
        BY <3>1, <4>1, <4>2 DEF Tokens
    <3>2. CASE t # c
      <4>1. /\ t \in 1 .. c - 1 /\ c \in Nat /\ MaxRecent \in Nat /\ MaxRecent > 0
            /\ c - t <= MaxRecent - 1 /\ c - t <= MaxRecent
        BY <2>3, <2>8, <3>2, SignInBounds
      <4>2. given[t].signIn = given[c].signIn /\ given[t].superseded + Grace >= now
        BY <2>1, <2>3, <2>8, <3>2
      <4>3. PICK e \in account.recent : e.token = t
        BY <2>2, <2>3, <4>1, <4>2 DEF OneSession, Remembered, Tokens
      <4>4. e.at + Grace >= now
        BY <2>2, <2>3, <4>2, <4>3 DEF OneSession
      <4>5. account.recent \in SUBSET Entries /\ \A f \in account.recent : f.token < c
        BY <1>2, <2>3 DEF Rows, Numbered
      <4> HIDE DEF c
      <4>6. e \in Live(account.recent)
        BY <4>1, <4>3, <4>4, <4>5, LiveHasTheYoung
      <4>7. /\ Live(account.recent) \in SUBSET Entries /\ MaxRecent - 1 \in Nat
            /\ \A f \in Live(account.recent) : f.token < c
        BY <4>1, <4>5, LiveAreSome
      <4>8. e \in Newest(Live(account.recent), MaxRecent - 1)
        BY <4>1, <4>3, <4>6, <4>7, NewestHasTheYoung
      <4> QED
        BY <2>2, <4>3, <4>8 DEF Rotated, Kept, Tokens
    <3> QED
      BY <3>1, <3>2
  <2>9. OneSession'
    <3>1. given'[account'.current].signIn > signedOut'
      BY <2>2, <2>3, <2>5, <2>6 DEF OneSession
    <3>2. \A t \in 1 .. account'.current - 1 : Remembered(t)'
      BY <1>6, <2>3, <2>5, <2>6, <2>8 DEF Remembered
    <3> QED
      BY <1>6, <2>3, <2>5, <2>6, <2>7, <3>1, <3>2 DEF OneSession
  <2>10. ResetsAreEnforced'
    <3>1. \A s \in Handlers : pc[s] = "clear" => pc'[s] = "clear"
      BY <1>1, <1>2, FinishEffect
    <3> QED
      BY <2>2, <2>3, <2>5, <2>6, <3>1 DEF ResetsAreEnforced
  <2> QED
    BY <2>9, <2>10
<1> QED
  BY <1>6, <1>7 DEF SignInIInv

\* A link is minted or runs out; no request sees it.
LEMMA LinkKeeps ==
    ASSUME SignInIInv, NEW l \in Links, Mint(l) \/ Expire(l)
    PROVE  SignInIInv'
<1>1. /\ UNCHANGED <<account, client, requests, elapsed, history>>
      /\ link[l] # "used"
      /\ link' \in [Links -> {"unminted", "live", "used", "expired"}]
      /\ \A k \in Links \ {l} : link'[k] = link[k]
  BY DEF Mint, Expire, SignInIInv, SignInTypeOK
<1>2. SignInTypeOK'
  BY <1>1 DEF SignInIInv, SignInTypeOK, client, requests, elapsed, history
<1>3. RequestsFit' /\ RowsAreNumbered'
  BY <1>1 DEF SignInIInv, RequestsFit, Fit, Tokens, RowsAreNumbered, Numbered, requests, history
<1>4. LinksAreClaimed'
  <2> SUFFICES ASSUME NEW k \in Links PROVE Claimed(k)'
    BY DEF LinksAreClaimed
  <2>1. Claimed(k) /\ \A s \in Handlers : Holding(s, k)' <=> Holding(s, k)
    BY <1>1 DEF SignInIInv, LinksAreClaimed, Holding, requests
  <2> QED
    BY <1>1, <2>1 DEF Claimed, Holding, requests, history, SignInIInv, SignInTypeOK
<1>5. ASSUME ~raced PROVE OneSession' /\ ResetsAreEnforced'
  BY <1>1, <1>5 DEF SignInIInv, OneSession, Remembered, Tokens, ResetsAreEnforced, requests, elapsed,
     history
<1> QED
  BY <1>1, <1>2, <1>3, <1>4, <1>5 DEF SignInIInv, history

\* What a request of a reset does to the program counters.
LEMMA MoveToEffect ==
    ASSUME SignInTypeOK, NEW r \in Handlers,
           NEW l \in {"burn", "password", "clear"}, MoveTo(r, l)
    PROVE  /\ \A s \in Handlers \ {r} : pc'[s] = pc[s]
           /\ pc'[r] = l
           /\ pc' \in [Handlers -> {"idle", "start", "rotate", "revoke", "change",
                                   "claim", "burn", "password", "clear"}]
BY DEF SignInTypeOK, MoveTo

LEMMA ResetClaimKeeps ==
    ASSUME SignInIInv, NEW r \in Handlers, ResetClaim(r)
    PROVE  SignInIInv'
<1>1. pc[r] = "claim" /\ who[r] \in Links /\ SignInTypeOK
  BY DEF ResetClaim, SignInIInv, RequestsFit, Fit
<1>2. CASE Finish(r) /\ UNCHANGED link
  <2>1. UNCHANGED <<account, client, elapsed, history>>
    BY DEF ResetClaim
  <2>2. mishaps' = mishaps /\ mishaps \in Nat /\ now' = now /\ sent' = sent
    BY <1>1, <2>1 DEF elapsed, SignInTypeOK
  <2> QED
    BY <1>1, <1>2, <2>1, <2>2, EndKeeps
<1>3. CASE /\ link[who[r]] # "used"
           /\ link' = [link EXCEPT ![who[r]] = "used"]
           /\ MoveTo(r, "burn")
           /\ UNCHANGED <<who, copy>>
  <2>1. /\ UNCHANGED <<account, client, who, copy, elapsed, history>>
        /\ link'[who[r]] = "used" /\ \A k \in Links \ {who[r]} : link'[k] = link[k]
        /\ link' \in [Links -> {"unminted", "live", "used", "expired"}]
        /\ \A s \in Handlers \ {r} : pc'[s] = pc[s]
        /\ pc'[r] = "burn"
    BY <1>1, <1>3, MoveToEffect DEF ResetClaim, SignInTypeOK
  <2>2. SignInTypeOK'
    BY <1>1, <1>3, <2>1, MoveToEffect DEF SignInTypeOK, client, elapsed, history
  <2>3. RequestsFit'
    BY <1>1, <2>1, FitKeeps DEF history
  <2>4. RowsAreNumbered'
    BY <2>1 DEF SignInIInv, RowsAreNumbered, Numbered, history
  <2>5. LinksAreClaimed'
    <3> SUFFICES ASSUME NEW k \in Links PROVE Claimed(k)'
      BY DEF LinksAreClaimed
    <3>1. Claimed(k) /\ redeemed[k] \in Nat
      BY <1>1 DEF SignInIInv, LinksAreClaimed, SignInTypeOK
    <3>2. CASE k # who[r]
      <4>1. \A s \in Handlers : Holding(s, k)' <=> Holding(s, k)
        BY <1>1, <2>1, <3>2 DEF Holding
      <4> QED
        BY <2>1, <3>1, <3>2, <4>1 DEF Claimed, history
    <3>3. CASE k = who[r]
      <4>1. redeemed[k] = 0 /\ \A s \in Handlers : ~Holding(s, k)
        BY <1>3, <3>1, <3>3 DEF Claimed
      <4>2. \A s \in Handlers : Holding(s, k)' => s = r
        BY <2>1, <4>1 DEF Holding
      <4> QED
        BY <2>1, <3>3, <4>1, <4>2 DEF Claimed, history
    <3> QED
      BY <3>2, <3>3
  <2>6. ASSUME ~raced PROVE OneSession' /\ ResetsAreEnforced'
    <3>1. \A s \in Handlers : pc[s] = "clear" => pc'[s] = "clear"
      BY <1>1, <2>1
    <3> QED
      BY <2>1, <2>6, <3>1 DEF SignInIInv, OneSession, Remembered, Tokens, ResetsAreEnforced, elapsed,
         history
  <2> QED
    BY <2>1, <2>2, <2>3, <2>4, <2>5, <2>6 DEF SignInIInv, history
<1> QED
  BY <1>2, <1>3 DEF ResetClaim

LEMMA ResetBurnKeeps ==
    ASSUME SignInIInv, NEW r \in Handlers, ResetBurn(r)
    PROVE  SignInIInv'
<1>1. pc[r] = "burn" /\ who[r] \in Links /\ SignInTypeOK
  BY DEF ResetBurn, SignInIInv, RequestsFit, Fit
<1>2. /\ UNCHANGED <<account, client, who, copy, elapsed, history>>
      /\ \A k \in Links : link[k] = "used" => link'[k] = "used"
      /\ link' \in [Links -> {"unminted", "live", "used", "expired"}]
      /\ \A s \in Handlers \ {r} : pc'[s] = pc[s]
      /\ pc'[r] = "password"
  BY <1>1, MoveToEffect DEF ResetBurn, SignInTypeOK
<1>3. SignInTypeOK'
  BY <1>1, <1>2, MoveToEffect DEF ResetBurn, SignInTypeOK, client, elapsed, history
<1>4. RequestsFit'
  BY <1>1, <1>2, FitKeeps DEF history
<1>5. RowsAreNumbered'
  BY <1>2 DEF SignInIInv, RowsAreNumbered, Numbered, history
<1>6. LinksAreClaimed'
  <2> SUFFICES ASSUME NEW k \in Links PROVE Claimed(k)'
    BY DEF LinksAreClaimed
  <2>1. Claimed(k) /\ \A s \in Handlers : Holding(s, k)' <=> Holding(s, k)
    BY <1>1, <1>2 DEF SignInIInv, LinksAreClaimed, Holding
  <2> QED
    BY <1>2, <2>1 DEF Claimed, history
<1>7. ASSUME ~raced PROVE OneSession' /\ ResetsAreEnforced'
  <2>1. \A s \in Handlers : pc[s] = "clear" => pc'[s] = "clear"
    BY <1>1, <1>2
  <2> QED
    BY <1>2, <1>7, <2>1 DEF SignInIInv, OneSession, Remembered, Tokens, ResetsAreEnforced, elapsed,
       history
<1> QED
  BY <1>2, <1>3, <1>4, <1>5, <1>6, <1>7 DEF SignInIInv, history

\* The password is set by the one request that holds the link, which has set none.
LEMMA ResetPasswordKeeps ==
    ASSUME SignInIInv, NEW r \in Handlers, ResetPassword(r)
    PROVE  SignInIInv'
<1>1. pc[r] = "password" /\ who[r] \in Links /\ SignInTypeOK /\ RowsAreNumbered
  BY DEF ResetPassword, SignInIInv, RequestsFit, Fit
<1>2. /\ UNCHANGED <<link, client, who, elapsed, given, signedOut, raced>>
      /\ account' = [account EXCEPT !.password = passwords + 1]
      /\ version' = version + 1 /\ passwords' = passwords + 1 /\ resetTo' = passwords + 1
      /\ redeemed' = [redeemed EXCEPT ![who[r]] = @ + 1]
      /\ copy' = [copy EXCEPT ![r].version = version + 1]
      /\ \A s \in Handlers \ {r} : pc'[s] = pc[s]
      /\ pc'[r] = "clear"
  BY <1>1, MoveToEffect DEF ResetPassword
<1>3. /\ account' \in Rows /\ account'.current = account.current /\ account'.recent = account.recent
      /\ account'.password = passwords'
  <2>1. account \in Rows /\ passwords \in Nat
    BY <1>1 DEF SignInTypeOK
  <2> QED
    BY <1>2, <2>1 DEF Rows
<1>4. /\ copy' \in [Handlers -> Copies] /\ copy'[r].account = copy[r].account
      /\ \A s \in Handlers \ {r} : copy'[s] = copy[s]
  <2>1. copy \in [Handlers -> Copies] /\ version + 1 \in Nat
    BY <1>1 DEF SignInTypeOK
  <2>2. [copy[r] EXCEPT !.version = version + 1] \in Copies
    BY <2>1 DEF Copies
  <2>3. copy' = [copy EXCEPT ![r] = [copy[r] EXCEPT !.version = version + 1]]
    BY <1>2
  <2> QED
    BY <2>1, <2>2, <2>3 DEF Copies
<1>5. SignInTypeOK'
  <2>1. redeemed' \in [Links -> Nat]
    BY <1>1, <1>2 DEF SignInTypeOK
  <2>2. {now', mishaps', sent', version', signedOut', passwords', resetTo'} \subseteq Nat
    BY <1>1, <1>2 DEF SignInTypeOK, elapsed
  <2> QED
    BY <1>1, <1>2, <1>3, <1>4, <2>1, <2>2, MoveToEffect DEF ResetPassword, SignInTypeOK, client
<1>6. RequestsFit'
  BY <1>1, <1>2, <1>4, FitKeeps
<1>7. RowsAreNumbered'
  <2>1. \A s \in Handlers : copy'[s].account = copy[s].account
    BY <1>4
  <2>2. resetTo' <= passwords' /\ signedOut' <= version'
    BY <1>1, <1>2 DEF SignInTypeOK, RowsAreNumbered
  <2>3. \A t \in 1 .. Len(given') : given'[t].signIn <= version'
    <3> TAKE t \in 1 .. Len(given')
    <3>1. given[t] \in Issues /\ given[t].signIn <= version /\ version \in Nat
      BY <1>1, <1>2 DEF RowsAreNumbered, SignInTypeOK
    <3> QED
      BY <1>2, <3>1 DEF Issues
  <2> QED
    BY <1>1, <1>2, <1>3, <2>1, <2>2, <2>3 DEF RowsAreNumbered, Numbered
<1>8. LinksAreClaimed'
  <2> SUFFICES ASSUME NEW k \in Links PROVE Claimed(k)'
    BY DEF LinksAreClaimed
  <2>1. Claimed(k) /\ redeemed \in [Links -> Nat]
    BY <1>1 DEF SignInIInv, LinksAreClaimed, SignInTypeOK
  <2>2. CASE k = who[r]
    <3>1. Holding(r, k) /\ link[k] = "used" /\ redeemed[k] = 0
      BY <1>1, <2>1, <2>2 DEF Holding, Claimed
    <3>2. \A s \in Handlers : ~Holding(s, k)'
      BY <1>2, <2>1, <3>1 DEF Holding, Claimed
    <3> QED
      BY <1>2, <2>1, <2>2, <3>1, <3>2 DEF Claimed
  <2>3. CASE k # who[r]
    <3>1. \A s \in Handlers : Holding(s, k)' <=> Holding(s, k)
      BY <1>2, <2>3 DEF Holding
    <3> QED
      BY <1>2, <2>1, <2>3, <3>1 DEF Claimed
  <2> QED
    BY <2>2, <2>3
<1>9. ASSUME ~raced PROVE OneSession' /\ ResetsAreEnforced'
  <2>1. OneSession
    BY <1>9 DEF SignInIInv
  <2> QED
    BY <1>2, <1>3, <2>1 DEF OneSession, Remembered, Tokens, ResetsAreEnforced, elapsed
<1> QED
  BY <1>2, <1>5, <1>6, <1>7, <1>8, <1>9 DEF SignInIInv

LEMMA ChangeUpdateKeeps ==
    ASSUME SignInIInv, NEW r \in Handlers, ChangeUpdate(r)
    PROVE  SignInIInv'
<1>1. SignInTypeOK /\ RowsAreNumbered /\ Finish(r) /\ pc[r] = "change"
  BY DEF ChangeUpdate, SignInIInv
<1>2. /\ UNCHANGED <<link, client, elapsed, given, signedOut, resetTo, redeemed>>
      /\ account' = [account EXCEPT !.password = passwords + 1]
      /\ version' = version + 1 /\ passwords' = passwords + 1
      /\ raced' = (raced \/ copy[r].version # version)
  BY DEF ChangeUpdate, Update
<1>3. /\ account' \in Rows /\ account'.current = account.current /\ account'.recent = account.recent
      /\ account'.password = passwords'
  <2>1. account \in Rows /\ passwords \in Nat
    BY <1>1 DEF SignInTypeOK
  <2> QED
    BY <1>2, <2>1 DEF Rows
<1>4. SignInTypeOK'
  <2>1. {now', mishaps', sent', version', signedOut', passwords', resetTo'} \subseteq Nat
    BY <1>1, <1>2 DEF SignInTypeOK, elapsed
  <2> QED
    BY <1>1, <1>2, <1>3, <2>1, FinishEffect DEF SignInTypeOK, client
<1>5. RequestsFit'
  BY <1>1, <1>2, FinishEffect, FitKeeps
<1>6. RowsAreNumbered'
  <2>1. \A s \in Handlers : Numbered(copy[s].account)'
    <3>1. Len(given') = Len(given) /\ Len(given) \in Nat
      BY <1>1, <1>2 DEF SignInTypeOK
    <3> QED
      BY <1>1, <3>1, CopiesKeep
  <2>2. resetTo' <= passwords' /\ signedOut' <= version'
    BY <1>1, <1>2 DEF SignInTypeOK, RowsAreNumbered
  <2>3. \A t \in 1 .. Len(given') : given'[t].signIn <= version'
    <3> TAKE t \in 1 .. Len(given')
    <3>1. given[t] \in Issues /\ given[t].signIn <= version /\ version \in Nat
      BY <1>1, <1>2 DEF RowsAreNumbered, SignInTypeOK
    <3> QED
      BY <1>2, <3>1 DEF Issues
  <2> QED
    BY <1>1, <1>2, <1>3, <2>1, <2>2, <2>3 DEF RowsAreNumbered, Numbered
<1>7. LinksAreClaimed'
  BY <1>1, <1>2, FinishEffect, LinksKeep DEF Holding
<1>8. ASSUME ~raced' PROVE OneSession' /\ ResetsAreEnforced'
  <2>1. OneSession /\ ResetsAreEnforced
    BY <1>2, <1>8 DEF SignInIInv
  <2>2. \A s \in Handlers : pc[s] = "clear" => pc'[s] = "clear"
    BY <1>1, FinishEffect
  <2> QED
    BY <1>2, <1>3, <2>1, <2>2 DEF OneSession, Remembered, Tokens, ResetsAreEnforced, elapsed
<1> QED
  BY <1>4, <1>5, <1>6, <1>7, <1>8 DEF SignInIInv

\* Time passes, and a token that was in its grace may no longer be.
LEMMA TickKeeps == ASSUME SignInIInv, Tick PROVE SignInIInv'
<1>1. /\ now' = now + 1 /\ now \in Nat /\ Grace \in Nat /\ SignInTypeOK
      /\ UNCHANGED <<account, link, client, requests, mishaps, sent, history>>
  BY SignInBounds DEF Tick, SignInIInv, SignInTypeOK
<1>2. SignInTypeOK'
  BY <1>1 DEF SignInTypeOK, client, requests, history
<1>3. RequestsFit' /\ RowsAreNumbered' /\ LinksAreClaimed'
  BY <1>1 DEF SignInIInv, RequestsFit, Fit, Tokens, RowsAreNumbered, Numbered, LinksAreClaimed,
     Claimed, Holding, requests, history
<1>4. ASSUME ~raced PROVE OneSession' /\ ResetsAreEnforced'
  <2>1. OneSession /\ ResetsAreEnforced /\ account.current \in {None, Len(given)}
    BY <1>4 DEF SignInIInv, RowsAreNumbered
  <2>2. ASSUME account.current # None, NEW t \in 1 .. account.current - 1, Remembered(t)
        PROVE  Remembered(t)'
    <3>1. given[t].superseded \in Nat
      <4>1. given \in Seq(Issues) /\ account.current = Len(given)
        BY <1>1, <2>1, <2>2 DEF SignInTypeOK
      <4>2. given[t] \in Issues
        BY <2>2, <4>1
      <4> QED
        BY <4>2 DEF Issues
    <3>2. given[t].superseded + Grace >= now' => given[t].superseded + Grace >= now
      BY <1>1, <3>1
    <3> QED
      BY <1>1, <2>2, <3>2 DEF Remembered, Tokens, history
  <2>3. OneSession'
    BY <1>1, <2>1, <2>2 DEF OneSession, history
  <2>4. ResetsAreEnforced'
    BY <1>1, <2>1 DEF ResetsAreEnforced, requests, history
  <2> QED
    BY <2>3, <2>4
<1> QED
  BY <1>1, <1>2, <1>3, <1>4 DEF SignInIInv, history

LEMMA DeliverKeeps == ASSUME SignInIInv, NEW m \in responses, Deliver(m) PROVE SignInIInv'
<1>1. /\ SignInTypeOK /\ m \in [browser: Browsers, token: Nat]
      /\ responses' = responses \ {m} /\ cookie' = [cookie EXCEPT ![m.browser] = m.token]
      /\ UNCHANGED <<account, link, requests, elapsed, history>>
  BY DEF Deliver, SignInIInv, SignInTypeOK
<1>2. SignInTypeOK'
  BY <1>1 DEF SignInTypeOK, requests, elapsed, history
<1>3. RequestsFit'
  BY <1>1 DEF SignInIInv, RequestsFit, Fit, Tokens, requests, elapsed, history
<1>4. RowsAreNumbered'
  BY <1>1 DEF SignInIInv, RowsAreNumbered, Numbered, requests, history
<1>5. LinksAreClaimed'
  BY <1>1 DEF SignInIInv, LinksAreClaimed, Claimed, Holding, requests, history
<1>6. OneSession => OneSession'
  BY <1>1 DEF OneSession, Remembered, Tokens, elapsed, history
<1>7. ResetsAreEnforced => ResetsAreEnforced'
  BY <1>1 DEF ResetsAreEnforced, requests, elapsed, history
<1>8. raced' = raced
  BY <1>1 DEF history
<1> QED
  BY <1>2, <1>3, <1>4, <1>5, <1>6, <1>7, <1>8 DEF SignInIInv

LEMMA SignInNextKeeps == SignInIInv /\ [SignInNext]_signInVars => SignInIInv'
<1> SUFFICES ASSUME SignInIInv, [SignInNext]_signInVars PROVE SignInIInv'
  OBVIOUS
<1>1. ASSUME NEW r \in Handlers, NEW b \in Browsers, LogIn(r, b) PROVE SignInIInv'
  <2>1. None \in Nat
    BY DEF None
  <2> QED
    BY <1>1, <2>1, ReadKeeps DEF LogIn
<1>2. ASSUME NEW r \in Handlers, NEW b \in Browsers, Refresh(r, b) PROVE SignInIInv'
  <2>1. cookie[b] \in Nat /\ account.current # None
    BY <1>2 DEF Refresh, SignInIInv, SignInTypeOK
  <2>2. CASE cookie[b] \in Accepted
    BY <1>2, <2>1, <2>2, ReadKeeps DEF Refresh
  <2>3. CASE cookie[b] \notin Accepted
    BY <1>2, <2>1, <2>3, ReadKeeps DEF Refresh
  <2> QED
    BY <2>2, <2>3
<1>3. ASSUME NEW r \in Handlers, NEW b \in Browsers, ChangeFind(r, b) PROVE SignInIInv'
  <2>1. None \in Nat
    BY DEF None
  <2> QED
    BY <1>3, <2>1, ReadKeeps DEF ChangeFind
<1>4. ASSUME NEW r \in Handlers, NEW l \in Links, ResetFind(r, l) PROVE SignInIInv'
  <2>1. None \in Nat
    BY DEF None
  <2> QED
    BY <1>4, <2>1, ReadKeeps DEF ResetFind
<1>5. ASSUME NEW r \in Handlers, Revoke(r) PROVE SignInIInv'
  <2>1. raced' \in BOOLEAN /\ Finish(r)
    BY <1>5 DEF Revoke, Clear, Update, SignInIInv, SignInTypeOK
  <2> QED
    BY <1>5, <2>1, ClearKeeps DEF Revoke, Clear, Update
<1>6. ASSUME NEW r \in Handlers, ResetClear(r) PROVE SignInIInv'
  <2>1. raced' \in BOOLEAN /\ Finish(r)
    BY <1>6 DEF ResetClear, SignInIInv, SignInTypeOK
  <2> QED
    BY <1>6, <2>1, ClearKeeps DEF ResetClear
<1>7. ASSUME NEW r \in Handlers, Refuse(r) PROVE SignInIInv'
  <2>1. mishaps' # 0 /\ mishaps' \in Nat /\ mishaps <= mishaps' /\ Finish(r)
    BY <1>7 DEF Refuse, SignInIInv, SignInTypeOK
  <2> QED
    BY <1>7, <2>1, EndKeeps DEF Refuse
<1>8. CASE UNCHANGED signInVars
  BY <1>8 DEF SignInIInv, SignInTypeOK, RequestsFit, Fit, Tokens, RowsAreNumbered, Numbered,
     LinksAreClaimed, Claimed, Holding, OneSession, Remembered, ResetsAreEnforced, signInVars, client,
     requests, elapsed, history
<1> QED
  BY <1>1, <1>2, <1>3, <1>4, <1>5, <1>6, <1>7, <1>8, LogoutKeeps, StartChainKeeps, RotateKeeps,
     ResetClaimKeeps, ResetBurnKeeps, ResetPasswordKeeps, ChangeUpdateKeeps, LinkKeeps,
     DeliverKeeps, TickKeeps DEF SignInNext, Call, SignInStep

\* The requests fit what they serve, rows and tokens are numbered in the order of issue,
\* each link has at most one request that is about to set a password by it, and while no
\* row was written from a stale copy its tokens are those of one live session.
THEOREM SignInInvariant == SignInSpec => []SignInIInv
BY SignInInitSound, SignInNextKeeps, PTL DEF SignInSpec

\* resetPassword's conditional update: however many requests present a link at once, and
\* wherever they are cut short, it sets at most one password (auth.service.ts).
THEOREM ALinkWorksOnce == SignInSpec => []LinkWorksOnce
<1>1. SignInIInv => LinkWorksOnce
  BY DEF SignInIInv, LinksAreClaimed, Claimed, LinkWorksOnce
<1> QED
  BY <1>1, SignInInvariant, PTL

\* rotateRefreshToken and liveRecentTokens: a token that was issued and never used is
\* still accepted after up to MaxRecent rotations inside the grace window, in whatever
\* order the responses arrive, for any MaxRecent and any grace.
THEOREM AnUnusedTokenIsHonoured == SignInSpec => []UnusedTokenIsHonoured
<1>1. SignInIInv => UnusedTokenIsHonoured
  <2> SUFFICES ASSUME SignInIInv, ~raced, NEW t \in 1 .. Len(given), SameSession(t), Fresh(t)
               PROVE  t \in Accepted
    BY DEF UnusedTokenIsHonoured
  <2>1. /\ OneSession /\ account.current # None /\ account.current = Len(given) /\ account.current \in Nat
        /\ Numbered(account) /\ account.recent \in SUBSET Entries
    BY DEF SignInIInv, SameSession, RowsAreNumbered, SignInTypeOK, Rows
  <2>2. CASE t = account.current
    BY <2>1, <2>2 DEF Accepted
  <2>3. CASE t # account.current
    <3>1. t \in 1 .. account.current - 1
      BY <2>1, <2>3
    <3>2. PICK e \in account.recent : e.token = t
      BY <2>1, <2>3, <3>1 DEF OneSession, Remembered, SameSession, Fresh, Tokens
    <3>3. e.at + Grace >= now /\ account.current - e.token <= MaxRecent
      BY <2>1, <2>3, <3>2 DEF OneSession, Fresh
    <3>4. e \in Live(account.recent)
      BY <2>1, <3>2, <3>3, LiveHasTheYoung DEF Numbered
    <3> QED
      BY <2>1, <3>2, <3>4 DEF Accepted, Tokens
  <2> QED
    BY <2>2, <2>3
<1> QED
  BY <1>1, SignInInvariant, PTL

\* clearRefreshTokens and resetPassword: a session that was signed out, or that is older
\* than the password a reset set, is accepted no more, unless a row was written from a
\* stale copy or the reset was cut short.
THEOREM SessionsDoEnd == SignInSpec => []SessionsEnd
<1>1. SignInIInv => SessionsEnd
  <2> SUFFICES ASSUME SignInIInv PROVE SessionsEnd
    OBVIOUS
  <2>1. ASSUME ~raced, NEW t \in Accepted
        PROVE  /\ OneSession /\ ResetsAreEnforced /\ account.current # None
               /\ given[t].signIn = given[account.current].signIn
               /\ given[t].password = given[account.current].password
    <3>1. OneSession /\ ResetsAreEnforced /\ account.current # None
      BY <2>1 DEF SignInIInv, Accepted
    <3>2. t = account.current \/ \E e \in account.recent : t = e.token
      BY <2>1, LiveAreSome DEF Accepted, Tokens
    <3> QED
      BY <3>1, <3>2 DEF OneSession
  <2>2. SignOutIsFinal
    BY <2>1 DEF SignOutIsFinal, OneSession
  <2>3. ResetTakesOver
    BY <2>1 DEF ResetTakesOver, ResetsAreEnforced
  <2> QED
    BY <2>2, <2>3 DEF SessionsEnd
<1> QED
  BY <1>1, SignInInvariant, PTL

============================================================================
