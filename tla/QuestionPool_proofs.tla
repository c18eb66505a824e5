------------------------ MODULE QuestionPool_proofs ------------------------
(***************************************************************************)
(* Theorems of QuestionPool, for any companies, recruiters, questions and  *)
(* lengths; of ProbePairs, for any bank, groups, gap and quota; and of     *)
(* TraitSelection, for any cards, traits and patterns.                     *)
(***************************************************************************)
EXTENDS QuestionPool, ProbePairs, TraitSelection, FiniteSetTheorems, WellFoundedInduction,
        TLAPS

\* Shipped questions stay as the platform's, and original; every other one is some company's.
BankIsSound ==
    /\ \A q \in Shipped: bank[q].there /\ bank[q].owner = Platform /\ bank[q].parent = NoQuestion
    /\ \A q \in Minted: bank[q].there => bank[q].owner \in Companies

\* What a call is about to write belongs to the company of its recruiter, and so does what
\* it writes over.
CallIsSound(r) ==
    /\ call[r].op = "fork" =>
          /\ call[r].on \in Shipped
          /\ call[r].row.parent = call[r].on
          /\ call[r].row.owner = CompanyOf[r]
    /\ call[r].op \in {"save", "delete"} =>
          /\ call[r].on \in Minted
          /\ bank[call[r].on].there => bank[call[r].on].owner = CompanyOf[r]
    /\ call[r].op = "save" => call[r].row.owner = CompanyOf[r]

Overwrites(r, q) == call[r].op \in {"save", "delete"} /\ call[r].on = q

CallsAreSound ==
    /\ \A r \in Recruiters: CallIsSound(r)
    /\ \A r, s \in Recruiters, q \in Minted:
          Overwrites(r, q) /\ Overwrites(s, q) => CompanyOf[r] = CompanyOf[s]

AttemptIsSound ==
    /\ AnswersKeepTheirQuestion
    /\ answered \subseteq live.seen
    /\ live.state = "new" => answered = {}
    /\ live.state \in {"new", "open", "drawing"} =>
          live.seen = answered \cup ({live.showing} \ {NoQuestion})
    /\ Drawing => live.showing \in Questions \ answered
    /\ Drawing /\ undisturbed => bank[live.showing].there

\* A question the assessment has to do with is not another company's, and no save that is
\* on its way will make it one.
IsOurs(q) ==
    /\ bank[q].there => bank[q].owner \in {Owner, Platform}
    /\ \A r \in Recruiters: call[r].op = "save" /\ call[r].on = q => CompanyOf[r] = Owner

PoolIsOurs ==
    /\ \A q \in pool: bank[q].there
    /\ \A q \in pool \cup live.seen \cup wanted.ids: IsOurs(q)

\* Calls of one company that do not overlap: a fork is the first, and a save finds what it read.
Forks(c, s) == {f \in Minted: bank[f].there /\ bank[f].owner = c /\ bank[f].parent = s}

InTurn ==
    /\ \A r, s \in Recruiters:
          CompanyOf[r] = CompanyOf[s] /\ ~Idle(r) /\ ~Idle(s) => r = s
    /\ \A r \in Recruiters:
          /\ call[r].op = "fork" => Forks(CompanyOf[r], call[r].on) = {}
          /\ call[r].op = "save" => bank[call[r].on].there
                                    /\ bank[call[r].on].parent = call[r].row.parent
    /\ \A c \in Companies, s \in Shipped: \A p, q \in Forks(c, s): p = q

PoolIsChecked ==
    /\ undisturbed => pool = {} \/ Usable(pool)
    /\ wanted.undisturbed => wanted.ids = {} \/ Usable(wanted.ids)

QuestionIInv ==
    /\ QuestionTypeOK
    /\ BankIsSound
    /\ CallsAreSound
    /\ AttemptIsSound
    /\ PoolIsOurs
    /\ ~overlapped => InTurn
    /\ PoolIsChecked

-----------------------------------------------------------------------------
LEMMA ConstantFacts ==
    /\ Platform \notin Companies
    /\ Owner \in Companies
    /\ \A r \in Recruiters: CompanyOf[r] \in Companies
    /\ \A q \in Questions: q \in Shipped <=> q \notin Minted
    /\ NoQuestion \notin Questions
BY CompaniesAssumption, QuestionsAssumption DEF Questions

LEMMA RowFacts ==
    /\ NoRow \in QuestionRows
    /\ ShippedRow \in QuestionRows
    /\ NoCall \in Calls
    /\ NoPool \in Pools
BY DEF NoRow, ShippedRow, QuestionRows, NoCall, Calls, NoPool, Pools

LEMMA InitSound == QuestionInit => QuestionIInv
<1> SUFFICES ASSUME QuestionInit PROVE QuestionIInv
  OBVIOUS
<1>1. QuestionTypeOK
  <2>1. /\ bank \in [Questions -> QuestionRows]
        /\ call \in [Recruiters -> Calls]
        /\ wanted \in Pools
    BY RowFacts DEF QuestionInit
  <2>2. /\ pool \subseteq Questions
        /\ live \in Lives
        /\ answered \subseteq Questions
        /\ {calls, losses} \subseteq Nat
    BY DEF QuestionInit, Lives
  <2>3. overlapped \in BOOLEAN /\ undisturbed \in BOOLEAN
    BY DEF QuestionInit
  <2> QED
    BY <2>1, <2>2, <2>3 DEF QuestionTypeOK
<1>2. BankIsSound
  BY ConstantFacts DEF QuestionInit, BankIsSound, Questions, ShippedRow, NoRow
<1>3. CallsAreSound
  BY DEF QuestionInit, CallsAreSound, CallIsSound, Overwrites, NoCall
<1>4. AttemptIsSound
  BY DEF QuestionInit, AttemptIsSound, AnswersKeepTheirQuestion, Drawing
<1>5. PoolIsOurs
  BY DEF QuestionInit, PoolIsOurs, NoPool
<1>6. InTurn
  BY ConstantFacts DEF QuestionInit, InTurn, Forks, Idle, NoCall, NoRow, Questions
<1>7. PoolIsChecked
  BY DEF QuestionInit, PoolIsChecked, NoPool
<1> QED
  BY <1>1, <1>2, <1>3, <1>4, <1>5, <1>6, <1>7 DEF QuestionIInv

-----------------------------------------------------------------------------
\* A row that one company writes over its own, or where there was none, is no business of
\* another company.
OwnWrite(c, q, row) ==
    /\ q \in Minted
    /\ bank[q].there => bank[q].owner = c
    /\ row \in QuestionRows
    /\ row.there => row.owner = c
    /\ bank' = [bank EXCEPT ![q] = row]

LEMMA OthersViewStays ==
    ASSUME QuestionIInv, NEW c \in Companies, NEW d \in Companies, c # d,
           NEW q, NEW row, OwnWrite(c, q, row)
    PROVE  View(d)' = View(d)
<1>1. /\ q \in Questions
      /\ \A x \in Questions: x # q => bank'[x] = bank[x]
      /\ bank'[q] = row
  BY DEF OwnWrite, QuestionIInv, QuestionTypeOK, Questions
<1>2. /\ bank[q].owner = d => ~bank[q].there
      /\ bank'[q].owner = d => ~bank'[q].there
  BY <1>1 DEF OwnWrite
<1>3. ~Visible(q, d) /\ ~Visible(q, d)'
  BY <1>1, <1>2, ConstantFacts DEF Visible, OwnWrite
<1>4. ASSUME NEW x \in Questions PROVE Visible(x, d)' <=> Visible(x, d)
  <2>1. CASE x = q
    BY <2>1, <1>3
  <2>2. CASE x # q
    <3>1. \A f \in Questions:
            bank'[f].there /\ bank'[f].parent = x /\ bank'[f].owner = d
            <=> bank[f].there /\ bank[f].parent = x /\ bank[f].owner = d
      BY <1>1, <1>2
    <3> QED
      BY <2>2, <1>1, <3>1 DEF Visible
  <2> QED
    BY <2>1, <2>2
<1>5. {<<x, bank'[x]>>: x \in {y \in Questions: Visible(y, d)'}}
      = {<<x, bank[x]>>: x \in {y \in Questions: Visible(y, d)}}
  BY <1>1, <1>3, <1>4
<1> QED
  BY <1>5 DEF View

\* The part of the invariant that any such write keeps.
LEMMA WriteKeeps ==
    ASSUME QuestionIInv, NEW r \in Recruiters, NEW q, NEW row,
           OwnWrite(CompanyOf[r], q, row), Write(q, row), Done(r),
           pool' \subseteq pool,
           \A p \in pool': bank'[p].there,
           q \in answered => row.there,
           q \in pool \cup live.seen \cup wanted.ids => (row.there => CompanyOf[r] = Owner),
           \A s \in Recruiters: s # r /\ Overwrites(s, q) => CompanyOf[s] = CompanyOf[r],
           ~overlapped => InTurn'
    PROVE  QuestionIInv'
<1>1. /\ q \in Questions
      /\ \A x \in Questions: x # q => bank'[x] = bank[x]
      /\ bank'[q] = row
  BY DEF OwnWrite, QuestionIInv, QuestionTypeOK, Questions
<1>2. /\ \A s \in Recruiters: s # r => call'[s] = call[s]
      /\ call'[r] = NoCall
      /\ UNCHANGED <<live, answered, calls, losses, overlapped>>
  BY DEF Done, QuestionIInv, QuestionTypeOK, attempt
<1>3. QuestionTypeOK'
  <2>1. bank' \in [Questions -> QuestionRows]
    BY <1>1 DEF OwnWrite, QuestionIInv, QuestionTypeOK
  <2>2. call' \in [Recruiters -> Calls] /\ wanted' \in Pools
    BY RowFacts DEF Done, Write, QuestionIInv, QuestionTypeOK, Pools
  <2>3. pool' \subseteq Questions /\ answered' \subseteq Questions /\ live' \in Lives
        /\ {calls', losses'} \subseteq Nat
    BY <1>2 DEF QuestionIInv, QuestionTypeOK
  <2>4. overlapped' \in BOOLEAN /\ undisturbed' \in BOOLEAN
    BY <1>2 DEF QuestionIInv, QuestionTypeOK, Write
  <2> QED
    BY <2>1, <2>2, <2>3, <2>4 DEF QuestionTypeOK
<1>4. BankIsSound'
  BY <1>1, ConstantFacts DEF QuestionIInv, BankIsSound, OwnWrite, Questions
<1>5. CallsAreSound'
  <2>1. ASSUME NEW s \in Recruiters PROVE CallIsSound(s)'
    <3>1. CASE s = r
      BY <3>1, <1>2 DEF CallIsSound, NoCall
    <3>2. CASE s # r
      BY <3>2, <1>1, <1>2
      DEF CallIsSound, CallsAreSound, Overwrites, QuestionIInv, OwnWrite, Questions
    <3> QED
      BY <3>1, <3>2
  <2>2. ASSUME NEW s \in Recruiters, NEW x PROVE Overwrites(s, x)' => Overwrites(s, x)
    BY <1>2 DEF Overwrites, NoCall
  <2> QED
    BY <2>1, <2>2 DEF CallsAreSound, QuestionIInv
<1>6. AttemptIsSound'
  <2>1. ~undisturbed'
    BY DEF Write
  <2>2. AttemptIsSound /\ answered \subseteq Questions
    BY DEF QuestionIInv, QuestionTypeOK
  <2> QED
    BY <1>1, <1>2, <2>1, <2>2 DEF AttemptIsSound, AnswersKeepTheirQuestion, Drawing
<1>7. PoolIsOurs'
  <2>1. wanted'.ids = wanted.ids
    BY DEF Write
  <2>2. ASSUME NEW x \in pool \cup live.seen \cup wanted.ids PROVE IsOurs(x)'
    <3>1. IsOurs(x) /\ x \in Questions
      BY DEF QuestionIInv, PoolIsOurs, QuestionTypeOK, Lives, Pools
    <3>2. bank'[x].there => bank'[x].owner \in {Owner, Platform}
      BY <3>1, <1>1, <2>2 DEF IsOurs, OwnWrite
    <3>3. \A s \in Recruiters: call'[s].op = "save" /\ call'[s].on = x => CompanyOf[s] = Owner
      BY <3>1, <1>2 DEF IsOurs, NoCall
    <3> QED
      BY <3>2, <3>3 DEF IsOurs
  <2> QED
    BY <1>2, <2>1, <2>2 DEF PoolIsOurs
<1>8. PoolIsChecked'
  BY DEF PoolIsChecked, Write
<1> QED
  BY <1>2, <1>3, <1>4, <1>5, <1>6, <1>7, <1>8 DEF QuestionIInv

-----------------------------------------------------------------------------
\* What the steps that only read the bank leave alone.
LEMMA BankUnchanged ==
    ASSUME BankIsSound, UNCHANGED bank
    PROVE  BankIsSound'
BY DEF BankIsSound

LEMMA AskKeeps ==
    ASSUME QuestionIInv, NEW r \in Recruiters, NEW q \in Questions,
           NEW isActive \in BOOLEAN, NEW isSample \in BOOLEAN,
           Edit(r, q, isActive, isSample) \/ Remove(r, q)
    PROVE  QuestionIInv'
<1> DEFINE fork == [there |-> TRUE, owner |-> CompanyOf[r], active |-> isActive,
                    sample |-> isSample, parent |-> q, detailed |-> bank[q].detailed]
           copy == [there |-> TRUE, owner |-> bank[q].owner, active |-> isActive,
                    sample |-> isSample, parent |-> bank[q].parent,
                    detailed |-> bank[q].detailed]
<1>1. /\ bank \in [Questions -> QuestionRows]
      /\ call \in [Recruiters -> Calls]
      /\ BankIsSound /\ CallsAreSound /\ AttemptIsSound /\ PoolIsOurs /\ PoolIsChecked
  BY DEF QuestionIInv, QuestionTypeOK
<1>2. Visible(q, CompanyOf[r])
  BY DEF Edit, Remove
<1>3. PICK op, row:
        /\ Ask(r, op, q, row)
        /\ \/ op = "fork" /\ bank[q].owner = Platform /\ row = fork
           \/ op = "save" /\ bank[q].owner # Platform /\ row = copy
           \/ op = "delete" /\ bank[q].owner # Platform /\ row = NoRow
  BY DEF Edit, Remove
<1>4. /\ \A s \in Recruiters: s # r => call'[s] = call[s]
      /\ call'[r] = [op |-> op, on |-> q, row |-> row]
      /\ call' = [call EXCEPT ![r] = [op |-> op, on |-> q, row |-> row]]
      /\ calls' = calls + 1
      /\ Idle(r)
      /\ overlapped' = (overlapped \/ Busy(CompanyOf[r]) # {})
      /\ UNCHANGED <<bank, pool, wanted, live, answered, losses, undisturbed>>
  BY <1>1, <1>3 DEF Ask, attempt
<1>5. /\ bank[q].there
      /\ bank[q].owner = Platform => q \in Shipped
      /\ bank[q].owner # Platform => q \in Minted /\ bank[q].owner = CompanyOf[r]
  BY <1>1, <1>2, ConstantFacts DEF Visible, BankIsSound
<1>6. QuestionTypeOK'
  <2>1. row \in QuestionRows
    <3>1. bank[q] \in QuestionRows
      BY <1>1
    <3>2. CASE row = fork /\ bank[q].owner = Platform
      BY <3>1, <3>2, <1>5, ConstantFacts DEF QuestionRows
    <3>3. CASE row = copy
      BY <3>1, <3>3 DEF QuestionRows
    <3>4. CASE row = NoRow
      BY <3>4, RowFacts
    <3> QED
      BY <1>3, <3>2, <3>3, <3>4
  <2>2. call'[r] \in Calls
    BY <1>3, <1>4, <2>1 DEF Calls
  <2>3. call' \in [Recruiters -> Calls]
    BY <1>1, <1>4, <2>2
  <2>4. overlapped' \in BOOLEAN
    BY <1>4 DEF QuestionIInv, QuestionTypeOK
  <2>5. {calls', losses'} \subseteq Nat
    BY <1>4 DEF QuestionIInv, QuestionTypeOK
  <2>6. /\ bank' \in [Questions -> QuestionRows]
        /\ pool' \subseteq Questions /\ answered' \subseteq Questions
        /\ wanted' \in Pools /\ live' \in Lives
    BY <1>4 DEF QuestionIInv, QuestionTypeOK
  <2>7. undisturbed' \in BOOLEAN
    BY <1>4 DEF QuestionIInv, QuestionTypeOK
  <2> QED
    BY <2>3, <2>4, <2>5, <2>6, <2>7 DEF QuestionTypeOK
<1>7. BankIsSound'
  BY <1>1, <1>4, BankUnchanged
<1>8. CallsAreSound'
  <2>1. ASSUME NEW s \in Recruiters PROVE CallIsSound(s)'
    <3>1. CASE s = r
      <4>1. CASE op = "fork"
        BY <3>1, <4>1, <1>3, <1>4, <1>5 DEF CallIsSound
      <4>2. CASE op = "save"
        BY <3>1, <4>2, <1>3, <1>4, <1>5 DEF CallIsSound
      <4>3. CASE op = "delete"
        BY <3>1, <4>3, <1>3, <1>4, <1>5 DEF CallIsSound
      <4> QED
        BY <1>3, <4>1, <4>2, <4>3
    <3>2. CASE s # r
      BY <3>2, <1>1, <1>4 DEF CallIsSound, CallsAreSound
    <3> QED
      BY <3>1, <3>2
  <2>2. ASSUME NEW s \in Recruiters, s # r, NEW x \in Minted,
               Overwrites(s, x), Overwrites(r, x)'
        PROVE  CompanyOf[s] = CompanyOf[r]
    <3>1. x = q /\ bank[q].owner = CompanyOf[r]
      BY <2>2, <1>3, <1>4, <1>5 DEF Overwrites
    <3> QED
      BY <2>2, <3>1, <1>1, <1>5 DEF Overwrites, CallsAreSound, CallIsSound
  <2>3. ASSUME NEW s \in Recruiters, s # r, NEW x PROVE Overwrites(s, x)' <=> Overwrites(s, x)
    BY <2>3, <1>4 DEF Overwrites
  <2>4. \A s, u \in Recruiters, x \in Minted:
          Overwrites(s, x)' /\ Overwrites(u, x)' => CompanyOf[s] = CompanyOf[u]
    <3> SUFFICES ASSUME NEW s \in Recruiters, NEW u \in Recruiters, NEW x \in Minted,
                        Overwrites(s, x)', Overwrites(u, x)'
                 PROVE  CompanyOf[s] = CompanyOf[u]
      OBVIOUS
    <3>1. CASE s = r /\ u = r
      BY <3>1
    <3>2. CASE s = r /\ u # r
      BY <3>2, <2>2, <2>3
    <3>3. CASE s # r /\ u = r
      BY <3>3, <2>2, <2>3
    <3>4. CASE s # r /\ u # r
      BY <3>4, <2>3, <1>1 DEF CallsAreSound
    <3> QED
      BY <3>1, <3>2, <3>3, <3>4
  <2> QED
    BY <2>1, <2>4 DEF CallsAreSound
<1>9. AttemptIsSound'
  BY <1>1, <1>4 DEF AttemptIsSound, AnswersKeepTheirQuestion, Drawing
<1>10. PoolIsOurs'
  <2>1. ASSUME NEW x \in pool \cup live.seen \cup wanted.ids PROVE IsOurs(x)'
    <3>1. IsOurs(x)
      BY <1>1 DEF PoolIsOurs
    <3>2. ASSUME call'[r].op = "save", call'[r].on = x PROVE CompanyOf[r] = Owner
      BY <3>1, <3>2, <1>3, <1>4, <1>5 DEF IsOurs
    <3>3. \A s \in Recruiters: call'[s].op = "save" /\ call'[s].on = x => CompanyOf[s] = Owner
      BY <3>1, <3>2, <1>4 DEF IsOurs
    <3> QED
      BY <3>1, <3>3, <1>4 DEF IsOurs
  <2> QED
    BY <1>1, <1>4, <2>1 DEF PoolIsOurs
<1>11. ASSUME ~overlapped' PROVE InTurn'
  <2>1. ~overlapped /\ InTurn
    BY <1>4, <1>11 DEF QuestionIInv
  <2>2. \A s \in Recruiters: CompanyOf[s] = CompanyOf[r] => Idle(s)
    BY <1>4, <1>11 DEF Busy
  <2>3. \A s, u \in Recruiters:
          CompanyOf[s] = CompanyOf[u] /\ ~Idle(s)' /\ ~Idle(u)' => s = u
    BY <1>4, <2>1, <2>2 DEF InTurn, Idle
  <2>4. \A c, x: Forks(c, x)' = Forks(c, x)
    BY <1>4 DEF Forks
  <2>5. ASSUME NEW s \in Recruiters
        PROVE  /\ call'[s].op = "fork" => Forks(CompanyOf[s], call'[s].on) = {}
               /\ call'[s].op = "save" => bank[call'[s].on].there
                                          /\ bank[call'[s].on].parent = call'[s].row.parent
    <3>1. CASE s # r
      BY <3>1, <2>1, <1>4 DEF InTurn
    <3>2. CASE s = r /\ op = "fork"
      <4>1. bank[q].owner # CompanyOf[r]
        BY <3>2, <1>3, ConstantFacts
      <4>2. Forks(CompanyOf[r], q) = {}
        BY <4>1, <1>2 DEF Visible, Forks, Questions
      <4> QED
        BY <3>2, <4>2, <1>4
    <3>3. CASE s = r /\ op = "save"
      BY <3>3, <1>3, <1>4, <1>5
    <3>4. CASE s = r /\ op = "delete"
      BY <3>4, <1>4
    <3> QED
      BY <3>1, <3>2, <3>3, <3>4, <1>3
  <2> QED
    BY <2>1, <2>3, <2>4, <2>5, <1>4 DEF InTurn
<1>12. PoolIsChecked'
  BY <1>1, <1>4 DEF PoolIsChecked, Usable, Visible
<1> QED
  BY <1>6, <1>7, <1>8, <1>9, <1>10, <1>11, <1>12 DEF QuestionIInv

-----------------------------------------------------------------------------
LEMMA SaveKeeps ==
    ASSUME QuestionIInv, NEW r \in Recruiters, Save(r)
    PROVE  QuestionIInv'
<1> DEFINE q == call[r].on
           row == [there |-> TRUE, owner |-> call[r].row.owner, active |-> call[r].row.active,
                   sample |-> call[r].row.sample, parent |-> call[r].row.parent,
                   detailed |-> bank[q].detailed]
<1>1. /\ bank \in [Questions -> QuestionRows]
      /\ call \in [Recruiters -> Calls]
      /\ CallsAreSound /\ AttemptIsSound /\ PoolIsOurs
  BY DEF QuestionIInv, QuestionTypeOK
<1>2. /\ call[r].op = "save"
      /\ Write(q, row) /\ Done(r) /\ pool' = pool
  BY DEF Save
<1>3. /\ q \in Minted
      /\ bank[q].there => bank[q].owner = CompanyOf[r]
      /\ call[r].row.owner = CompanyOf[r]
  BY <1>1, <1>2 DEF CallsAreSound, CallIsSound
<1>4. row \in QuestionRows
  <2>1. call[r].row \in QuestionRows /\ bank[q] \in QuestionRows
    BY <1>1, <1>3 DEF Calls, Questions
  <2> QED
    BY <2>1 DEF QuestionRows
<1>5. OwnWrite(CompanyOf[r], q, row)
  BY <1>2, <1>3, <1>4 DEF OwnWrite, Write
<1>6. /\ \A x \in Questions: x # q => bank'[x] = bank[x]
      /\ bank'[q] = row
  BY <1>1, <1>5 DEF OwnWrite, Questions
<1>7. \A p \in pool': bank'[p].there
  BY <1>1, <1>2, <1>6 DEF PoolIsOurs, QuestionIInv, QuestionTypeOK
<1>8. q \in pool \cup live.seen \cup wanted.ids => CompanyOf[r] = Owner
  BY <1>1, <1>2 DEF PoolIsOurs, IsOurs
<1>9. \A s \in Recruiters: s # r /\ Overwrites(s, q) => CompanyOf[s] = CompanyOf[r]
  BY <1>1, <1>2, <1>3 DEF CallsAreSound, Overwrites
<1>10. ASSUME ~overlapped PROVE InTurn'
  <2>1. InTurn
    BY <1>10 DEF QuestionIInv
  <2>2. /\ bank[q].there /\ bank[q].parent = call[r].row.parent
        /\ bank[q].owner = CompanyOf[r]
    BY <2>1, <1>2, <1>3 DEF InTurn
  <2>3. \A x \in Questions: /\ bank'[x].there = bank[x].there
                           /\ bank'[x].owner = bank[x].owner
                           /\ bank'[x].parent = bank[x].parent
    <3>1. bank[q].there = TRUE
      BY <1>1, <1>3, <2>2 DEF Questions, QuestionRows
    <3>2. bank'[q].there = TRUE
      BY <1>6
    <3>3. /\ bank'[q].owner = bank[q].owner
          /\ bank'[q].parent = bank[q].parent
      BY <1>6, <1>3, <2>2
    <3> QED
      BY <1>6, <3>1, <3>2, <3>3
  <2>4. \A c, x: Forks(c, x)' = Forks(c, x)
    BY <2>3 DEF Forks, Questions
  <2>5. /\ \A s \in Recruiters: s # r => call'[s] = call[s]
        /\ call'[r] = NoCall
    BY <1>1, <1>2 DEF Done
  <2>6. \A s \in Recruiters: call[s].op = "save" => call[s].on \in Questions
    BY <1>1 DEF CallsAreSound, CallIsSound, Questions
  <2>7. \A s, u \in Recruiters:
          CompanyOf[s] = CompanyOf[u] /\ ~Idle(s)' /\ ~Idle(u)' => s = u
    BY <2>1, <2>5 DEF InTurn, Idle, NoCall
  <2>8. \A s \in Recruiters:
          /\ call'[s].op = "fork" => Forks(CompanyOf[s], call[s].on)' = {}
          /\ call'[s].op = "save" => bank'[call'[s].on].there
                                     /\ bank'[call'[s].on].parent = call'[s].row.parent
    BY <2>1, <2>3, <2>4, <2>5, <2>6 DEF InTurn, NoCall
  <2>9. \A c \in Companies, s \in Shipped: \A x, y \in Forks(c, s)': x = y
    BY <2>1, <2>4 DEF InTurn
  <2> QED
    BY <2>7, <2>8, <2>9 DEF InTurn
<1> QED
  BY <1>2, <1>5, <1>7, <1>8, <1>9, <1>10, WriteKeeps

LEMMA DeleteKeeps ==
    ASSUME QuestionIInv, NEW r \in Recruiters, Delete(r)
    PROVE  QuestionIInv'
<1> DEFINE q == call[r].on
<1>1. /\ bank \in [Questions -> QuestionRows]
      /\ call \in [Recruiters -> Calls]
      /\ CallsAreSound /\ AttemptIsSound /\ PoolIsOurs /\ PoolIsChecked /\ BankIsSound
  BY DEF QuestionIInv, QuestionTypeOK
<1>2. /\ call[r].op = "delete" /\ Done(r)
      /\ q \in Minted
      /\ bank[q].there => bank[q].owner = CompanyOf[r]
  BY <1>1 DEF Delete, CallsAreSound, CallIsSound
<1>3. /\ \A s \in Recruiters: s # r => call'[s] = call[s]
      /\ call'[r] = NoCall
      /\ UNCHANGED <<live, answered, calls, losses, overlapped>>
  BY <1>1, <1>2 DEF Done, attempt
<1>4. CASE q \in answered
  <2>1. UNCHANGED <<bank, pool, wanted, undisturbed>>
    BY <1>4 DEF Delete
  <2>2. QuestionTypeOK'
    <3>1. call' \in [Recruiters -> Calls]
      BY <1>1, <1>2, RowFacts DEF Done
    <3> QED
      BY <2>1, <1>3, <3>1 DEF QuestionIInv, QuestionTypeOK
  <2>3. BankIsSound'
    BY <1>1, <2>1, BankUnchanged
  <2>4. CallsAreSound'
    BY <1>1, <1>3, <2>1 DEF CallsAreSound, CallIsSound, Overwrites, NoCall
  <2>5. AttemptIsSound'
    BY <1>1, <1>3, <2>1 DEF AttemptIsSound, AnswersKeepTheirQuestion, Drawing
  <2>6. PoolIsOurs'
    BY <1>1, <1>3, <2>1 DEF PoolIsOurs, IsOurs, NoCall
  <2>7. ~overlapped => InTurn'
    BY <1>3, <2>1 DEF QuestionIInv, InTurn, Idle, Forks, NoCall
  <2>8. PoolIsChecked'
    BY <1>1, <2>1 DEF PoolIsChecked, Usable, Visible
  <2> QED
    BY <1>3, <2>2, <2>3, <2>4, <2>5, <2>6, <2>7, <2>8 DEF QuestionIInv
<1>5. CASE q \notin answered
  <2>1. Write(q, NoRow) /\ pool' = pool \ {q}
    BY <1>5 DEF Delete
  <2>2. ~NoRow.there
    BY DEF NoRow
  <2>3. OwnWrite(CompanyOf[r], q, NoRow)
    BY <1>2, <2>1, <2>2, RowFacts DEF OwnWrite, Write
  <2>4. /\ \A x \in Questions: x # q => bank'[x] = bank[x]
        /\ bank'[q] = NoRow
    BY <1>1, <2>3 DEF OwnWrite, Questions
  <2>5. \A p \in pool': bank'[p].there
    BY <1>1, <2>1, <2>4 DEF PoolIsOurs, QuestionIInv, QuestionTypeOK
  <2>6. \A s \in Recruiters: s # r /\ Overwrites(s, q) => CompanyOf[s] = CompanyOf[r]
    BY <1>1, <1>2 DEF CallsAreSound, Overwrites
  <2>7. ASSUME ~overlapped PROVE InTurn'
    <3>1. InTurn
      BY <2>7 DEF QuestionIInv
    <3>2. \A c, x: Forks(c, x)' \subseteq Forks(c, x)
      BY <2>2, <2>4 DEF Forks, Questions
    <3>3. ASSUME NEW s \in Recruiters, s # r, call[s].op = "save" PROVE call[s].on # q
      <4>1. CompanyOf[s] # CompanyOf[r]
        BY <3>1, <3>3, <1>2 DEF InTurn, Idle
      <4> QED
        BY <4>1, <1>1, <1>2, <3>3 DEF CallsAreSound, Overwrites
    <3>4. \A s \in Recruiters: call[s].op = "save" => call[s].on \in Questions
      BY <1>1 DEF CallsAreSound, CallIsSound, Questions
    <3>5. \A s, u \in Recruiters:
            CompanyOf[s] = CompanyOf[u] /\ ~Idle(s)' /\ ~Idle(u)' => s = u
      BY <3>1, <1>3 DEF InTurn, Idle, NoCall
    <3>6. \A s \in Recruiters:
            call'[s].op = "fork" => Forks(CompanyOf[s], call[s].on)' = {}
      BY <3>1, <3>2, <1>3 DEF InTurn, NoCall
    <3>7. \A s \in Recruiters:
            call'[s].op = "save" => bank'[call'[s].on].there
                                    /\ bank'[call'[s].on].parent = call'[s].row.parent
      BY <3>1, <3>3, <3>4, <2>4, <1>3 DEF InTurn, NoCall
    <3>8. \A c \in Companies, s \in Shipped: \A x, y \in Forks(c, s)': x = y
      BY <3>1, <3>2 DEF InTurn
    <3> QED
      BY <3>5, <3>6, <3>7, <3>8 DEF InTurn
  <2> QED
    BY <1>2, <1>5, <2>1, <2>2, <2>3, <2>5, <2>6, <2>7, WriteKeeps
<1> QED
  BY <1>4, <1>5

-----------------------------------------------------------------------------
LEMMA ForkKeeps ==
    ASSUME QuestionIInv, NEW r \in Recruiters, NEW q \in Questions, Fork(r, q)
    PROVE  QuestionIInv'
<1> DEFINE row == call[r].row
<1>1. /\ bank \in [Questions -> QuestionRows]
      /\ call \in [Recruiters -> Calls]
      /\ BankIsSound /\ CallsAreSound /\ AttemptIsSound /\ PoolIsOurs
  BY DEF QuestionIInv, QuestionTypeOK
<1>2. /\ call[r].op = "fork" /\ Unused(q)
      /\ Write(q, row) /\ Done(r) /\ pool' = pool
  BY DEF Fork
<1>3. /\ ~bank[q].there /\ q \in Minted
      /\ q \notin pool \cup live.seen \cup wanted.ids
      /\ \A s \in Recruiters: call[s].on # q
  BY <1>1, <1>2, ConstantFacts DEF Unused, BankIsSound, PoolIsOurs
<1>4. /\ row \in QuestionRows
      /\ row.owner = CompanyOf[r] /\ row.parent = call[r].on
      /\ call[r].on \in Shipped
  BY <1>1, <1>2 DEF Calls, CallsAreSound, CallIsSound
<1>5. OwnWrite(CompanyOf[r], q, row)
  BY <1>2, <1>3, <1>4 DEF OwnWrite, Write
<1>6. /\ \A x \in Questions: x # q => bank'[x] = bank[x]
      /\ bank'[q] = row
  BY <1>1, <1>5 DEF OwnWrite, Questions
<1>7. \A p \in pool': bank'[p].there
  BY <1>1, <1>2, <1>3, <1>6 DEF PoolIsOurs, QuestionIInv, QuestionTypeOK
<1>8. q \notin answered
  BY <1>1, <1>3 DEF AttemptIsSound
<1>9. \A s \in Recruiters: ~Overwrites(s, q)
  BY <1>3 DEF Overwrites
<1>10. ASSUME ~overlapped PROVE InTurn'
  <2>1. InTurn
    BY <1>10 DEF QuestionIInv
  <2>2. /\ \A s \in Recruiters: s # r => call'[s] = call[s]
        /\ call'[r] = NoCall
    BY <1>1, <1>2 DEF Done
  <2>3. \A s, u \in Recruiters:
          CompanyOf[s] = CompanyOf[u] /\ ~Idle(s)' /\ ~Idle(u)' => s = u
    BY <2>1, <2>2 DEF InTurn, Idle, NoCall
  <2>4. \A c, x: Forks(c, x)' \subseteq Forks(c, x) \cup {q}
    BY <1>6 DEF Forks, Questions
  <2>5. \A c, x: c # CompanyOf[r] => Forks(c, x)' \subseteq Forks(c, x)
    BY <1>4, <1>6, <2>4 DEF Forks
  <2>6. \A c, x: x # call[r].on => Forks(c, x)' \subseteq Forks(c, x)
    BY <1>4, <1>6, <2>4 DEF Forks
  <2>7. \A s \in Recruiters: call'[s].op = "fork" => Forks(CompanyOf[s], call[s].on)' = {}
    <3> SUFFICES ASSUME NEW s \in Recruiters, call'[s].op = "fork"
                 PROVE  Forks(CompanyOf[s], call[s].on)' = {}
      OBVIOUS
    <3>1. s # r /\ call'[s] = call[s]
      BY <2>2 DEF NoCall
    <3>2. CompanyOf[s] # CompanyOf[r]
      BY <2>1, <3>1, <1>2 DEF InTurn, Idle
    <3> QED
      BY <2>1, <2>5, <3>1, <3>2 DEF InTurn
  <2>8. \A s \in Recruiters:
          call'[s].op = "save" => bank'[call'[s].on].there
                                  /\ bank'[call'[s].on].parent = call'[s].row.parent
    <3> SUFFICES ASSUME NEW s \in Recruiters, call'[s].op = "save"
                 PROVE  bank'[call'[s].on].there
                        /\ bank'[call'[s].on].parent = call'[s].row.parent
      OBVIOUS
    <3>1. call'[s] = call[s]
      BY <2>2 DEF NoCall
    <3>2. call[s].on \in Questions /\ call[s].on # q
      BY <1>1, <1>3, <3>1 DEF CallsAreSound, CallIsSound, Questions
    <3> QED
      BY <2>1, <1>6, <3>1, <3>2 DEF InTurn
  <2>9. ASSUME NEW c \in Companies, NEW s \in Shipped PROVE \A x, y \in Forks(c, s)': x = y
    <3>1. CASE c = CompanyOf[r] /\ s = call[r].on
      <4>1. Forks(c, s) = {}
        BY <2>1, <1>2, <3>1 DEF InTurn
      <4> QED
        BY <2>4, <4>1
    <3>2. CASE c # CompanyOf[r] \/ s # call[r].on
      BY <2>1, <2>5, <2>6, <3>2 DEF InTurn
    <3> QED
      BY <3>1, <3>2
  <2> QED
    BY <2>3, <2>7, <2>8, <2>9 DEF InTurn
<1> QED
  BY <1>2, <1>3, <1>5, <1>7, <1>8, <1>9, <1>10, WriteKeeps

LEMMA AuthorKeeps ==
    ASSUME QuestionIInv, NEW r \in Recruiters, NEW q \in Questions,
           NEW isActive \in BOOLEAN, NEW isSample \in BOOLEAN,
           Author(r, q, isActive, isSample)
    PROVE  QuestionIInv'
<1> DEFINE row == [there |-> TRUE, owner |-> CompanyOf[r], active |-> isActive,
                   sample |-> isSample, parent |-> NoQuestion, detailed |-> TRUE]
<1>1. /\ bank \in [Questions -> QuestionRows]
      /\ BankIsSound /\ CallsAreSound /\ AttemptIsSound /\ PoolIsOurs /\ PoolIsChecked
  BY DEF QuestionIInv, QuestionTypeOK
<1>2. /\ Unused(q) /\ Write(q, row)
      /\ calls' = calls + 1
      /\ UNCHANGED <<pool, call, live, answered, losses, overlapped>>
  BY DEF Author, attempt
<1>3. /\ ~bank[q].there /\ q \in Minted
      /\ q \notin pool \cup live.seen \cup wanted.ids
      /\ \A s \in Recruiters: call[s].on # q
  BY <1>1, <1>2, ConstantFacts DEF Unused, BankIsSound, PoolIsOurs
<1>4. row \in QuestionRows
  BY ConstantFacts DEF QuestionRows
<1>5. /\ \A x \in Questions: x # q => bank'[x] = bank[x]
      /\ bank'[q] = row
      /\ bank' \in [Questions -> QuestionRows]
  BY <1>1, <1>2, <1>4 DEF Write
<1>6. QuestionTypeOK'
  <2>1. wanted' \in Pools
    BY <1>2 DEF Write, QuestionIInv, QuestionTypeOK, Pools
  <2>2. undisturbed' \in BOOLEAN
    BY <1>2 DEF Write
  <2>3. {calls', losses'} \subseteq Nat
    BY <1>2 DEF QuestionIInv, QuestionTypeOK
  <2> QED
    BY <1>2, <1>5, <2>1, <2>2, <2>3 DEF QuestionIInv, QuestionTypeOK
<1>7. BankIsSound'
  BY <1>1, <1>3, <1>5, ConstantFacts DEF BankIsSound, Questions
<1>8. CallsAreSound'
  BY <1>1, <1>2, <1>3, <1>5 DEF CallsAreSound, CallIsSound, Overwrites, Questions
<1>9. AttemptIsSound'
  <2>1. ~undisturbed'
    BY <1>2 DEF Write
  <2>2. answered \subseteq Questions
    BY DEF QuestionIInv, QuestionTypeOK
  <2> QED
    BY <1>1, <1>2, <1>3, <1>5, <2>1, <2>2
    DEF AttemptIsSound, AnswersKeepTheirQuestion, Drawing
<1>10. PoolIsOurs'
  <2>1. wanted'.ids = wanted.ids
    BY <1>2 DEF Write
  <2>2. ASSUME NEW x \in pool \cup live.seen \cup wanted.ids
        PROVE  x \in Questions /\ x # q /\ bank'[x] = bank[x]
    BY <1>3, <1>5 DEF QuestionIInv, QuestionTypeOK, Lives, Pools
  <2> QED
    BY <1>1, <1>2, <2>1, <2>2 DEF PoolIsOurs, IsOurs
<1>11. ASSUME ~overlapped PROVE InTurn'
  <2>1. InTurn
    BY <1>11 DEF QuestionIInv
  <2>2. ASSUME NEW c, NEW s \in Shipped PROVE Forks(c, s)' = Forks(c, s)
    BY <1>3, <1>5, ConstantFacts DEF Forks, Questions
  <2>3. ASSUME NEW s \in Recruiters, call[s].op = "fork"
        PROVE  Forks(CompanyOf[s], call[s].on)' = {}
    <3>1. call'[s] = call[s] /\ call[s].on \in Shipped
      BY <1>1, <1>2, <2>3 DEF CallsAreSound, CallIsSound
    <3> QED
      BY <2>1, <2>2, <2>3, <3>1 DEF InTurn
  <2>4. ASSUME NEW s \in Recruiters, call[s].op = "save"
        PROVE  bank'[call[s].on].there /\ bank'[call[s].on].parent = call[s].row.parent
    <3>1. call[s].on \in Questions /\ call[s].on # q
      BY <1>1, <1>3, <2>4 DEF CallsAreSound, CallIsSound, Questions
    <3> QED
      BY <2>1, <2>4, <1>5, <3>1 DEF InTurn
  <2>5. \A c \in Companies, s \in Shipped: \A x, y \in Forks(c, s)': x = y
    BY <2>1, <2>2 DEF InTurn
  <2>6. \A s, u \in Recruiters:
          CompanyOf[s] = CompanyOf[u] /\ ~Idle(s)' /\ ~Idle(u)' => s = u
    BY <1>2, <2>1 DEF InTurn, Idle
  <2> QED
    BY <1>2, <2>3, <2>4, <2>5, <2>6 DEF InTurn
<1>12. PoolIsChecked'
  BY <1>2 DEF PoolIsChecked, Write
<1> QED
  BY <1>2, <1>6, <1>7, <1>8, <1>9, <1>10, <1>11, <1>12 DEF QuestionIInv

-----------------------------------------------------------------------------
\* A question that the assessment's company may see is one the assessment may have to do with.
LEMMA VisibleIsOurs ==
    ASSUME QuestionIInv, NEW q \in Questions, Visible(q, Owner)
    PROVE  bank[q].there /\ IsOurs(q)
<1>1. bank[q].there /\ bank[q].owner \in {Owner, Platform}
  BY DEF Visible
<1>2. ASSUME NEW r \in Recruiters, call[r].op = "save", call[r].on = q
      PROVE  CompanyOf[r] = Owner
  BY <1>1, <1>2, ConstantFacts DEF QuestionIInv, CallsAreSound, CallIsSound
<1> QED
  BY <1>1, <1>2 DEF IsOurs

LEMMA CheckPoolKeeps ==
    ASSUME QuestionIInv, NEW ids \in SUBSET Questions, CheckPool(ids)
    PROVE  QuestionIInv'
<1>1. /\ ids = {} \/ Usable(ids)
      /\ wanted' = [asked |-> TRUE, ids |-> ids, undisturbed |-> TRUE]
      /\ calls' = calls + 1
      /\ UNCHANGED <<bank, pool, call, live, answered, losses, overlapped, undisturbed>>
  BY DEF CheckPool, attempt
<1>2. \A q \in ids: IsOurs(q)
  BY <1>1, VisibleIsOurs DEF Usable
<1>3. QuestionTypeOK'
  <2>1. wanted' \in Pools
    BY <1>1 DEF Pools
  <2> QED
    BY <1>1, <2>1 DEF QuestionIInv, QuestionTypeOK
<1>4. BankIsSound' /\ CallsAreSound' /\ AttemptIsSound'
  BY <1>1 DEF QuestionIInv, BankIsSound, CallsAreSound, CallIsSound, Overwrites,
              AttemptIsSound, AnswersKeepTheirQuestion, Drawing
<1>5. PoolIsOurs'
  BY <1>1, <1>2 DEF QuestionIInv, PoolIsOurs, IsOurs
<1>6. ~overlapped' => InTurn'
  BY <1>1 DEF QuestionIInv, InTurn, Idle, Forks
<1>7. PoolIsChecked'
  <2>1. undisturbed' => pool' = {} \/ Usable(pool)'
    BY <1>1 DEF QuestionIInv, PoolIsChecked, Usable, Visible
  <2>2. wanted'.ids = {} \/ Usable(wanted.ids)'
    BY <1>1 DEF Usable, Visible
  <2> QED
    BY <2>1, <2>2 DEF PoolIsChecked
<1> QED
  BY <1>3, <1>4, <1>5, <1>6, <1>7 DEF QuestionIInv

LEMMA StorePoolKeeps ==
    ASSUME QuestionIInv, StorePool
    PROVE  QuestionIInv'
<1>1. /\ \/ /\ \A q \in wanted.ids: bank[q].there
            /\ pool' = wanted.ids
            /\ undisturbed' = (wanted.undisturbed /\ (Drawing => bank[live.showing].there))
         \/ UNCHANGED <<pool, undisturbed>>
      /\ wanted' = NoPool
      /\ UNCHANGED <<bank, call, live, answered, calls, losses, overlapped>>
  BY DEF StorePool, attempt
<1>2. QuestionTypeOK'
  <2>1. wanted' \in Pools
    BY <1>1, RowFacts
  <2>2. pool' \subseteq Questions
    BY <1>1 DEF QuestionIInv, QuestionTypeOK, Pools
  <2>3. undisturbed' \in BOOLEAN
    <3>1. undisturbed \in BOOLEAN
      BY DEF QuestionIInv, QuestionTypeOK
    <3> QED
      BY <1>1, <3>1
  <2> QED
    BY <1>1, <2>1, <2>2, <2>3 DEF QuestionIInv, QuestionTypeOK
<1>3. BankIsSound' /\ CallsAreSound' /\ AttemptIsSound'
  <2>1. BankIsSound' /\ CallsAreSound'
    BY <1>1 DEF QuestionIInv, BankIsSound, CallsAreSound, CallIsSound, Overwrites
  <2>2. Drawing' /\ undisturbed' => bank'[live'.showing].there
    BY <1>1 DEF QuestionIInv, AttemptIsSound, Drawing
  <2>3. AttemptIsSound'
    BY <1>1, <2>2 DEF QuestionIInv, AttemptIsSound, AnswersKeepTheirQuestion, Drawing
  <2> QED
    BY <2>1, <2>3
<1>4. PoolIsOurs'
  BY <1>1 DEF QuestionIInv, PoolIsOurs, IsOurs, NoPool
<1>5. ~overlapped' => InTurn'
  BY <1>1 DEF QuestionIInv, InTurn, Idle, Forks
<1>6. PoolIsChecked'
  <2>1. wanted'.ids = {}
    BY <1>1 DEF NoPool
  <2>2. CASE pool' = wanted.ids /\ (undisturbed' => wanted.undisturbed)
    BY <1>1, <2>1, <2>2 DEF QuestionIInv, PoolIsChecked, Usable, Visible
  <2>3. CASE UNCHANGED <<pool, undisturbed>>
    BY <1>1, <2>1, <2>3 DEF QuestionIInv, PoolIsChecked, Usable, Visible
  <2> QED
    BY <1>1, <2>2, <2>3
<1> QED
  BY <1>2, <1>3, <1>4, <1>5, <1>6 DEF QuestionIInv

-----------------------------------------------------------------------------
\* A step of the attempt has only its own rows to account for.
LEMMA AttemptKeeps ==
    ASSUME QuestionIInv, UNCHANGED <<desk, calls, overlapped, undisturbed>>,
           losses' \in Nat, live' \in Lives, answered' \subseteq Questions,
           AttemptIsSound', \A q \in live'.seen: IsOurs(q)
    PROVE  QuestionIInv'
<1>1. UNCHANGED <<bank, pool, call, wanted>>
  BY DEF desk
<1>2. QuestionTypeOK'
  BY <1>1 DEF QuestionIInv, QuestionTypeOK
<1>3. BankIsSound' /\ CallsAreSound' /\ PoolIsChecked'
  BY <1>1 DEF QuestionIInv, BankIsSound, CallsAreSound, CallIsSound, Overwrites, PoolIsChecked,
              Usable, Visible
<1>4. PoolIsOurs'
  BY <1>1 DEF QuestionIInv, PoolIsOurs, IsOurs
<1>5. ~overlapped' => InTurn'
  BY <1>1 DEF QuestionIInv, InTurn, Idle, Forks
<1> QED
  BY <1>2, <1>3, <1>4, <1>5 DEF QuestionIInv

LEMMA SittingFacts ==
    ASSUME QuestionIInv
    PROVE  /\ live \in Lives
           /\ live.seen \subseteq Questions /\ live.showing \in Questions \cup {NoQuestion}
           /\ live.restricted \in BOOLEAN
           /\ answered \subseteq Questions /\ answered \subseteq live.seen
           /\ \A q \in answered: bank[q].there
           /\ live.state \in {"new", "open", "drawing"} =>
                 live.seen = answered \cup ({live.showing} \ {NoQuestion})
           /\ Drawing => live.showing \in Questions \ answered
           /\ Drawing /\ undisturbed => bank[live.showing].there
           /\ \A q \in live.seen: IsOurs(q)
           /\ losses \in Nat
BY DEF QuestionIInv, QuestionTypeOK, AttemptIsSound, AnswersKeepTheirQuestion, PoolIsOurs, Lives

LEMMA DrawKeeps ==
    ASSUME QuestionIInv, Draw
    PROVE  QuestionIInv'
<1>1. /\ UNCHANGED <<bank, pool, call, wanted, calls, losses, overlapped, undisturbed, answered>>
      /\ live.state = "open" /\ live.showing = NoQuestion
  BY DEF Draw, OnlyAttempt, desk, Sitting
<1>2. CASE Becomes("full", NoQuestion, live.seen) \/ Becomes("exhausted", NoQuestion, live.seen)
  <2>1. live' \in Lives /\ live'.seen = live.seen /\ live'.state \in {"full", "exhausted"}
    BY <1>2, SittingFacts DEF Becomes, Lives
  <2>2. AttemptIsSound'
    BY <1>1, <2>1, SittingFacts DEF AttemptIsSound, AnswersKeepTheirQuestion, Drawing
  <2> QED
    BY <1>1, <2>1, <2>2, SittingFacts, AttemptKeeps DEF desk
<1>3. ASSUME NEW q \in Drawable, Becomes("drawing", q, live.seen \cup {q})
      PROVE  QuestionIInv'
  <2>1. q \in Questions /\ Visible(q, Owner) /\ q \notin live.seen /\ bank[q].there
    BY <1>3 DEF Drawable, Servable, Visible
  <2>2. /\ live' \in Lives /\ live'.seen = live.seen \cup {q} /\ live'.showing = q
        /\ live'.state = "drawing"
    BY <1>3, <2>1, SittingFacts DEF Becomes, Lives
  <2>3. AttemptIsSound'
    BY <1>1, <2>1, <2>2, SittingFacts, ConstantFacts DEF AttemptIsSound, AnswersKeepTheirQuestion, Drawing
  <2>4. IsOurs(q)
    BY <2>1, VisibleIsOurs
  <2> QED
    BY <1>1, <2>2, <2>3, <2>4, SittingFacts, AttemptKeeps DEF desk
<1> QED
  BY <1>2, <1>3 DEF Draw

LEMMA ReadDrawnKeeps ==
    ASSUME QuestionIInv, ReadDrawn
    PROVE  QuestionIInv'
<1>1. /\ UNCHANGED <<bank, pool, call, wanted, calls, losses, overlapped, undisturbed, answered>>
      /\ live.state = "drawing" /\ live.showing \in Questions \ answered
  BY SittingFacts DEF ReadDrawn, OnlyAttempt, desk, Drawing
<1>2. CASE Becomes("open", live.showing, live.seen)
  <2>1. /\ live' \in Lives /\ live'.seen = live.seen /\ live'.showing = live.showing
        /\ live'.state = "open"
    BY <1>2, SittingFacts DEF Becomes, Lives
  <2>2. AttemptIsSound'
    BY <1>1, <2>1, SittingFacts DEF AttemptIsSound, AnswersKeepTheirQuestion, Drawing
  <2> QED
    BY <1>1, <2>1, <2>2, SittingFacts, AttemptKeeps DEF desk
<1>3. CASE Becomes("exhausted", NoQuestion, live.seen \ {live.showing})
  <2>1. /\ live' \in Lives /\ live'.seen = live.seen \ {live.showing}
        /\ live'.state = "exhausted"
    BY <1>3, SittingFacts DEF Becomes, Lives
  <2>2. AttemptIsSound'
    BY <1>1, <2>1, SittingFacts DEF AttemptIsSound, AnswersKeepTheirQuestion, Drawing
  <2> QED
    BY <1>1, <2>1, <2>2, SittingFacts, AttemptKeeps DEF desk
<1> QED
  BY <1>2, <1>3 DEF ReadDrawn

LEMMA SittingKeeps ==
    ASSUME QuestionIInv, Start \/ Respond \/ SectionTimeUp \/ AutoSubmit \/ Rehydrate
    PROVE  QuestionIInv'
<1>1. UNCHANGED <<bank, pool, call, wanted, calls, overlapped, undisturbed>>
  BY DEF Start, Respond, SectionTimeUp, AutoSubmit, Rehydrate, OnlyAttempt, desk
<1>2. losses' \in Nat
  BY SittingFacts DEF Start, Respond, SectionTimeUp, AutoSubmit, Rehydrate, OnlyAttempt
<1>3. CASE Start
  <2>1. /\ answered' = answered /\ live.state = "new"
        /\ live' \in Lives /\ live'.seen = {} /\ live'.showing = NoQuestion
    BY <1>3 DEF Start, Lives
  <2>2. AttemptIsSound'
    BY <1>1, <1>3, <2>1 DEF Start, QuestionIInv, AttemptIsSound, AnswersKeepTheirQuestion, Drawing
  <2> QED
    BY <1>1, <1>2, <2>1, <2>2, SittingFacts, AttemptKeeps DEF desk
<1>4. CASE Respond
  <2>1. /\ answered' = answered \cup {live.showing}
        /\ live.showing \in Questions /\ bank[live.showing].there
        /\ live.state = "open"
        /\ live' \in Lives /\ live'.seen = live.seen /\ live'.showing = NoQuestion
        /\ live'.state = "open"
    BY <1>4, SittingFacts DEF Respond, OnScreen, Sitting, Becomes, Lives
  <2>2. AttemptIsSound'
    BY <1>1, <2>1, SittingFacts, ConstantFacts DEF AttemptIsSound, AnswersKeepTheirQuestion, Drawing
  <2> QED
    BY <1>1, <1>2, <2>1, <2>2, SittingFacts, AttemptKeeps DEF desk
<1>5. CASE SectionTimeUp
  <2>1. /\ answered' = answered \cup ({live.showing} \ {NoQuestion})
        /\ live.showing # NoQuestion => bank[live.showing].there
        /\ live.state = "open"
        /\ live' \in Lives /\ live'.seen = live.seen /\ live'.state = "time"
    BY <1>5, SittingFacts DEF SectionTimeUp, OnScreen, Sitting, Becomes, Lives
  <2>2. AttemptIsSound'
    BY <1>1, <2>1, SittingFacts DEF AttemptIsSound, AnswersKeepTheirQuestion, Drawing
  <2>3. answered' \subseteq Questions
    BY <2>1, SittingFacts
  <2> QED
    BY <1>1, <1>2, <2>1, <2>2, <2>3, SittingFacts, AttemptKeeps DEF desk
<1>6. CASE AutoSubmit
  <2>1. /\ answered' = answered
        /\ live' \in Lives /\ live'.seen = live.seen /\ live'.state = "time"
    BY <1>6, SittingFacts DEF AutoSubmit, Becomes, Lives
  <2>2. AttemptIsSound'
    BY <1>1, <2>1, SittingFacts DEF AttemptIsSound, AnswersKeepTheirQuestion, Drawing
  <2> QED
    BY <1>1, <1>2, <2>1, <2>2, SittingFacts, AttemptKeeps DEF desk
<1>7. CASE Rehydrate
  <2>1. /\ answered' = answered
        /\ live' \in Lives /\ live'.seen = answered /\ live'.showing = NoQuestion
        /\ live'.state = "open"
    BY <1>7, SittingFacts DEF Rehydrate, desk, Lives
  <2>2. AttemptIsSound'
    BY <1>1, <2>1, SittingFacts DEF AttemptIsSound, AnswersKeepTheirQuestion, Drawing
  <2> QED
    BY <1>1, <1>2, <2>1, <2>2, SittingFacts, AttemptKeeps DEF desk
<1> QED
  BY <1>3, <1>4, <1>5, <1>6, <1>7

-----------------------------------------------------------------------------
LEMMA StutterKeeps ==
    ASSUME QuestionIInv, UNCHANGED questionVars
    PROVE  QuestionIInv'
<1>1. /\ UNCHANGED <<desk, live, answered, calls, losses, overlapped, undisturbed>>
  BY DEF questionVars, attempt
<1>2. AttemptIsSound'
  BY <1>1 DEF desk, QuestionIInv, AttemptIsSound, AnswersKeepTheirQuestion, Drawing
<1> QED
  BY <1>1, <1>2, SittingFacts, AttemptKeeps

LEMMA NextKeeps ==
    ASSUME QuestionIInv, [QuestionNext]_questionVars
    PROVE  QuestionIInv'
<1>1. ASSUME NEW r \in Recruiters, Clerk(r) PROVE QuestionIInv'
  <2>1. CASE \E q \in Questions, isActive, isSample \in BOOLEAN:
               Edit(r, q, isActive, isSample) \/ Author(r, q, isActive, isSample)
    BY <2>1, AskKeeps, AuthorKeeps
  <2>2. CASE \E q \in Questions: Remove(r, q) \/ Fork(r, q)
    <3>1. TRUE \in BOOLEAN
      OBVIOUS
    <3> QED
      BY <2>2, <3>1, AskKeeps, ForkKeeps
  <2>3. CASE Save(r) \/ Delete(r)
    BY <2>3, SaveKeeps, DeleteKeeps
  <2> QED
    BY <1>1, <2>1, <2>2, <2>3 DEF Clerk
<1>2. CASE \E ids \in SUBSET Questions: CheckPool(ids)
  BY <1>2, CheckPoolKeeps
<1>3. CASE StorePool
  BY <1>3, StorePoolKeeps
<1>4. CASE Draw \/ ReadDrawn
  BY <1>4, DrawKeeps, ReadDrawnKeeps
<1>5. CASE Start \/ Respond \/ SectionTimeUp \/ AutoSubmit \/ Rehydrate
  BY <1>5, SittingKeeps
<1>6. CASE UNCHANGED questionVars
  BY <1>6, StutterKeeps
<1> QED
  BY <1>1, <1>2, <1>3, <1>4, <1>5, <1>6 DEF QuestionNext

LEMMA InvariantHolds == QuestionSpec => []QuestionIInv
<1>1. QuestionInit => QuestionIInv
  BY InitSound
<1>2. QuestionIInv /\ [QuestionNext]_questionVars => QuestionIInv'
  BY NextKeeps
<1> QED
  BY <1>1, <1>2, PTL DEF QuestionSpec

(***************************************************************************)
(* Every variable keeps its type, whoever works on the bank.               *)
(***************************************************************************)
THEOREM TypeCorrect == QuestionSpec => []QuestionTypeOK
<1>1. QuestionIInv => QuestionTypeOK
  BY DEF QuestionIInv
<1> QED
  BY <1>1, InvariantHolds, PTL

(***************************************************************************)
(* A question that was ever answered stays in the bank: the count that     *)
(* remove reads, and the foreign key behind it.                            *)
(***************************************************************************)
THEOREM AnsweredQuestionsStay == QuestionSpec => []AnswersKeepTheirQuestion
<1>1. QuestionIInv => AnswersKeepTheirQuestion
  BY DEF QuestionIInv, AttemptIsSound
<1> QED
  BY <1>1, InvariantHolds, PTL

(***************************************************************************)
(* No pool and no attempt comes by another company's question.             *)
(***************************************************************************)
THEOREM PoolsStayInTheCompany == QuestionSpec => []NothingOfAnothers
<1>1. QuestionIInv => NothingOfAnothers
  BY DEF QuestionIInv, PoolIsOurs, IsOurs, NothingOfAnothers
<1> QED
  BY <1>1, InvariantHolds, PTL

(***************************************************************************)
(* A company sees a version of every shipped question, and one only as     *)
(* long as its recruiters' calls do not overlap.                           *)
(***************************************************************************)
THEOREM BankIsWhole == QuestionSpec => []OneVersionEach
<1>1. ASSUME QuestionIInv PROVE OneVersionEach
  <2> SUFFICES ASSUME NEW c \in Companies, NEW s \in Shipped
               PROVE  /\ Versions(c, s) # {}
                      /\ ~overlapped => \A p, q \in Versions(c, s): p = q
    BY DEF OneVersionEach
  <2>1. BankIsSound /\ (~overlapped => InTurn)
    BY <1>1 DEF QuestionIInv
  <2>2. /\ s \in Questions /\ bank[s].there /\ bank[s].owner = Platform /\ c # Platform
        /\ \A q \in Shipped: bank[q].parent # s
    BY <2>1, ConstantFacts DEF BankIsSound, Questions
  <2>3. Versions(c, s) # {}
    <3>1. CASE Visible(s, c)
      BY <2>2, <3>1 DEF Versions
    <3>2. CASE ~Visible(s, c)
      <4>1. PICK f \in Questions: bank[f].there /\ bank[f].parent = s /\ bank[f].owner = c
        BY <2>2, <3>2 DEF Visible
      <4>2. Visible(f, c)
        BY <4>1 DEF Visible
      <4> QED
        BY <4>1, <4>2 DEF Versions
    <3> QED
      BY <3>1, <3>2
  <2>4. ASSUME ~overlapped, NEW p \in Versions(c, s), NEW q \in Versions(c, s)
        PROVE  p = q
    <3>1. ASSUME NEW x \in Versions(c, s), x # s PROVE x \in Forks(c, s)
      <4>1. x \in Minted /\ bank[x].parent = s /\ bank[x].there
        BY <2>2, <3>1, ConstantFacts DEF Versions, Visible, Questions
      <4>2. bank[x].owner = c
        BY <2>1, <3>1, <4>1, ConstantFacts DEF Versions, Visible, BankIsSound
      <4> QED
        BY <4>1, <4>2 DEF Forks
    <3>2. s \in Versions(c, s) => Forks(c, s) = {}
      BY <2>2 DEF Versions, Visible, Forks, Questions
    <3>3. \A x, y \in Forks(c, s): x = y
      BY <2>1, <2>4 DEF InTurn
    <3> QED
      BY <3>1, <3>2, <3>3
  <2> QED
    BY <2>3, <2>4
<1> QED
  BY <1>1, InvariantHolds, PTL

-----------------------------------------------------------------------------
\* A recruiter's call writes, if anything, a row of its own company.
LEMMA WritesAreOwn ==
    ASSUME QuestionIInv, NEW r \in Recruiters, Clerk(r)
    PROVE  UNCHANGED bank \/ \E q, row: OwnWrite(CompanyOf[r], q, row)
<1>0. /\ bank \in [Questions -> QuestionRows]
      /\ call \in [Recruiters -> Calls]
      /\ BankIsSound /\ CallsAreSound
  BY DEF QuestionIInv, QuestionTypeOK
<1>1. ASSUME NEW q \in Questions, NEW isActive \in BOOLEAN,
             NEW isSample \in BOOLEAN, Author(r, q, isActive, isSample)
      PROVE  \E row: OwnWrite(CompanyOf[r], q, row)
  <2> DEFINE row == [there |-> TRUE, owner |-> CompanyOf[r], active |-> isActive,
                     sample |-> isSample, parent |-> NoQuestion, detailed |-> TRUE]
  <2>1. Write(q, row) /\ ~bank[q].there
    BY <1>1 DEF Author, Unused
  <2>2. q \in Minted
    BY <1>0, <2>1, ConstantFacts DEF BankIsSound
  <2>3. row \in QuestionRows
    BY ConstantFacts DEF QuestionRows
  <2>4. OwnWrite(CompanyOf[r], q, row)
    BY <2>1, <2>2, <2>3 DEF OwnWrite, Write
  <2> QED
    BY <2>4
<1>2. ASSUME NEW q \in Questions, Fork(r, q)
      PROVE  \E row: OwnWrite(CompanyOf[r], q, row)
  <2>1. Write(q, call[r].row) /\ ~bank[q].there /\ call[r].op = "fork"
    BY <1>2 DEF Fork, Unused
  <2>2. q \in Minted
    BY <1>0, <2>1, ConstantFacts DEF BankIsSound
  <2>3. call[r].row \in QuestionRows /\ call[r].row.owner = CompanyOf[r]
    BY <1>0, <2>1 DEF Calls, CallsAreSound, CallIsSound
  <2>4. OwnWrite(CompanyOf[r], q, call[r].row)
    BY <2>1, <2>2, <2>3 DEF OwnWrite, Write
  <2> QED
    BY <2>4
<1>3. ASSUME Save(r)
      PROVE  \E row: OwnWrite(CompanyOf[r], call[r].on, row)
  <2> DEFINE q == call[r].on
             row == [there |-> TRUE, owner |-> call[r].row.owner,
                     active |-> call[r].row.active, sample |-> call[r].row.sample,
                     parent |-> call[r].row.parent, detailed |-> bank[q].detailed]
  <2>1. call[r].op = "save" /\ Write(q, row)
    BY <1>3 DEF Save
  <2>2. /\ q \in Minted
        /\ bank[q].there => bank[q].owner = CompanyOf[r]
        /\ call[r].row.owner = CompanyOf[r]
    BY <1>0, <2>1 DEF CallsAreSound, CallIsSound
  <2>3. row \in QuestionRows
    <3>1. call[r].row \in QuestionRows /\ bank[q] \in QuestionRows
      BY <1>0, <2>2 DEF Calls, Questions
    <3> QED
      BY <3>1 DEF QuestionRows
  <2>4. OwnWrite(CompanyOf[r], q, row)
    BY <2>1, <2>2, <2>3 DEF OwnWrite, Write
  <2> QED
    BY <2>4
<1>4. ASSUME Delete(r)
      PROVE  UNCHANGED bank \/ OwnWrite(CompanyOf[r], call[r].on, NoRow)
  <2>1. /\ call[r].on \in Minted
        /\ bank[call[r].on].there => bank[call[r].on].owner = CompanyOf[r]
    BY <1>0, <1>4 DEF Delete, CallsAreSound, CallIsSound
  <2>2. UNCHANGED bank \/ Write(call[r].on, NoRow)
    BY <1>4 DEF Delete
  <2>3. ~NoRow.there
    BY DEF NoRow
  <2> QED
    BY <2>1, <2>2, <2>3, RowFacts DEF OwnWrite, Write
<1>5. CASE \E q \in Questions, isActive, isSample \in BOOLEAN: Edit(r, q, isActive, isSample)
  BY <1>5 DEF Edit, Ask
<1>6. CASE \E q \in Questions: Remove(r, q)
  BY <1>6 DEF Remove, Ask
<1> QED
  BY <1>1, <1>2, <1>3, <1>4, <1>5, <1>6 DEF Clerk

\* Nothing else touches the bank.
LEMMA OthersDoNotWrite ==
    ASSUME [QuestionNext]_questionVars, \A r \in Recruiters: ~Clerk(r)
    PROVE  UNCHANGED bank
<1>1. \/ \E ids \in SUBSET Questions: CheckPool(ids)
      \/ StorePool \/ Start \/ Draw \/ ReadDrawn \/ Respond \/ SectionTimeUp \/ AutoSubmit
      \/ Rehydrate \/ UNCHANGED questionVars
  BY DEF QuestionNext
<1> QED
  BY <1>1 DEF CheckPool, StorePool, Start, Draw, ReadDrawn, Respond, SectionTimeUp, AutoSubmit,
              Rehydrate, OnlyAttempt, questionVars, desk

(***************************************************************************)
(* Whatever a recruiter writes, and whenever it read what it writes back,  *)
(* no other company's view of the bank moves; and nobody else's step moves *)
(* any.                                                                    *)
(***************************************************************************)
THEOREM ForksArePrivate == QuestionSpec => OtherCompaniesKeepTheirs
<1>1. ASSUME QuestionIInv, [QuestionNext]_questionVars, NEW c \in Companies, View(c)' # View(c)
      PROVE  /\ \E r \in Recruiters: Clerk(r)
             /\ \A r \in Recruiters: Clerk(r) => CompanyOf[r] = c
  <2>1. ~UNCHANGED bank
    BY <1>1 DEF View, Visible
  <2>2. \E r \in Recruiters: Clerk(r)
    BY <1>1, <2>1, OthersDoNotWrite
  <2>3. ASSUME NEW r \in Recruiters, Clerk(r), CompanyOf[r] # c PROVE FALSE
    <3>1. PICK q, row : OwnWrite(CompanyOf[r], q, row)
      BY <1>1, <2>1, <2>3, WritesAreOwn
    <3>2. CompanyOf[r] \in Companies
      BY ConstantFacts
    <3> QED
      BY <1>1, <2>3, <3>1, <3>2, OthersViewStays
  <2> QED
    BY <2>2, <2>3
<1>2. QuestionIInv /\ [QuestionNext]_questionVars
      => \A c \in Companies: View(c)' # View(c) =>
            /\ \E r \in Recruiters: Clerk(r)
            /\ \A r \in Recruiters: Clerk(r) => CompanyOf[r] = c
  BY <1>1
<1> QED
  BY <1>2, InvariantHolds, PTL DEF QuestionSpec, OtherCompaniesKeepTheirs

(***************************************************************************)
(* An attempt that keeps to a pool as it was checked never runs dry: as    *)
(* many active questions as the section is long cannot all have been seen  *)
(* before they were answered.                                              *)
(***************************************************************************)
THEOREM CheckedPoolsSuffice == QuestionSpec => CuratedRunsFull
<1>1. ASSUME QuestionIInv, [QuestionNext]_questionVars,
             Sitting \/ Drawing, live'.state = "exhausted",
             live.restricted, pool # {}, \A q \in pool: bank[q].detailed, undisturbed
      PROVE  FALSE
  <2>1. Draw
    <3>1. ASSUME NEW r \in Recruiters, Clerk(r) PROVE live' = live
      <4>1. CASE \E q \in Questions, isActive, isSample \in BOOLEAN:
                   Edit(r, q, isActive, isSample) \/ Author(r, q, isActive, isSample)
        BY <4>1 DEF Edit, Author, Ask, attempt
      <4>2. CASE \E q \in Questions: Remove(r, q) \/ Fork(r, q)
        BY <4>2 DEF Remove, Ask, Fork, Done, attempt
      <4>3. CASE Save(r) \/ Delete(r)
        BY <4>3 DEF Save, Delete, Done, attempt
      <4> QED
        BY <3>1, <4>1, <4>2, <4>3 DEF Clerk
    <3>2. CASE (\E ids \in SUBSET Questions: CheckPool(ids)) \/ StorePool \/ UNCHANGED questionVars
      BY <1>1, <3>2 DEF CheckPool, StorePool, questionVars, attempt, Sitting, Drawing
    <3>3. CASE Start \/ Respond \/ SectionTimeUp \/ AutoSubmit \/ Rehydrate
      <4>1. CASE Start
        BY <1>1, <4>1 DEF Start, Sitting, Drawing
      <4>2. CASE Respond \/ SectionTimeUp \/ AutoSubmit
        BY <1>1, <4>2 DEF Respond, SectionTimeUp, AutoSubmit, Becomes
      <4>3. CASE Rehydrate
        <5>1. live'.state = "open"
          BY <4>3 DEF Rehydrate
        <5> QED
          BY <1>1, <5>1
      <4> QED
        BY <3>3, <4>1, <4>2, <4>3
    <3>4. CASE ReadDrawn
      BY <1>1, <3>4, SittingFacts DEF ReadDrawn, Becomes
    <3> QED
      BY <1>1, <3>1, <3>2, <3>3, <3>4 DEF QuestionNext, Sitting, Drawing
  <2>2. live.showing = NoQuestion /\ Cardinality(answered) < Length /\ Drawable = {}
    BY <1>1, <2>1 DEF Draw, Becomes
  <2>3. live.seen = answered /\ answered \subseteq Questions
    BY <1>1, <2>1, <2>2, SittingFacts DEF Draw, Sitting
  <2>4. /\ pool \subseteq Questions
        /\ \A q \in pool: Visible(q, Owner) /\ ~bank[q].sample
        /\ Cardinality({q \in pool: bank[q].active}) >= Length
    BY <1>1 DEF QuestionIInv, QuestionTypeOK, PoolIsChecked, Usable
  <2>5. {q \in pool: bank[q].active} \subseteq answered
    BY <1>1, <2>2, <2>3, <2>4 DEF Drawable, Servable
  <2>6. IsFiniteSet(answered)
    <3>1. IsFiniteSet(Questions)
      BY QuestionsAssumption, FS_Union DEF Questions
    <3> QED
      BY <2>3, <3>1, FS_Subset
  <2>7. /\ Cardinality({q \in pool: bank[q].active}) <= Cardinality(answered)
        /\ IsFiniteSet({q \in pool: bank[q].active})
    BY <2>5, <2>6, FS_Subset
  <2>8. /\ Cardinality(answered) \in Nat /\ Length \in Nat
        /\ Cardinality({q \in pool: bank[q].active}) \in Nat
    BY <2>6, <2>7, QuestionsAssumption, FS_CardinalityType
  <2> QED
    BY <2>2, <2>4, <2>7, <2>8
<1>2. QuestionIInv /\ [QuestionNext]_questionVars
      => (/\ Sitting \/ Drawing
          /\ live'.state = "exhausted"
          /\ live.restricted /\ pool # {} /\ \A q \in pool: bank[q].detailed
          => ~undisturbed)
  BY <1>1
<1> QED
  BY <1>2, InvariantHolds, PTL DEF QuestionSpec, CuratedRunsFull

-----------------------------------------------------------------------------
(* The least of some numbers, which the rest of the module goes by.        *)

LEMMA Least ==
    ASSUME NEW T \in SUBSET Nat, T # {}
    PROVE  \E m \in T : \A k \in T : m <= k
<1> DEFINE R == {ss \in Nat \X Nat : ss[1] < ss[2]}
<1>1. IsWellFoundedOn(R, Nat)
  BY NatLessThanWellFounded DEF OpToRel
<1>2. \E m \in T : \A k \in T : ~(<<k, m>> \in R)
  <2> HIDE DEF R
  <2> QED
    BY <1>1, WFMin
<1>3. PICK m \in T : \A k \in T : ~(<<k, m>> \in R)
  BY <1>2
<1>4. ASSUME NEW k \in T PROVE m <= k
  <2>1. k \in Nat /\ m \in Nat /\ ~(<<k, m>> \in R)
    BY <1>3
  <2>2. ~(k < m)
    BY <2>1
  <2> QED
    BY <2>1, <2>2
<1> QED
  BY <1>4

-----------------------------------------------------------------------------
(***************************************************************************)
(* ProbePairs.                                                             *)
(***************************************************************************)
(* The replay of the stored answers.                                       *)

\* Induction over the naturals, of a set.
LEMMA EveryNumber ==
    ASSUME NEW T, 0 \in T, \A n \in Nat : n \in T => n + 1 \in T
    PROVE  Nat \subseteq T
<1> SUFFICES ASSUME Nat \ T # {} PROVE FALSE
  OBVIOUS
<1>1. PICK m \in Nat \ T : \A k \in Nat \ T : m <= k
  BY Least
<1>2. m - 1 \in Nat \ T
  BY <1>1
<1> QED
  BY <1>1, <1>2

\* f replays the first k of the rows.
Replays(f, rows, k) ==
    f = [n \in 0 .. k |-> IF n = 0 THEN Fresh ELSE Replayed(f[n - 1], rows[n])]

LEMMA RebuiltIsReplay ==
    ASSUME NEW rows
    PROVE  Rebuilt(rows) = (CHOOSE f : Replays(f, rows, Len(rows)))[Len(rows)]
BY DEF Rebuilt, Replays

LEMMA ReplayExists ==
    ASSUME NEW rows, NEW k \in Nat
    PROVE  \E f : Replays(f, rows, k)
<1> DEFINE T == {n \in Nat : \E f : Replays(f, rows, n)}
<1>1. 0 \in T
  <2>1. Replays([n \in 0 .. 0 |-> Fresh], rows, 0)
    BY DEF Replays
  <2> QED
    BY <2>1
<1>2. ASSUME NEW m \in Nat, m \in T PROVE m + 1 \in T
  <2>1. PICK f : Replays(f, rows, m)
    BY <1>2
  <2> DEFINE g == [n \in 0 .. m + 1 |-> IF n = m + 1 THEN Replayed(f[m], rows[m + 1]) ELSE f[n]]
  <2>2. \A n \in 0 .. m : g[n] = f[n]
    OBVIOUS
  <2>3. \A n \in 0 .. m : f[n] = IF n = 0 THEN Fresh ELSE Replayed(f[n - 1], rows[n])
    BY <2>1 DEF Replays
  <2>4. \A n \in 0 .. m + 1 : g[n] = IF n = 0 THEN Fresh ELSE Replayed(g[n - 1], rows[n])
    <3>1. ASSUME NEW n \in 0 .. m + 1
          PROVE  g[n] = IF n = 0 THEN Fresh ELSE Replayed(g[n - 1], rows[n])
      <4>1. CASE n = m + 1
        <5>1. g[n] = Replayed(f[m], rows[m + 1]) /\ n # 0 /\ n - 1 = m /\ g[m] = f[m]
          BY <4>1, <2>2
        <5> HIDE DEF g
        <5> QED
          BY <4>1, <5>1
      <4>2. CASE n = 0
        BY <2>2, <2>3, <4>2
      <4>3. CASE n \in 1 .. m
        <5>1. n \in 0 .. m /\ n - 1 \in 0 .. m /\ n # 0
          BY <4>3
        <5>2. g[n] = f[n] /\ g[n - 1] = f[n - 1]
          BY <5>1, <2>2
        <5> HIDE DEF g
        <5> QED
          BY <2>3, <5>1, <5>2
      <4> QED
        BY <4>1, <4>2, <4>3
    <3> QED
      BY <3>1
  <2>5. Replays(g, rows, m + 1)
    <3>1. g = [n \in 0 .. m + 1 |-> g[n]]
      OBVIOUS
    <3> HIDE DEF g
    <3> QED
      BY <2>4, <3>1 DEF Replays
  <2> QED
    BY <2>5
<1>3. Nat \subseteq T
  <2> HIDE DEF T
  <2> QED
    BY <1>1, <1>2, EveryNumber
<1> QED
  BY <1>3

\* Two replays that agree on the rows agree on the outcome.
LEMMA ReplayIsUnique ==
    ASSUME NEW rows, NEW others, NEW k \in Nat, NEW m \in Nat, NEW f, NEW g,
           Replays(f, rows, k), Replays(g, others, m), k <= m,
           \A n \in 1 .. k : rows[n] = others[n]
    PROVE  f[k] = g[k]
<1> DEFINE T == {n \in Nat : n <= k => f[n] = g[n]}
<1>1. /\ \A n \in 0 .. k : f[n] = IF n = 0 THEN Fresh ELSE Replayed(f[n - 1], rows[n])
      /\ \A n \in 0 .. m : g[n] = IF n = 0 THEN Fresh ELSE Replayed(g[n - 1], others[n])
  BY DEF Replays
<1>2. 0 \in T
  BY <1>1
<1>3. ASSUME NEW n \in Nat, n \in T PROVE n + 1 \in T
  <2> SUFFICES ASSUME n + 1 <= k PROVE f[n + 1] = g[n + 1]
    OBVIOUS
  <2>1. f[n] = g[n] /\ n + 1 \in 0 .. k /\ n + 1 \in 0 .. m /\ n + 1 \in 1 .. k
    BY <1>3
  <2>2. n + 1 # 0 /\ (n + 1) - 1 = n /\ rows[n + 1] = others[n + 1]
    BY <2>1
  <2> QED
    BY <1>1, <2>1, <2>2
<1>4. Nat \subseteq T
  <2> HIDE DEF T
  <2> QED
    BY <1>2, <1>3, EveryNumber
<1> QED
  BY <1>4

LEMMA NothingRebuilt == ASSUME NEW rows, Len(rows) = 0 PROVE Rebuilt(rows) = Fresh
<1> DEFINE f == CHOOSE h : Replays(h, rows, 0)
<1>1. Replays(f, rows, 0)
  BY ReplayExists
<1>2. Rebuilt(rows) = f[0]
  BY RebuiltIsReplay
<1> HIDE DEF f
<1> QED
  BY <1>1, <1>2 DEF Replays

\* One more row: replayed on top of the others.
LEMMA RebuiltAppend ==
    ASSUME NEW S, NEW rows \in Seq(S), NEW row \in S
    PROVE  Rebuilt(Append(rows, row)) = Replayed(Rebuilt(rows), row)
<1> DEFINE k == Len(rows)
           more == Append(rows, row)
           f == CHOOSE h : Replays(h, rows, k)
           g == CHOOSE h : Replays(h, more, k + 1)
<1>1. k \in Nat /\ Len(more) = k + 1 /\ more[k + 1] = row /\ \A n \in 1 .. k : rows[n] = more[n]
  OBVIOUS
<1>2. Rebuilt(rows) = f[k]
  BY RebuiltIsReplay
<1>3. Rebuilt(more) = g[k + 1]
  BY <1>1, RebuiltIsReplay
<1> HIDE DEF k, more
<1>4. Replays(f, rows, k)
  BY <1>1, ReplayExists
<1>5. Replays(g, more, k + 1)
  BY <1>1, ReplayExists
<1> HIDE DEF f, g
<1>6. f[k] = g[k]
  BY <1>1, <1>4, <1>5, ReplayIsUnique
<1>7. g[k + 1] = Replayed(g[k], more[k + 1])
  <2>1. \A n \in 0 .. k + 1 : g[n] = IF n = 0 THEN Fresh ELSE Replayed(g[n - 1], more[n])
    BY <1>5 DEF Replays
  <2>2. k + 1 \in 0 .. k + 1 /\ k + 1 # 0 /\ (k + 1) - 1 = k
    BY <1>1
  <2> QED
    BY <2>1, <2>2
<1> QED
  BY <1>1, <1>2, <1>3, <1>6, <1>7 DEF more
-----------------------------------------------------------------------------
(* The pairs, told by the rows.                                            *)

GroupIn(rows, i) == Group[rows[i].question]

\* A pair was opened by the answer it names; while it is open that is the only answer of
\* its group, and once it is closed the other one lies more than the gap behind it.
PairHolds(rows, p) ==
    /\ p \in Pairs
    /\ p.at \in 1 .. Len(rows) /\ rows[p.at].question = p.first /\ rows[p.at].chosen
    /\ Group[p.first] = p.group
    /\ p.at + Gap < QuestionCount
    /\ Open(p) => \A i \in 1 .. Len(rows) : GroupIn(rows, i) = p.group => i = p.at
    /\ ~Open(p) => \E j \in 1 .. Len(rows) :
                       /\ p.at + Gap < j /\ rows[j].question = p.second
                       /\ p.compared = rows[j].chosen
                       /\ \A i \in 1 .. Len(rows) : GroupIn(rows, i) = p.group => i \in {p.at, j}

\* What the live state b has in it when the rows have been answered and nothing is shown.
Remembers(b, rows) ==
    /\ b \in Runs /\ rows \in Answers
    /\ b.answered = Len(rows)
    /\ b.seen = {rows[i].question : i \in 1 .. Len(rows)}
    /\ \A i \in 1 .. Len(rows) : GroupIn(rows, i) # Plain => GroupIn(rows, i) \in b.served
    /\ \A k \in 1 .. Len(b.probes) : PairHolds(rows, b.probes[k])
    /\ \A k, l \in 1 .. Len(b.probes) :
          k < l => b.probes[k].group # b.probes[l].group /\ b.probes[k].at < b.probes[l].at
    /\ \A i, j \in 1 .. Len(rows) :
          i < j /\ GroupIn(rows, i) = GroupIn(rows, j) /\ GroupIn(rows, i) # Plain =>
              \E k \in 1 .. Len(b.probes) : b.probes[k].group = GroupIn(rows, i)

\* A question that may be shown on b.
MayShow(b, q) == q \in Bank /\ q \notin b.seen /\ Group[q] \notin Blocked(b)

\* The question on screen is no twin of the pair.
Elsewhere(p) == showing # Nothing => Group[showing] # p.group

\* A pair whose gap has passed, and whose turn it was to be closed.
PassedOver(b, p) ==
    /\ Open(p)
    /\ \/ b.answered > p.at + Gap
       \/ showing # Nothing /\ b.answered >= p.at + Gap /\ Group[showing] # p.group

\* It was passed over for the sake of an older one whose twins are gone.
PassedOverForReason(b) ==
    \A i \in 1 .. Len(b.probes) : PassedOver(b, b.probes[i]) =>
        \E j \in 1 .. i :
            Open(b.probes[j]) /\ Withdrawn(b.probes[j]) /\ Elsewhere(b.probes[j])

ProbesIInv ==
    /\ TypeOK
    /\ Remembers(Rebuilt(answers), answers)
    /\ ProbesAreReplayed
    /\ showing # Nothing => MayShow(Rebuilt(answers), showing)
    /\ PassedOverForReason(Rebuilt(answers))

LEMMA ProbeFacts ==
    /\ Gap \in Nat /\ MaxPairs \in Nat /\ QuestionCount \in Nat
    /\ Plain \notin Groups /\ Nothing \notin Bank
    /\ \A q \in Bank : Group[q] \in Groups \cup {Plain}
BY BankAssumption, LengthAssumption

LEMMA RunFacts ==
    ASSUME NEW b \in Runs
    PROVE  /\ b.answered \in Nat /\ b.seen \subseteq Bank /\ b.served \subseteq Groups
           /\ b.probes \in Seq(Pairs) /\ Len(b.probes) \in Nat
           /\ \A k \in 1 .. Len(b.probes) : b.probes[k] \in Pairs
BY DEF Runs

\* One answer folded into the live state.
LEMMA ReplayedIs ==
    ASSUME NEW b \in Runs, NEW q, NEW chosen
    PROVE  Replayed(b, [question |-> q, chosen |-> chosen]) =
              [answered |-> b.answered + 1, seen |-> b.seen \cup {q},
               served |-> b.served \cup ({Group[q]} \ {Plain}),
               probes |->
                  IF Group[q] = Plain THEN b.probes
                  ELSE WithAnswer(Counted(Shown(b, q)), Group[q], q, chosen)]
BY DEF Replayed, Recorded, Shown, Counted

\* A question that is let through is a due twin, or the first of its group.
LEMMA MayShowMeans ==
    ASSUME NEW b, NEW rows, NEW q, Remembers(b, rows), MayShow(b, q), Group[q] # Plain
    PROVE  \/ \E k \in 1 .. Len(b.probes) :
                 Open(b.probes[k]) /\ Waited(b, b.probes[k]) /\ b.probes[k].group = Group[q]
           \/ /\ \A k \in 1 .. Len(b.probes) : b.probes[k].group # Group[q]
              /\ \A i \in 1 .. Len(rows) : GroupIn(rows, i) # Group[q]
<1>1. CASE Group[q] \in DueGroup(b)
  BY <1>1 DEF DueGroup, Due
<1>2. CASE Group[q] \notin Touched(b)
  <2>1. Group[q] \notin b.served /\ \A k \in 1 .. Len(b.probes) : b.probes[k].group # Group[q]
    BY <1>2 DEF Touched
  <2>2. \A i \in 1 .. Len(rows) : GroupIn(rows, i) # Plain => GroupIn(rows, i) \in b.served
    BY DEF Remembers
  <2> QED
    BY <2>1, <2>2
<1> QED
  BY <1>1, <1>2 DEF MayShow, Blocked

\* A pair stands while other groups are asked.
LEMMA PairStays ==
    ASSUME NEW rows \in Answers, NEW row \in [question : Bank, chosen : BOOLEAN], NEW p,
           PairHolds(rows, p), Group[row.question] # p.group
    PROVE  PairHolds(Append(rows, row), p)
<1> DEFINE more == Append(rows, row)
<1>1. /\ Len(rows) \in Nat /\ Len(more) = Len(rows) + 1 /\ more[Len(rows) + 1] = row
      /\ \A i \in 1 .. Len(rows) : more[i] = rows[i]
  BY DEF Answers
<1> HIDE DEF more
<1>2. /\ \A i \in 1 .. Len(rows) : GroupIn(more, i) = GroupIn(rows, i)
      /\ GroupIn(more, Len(rows) + 1) # p.group
  BY <1>1 DEF GroupIn
<1>3. \A i \in 1 .. Len(more) : GroupIn(more, i) = p.group =>
         i \in 1 .. Len(rows) /\ GroupIn(rows, i) = p.group
  BY <1>1, <1>2
<1>4. /\ p \in Pairs /\ p.at \in 1 .. Len(more) /\ more[p.at].question = p.first
      /\ more[p.at].chosen /\ Group[p.first] = p.group /\ p.at + Gap < QuestionCount
  BY <1>1 DEF PairHolds
<1>5. Open(p) => \A i \in 1 .. Len(more) : GroupIn(more, i) = p.group => i = p.at
  BY <1>3 DEF PairHolds
<1>6. ASSUME ~Open(p)
      PROVE  \E j \in 1 .. Len(more) :
                 /\ p.at + Gap < j /\ more[j].question = p.second
                 /\ p.compared = more[j].chosen
                 /\ \A i \in 1 .. Len(more) : GroupIn(more, i) = p.group => i \in {p.at, j}
  <2>1. PICK j \in 1 .. Len(rows) :
            /\ p.at + Gap < j /\ rows[j].question = p.second
            /\ p.compared = rows[j].chosen
            /\ \A i \in 1 .. Len(rows) : GroupIn(rows, i) = p.group => i \in {p.at, j}
    BY <1>6 DEF PairHolds
  <2>2. j \in 1 .. Len(more) /\ more[j] = rows[j]
    BY <1>1
  <2> QED
    BY <1>3, <2>1, <2>2
<1>7. PairHolds(more, p)
  BY <1>4, <1>5, <1>6 DEF PairHolds
<1> QED
  BY <1>7 DEF more

\* How the pairs move with an answer: a due twin closes the pair of its group, a first
\* answer may open one, and nothing else happens to any.
PairsMove(b, after, q) ==
    /\ Len(b.probes) <= Len(after.probes)
    /\ \A k \in 1 .. Len(b.probes) :
          IF Open(b.probes[k]) /\ b.probes[k].group = Group[q]
          THEN /\ after.probes[k].group = Group[q] /\ after.probes[k].at = b.probes[k].at
               /\ ~Open(after.probes[k])
          ELSE after.probes[k] = b.probes[k]
    /\ \A k \in 1 .. Len(after.probes) : k > Len(b.probes) =>
          after.probes[k].at = b.answered + 1 /\ k = Len(b.probes) + 1

LEMMA AnswerIsRemembered ==
    ASSUME NEW b, NEW rows, NEW q, NEW chosen \in BOOLEAN, Remembers(b, rows), MayShow(b, q)
    PROVE  LET row == [question |-> q, chosen |-> chosen]
           IN  /\ Remembers(Replayed(b, row), Append(rows, row))
               /\ PairsMove(b, Replayed(b, row), q)
<1> DEFINE row == [question |-> q, chosen |-> chosen]
           after == Replayed(b, row)
           more == Append(rows, row)
           n == Len(rows)
           g == Group[q]
<1>1. /\ b \in Runs /\ rows \in Answers /\ b.answered = n /\ n \in Nat
      /\ q \in Bank /\ q \notin b.seen /\ g \in Groups \cup {Plain}
      /\ row \in [question : Bank, chosen : BOOLEAN] /\ row.question = q /\ row.chosen = chosen
  BY ProbeFacts DEF Remembers, MayShow, Answers
<1>2. /\ b.answered \in Nat /\ b.seen \subseteq Bank /\ b.served \subseteq Groups
      /\ b.probes \in Seq(Pairs) /\ Len(b.probes) \in Nat
      /\ \A k \in 1 .. Len(b.probes) : b.probes[k] \in Pairs
  BY <1>1, RunFacts
<1>3. /\ more \in Answers /\ Len(more) = n + 1 /\ more[n + 1] = row
      /\ \A i \in 1 .. n : more[i] = rows[i]
  BY <1>1 DEF Answers
<1>4. /\ \A i \in 1 .. n : GroupIn(more, i) = GroupIn(rows, i)
      /\ GroupIn(more, n + 1) = g
  BY <1>1, <1>3 DEF GroupIn
<1>5. /\ after.answered = n + 1 /\ after.seen = b.seen \cup {q}
      /\ after.served = b.served \cup ({g} \ {Plain})
      /\ after.probes = IF g = Plain THEN b.probes
                        ELSE WithAnswer(Counted(Shown(b, q)), g, q, chosen)
      /\ after = [answered |-> after.answered, seen |-> after.seen, served |-> after.served,
                  probes |-> after.probes]
  <2>1. after = [answered |-> b.answered + 1, seen |-> b.seen \cup {q},
                 served |-> b.served \cup ({g} \ {Plain}),
                 probes |-> IF g = Plain THEN b.probes
                            ELSE WithAnswer(Counted(Shown(b, q)), g, q, chosen)]
    BY <1>1, ReplayedIs
  <2> HIDE DEF after
  <2> QED
    BY <1>1, <2>1
<1> HIDE DEF row, after, more
<1>6. /\ \A k \in 1 .. Len(b.probes) : PairHolds(rows, b.probes[k])
      /\ \A k, l \in 1 .. Len(b.probes) :
            k < l => b.probes[k].group # b.probes[l].group /\ b.probes[k].at < b.probes[l].at
  BY DEF Remembers
<1>7. ASSUME NEW k \in 1 .. Len(b.probes), b.probes[k].group # g
      PROVE  PairHolds(more, b.probes[k])
  BY <1>1, <1>6, <1>7, PairStays DEF more
\* What is left to show is what the pairs become.
<1>8. ASSUME after.probes \in Seq(Pairs),
             \A k \in 1 .. Len(after.probes) : PairHolds(more, after.probes[k]),
             \A k, l \in 1 .. Len(after.probes) :
                k < l => /\ after.probes[k].group # after.probes[l].group
                         /\ after.probes[k].at < after.probes[l].at,
             \A k \in 1 .. Len(b.probes) : /\ k \in 1 .. Len(after.probes)
                                           /\ after.probes[k].group = b.probes[k].group,
             \/ g = Plain
             \/ \E k \in 1 .. Len(b.probes) : b.probes[k].group = g
             \/ \A i \in 1 .. n : GroupIn(rows, i) # g
      PROVE  Remembers(after, more)
  <2>1. after \in Runs
    <3>1. /\ after.answered \in Nat /\ after.seen \in SUBSET Bank
          /\ after.served \in SUBSET Groups
      BY <1>1, <1>2, <1>5
    <3> QED
      BY <1>5, <1>8, <3>1 DEF Runs
  <2>2. after.seen = {more[i].question : i \in 1 .. Len(more)}
    <3>1. b.seen = {rows[i].question : i \in 1 .. n}
      BY DEF Remembers
    <3>2. ASSUME NEW x \in after.seen PROVE \E i \in 1 .. Len(more) : more[i].question = x
      <4>1. CASE x = q
        BY <1>1, <1>3, <4>1
      <4>2. CASE x \in b.seen
        <5>1. PICK i \in 1 .. n : rows[i].question = x
          BY <3>1, <4>2
        <5> QED
          BY <1>1, <1>3, <5>1
      <4> QED
        BY <1>5, <4>1, <4>2
    <3>3. ASSUME NEW i \in 1 .. Len(more) PROVE more[i].question \in after.seen
      <4>1. CASE i = n + 1
        BY <1>1, <1>3, <1>5, <4>1
      <4>2. CASE i \in 1 .. n
        BY <1>3, <1>5, <3>1, <4>2
      <4> QED
        BY <1>1, <1>3, <4>1, <4>2
    <3> QED
      BY <3>2, <3>3
  <2>3. ASSUME NEW i \in 1 .. Len(more), GroupIn(more, i) # Plain
        PROVE  GroupIn(more, i) \in after.served
    <3>1. CASE i = n + 1
      BY <1>4, <1>5, <2>3, <3>1
    <3>2. CASE i \in 1 .. n
      BY <1>4, <1>5, <2>3, <3>2 DEF Remembers
    <3> QED
      BY <1>1, <1>3, <3>1, <3>2
  <2>4. ASSUME NEW i \in 1 .. Len(more), NEW j \in 1 .. Len(more), i < j,
               GroupIn(more, i) = GroupIn(more, j), GroupIn(more, i) # Plain
        PROVE  \E k \in 1 .. Len(after.probes) : after.probes[k].group = GroupIn(more, i)
    <3>1. i \in 1 .. n /\ (j \in 1 .. n \/ j = n + 1)
      BY <1>1, <1>3, <2>4
    <3>2. CASE j \in 1 .. n
      <4>1. \E k \in 1 .. Len(b.probes) : b.probes[k].group = GroupIn(rows, i)
        BY <1>4, <2>4, <3>1, <3>2 DEF Remembers
      <4> QED
        BY <1>4, <1>8, <3>1, <4>1
    <3>3. CASE j = n + 1
      <4>1. GroupIn(rows, i) = g /\ g # Plain /\ GroupIn(more, i) = g
        BY <1>4, <2>4, <3>1, <3>3
      <4>2. PICK k \in 1 .. Len(b.probes) : b.probes[k].group = g
        BY <1>8, <3>1, <4>1
      <4> QED
        BY <1>8, <4>1, <4>2
    <3> QED
      BY <3>1, <3>2, <3>3
  <2> QED
    BY <1>1, <1>3, <1>5, <1>8, <2>1, <2>2, <2>3, <2>4 DEF Remembers
<1>9. CASE g = Plain
  <2>1. after.probes = b.probes
    BY <1>5, <1>9
  <2>2. \A k \in 1 .. Len(b.probes) : b.probes[k].group # g
    BY <1>2, <1>9, ProbeFacts DEF Pairs
  <2>3. Remembers(after, more)
    BY <1>2, <1>6, <1>7, <1>8, <1>9, <2>1, <2>2
  <2>4. PairsMove(b, after, q)
    BY <1>2, <2>1, <2>2 DEF PairsMove
  <2> QED
    BY <2>3, <2>4 DEF row, after, more
<1>10. CASE g # Plain /\ \E k \in 1 .. Len(b.probes) : Open(b.probes[k]) /\ b.probes[k].group = g
  <2>1. PICK k \in 1 .. Len(b.probes) :
            Open(b.probes[k]) /\ Waited(b, b.probes[k]) /\ b.probes[k].group = g
    BY <1>10, MayShowMeans
  <2> DEFINE p == b.probes[k]
             closed == [group |-> g, first |-> p.first, at |-> p.at, second |-> q,
                        compared |-> chosen]
  <2>2. \A l \in 1 .. Len(b.probes) : l # k => b.probes[l].group # g
    <3>1. ASSUME NEW l \in 1 .. Len(b.probes), l # k PROVE b.probes[l].group # g
      <4>1. l < k \/ k < l
        BY <1>2, <3>1
      <4> QED
        BY <1>6, <2>1, <4>1
    <3> QED
      BY <3>1
  <2>3. after.probes = [l \in 1 .. Len(b.probes) |-> IF l = k THEN closed ELSE b.probes[l]]
    <3>1. after.probes = [i \in 1 .. Len(b.probes) |->
              IF b.probes[i].group = g /\ Open(b.probes[i])
              THEN [group |-> g, first |-> b.probes[i].first, at |-> b.probes[i].at,
                    second |-> q, compared |-> chosen]
              ELSE b.probes[i]]
      BY <1>5, <1>10 DEF WithAnswer, Counted, Shown
    <3>2. \A i \in 1 .. Len(b.probes) : (b.probes[i].group = g /\ Open(b.probes[i])) = (i = k)
      BY <2>1, <2>2
    <3> QED
      BY <3>1, <3>2
  <2>4. /\ p \in Pairs /\ p.at \in 1 .. n /\ rows[p.at].question = p.first /\ rows[p.at].chosen
        /\ Group[p.first] = g /\ p.at + Gap < QuestionCount /\ p.at + Gap <= n
        /\ \A i \in 1 .. n : GroupIn(rows, i) = g => i = p.at
    BY <1>1, <1>6, <2>1 DEF PairHolds, Waited
  <2>5. closed \in Pairs /\ ~Open(closed)
    BY <1>1, <1>10, <2>4, ProbeFacts DEF Pairs, Open
  <2>6. PairHolds(more, closed)
    <3>1. \A i \in 1 .. Len(more) : GroupIn(more, i) = g => i \in {p.at, n + 1}
      BY <1>1, <1>3, <1>4, <2>4
    <3>2. /\ n + 1 \in 1 .. Len(more) /\ p.at + Gap < n + 1 /\ more[n + 1].question = closed.second
          /\ closed.compared = more[n + 1].chosen
      BY <1>1, <1>3, <2>4, ProbeFacts
    <3>3. /\ closed.at = p.at /\ closed.at \in 1 .. Len(more) /\ more[p.at] = rows[p.at]
          /\ closed.first = p.first /\ closed.group = g
      BY <1>1, <1>3, <2>4
    <3> HIDE DEF closed, p
    <3> QED
      BY <2>4, <2>5, <3>1, <3>2, <3>3 DEF PairHolds
  <2>7. /\ Len(after.probes) = Len(b.probes) /\ after.probes[k] = closed
        /\ after.probes \in Seq(Pairs)
        /\ \A l \in 1 .. Len(b.probes) : l # k => after.probes[l] = b.probes[l]
    <3> HIDE DEF closed
    <3>1. \A l \in 1 .. Len(b.probes) : (IF l = k THEN closed ELSE b.probes[l]) \in Pairs
      BY <1>2, <2>5
    <3> QED
      BY <1>2, <2>3, <3>1
  <2>8. /\ closed.group = g /\ closed.at = p.at
        /\ \A l \in 1 .. Len(b.probes) :
              after.probes[l].group = b.probes[l].group /\ after.probes[l].at = b.probes[l].at
    <3>1. closed.group = g /\ closed.at = p.at
      OBVIOUS
    <3> HIDE DEF closed
    <3> QED
      BY <2>1, <2>7, <3>1
  <2> HIDE DEF closed
  <2>9. \A l \in 1 .. Len(after.probes) : PairHolds(more, after.probes[l])
    BY <1>7, <2>2, <2>6, <2>7
  <2>10. \A i, l \in 1 .. Len(after.probes) :
            i < l => /\ after.probes[i].group # after.probes[l].group
                     /\ after.probes[i].at < after.probes[l].at
    BY <1>6, <2>7, <2>8
  <2>11. \A l \in 1 .. Len(b.probes) : /\ l \in 1 .. Len(after.probes)
                                       /\ after.probes[l].group = b.probes[l].group
    BY <2>7, <2>8
  <2>12. Remembers(after, more)
    BY <1>8, <2>1, <2>7, <2>9, <2>10, <2>11
  <2>13. PairsMove(b, after, q)
    BY <1>2, <2>1, <2>2, <2>5, <2>7, <2>8 DEF PairsMove
  <2> QED
    BY <2>12, <2>13 DEF row, after, more
<1>11. CASE g # Plain /\ ~\E k \in 1 .. Len(b.probes) : Open(b.probes[k]) /\ b.probes[k].group = g
  <2>1. /\ \A k \in 1 .. Len(b.probes) : b.probes[k].group # g
        /\ \A i \in 1 .. n : GroupIn(rows, i) # g
    BY <1>11, MayShowMeans
  <2> DEFINE opened == [group |-> g, first |-> q, at |-> n + 1, second |-> Nothing, compared |-> FALSE]
  <2>2. \/ after.probes = b.probes
        \/ after.probes = Append(b.probes, opened) /\ chosen /\ n + 1 + Gap < QuestionCount
    BY <1>1, <1>5, <1>11 DEF WithAnswer, Counted, Shown, CanOpenPair
  <2>3. CASE after.probes = b.probes
    <3>1. Remembers(after, more)
      BY <1>2, <1>6, <1>7, <1>8, <2>1, <2>3
    <3>2. PairsMove(b, after, q)
      BY <1>2, <2>1, <2>3 DEF PairsMove
    <3> QED
      BY <3>1, <3>2 DEF row, after, more
  <2>4. CASE after.probes = Append(b.probes, opened) /\ chosen /\ n + 1 + Gap < QuestionCount
    <3>1. opened \in Pairs /\ Open(opened) /\ opened.group = g /\ opened.at = n + 1
          /\ opened.first = q
      BY <1>1, <1>11, ProbeFacts DEF Pairs, Open
    <3> HIDE DEF opened
    <3>2. PairHolds(more, opened)
      <4>1. \A i \in 1 .. Len(more) : GroupIn(more, i) = g => i = n + 1
        BY <1>1, <1>3, <1>4, <2>1
      <4>2. n + 1 \in 1 .. Len(more) /\ more[n + 1].question = q /\ more[n + 1].chosen
        <5>1. chosen
          BY <2>4
        <5>2. more[n + 1].question = q /\ more[n + 1].chosen = chosen
          BY <1>1, <1>3
        <5>3. n + 1 \in 1 .. Len(more)
          BY <1>1, <1>3
        <5> QED
          BY <5>1, <5>2, <5>3
      <4> QED
        BY <2>4, <3>1, <4>1, <4>2 DEF PairHolds
    <3>3. /\ Len(after.probes) = Len(b.probes) + 1 /\ after.probes[Len(b.probes) + 1] = opened
          /\ after.probes \in Seq(Pairs)
          /\ \A k \in 1 .. Len(b.probes) : after.probes[k] = b.probes[k]
      BY <1>2, <2>4, <3>1
    <3>4. \A k \in 1 .. Len(after.probes) : k \in 1 .. Len(b.probes) \/ k = Len(b.probes) + 1
      BY <1>2, <3>3
    <3>5. \A k \in 1 .. Len(after.probes) : PairHolds(more, after.probes[k])
      BY <1>7, <2>1, <3>2, <3>3, <3>4
    <3>6. \A k \in 1 .. Len(b.probes) : b.probes[k].at < n + 1
      BY <1>1, <1>6 DEF PairHolds
    <3>7. \A k, l \in 1 .. Len(after.probes) :
              k < l => /\ after.probes[k].group # after.probes[l].group
                       /\ after.probes[k].at < after.probes[l].at
      <4>1. ASSUME NEW k \in 1 .. Len(after.probes), NEW l \in 1 .. Len(after.probes), k < l
            PROVE  /\ after.probes[k].group # after.probes[l].group
                   /\ after.probes[k].at < after.probes[l].at
        <5>1. k \in 1 .. Len(b.probes)
          BY <1>2, <3>3, <4>1
        <5>2. CASE l \in 1 .. Len(b.probes)
          BY <1>6, <3>3, <4>1, <5>1, <5>2
        <5>3. CASE l = Len(b.probes) + 1
          BY <2>1, <3>1, <3>3, <3>6, <5>1, <5>3
        <5> QED
          BY <3>4, <5>2, <5>3
      <4> QED
        BY <4>1
    <3>8. \A k \in 1 .. Len(b.probes) : /\ k \in 1 .. Len(after.probes)
                                        /\ after.probes[k].group = b.probes[k].group
      BY <1>2, <3>3
    <3>9. Remembers(after, more)
      BY <1>8, <2>1, <3>3, <3>5, <3>7, <3>8
    <3>10. PairsMove(b, after, q)
      BY <1>1, <1>2, <2>1, <3>1, <3>3, <3>4 DEF PairsMove
    <3> QED
      BY <3>9, <3>10 DEF row, after, more
  <2> QED
    BY <2>2, <2>3, <2>4
<1> QED
  BY <1>9, <1>10, <1>11 DEF row, after, more

LEMMA ElementIsIn == ASSUME NEW R, NEW s \in Seq(R), NEW i \in 1 .. Len(s) PROVE s[i] \in R
OBVIOUS

\* The pairs and the count are those of the stored answers, whatever is shown.
LEMMA RunIsRebuilt ==
    ASSUME ProbesAreReplayed
    PROVE  run.answered = Rebuilt(answers).answered /\ run.probes = Rebuilt(answers).probes
BY DEF ProbesAreReplayed, Shown

LEMMA ShownIsARun ==
    ASSUME NEW b \in Runs, NEW q \in Bank
    PROVE  Shown(b, q) \in Runs
<1>1. ({Group[q]} \ {Plain}) \subseteq Groups
  BY ProbeFacts
<1> QED
  BY <1>1, RunFacts DEF Shown, Runs

LEMMA ProbesAreSound == ProbesIInv => PairsAreSound
<1> SUFFICES ASSUME ProbesIInv PROVE PairsAreSound
  OBVIOUS
<1>1. PICK b : b = Rebuilt(answers)
  OBVIOUS
<1>2. Remembers(b, answers) /\ ProbesAreReplayed /\ PassedOverForReason(b)
  BY <1>1 DEF ProbesIInv
<1>3. run.answered = b.answered /\ run.probes = b.probes
  BY <1>1, <1>2, RunIsRebuilt
<1>4. /\ b \in Runs /\ answers \in Answers /\ b.answered \in Nat
      /\ b.probes \in Seq(Pairs) /\ Len(b.probes) \in Nat /\ Len(answers) \in Nat
      /\ \A k \in 1 .. Len(b.probes) : PairHolds(answers, b.probes[k]) /\ b.probes[k] \in Pairs
  BY <1>2, RunFacts DEF Remembers, Answers
<1>5. \A i : GroupAt(i) = GroupIn(answers, i)
  BY DEF GroupAt, GroupIn
\* Two answers of a group are the two of a closed pair.
<1>6. ASSUME NEW i \in 1 .. Len(answers), NEW j \in 1 .. Len(answers), i < j,
             GroupAt(i) = GroupAt(j), GroupAt(i) # Plain
      PROVE  \E k \in 1 .. Len(b.probes) :
                 /\ b.probes[k].at = i /\ i + Gap < j
                 /\ b.probes[k].first = answers[i].question
                 /\ b.probes[k].second = answers[j].question
                 /\ b.probes[k].compared = (answers[i].chosen /\ answers[j].chosen)
                 /\ \A l \in 1 .. Len(answers) : GroupAt(l) = GroupAt(i) => l \in {i, j}
  <2>1. PICK k \in 1 .. Len(b.probes) : b.probes[k].group = GroupIn(answers, i)
    BY <1>2, <1>5, <1>6 DEF Remembers
  <2> DEFINE p == b.probes[k]
  <2>2. PairHolds(answers, p) /\ p.at \in 1 .. Len(answers) /\ p.group = GroupIn(answers, i)
    BY <1>4, <2>1 DEF PairHolds
  <2> HIDE DEF p
  <2>3. ~Open(p)
    BY <1>5, <1>6, <2>2 DEF PairHolds
  <2>4. PICK m \in 1 .. Len(answers) :
            /\ p.at + Gap < m /\ answers[m].question = p.second
            /\ p.compared = answers[m].chosen
            /\ \A l \in 1 .. Len(answers) : GroupIn(answers, l) = p.group => l \in {p.at, m}
    BY <2>2, <2>3 DEF PairHolds
  <2>5. i \in {p.at, m} /\ j \in {p.at, m} /\ p.at < m
    BY <1>5, <1>6, <2>2, <2>4, ProbeFacts
  <2>6. i = p.at /\ j = m
    BY <1>6, <2>2, <2>5
  <2>7. p.first = answers[i].question /\ answers[i].chosen
    BY <2>2, <2>6 DEF PairHolds
  <2>8. answers[i].chosen \in BOOLEAN /\ answers[j].chosen \in BOOLEAN
    <3>1. answers \in Seq([question : Bank, chosen : BOOLEAN])
      BY <1>4 DEF Answers
    <3>2. /\ answers[i] \in [question : Bank, chosen : BOOLEAN]
          /\ answers[j] \in [question : Bank, chosen : BOOLEAN]
      BY <3>1, ElementIsIn, Zenon
    <3> QED
      BY <3>2
  <2>9. p.compared = (answers[i].chosen /\ answers[j].chosen)
    BY <2>4, <2>6, <2>7, <2>8
  <2>10. \A l \in 1 .. Len(answers) : GroupAt(l) = GroupAt(i) => l \in {i, j}
    BY <1>5, <2>2, <2>4, <2>6
  <2>11. p.at = i /\ i + Gap < j /\ p.second = answers[j].question
    BY <2>4, <2>6
  <2> QED
    BY <2>7, <2>9, <2>10, <2>11 DEF p
<1>7. TwinsStayApart
  <2>1. ASSUME NEW i \in 1 .. Len(answers), NEW j \in 1 .. Len(answers), i < j,
               GroupAt(i) = GroupAt(j), GroupAt(i) # Plain
        PROVE  /\ j > i + Gap
               /\ \E p \in Range(run.probes) :
                      /\ p.at = i
                      /\ p.first = answers[i].question
                      /\ p.second = answers[j].question
                      /\ p.compared = (answers[i].chosen /\ answers[j].chosen)
    <3>1. PICK k \in 1 .. Len(b.probes) :
                 /\ b.probes[k].at = i /\ i + Gap < j
                 /\ b.probes[k].first = answers[i].question
                 /\ b.probes[k].second = answers[j].question
                 /\ b.probes[k].compared = (answers[i].chosen /\ answers[j].chosen)
      BY <1>6, <2>1
    <3>2. b.probes[k] \in Range(run.probes)
      BY <1>3, <1>4 DEF Range
    <3>3. j > i + Gap
      BY <3>1, ProbeFacts
    <3> QED
      BY <3>1, <3>2, <3>3
  <2>2. ASSUME NEW i \in 1 .. Len(answers), NEW j \in 1 .. Len(answers),
               NEW k \in 1 .. Len(answers), i < j, j < k, GroupAt(i) # Plain,
               GroupAt(i) = GroupAt(j), GroupAt(j) = GroupAt(k)
        PROVE  FALSE
    <3>1. k \in {i, j}
      BY <1>6, <2>2
    <3> QED
      BY <2>2, <3>1
  <2> QED
    BY <2>1, <2>2 DEF TwinsStayApart
<1>8. PairsClose
  <2> SUFFICES ASSUME run.answered = QuestionCount, NEW i \in 1 .. Len(run.probes),
                      Open(run.probes[i])
               PROVE  \E j \in 1 .. i : Open(run.probes[j]) /\ Withdrawn(run.probes[j])
    BY DEF PairsClose
  <2>1. b.probes[i].at + Gap < QuestionCount /\ b.answered = QuestionCount /\ Open(b.probes[i])
    BY <1>3, <1>4 DEF PairHolds
  <2>2. b.probes[i].at \in Nat
    BY <1>3, <1>4 DEF PairHolds
  <2>3. PassedOver(b, b.probes[i])
    BY <2>1, <2>2, ProbeFacts DEF PassedOver
  <2> QED
    BY <1>2, <1>3, <2>3 DEF PassedOverForReason
<1> QED
  BY <1>2, <1>7, <1>8 DEF PairsAreSound

-----------------------------------------------------------------------------
(* The steps.                                                              *)

LEMMA ProbesInit == Init => ProbesIInv
<1> SUFFICES ASSUME Init PROVE ProbesIInv
  OBVIOUS
<1>1. Rebuilt(answers) = Fresh /\ answers = <<>> /\ Len(answers) = 0
  BY NothingRebuilt DEF Init
<1>2. /\ Fresh.answered = 0 /\ Fresh.seen = {} /\ Fresh.served = {} /\ Fresh.probes = <<>>
      /\ Fresh \in Runs /\ Len(Fresh.probes) = 0
  BY DEF Fresh, Runs
<1>3. TypeOK
  <2>1. answers \in Answers
    BY <1>1 DEF Answers
  <2>2. evictions \in 0 .. MaxEvictions
    BY BoundsAssumption DEF Init
  <2> QED
    BY <1>2, <2>1, <2>2 DEF Init, TypeOK
<1>4. Remembers(Fresh, answers)
  BY <1>1, <1>2 DEF Remembers, Answers
<1>5. PassedOverForReason(Fresh)
  BY <1>2 DEF PassedOverForReason
<1> QED
  BY <1>1, <1>3, <1>4, <1>5 DEF ProbesIInv, ProbesAreReplayed, Init

\* A question is put: the pair that has waited longest comes first, and no twin of a pair
\* whose twins are gone can be chosen.
LEMMA ServingPassesOver ==
    ASSUME NEW b, Remembers(b, answers), PassedOverForReason(b), showing = Nothing,
           NEW q \in Candidates(b), q # Nothing, showing' = q, UNCHANGED <<answers, archived>>
    PROVE  PassedOverForReason(b)'
<1>1. /\ b \in Runs /\ b.answered \in Nat /\ Len(b.probes) \in Nat
      /\ b.seen = {answers[i].question : i \in 1 .. Len(answers)}
      /\ \A k, l \in 1 .. Len(b.probes) :
            k < l => b.probes[k].group # b.probes[l].group /\ b.probes[k].at < b.probes[l].at
      /\ \A k \in 1 .. Len(b.probes) : b.probes[k].at \in Nat
  <2>1. b \in Runs
    BY DEF Remembers
  <2> QED
    BY <2>1, RunFacts DEF Remembers, Pairs
<1>2. q \in Base(b)
  BY DEF Candidates, Twins, Openers
<1>3. q \in Bank \ archived /\ q \notin b.seen
  BY <1>2 DEF Base
<1>4. ASSUME NEW p, Withdrawn(p) PROVE Group[q] # p.group
  BY <1>1, <1>3, <1>4 DEF Withdrawn
<1>5. ASSUME NEW p, Withdrawn(p) PROVE Withdrawn(p)'
  BY <1>5 DEF Withdrawn
<1> SUFFICES ASSUME NEW i \in 1 .. Len(b.probes), PassedOver(b, b.probes[i])'
             PROVE  \E j \in 1 .. i : /\ Open(b.probes[j]) /\ Withdrawn(b.probes[j])
                                      /\ Group[q] # b.probes[j].group
  BY <1>5 DEF PassedOverForReason, Elsewhere
<1>6. CASE PassedOver(b, b.probes[i])
  BY <1>4, <1>6 DEF PassedOverForReason
<1>7. CASE ~PassedOver(b, b.probes[i])
  <2>1. Open(b.probes[i]) /\ b.answered >= b.probes[i].at + Gap /\ Group[q] # b.probes[i].group
    BY <1>7 DEF PassedOver
  <2>2. i \in Due(b) /\ Due(b) \subseteq Nat
    BY <2>1 DEF Due, Waited
  <2>3. PICK m \in Due(b) : \A k \in Due(b) : m <= k
    BY <2>2, Least
  <2>4. /\ m \in 1 .. Len(b.probes) /\ Open(b.probes[m]) /\ b.answered >= b.probes[m].at + Gap
        /\ m <= i
    BY <2>2, <2>3 DEF Due, Waited
  <2>5. DueGroup(b) = {b.probes[m].group}
    <3>1. \A k \in Due(b) : (\A l \in Due(b) : k <= l) => k = m
      BY <2>2, <2>3
    <3> QED
      BY <2>3, <3>1 DEF DueGroup
  <2>6. CASE Twins(b) = {}
    <3>1. ASSUME NEW x \in Bank \ archived, Group[x] = b.probes[m].group
          PROVE  x \in b.seen
      BY <2>5, <2>6, <3>1 DEF Twins, Base, Blocked
    <3>2. Withdrawn(b.probes[m])
      BY <1>1, <3>1 DEF Withdrawn
    <3> QED
      BY <1>4, <2>4, <3>2
  <2>7. CASE Twins(b) # {}
    <3>1. Group[q] = b.probes[m].group
      BY <2>5, <2>7 DEF Candidates, Twins
    <3>2. m < i
      BY <2>1, <2>4, <3>1
    <3>3. b.probes[m].at < b.probes[i].at
      BY <1>1, <2>4, <3>2
    <3>4. PassedOver(b, b.probes[m])
      BY <1>1, <2>1, <2>4, <3>3, ProbeFacts DEF PassedOver
    <3>5. PICK j \in 1 .. m : Open(b.probes[j]) /\ Withdrawn(b.probes[j])
      BY <2>4, <3>4 DEF PassedOverForReason
    <3>6. j \in 1 .. Len(b.probes) /\ b.probes[j].at <= b.probes[m].at
      <4>1. j \in 1 .. Len(b.probes) /\ (j < m \/ j = m)
        BY <2>4, <3>5
      <4>2. j < m => b.probes[j].at < b.probes[m].at
        BY <1>1, <2>4, <4>1
      <4> QED
        BY <1>1, <2>4, <4>1, <4>2
    <3>7. j \in Due(b)
      BY <1>1, <2>4, <3>5, <3>6, ProbeFacts DEF Due, Waited
    <3>8. j = m
      BY <2>3, <2>4, <3>5, <3>7
    <3> QED
      BY <1>4, <3>1, <3>5, <3>8
  <2> QED
    BY <2>6, <2>7
<1> QED
  BY <1>6, <1>7

LEMMA ServeKeeps == ProbesIInv /\ Serve => ProbesIInv'
<1> SUFFICES ASSUME ProbesIInv, Serve PROVE ProbesIInv'
  OBVIOUS
<1>1. PICK b : b = Rebuilt(answers)
  OBVIOUS
<1>2. /\ TypeOK /\ Remembers(b, answers) /\ PassedOverForReason(b) /\ run = b
      /\ showing = Nothing /\ UNCHANGED <<answers, archived, evictions>>
      /\ Rebuilt(answers)' = b
  BY <1>1 DEF ProbesIInv, ProbesAreReplayed, Serve
<1>3. Remembers(b, answers)'
  BY <1>2
<1>4. CASE over' = TRUE /\ UNCHANGED <<run, showing>>
  <2>1. TypeOK'
    BY <1>2, <1>4 DEF TypeOK
  <2>2. ProbesAreReplayed'
    BY <1>2, <1>4 DEF ProbesAreReplayed
  <2>3. PassedOverForReason(b)'
    BY <1>2, <1>4 DEF PassedOverForReason, PassedOver, Withdrawn, Elsewhere
  <2> QED
    BY <1>2, <1>3, <1>4, <2>1, <2>2, <2>3 DEF ProbesIInv
<1>5. ASSUME NEW q \in Candidates(b), showing' = q, run' = Shown(b, q), over' = over
      PROVE  ProbesIInv'
  <2>1. q \in Base(b)
    BY DEF Candidates, Twins, Openers
  <2>2. MayShow(b, q) /\ q \in Bank /\ q # Nothing
    BY <2>1, ProbeFacts DEF MayShow, Base
  <2>3. b \in Runs
    BY <1>2 DEF Remembers
  <2>4. TypeOK'
    BY <1>2, <1>5, <2>2, <2>3, ShownIsARun DEF TypeOK
  <2>5. ProbesAreReplayed'
    BY <1>2, <1>5, <2>2 DEF ProbesAreReplayed
  <2>6. PassedOverForReason(b)'
    BY <1>2, <1>5, <2>2, ServingPassesOver
  <2>7. MayShow(b, showing)'
    BY <1>5, <2>2
  <2> QED
    BY <1>2, <1>3, <2>4, <2>5, <2>6, <2>7 DEF ProbesIInv
<1> QED
  BY <1>2, <1>4, <1>5 DEF Serve

\* An answer is stored: a pair that was passed over for a reason still is, and no other has
\* been passed over.
LEMMA AnsweringPassesOver ==
    ASSUME NEW b, NEW after, Remembers(b, answers), Remembers(after, answers)',
           PairsMove(b, after, showing), PassedOverForReason(b), showing # Nothing,
           showing' = Nothing, archived' = archived, NEW row, answers' = Append(answers, row)
    PROVE  PassedOverForReason(after)'
<1>1. /\ b \in Runs /\ Len(b.probes) \in Nat /\ b.answered \in Nat
      /\ \A k \in 1 .. Len(b.probes) : b.probes[k].at \in Nat
      /\ b.answered = Len(answers) /\ answers \in Answers
  <2>1. b \in Runs
    BY DEF Remembers
  <2> QED
    BY <2>1, RunFacts DEF Remembers, Pairs
<1>2. after.answered = b.answered + 1
  BY <1>1 DEF Remembers, Answers
<1>3. /\ Len(b.probes) <= Len(after.probes)
      /\ \A k \in 1 .. Len(b.probes) :
            IF Open(b.probes[k]) /\ b.probes[k].group = Group[showing]
            THEN ~Open(after.probes[k])
            ELSE after.probes[k] = b.probes[k]
      /\ \A k \in 1 .. Len(after.probes) : k > Len(b.probes) =>
            after.probes[k].at = b.answered + 1
  BY DEF PairsMove
<1>4. ASSUME NEW p, Withdrawn(p) PROVE Withdrawn(p)'
  <2>1. \A i \in 1 .. Len(answers) : i \in 1 .. Len(answers') /\ answers'[i] = answers[i]
    BY <1>1 DEF Answers
  <2> QED
    BY <1>4, <2>1 DEF Withdrawn
<1> SUFFICES ASSUME NEW i \in 1 .. Len(after.probes), PassedOver(after, after.probes[i])'
             PROVE  \E j \in 1 .. i : Open(after.probes[j]) /\ Withdrawn(after.probes[j])'
  BY DEF PassedOverForReason, Elsewhere
<1>5. Open(after.probes[i]) /\ b.answered + 1 > after.probes[i].at + Gap
  BY <1>2 DEF PassedOver
<1>6. i \in 1 .. Len(b.probes)
  <2>1. ~(i > Len(b.probes))
    BY <1>1, <1>3, <1>5, ProbeFacts
  <2> QED
    BY <1>1, <2>1
<1>7. /\ after.probes[i] = b.probes[i] /\ Group[showing] # b.probes[i].group
      /\ Open(b.probes[i])
  BY <1>3, <1>5, <1>6
<1>8. b.answered >= b.probes[i].at + Gap
  BY <1>1, <1>5, <1>6, <1>7, ProbeFacts
<1>9. PassedOver(b, b.probes[i])
  BY <1>7, <1>8 DEF PassedOver
<1>10. PICK j \in 1 .. i : Open(b.probes[j]) /\ Withdrawn(b.probes[j]) /\ Elsewhere(b.probes[j])
  BY <1>6, <1>9 DEF PassedOverForReason
<1>11. j \in 1 .. Len(b.probes) /\ Group[showing] # b.probes[j].group
  BY <1>6, <1>10 DEF Elsewhere
<1>12. after.probes[j] = b.probes[j]
  BY <1>3, <1>11
<1> QED
  BY <1>4, <1>10, <1>12

LEMMA RecordKeeps ==
    ASSUME ProbesIInv, showing # Nothing, NEW chosen \in BOOLEAN,
           run' = Recorded(run, showing, chosen),
           answers' = Append(answers, [question |-> showing, chosen |-> chosen]),
           showing' = Nothing, over' \in BOOLEAN, UNCHANGED <<archived, evictions>>
    PROVE  ProbesIInv'
<1>1. PICK b : b = Rebuilt(answers)
  OBVIOUS
<1>2. PICK q : q = showing
  OBVIOUS
<1> DEFINE row == [question |-> q, chosen |-> chosen]
<1>3. PICK after : after = Replayed(b, row)
  OBVIOUS
<1>4. /\ TypeOK /\ Remembers(b, answers) /\ PassedOverForReason(b) /\ run = Shown(b, q)
      /\ MayShow(b, q) /\ q \in Bank
  BY <1>1, <1>2 DEF ProbesIInv, ProbesAreReplayed, MayShow
<1>5. run' = after
  BY <1>2, <1>3, <1>4 DEF Replayed
<1>6. Rebuilt(answers') = after
  <2>1. answers \in Seq([question : Bank, chosen : BOOLEAN]) /\ row \in [question : Bank, chosen : BOOLEAN]
    BY <1>4 DEF TypeOK, Answers
  <2> QED
    BY <1>1, <1>2, <1>3, <2>1, RebuiltAppend
<1>7. Remembers(after, Append(answers, row)) /\ PairsMove(b, after, q)
  BY <1>3, <1>4, AnswerIsRemembered
<1>8. answers' = Append(answers, row)
  BY <1>2
<1> HIDE DEF row
<1>9. Remembers(after, answers)'
  BY <1>7, <1>8
<1>10. PassedOverForReason(after)'
  BY <1>2, <1>4, <1>7, <1>8, <1>9, AnsweringPassesOver
<1>11. TypeOK'
  <2>1. after \in Runs /\ answers' \in Answers
    BY <1>9 DEF Remembers
  <2> QED
    BY <1>4, <1>5, <2>1 DEF TypeOK
<1>12. ProbesAreReplayed'
  BY <1>5, <1>6 DEF ProbesAreReplayed
<1> QED
  BY <1>6, <1>9, <1>10, <1>11, <1>12 DEF ProbesIInv

\* Steps that store nothing and put nothing on screen.
LEMMA NothingAskedKeeps ==
    ASSUME ProbesIInv, answers' = answers, showing' = Nothing \/ showing' = showing,
           run' = IF showing' = Nothing THEN Rebuilt(answers) ELSE run,
           archived \subseteq archived', archived' \subseteq Bank, over' \in BOOLEAN,
           evictions' \in 0 .. MaxEvictions
    PROVE  ProbesIInv'
<1>1. PICK b : b = Rebuilt(answers)
  OBVIOUS
<1>2. /\ TypeOK /\ Remembers(b, answers) /\ PassedOverForReason(b) /\ ProbesAreReplayed
      /\ showing # Nothing => MayShow(b, showing)
      /\ Rebuilt(answers)' = b
  BY <1>1 DEF ProbesIInv
<1>3. Remembers(b, answers)' /\ (showing' # Nothing => MayShow(b, showing)')
  BY <1>2
<1>4. TypeOK'
  <2>1. b \in Runs
    BY <1>2 DEF Remembers
  <2> QED
    BY <1>1, <1>2, <2>1 DEF TypeOK
<1>5. ProbesAreReplayed'
  BY <1>1, <1>2 DEF ProbesAreReplayed
<1>6. PassedOverForReason(b)'
  <2>1. ASSUME NEW p, Withdrawn(p) PROVE Withdrawn(p)'
    BY <2>1 DEF Withdrawn
  <2>2. ASSUME NEW p, PassedOver(b, p)' PROVE PassedOver(b, p)
    BY <2>2 DEF PassedOver
  <2>3. ASSUME NEW p, Elsewhere(p) PROVE Elsewhere(p)'
    BY <2>3 DEF Elsewhere
  <2> QED
    BY <1>2, <2>1, <2>2, <2>3 DEF PassedOverForReason
<1> QED
  BY <1>2, <1>3, <1>4, <1>5, <1>6 DEF ProbesIInv

LEMMA ProbesNext == ProbesIInv /\ [Next]_vars => ProbesIInv'
<1> SUFFICES ASSUME ProbesIInv, [Next]_vars PROVE ProbesIInv'
  OBVIOUS
<1>1. /\ TypeOK
      /\ run = IF showing = Nothing THEN Rebuilt(answers) ELSE Shown(Rebuilt(answers), showing)
  BY DEF ProbesIInv, ProbesAreReplayed
<1>2. CASE Serve
  BY <1>2, ServeKeeps
<1>3. ASSUME NEW chosen \in BOOLEAN, Answer(chosen) PROVE ProbesIInv'
  <2>1. over' \in BOOLEAN
    BY <1>1, <1>3 DEF Answer, TypeOK
  <2> QED
    BY <1>3, <2>1, RecordKeeps DEF Answer
<1>4. CASE TimeUp
  <2>1. CASE showing = Nothing
    BY <1>1, <1>4, <2>1, NothingAskedKeeps DEF TimeUp, TypeOK
  <2>2. CASE showing # Nothing
    BY <1>4, <2>2, RecordKeeps DEF TimeUp
  <2> QED
    BY <2>1, <2>2
<1>5. ASSUME NEW q \in Bank, Archive(q) PROVE ProbesIInv'
  <2>1. /\ answers' = answers /\ showing' = showing /\ run' = run /\ over' = over
        /\ archived' = archived \cup {q} /\ evictions' = evictions
    BY <1>5 DEF Archive
  <2> QED
    BY <1>1, <2>1, NothingAskedKeeps DEF TypeOK
<1>6. CASE Evict
  <2>1. evictions' \in 0 .. MaxEvictions
    BY <1>1, <1>6, BoundsAssumption DEF Evict, TypeOK
  <2> QED
    BY <1>1, <1>6, <2>1, NothingAskedKeeps DEF Evict, TypeOK
<1>7. CASE UNCHANGED vars
  BY <1>1, <1>7, NothingAskedKeeps DEF vars, TypeOK
<1> QED
  BY <1>2, <1>3, <1>4, <1>5, <1>6, <1>7 DEF Next

\* Nobody is asked the same thing again before the gap has passed, nor a third time; pairs
\* are compared on two given answers, closed by the end unless their twins were withdrawn,
\* and all of it survives the loss of the live state (consistency-probe, question-selector
\* and the replay of the stored answers).
THEOREM PairsStaySound == Spec => []PairsAreSound
<1>1. Init => ProbesIInv
  BY ProbesInit
<1>2. ProbesIInv /\ [Next]_vars => ProbesIInv'
  BY ProbesNext
<1>3. ProbesIInv => PairsAreSound
  BY ProbesAreSound
<1> QED
  BY <1>1, <1>2, <1>3, PTL DEF Spec

-----------------------------------------------------------------------------
(***************************************************************************)
(* TraitSelection.                                                         *)
(***************************************************************************)
(* The selector's helpers.                                                 *)

\* FirstLeast picks an element of the list, at which the count is least.
LEMMA FirstLeastIsLeast ==
    ASSUME NEW list, NEW count, Len(list) \in Nat \ {0},
           \A i \in 1 .. Len(list) : count[list[i]] \in Nat
    PROVE  \E i \in 1 .. Len(list) :
              /\ FirstLeast(list, count) = list[i]
              /\ \A j \in 1 .. Len(list) : count[list[i]] <= count[list[j]]
<1> DEFINE IsFirst(i) == /\ \A j \in 1 .. Len(list) : count[list[i]] <= count[list[j]]
                         /\ \A j \in 1 .. (i - 1) : count[list[i]] < count[list[j]]
           Counts == {count[list[i]] : i \in 1 .. Len(list)}
<1>1. PICK m \in Counts : \A k \in Counts : m <= k
  <2>1. Counts \subseteq Nat /\ count[list[1]] \in Counts
    OBVIOUS
  <2> HIDE DEF Counts
  <2> QED
    BY <2>1, Least
<1>2. PICK i \in 1 .. Len(list) : /\ count[list[i]] = m
                                  /\ \A j \in 1 .. Len(list) : count[list[j]] = m => i <= j
  <2> DEFINE Places == {j \in 1 .. Len(list) : count[list[j]] = m}
  <2>1. Places \in SUBSET Nat /\ Places # {}
    BY <1>1
  <2>2. \E k \in Places : \A j \in Places : k <= j
    <3> HIDE DEF Places
    <3> QED
      BY <2>1, Least
  <2> QED
    BY <2>2
<1>3. \A j \in 1 .. Len(list) : m <= count[list[j]] /\ count[list[j]] \in Nat
  BY <1>1
<1>4. IsFirst(i)
  <2>1. ASSUME NEW j \in 1 .. (i - 1) PROVE m < count[list[j]]
    <3>1. j \in 1 .. Len(list) /\ ~(i <= j) /\ m \in Nat
      BY <1>1
    <3>2. count[list[j]] # m
      BY <1>2, <3>1
    <3> QED
      BY <1>3, <3>1, <3>2
  <2> QED
    BY <1>2, <1>3, <2>1
<1>5. \E k \in 1 .. Len(list) : IsFirst(k)
  BY <1>4
<1> DEFINE chosen == CHOOSE k \in 1 .. Len(list) : IsFirst(k)
<1>6. chosen \in 1 .. Len(list) /\ IsFirst(chosen)
  <2> HIDE DEF IsFirst
  <2> QED
    BY <1>5
<1>7. FirstLeast(list, count) = list[chosen]
  BY DEF FirstLeast
<1> QED
  <2> HIDE DEF chosen
  <2> QED
    BY <1>6, <1>7

\* FirstNonEmpty picks the first of the sets that is not empty, and the empty one only
\* when all are.
LEMMA FirstNonEmptyIsOne ==
    ASSUME NEW sets, Len(sets) \in Nat
    PROVE  /\ \A x \in FirstNonEmpty(sets) : \E i \in 1 .. Len(sets) :
                 x \in sets[i] /\ FirstNonEmpty(sets) = sets[i] /\ \A j \in 1 .. (i - 1) : sets[j] = {}
           /\ FirstNonEmpty(sets) = {} => \A i \in 1 .. Len(sets) : sets[i] = {}
<1> DEFINE IsFirst(i) == sets[i] # {} /\ \A j \in 1 .. (i - 1) : sets[j] = {}
<1>1. CASE \A i \in 1 .. Len(sets) : sets[i] = {}
  BY <1>1 DEF FirstNonEmpty
<1>2. CASE ~\A i \in 1 .. Len(sets) : sets[i] = {}
  <2> DEFINE Full == {i \in 1 .. Len(sets) : sets[i] # {}}
  <2>1. PICK i \in Full : \A j \in Full : i <= j
    <3>1. Full \in SUBSET Nat /\ Full # {}
      BY <1>2
    <3> HIDE DEF Full
    <3> QED
      BY <3>1, Least
  <2>2. IsFirst(i)
    BY <2>1
  <2>3. \E k \in 1 .. Len(sets) : IsFirst(k)
    BY <2>2
  <2> DEFINE chosen == CHOOSE k \in 1 .. Len(sets) : IsFirst(k)
  <2>4. chosen \in 1 .. Len(sets) /\ IsFirst(chosen)
    <3> HIDE DEF IsFirst
    <3> QED
      BY <2>3
  <2>5. FirstNonEmpty(sets) = sets[chosen]
    BY <1>2 DEF FirstNonEmpty
  <2> QED
    <3> HIDE DEF chosen
    <3> QED
      BY <2>4, <2>5
<1> QED
  BY <1>1, <1>2

\* Whatever the selector offers is servable, and it offers nothing only when nothing is.
LEMMA SelectorIsExhaustive ==
    ASSUME NEW legacyTurn \in BOOLEAN
    PROVE  /\ SelectTraitId(legacyTurn) \subseteq BaseQuery
           /\ SelectTraitId(legacyTurn) = {} => BaseQuery = {}
           /\ \A c \in SelectTraitId(legacyTurn) :
                 \/ c \in PickLegacy
                 \/ c \in PickBehavioral(LeastCoveredTrait)
                 \/ c \in PickBehavioral(AnyTrait) /\ BehavioralQuery(LeastCoveredTrait) = {}
<1>1. ASSUME NEW t
      PROVE  /\ PickBehavioral(t) \subseteq BehavioralQuery(t)
             /\ PickBehavioral(t) = {} => BehavioralQuery(t) = {}
  <2> DEFINE sets == <<{c \in BehavioralQuery(t) : ShapeOf[c] = LeastUsedPattern},
                       BehavioralQuery(t)>>
  <2>1. /\ \A x \in FirstNonEmpty(sets) : \E i \in 1 .. Len(sets) : x \in sets[i]
        /\ FirstNonEmpty(sets) = {} => \A i \in 1 .. Len(sets) : sets[i] = {}
    <3>1. Len(sets) \in Nat
      OBVIOUS
    <3> HIDE DEF sets
    <3> QED
      BY <3>1, FirstNonEmptyIsOne
  <2>2. Len(sets) = 2 /\ sets[2] = BehavioralQuery(t) /\ sets[1] \subseteq BehavioralQuery(t)
    OBVIOUS
  <2>3. PickBehavioral(t) = FirstNonEmpty(sets)
    BY DEF PickBehavioral
  <2> HIDE DEF sets
  <2>4. \A i \in 1 .. Len(sets) : i = 1 \/ i = 2
    BY <2>2
  <2> QED
    BY <2>1, <2>2, <2>3, <2>4
<1>2. /\ PickLegacy \subseteq {c \in BaseQuery : ShapeOf[c] = Likert}
      /\ PickLegacy = {} => {c \in BaseQuery : ShapeOf[c] = Likert} = {}
  <2> DEFINE legacy == {c \in BaseQuery : ShapeOf[c] = Likert}
             sets == <<{c \in legacy : Weighs(c, LeastCoveredTrait)}, legacy>>
  <2>1. /\ \A x \in FirstNonEmpty(sets) : \E i \in 1 .. Len(sets) : x \in sets[i]
        /\ FirstNonEmpty(sets) = {} => \A i \in 1 .. Len(sets) : sets[i] = {}
    <3>1. Len(sets) \in Nat
      OBVIOUS
    <3> HIDE DEF sets
    <3> QED
      BY <3>1, FirstNonEmptyIsOne
  <2>2. Len(sets) = 2 /\ sets[2] = legacy /\ sets[1] \subseteq legacy
    OBVIOUS
  <2>3. PickLegacy = FirstNonEmpty(sets)
    BY DEF PickLegacy
  <2> HIDE DEF sets
  <2>4. \A i \in 1 .. Len(sets) : i = 1 \/ i = 2
    BY <2>2
  <2> QED
    BY <2>1, <2>2, <2>3, <2>4
<1>3. BehavioralQuery(LeastCoveredTrait) \subseteq BaseQuery /\ BehavioralQuery(AnyTrait) \subseteq BaseQuery
  BY DEF BehavioralQuery
<1>4. \A c \in BaseQuery : c \in BehavioralQuery(AnyTrait) \/ ShapeOf[c] = Likert
  BY DEF BehavioralQuery
<1> DEFINE head == IF legacyTurn THEN <<PickLegacy>> ELSE <<>>
           tail == <<PickBehavioral(LeastCoveredTrait), PickBehavioral(AnyTrait), PickLegacy>>
           turns == head \o tail
<1>5. /\ Len(turns) \in Nat
      /\ \A i \in 1 .. Len(turns) :
            turns[i] \in {PickLegacy, PickBehavioral(LeastCoveredTrait), PickBehavioral(AnyTrait)}
      /\ \E i \in 1 .. Len(turns) : turns[i] = PickBehavioral(AnyTrait)
      /\ \E i \in 1 .. Len(turns) : turns[i] = PickLegacy
      /\ \A i \in 1 .. Len(turns) :
            \/ turns[i] = PickLegacy
            \/ turns[i] = PickBehavioral(LeastCoveredTrait)
            \/ /\ turns[i] = PickBehavioral(AnyTrait)
               /\ \E j \in 1 .. (i - 1) : turns[j] = PickBehavioral(LeastCoveredTrait)
  <2>1. CASE legacyTurn
    <3>1. /\ Len(turns) = 4 /\ turns[1] = PickLegacy /\ turns[2] = PickBehavioral(LeastCoveredTrait)
          /\ turns[3] = PickBehavioral(AnyTrait) /\ turns[4] = PickLegacy
      BY <2>1
    <3> HIDE DEF turns
    <3> QED
      BY <3>1
  <2>2. CASE ~legacyTurn
    <3>1. /\ Len(turns) = 3 /\ turns[1] = PickBehavioral(LeastCoveredTrait)
          /\ turns[2] = PickBehavioral(AnyTrait) /\ turns[3] = PickLegacy
      BY <2>2
    <3> HIDE DEF turns
    <3> QED
      BY <3>1
  <2> QED
    BY <2>1, <2>2
<1>6. SelectTraitId(legacyTurn) = FirstNonEmpty(turns)
  BY DEF SelectTraitId
<1> HIDE DEF turns
<1>7. /\ \A x \in FirstNonEmpty(turns) : \E i \in 1 .. Len(turns) :
            x \in turns[i] /\ \A j \in 1 .. (i - 1) : turns[j] = {}
      /\ FirstNonEmpty(turns) = {} => \A i \in 1 .. Len(turns) : turns[i] = {}
  BY <1>5, FirstNonEmptyIsOne
<1>8. SelectTraitId(legacyTurn) \subseteq BaseQuery
  BY <1>1, <1>2, <1>3, <1>5, <1>6, <1>7
<1>9. ASSUME SelectTraitId(legacyTurn) = {} PROVE BaseQuery = {}
  <2>1. PickBehavioral(AnyTrait) = {} /\ PickLegacy = {}
    BY <1>5, <1>6, <1>7, <1>9
  <2> QED
    BY <1>1, <1>2, <1>4, <2>1
<1>10. ASSUME NEW c \in SelectTraitId(legacyTurn)
       PROVE  \/ c \in PickLegacy
              \/ c \in PickBehavioral(LeastCoveredTrait)
              \/ c \in PickBehavioral(AnyTrait) /\ BehavioralQuery(LeastCoveredTrait) = {}
  <2>1. PICK i \in 1 .. Len(turns) : c \in turns[i] /\ \A j \in 1 .. (i - 1) : turns[j] = {}
    BY <1>6, <1>7
  <2>2. PickBehavioral(LeastCoveredTrait) = {} => BehavioralQuery(LeastCoveredTrait) = {}
    BY <1>1
  <2> QED
    BY <1>5, <2>1, <2>2
<1> QED
  BY <1>8, <1>9, <1>10
-----------------------------------------------------------------------------
(* The section.                                                            *)

SheetRow ==
    [card : Cards, target : DeclaredTraits \cup {AnyTrait}, inTurn : BOOLEAN,
     moved : SUBSET DeclaredTraits]

\* The row of the question on screen, if there is one.
AskingRows == IF asking = <<>> THEN {} ELSE {asking[1]}

SelectionTyped ==
    /\ sheet \in Seq(SheetRow) /\ IsFiniteSet(SheetRows)
    /\ asking = <<>> \/ \E row \in SheetRow : asking = <<row>>
    /\ evidence \in [DeclaredTraits -> Nat] /\ shapeCount \in [DeclaredShapes -> Nat]

RowsAbout(rows, t) == {row \in rows : t \in row.moved}
RowsShaped(rows, s) == {row \in rows : ShapeOf[row.card] = s}

\* The counts are those of the stored answers, whether they were kept along the way or
\* taken after a rebuild.
CountsAreStored ==
    /\ \A t \in DeclaredTraits : evidence[t] = Cardinality(RowsAbout(SheetRows, t))
    /\ \A s \in DeclaredShapes : shapeCount[s] = Cardinality(RowsShaped(SheetRows, s))

\* A card has one row, stored or on screen.
CardsComeOnce ==
    /\ seenCards = {row.card : row \in SheetRows \cup AskingRows}
    /\ \A row \in AskingRows : \A other \in SheetRows : row.card # other.card

\* While a question is on screen nothing else is counted: what was the turn of a trait or
\* of a shape when it was put still is.
AskingIsInTurn ==
    \A row \in AskingRows :
        /\ row.target # AnyTrait => /\ Weighs(row.card, row.target)
                                    /\ \A t \in DeclaredTraits : Heard[row.target] <= Heard[t]
        /\ row.inTurn => /\ ShapeOf[row.card] \in DeclaredShapes
                         /\ \A s \in DeclaredShapes : shapeCount[ShapeOf[row.card]] <= shapeCount[s]

\* A question about the trait in turn was put where one could be had.
TurnsAreTaken == \A row \in SheetRows : row.target # AnyTrait => Weighs(row.card, row.target)

SelectionIInv ==
    /\ SelectionTyped /\ CountsAreStored /\ CardsComeOnce /\ AskingIsInTurn /\ TurnsAreTaken
    /\ PaperIsEvenHanded

LEMMA SheetAssumptions ==
    /\ Len(Catalogue) \in Nat \ {0} /\ Len(Shapes) \in Nat \ {0} /\ Enough \in Nat \ {0}
    /\ AnyTrait \notin DeclaredTraits /\ Likert \notin DeclaredShapes
    /\ \A c \in Cards : ShapeOf[c] \in DeclaredShapes \cup {Likert}
    /\ \A c \in Cards : \A said \in Says[c] : said \subseteq DeclaredTraits
<1>1. Len(Catalogue) \in Nat /\ Len(Shapes) \in Nat
  BY CardsAssumption
<1> QED
  BY <1>1, CardsAssumption DEF DeclaredTraits, DeclaredShapes

LEMMA SelectionInitSound == SelectionInit => SelectionIInv
<1> SUFFICES ASSUME SelectionInit PROVE SelectionIInv
  OBVIOUS
<1>1. SheetRows = {} /\ AskingRows = {}
  BY DEF SelectionInit, SheetRows, AskingRows
<1>2. Cardinality({}) = 0 /\ IsFiniteSet({})
  BY FS_EmptySet
<1>3. SelectionTyped
  BY <1>1, <1>2 DEF SelectionTyped, SelectionInit
<1>4. CountsAreStored
  <2>1. /\ \A t \in DeclaredTraits : RowsAbout(SheetRows, t) = {}
        /\ \A s \in DeclaredShapes : RowsShaped(SheetRows, s) = {}
    BY <1>1 DEF RowsAbout, RowsShaped
  <2> QED
    BY <1>2, <2>1 DEF CountsAreStored, SelectionInit
<1>5. CardsComeOnce /\ AskingIsInTurn /\ TurnsAreTaken
  BY <1>1 DEF CardsComeOnce, AskingIsInTurn, TurnsAreTaken, SelectionInit
<1>6. TraitsTakeTurns
  <2> SUFFICES ASSUME NEW s \in DeclaredTraits, NEW t \in DeclaredTraits
               PROVE  Cardinality({row \in SheetRows : row.target = s}) <= evidence[t] + 1
    BY DEF TraitsTakeTurns
  <2>1. {row \in SheetRows : row.target = s} = {}
    BY <1>1
  <2>2. evidence[t] = 0
    BY DEF SelectionInit
  <2> QED
    BY <1>2, <2>1, <2>2
<1>7. ShapesTakeTurns
  <2> SUFFICES ASSUME NEW s \in DeclaredShapes, NEW r \in DeclaredShapes
               PROVE  Cardinality(RowsShaped(SheetRows, s))
                         <= Cardinality(RowsShaped(SheetRows, r)) + 1
    BY DEF ShapesTakeTurns, RowsShaped
  <2>1. RowsShaped(SheetRows, s) = {} /\ RowsShaped(SheetRows, r) = {}
    BY <1>1 DEF RowsShaped
  <2> QED
    BY <1>2, <2>1
<1>8. NothingLeftBehind
  BY DEF NothingLeftBehind, SelectionInit
<1> QED
  BY <1>3, <1>4, <1>5, <1>6, <1>7, <1>8 DEF SelectionIInv, PaperIsEvenHanded

\* What is settled by the stored rows and the counts alone.
LEMMA TurnsKeep ==
    ASSUME SelectionIInv, sheet' = sheet, evidence' = evidence, shapeCount' = shapeCount
    PROVE  /\ SheetRows' = SheetRows /\ Heard' = Heard
           /\ CountsAreStored' /\ TraitsTakeTurns' /\ ShapesTakeTurns' /\ TurnsAreTaken'
<1>1. SheetRows' = SheetRows /\ Heard' = Heard /\ TurnsAreTaken'
  BY DEF SheetRows, Heard, TurnsAreTaken, Weighs, SelectionIInv
<1>2. CountsAreStored'
  BY <1>1 DEF CountsAreStored, SelectionIInv
<1>3. TraitsTakeTurns'
  BY <1>1 DEF TraitsTakeTurns, SelectionIInv, PaperIsEvenHanded
<1>4. ShapesTakeTurns'
  BY <1>1 DEF ShapesTakeTurns, SelectionIInv, PaperIsEvenHanded
<1> QED
  BY <1>1, <1>2, <1>3, <1>4

\* The trait and the shape whose turn it is are the ones with the least.
LEMMA LeastAreLeast ==
    ASSUME SelectionTyped
    PROVE  /\ LeastCoveredTrait \in DeclaredTraits
           /\ \A t \in DeclaredTraits : Heard[LeastCoveredTrait] <= Heard[t]
           /\ LeastUsedPattern \in DeclaredShapes
           /\ \A s \in DeclaredShapes : shapeCount[LeastUsedPattern] <= shapeCount[s]
<1>1. \A t \in DeclaredTraits : evidence[t] \in Nat /\ Heard[t] \in Nat
  BY SheetAssumptions DEF SelectionTyped, Heard
<1>2. PICK i \in 1 .. Len(Catalogue) :
          /\ FirstLeast(Catalogue, Heard) = Catalogue[i]
          /\ \A j \in 1 .. Len(Catalogue) : Heard[Catalogue[i]] <= Heard[Catalogue[j]]
  <2>1. \A j \in 1 .. Len(Catalogue) : Heard[Catalogue[j]] \in Nat
    BY <1>1 DEF DeclaredTraits
  <2> QED
    BY <2>1, SheetAssumptions, FirstLeastIsLeast
<1>3. PICK k \in 1 .. Len(Shapes) :
          /\ FirstLeast(Shapes, shapeCount) = Shapes[k]
          /\ \A j \in 1 .. Len(Shapes) : shapeCount[Shapes[k]] <= shapeCount[Shapes[j]]
  <2>1. \A j \in 1 .. Len(Shapes) : shapeCount[Shapes[j]] \in Nat
    BY DEF DeclaredShapes, SelectionTyped
  <2> QED
    BY <2>1, SheetAssumptions, FirstLeastIsLeast
<1>4. /\ LeastCoveredTrait \in DeclaredTraits
      /\ \A t \in DeclaredTraits : Heard[LeastCoveredTrait] <= Heard[t]
  BY <1>2 DEF LeastCoveredTrait, DeclaredTraits
<1>5. /\ LeastUsedPattern \in DeclaredShapes
      /\ \A s \in DeclaredShapes : shapeCount[LeastUsedPattern] <= shapeCount[s]
  BY <1>3 DEF LeastUsedPattern, DeclaredShapes
<1> QED
  BY <1>4, <1>5

\* The question put is about the trait in turn, and of the shape in turn, where the bank
\* held one.
LEMMA SelectorKeepsTheTurn ==
    ASSUME SelectionTyped, NEW legacyTurn \in BOOLEAN, NEW c \in SelectTraitId(legacyTurn)
    PROVE  /\ RowOf(c).target # AnyTrait => Weighs(c, RowOf(c).target)
           /\ RowOf(c).inTurn => ShapeOf[c] = LeastUsedPattern
<1> DEFINE T == LeastCoveredTrait
           legacy == {o \in BaseQuery : ShapeOf[o] = Likert}
           alike == {o \in BaseQuery : (ShapeOf[o] = Likert) = (ShapeOf[c] = Likert)}
           about == {o \in alike : Weighs(o, T)}
           offered == IF about # {} THEN about ELSE alike
<1>1. /\ RowOf(c).target = IF about # {} THEN T ELSE AnyTrait
      /\ RowOf(c).inTurn <=> \E o \in offered : ShapeOf[o] = LeastUsedPattern
  BY DEF RowOf
<1>2. T # AnyTrait /\ LeastUsedPattern # Likert
  BY LeastAreLeast, SheetAssumptions
<1>3. ASSUME NEW t, NEW o \in PickBehavioral(t)
      PROVE  /\ o \in BehavioralQuery(t)
             /\ (\E x \in BehavioralQuery(t) : ShapeOf[x] = LeastUsedPattern)
                   => ShapeOf[o] = LeastUsedPattern
  <2> DEFINE first == {x \in BehavioralQuery(t) : ShapeOf[x] = LeastUsedPattern}
             sets == <<first, BehavioralQuery(t)>>
  <2>1. Len(sets) = 2 /\ sets[1] = first /\ sets[2] = BehavioralQuery(t)
    OBVIOUS
  <2>2. o \in FirstNonEmpty(sets)
    BY <1>3 DEF PickBehavioral
  <2> HIDE DEF sets
  <2>3. PICK i \in 1 .. Len(sets) : o \in sets[i] /\ \A j \in 1 .. (i - 1) : sets[j] = {}
    BY <2>1, <2>2, FirstNonEmptyIsOne
  <2>4. i = 1 \/ (i = 2 /\ sets[1] = {})
    BY <2>1, <2>3
  <2> QED
    BY <2>1, <2>3, <2>4
<1>4. ASSUME NEW o \in PickLegacy
      PROVE  o \in legacy /\ ((\E x \in legacy : Weighs(x, T)) => Weighs(o, T))
  <2> DEFINE first == {x \in legacy : Weighs(x, T)}
             sets == <<first, legacy>>
  <2>1. Len(sets) = 2 /\ sets[1] = first /\ sets[2] = legacy
    OBVIOUS
  <2>2. o \in FirstNonEmpty(sets)
    BY <1>4 DEF PickLegacy
  <2> HIDE DEF sets
  <2>3. PICK i \in 1 .. Len(sets) : o \in sets[i] /\ \A j \in 1 .. (i - 1) : sets[j] = {}
    BY <2>1, <2>2, FirstNonEmptyIsOne
  <2>4. i = 1 \/ (i = 2 /\ sets[1] = {})
    BY <2>1, <2>3
  <2> QED
    BY <2>1, <2>3, <2>4
<1>5. CASE c \in PickLegacy
  <2>1. alike = legacy
    BY <1>4, <1>5
  <2>2. \A o \in offered : ShapeOf[o] = Likert
    BY <2>1
  <2> QED
    BY <1>1, <1>2, <1>4, <1>5, <2>1, <2>2
<1>6. CASE c \in PickBehavioral(T)
  <2>1. c \in BehavioralQuery(T) /\ about = BehavioralQuery(T)
    BY <1>2, <1>3, <1>6 DEF BehavioralQuery
  <2>2. offered = BehavioralQuery(T)
    BY <2>1
  <2>3. Weighs(c, T)
    BY <2>1
  <2> QED
    BY <1>1, <1>3, <1>6, <2>2, <2>3
<1>7. CASE c \in PickBehavioral(AnyTrait) /\ BehavioralQuery(T) = {}
  <2>1. c \in BehavioralQuery(AnyTrait) /\ alike = BehavioralQuery(AnyTrait)
    BY <1>3, <1>7 DEF BehavioralQuery
  <2>2. about = {}
    BY <1>7, <2>1 DEF BehavioralQuery
  <2> QED
    BY <1>1, <1>3, <1>7, <2>1, <2>2
<1> QED
  BY <1>5, <1>6, <1>7, SelectorIsExhaustive

LEMMA PutStatementKeeps == SelectionIInv /\ PutStatement => SelectionIInv'
<1> SUFFICES ASSUME SelectionIInv, PutStatement PROVE SelectionIInv'
  OBVIOUS
<1>0. PICK legacyTurn \in BOOLEAN : \E c \in SelectTraitId(legacyTurn) :
          asking' = <<RowOf(c)>> /\ seenCards' = seenCards \cup {c}
  BY DEF PutStatement
<1>1. PICK c \in SelectTraitId(legacyTurn) :
          asking' = <<RowOf(c)>> /\ seenCards' = seenCards \cup {c}
  BY <1>0
<1>2. /\ asking = <<>> /\ ~ranDry /\ SelectionTyped
      /\ UNCHANGED <<sheet, evidence, shapeCount, gone, ranDry, rebuilds>>
  BY DEF PutStatement, SheetOpen, SelectionIInv
<1>3. c \in Cards /\ c \notin seenCards
  BY SelectorIsExhaustive DEF BaseQuery
<1>4. RowOf(c) \in SheetRow /\ RowOf(c).card = c
  BY <1>2, <1>3, LeastAreLeast DEF RowOf, SheetRow
<1>5. /\ SheetRows' = SheetRows /\ Heard' = Heard
      /\ CountsAreStored' /\ TraitsTakeTurns' /\ ShapesTakeTurns' /\ TurnsAreTaken'
  BY <1>2, TurnsKeep
<1>6. AskingRows = {} /\ AskingRows' = {RowOf(c)}
  BY <1>1, <1>2 DEF AskingRows
<1>7. SelectionTyped'
  BY <1>1, <1>2, <1>4, <1>5 DEF SelectionTyped
<1>8. CardsComeOnce'
  <2>1. seenCards = {row.card : row \in SheetRows}
    BY <1>6 DEF SelectionIInv, CardsComeOnce
  <2>2. \A other \in SheetRows : c # other.card
    BY <1>3, <2>1
  <2>3. seenCards' = {row.card : row \in SheetRows \cup {RowOf(c)}}
    BY <1>1, <1>4, <2>1
  <2> QED
    BY <1>4, <1>5, <1>6, <2>2, <2>3 DEF CardsComeOnce
<1>9. AskingIsInTurn'
  <2>0. PICK put : put = RowOf(c)
    OBVIOUS
  <2>1. /\ put.target = AnyTrait \/ put.target = LeastCoveredTrait
        /\ put.target # AnyTrait => Weighs(put.card, put.target)
        /\ put.inTurn => ShapeOf[put.card] = LeastUsedPattern
    <3>1. put.target = AnyTrait \/ put.target = LeastCoveredTrait
      BY <2>0 DEF RowOf
    <3> QED
      BY <1>2, <1>4, <2>0, <3>1, SelectorKeepsTheTurn
  <2>2. AskingRows' = {put}
    BY <1>6, <2>0
  <2>3. /\ \A t \in DeclaredTraits : Heard'[LeastCoveredTrait] <= Heard'[t]
        /\ LeastUsedPattern \in DeclaredShapes
        /\ \A s \in DeclaredShapes : shapeCount'[LeastUsedPattern] <= shapeCount'[s]
    BY <1>2, <1>5, LeastAreLeast
  <2>4. put.target # AnyTrait =>
            /\ Weighs(put.card, put.target)
            /\ \A t \in DeclaredTraits : Heard'[put.target] <= Heard'[t]
    BY <2>1, <2>3
  <2>5. put.inTurn => /\ ShapeOf[put.card] \in DeclaredShapes
                      /\ \A s \in DeclaredShapes : shapeCount'[ShapeOf[put.card]] <= shapeCount'[s]
    BY <2>1, <2>3
  <2> QED
    BY <2>2, <2>4, <2>5 DEF AskingIsInTurn
<1>10. NothingLeftBehind'
  BY <1>2 DEF NothingLeftBehind
<1> QED
  BY <1>5, <1>7, <1>8, <1>9, <1>10 DEF SelectionIInv, PaperIsEvenHanded

LEMMA RunDryKeeps == SelectionIInv /\ RunDry => SelectionIInv'
<1> SUFFICES ASSUME SelectionIInv, RunDry PROVE SelectionIInv'
  OBVIOUS
<1>1. /\ \E legacyTurn \in BOOLEAN : SelectTraitId(legacyTurn) = {}
      /\ UNCHANGED <<sheet, asking, seenCards, evidence, shapeCount, gone, rebuilds>>
  BY DEF RunDry
<1>2. /\ SheetRows' = SheetRows /\ Heard' = Heard
      /\ CountsAreStored' /\ TraitsTakeTurns' /\ ShapesTakeTurns' /\ TurnsAreTaken'
  BY <1>1, TurnsKeep
<1>3. AskingRows' = AskingRows
  BY <1>1 DEF AskingRows
<1>4. SelectionTyped' /\ CardsComeOnce' /\ AskingIsInTurn'
  BY <1>1, <1>2, <1>3 DEF SelectionTyped, CardsComeOnce, AskingIsInTurn, Weighs, SelectionIInv
<1>5. BaseQuery = {} /\ BaseQuery' = BaseQuery
  BY <1>1, SelectorIsExhaustive DEF BaseQuery
<1> QED
  BY <1>2, <1>4, <1>5 DEF NothingLeftBehind, SelectionIInv, PaperIsEvenHanded

\* One more stored answer: the counts follow, and nobody is put ahead of their turn.
LEMMA ReplyKeeps == SelectionIInv /\ Reply => SelectionIInv'
<1> SUFFICES ASSUME SelectionIInv, Reply PROVE SelectionIInv'
  OBVIOUS
<1>1. /\ SelectionTyped /\ CountsAreStored /\ CardsComeOnce /\ AskingIsInTurn
      /\ TraitsTakeTurns /\ ShapesTakeTurns /\ TurnsAreTaken
  BY DEF SelectionIInv, PaperIsEvenHanded
<1>2. PICK put \in SheetRow : asking = <<put>>
  BY <1>1 DEF Reply, SelectionTyped
<1>3. put = asking[1] /\ AskingRows = {put}
  BY <1>2 DEF AskingRows
<1>4. PICK moved \in Says[put.card] \cup {{}} :
          LET row == [put EXCEPT !.moved = moved]
          IN  /\ sheet' = Append(sheet, row)
              /\ evidence' = EvidenceWith(row)
              /\ shapeCount' = ShapesWith(row)
  BY <1>3 DEF Reply
<1> DEFINE row == [put EXCEPT !.moved = moved]
<1>5. /\ row \in SheetRow /\ row.card = put.card /\ row.target = put.target
      /\ row.inTurn = put.inTurn /\ row.moved = moved /\ put.card \in Cards
  <2>1. put.card \in Cards
    BY DEF SheetRow
  <2>2. moved \subseteq DeclaredTraits
    BY <2>1, SheetAssumptions
  <2> QED
    BY <2>1, <2>2 DEF SheetRow
<1>6. /\ sheet' = Append(sheet, row) /\ evidence' = EvidenceWith(row)
      /\ shapeCount' = ShapesWith(row) /\ asking' = <<>>
      /\ seenCards' = seenCards /\ gone' = gone /\ ranDry' = ranDry /\ ~ranDry
  BY <1>4 DEF Reply, SheetOpen
<1> HIDE DEF row
<1>7. SheetRows' = SheetRows \cup {row} /\ IsFiniteSet(SheetRows) /\ row \notin SheetRows
  <2>1. sheet \in Seq(SheetRow) /\ IsFiniteSet(SheetRows)
    BY <1>1 DEF SelectionTyped
  <2>2. /\ Len(sheet') = Len(sheet) + 1 /\ Len(sheet) \in Nat /\ sheet'[Len(sheet) + 1] = row
        /\ \A i \in 1 .. Len(sheet) : sheet'[i] = sheet[i]
    BY <1>5, <1>6, <2>1
  <2>3. SheetRows' = SheetRows \cup {row}
    <3>1. ASSUME NEW x \in SheetRows' PROVE x \in SheetRows \cup {row}
      <4>1. PICK i \in 1 .. Len(sheet') : x = sheet'[i]
        BY DEF SheetRows
      <4> QED
        BY <2>2, <4>1 DEF SheetRows
    <3>2. ASSUME NEW x \in SheetRows PROVE x \in SheetRows'
      <4>1. PICK i \in 1 .. Len(sheet) : x = sheet[i]
        BY DEF SheetRows
      <4> QED
        BY <2>2, <4>1 DEF SheetRows
    <3>3. row \in SheetRows'
      BY <2>2 DEF SheetRows
    <3> QED
      BY <3>1, <3>2, <3>3
  <2>4. \A other \in SheetRows : other.card # row.card
    BY <1>1, <1>3, <1>5 DEF CardsComeOnce
  <2> QED
    BY <2>1, <2>3, <2>4
<1>8. ASSUME NEW T \in SUBSET SheetRows
      PROVE  /\ IsFiniteSet(T) /\ Cardinality(T) \in Nat
             /\ Cardinality(T \cup {row}) = Cardinality(T) + 1
  <2>1. IsFiniteSet(T) /\ row \notin T
    BY <1>7, FS_Subset
  <2> QED
    BY <2>1, FS_AddElement, FS_CardinalityType
<1>9. SelectionTyped'
  <2>1. IsFiniteSet(SheetRows')
    BY <1>7, FS_AddElement
  <2>2. sheet' \in Seq(SheetRow)
    BY <1>1, <1>5, <1>6 DEF SelectionTyped
  <2>3. evidence' \in [DeclaredTraits -> Nat]
    BY <1>1, <1>6 DEF SelectionTyped, EvidenceWith
  <2>4. shapeCount' \in [DeclaredShapes -> Nat]
    BY <1>1, <1>6 DEF SelectionTyped, ShapesWith
  <2> QED
    BY <1>6, <2>1, <2>2, <2>3, <2>4 DEF SelectionTyped
<1>10. CountsAreStored'
  <2>1. ASSUME NEW t \in DeclaredTraits
        PROVE  evidence'[t] = Cardinality(RowsAbout(SheetRows', t))
    <3>1. evidence[t] = Cardinality(RowsAbout(SheetRows, t)) /\ evidence[t] \in Nat
      BY <1>1 DEF CountsAreStored, SelectionTyped
    <3>2. RowsAbout(SheetRows, t) \in SUBSET SheetRows
      BY DEF RowsAbout
    <3>3. CASE t \in row.moved
      <4>1. RowsAbout(SheetRows', t) = RowsAbout(SheetRows, t) \cup {row}
        BY <1>7, <3>3 DEF RowsAbout
      <4> QED
        BY <1>6, <1>8, <3>1, <3>2, <3>3, <4>1 DEF EvidenceWith
    <3>4. CASE t \notin row.moved
      <4>1. RowsAbout(SheetRows', t) = RowsAbout(SheetRows, t)
        BY <1>7, <3>4 DEF RowsAbout
      <4> QED
        BY <1>6, <3>1, <3>4, <4>1 DEF EvidenceWith
    <3> QED
      BY <3>3, <3>4
  <2>2. ASSUME NEW s \in DeclaredShapes
        PROVE  shapeCount'[s] = Cardinality(RowsShaped(SheetRows', s))
    <3>1. shapeCount[s] = Cardinality(RowsShaped(SheetRows, s)) /\ shapeCount[s] \in Nat
      BY <1>1 DEF CountsAreStored, SelectionTyped
    <3>2. RowsShaped(SheetRows, s) \in SUBSET SheetRows
      BY DEF RowsShaped
    <3>3. CASE s = ShapeOf[row.card]
      <4>1. RowsShaped(SheetRows', s) = RowsShaped(SheetRows, s) \cup {row}
        BY <1>7, <3>3 DEF RowsShaped
      <4> QED
        BY <1>6, <1>8, <3>1, <3>2, <3>3, <4>1 DEF ShapesWith
    <3>4. CASE s # ShapeOf[row.card]
      <4>1. RowsShaped(SheetRows', s) = RowsShaped(SheetRows, s)
        BY <1>7, <3>4 DEF RowsShaped
      <4> QED
        BY <1>6, <3>1, <3>4, <4>1 DEF ShapesWith
    <3> QED
      BY <3>3, <3>4
  <2> QED
    BY <2>1, <2>2 DEF CountsAreStored
<1>11. CardsComeOnce' /\ AskingIsInTurn'
  <2>1. AskingRows' = {}
    BY <1>6 DEF AskingRows
  <2>2. seenCards = {r.card : r \in SheetRows \cup {put}}
    BY <1>1, <1>3 DEF CardsComeOnce
  <2>3. {r.card : r \in SheetRows \cup {put}} = {r.card : r \in SheetRows \cup {row}}
    BY <1>5
  <2> QED
    BY <1>6, <1>7, <2>1, <2>2, <2>3 DEF CardsComeOnce, AskingIsInTurn
<1>12. TraitsTakeTurns'
  <2> DEFINE For(t) == {r \in SheetRows : r.target = t}
             ForNext(t) == {r \in SheetRows' : r.target = t}
  <2> SUFFICES ASSUME \A r \in SheetRows' : Weighs(r.card, r.target) => r.target \in r.moved,
                      NEW s \in DeclaredTraits, NEW t \in DeclaredTraits
               PROVE  Cardinality(ForNext(s)) <= evidence'[t] + 1 \/ evidence'[t] >= Enough
    BY DEF TraitsTakeTurns, Weighs
  <2>1. /\ \A r \in SheetRows : Weighs(r.card, r.target) => r.target \in r.moved
        /\ \A r \in SheetRows : r.target \in r.moved \cup {AnyTrait}
    BY <1>1, <1>7 DEF TurnsAreTaken
  <2>2. Cardinality(For(s)) <= evidence[t] + 1 \/ evidence[t] >= Enough
    BY <1>1, <2>1 DEF TraitsTakeTurns
  <2>3. /\ evidence[s] \in Nat /\ evidence[t] \in Nat /\ evidence'[t] \in Nat
        /\ evidence[t] <= evidence'[t]
    BY <1>1, <1>6 DEF SelectionTyped, EvidenceWith
  <2>4. CASE row.target # s
    <3>1. ForNext(s) = For(s)
      BY <1>7, <2>4
    <3>2. For(s) \in SUBSET SheetRows
      OBVIOUS
    <3> HIDE DEF For, ForNext
    <3>3. Cardinality(For(s)) \in Nat
      BY <1>8, <3>2
    <3> QED
      BY <2>2, <2>3, <3>1, <3>3, SheetAssumptions
  <2>5. CASE row.target = s
    <3>1. ForNext(s) = For(s) \cup {row} /\ For(s) \in SUBSET SheetRows
      BY <1>7, <2>5
    <3>2. s # AnyTrait
      BY SheetAssumptions
    <3>3. For(s) \subseteq RowsAbout(SheetRows, s)
      BY <2>1, <3>2 DEF RowsAbout
    <3>4. RowsAbout(SheetRows, s) \in SUBSET SheetRows
      BY DEF RowsAbout
    <3> HIDE DEF For, ForNext
    <3>5. Cardinality(ForNext(s)) = Cardinality(For(s)) + 1 /\ Cardinality(For(s)) \in Nat
      BY <1>8, <3>1
    <3>6. Cardinality(For(s)) <= evidence[s]
      <4>1. IsFiniteSet(RowsAbout(SheetRows, s))
        BY <1>8, <3>4
      <4>2. Cardinality(For(s)) <= Cardinality(RowsAbout(SheetRows, s))
        BY <3>3, <4>1, FS_Subset
      <4> QED
        BY <1>1, <4>2 DEF CountsAreStored
    <3>7. Heard[s] <= Heard[t]
      BY <1>1, <1>3, <1>5, <2>5, <3>2 DEF AskingIsInTurn
    <3>8. evidence[t] < Enough => evidence[s] <= evidence[t]
      BY <2>3, <3>7, SheetAssumptions DEF Heard
    <3> QED
      BY <2>3, <3>5, <3>6, <3>8, SheetAssumptions
  <2> QED
    BY <2>4, <2>5
<1>13. ShapesTakeTurns'
  <2> SUFFICES ASSUME \A r \in SheetRows' : r.inTurn \/ ShapeOf[r.card] = Likert,
                      NEW s \in DeclaredShapes, NEW q \in DeclaredShapes
               PROVE  Cardinality(RowsShaped(SheetRows', s)) <= Cardinality(RowsShaped(SheetRows', q)) + 1
    BY DEF ShapesTakeTurns, RowsShaped
  <2>1. \A r \in SheetRows : r.inTurn \/ ShapeOf[r.card] = Likert
    BY <1>7
  <2>2. Cardinality(RowsShaped(SheetRows, s)) <= Cardinality(RowsShaped(SheetRows, q)) + 1
    BY <1>1, <2>1 DEF ShapesTakeTurns, RowsShaped
  <2>3. /\ shapeCount[s] = Cardinality(RowsShaped(SheetRows, s))
        /\ shapeCount[q] = Cardinality(RowsShaped(SheetRows, q))
    BY <1>1 DEF CountsAreStored
  <2>4. /\ shapeCount'[s] = Cardinality(RowsShaped(SheetRows', s))
        /\ shapeCount'[q] = Cardinality(RowsShaped(SheetRows', q))
    BY <1>10 DEF CountsAreStored
  <2>5. /\ shapeCount'[s] = shapeCount[s] + (IF s = ShapeOf[row.card] THEN 1 ELSE 0)
        /\ shapeCount'[q] = shapeCount[q] + (IF q = ShapeOf[row.card] THEN 1 ELSE 0)
        /\ shapeCount[s] \in Nat /\ shapeCount[q] \in Nat
    BY <1>1, <1>6 DEF ShapesWith, SelectionTyped
  <2>6. s = ShapeOf[row.card] => shapeCount[s] <= shapeCount[q]
    <3>1. row.inTurn \/ ShapeOf[row.card] = Likert
      BY <1>7
    <3> QED
      BY <1>1, <1>3, <1>5, <3>1, SheetAssumptions DEF AskingIsInTurn
  <2> QED
    BY <2>2, <2>3, <2>4, <2>5, <2>6
<1>14. NothingLeftBehind'
  BY <1>6 DEF NothingLeftBehind
<1>15. TurnsAreTaken'
  BY <1>1, <1>3, <1>5, <1>7 DEF TurnsAreTaken, AskingIsInTurn, Weighs
<1> QED
  BY <1>9, <1>10, <1>11, <1>12, <1>13, <1>14, <1>15 DEF SelectionIInv, PaperIsEvenHanded

\* A rebuild takes the counts the attempt had.
LEMMA RebuildSheetKeeps == SelectionIInv /\ RebuildSheet => SelectionIInv'
<1> SUFFICES ASSUME SelectionIInv, RebuildSheet PROVE SelectionIInv'
  OBVIOUS
<1>1. /\ asking' = <<>> /\ seenCards' = {row.card : row \in SheetRows}
      /\ evidence' = [t \in DeclaredTraits |-> Cardinality(RowsAbout(SheetRows, t))]
      /\ shapeCount' = [s \in DeclaredShapes |-> Cardinality(RowsShaped(SheetRows, s))]
      /\ UNCHANGED <<sheet, gone, ranDry>> /\ ~ranDry
  BY DEF RebuildSheet, SheetOpen, RowsAbout, RowsShaped
<1>2. SelectionTyped /\ CountsAreStored
  BY DEF SelectionIInv
<1>3. evidence' = evidence
  BY <1>1, <1>2 DEF SelectionTyped, CountsAreStored
<1>4. shapeCount' = shapeCount
  BY <1>1, <1>2 DEF SelectionTyped, CountsAreStored
<1>5. /\ SheetRows' = SheetRows /\ CountsAreStored' /\ TraitsTakeTurns' /\ ShapesTakeTurns' /\ TurnsAreTaken'
  BY <1>1, <1>3, <1>4, TurnsKeep
<1>6. AskingRows' = {}
  BY <1>1 DEF AskingRows
<1>7. SelectionTyped'
  BY <1>1, <1>2, <1>3, <1>4, <1>5 DEF SelectionTyped
<1>8. CardsComeOnce' /\ AskingIsInTurn'
  BY <1>1, <1>5, <1>6 DEF CardsComeOnce, AskingIsInTurn
<1>9. NothingLeftBehind'
  BY <1>1 DEF NothingLeftBehind
<1> QED
  BY <1>5, <1>7, <1>8, <1>9 DEF SelectionIInv, PaperIsEvenHanded

LEMMA ArchiveCardKeeps ==
    ASSUME SelectionIInv, gone \subseteq gone',
           UNCHANGED <<sheet, asking, seenCards, evidence, shapeCount, ranDry>>
    PROVE  SelectionIInv'
<1>1. /\ SheetRows' = SheetRows /\ Heard' = Heard
      /\ CountsAreStored' /\ TraitsTakeTurns' /\ ShapesTakeTurns' /\ TurnsAreTaken'
  BY TurnsKeep
<1>2. AskingRows' = AskingRows
  BY DEF AskingRows
<1>3. SelectionTyped' /\ CardsComeOnce' /\ AskingIsInTurn'
  BY <1>1, <1>2 DEF SelectionTyped, CardsComeOnce, AskingIsInTurn, Weighs, SelectionIInv
<1>4. NothingLeftBehind'
  BY DEF NothingLeftBehind, BaseQuery, SelectionIInv, PaperIsEvenHanded
<1> QED
  BY <1>1, <1>3, <1>4 DEF SelectionIInv, PaperIsEvenHanded

LEMMA SelectionNextKeeps == SelectionIInv /\ [SelectionNext]_selection => SelectionIInv'
<1> SUFFICES ASSUME SelectionIInv, [SelectionNext]_selection PROVE SelectionIInv'
  OBVIOUS
<1>1. CASE PutStatement
  BY <1>1, PutStatementKeeps
<1>2. CASE RunDry
  BY <1>2, RunDryKeeps
<1>3. CASE Reply
  BY <1>3, ReplyKeeps
<1>4. CASE RebuildSheet
  BY <1>4, RebuildSheetKeeps
<1>5. ASSUME NEW c \in Cards, ArchiveCard(c) PROVE SelectionIInv'
  BY <1>5, ArchiveCardKeeps DEF ArchiveCard
<1>6. CASE UNCHANGED selection
  BY <1>6, ArchiveCardKeeps DEF selection
<1> QED
  BY <1>1, <1>2, <1>3, <1>4, <1>5, <1>6 DEF SelectionNext

\* The turns of traits and of shapes, whatever the bank, the answers and the rebuilds, and
\* a section that ends early has asked every question that was left (question-selector's
\* selectTraitId, recordTraitAnswer and the replay of stored answers).
THEOREM TurnsAreKept == SelectionSpec => []PaperIsEvenHanded
<1>1. SelectionInit => SelectionIInv
  BY SelectionInitSound
<1>2. SelectionIInv /\ [SelectionNext]_selection => SelectionIInv'
  BY SelectionNextKeeps
<1>3. SelectionIInv => PaperIsEvenHanded
  BY DEF SelectionIInv
<1> QED
  BY <1>1, <1>2, <1>3, PTL DEF SelectionSpec

==============================================================================
