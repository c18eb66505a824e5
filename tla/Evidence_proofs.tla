-------------------------- MODULE Evidence_proofs --------------------------
(***************************************************************************)
(* Theorems of ReportJobs, for any modules, finalisers, readers, reads,    *)
(* refusals and crashes, of ReadinessCheck, for any number of samples,     *)
(* visits and frames in flight, of Verdict, for any sections,              *)
(* vocabularies, abilities and measurements, and of TraitScoring, for any  *)
(* traits, versions of questions and answers.                              *)
(***************************************************************************)
EXTENDS ReportJobs, ReadinessCheck, Verdict, TraitScoring, FiniteSetTheorems, WellFoundedInduction, TLAPS

(***************************************************************************)
(* Reports                                                                 *)
(***************************************************************************)
\* Where a process may still queue a job, or send a notice of its own.
Flying == {"enqueue", "look", "load", "results", "upsert", "notify"}
InFlight == {p \in Procs : pc[p] \in Flying}

\* Whether a job waits, whose notice is still to come with no process in flight for it.
Pending == job.state = "waiting"

One(b) == IF b THEN 1 ELSE 0

\* Each process in flight, each job that waits and each notice sent is owed to a call of
\* finalize, a read, a refusal or a crash of its own.
Accounted ==
    /\ IsFiniteSet(InFlight)
    /\ Cardinality(InFlight) + notices + One(Pending) <= closes + reads + faults + crashes

Roles ==
    /\ \A f \in Finalisers : pc[f] \in {"idle", "enqueue"}
    /\ pc[Worker] \notin {"enqueue", "look", "render"}
    /\ \A r \in Readers : pc[r] # "enqueue"

JobFits ==
    /\ job.state = "active" <=> pc[Worker] # "idle"
    /\ job.state # "none" => phase = "closed"
    /\ \A f \in Finalisers : pc[f] = "enqueue" => phase = "closed"
    /\ job.state = "active" => job.made > 0
    /\ job.state = "waiting" => job.made < Attempts
    /\ job.state \in {"waiting", "active"} => job.stalls <= MaxStalls

Follows(p) ==
    /\ pc[p] # "idle" => phase # "none"
    /\ pc[p] \in {"results", "upsert"} => seen[p].phase # "none"
    /\ pc[p] \in {"notify", "reread"} => report # NoReport

ReportFits ==
    /\ phase = "closed" => scored = Modules
    /\ Roles
    /\ JobFits
    /\ \A p \in Procs : Follows(p)
    /\ notices > 0 => report # NoReport

\* Nobody in flight has read less than the whole.
Wholly(p) ==
    /\ pc[p] # "idle" => phase = "closed"
    /\ pc[p] = "results" => seen[p].phase = "closed"
    /\ pc[p] \in {"upsert", "render"} => Complete(seen[p])

Whole ==
    /\ \A p \in Procs : Wholly(p)
    /\ report # NoReport => Complete(report)
    /\ \A r \in shown : Complete(r)

ReportIInv == TypeOK /\ ReportFits /\ (~early => Whole) /\ Accounted

Labels == {"idle", "enqueue", "look", "load", "results", "upsert", "notify", "reread", "render"}

LEMMA ReportInitSound == Init => ReportIInv
<1> SUFFICES ASSUME Init PROVE ReportIInv
  OBVIOUS
<1>1. TypeOK
  <2>1. Ledger!TypeOK
    BY DEF Init, Ledger!Init, Ledger!TypeOK
  <2>2. report \in Contents /\ seen \in [Procs -> Contents]
    BY DEF Init, NoReport, Contents
  <2>3. job \in [state: {"none", "waiting", "active", "failed"},
                made: 0 .. Attempts, stalls: 0 .. MaxStalls + 1]
    BY DEF Init, NoJob, Attempts, MaxStalls
  <2>4. early = FALSE /\ shown = {} /\ {notices, closes, reads, faults, crashes} \subseteq Nat
    BY DEF Init
  <2>5. pc \in [Procs -> {"idle", "enqueue", "look", "load", "results", "upsert", "notify",
                         "reread", "render"}]
    BY DEF Init
  <2> QED
    BY <2>1, <2>2, <2>3, <2>4, <2>5 DEF TypeOK
<1>2. ReportFits
  BY DEF Init, ReportFits, Roles, JobFits, Follows, Ledger!Init, NoJob, Attempts, MaxStalls, Procs
<1>3. ~early => Whole
  BY DEF Init, Whole, Wholly
<1>4. Accounted
  <2>1. InFlight = {}
    BY DEF Init, InFlight, Flying
  <2>2. IsFiniteSet(InFlight) /\ Cardinality(InFlight) = 0
    BY <2>1, FS_EmptySet
  <2>3. notices = 0 /\ closes = 0 /\ reads = 0 /\ faults = 0 /\ crashes = 0
    BY DEF Init
  <2>4. One(Pending) = 0
    BY DEF Init, NoJob, Pending, One
  <2> QED
    BY <2>2, <2>3, <2>4 DEF Accounted
<1> QED
  BY <1>1, <1>2, <1>3, <1>4 DEF ReportIInv

\* What a process that moves does to the set of those in flight.
LEMMA FlightAfter ==
  ASSUME pc \in [Procs -> Labels], IsFiniteSet(InFlight), NEW p \in Procs, NEW l, Goto(p, l)
  PROVE  /\ IsFiniteSet(InFlight')
         /\ Cardinality(InFlight) \in Nat /\ Cardinality(InFlight') \in Nat
         /\ Cardinality(InFlight') + One(pc[p] \in Flying) = Cardinality(InFlight) + One(l \in Flying)
<1>1. \A o \in Procs : pc'[o] = IF o = p THEN l ELSE pc[o]
  BY DEF Goto
<1>2. p \in InFlight <=> pc[p] \in Flying
  BY DEF InFlight
<1>3. Cardinality(InFlight) \in Nat
  BY FS_CardinalityType
<1>4. CASE pc[p] \in Flying <=> l \in Flying
  <2>1. InFlight' = InFlight
    BY <1>1, <1>4 DEF InFlight, Flying
  <2> QED
    BY <2>1, <1>3, <1>4 DEF One
<1>5. CASE pc[p] \in Flying /\ l \notin Flying
  <2>1. InFlight' = InFlight \ {p}
    BY <1>1, <1>5 DEF InFlight, Flying
  <2>2. IsFiniteSet(InFlight') /\ Cardinality(InFlight') = Cardinality(InFlight) - 1
    BY <2>1, <1>2, <1>5, FS_RemoveElement
  <2>3. Cardinality(InFlight') \in Nat
    BY <2>2, FS_CardinalityType
  <2> QED
    BY <2>2, <2>3, <1>3, <1>5 DEF One
<1>6. CASE pc[p] \notin Flying /\ l \in Flying
  <2>1. InFlight' = InFlight \cup {p}
    BY <1>1, <1>6 DEF InFlight, Flying
  <2>2. IsFiniteSet(InFlight') /\ Cardinality(InFlight') = Cardinality(InFlight) + 1
    BY <2>1, <1>2, <1>6, FS_AddElement
  <2> QED
    BY <2>2, <1>3, <1>6 DEF One
<1> QED
  BY <1>4, <1>5, <1>6

LEMMA ReportTyped ==
  ASSUME TypeOK
  PROVE  /\ pc \in [Procs -> Labels]
         /\ seen \in [Procs -> Contents] /\ report \in Contents
         /\ \A c \in Contents : c = [phase |-> c.phase, scored |-> c.scored]
         /\ job.state \in {"none", "waiting", "active", "failed"}
         /\ job.made \in 0 .. 3 /\ job.stalls \in 0 .. 2
         /\ job = [state |-> job.state, made |-> job.made, stalls |-> job.stalls]
         /\ notices \in Nat /\ closes \in Nat /\ reads \in Nat /\ faults \in Nat /\ crashes \in Nat
         /\ phase \in {"none", "open", "closed"} /\ scored \subseteq Modules
         /\ recorded \subseteq Questions
         /\ shown \subseteq Contents
         /\ Finalisers \subseteq Procs /\ Worker \in Procs /\ Readers \subseteq Procs
BY DEF TypeOK, Labels, Contents, Attempts, MaxStalls, Ledger!TypeOK, Procs

\* A step that keeps what a process is at leaves those in flight alone.
LEMMA FlightStays ==
  ASSUME IsFiniteSet(InFlight), UNCHANGED pc
  PROVE  InFlight' = InFlight /\ IsFiniteSet(InFlight') /\ Cardinality(InFlight) \in Nat
BY FS_CardinalityType DEF InFlight

(***************************************************************************)
(* The attempt and its job                                                 *)
(***************************************************************************)
LEMMA SitSound == ReportIInv /\ Sit => ReportIInv'
<1> SUFFICES ASSUME ReportIInv, Sit PROVE ReportIInv'
  OBVIOUS
<1> USE DEF ReportIInv
<1>1. UNCHANGED <<report, job, notices, pc, seen, closes, reads, faults, crashes, early, shown>>
  BY DEF Sit, queue, env, history
<1>2. /\ Ledger!TypeOK'
      /\ phase' = phase \/ (phase = "none" /\ phase' = "open")
      /\ scored \subseteq scored'
  <2>1. CASE Ledger!Open
    BY <2>1, ReportTyped DEF Ledger!Open, Ledger!TypeOK
  <2>2. CASE \E q \in Questions : Ledger!Record(q)
    BY <2>2, ReportTyped DEF Ledger!Record, Ledger!TypeOK
  <2>3. CASE \E m \in Modules : Ledger!Score(m)
    BY <2>3, ReportTyped DEF Ledger!Score, Ledger!TypeOK
  <2> QED
    BY <2>1, <2>2, <2>3 DEF Sit
<1>3. TypeOK'
  BY <1>1, <1>2 DEF TypeOK
<1>4. ReportFits'
  <2>1. phase' = "closed" => scored' = Modules
    BY <1>2, <1>3 DEF ReportFits, TypeOK, Ledger!TypeOK
  <2>2. Roles'
    BY <1>1 DEF ReportFits, Roles
  <2>3. JobFits'
    BY <1>1, <1>2 DEF ReportFits, JobFits
  <2>4. \A p \in Procs : Follows(p)'
    BY <1>1, <1>2 DEF ReportFits, Follows
  <2> QED
    BY <1>1, <2>1, <2>2, <2>3, <2>4 DEF ReportFits
<1>5. ~early' => Whole'
  <2>1. \A p \in Procs : Wholly(p) => Wholly(p)'
    BY <1>1, <1>2 DEF Wholly, Complete
  <2> QED
    BY <1>1, <2>1 DEF Whole, Complete
<1>6. Accounted'
  <2>1. InFlight' = InFlight
    BY <1>1 DEF InFlight
  <2>2. One(Pending') = One(Pending)
    BY <1>1, <1>2 DEF Pending, One
  <2> QED
    BY <1>1, <2>1, <2>2 DEF Accounted, One
<1> QED
  BY <1>3, <1>4, <1>5, <1>6

LEMMA CloseSound ==
  ASSUME ReportIInv, NEW f \in Finalisers, Close(f) PROVE ReportIInv'
<1> USE DEF ReportIInv
<1>1. /\ UNCHANGED <<report, job, notices, seen, reads, faults, crashes, early, shown>>
      /\ closes' = closes + 1 /\ pc[f] = "idle" /\ Goto(f, "enqueue")
      /\ phase \in {"open", "closed"} /\ phase' = "closed"
      /\ scored = Modules /\ UNCHANGED <<recorded, scored>>
  BY DEF Close, Finalises, queue, history, Ledger!Close, attempt, ReportFits
<1>2. /\ f \in Procs
      /\ pc' \in [Procs -> Labels]
      /\ \A p \in Procs : pc'[p] = IF p = f THEN "enqueue" ELSE pc[p]
  BY <1>1, ReportTyped DEF Goto, Labels
<1>3. TypeOK'
  <2>1. {notices', closes', reads', faults', crashes'} \subseteq Nat
    BY <1>1, ReportTyped
  <2>2. Ledger!TypeOK'
    BY <1>1, ReportTyped DEF Ledger!TypeOK
  <2> QED
    BY <1>1, <1>2, <2>1, <2>2 DEF TypeOK, Labels
<1>4. ReportFits'
  <2>1. Roles'
    BY <1>2, ReportTyped, ActorsAssumption DEF ReportFits, Roles
  <2>2. JobFits'
    BY <1>1, <1>2, ReportTyped, ActorsAssumption DEF ReportFits, JobFits
  <2>3. \A p \in Procs : Follows(p)'
    BY <1>1, <1>2 DEF ReportFits, Follows
  <2> QED
    BY <1>1, <2>1, <2>2, <2>3 DEF ReportFits
<1>5. ~early' => Whole'
  <2>1. \A p \in Procs : Wholly(p) => Wholly(p)'
    BY <1>1, <1>2 DEF Wholly, Complete
  <2> QED
    BY <1>1, <2>1 DEF Whole, Complete
<1>6. Accounted'
  <2>1. /\ IsFiniteSet(InFlight')
        /\ Cardinality(InFlight) \in Nat /\ Cardinality(InFlight') = Cardinality(InFlight) + 1
    BY <1>1, <1>2, FlightAfter, ReportTyped DEF Accounted, One, Flying
  <2>2. One(Pending') = One(Pending) /\ One(Pending) \in Nat
    BY <1>1 DEF Pending, One
  <2> QED
    BY <1>1, <2>1, <2>2, ReportTyped DEF Accounted
<1> QED
  BY <1>3, <1>4, <1>5, <1>6

LEMMA EnqueueReportSound ==
  ASSUME ReportIInv, NEW f \in Finalisers, EnqueueReport(f) PROVE ReportIInv'
<1> USE DEF ReportIInv
<1>1. /\ UNCHANGED <<phase, recorded, scored, report, notices, closes, reads, faults, crashes, early,
                     shown>>
      /\ Goto(f, "idle") /\ seen' = [seen EXCEPT ![f] = NoReport]
      /\ pc[f] = "enqueue"
  BY DEF EnqueueReport, attempt, env, history, Done
<1>2. f \in Procs /\ f # Worker /\ phase = "closed"
  BY <1>1, ReportTyped, ActorsAssumption DEF ReportFits, JobFits
<1>3. \/ job.state # "none" /\ job' = job
      \/ job.state = "none" /\ job' = [state |-> "waiting", made |-> 0, stalls |-> 0]
  BY DEF EnqueueReport, NoJob
<1>4. /\ pc' \in [Procs -> Labels]
      /\ \A p \in Procs : pc'[p] = IF p = f THEN "idle" ELSE pc[p]
  BY <1>1, <1>2, ReportTyped DEF Goto, Labels
<1>5. /\ seen' \in [Procs -> Contents]
      /\ \A p \in Procs : p # f => seen'[p] = seen[p]
  BY <1>1, ReportTyped DEF NoReport, Contents
<1>6. TypeOK'
  <2>1. job' \in [state: {"none", "waiting", "active", "failed"},
                  made: 0 .. Attempts, stalls: 0 .. MaxStalls + 1]
    BY <1>3, ReportTyped DEF Attempts, MaxStalls, TypeOK
  <2> QED
    BY <1>1, <1>4, <1>5, <2>1 DEF TypeOK, Labels, Ledger!TypeOK
<1>7. ReportFits'
  <2>1. Roles'
    BY <1>4, ReportTyped, ActorsAssumption DEF ReportFits, Roles
  <2>2. JobFits'
    BY <1>1, <1>2, <1>3, <1>4, ReportTyped, ActorsAssumption
       DEF ReportFits, JobFits, Attempts, MaxStalls
  <2>3. \A p \in Procs : Follows(p)'
    BY <1>1, <1>4, <1>5 DEF ReportFits, Follows
  <2> QED
    BY <1>1, <2>1, <2>2, <2>3 DEF ReportFits
<1>8. ~early' => Whole'
  <2>1. \A p \in Procs : Wholly(p) => Wholly(p)'
    BY <1>1, <1>4, <1>5 DEF Wholly, Complete
  <2> QED
    BY <1>1, <2>1 DEF Whole, Complete
<1>9. Accounted'
  <2>1. /\ IsFiniteSet(InFlight')
        /\ Cardinality(InFlight') \in Nat /\ Cardinality(InFlight) = Cardinality(InFlight') + 1
    BY <1>1, <1>2, FlightAfter, ReportTyped DEF Accounted, One, Flying
  <2>2. One(Pending') <= One(Pending) + 1 /\ One(Pending) \in Nat /\ One(Pending') \in Nat
    BY DEF One
  <2> QED
    BY <1>1, <2>1, <2>2, ReportTyped DEF Accounted
<1> QED
  BY <1>6, <1>7, <1>8, <1>9

LEMMA JobStartsSound == ReportIInv /\ JobStarts => ReportIInv'
<1> SUFFICES ASSUME ReportIInv, JobStarts PROVE ReportIInv'
  OBVIOUS
<1> USE DEF ReportIInv
<1>1. /\ UNCHANGED <<phase, recorded, scored, report, notices, seen, closes, reads, faults, crashes, early,
                     shown>>
      /\ Goto(Worker, "load")
      /\ pc[Worker] = "idle" /\ job.state = "waiting"
  BY DEF JobStarts, attempt, env, history
<1>2. job' = [state |-> "active", made |-> job.made + 1, stalls |-> job.stalls]
  BY ReportTyped DEF JobStarts
<1>3. /\ phase = "closed" /\ job.made < 3 /\ job.stalls <= 1
      /\ scored = Modules
  BY <1>1, ReportTyped DEF ReportFits, JobFits, Attempts, MaxStalls
<1>4. /\ pc' \in [Procs -> Labels]
      /\ \A p \in Procs : pc'[p] = IF p = Worker THEN "load" ELSE pc[p]
  BY <1>1, ReportTyped DEF Goto, Labels
<1>5. TypeOK'
  <2>1. job' \in [state: {"none", "waiting", "active", "failed"},
                  made: 0 .. Attempts, stalls: 0 .. MaxStalls + 1]
    BY <1>2, <1>3, ReportTyped DEF Attempts, MaxStalls
  <2> QED
    BY <1>1, <1>4, <2>1 DEF TypeOK, Labels, Ledger!TypeOK
<1>6. ReportFits'
  <2>1. Roles'
    BY <1>4, ReportTyped, ActorsAssumption DEF ReportFits, Roles
  <2>2. JobFits'
    BY <1>1, <1>2, <1>3, <1>4, ReportTyped, ActorsAssumption DEF JobFits, Attempts, MaxStalls
  <2>3. \A p \in Procs : Follows(p)'
    BY <1>1, <1>3, <1>4 DEF ReportFits, Follows
  <2> QED
    BY <1>1, <1>3, <2>1, <2>2, <2>3 DEF ReportFits
<1>7. ~early' => Whole'
  <2>1. \A p \in Procs : Wholly(p) => Wholly(p)'
    BY <1>1, <1>3, <1>4 DEF Wholly, Complete
  <2> QED
    BY <1>1, <2>1 DEF Whole, Complete
<1>8. Accounted'
  <2>1. IsFiniteSet(InFlight') /\ Cardinality(InFlight') = Cardinality(InFlight) + 1
        /\ Cardinality(InFlight) \in Nat
    BY <1>1, FlightAfter, ReportTyped DEF Accounted, One, Flying
  <2>2. One(Pending') = 0 /\ One(Pending) = 1
    BY <1>1, <1>2, <1>3, <1>4, ReportTyped, ActorsAssumption DEF Pending, One
  <2> QED
    BY <1>1, <2>1, <2>2, ReportTyped DEF Accounted
<1> QED
  BY <1>5, <1>6, <1>7, <1>8

(***************************************************************************)
(* A process that moves: what it must respect                              *)
(***************************************************************************)
\* What a step that takes p to l leaves as it should be.
StaysTyped ==
    /\ UNCHANGED attempt
    /\ seen' \in [Procs -> Contents] /\ report' \in Contents /\ shown' \subseteq Contents
    /\ notices' \in Nat /\ closes' = closes /\ reads' \in Nat /\ faults' \in Nat /\ crashes' \in Nat
    /\ early' \in BOOLEAN

StaysInPart(p, l) ==
    /\ \A o \in Procs : o # p => seen'[o] = seen[o]
    /\ p \in Finalisers => l = "idle"
    /\ p = Worker => l \notin {"enqueue", "look", "render"}
    /\ p \in Readers => l # "enqueue"
    /\ Follows(p)'
    /\ report # NoReport => report' # NoReport
    /\ notices' > 0 => report' # NoReport

StaysWhole(p) ==
    /\ early => early'
    /\ ~early' /\ Whole => /\ Wholly(p)'
                           /\ report' # report => Complete(report')
                           /\ \A r \in shown' \ shown : Complete(r)

StaysAccounted(p, l) ==
    One(l \in Flying) + notices' + reads + faults + crashes
        <= One(pc[p] \in Flying) + notices + reads' + faults' + crashes'

LEMMA ProcessMoves ==
  ASSUME ReportIInv, NEW p \in Procs, NEW l \in Labels, Goto(p, l),
         job' \in [state: {"none", "waiting", "active", "failed"},
                  made: 0 .. Attempts, stalls: 0 .. MaxStalls + 1],
         JobFits', StaysTyped, StaysInPart(p, l), StaysWhole(p),
         One(Pending') + One(l \in Flying) + notices' + reads + faults + crashes
            <= One(Pending) + One(pc[p] \in Flying) + notices + reads' + faults' + crashes'
  PROVE  ReportIInv'
<1> USE DEF ReportIInv, StaysTyped, StaysInPart, StaysWhole
<1>1. /\ pc' \in [Procs -> Labels]
      /\ \A o \in Procs : pc'[o] = IF o = p THEN l ELSE pc[o]
  BY ReportTyped DEF Goto, Labels
<1>2. TypeOK'
  <2>1. Ledger!TypeOK'
    BY DEF TypeOK, Ledger!TypeOK, attempt
  <2>3. {notices', closes', reads', faults', crashes'} \subseteq Nat
    BY ReportTyped
  <2> QED
    BY <1>1, <2>1, <2>3 DEF TypeOK, Labels
<1>3. ReportFits'
  <2>1. Roles'
    BY <1>1, ReportTyped, ActorsAssumption DEF ReportFits, Roles
  <2>3. ASSUME NEW o \in Procs, o # p PROVE Follows(o)'
    BY <1>1, <2>3 DEF ReportFits, Follows, attempt
  <2> QED
    BY <2>1, <2>3 DEF ReportFits, attempt
<1>4. ~early' => Whole'
  <2> SUFFICES ASSUME ~early' PROVE Whole'
    OBVIOUS
  <2>1. Whole
    OBVIOUS
  <2>2. ASSUME NEW o \in Procs, o # p PROVE Wholly(o)'
    BY <1>1, <2>1, <2>2 DEF Whole, Wholly, Complete, attempt
  <2> QED
    BY <2>1, <2>2 DEF Whole, Complete
<1>5. Accounted'
  <2>1. /\ IsFiniteSet(InFlight')
        /\ Cardinality(InFlight) \in Nat /\ Cardinality(InFlight') \in Nat
        /\ Cardinality(InFlight') + One(pc[p] \in Flying) = Cardinality(InFlight) + One(l \in Flying)
    BY FlightAfter, ReportTyped DEF Accounted
  <2>3. One(Pending) \in Nat /\ One(Pending') \in Nat
        /\ One(pc[p] \in Flying) \in Nat /\ One(l \in Flying) \in Nat
    BY DEF One
  <2>4. Cardinality(InFlight) + notices + One(Pending) <= closes + reads + faults + crashes
    BY DEF Accounted
  <2>5. Cardinality(InFlight') + notices' + One(Pending') <= closes' + reads' + faults' + crashes'
    BY <2>1, <2>3, <2>4, ReportTyped
  <2> QED
    BY <2>1, <2>5 DEF Accounted
<1> QED
  BY <1>2, <1>3, <1>4, <1>5

\* The same while the job stays as it is.
LEMMA ProcessMovesAlone ==
  ASSUME ReportIInv, NEW p \in Procs, NEW l \in Labels, Goto(p, l),
         UNCHANGED job, p = Worker => l # "idle" /\ pc[p] # "idle",
         StaysTyped, StaysInPart(p, l), StaysWhole(p), StaysAccounted(p, l)
  PROVE  ReportIInv'
<1>1. /\ pc' \in [Procs -> Labels]
      /\ \A o \in Procs : pc'[o] = IF o = p THEN l ELSE pc[o]
  BY ReportTyped DEF Goto, Labels, ReportIInv
<1>2. JobFits'
  BY <1>1, ReportTyped, ActorsAssumption
     DEF ReportIInv, ReportFits, JobFits, attempt, StaysTyped, StaysInPart
<1>3. Pending' => Pending
  BY <1>1, ReportTyped DEF ReportIInv, Pending, attempt, StaysTyped, StaysInPart
<1>4. One(Pending') <= One(Pending) /\ One(Pending) \in Nat /\ One(Pending') \in Nat
      /\ One(pc[p] \in Flying) \in Nat /\ One(l \in Flying) \in Nat
  BY <1>3 DEF One
<1>5. job' \in [state: {"none", "waiting", "active", "failed"},
               made: 0 .. Attempts, stalls: 0 .. MaxStalls + 1]
  BY DEF ReportIInv, TypeOK
<1>6. One(Pending') + One(l \in Flying) + notices' + reads + faults + crashes
        <= One(Pending) + One(pc[p] \in Flying) + notices + reads' + faults' + crashes'
  BY <1>4, ReportTyped DEF ReportIInv, StaysAccounted, StaysTyped
<1> QED
  BY <1>2, <1>5, <1>6, ProcessMoves

(***************************************************************************)
(* summary, regenerate and generate                                        *)
(***************************************************************************)
LEMMA AskSound ==
  ASSUME ReportIInv, NEW r \in Readers, NEW l \in {"look", "load"}, Ask(r, l) PROVE ReportIInv'
<1>1. /\ UNCHANGED <<attempt, report, job, notices, seen, closes, faults, crashes, shown>>
      /\ reads' = reads + 1 /\ early' = (early \/ phase = "open")
      /\ Goto(r, l) /\ pc[r] = "idle" /\ phase # "none"
  BY DEF Ask, queue
<1>2. /\ r \in Procs /\ r # Worker /\ r \notin Finalisers /\ l \in Labels
      /\ pc'[r] = l
  BY <1>1, ReportTyped, ActorsAssumption DEF Labels, ReportIInv, Goto
<1>3. Follows(r)'
  BY <1>1, <1>2 DEF Follows, attempt
<1>4. ASSUME ~early' PROVE Wholly(r)'
  <2>1. phase = "closed"
    BY <1>1, <1>4, ReportTyped DEF ReportIInv
  <2> QED
    BY <1>1, <1>2, <2>1 DEF Wholly, attempt
<1>5. One(l \in Flying) = 1 /\ One(pc[r] \in Flying) = 0
  BY <1>1 DEF One, Flying
<1>6. early' \in BOOLEAN /\ (early => early')
  BY <1>1 DEF ReportIInv, TypeOK
<1>7. notices' > 0 => report' # NoReport
  BY <1>1 DEF ReportIInv, ReportFits
<1>8. StaysTyped
  <2>1. notices' \in Nat /\ closes' = closes /\ reads' \in Nat /\ faults' \in Nat /\ crashes' \in Nat
    BY <1>1, ReportTyped DEF ReportIInv
  <2>2. seen' \in [Procs -> Contents] /\ report' \in Contents /\ shown' \subseteq Contents
    BY <1>1, <1>2, <1>3, <1>4, <1>5, <1>6, <1>7, ReportTyped DEF ReportIInv
  <2>3. UNCHANGED attempt
    BY <1>1
  <2> QED
    BY <1>6, <2>1, <2>2, <2>3 DEF StaysTyped
<1>9. StaysInPart(r, l)
  BY <1>1, <1>2, <1>3, <1>4, <1>5, <1>6, <1>7 DEF StaysInPart
<1>10. StaysWhole(r)
  BY <1>1, <1>2, <1>3, <1>4, <1>5, <1>6, <1>7 DEF StaysWhole
<1>11. StaysAccounted(r, l)
  BY <1>1, <1>2, <1>3, <1>4, <1>5, <1>6, <1>7, ReportTyped DEF StaysAccounted, ReportIInv
<1> QED
  BY <1>1, <1>2, <1>8, <1>9, <1>10, <1>11, ProcessMovesAlone

LEMMA LookSound ==
  ASSUME ReportIInv, NEW r \in Readers, Look(r) PROVE ReportIInv'
<1> DEFINE l == IF report = NoReport THEN "load" ELSE "render"
<1>1. /\ UNCHANGED <<attempt, report, job, notices, closes, reads, faults, crashes, early, shown>>
      /\ seen' = [seen EXCEPT ![r] = report]
      /\ Goto(r, l) /\ pc[r] = "look"
  BY DEF Look, queue, env, history
<1>2. /\ r \in Procs /\ r # Worker /\ r \notin Finalisers /\ l \in Labels
      /\ pc'[r] = l /\ seen'[r] = report
  BY <1>1, ReportTyped, ActorsAssumption DEF Labels, ReportIInv, Goto
<1>3. Follows(r)'
  BY <1>1, <1>2 DEF Follows, attempt, ReportIInv, ReportFits
<1>4. ASSUME Whole PROVE Wholly(r)'
  BY <1>1, <1>2, <1>4 DEF Wholly, Whole, Complete, attempt
<1>5. One(l \in Flying) <= 1 /\ One(pc[r] \in Flying) = 1 /\ One(l \in Flying) \in Nat
  BY <1>1 DEF One, Flying
<1>6. seen' \in [Procs -> Contents] /\ \A o \in Procs : o # r => seen'[o] = seen[o]
  BY <1>1, ReportTyped DEF ReportIInv
<1>7. notices' > 0 => report' # NoReport
  BY <1>1 DEF ReportIInv, ReportFits
<1>8. early' \in BOOLEAN /\ (early => early')
  BY <1>1 DEF ReportIInv, TypeOK
<1>9. r \in Readers => l # "enqueue"
  OBVIOUS
<1> HIDE DEF l
<1>10. StaysTyped
  <2>1. notices' \in Nat /\ closes' = closes /\ reads' \in Nat /\ faults' \in Nat /\ crashes' \in Nat
    BY <1>1, ReportTyped DEF ReportIInv
  <2>2. seen' \in [Procs -> Contents] /\ report' \in Contents /\ shown' \subseteq Contents
    BY <1>1, <1>2, <1>3, <1>4, <1>5, <1>6, <1>7, <1>8, <1>9, ReportTyped DEF ReportIInv
  <2>3. UNCHANGED attempt
    BY <1>1
  <2> QED
    BY <1>8, <2>1, <2>2, <2>3 DEF StaysTyped
<1>11. StaysInPart(r, l)
  BY <1>1, <1>2, <1>3, <1>4, <1>5, <1>6, <1>7, <1>8, <1>9 DEF StaysInPart
<1>12. StaysWhole(r)
  BY <1>1, <1>2, <1>3, <1>4, <1>5, <1>6, <1>7, <1>8, <1>9 DEF StaysWhole
<1>13. StaysAccounted(r, l)
  BY <1>1, <1>2, <1>3, <1>4, <1>5, <1>6, <1>7, <1>8, <1>9, ReportTyped DEF StaysAccounted, ReportIInv
<1> QED
  BY <1>1, <1>2, <1>10, <1>11, <1>12, <1>13, ProcessMovesAlone

LEMMA RenderSound ==
  ASSUME ReportIInv, NEW r \in Readers, Render(r) PROVE ReportIInv'
<1>1. /\ UNCHANGED <<attempt, report, job, notices, closes, reads, faults, crashes, early>>
      /\ shown' = shown \cup {seen[r]} /\ seen' = [seen EXCEPT ![r] = NoReport]
      /\ Goto(r, "idle") /\ pc[r] = "render"
  BY DEF Render, queue, env, Done
<1>2. /\ r \in Procs /\ r # Worker /\ r \notin Finalisers /\ "idle" \in Labels
      /\ pc'[r] = "idle" /\ seen[r] \in Contents /\ NoReport \in Contents
  BY <1>1, ReportTyped, ActorsAssumption DEF Labels, ReportIInv, Goto, NoReport, Contents
<1>3. Follows(r)' /\ Wholly(r)'
  BY <1>2 DEF Follows, Wholly
<1>4. ASSUME Whole PROVE \A c \in shown' \ shown : Complete(c)
  BY <1>1, <1>2, <1>4 DEF Wholly, Whole
<1>5. One("idle" \in Flying) = 0 /\ One(pc[r] \in Flying) = 0
  BY <1>1 DEF One, Flying
<1>6. seen' \in [Procs -> Contents] /\ \A o \in Procs : o # r => seen'[o] = seen[o]
  BY <1>1, <1>2, ReportTyped DEF ReportIInv
<1>7. notices' > 0 => report' # NoReport
  BY <1>1 DEF ReportIInv, ReportFits
<1>8. shown' \subseteq Contents /\ early' \in BOOLEAN /\ (early => early')
  BY <1>1, <1>2 DEF ReportIInv, TypeOK
<1>9. StaysTyped
  <2>1. notices' \in Nat /\ closes' = closes /\ reads' \in Nat /\ faults' \in Nat /\ crashes' \in Nat
    BY <1>1, ReportTyped DEF ReportIInv
  <2>2. seen' \in [Procs -> Contents] /\ report' \in Contents /\ shown' \subseteq Contents
    BY <1>1, <1>2, <1>3, <1>4, <1>5, <1>6, <1>7, <1>8, ReportTyped DEF ReportIInv
  <2>3. UNCHANGED attempt
    BY <1>1
  <2> QED
    BY <1>8, <2>1, <2>2, <2>3 DEF StaysTyped
<1>10. StaysInPart(r, "idle")
  BY <1>1, <1>2, <1>3, <1>4, <1>5, <1>6, <1>7, <1>8 DEF StaysInPart
<1>11. StaysWhole(r)
  BY <1>1, <1>2, <1>3, <1>4, <1>5, <1>6, <1>7, <1>8 DEF StaysWhole
<1>12. StaysAccounted(r, "idle")
  BY <1>1, <1>2, <1>3, <1>4, <1>5, <1>6, <1>7, <1>8, ReportTyped DEF StaysAccounted, ReportIInv
<1> QED
  BY <1>1, <1>2, <1>9, <1>10, <1>11, <1>12, ProcessMovesAlone

LEMMA LoadSessionSound ==
  ASSUME ReportIInv, NEW p \in Procs, LoadSession(p) PROVE ReportIInv'
<1>1. /\ UNCHANGED <<attempt, report, job, notices, closes, reads, faults, crashes, early, shown>>
      /\ seen' = [seen EXCEPT ![p].phase = phase]
      /\ Goto(p, "results") /\ pc[p] = "load"
  BY DEF LoadSession, queue, env, history
<1>2. /\ p \notin Finalisers /\ "results" \in Labels /\ phase # "none"
      /\ pc'[p] = "results" /\ seen'[p].phase = phase /\ seen'[p] \in Contents
  BY <1>1, ReportTyped DEF Labels, ReportIInv, ReportFits, Roles, Follows, Goto, Contents
<1>3. Follows(p)'
  BY <1>1, <1>2 DEF Follows, attempt
<1>4. ASSUME Whole PROVE Wholly(p)'
  BY <1>1, <1>2, <1>4 DEF Wholly, Whole, attempt
<1>5. One("results" \in Flying) = 1 /\ One(pc[p] \in Flying) = 1
  BY <1>1 DEF One, Flying
<1>6. seen' \in [Procs -> Contents] /\ \A o \in Procs : o # p => seen'[o] = seen[o]
  BY <1>1, <1>2, ReportTyped DEF ReportIInv
<1>7. notices' > 0 => report' # NoReport
  BY <1>1 DEF ReportIInv, ReportFits
<1>8. early' \in BOOLEAN /\ (early => early')
  BY <1>1 DEF ReportIInv, TypeOK
<1>9. StaysTyped
  <2>1. notices' \in Nat /\ closes' = closes /\ reads' \in Nat /\ faults' \in Nat /\ crashes' \in Nat
    BY <1>1, ReportTyped DEF ReportIInv
  <2>2. seen' \in [Procs -> Contents] /\ report' \in Contents /\ shown' \subseteq Contents
    BY <1>1, <1>2, <1>3, <1>4, <1>5, <1>6, <1>7, <1>8, ReportTyped DEF ReportIInv
  <2>3. UNCHANGED attempt
    BY <1>1
  <2> QED
    BY <1>8, <2>1, <2>2, <2>3 DEF StaysTyped
<1>10. StaysInPart(p, "results")
  BY <1>1, <1>2, <1>3, <1>4, <1>5, <1>6, <1>7, <1>8 DEF StaysInPart
<1>11. StaysWhole(p)
  BY <1>1, <1>2, <1>3, <1>4, <1>5, <1>6, <1>7, <1>8 DEF StaysWhole
<1>12. StaysAccounted(p, "results")
  BY <1>1, <1>2, <1>3, <1>4, <1>5, <1>6, <1>7, <1>8, ReportTyped DEF StaysAccounted, ReportIInv
<1> QED
  BY <1>1, <1>2, <1>9, <1>10, <1>11, <1>12, ProcessMovesAlone

LEMMA LoadResultsSound ==
  ASSUME ReportIInv, NEW p \in Procs, LoadResults(p) PROVE ReportIInv'
<1>1. /\ UNCHANGED <<attempt, report, job, notices, closes, reads, faults, crashes, early, shown>>
      /\ seen' = [seen EXCEPT ![p].scored = scored]
      /\ Goto(p, "upsert") /\ pc[p] = "results"
  BY DEF LoadResults, queue, env, history
<1>2. /\ p \notin Finalisers /\ "upsert" \in Labels
      /\ pc'[p] = "upsert" /\ seen'[p].scored = scored /\ seen'[p].phase = seen[p].phase
      /\ seen'[p] \in Contents
  BY <1>1, ReportTyped DEF Labels, ReportIInv, ReportFits, Roles, Goto, Contents
<1>3. Follows(p)'
  BY <1>1, <1>2 DEF Follows, attempt, ReportIInv, ReportFits
<1>4. ASSUME Whole PROVE Wholly(p)'
  BY <1>1, <1>2, <1>4 DEF Wholly, Whole, attempt, Complete, ReportIInv, ReportFits
<1>5. One("upsert" \in Flying) = 1 /\ One(pc[p] \in Flying) = 1
  BY <1>1 DEF One, Flying
<1>6. seen' \in [Procs -> Contents] /\ \A o \in Procs : o # p => seen'[o] = seen[o]
  BY <1>1, <1>2, ReportTyped DEF ReportIInv
<1>7. notices' > 0 => report' # NoReport
  BY <1>1 DEF ReportIInv, ReportFits
<1>8. early' \in BOOLEAN /\ (early => early')
  BY <1>1 DEF ReportIInv, TypeOK
<1>9. StaysTyped
  <2>1. notices' \in Nat /\ closes' = closes /\ reads' \in Nat /\ faults' \in Nat /\ crashes' \in Nat
    BY <1>1, ReportTyped DEF ReportIInv
  <2>2. seen' \in [Procs -> Contents] /\ report' \in Contents /\ shown' \subseteq Contents
    BY <1>1, <1>2, <1>3, <1>4, <1>5, <1>6, <1>7, <1>8, ReportTyped DEF ReportIInv
  <2>3. UNCHANGED attempt
    BY <1>1
  <2> QED
    BY <1>8, <2>1, <2>2, <2>3 DEF StaysTyped
<1>10. StaysInPart(p, "upsert")
  BY <1>1, <1>2, <1>3, <1>4, <1>5, <1>6, <1>7, <1>8 DEF StaysInPart
<1>11. StaysWhole(p)
  BY <1>1, <1>2, <1>3, <1>4, <1>5, <1>6, <1>7, <1>8 DEF StaysWhole
<1>12. StaysAccounted(p, "upsert")
  BY <1>1, <1>2, <1>3, <1>4, <1>5, <1>6, <1>7, <1>8, ReportTyped DEF StaysAccounted, ReportIInv
<1> QED
  BY <1>1, <1>2, <1>9, <1>10, <1>11, <1>12, ProcessMovesAlone

LEMMA UpsertSound ==
  ASSUME ReportIInv, NEW p \in Procs, Upsert(p) PROVE ReportIInv'
<1>1. /\ UNCHANGED <<attempt, job, notices, seen, closes, reads, faults, crashes, early, shown>>
      /\ report' = seen[p]
      /\ Goto(p, "notify") /\ pc[p] = "upsert"
  BY DEF Upsert, queue, env, history
<1>2. /\ p \notin Finalisers /\ "notify" \in Labels
      /\ pc'[p] = "notify" /\ seen[p] \in Contents /\ seen[p].phase # "none"
  BY <1>1, ReportTyped DEF Labels, ReportIInv, ReportFits, Roles, Goto, Follows
<1>3. report' # NoReport
  BY <1>1, <1>2 DEF NoReport
<1>4. Follows(p)'
  BY <1>1, <1>2, <1>3 DEF Follows, attempt, ReportIInv, ReportFits
<1>5. ASSUME Whole PROVE Wholly(p)' /\ Complete(report')
  BY <1>1, <1>2, <1>5 DEF Wholly, Whole, attempt, Complete
<1>6. One("notify" \in Flying) = 1 /\ One(pc[p] \in Flying) = 1
  BY <1>1 DEF One, Flying
<1>7. early' \in BOOLEAN /\ (early => early')
  BY <1>1 DEF ReportIInv, TypeOK
<1>8. StaysTyped
  <2>1. notices' \in Nat /\ closes' = closes /\ reads' \in Nat /\ faults' \in Nat /\ crashes' \in Nat
    BY <1>1, ReportTyped DEF ReportIInv
  <2>2. seen' \in [Procs -> Contents] /\ report' \in Contents /\ shown' \subseteq Contents
    BY <1>1, <1>2, <1>3, <1>4, <1>5, <1>6, <1>7, ReportTyped DEF ReportIInv
  <2>3. UNCHANGED attempt
    BY <1>1
  <2> QED
    BY <1>7, <2>1, <2>2, <2>3 DEF StaysTyped
<1>9. StaysInPart(p, "notify")
  BY <1>1, <1>2, <1>3, <1>4, <1>5, <1>6, <1>7 DEF StaysInPart
<1>10. StaysWhole(p)
  BY <1>1, <1>2, <1>3, <1>4, <1>5, <1>6, <1>7 DEF StaysWhole
<1>11. StaysAccounted(p, "notify")
  BY <1>1, <1>2, <1>3, <1>4, <1>5, <1>6, <1>7, ReportTyped DEF StaysAccounted, ReportIInv
<1> QED
  BY <1>1, <1>2, <1>8, <1>9, <1>10, <1>11, ProcessMovesAlone

LEMMA NotifySound ==
  ASSUME ReportIInv, NEW p \in Procs, Notify(p) PROVE ReportIInv'
<1>1. /\ UNCHANGED <<attempt, report, job, seen, closes, reads, faults, crashes, early, shown>>
      /\ notices' = notices + 1
      /\ Goto(p, "reread") /\ pc[p] = "notify"
  BY DEF Notify, env, history
<1>2. /\ p \notin Finalisers /\ "reread" \in Labels
      /\ pc'[p] = "reread" /\ report # NoReport
  BY <1>1, ReportTyped DEF Labels, ReportIInv, ReportFits, Roles, Goto, Follows
<1>3. Follows(p)'
  BY <1>1, <1>2 DEF Follows, attempt, ReportIInv, ReportFits
<1>4. ASSUME Whole PROVE Wholly(p)'
  BY <1>1, <1>2, <1>4 DEF Wholly, Whole, attempt
<1>5. One("reread" \in Flying) = 0 /\ One(pc[p] \in Flying) = 1
  BY <1>1 DEF One, Flying
<1>6. early' \in BOOLEAN /\ (early => early')
  BY <1>1 DEF ReportIInv, TypeOK
<1>7. StaysTyped
  <2>1. notices' \in Nat /\ closes' = closes /\ reads' \in Nat /\ faults' \in Nat /\ crashes' \in Nat
    BY <1>1, ReportTyped DEF ReportIInv
  <2>2. seen' \in [Procs -> Contents] /\ report' \in Contents /\ shown' \subseteq Contents
    BY <1>1, <1>2, <1>3, <1>4, <1>5, <1>6, ReportTyped DEF ReportIInv
  <2>3. UNCHANGED attempt
    BY <1>1
  <2> QED
    BY <1>6, <2>1, <2>2, <2>3 DEF StaysTyped
<1>8. StaysInPart(p, "reread")
  BY <1>1, <1>2, <1>3, <1>4, <1>5, <1>6 DEF StaysInPart
<1>9. StaysWhole(p)
  BY <1>1, <1>2, <1>3, <1>4, <1>5, <1>6 DEF StaysWhole
<1>10. StaysAccounted(p, "reread")
  BY <1>1, <1>2, <1>3, <1>4, <1>5, <1>6, ReportTyped DEF StaysAccounted, ReportIInv
<1> QED
  BY <1>1, <1>2, <1>7, <1>8, <1>9, <1>10, ProcessMovesAlone

LEMMA RereadSound ==
  ASSUME ReportIInv, NEW p \in Procs, Reread(p) PROVE ReportIInv'
<1>1. /\ UNCHANGED <<attempt, report, notices, closes, reads, faults, crashes, early, shown>>
      /\ pc[p] = "reread"
  BY DEF Reread, env, history
<1>2. /\ p \notin Finalisers /\ {"idle", "render"} \subseteq Labels
      /\ NoReport \in Contents /\ report \in Contents
      /\ notices' > 0 => report' # NoReport
      /\ report # NoReport => report' # NoReport
      /\ early' \in BOOLEAN /\ (early => early')
  BY <1>1, ReportTyped DEF Labels, ReportIInv, ReportFits, Roles, NoReport, Contents, TypeOK
<1>3. One(pc[p] \in Flying) = 0 /\ One("idle" \in Flying) = 0 /\ One("render" \in Flying) = 0
  BY <1>1 DEF One, Flying
<1>4. CASE p = Worker
  <2>1. job' = NoJob /\ Goto(p, "idle") /\ seen' = [seen EXCEPT ![p] = NoReport]
    BY <1>4 DEF Reread, Done
  <2>2. /\ \A o \in Procs : pc'[o] = IF o = p THEN "idle" ELSE pc[o]
        /\ seen' \in [Procs -> Contents] /\ \A o \in Procs : o # p => seen'[o] = seen[o]
    BY <2>1, <1>2, ReportTyped DEF Goto, ReportIInv
  <2>3. JobFits'
    BY <1>1, <1>4, <2>1, <2>2, ReportTyped, ActorsAssumption
       DEF JobFits, NoJob, ReportIInv, ReportFits, attempt
  <2>4. job' \in [state: {"none", "waiting", "active", "failed"},
                  made: 0 .. Attempts, stalls: 0 .. MaxStalls + 1]
    BY <2>1 DEF NoJob, Attempts, MaxStalls
  <2>5. /\ One(Pending') <= One(Pending) /\ One(Pending) \in Nat /\ One(Pending') \in Nat
    BY <1>1, <1>4, <2>1, <2>2, ReportTyped, ActorsAssumption DEF Pending, One, NoJob, attempt, ReportIInv
  <2>6. StaysTyped
    <3>1. notices' \in Nat /\ closes' = closes /\ reads' \in Nat /\ faults' \in Nat /\ crashes' \in Nat
      BY <1>1, ReportTyped DEF ReportIInv
    <3>2. report' \in Contents /\ shown' \subseteq Contents
      BY <1>1, ReportTyped DEF ReportIInv
    <3> QED
      BY <1>1, <1>2, <2>2, <3>1, <3>2 DEF StaysTyped
  <2>7. StaysInPart(p, "idle") /\ StaysWhole(p)
    BY <1>1, <1>2, <1>4, <2>2, ActorsAssumption DEF StaysInPart, StaysWhole, Follows, Wholly
  <2>8. One(Pending') + One("idle" \in Flying) + notices' + reads + faults + crashes
            <= One(Pending) + One(pc[p] \in Flying) + notices + reads' + faults' + crashes'
    BY <1>1, <1>3, <2>5, ReportTyped DEF ReportIInv
  <2> QED
    BY <1>2, <2>1, <2>3, <2>4, <2>6, <2>7, <2>8, ProcessMoves
<1>5. CASE p # Worker
  <2>1. UNCHANGED job /\ Goto(p, "render") /\ seen' = [seen EXCEPT ![p] = report]
    BY <1>5 DEF Reread
  <2>2. /\ pc'[p] = "render" /\ seen'[p] = report
        /\ seen' \in [Procs -> Contents] /\ \A o \in Procs : o # p => seen'[o] = seen[o]
    BY <2>1, <1>2, ReportTyped DEF Goto, ReportIInv
  <2>3. StaysTyped
    <3>1. notices' \in Nat /\ closes' = closes /\ reads' \in Nat /\ faults' \in Nat /\ crashes' \in Nat
      BY <1>1, ReportTyped DEF ReportIInv
    <3>2. report' \in Contents /\ shown' \subseteq Contents
      BY <1>1, ReportTyped DEF ReportIInv
    <3> QED
      BY <1>1, <1>2, <2>2, <3>1, <3>2 DEF StaysTyped
  <2>4. Follows(p)'
    BY <1>1, <2>2 DEF Follows, ReportIInv, ReportFits, attempt
  <2>5. StaysInPart(p, "render")
    BY <1>2, <1>5, <2>2, <2>4 DEF StaysInPart
  <2>6. report # NoReport
    BY <1>1 DEF ReportIInv, ReportFits, Follows
  <2>7. StaysWhole(p)
    BY <1>1, <1>2, <2>2, <2>6 DEF StaysWhole, Whole, Wholly, Complete, attempt
  <2>8. StaysAccounted(p, "render")
    BY <1>1, <1>3, ReportTyped DEF StaysAccounted, ReportIInv
  <2> QED
    BY <1>2, <1>5, <2>1, <2>3, <2>5, <2>7, <2>8, ProcessMovesAlone
<1> QED
  BY <1>4, <1>5

(***************************************************************************)
(* Failures                                                                *)
(***************************************************************************)
LEMMA RefuseSound ==
  ASSUME ReportIInv, NEW p \in Procs, Refuse(p) PROVE ReportIInv'
<1>1. /\ UNCHANGED <<attempt, report, notices, closes, reads, crashes, early, shown>>
      /\ pc[p] # "idle" /\ faults' = faults + 1
  BY DEF Refuse, history
<1>2. /\ {"idle", "reread"} \subseteq Labels
      /\ NoReport \in Contents
      /\ notices' > 0 => report' # NoReport
      /\ report # NoReport => report' # NoReport
      /\ early' \in BOOLEAN /\ (early => early')
  BY <1>1 DEF Labels, ReportIInv, ReportFits, NoReport, Contents, TypeOK
<1>3. /\ One(pc[p] \in Flying) \in Nat
      /\ One("idle" \in Flying) = 0 /\ One("reread" \in Flying) = 0
  BY DEF One, Flying
<1>4. notices' \in Nat /\ closes' = closes /\ reads' \in Nat /\ faults' \in Nat /\ crashes' \in Nat
  BY <1>1, ReportTyped DEF ReportIInv
<1>5. report' \in Contents /\ shown' \subseteq Contents
  BY <1>1, ReportTyped DEF ReportIInv
<1>6. CASE pc[p] = "notify"
  <2>1. UNCHANGED <<job, seen>> /\ Goto(p, "reread")
    BY <1>6 DEF Refuse
  <2>2. /\ pc'[p] = "reread" /\ p \notin Finalisers
        /\ seen' \in [Procs -> Contents] /\ \A o \in Procs : o # p => seen'[o] = seen[o]
    BY <2>1, <1>6, ReportTyped DEF Goto, ReportIInv, ReportFits, Roles
  <2>3. StaysTyped
    BY <1>1, <1>2, <1>4, <1>5, <2>2 DEF StaysTyped
  <2>4. Follows(p)'
    BY <1>1, <1>6, <2>2 DEF Follows, ReportIInv, ReportFits, attempt
  <2>5. StaysInPart(p, "reread")
    BY <1>2, <2>2, <2>4 DEF StaysInPart
  <2>6. StaysWhole(p)
    BY <1>1, <1>2, <2>2 DEF StaysWhole, Whole, Wholly, attempt
  <2>7. StaysAccounted(p, "reread")
    BY <1>1, <1>3, ReportTyped DEF StaysAccounted, ReportIInv
  <2> QED
    BY <1>1, <1>2, <2>1, <2>3, <2>5, <2>6, <2>7, ProcessMovesAlone
<1>7. CASE pc[p] # "notify"
  <2>1. /\ Goto(p, "idle") /\ seen' = [seen EXCEPT ![p] = NoReport]
        /\ job' = IF p = Worker THEN JobAfterError ELSE job
    BY <1>7 DEF Refuse, Done
  <2>2. /\ \A o \in Procs : pc'[o] = IF o = p THEN "idle" ELSE pc[o]
        /\ seen' \in [Procs -> Contents] /\ \A o \in Procs : o # p => seen'[o] = seen[o]
    BY <2>1, <1>2, ReportTyped DEF Goto, ReportIInv
  <2>3. StaysTyped
    BY <1>1, <1>2, <1>4, <1>5, <2>2 DEF StaysTyped
  <2>4. StaysInPart(p, "idle") /\ StaysWhole(p)
    BY <1>1, <1>2, <2>2 DEF StaysInPart, StaysWhole, Follows, Wholly
  <2>5. CASE p # Worker
    <3>1. StaysAccounted(p, "idle")
      BY <1>1, <1>3, ReportTyped DEF StaysAccounted, ReportIInv
    <3> QED
      BY <1>2, <2>1, <2>3, <2>4, <2>5, <3>1, ProcessMovesAlone
  <2>6. CASE p = Worker
    <3>1. /\ job.state = "active" /\ job.made > 0 /\ phase = "closed"
          /\ job.made <= 3 /\ job.stalls <= 1
      BY <1>1, <2>6, ReportTyped DEF ReportIInv, ReportFits, JobFits, MaxStalls
    <3>2. job' = [state |-> IF job.made < 3 THEN "waiting" ELSE "failed",
                  made |-> job.made, stalls |-> job.stalls]
      BY <2>1, <2>6, ReportTyped DEF JobAfterError, Attempts, ReportIInv
    <3>3. job' \in [state: {"none", "waiting", "active", "failed"},
                    made: 0 .. Attempts, stalls: 0 .. MaxStalls + 1]
      BY <3>2, ReportTyped DEF Attempts, MaxStalls, ReportIInv
    <3>4. JobFits'
      BY <1>1, <2>2, <2>6, <3>1, <3>2, ReportTyped, ActorsAssumption
         DEF JobFits, Attempts, MaxStalls, attempt, ReportIInv
    <3>5. One(Pending') \in 0 .. 1 /\ One(Pending) \in Nat
      BY DEF One
    <3>6. One(Pending') + One("idle" \in Flying) + notices' + reads + faults + crashes
            <= One(Pending) + One(pc[p] \in Flying) + notices + reads' + faults' + crashes'
      BY <1>1, <1>3, <3>5, ReportTyped DEF ReportIInv
    <3> QED
      BY <1>2, <2>1, <2>3, <2>4, <3>3, <3>4, <3>6, ProcessMoves
  <2> QED
    BY <2>5, <2>6
<1> QED
  BY <1>6, <1>7

LEMMA CrashSound == ReportIInv /\ Crash => ReportIInv'
<1> SUFFICES ASSUME ReportIInv, Crash PROVE ReportIInv'
  OBVIOUS
<1> USE DEF ReportIInv
<1>1. /\ UNCHANGED <<phase, recorded, scored, report, notices, closes, reads, faults, early, shown>>
      /\ crashes' = crashes + 1
      /\ pc' = [p \in Procs |-> "idle"] /\ seen' = [p \in Procs |-> NoReport]
  BY DEF Crash, attempt, history
<1>2. NoReport \in Contents
  BY DEF NoReport, Contents
<1>3. \/ job' = job /\ job.state # "active"
      \/ /\ job' = [state |-> IF job.stalls < 1 THEN "waiting" ELSE "failed",
                    made |-> job.made - 1, stalls |-> job.stalls + 1]
         /\ job.state = "active" /\ job.made > 0 /\ job.stalls <= 1
  BY ReportTyped DEF Crash, MaxStalls, ReportFits, JobFits
<1>4. TypeOK'
  <2>1. job' \in [state: {"none", "waiting", "active", "failed"},
                  made: 0 .. Attempts, stalls: 0 .. MaxStalls + 1]
    BY <1>3, ReportTyped DEF Attempts, MaxStalls, TypeOK
  <2>2. pc' \in [Procs -> Labels] /\ seen' \in [Procs -> Contents]
    BY <1>1, <1>2 DEF Labels
  <2>3. {notices', closes', reads', faults', crashes'} \subseteq Nat
    BY <1>1, ReportTyped
  <2>4. Ledger!TypeOK'
    BY <1>1 DEF TypeOK, Ledger!TypeOK
  <2> QED
    BY <1>1, <2>1, <2>2, <2>3, <2>4 DEF TypeOK, Labels
<1>5. ReportFits'
  <2>1. \A p \in Procs : pc'[p] = "idle"
    BY <1>1
  <2>2. Roles'
    BY <2>1, ReportTyped DEF Roles
  <2>3. JobFits'
    BY <1>1, <1>3, <2>1, ReportTyped DEF ReportFits, JobFits, Attempts, MaxStalls
  <2>4. \A p \in Procs : Follows(p)'
    BY <2>1 DEF Follows
  <2> QED
    BY <1>1, <2>2, <2>3, <2>4 DEF ReportFits
<1>6. ~early' => Whole'
  BY <1>1 DEF Whole, Wholly, Complete
<1>7. Accounted'
  <2>1. InFlight' = {}
    BY <1>1 DEF InFlight, Flying
  <2>2. IsFiniteSet(InFlight') /\ Cardinality(InFlight') = 0
    BY <2>1, FS_EmptySet
  <2>3. Cardinality(InFlight) \in Nat /\ One(Pending) \in Nat /\ One(Pending') \in 0 .. 1
    BY FS_CardinalityType DEF Accounted, One
  <2> QED
    BY <1>1, <2>2, <2>3, ReportTyped DEF Accounted
<1> QED
  BY <1>4, <1>5, <1>6, <1>7

(***************************************************************************)
(* The theorems                                                            *)
(***************************************************************************)
LEMMA ReportStepSound == ReportIInv /\ [Next]_vars => ReportIInv'
<1> SUFFICES ASSUME ReportIInv, [Next]_vars PROVE ReportIInv'
  OBVIOUS
<1>1. CASE UNCHANGED vars
  <2>1. UNCHANGED <<phase, recorded, scored, report, job, notices, pc, seen, closes, reads, faults, crashes,
                    early, shown>>
    BY <1>1 DEF vars, attempt, queue, env, history
  <2>2. TypeOK'
    BY <2>1 DEF ReportIInv, TypeOK, Ledger!TypeOK
  <2>3. ReportFits' /\ (~early' => Whole')
    BY <2>1 DEF ReportIInv, ReportFits, Roles, JobFits, Follows, Whole, Wholly, Complete
  <2>4. Accounted'
    <3>1. InFlight' = InFlight /\ One(Pending') = One(Pending)
      BY <2>1 DEF InFlight, Pending, One
    <3> QED
      BY <2>1, <3>1 DEF ReportIInv, Accounted
  <2> QED
    BY <2>2, <2>3, <2>4 DEF ReportIInv
<1>2. CASE Sit \/ JobStarts \/ Crash
  BY <1>2, SitSound, JobStartsSound, CrashSound
<1>5. ASSUME NEW f \in Finalisers, Close(f) \/ EnqueueReport(f) PROVE ReportIInv'
  BY <1>5, CloseSound, EnqueueReportSound
<1>3. ASSUME NEW r \in Readers, OpenReport(r) \/ Regenerate(r) \/ Look(r) \/ Render(r)
      PROVE  ReportIInv'
  BY <1>3, AskSound, LookSound, RenderSound DEF OpenReport, Regenerate
<1>4. ASSUME NEW p \in Procs, Generation(p) \/ Refuse(p) PROVE ReportIInv'
  BY <1>4, LoadSessionSound, LoadResultsSound, UpsertSound, NotifySound, RereadSound, RefuseSound
     DEF Generation
<1> QED
  BY <1>1, <1>2, <1>3, <1>4, <1>5 DEF Next

\* What the reads of a generation, the job and the notices rest on, in every state.
THEOREM ReportInvariant == Spec => []ReportIInv
<1>1. Init => ReportIInv
  BY ReportInitSound
<1>2. ReportIInv /\ [Next]_vars => ReportIInv'
  BY ReportStepSound
<1> QED
  BY <1>1, <1>2, PTL DEF Spec

\* For any modules, readers and failures: unless a report was asked for before the close, one
\* on file, and any a page is given, is of the whole closed attempt.
THEOREM ReportsAreAlwaysWhole == Spec => []ReportsAreWhole
<1>1. ReportIInv => ReportsAreWhole
  BY DEF ReportIInv, Whole, ReportsAreWhole
<1> QED
  BY <1>1, ReportInvariant, PTL

\* For any number of finalisers, readers and failures: the recipient is told only of a report
\* that is on file, and at most once for each finalize that got past its test, read, refusal
\* and crash.
THEOREM NoticesAreAlwaysAccounted == Spec => []NoticesAreAccounted
<1>1. ASSUME ReportIInv PROVE NoticesAreAccounted
  <2>1. notices > 0 => report # NoReport
    BY <1>1 DEF ReportIInv, ReportFits
  <2>2. Cardinality(InFlight) \in Nat /\ One(Pending) \in Nat
    BY <1>1, FS_CardinalityType DEF ReportIInv, Accounted, One
  <2>3. notices <= closes + reads + faults + crashes
    BY <1>1, <2>2, ReportTyped DEF ReportIInv, Accounted
  <2> QED
    BY <2>1, <2>3 DEF NoticesAreAccounted
<1> QED
  BY <1>1, ReportInvariant, PTL

(***************************************************************************)
(* The wizard                                                              *)
(***************************************************************************)
\* The step a resource or a request is of.
Place == [camera |-> "camera", model |-> "camera", microphone |-> "microphone",
          measure |-> "connection", listener |-> "screen", stream |-> "camera",
          watcher |-> "camera", poll |-> "camera", audio |-> "microphone", frame |-> "microphone",
          timer |-> "connection"]

\* No later visit's, and the visit's on screen only if this step is on screen.
BelongsTo(v, step) == v <= visit /\ (Live(v) => Step = step)

WindowsFit == Len(recent) <= STABLE_SAMPLES /\ Len(evidence) <= STABLE_SAMPLES

Owned ==
    /\ \A a \in awaiting : BelongsTo(a.by, Place[a.what])
    /\ \A h \in alive : BelongsTo(h.by, Place[h.what]) /\ (h.what # "timer" => Live(h.by))
    /\ \A n \in DOMAIN frames : BelongsTo(frames[n].by, "camera")
    /\ \A v \in pings : BelongsTo(v, "connection")

\* The last verdicts of the camera's visit are its last observations.
Backed ==
    /\ Len(recent) <= Len(evidence)
    /\ \A k \in 0 .. Len(recent) - 1 :
           evidence[Len(evidence) - k] = [by |-> visit, good |-> recent[Len(recent) - k]]

Fresh == Len(evidence) > 0 /\ evidence[Len(evidence)] = [by |-> visit, good |-> TRUE]

VerdictFits ==
    stage = "checks" =>
        /\ result # NoVerdict => result.by = visit
        /\ Step = "screen" => [by |-> visit, what |-> "listener"] \in alive
        /\ Step = "screen" /\ result.status = "ok" => world.fills
        /\ Step # "camera" /\ result.status = "ok" => Fresh
        /\ Step = "camera" => Backed /\ (result.status = "ok" => Settled(recent))

ReadinessIInv == ReadinessTypeOK /\ WindowsFit /\ Owned /\ VerdictFits

Observations == [by: Visits, good: BOOLEAN]
Verdicts == {NoVerdict} \cup [status: Statuses, by: Visits]

LEMMA ReadinessTyped ==
  ASSUME ReadinessTypeOK
  PROVE  /\ index \in 1 .. 5 /\ Step \in {"browser", "screen", "camera", "microphone", "connection"}
         /\ visit \in Visits /\ visit \in Nat
         /\ result \in Verdicts
         /\ evidence \in Seq(Observations) /\ recent \in Seq(BOOLEAN)
         /\ frames \in Seq([by: Visits, framed: BOOLEAN])
         /\ STABLE_SAMPLES \in Nat \ {0} /\ MaxVisits \in Nat
         /\ \A v \in Visits : v \in Nat
<1>1. index \in 1 .. 5 /\ Step \in {"browser", "screen", "camera", "microphone", "connection"}
  BY DEF ReadinessTypeOK, STEPS, Step
<1> QED
  BY <1>1, ReadinessAssumption DEF ReadinessTypeOK, Visits, Observations, Verdicts

(***************************************************************************)
(* Windows of observations                                                 *)
(***************************************************************************)
\* A bounded window after an observation: the new one is last, and the others are one
\* further back.
LEMMA WindowAfter ==
  ASSUME NEW S, NEW s \in Seq(S), NEW x \in S, NEW n \in Nat \ {0}, Len(s) <= n,
         NEW t, t = IF Len(Append(s, x)) > n THEN Tail(Append(s, x)) ELSE Append(s, x)
  PROVE  /\ t \in Seq(S) /\ Len(t) <= n /\ Len(t) > 0
         /\ Len(t) = IF Len(s) < n THEN Len(s) + 1 ELSE n
         /\ t[Len(t)] = x
         /\ \A k \in 1 .. Len(t) - 1 : t[Len(t) - k] = s[Len(s) - (k - 1)]
<1> DEFINE a == Append(s, x)
<1>1. /\ a \in Seq(S) /\ Len(a) = Len(s) + 1 /\ a[Len(a)] = x
      /\ \A i \in 1 .. Len(s) : a[i] = s[i]
  OBVIOUS
<1>2. Len(s) \in Nat
  OBVIOUS
<1> HIDE DEF a
<1>3. CASE Len(a) > n
  <2>1. t = Tail(a) /\ Len(s) = n
    BY <1>1, <1>2, <1>3 DEF a
  <2>2. t \in Seq(S) /\ Len(t) = Len(s) /\ \A i \in 1 .. Len(s) : t[i] = a[i + 1]
    BY <1>1, <1>2, <2>1
  <2>3. t[Len(t)] = x
    BY <1>1, <1>2, <2>1, <2>2
  <2>4. \A k \in 1 .. Len(t) - 1 : t[Len(t) - k] = s[Len(s) - (k - 1)]
    <3> TAKE k \in 1 .. Len(t) - 1
    <3>0. k \in Int /\ 1 <= k /\ k <= Len(s) - 1
      <4>1. k \in 1 .. Len(s) - 1
        BY <2>2
      <4> QED
        BY <1>2, <4>1
    <3>1. Len(t) - k \in 1 .. Len(s) /\ Len(s) - (k - 1) \in 1 .. Len(s)
          /\ (Len(t) - k) + 1 = Len(s) - (k - 1)
      <4>1. Len(s) - k \in 1 .. Len(s) /\ Len(s) - (k - 1) \in 1 .. Len(s)
            /\ (Len(s) - k) + 1 = Len(s) - (k - 1)
        BY <1>2, <3>0
      <4> QED
        BY <2>2, <4>1
    <3>2. t[Len(t) - k] = a[(Len(t) - k) + 1]
      BY <2>2, <3>1
    <3> QED
      BY <1>1, <3>1, <3>2
  <2>5. Len(t) = n /\ Len(t) > 0 /\ ~(Len(s) < n)
    BY <1>2, <2>1, <2>2
  <2> QED
    BY <2>2, <2>3, <2>4, <2>5
<1>4. CASE ~(Len(a) > n)
  <2>1. t = a
    BY <1>4 DEF a
  <2>2. \A k \in 1 .. Len(t) - 1 : t[Len(t) - k] = s[Len(s) - (k - 1)]
    <3> TAKE k \in 1 .. Len(t) - 1
    <3>1. Len(t) - k \in 1 .. Len(s) /\ Len(t) - k = Len(s) - (k - 1)
      BY <1>1, <1>2, <2>1
    <3> QED
      BY <1>1, <2>1, <3>1
  <2> QED
    BY <1>1, <1>2, <1>4, <2>1, <2>2
<1> QED
  BY <1>3, <1>4

LEMMA ObserveAfter ==
  ASSUME ReadinessTypeOK, WindowsFit, NEW v \in Visits, NEW good \in BOOLEAN, Observe(v, good)
  PROVE  /\ evidence' \in Seq(Observations)
         /\ Len(evidence') <= STABLE_SAMPLES /\ Len(evidence') > 0
         /\ Len(evidence') = IF Len(evidence) < STABLE_SAMPLES THEN Len(evidence) + 1
                             ELSE STABLE_SAMPLES
         /\ evidence'[Len(evidence')] = [by |-> v, good |-> good]
         /\ \A k \in 1 .. Len(evidence') - 1 :
                evidence'[Len(evidence') - k] = evidence[Len(evidence) - (k - 1)]
<1> DEFINE x == [by |-> v, good |-> good]
<1>1. x \in Observations
  BY DEF Observations
<1>2. evidence \in Seq(Observations) /\ STABLE_SAMPLES \in Nat \ {0}
  BY ReadinessTyped
<1>3. Len(evidence) <= STABLE_SAMPLES
  BY DEF WindowsFit
<1>4. evidence' = IF Len(Append(evidence, x)) > STABLE_SAMPLES THEN Tail(Append(evidence, x))
                  ELSE Append(evidence, x)
  BY DEF Observe
<1> HIDE DEF x
<1>5. /\ evidence' \in Seq(Observations)
      /\ Len(evidence') <= STABLE_SAMPLES /\ Len(evidence') > 0
      /\ Len(evidence') = IF Len(evidence) < STABLE_SAMPLES THEN Len(evidence) + 1
                          ELSE STABLE_SAMPLES
      /\ evidence'[Len(evidence')] = x
      /\ \A k \in 1 .. Len(evidence') - 1 :
             evidence'[Len(evidence') - k] = evidence[Len(evidence) - (k - 1)]
  BY <1>1, <1>2, <1>3, <1>4, WindowAfter
<1> QED
  BY <1>5 DEF x

LEMMA PublishAfter ==
  ASSUME ReadinessTypeOK, NEW v \in Visits, NEW status \in Statuses, Publish(v, status)
  PROVE  /\ result' \in Verdicts
         /\ Live(v) => result' = [status |-> status, by |-> v]
         /\ ~Live(v) => result' = result
BY ReadinessTyped DEF Publish, Verdicts

(***************************************************************************)
(* What a step leaves alone                                                *)
(***************************************************************************)
\* The page stays where it is, and what is new belongs to what it is on.
LEMMA OwnedStays ==
  ASSUME Owned, UNCHANGED <<stage, index, visit>>,
         \A a \in awaiting' \ awaiting : BelongsTo(a.by, Place[a.what]),
         \A h \in alive' \ alive : /\ BelongsTo(h.by, Place[h.what])
                                   /\ h.what # "timer" => Live(h.by),
         \A n \in DOMAIN frames' : BelongsTo(frames'[n].by, "camera"),
         \A v \in pings' \ pings : BelongsTo(v, "connection")
  PROVE  Owned'
BY DEF Owned, BelongsTo, Live, Step

\* Nothing is observed, and a verdict that is published is not a good one.
LEMMA VerdictStays ==
  ASSUME VerdictFits, UNCHANGED <<stage, index, visit, recent, evidence>>, alive \subseteq alive',
         world'.fills = world.fills,
         result' = result \/ (result'.status # "ok" /\ (result' # NoVerdict => result'.by = visit))
  PROVE  VerdictFits'
BY DEF VerdictFits, Live, Step, Fresh, Backed, Settled

(***************************************************************************)
(* A visit begins and ends                                                 *)
(***************************************************************************)
LEMMA SetUpSound ==
  ASSUME ReadinessIInv, stage = "checks", stage' = "checks", visit < MaxVisits,
         index' \in 1 .. 5, SetUp(visit + 1, Step'), UNCHANGED <<frames, pings, world, changes>>
  PROVE  ReadinessIInv'
<1> USE DEF ReadinessIInv
<1>0. PICK v \in Nat : v = visit + 1
  BY ReadinessTyped
<1>1. /\ v \in Visits /\ visit \in Nat /\ visit' = v /\ v # visit
      /\ \A o \in Nat : o <= visit => o <= v /\ o # v
  BY <1>0, ReadinessTyped DEF SetUp, Visits
<1>2. recent' = <<>>
  BY DEF SetUp
<1>3. Step' \in {"browser", "screen", "camera", "microphone", "connection"}
  BY DEF Step, STEPS
<1>4. \A o \in Nat : o <= visit => ~Live(o)'
  BY <1>1 DEF Live
<1>5. Live(v)'
  BY <1>1 DEF Live
<1>6. /\ Released(visit) \subseteq alive
      /\ \A h \in Released(visit) : ~Live(h.by)
  BY DEF Released, Live
<1>7. \A h \in Released(visit) : h.what = "timer"
  BY <1>6 DEF Owned
<1>8. \A h \in Released(visit) : h \in alive /\ h.by \in Nat /\ h.by <= visit
  BY <1>6, ReadinessTyped DEF Owned, BelongsTo, ReadinessTypeOK
<1>9. /\ \A n \in DOMAIN frames' : frames'[n].by \in Nat /\ frames'[n].by <= visit
      /\ \A o \in pings' : o \in Nat /\ o <= visit
      /\ \A a \in awaiting : a.by \in Nat /\ a.by <= visit
  <2>1. \A n \in DOMAIN frames : frames[n] \in [by: Visits, framed: BOOLEAN]
    <3> DEFINE F == [by: Visits, framed: BOOLEAN]
    <3>1. frames \in Seq(F)
      BY ReadinessTyped
    <3> HIDE DEF F
    <3>2. \A n \in DOMAIN frames : frames[n] \in F
      BY <3>1
    <3> QED
      BY <3>2 DEF F
  <2>2. \A n \in DOMAIN frames : frames[n].by \in Nat /\ frames[n].by <= visit
    BY <2>1, ReadinessTyped DEF Owned, BelongsTo
  <2>3. \A o \in pings : o \in Nat /\ o <= visit
    BY ReadinessTyped DEF Owned, BelongsTo, ReadinessTypeOK
  <2>4. \A a \in awaiting : a.by \in Nat /\ a.by <= visit
    BY ReadinessTyped DEF Owned, BelongsTo, ReadinessTypeOK
  <2> QED
    BY <2>2, <2>3, <2>4
<1>10. ASSUME NEW b \in BOOLEAN, Observe(v, b)
       PROVE  /\ evidence' \in Seq(Observations) /\ Len(evidence') <= STABLE_SAMPLES
              /\ b => Fresh'
  <2>1. /\ evidence' \in Seq(Observations)
        /\ Len(evidence') <= STABLE_SAMPLES /\ Len(evidence') > 0
        /\ evidence'[Len(evidence')] = [by |-> v, good |-> b]
    BY <1>1, <1>10, ObserveAfter
  <2> QED
    BY <1>1, <2>1 DEF Fresh
<1>11. ReadinessTypeOK' /\ WindowsFit' /\ Owned' /\ VerdictFits'
  <2>1. CASE Step' = "browser"
    <3>1. /\ result' = [status |-> IF world.supported THEN "ok" ELSE "fail", by |-> v]
          /\ Observe(v, world.supported)
          /\ alive' = Released(visit)
          /\ UNCHANGED awaiting
      BY <1>0, <2>1 DEF SetUp
    <3>2. world.supported \in BOOLEAN
      BY DEF ReadinessTypeOK
    <3>3. evidence' \in Seq(Observations) /\ Len(evidence') <= STABLE_SAMPLES
          /\ (world.supported => Fresh')
      BY <1>10, <3>1, <3>2
    <3>4. result'.status = "ok" => Fresh'
      BY <3>1, <3>3
    <3>5. result' \in Verdicts /\ result'.by = v
      BY <3>1, <1>1 DEF Verdicts, Statuses
    <3>6. ReadinessTypeOK'
      BY <1>1, <1>2, <1>6, <3>1, <3>3, <3>5 DEF ReadinessTypeOK, Observations, Verdicts, STEPS
    <3>7. WindowsFit'
      BY <1>2, <3>3, ReadinessTyped DEF WindowsFit
    <3>8. Owned'
      BY <1>1, <1>4, <1>6, <1>7, <1>8, <1>9, <3>1 DEF Owned, BelongsTo
    <3>9. VerdictFits'
      BY <1>1, <2>1, <3>4, <3>5 DEF VerdictFits
    <3> QED
      BY <3>6, <3>7, <3>8, <3>9
  <2>2. CASE Step' = "screen"
    <3>1. /\ result' = [status |-> ScreenStatus, by |-> v]
          /\ Observe(v, ScreenStatus = "ok")
          /\ alive' = Released(visit) \cup {[by |-> v, what |-> "listener"]}
          /\ UNCHANGED awaiting
      BY <1>0, <2>2 DEF SetUp
    <3>2. /\ (ScreenStatus = "ok") \in BOOLEAN /\ ScreenStatus \in Statuses
          /\ ScreenStatus = "ok" => world.fills
      BY DEF ScreenStatus, Statuses
    <3>3. evidence' \in Seq(Observations) /\ Len(evidence') <= STABLE_SAMPLES
          /\ (ScreenStatus = "ok" => Fresh')
      BY <1>10, <3>1, <3>2
    <3>4. result'.status = "ok" => Fresh' /\ world'.fills
      BY <3>1, <3>2, <3>3
    <3>5. result' \in Verdicts /\ result'.by = v
      BY <3>1, <3>2, <1>1 DEF Verdicts
    <3>6. ReadinessTypeOK'
      BY <1>1, <1>2, <1>6, <3>1, <3>3, <3>5
         DEF ReadinessTypeOK, Observations, Verdicts, STEPS, Resources
    <3>7. WindowsFit'
      BY <1>2, <3>3, ReadinessTyped DEF WindowsFit
    <3>8. Owned'
      BY <1>1, <1>4, <1>5, <1>6, <1>7, <1>8, <1>9, <2>2, <3>1 DEF Owned, BelongsTo, Place
    <3>9. VerdictFits'
      BY <1>1, <2>2, <3>1, <3>4, <3>5 DEF VerdictFits
    <3> QED
      BY <3>6, <3>7, <3>8, <3>9
  <2>3. CASE Step' \notin {"browser", "screen"}
    <3> DEFINE w == IF Step' = "connection" THEN "measure" ELSE Step'
    <3>1. /\ result' = NoVerdict
          /\ awaiting' = awaiting \cup {[by |-> v, what |-> w]}
          /\ alive' = Released(visit)
          /\ UNCHANGED evidence
      BY <1>0, <2>3 DEF SetUp
    <3>2. w \in {"camera", "microphone", "measure"} /\ Place[w] = Step'
      BY <1>3, <2>3 DEF Place
    <3> HIDE DEF w
    <3>3. ReadinessTypeOK'
      BY <1>1, <1>2, <1>6, <3>1, <3>2 DEF ReadinessTypeOK, STEPS
    <3>4. WindowsFit'
      BY <1>2, <3>1, ReadinessTyped DEF WindowsFit
    <3>5. Owned'
      BY <1>1, <1>4, <1>5, <1>6, <1>7, <1>8, <1>9, <3>1, <3>2 DEF Owned, BelongsTo
    <3>6. Backed'
      <4>1. Len(recent') = 0 /\ Len(evidence') \in Nat
        BY <1>2, <3>1, ReadinessTyped
      <4> QED
        BY <4>1 DEF Backed
    <3>7. VerdictFits'
      BY <2>3, <3>1, <3>6 DEF VerdictFits, NoVerdict
    <3> QED
      BY <3>3, <3>4, <3>5, <3>7
  <2> QED
    BY <1>3, <2>1, <2>2, <2>3
<1> QED
  BY <1>11

LEMMA ReadinessInitSound == ReadinessInit => ReadinessIInv
<1> SUFFICES ASSUME ReadinessInit PROVE ReadinessIInv
  OBVIOUS
<1>1. /\ stage = "checks" /\ index = 1 /\ visit = 1 /\ awaiting = {} /\ alive = {} /\ frames = <<>>
      /\ recent = <<>> /\ pings = {} /\ changes = 0
      /\ result = [status |-> IF world.supported THEN "ok" ELSE "fail", by |-> 1]
      /\ evidence = <<[by |-> 1, good |-> world.supported]>>
      /\ world \in [supported: BOOLEAN, model: BOOLEAN, alone: BOOLEAN, fills: BOOLEAN,
                  framed: {FALSE}, loud: {FALSE}, near: {TRUE}, allowed: BOOLEAN]
  BY DEF ReadinessInit
<1>2. 1 \in Visits /\ 1 \in DOMAIN STEPS /\ STABLE_SAMPLES \in Nat \ {0}
  BY ReadinessAssumption DEF Visits, STEPS
<1>3. ReadinessTypeOK
  <2>1. world \in [supported: BOOLEAN, model: BOOLEAN, alone: BOOLEAN, fills: BOOLEAN,
                   framed: BOOLEAN, loud: BOOLEAN, near: BOOLEAN, allowed: BOOLEAN]
    BY <1>1
  <2>2. result \in [status: Statuses, by: Visits]
    BY <1>1, <1>2 DEF Statuses
  <2>3. evidence \in Seq([by: Visits, good: BOOLEAN])
    <3>1. world.supported \in BOOLEAN
      BY <2>1
    <3>2. [by |-> 1, good |-> world.supported] \in [by: Visits, good: BOOLEAN]
      BY <1>2, <3>1
    <3> QED
      BY <1>1, <3>2
  <2>4. frames \in Seq([by: Visits, framed: BOOLEAN]) /\ recent \in Seq(BOOLEAN)
    BY <1>1
  <2> QED
    BY <1>1, <1>2, <2>1, <2>2, <2>3, <2>4 DEF ReadinessTypeOK
<1>4. WindowsFit
  <2>1. Len(recent) = 0 /\ Len(evidence) = 1
    BY <1>1
  <2> QED
    BY <1>2, <2>1 DEF WindowsFit
<1>5. Owned
  BY <1>1 DEF Owned
<1>6. VerdictFits
  <2>1. Step = "browser"
    BY <1>1 DEF Step, STEPS
  <2>2. Len(evidence) = 1 /\ evidence[Len(evidence)] = [by |-> 1, good |-> world.supported]
    BY <1>1
  <2>3. world.supported \in BOOLEAN /\ (result.status = "ok" => world.supported)
    BY <1>1
  <2>4. result.status = "ok" => Fresh
    <3>1. CASE world.supported
      <4>1. [by |-> 1, good |-> world.supported] = [by |-> 1, good |-> TRUE]
        BY <3>1, <2>3
      <4> QED
        BY <1>1, <2>2, <4>1 DEF Fresh
    <3> QED
      BY <2>3, <3>1
  <2> QED
    BY <1>1, <2>1, <2>4 DEF VerdictFits
<1> QED
  BY <1>3, <1>4, <1>5, <1>6 DEF ReadinessIInv

\* The checks are over: nothing is on screen that a verdict could be for.
LEMMA LeftSound ==
  ASSUME ReadinessIInv, stage # "checks",
         stage' \in {"practice", "splash-assessment", "gone"},
         UNCHANGED <<index, visit, result, awaiting, alive, frames, recent, pings, world, changes,
                     evidence>>
  PROVE  ReadinessIInv'
<1>1. ReadinessTypeOK' /\ WindowsFit'
  BY DEF ReadinessIInv, ReadinessTypeOK, WindowsFit
<1>2. Owned'
  BY DEF ReadinessIInv, Owned, BelongsTo, Live
<1>3. VerdictFits'
  BY DEF VerdictFits
<1> QED
  BY <1>1, <1>2, <1>3 DEF ReadinessIInv

\* The last visit of all is cleaned up.
LEMMA TearDownSound ==
  ASSUME ReadinessIInv, stage = "checks",
         stage' \in {"splash-practice", "splash-assessment", "gone"}, TearDown,
         UNCHANGED <<frames, pings, world, changes>>
  PROVE  ReadinessIInv'
<1>1. /\ UNCHANGED <<index, visit, result, awaiting, recent, evidence>>
      /\ alive' \subseteq alive /\ \A h \in alive' : h.by # visit
  BY DEF TearDown, Released
<1>2. ReadinessTypeOK' /\ WindowsFit'
  BY <1>1 DEF ReadinessIInv, ReadinessTypeOK, WindowsFit
<1>3. \A h \in alive' : h.what = "timer"
  BY <1>1 DEF ReadinessIInv, Owned, Live
<1>4. Owned'
  BY <1>1, <1>3 DEF ReadinessIInv, Owned, BelongsTo, Live
<1>5. VerdictFits'
  BY DEF VerdictFits
<1> QED
  BY <1>2, <1>4, <1>5 DEF ReadinessIInv

\* What a setup awaited arrives: it may open what is its own, and publishes no good verdict.
LEMMA AwaitedSound ==
  ASSUME ReadinessIInv, NEW v \in Visits, NEW status \in {"warn", "fail"},
         UNCHANGED <<stage, index, visit, frames, recent, pings, world, changes, evidence>>,
         Publish(v, status) \/ UNCHANGED result,
         alive \subseteq alive',
         awaiting' \subseteq [by: Visits, what: {"camera", "model", "microphone", "measure"}],
         alive' \subseteq [by: Visits, what: Resources],
         \A a \in awaiting' \ awaiting : BelongsTo(a.by, Place[a.what]),
         \A h \in alive' \ alive : BelongsTo(h.by, Place[h.what]) /\ Live(h.by)
  PROVE  ReadinessIInv'
<1>1. result' \in Verdicts
      /\ (result' = result \/ (result'.status # "ok" /\ (result' # NoVerdict => result'.by = visit)))
  <2>1. CASE UNCHANGED result
    BY <2>1, ReadinessTyped DEF ReadinessIInv
  <2>2. CASE Publish(v, status)
    BY <2>2, PublishAfter DEF ReadinessIInv, Statuses, Live
  <2> QED
    BY <2>1, <2>2
<1>2. ReadinessTypeOK' /\ WindowsFit'
  BY <1>1 DEF ReadinessIInv, ReadinessTypeOK, WindowsFit, Verdicts
<1>3. Owned'
  BY OwnedStays DEF ReadinessIInv, Owned
<1>4. VerdictFits'
  BY <1>1, VerdictStays DEF ReadinessIInv
<1> QED
  BY <1>2, <1>3, <1>4 DEF ReadinessIInv

LEMMA ContinueSound == ReadinessIInv /\ Continue => ReadinessIInv'
<1> SUFFICES ASSUME ReadinessIInv, Continue PROVE ReadinessIInv'
  OBVIOUS
<1>1. stage = "checks" /\ UNCHANGED <<frames, pings, world, changes>> /\ index \in 1 .. 5
      /\ Len(STEPS) = 5
  BY ReadinessTyped DEF Continue, Passed, surroundings, ReadinessIInv, STEPS
<1>2. CASE index < Len(STEPS)
  <2>1. /\ visit < MaxVisits /\ index' = index + 1 /\ stage' = "checks"
        /\ SetUp(visit + 1, STEPS[index + 1])
    BY <1>1, <1>2 DEF Continue
  <2>2. index' \in 1 .. 5 /\ SetUp(visit + 1, Step')
    BY <1>1, <1>2, <2>1 DEF Step
  <2> QED
    BY <1>1, <2>1, <2>2, SetUpSound
<1>3. CASE ~(index < Len(STEPS))
  <2>1. stage' \in {"splash-practice", "splash-assessment"} /\ TearDown
    BY <1>3 DEF Continue
  <2> QED
    BY <1>1, <2>1, TearDownSound
<1> QED
  BY <1>2, <1>3

LEMMA CheckAgainSound == ReadinessIInv /\ CheckAgain => ReadinessIInv'
<1> SUFFICES ASSUME ReadinessIInv, CheckAgain PROVE ReadinessIInv'
  OBVIOUS
<1>1. /\ stage = "checks" /\ UNCHANGED <<stage, index, frames, pings, world, changes>>
      /\ visit < MaxVisits /\ SetUp(visit + 1, Step)
  BY DEF CheckAgain, surroundings
<1>2. index' \in 1 .. 5 /\ SetUp(visit + 1, Step')
  BY <1>1, ReadinessTyped DEF Step, ReadinessIInv
<1> QED
  BY <1>1, <1>2, SetUpSound

LEMMA GoBackSound == ReadinessIInv /\ GoBack => ReadinessIInv'
<1> SUFFICES ASSUME ReadinessIInv, GoBack PROVE ReadinessIInv'
  OBVIOUS
<1>1. /\ stage \in {"checks", "practice"} /\ stage' = "gone"
      /\ UNCHANGED <<frames, pings, world, changes>>
  BY DEF GoBack, surroundings
<1>2. CASE stage = "checks"
  BY <1>1, <1>2, TearDownSound DEF GoBack
<1>3. CASE stage = "practice"
  BY <1>1, <1>3, LeftSound DEF GoBack
<1> QED
  BY <1>1, <1>2, <1>3

LEMMA GoesSound ==
  ASSUME ReadinessIInv, NEW from, NEW to, from # "checks",
         to \in {"practice", "splash-assessment", "gone"}, Goes(from, to)
  PROVE  ReadinessIInv'
BY LeftSound DEF Goes, surroundings

(***************************************************************************)
(* What a setup awaits                                                     *)
(***************************************************************************)
LEMMA CameraOpensSound ==
  ASSUME ReadinessIInv, NEW v \in Visits, CameraOpens(v) PROVE ReadinessIInv'
<1> USE DEF ReadinessIInv
<1>1. /\ UNCHANGED <<stage, index, visit, frames, recent, pings, world, changes, evidence>>
      /\ Publish(v, "warn")
      /\ [by |-> v, what |-> "camera"] \in awaiting
  BY DEF CameraOpens, Unwatched, surroundings
<1>2. BelongsTo(v, "camera")
  BY <1>1 DEF Owned, Place
<1>3. /\ \A a \in awaiting' \ awaiting : a = [by |-> v, what |-> "model"]
      /\ \A h \in alive' \ alive : h = [by |-> v, what |-> "stream"] /\ Live(v)
      /\ alive \subseteq alive'
  BY DEF CameraOpens
<1>4. /\ \A a \in awaiting' \ awaiting : a.by = v /\ a.what = "model"
      /\ \A h \in alive' \ alive : h.by = v /\ h.what = "stream" /\ Live(v)
  BY <1>3
<1>5. /\ awaiting' \subseteq [by: Visits, what: {"camera", "model", "microphone", "measure"}]
      /\ alive' \subseteq [by: Visits, what: Resources]
  BY <1>1 DEF CameraOpens, ReadinessTypeOK, Resources
<1>6. \A a \in awaiting' \ awaiting : BelongsTo(a.by, Place[a.what])
  BY <1>1, <1>2, <1>4 DEF Place
<1>7. \A h \in alive' \ alive : BelongsTo(h.by, Place[h.what]) /\ Live(h.by)
  BY <1>2, <1>4 DEF Place
<1> QED
  BY <1>1, <1>3, <1>5, <1>6, <1>7, AwaitedSound

LEMMA ModelLoadsSound ==
  ASSUME ReadinessIInv, NEW v \in Visits, ModelLoads(v) PROVE ReadinessIInv'
<1> USE DEF ReadinessIInv
<1>1. /\ UNCHANGED <<stage, index, visit, frames, recent, pings, world, changes, evidence>>
      /\ Publish(v, "fail") \/ UNCHANGED result
      /\ [by |-> v, what |-> "model"] \in awaiting /\ awaiting' \subseteq awaiting
  BY DEF ModelLoads, Arrives, Unwatched, surroundings
<1>2. BelongsTo(v, "camera")
  BY <1>1 DEF Owned, Place
<1>3. /\ \A h \in alive' \ alive : h \in [by: {v}, what: {"watcher", "poll"}] /\ Live(v)
      /\ alive \subseteq alive'
  BY DEF ModelLoads
<1>4. \A h \in alive' \ alive : /\ h = [by |-> h.by, what |-> h.what] /\ h.by = v
                                /\ h.what \in {"watcher", "poll"} /\ Live(v)
  BY <1>3
<1>5. /\ awaiting' \subseteq [by: Visits, what: {"camera", "model", "microphone", "measure"}]
      /\ alive' \subseteq [by: Visits, what: Resources]
  BY <1>1 DEF ModelLoads, ReadinessTypeOK, Resources
<1>6. \A a \in awaiting' \ awaiting : BelongsTo(a.by, Place[a.what])
  BY <1>1, <1>2, <1>4 DEF Place
<1>7. \A h \in alive' \ alive : BelongsTo(h.by, Place[h.what]) /\ Live(h.by)
  BY <1>2, <1>4 DEF Place
<1> QED
  BY <1>1, <1>3, <1>5, <1>6, <1>7, AwaitedSound

LEMMA MicrophoneOpensSound ==
  ASSUME ReadinessIInv, NEW v \in Visits, MicrophoneOpens(v) PROVE ReadinessIInv'
<1> USE DEF ReadinessIInv
<1>1. /\ UNCHANGED <<stage, index, visit, frames, recent, pings, world, changes, evidence>>
      /\ Publish(v, "warn")
      /\ [by |-> v, what |-> "microphone"] \in awaiting /\ awaiting' \subseteq awaiting
  BY DEF MicrophoneOpens, Arrives, Unwatched, surroundings
<1>2. BelongsTo(v, "microphone")
  BY <1>1 DEF Owned, Place
<1>3. /\ \A h \in alive' \ alive : h \in [by: {v}, what: {"audio", "frame"}] /\ Live(v)
      /\ alive \subseteq alive'
  BY DEF MicrophoneOpens
<1>4. \A h \in alive' \ alive : /\ h = [by |-> h.by, what |-> h.what] /\ h.by = v
                                /\ h.what \in {"audio", "frame"} /\ Live(v)
  BY <1>3
<1>5. /\ awaiting' \subseteq [by: Visits, what: {"camera", "model", "microphone", "measure"}]
      /\ alive' \subseteq [by: Visits, what: Resources]
  BY <1>1 DEF MicrophoneOpens, ReadinessTypeOK, Resources
<1>6. \A a \in awaiting' \ awaiting : BelongsTo(a.by, Place[a.what])
  BY <1>1, <1>2, <1>4 DEF Place
<1>7. \A h \in alive' \ alive : BelongsTo(h.by, Place[h.what]) /\ Live(h.by)
  BY <1>2, <1>4 DEF Place
<1> QED
  BY <1>1, <1>3, <1>5, <1>6, <1>7, AwaitedSound

(***************************************************************************)
(* What goes on being observed                                             *)
(***************************************************************************)
\* Outside the camera's step, the last observation is the verdict.
LEMMA VerdictAfter ==
  ASSUME ReadinessIInv, NEW v \in Visits, Live(v), NEW good \in BOOLEAN, Observe(v, good),
         NEW status \in Statuses, Publish(v, status), status = "ok" => good,
         UNCHANGED <<stage, index, visit>>, alive \subseteq alive',
         Step # "camera", Step = "screen" /\ status = "ok" => world'.fills
  PROVE  VerdictFits'
<1>1. v = visit
  BY DEF Live
<1>2. result' = [status |-> status, by |-> v]
  BY PublishAfter DEF ReadinessIInv
<1>3. Len(evidence') > 0 /\ evidence'[Len(evidence')] = [by |-> v, good |-> good]
  BY ObserveAfter DEF ReadinessIInv
<1>4. good => [by |-> v, good |-> good] = [by |-> v, good |-> TRUE]
  OBVIOUS
<1>5. status = "ok" => Fresh'
  BY <1>1, <1>3, <1>4 DEF Fresh
<1> QED
  BY <1>1, <1>2, <1>5 DEF ReadinessIInv, VerdictFits, Step

LEMMA MeasurementSound ==
  ASSUME ReadinessIInv, NEW v \in Visits, BelongsTo(v, "connection"),
         Publish(v, Status(world.near)),
         IF Live(v) THEN Observe(v, world.near) ELSE UNCHANGED evidence,
         UNCHANGED <<stage, index, visit, frames, recent, world, changes>>,
         awaiting' \subseteq awaiting, pings' \subseteq pings,
         alive' \in {alive, alive \cup {[by |-> v, what |-> "timer"]}}
  PROVE  ReadinessIInv'
<1> USE DEF ReadinessIInv
<1>1. /\ world.near \in BOOLEAN /\ Status(world.near) \in Statuses
      /\ Status(world.near) = "ok" => world.near
  BY DEF ReadinessTypeOK, Status, Statuses
<1>2. evidence' \in Seq(Observations) /\ Len(evidence') <= STABLE_SAMPLES
  BY <1>1, ObserveAfter, ReadinessTyped DEF WindowsFit
<1>3. result' \in Verdicts
  BY <1>1, PublishAfter
<1>4. ReadinessTypeOK' /\ WindowsFit'
  BY <1>2, <1>3 DEF ReadinessTypeOK, WindowsFit, Observations, Verdicts, Resources
<1>5. Owned'
  BY OwnedStays DEF Owned, Place
<1>6. VerdictFits'
  <2>1. CASE Live(v)
    <3>1. Step = "connection"
      BY <2>1 DEF BelongsTo
    <3> QED
      BY <1>1, <2>1, <3>1, VerdictAfter
  <2>2. CASE ~Live(v)
    BY <1>1, <2>2, PublishAfter, VerdictStays
  <2> QED
    BY <2>1, <2>2
<1> QED
  BY <1>4, <1>5, <1>6

LEMMA MeasuredSound ==
  ASSUME ReadinessIInv, NEW v \in Visits, Measured(v) PROVE ReadinessIInv'
<1>1. BelongsTo(v, "connection")
  BY DEF Measured, Arrives, ReadinessIInv, Owned, Place
<1> QED
  BY <1>1, MeasurementSound DEF Measured, Arrives, surroundings

LEMMA PingEndsSound ==
  ASSUME ReadinessIInv, NEW v \in Visits, PingEnds(v) PROVE ReadinessIInv'
<1>1. BelongsTo(v, "connection")
  BY DEF PingEnds, ReadinessIInv, Owned
<1> QED
  BY <1>1, MeasurementSound DEF PingEnds, surroundings

LEMMA PingSound ==
  ASSUME ReadinessIInv, NEW v \in Visits, Ping(v) PROVE ReadinessIInv'
<1> USE DEF ReadinessIInv
<1>1. /\ UNCHANGED <<stage, index, visit, result, awaiting, alive, frames, recent, world, changes,
                     evidence>>
      /\ pings' = pings \cup {v} /\ [by |-> v, what |-> "timer"] \in alive
  BY DEF Ping, surroundings
<1>2. ReadinessTypeOK' /\ WindowsFit'
  BY <1>1 DEF ReadinessTypeOK, WindowsFit
<1>3. BelongsTo(v, "connection")
  BY <1>1 DEF Owned, Place
<1>4. Owned'
  BY <1>1, <1>3, OwnedStays DEF Owned
<1> QED
  BY <1>1, <1>2, <1>4, VerdictStays

LEMMA HearSound ==
  ASSUME ReadinessIInv, NEW v \in Visits, Hear(v) PROVE ReadinessIInv'
<1> USE DEF ReadinessIInv
<1>1. /\ UNCHANGED <<stage, index, visit, awaiting, alive, frames, recent, pings, world, changes>>
      /\ Publish(v, "ok") /\ Observe(v, TRUE) /\ [by |-> v, what |-> "frame"] \in alive
  BY DEF Hear, surroundings
<1>2. Live(v) /\ Step = "microphone"
  BY <1>1 DEF Owned, Place, BelongsTo
<1>3. evidence' \in Seq(Observations) /\ Len(evidence') <= STABLE_SAMPLES /\ result' \in Verdicts
  BY <1>1, ObserveAfter, PublishAfter DEF Statuses
<1>4. ReadinessTypeOK' /\ WindowsFit'
  BY <1>1, <1>3 DEF ReadinessTypeOK, WindowsFit, Observations, Verdicts
<1>5. Owned'
  BY <1>1, OwnedStays DEF Owned
<1>6. VerdictFits'
  BY <1>1, <1>2, VerdictAfter DEF Statuses
<1> QED
  BY <1>4, <1>5, <1>6

LEMMA PollSound ==
  ASSUME ReadinessIInv, NEW v \in Visits, Poll(v) PROVE ReadinessIInv'
<1> USE DEF ReadinessIInv
<1>1. /\ UNCHANGED <<stage, index, visit, result, awaiting, alive, recent, pings, world, changes,
                     evidence>>
      /\ [by |-> v, what |-> "poll"] \in alive
  BY DEF Poll, surroundings
<1>2. BelongsTo(v, "camera")
  BY <1>1 DEF Owned, Place
<1> DEFINE f == [by |-> v, framed |-> world.framed]
<1> DEFINE F == [by: Visits, framed: BOOLEAN]
<1>3. f \in F /\ f.by = v
  BY DEF ReadinessTypeOK
<1>4. frames \in Seq(F) /\ frames' = Append(frames, f)
  BY ReadinessTyped DEF Poll
<1> HIDE DEF f, F
<1>5. /\ frames' \in Seq(F)
      /\ \A n \in DOMAIN frames' : frames'[n] = f \/ (n \in DOMAIN frames /\ frames'[n] = frames[n])
  BY <1>3, <1>4
<1>6. ReadinessTypeOK' /\ WindowsFit'
  BY <1>1, <1>5 DEF ReadinessTypeOK, WindowsFit, F
<1>7. \A n \in DOMAIN frames' : BelongsTo(frames'[n].by, "camera")
  BY <1>2, <1>3, <1>5 DEF Owned
<1>8. Owned'
  BY <1>1, <1>7, OwnedStays
<1> QED
  BY <1>1, <1>6, <1>8, VerdictStays

\* A frame is read: the camera's last verdicts are still its last observations.
LEMMA ReadArrivesSound == ReadinessIInv /\ ReadArrives => ReadinessIInv'
<1> SUFFICES ASSUME ReadinessIInv, ReadArrives PROVE ReadinessIInv'
  OBVIOUS
<1> USE DEF ReadinessIInv
<1> DEFINE F == [by: Visits, framed: BOOLEAN]
<1>1. /\ UNCHANGED <<stage, index, visit, awaiting, alive, pings, world, changes>>
      /\ frames # <<>> /\ frames' = Tail(frames) /\ frames \in Seq(F)
  BY ReadinessTyped DEF ReadArrives, surroundings
<1>2. PICK r \in F : r = Head(frames)
  <2> HIDE DEF F
  <2> QED
    BY <1>1
<1>3. /\ frames' \in Seq(F)
      /\ \A n \in DOMAIN frames' : n + 1 \in DOMAIN frames /\ frames'[n] = frames[n + 1]
  <2> HIDE DEF F
  <2> QED
    BY <1>1
<1>4. r.by \in Visits /\ r.framed \in BOOLEAN /\ BelongsTo(r.by, "camera")
  <2>1. 1 \in DOMAIN frames /\ r = frames[1]
    <3> HIDE DEF F
    <3> QED
      BY <1>1, <1>2
  <2> QED
    BY <2>1 DEF Owned
<1>5. PICK s : s = Kept(Append(recent, r.framed))
  OBVIOUS
<1>6. IF Live(r.by)
      THEN recent' = s /\ Publish(r.by, Status(Settled(s))) /\ Observe(r.by, r.framed)
      ELSE UNCHANGED <<recent, result, evidence>>
  BY <1>2, <1>5 DEF ReadArrives
<1>7. Owned'
  <2>1. \A n \in DOMAIN frames' : BelongsTo(frames'[n].by, "camera")
    BY <1>3 DEF Owned
  <2> QED
    BY <1>1, <2>1, OwnedStays
<1>8. CASE ~Live(r.by)
  <2>1. UNCHANGED <<recent, result, evidence>>
    BY <1>6, <1>8
  <2>2. ReadinessTypeOK' /\ WindowsFit'
    BY <1>1, <1>3, <2>1 DEF ReadinessTypeOK, WindowsFit
  <2> QED
    BY <1>1, <1>7, <2>1, <2>2, VerdictStays
<1>9. CASE Live(r.by)
  <2>1. /\ recent' = s /\ Publish(r.by, Status(Settled(s))) /\ Observe(r.by, r.framed)
        /\ r.by = visit /\ stage = "checks" /\ Step = "camera"
    BY <1>4, <1>6, <1>9 DEF Live, BelongsTo
  <2>2. /\ recent' \in Seq(BOOLEAN) /\ Len(recent') <= STABLE_SAMPLES /\ Len(recent') > 0
        /\ Len(recent') = IF Len(recent) < STABLE_SAMPLES THEN Len(recent) + 1 ELSE STABLE_SAMPLES
        /\ recent'[Len(recent')] = r.framed
        /\ \A k \in 1 .. Len(recent') - 1 :
               recent'[Len(recent') - k] = recent[Len(recent) - (k - 1)]
    <3> DEFINE B == BOOLEAN
               x == r.framed
    <3>1. recent \in Seq(B) /\ STABLE_SAMPLES \in Nat \ {0} /\ Len(recent) <= STABLE_SAMPLES
          /\ x \in B
      BY <1>4, ReadinessTyped DEF WindowsFit
    <3>2. recent' = IF Len(Append(recent, x)) > STABLE_SAMPLES
                    THEN Tail(Append(recent, x)) ELSE Append(recent, x)
      BY <1>5, <2>1 DEF Kept
    <3> HIDE DEF B, x
    <3>3. /\ recent' \in Seq(B) /\ Len(recent') <= STABLE_SAMPLES /\ Len(recent') > 0
          /\ Len(recent') = IF Len(recent) < STABLE_SAMPLES THEN Len(recent) + 1 ELSE STABLE_SAMPLES
          /\ recent'[Len(recent')] = x
          /\ \A k \in 1 .. Len(recent') - 1 :
                 recent'[Len(recent') - k] = recent[Len(recent) - (k - 1)]
      BY <3>1, <3>2, WindowAfter
    <3> QED
      BY <3>3 DEF B, x
  <2>3. /\ evidence' \in Seq(Observations)
        /\ Len(evidence') <= STABLE_SAMPLES /\ Len(evidence') > 0
        /\ Len(evidence') = IF Len(evidence) < STABLE_SAMPLES THEN Len(evidence) + 1
                            ELSE STABLE_SAMPLES
        /\ evidence'[Len(evidence')] = [by |-> visit, good |-> r.framed]
        /\ \A k \in 1 .. Len(evidence') - 1 :
               evidence'[Len(evidence') - k] = evidence[Len(evidence) - (k - 1)]
    BY <1>4, <2>1, ObserveAfter
  <2>4. /\ Len(recent) \in Nat /\ Len(evidence) \in Nat /\ Len(recent') \in Nat
        /\ Len(evidence') \in Nat /\ STABLE_SAMPLES \in Nat \ {0}
        /\ Len(recent) <= STABLE_SAMPLES /\ Len(evidence) <= STABLE_SAMPLES
    BY <2>2, <2>3, ReadinessTyped DEF WindowsFit
  <2>5. Backed
    BY <2>1 DEF VerdictFits
  <2>6. Len(recent') <= Len(evidence')
    BY <2>2, <2>3, <2>4, <2>5 DEF Backed
  <2>7. ASSUME NEW k \in 0 .. Len(recent') - 1
        PROVE  evidence'[Len(evidence') - k] = [by |-> visit, good |-> recent'[Len(recent') - k]]
    <3>1. CASE k = 0
      BY <2>2, <2>3, <2>4, <3>1
    <3>2. CASE k > 0
      <4>1. k \in 1 .. Len(recent') - 1 /\ k \in 1 .. Len(evidence') - 1
            /\ k - 1 \in 0 .. Len(recent) - 1
        BY <2>2, <2>4, <2>6, <3>2
      <4>2. /\ evidence'[Len(evidence') - k] = evidence[Len(evidence) - (k - 1)]
            /\ recent'[Len(recent') - k] = recent[Len(recent) - (k - 1)]
        BY <2>2, <2>3, <4>1
      <4> QED
        BY <2>5, <4>1, <4>2 DEF Backed
    <3> QED
      BY <2>4, <3>1, <3>2
  <2>8. Backed'
    BY <1>1, <2>6, <2>7 DEF Backed
  <2>9. result' = [status |-> Status(Settled(s)), by |-> visit] /\ result' \in Verdicts
    BY <1>4, <1>9, <2>1, PublishAfter DEF Status, Statuses
  <2>10. result'.status = "ok" => Settled(recent')
    BY <2>1, <2>9 DEF Status
  <2>11. VerdictFits'
    BY <1>1, <2>1, <2>8, <2>9, <2>10 DEF VerdictFits, Step
  <2>12. ReadinessTypeOK' /\ WindowsFit'
    BY <1>1, <1>3, <2>2, <2>3, <2>9 DEF ReadinessTypeOK, WindowsFit, Observations, Verdicts
  <2> QED
    BY <1>7, <2>11, <2>12
<1> QED
  BY <1>8, <1>9

(***************************************************************************)
(* The surroundings                                                        *)
(***************************************************************************)
LEMMA ChangeSound == ReadinessIInv /\ Change => ReadinessIInv'
<1> SUFFICES ASSUME ReadinessIInv, Change PROVE ReadinessIInv'
  OBVIOUS
<1> USE DEF ReadinessIInv
<1>1. PICK f \in {"framed", "loud", "near", "allowed", "alone"} :
          Changes([world EXCEPT ![f] = ~world[f]])
  BY DEF Change
<1>2. UNCHANGED <<stage, index, visit, result, awaiting, alive, frames, recent, pings, evidence>>
      /\ changes' = changes + 1 /\ world' = [world EXCEPT ![f] = ~world[f]]
  BY <1>1 DEF Change, Changes
<1>3. ReadinessTypeOK'
  <2>1. world' \in [supported: BOOLEAN, model: BOOLEAN, alone: BOOLEAN, fills: BOOLEAN,
                    framed: BOOLEAN, loud: BOOLEAN, near: BOOLEAN, allowed: BOOLEAN]
    BY <1>2 DEF ReadinessTypeOK
  <2>2. changes' \in Nat
    BY <1>2 DEF ReadinessTypeOK
  <2> QED
    BY <1>2, <2>1, <2>2 DEF ReadinessTypeOK
<1>4. world'.fills = world.fills
  BY <1>2 DEF ReadinessTypeOK
<1>5. WindowsFit'
  BY <1>2 DEF WindowsFit
<1>6. Owned'
  BY <1>2, OwnedStays DEF Owned
<1> QED
  BY <1>2, <1>3, <1>4, <1>5, <1>6, VerdictStays

LEMMA ResizeSound == ReadinessIInv /\ Resize => ReadinessIInv'
<1> SUFFICES ASSUME ReadinessIInv, Resize PROVE ReadinessIInv'
  OBVIOUS
<1> USE DEF ReadinessIInv
<1> DEFINE good == world.alone /\ ~world.fills
<1>1. /\ UNCHANGED <<stage, index, visit, awaiting, alive, frames, recent, pings>>
      /\ changes' = changes + 1 /\ world' = [world EXCEPT !.fills = ~world.fills]
  BY DEF Resize, Changes
<1>2. /\ world' \in [supported: BOOLEAN, model: BOOLEAN, alone: BOOLEAN, fills: BOOLEAN,
                     framed: BOOLEAN, loud: BOOLEAN, near: BOOLEAN, allowed: BOOLEAN]
      /\ changes' \in Nat
      /\ good => world'.fills
  <2> DEFINE W == [supported: BOOLEAN, model: BOOLEAN, alone: BOOLEAN, fills: BOOLEAN,
                   framed: BOOLEAN, loud: BOOLEAN, near: BOOLEAN, allowed: BOOLEAN]
  <2>1. world \in W /\ changes \in Nat
    BY DEF ReadinessTypeOK
  <2>2. world' \in W
    BY <1>1, <2>1
  <2>3. world'.fills = ~world.fills
    BY <1>1, <2>1
  <2> QED
    BY <1>1, <2>1, <2>2, <2>3
<1>3. IF [by |-> visit, what |-> "listener"] \in alive
      THEN Publish(visit, Status(good)) /\ Observe(visit, good)
      ELSE UNCHANGED <<result, evidence>>
  BY DEF Resize
<1>4. /\ good \in BOOLEAN /\ Status(good) \in Statuses
      /\ Status(good) = "ok" => good
  BY DEF Status, Statuses
<1> HIDE DEF good
<1>5. Owned'
  BY <1>1, OwnedStays DEF Owned
<1>6. CASE [by |-> visit, what |-> "listener"] \in alive
  <2>1. Publish(visit, Status(good)) /\ Observe(visit, good) /\ visit \in Visits
    BY <1>3, <1>6, ReadinessTyped
  <2>2. Live(visit) /\ Step = "screen"
    BY <1>6 DEF Owned, BelongsTo, Place
  <2>3. evidence' \in Seq(Observations) /\ Len(evidence') <= STABLE_SAMPLES /\ result' \in Verdicts
    BY <1>4, <2>1, ObserveAfter, PublishAfter
  <2>4. ReadinessTypeOK' /\ WindowsFit'
    BY <1>1, <1>2, <2>3 DEF ReadinessTypeOK, WindowsFit, Observations, Verdicts
  <2>5. VerdictFits'
    BY <1>1, <1>2, <1>4, <2>1, <2>2, VerdictAfter
  <2> QED
    BY <1>5, <2>4, <2>5
<1>7. CASE [by |-> visit, what |-> "listener"] \notin alive
  <2>1. UNCHANGED <<result, evidence>>
    BY <1>3, <1>7
  <2>2. ReadinessTypeOK' /\ WindowsFit'
    BY <1>1, <1>2, <2>1 DEF ReadinessTypeOK, WindowsFit
  <2>3. VerdictFits'
    BY <1>1, <1>7, <2>1 DEF VerdictFits, Step, Fresh, Backed, Settled
  <2> QED
    BY <1>5, <2>2, <2>3
<1> QED
  BY <1>6, <1>7

(***************************************************************************)
(* The theorems                                                            *)
(***************************************************************************)
LEMMA ReadinessStepSound == ReadinessIInv /\ [ReadinessNext]_readiness => ReadinessIInv'
<1> SUFFICES ASSUME ReadinessIInv, [ReadinessNext]_readiness PROVE ReadinessIInv'
  OBVIOUS
<1>1. CASE UNCHANGED readiness
  <2>1. UNCHANGED <<stage, index, visit, result, awaiting, alive, frames, recent, pings, world,
                    changes, evidence>>
    BY <1>1 DEF readiness
  <2>2. ReadinessTypeOK' /\ WindowsFit'
    BY <2>1 DEF ReadinessIInv, ReadinessTypeOK, WindowsFit
  <2>3. Owned' /\ VerdictFits'
    BY <2>1 DEF ReadinessIInv, Owned, BelongsTo, Live, VerdictFits, Step, Fresh, Backed, Settled
  <2> QED
    BY <2>2, <2>3 DEF ReadinessIInv
<1>2. CASE Continue \/ CheckAgain \/ GoBack \/ ReadArrives \/ Change \/ Resize
  BY <1>2, ContinueSound, CheckAgainSound, GoBackSound, ReadArrivesSound, ChangeSound, ResizeSound
<1>3. CASE SplashOver \/ Practised
  BY <1>3, GoesSound DEF SplashOver, Practised
<1>4. ASSUME NEW v \in Visits, Awaited(v) PROVE ReadinessIInv'
  BY <1>4, CameraOpensSound, ModelLoadsSound, MicrophoneOpensSound, MeasuredSound DEF Awaited
<1>5. ASSUME NEW v \in Visits, Observing(v) PROVE ReadinessIInv'
  BY <1>5, PollSound, HearSound, PingSound, PingEndsSound DEF Observing
<1> QED
  BY <1>1, <1>2, <1>3, <1>4, <1>5 DEF ReadinessNext

\* What the visits of the wizard own, and what the verdict on screen rests on, in every state.
THEOREM ReadinessInvariant == ReadinessSpec => []ReadinessIInv
<1>1. ReadinessInit => ReadinessIInv
  BY ReadinessInitSound
<1>2. ReadinessIInv /\ [ReadinessNext]_readiness => ReadinessIInv'
  BY ReadinessStepSound
<1> QED
  BY <1>1, <1>2, PTL DEF ReadinessSpec

\* For any number of samples, visits and frames in flight: a step is passed on what its own
\* visit has observed, and no device outlives the visit that opened it.
THEOREM StepsAlwaysKeepToThemselves == ReadinessSpec => []StepsKeepToThemselves
<1>1. ASSUME ReadinessIInv PROVE DevicesAreReleased
  BY <1>1 DEF ReadinessIInv, Owned, DevicesAreReleased
<1>2. ASSUME ReadinessIInv, Passed PROVE PassIsEarned
  <2>1. result.status = "ok" /\ stage = "checks" /\ result # NoVerdict /\ result.by = visit
        /\ STABLE_SAMPLES \in Nat \ {0}
    BY <1>2, ReadinessTyped DEF Passed, NoVerdict, ReadinessIInv, VerdictFits
  <2>2. Step = "screen" => world.fills
    BY <1>2, <2>1 DEF ReadinessIInv, VerdictFits
  <2>3. CASE Step = "camera"
    <3>1. /\ Backed /\ Settled(recent) /\ Len(recent) <= STABLE_SAMPLES
      BY <1>2, <2>1, <2>3 DEF ReadinessIInv, VerdictFits, WindowsFit
    <3>2. Len(recent) = STABLE_SAMPLES /\ Len(evidence) >= STABLE_SAMPLES
      BY <1>2, <2>1, <3>1, ReadinessTyped DEF Settled, Backed, ReadinessIInv
    <3>3. ASSUME NEW k \in 0 .. STABLE_SAMPLES - 1
          PROVE  evidence[Len(evidence) - k] = [by |-> visit, good |-> TRUE]
      <4>1. evidence[Len(evidence) - k] = [by |-> visit, good |-> recent[Len(recent) - k]]
        BY <3>1, <3>2 DEF Backed
      <4>2. Len(recent) - k \in DOMAIN recent
        BY <1>2, <2>1, <3>2, ReadinessTyped DEF ReadinessIInv
      <4>3. recent[Len(recent) - k] \in BOOLEAN /\ recent[Len(recent) - k]
        BY <1>2, <3>1, <4>2, ReadinessTyped DEF Settled, ReadinessIInv
      <4>4. recent[Len(recent) - k] = TRUE
        BY <4>3
      <4> QED
        BY <4>1, <4>4
    <3> QED
      BY <2>1, <2>2, <2>3, <3>2, <3>3 DEF PassIsEarned
  <2>4. CASE Step # "camera"
    <3>1. Len(evidence) >= 1 /\ evidence[Len(evidence)] = [by |-> visit, good |-> TRUE]
      BY <1>2, <2>1, <2>4, ReadinessTyped DEF ReadinessIInv, VerdictFits, Fresh
    <3>2. \A k \in 0 .. 0 : evidence[Len(evidence) - k] = [by |-> visit, good |-> TRUE]
      BY <1>2, <3>1, ReadinessTyped DEF ReadinessIInv
    <3> QED
      BY <2>1, <2>2, <2>4, <3>1, <3>2 DEF PassIsEarned
  <2> QED
    BY <2>3, <2>4
<1>3. ASSUME ReadinessIInv PROVE StepsKeepToThemselves
  BY <1>1, <1>2, <1>3 DEF StepsKeepToThemselves, PassIsEarned
<1> QED
  BY <1>3, ReadinessInvariant, PTL

(***************************************************************************)
(* Verdict: sums over finite sets                                          *)
(***************************************************************************)
\* Induction on the naturals, stated of a set of them.
LEMMA EveryNumber ==
    ASSUME NEW T, 0 \in T, \A n \in Nat : n \in T => n + 1 \in T
    PROVE  Nat \subseteq T
<1> DEFINE R == {ss \in Nat \X Nat : ss[1] < ss[2]}
           Others == Nat \ T
<1> SUFFICES ASSUME Others # {} PROVE FALSE
  OBVIOUS
<1>1. IsWellFoundedOn(R, Nat)
  BY NatLessThanWellFounded DEF OpToRel
<1>2. \E m \in Others : \A k \in Others : ~(<<k, m>> \in R)
  <2>1. Others \subseteq Nat
    OBVIOUS
  <2> HIDE DEF R, Others
  <2> QED
    BY <1>1, <2>1, WFMin
<1>3. PICK m \in Others : \A k \in Others : ~(<<k, m>> \in R)
  BY <1>2
<1>4. m \in Nat \ {0} /\ m \notin T
  BY <1>3
<1>5. m - 1 \in Nat /\ m - 1 < m
  BY <1>4
<1>6. m - 1 \in T
  BY <1>3, <1>4, <1>5
<1>7. (m - 1) + 1 = m
  BY <1>4
<1> QED
  BY <1>4, <1>5, <1>6, <1>7

\* Induction on the subsets of a finite set, of a set of them.
LEMMA EverySubset ==
    ASSUME NEW S, IsFiniteSet(S), NEW F, {} \in F,
           \A T \in SUBSET S : T # {} /\ (\A x \in T : T \ {x} \in F) => T \in F
    PROVE  \A T \in SUBSET S : T \in F
<1> DEFINE Sizes == {n \in Nat : \A T \in SUBSET S : Cardinality(T) = n => T \in F}
<1>1. \A T \in SUBSET S : IsFiniteSet(T) /\ Cardinality(T) \in Nat
  BY FS_Subset, FS_CardinalityType
<1>2. 0 \in Sizes
  BY <1>1, FS_EmptySet
<1>3. ASSUME NEW n \in Nat, n \in Sizes PROVE n + 1 \in Sizes
  <2> SUFFICES ASSUME NEW T \in SUBSET S, Cardinality(T) = n + 1 PROVE T \in F
    OBVIOUS
  <2>1. T # {}
    BY <1>1, FS_EmptySet
  <2>2. ASSUME NEW x \in T PROVE T \ {x} \in F
    <3>1. Cardinality(T \ {x}) = n
      BY <1>1, FS_RemoveElement
    <3> QED
      BY <1>3, <3>1
  <2> QED
    BY <2>1, <2>2
<1>4. Nat \subseteq Sizes
  <2> HIDE DEF Sizes
  <2> QED
    BY <1>2, <1>3, EveryNumber
<1> QED
  BY <1>1, <1>4

\* The values a function has on a finite set are finitely many.
LEMMA ImageIsFinite ==
    ASSUME NEW S, IsFiniteSet(S), NEW f
    PROVE  IsFiniteSet({f[x] : x \in S})
<1> DEFINE F == {T \in SUBSET S : IsFiniteSet({f[x] : x \in T})}
<1>1. {} \in F
  <2>1. {f[x] : x \in {}} = {}
    OBVIOUS
  <2> QED
    BY <2>1, FS_EmptySet
<1>2. \A T \in SUBSET S : T # {} /\ (\A x \in T : T \ {x} \in F) => T \in F
  <2> SUFFICES ASSUME NEW T \in SUBSET S, T # {}, \A x \in T : T \ {x} \in F PROVE T \in F
    OBVIOUS
  <2>1. PICK e : e \in T
    OBVIOUS
  <2>2. IsFiniteSet({f[x] : x \in T \ {e}} \cup {f[e]})
    <3>1. PICK rest : rest = {f[x] : x \in T \ {e}}
      OBVIOUS
    <3>2. IsFiniteSet(rest)
      BY <2>1, <3>1
    <3>3. IsFiniteSet(rest \cup {f[e]})
      BY <3>2, FS_AddElement
    <3> QED
      BY <3>1, <3>3
  <2>3. {f[x] : x \in T} = {f[x] : x \in T \ {e}} \cup {f[e]}
    BY <2>1
  <2> QED
    BY <2>2, <2>3
<1> HIDE DEF F
<1>3. \A T \in SUBSET S : T \in F
  BY <1>1, <1>2, EverySubset
<1>4. S \in F
  BY <1>3
<1> QED
  BY <1>4 DEF F

Picked(s) == CHOOSE x \in s : TRUE

\* The recursion by which a sum over S is defined.
SumsTo(h, g, S) ==
    h = [s \in SUBSET S |-> IF s = {} THEN 0
                            ELSE g[CHOOSE x \in s : TRUE] + h[s \ {CHOOSE x \in s : TRUE}]]

\* A running total can be defined, so the fold is one.
LEMMA SumsToExists ==
    ASSUME NEW g, NEW S, IsFiniteSet(S)
    PROVE  \E h : SumsTo(h, g, S)
<1> DEFINE Term(h, s) == IF s = {} THEN 0 ELSE g[Picked(s)] + h[s \ {Picked(s)}]
           UpTo(h, n) == \A s \in SUBSET S : Cardinality(s) <= n => h[s] = Term(h, s)
           Sizes == {n \in Nat : \E h : UpTo(h, n)}
<1>1. \A s \in SUBSET S : IsFiniteSet(s) /\ Cardinality(s) \in Nat /\ Cardinality(s) <= Cardinality(S)
  BY FS_Subset, FS_CardinalityType
<1>2. \A s \in SUBSET S : s # {} => Picked(s) \in s
  BY DEF Picked
<1>3. ASSUME NEW s \in SUBSET S, s # {}
      PROVE  s \ {Picked(s)} \in SUBSET S /\ Cardinality(s \ {Picked(s)}) = Cardinality(s) - 1
  BY <1>1, <1>2, <1>3, FS_RemoveElement
<1>4. 0 \in Sizes
  <2>1. UpTo([s \in SUBSET S |-> 0], 0)
    BY <1>1, FS_EmptySet
  <2> QED
    BY <2>1
<1>5. ASSUME NEW n \in Nat, n \in Sizes PROVE n + 1 \in Sizes
  <2>1. PICK h : UpTo(h, n)
    BY <1>5
  <2> DEFINE k == [s \in SUBSET S |-> IF Cardinality(s) <= n THEN h[s] ELSE Term(h, s)]
  <2>2. ASSUME NEW s \in SUBSET S, Cardinality(s) <= n + 1 PROVE k[s] = Term(k, s)
    <3>1. k[s] = Term(h, s)
      BY <2>1
    <3>2. s # {} => k[s \ {Picked(s)}] = h[s \ {Picked(s)}]
      BY <1>1, <1>3, <2>2
    <3> QED
      BY <3>1, <3>2
  <2>3. UpTo(k, n + 1)
    BY <2>2
  <2> HIDE DEF UpTo, k
  <2> QED
    BY <2>3
<1>6. Cardinality(S) \in Sizes
  <2>1. Nat \subseteq Sizes
    <3> HIDE DEF Sizes
    <3> QED
      BY <1>4, <1>5, EveryNumber
  <2> QED
    BY <1>1, <2>1
<1>7. PICK h : UpTo(h, Cardinality(S))
  BY <1>6
<1> DEFINE k == [s \in SUBSET S |-> h[s]]
<1>8. ASSUME NEW s \in SUBSET S PROVE k[s] = Term(k, s)
  <2>1. k[s] = Term(h, s)
    BY <1>1, <1>7
  <2>2. s # {} => k[s \ {Picked(s)}] = h[s \ {Picked(s)}]
    BY <1>3
  <2> QED
    BY <2>1, <2>2
<1>9. k = [s \in SUBSET S |-> Term(k, s)]
  <2>1. k = [s \in SUBSET S |-> k[s]]
    OBVIOUS
  <2> HIDE DEF k
  <2> QED
    BY <1>8, <2>1
<1>10. SumsTo(k, g, S)
  <2> HIDE DEF k
  <2> QED
    BY <1>9 DEF SumsTo, Picked
<1> QED
  BY <1>10

\* The sum the model takes is such a running total.
LEMMA SumIsSound ==
    ASSUME NEW g, NEW S, IsFiniteSet(S)
    PROVE  \E h : SumsTo(h, g, S) /\ SumFunctionOnSet(g, S) = h[S]
<1> DEFINE h == CHOOSE h : SumsTo(h, g, S)
<1>1. SumsTo(h, g, S)
  BY SumsToExists
<1>2. SumFunctionOnSet(g, S) = h[S]
  BY DEF SumFunctionOnSet, FoldFunctionOnSet, MapThenFoldSet, SumsTo
<1> QED
  BY <1>1, <1>2

\* On a smaller set the recursion gives the same.
\* A running total does not depend on the set it is a part of.
LEMMA SumsAgree ==
    ASSUME NEW g, NEW S, IsFiniteSet(S), NEW T \in SUBSET S,
           NEW h, SumsTo(h, g, S), NEW k, SumsTo(k, g, T)
    PROVE  h[T] = k[T]
<1> DEFINE F == {s \in SUBSET T : h[s] = k[s]}
<1>1. {} \in F
  BY DEF SumsTo
<1>2. ASSUME NEW s \in SUBSET T, s # {}, \A x \in s : s \ {x} \in F PROVE s \in F
  <2>1. Picked(s) \in s
    BY <1>2 DEF Picked
  <2>2. h[s \ {Picked(s)}] = k[s \ {Picked(s)}]
    BY <1>2, <2>1
  <2>3. h[s] = g[Picked(s)] + h[s \ {Picked(s)}]
    BY <1>2 DEF SumsTo, Picked
  <2>4. k[s] = g[Picked(s)] + k[s \ {Picked(s)}]
    BY <1>2 DEF SumsTo, Picked
  <2> QED
    BY <2>2, <2>3, <2>4
<1>3. IsFiniteSet(T)
  BY FS_Subset
<1>4. \A s \in SUBSET T : s \in F
  <2> HIDE DEF F
  <2> QED
    BY <1>1, <1>2, <1>3, EverySubset
<1> QED
  BY <1>4

\* The sum of nothing, and one term put apart: the one the fold takes first.
LEMMA SumOfNone == ASSUME NEW g PROVE SumFunctionOnSet(g, {}) = 0
<1>1. PICK h : SumsTo(h, g, {}) /\ SumFunctionOnSet(g, {}) = h[{}]
  BY SumIsSound, FS_EmptySet
<1> QED
  BY <1>1 DEF SumsTo

\* A sum is its first term and the sum of the others ...
LEMMA SumFirst ==
    ASSUME NEW g, NEW S, IsFiniteSet(S), S # {}
    PROVE  SumFunctionOnSet(g, S) = g[Picked(S)] + SumFunctionOnSet(g, S \ {Picked(S)})
<1> DEFINE T == S \ {Picked(S)}
<1>1. PICK h : SumsTo(h, g, S) /\ SumFunctionOnSet(g, S) = h[S]
  BY SumIsSound
<1>2. T \in SUBSET S /\ IsFiniteSet(T)
  BY FS_Subset
<1>3. PICK k : SumsTo(k, g, T) /\ SumFunctionOnSet(g, T) = k[T]
  BY <1>2, SumIsSound
<1>4. h[T] = k[T]
  BY <1>1, <1>2, <1>3, SumsAgree
<1>5. h[S] = g[Picked(S)] + h[T]
  BY <1>1 DEF SumsTo, Picked
<1> QED
  BY <1>1, <1>3, <1>4, <1>5

LEMMA SumIsInt ==
    ASSUME NEW g, NEW S, IsFiniteSet(S), \A x \in S : g[x] \in Int
    PROVE  SumFunctionOnSet(g, S) \in Int
<1> DEFINE F == {T \in SUBSET S : SumFunctionOnSet(g, T) \in Int}
<1>1. {} \in F
  BY SumOfNone
<1>2. ASSUME NEW T \in SUBSET S, T # {}, \A x \in T : T \ {x} \in F PROVE T \in F
  <2>1. Picked(T) \in T /\ IsFiniteSet(T)
    BY <1>2, FS_Subset DEF Picked
  <2>2. SumFunctionOnSet(g, T \ {Picked(T)}) \in Int /\ g[Picked(T)] \in Int
    BY <1>2, <2>1
  <2>3. SumFunctionOnSet(g, T) = g[Picked(T)] + SumFunctionOnSet(g, T \ {Picked(T)})
    BY <1>2, <2>1, SumFirst
  <2> QED
    BY <2>2, <2>3
<1>3. S \in F
  <2>1. \A T \in SUBSET S : T # {} /\ (\A x \in T : T \ {x} \in F) => T \in F
    BY <1>2
  <2> HIDE DEF F
  <2>2. \A T \in SUBSET S : T \in F
    BY <1>1, <2>1, EverySubset
  <2> QED
    BY <2>2
<1> QED
  BY <1>3

\* Any term can be put apart.
\* ... and any term and the sum of the others.
LEMMA SumWithout ==
    ASSUME NEW g, NEW S, IsFiniteSet(S), \A x \in S : g[x] \in Int, NEW e \in S
    PROVE  SumFunctionOnSet(g, S) = g[e] + SumFunctionOnSet(g, S \ {e})
<1> DEFINE Total(T) == SumFunctionOnSet(g, T)
           F == {T \in SUBSET S : \A x \in T : Total(T) = g[x] + Total(T \ {x})}
<1>1. {} \in F
  OBVIOUS
<1>2. ASSUME NEW T \in SUBSET S, T # {}, \A x \in T : T \ {x} \in F PROVE T \in F
  <2> DEFINE c == Picked(T)
  <2>1. c \in T /\ IsFiniteSet(T)
    BY <1>2, FS_Subset DEF Picked
  <2>2. Total(T) = g[c] + Total(T \ {c})
    BY <1>2, <2>1, SumFirst
  <2> HIDE DEF c
  <2>3. ASSUME NEW x \in T, x # c PROVE Total(T) = g[x] + Total(T \ {x})
    <3>1. PICK rest : rest = (T \ {c}) \ {x}
      OBVIOUS
    <3>2. (T \ {x}) \ {c} = rest
      BY <3>1
    <3>3. Total(T \ {c}) = g[x] + Total(rest)
      BY <1>2, <2>1, <2>3, <3>1
    <3>4. Total(T \ {x}) = g[c] + Total(rest)
      BY <1>2, <2>1, <2>3, <3>2
    <3>5. Total(rest) \in Int
      <4>1. IsFiniteSet(rest) /\ rest \subseteq S
        BY <2>1, <3>1, FS_Subset
      <4> QED
        BY <4>1, SumIsInt
    <3>6. g[x] \in Int /\ g[c] \in Int
      BY <2>1
    <3> HIDE DEF Total
    <3> QED
      BY <2>2, <3>3, <3>4, <3>5, <3>6
  <2> QED
    BY <2>2, <2>3
<1>3. S \in F
  <2>1. \A T \in SUBSET S : T # {} /\ (\A x \in T : T \ {x} \in F) => T \in F
    BY <1>2
  <2> HIDE DEF F
  <2>2. \A T \in SUBSET S : T \in F
    BY <1>1, <2>1, EverySubset
  <2> QED
    BY <2>2
<1> QED
  BY <1>3

\* Terms that are matched one to one, each with one that is no less.
LEMMA SumGrows ==
    ASSUME NEW S, IsFiniteSet(S), NEW T, NEW g, NEW h, NEW f \in [S -> T],
           \A x, y \in S : f[x] = f[y] => x = y,
           \A y \in T : \E x \in S : f[x] = y,
           \A x \in S : g[x] \in Int,
           \A y \in T : h[y] \in Int,
           \A x \in S : g[x] <= h[f[x]]
    PROVE  SumFunctionOnSet(g, S) <= SumFunctionOnSet(h, T)
<1> DEFINE Image(R) == {f[x] : x \in R}
           Before(R) == SumFunctionOnSet(g, R)
           After(R) == SumFunctionOnSet(h, Image(R))
           F == {R \in SUBSET S : Before(R) <= After(R)}
<1>1. {} \in F
  <2>1. Image({}) = {}
    OBVIOUS
  <2> QED
    BY <2>1, SumOfNone
<1>2. ASSUME NEW R \in SUBSET S, R # {}, \A x \in R : R \ {x} \in F PROVE R \in F
  <2>1. PICK e : e \in R
    BY <1>2
  <2>2. IsFiniteSet(R) /\ IsFiniteSet(Image(R)) /\ IsFiniteSet(R \ {e}) /\ IsFiniteSet(Image(R \ {e}))
    <3>1. IsFiniteSet(R) /\ IsFiniteSet(R \ {e})
      BY FS_Subset
    <3> QED
      BY <3>1, ImageIsFinite
  <2>3. Image(R) \ {f[e]} = Image(R \ {e}) /\ Image(R) \subseteq T /\ f[e] \in Image(R)
    BY <2>1
  <2>4. Before(R) = g[e] + Before(R \ {e})
    BY <2>1, <2>2, SumWithout
  <2>5. After(R) = h[f[e]] + After(R \ {e})
    <3>1. \A y \in Image(R) : h[y] \in Int
      BY <2>3
    <3> HIDE DEF Image
    <3>2. SumFunctionOnSet(h, Image(R)) = h[f[e]] + SumFunctionOnSet(h, Image(R) \ {f[e]})
      BY <2>2, <2>3, <3>1, SumWithout
    <3> QED
      BY <2>3, <3>2
  <2>6. Before(R \ {e}) <= After(R \ {e})
    BY <1>2, <2>1
  <2>7. Before(R \ {e}) \in Int /\ After(R \ {e}) \in Int
    <3>1. \A y \in Image(R \ {e}) : h[y] \in Int
      BY <2>3
    <3> HIDE DEF Image
    <3> QED
      BY <2>2, <3>1, SumIsInt
  <2>8. g[e] \in Int /\ h[f[e]] \in Int /\ g[e] <= h[f[e]]
    BY <2>1
  <2> HIDE DEF Before, After
  <2> QED
    BY <2>4, <2>5, <2>6, <2>7, <2>8
<1>3. S \in F
  <2>1. \A R \in SUBSET S : R # {} /\ (\A x \in R : R \ {x} \in F) => R \in F
    BY <1>2
  <2> HIDE DEF F
  <2>2. \A R \in SUBSET S : R \in F
    BY <1>1, <2>1, EverySubset
  <2> QED
    BY <2>2
<1>4. Image(S) = T
  OBVIOUS
<1> QED
  BY <1>3, <1>4

\* Terms in proportion to others.
LEMMA SumInProportion ==
    ASSUME NEW S, IsFiniteSet(S), NEW g, NEW h, NEW c \in Int,
           \A x \in S : g[x] \in Int /\ h[x] \in Int /\ g[x] <= c * h[x]
    PROVE  SumFunctionOnSet(g, S) <= c * SumFunctionOnSet(h, S)
<1> DEFINE G(R) == SumFunctionOnSet(g, R)
           H(R) == SumFunctionOnSet(h, R)
           F == {R \in SUBSET S : G(R) <= c * H(R)}
<1>1. {} \in F
  BY SumOfNone
<1>2. ASSUME NEW R \in SUBSET S, R # {}, \A x \in R : R \ {x} \in F PROVE R \in F
  <2>1. PICK e : e \in R
    BY <1>2
  <2>2. IsFiniteSet(R) /\ IsFiniteSet(R \ {e})
    BY FS_Subset
  <2>3. G(R) = g[e] + G(R \ {e}) /\ H(R) = h[e] + H(R \ {e})
    BY <2>1, <2>2, SumWithout
  <2>4. G(R \ {e}) \in Int /\ H(R \ {e}) \in Int
    BY <2>2, SumIsInt
  <2>5. G(R \ {e}) <= c * H(R \ {e})
    BY <1>2, <2>1
  <2>6. g[e] \in Int /\ h[e] \in Int /\ g[e] <= c * h[e]
    BY <2>1
  <2> HIDE DEF G, H
  <2>7. c * (h[e] + H(R \ {e})) = c * h[e] + c * H(R \ {e})
    BY <2>4, <2>6
  <2> QED
    BY <2>3, <2>4, <2>5, <2>6, <2>7
<1>3. S \in F
  <2>1. \A T \in SUBSET S : T # {} /\ (\A x \in T : T \ {x} \in F) => T \in F
    BY <1>2
  <2> HIDE DEF F
  <2>2. \A T \in SUBSET S : T \in F
    BY <1>1, <2>1, EverySubset
  <2> QED
    BY <2>2
<1> QED
  BY <1>3

(***************************************************************************)
(* Verdict: rounding, confidences and weights                              *)
(***************************************************************************)
LEMMA QuotientBounds ==
    ASSUME NEW n \in Int, NEW d \in Nat \ {0}
    PROVE  n \div d \in Int /\ d * (n \div d) <= n /\ n < d * (n \div d) + d
OBVIOUS

LEMMA QuotientGrows ==
    ASSUME NEW a \in Int, NEW b \in Int, NEW d \in Nat \ {0}, a <= b
    PROVE  a \div d <= b \div d
<1> DEFINE q == a \div d
           r == b \div d
<1>1. q \in Int /\ d * q <= a /\ r \in Int /\ b < d * r + d
  BY QuotientBounds
<1> HIDE DEF q, r
<1> SUFFICES ASSUME r + 1 <= q PROVE FALSE
  BY <1>1 DEF q, r
<1>2. d * (r + 1) <= d * q
  BY <1>1
<1>3. d * (r + 1) = d * r + d
  BY <1>1
<1> QED
  BY <1>1, <1>2, <1>3

\* Rounding keeps the order of what it rounds.
LEMMA RoundingGrows ==
    ASSUME NEW a \in Int, NEW b \in Int, NEW d \in Nat \ {0}, a <= b
    PROVE  RoundDiv(a, d) \in Int /\ RoundDiv(a, d) <= RoundDiv(b, d)
<1>1. 2 * d \in Nat \ {0} /\ 2 * a + d \in Int /\ 2 * b + d \in Int /\ 2 * a + d <= 2 * b + d
  OBVIOUS
<1> QED
  BY <1>1, QuotientGrows, QuotientBounds DEF RoundDiv

\* A mean of values up to c is c at most once it is rounded.
LEMMA RoundingIsBounded ==
    ASSUME NEW n \in Int, NEW c \in Int, NEW d \in Nat \ {0}, n <= c * d
    PROVE  RoundDiv(n, d) <= c
<1> DEFINE q == (2 * n + d) \div (2 * d)
<1>1. 2 * d \in Nat \ {0} /\ 2 * n + d \in Int
  OBVIOUS
<1>2. q \in Int /\ 2 * d * q <= 2 * n + d
  BY <1>1, QuotientBounds
<1>3. RoundDiv(n, d) = q
  BY DEF RoundDiv
<1> HIDE DEF q
<1> SUFFICES ASSUME c + 1 <= q PROVE FALSE
  BY <1>2, <1>3
<1>4. 2 * d * (c + 1) <= 2 * d * q
  BY <1>2
<1>5. 2 * d * (c + 1) = 2 * (c * d) + 2 * d
  OBVIOUS
<1>6. c * d \in Int
  OBVIOUS
<1> QED
  BY <1>2, <1>4, <1>5, <1>6

\* Three answers and more make a full confidence.
LEMMA ConfidenceLevels ==
    {TraitConfidence(n) : n \in 0 .. TargetQuestions} = {0, 33, 67, 100}
<1>1. TraitConfidence(0) = 0 /\ TraitConfidence(1) = 33 /\ TraitConfidence(2) = 67 /\ TraitConfidence(3) = 100
  BY DEF TraitConfidence, RoundDiv, Clamp, TargetQuestions
<1>2. 0 .. TargetQuestions = {0, 1, 2, 3}
  BY DEF TargetQuestions
<1> QED
  BY <1>1, <1>2

LEMMA ConfidenceIsALevel ==
    ASSUME NEW n \in Nat
    PROVE  TraitConfidence(n) \in {TraitConfidence(k) : k \in 0 .. TargetQuestions}
<1>1. Clamp(n, 0, TargetQuestions) \in 0 .. TargetQuestions
  BY DEF Clamp, TargetQuestions
<1>2. \A k \in 0 .. TargetQuestions : Clamp(k, 0, TargetQuestions) = k
  BY DEF Clamp, TargetQuestions
<1>3. TraitConfidence(n) = TraitConfidence(Clamp(n, 0, TargetQuestions))
  BY <1>1, <1>2 DEF TraitConfidence
<1> QED
  BY <1>1, <1>3

LEMMA WeightsFit ==
    ASSUME NEW p \in Profiles
    PROVE  \A k \in DOMAIN Weights[p] : Weights[p][k] \in 1 .. 100
<1>1. p \in {"leadership_readiness", "collaboration", "reliability", "resilience_under_pressure",
             "integrity_judgment"}
  BY DEF Profiles, Weights
<1>2. CASE p = "leadership_readiness"
  BY <1>2 DEF Weights
<1>3. CASE p = "collaboration"
  BY <1>3 DEF Weights
<1>4. CASE p = "reliability"
  BY <1>4 DEF Weights
<1>5. CASE p = "resilience_under_pressure"
  BY <1>5 DEF Weights
<1>6. CASE p = "integrity_judgment"
  BY <1>6 DEF Weights
<1> QED
  BY <1>1, <1>2, <1>3, <1>4, <1>5, <1>6

LEMMA ProfilesAreFinite == IsFiniteSet(Profiles)
<1>1. Profiles = {"leadership_readiness", "collaboration", "reliability", "resilience_under_pressure"}
                    \cup {"integrity_judgment"}
  BY DEF Profiles, Weights
<1>2. IsFiniteSet({"leadership_readiness"} \cup {"collaboration"})
  BY FS_Singleton, FS_AddElement
<1>3. IsFiniteSet(({"leadership_readiness"} \cup {"collaboration"}) \cup {"reliability"})
  BY <1>2, FS_AddElement
<1>4. IsFiniteSet((({"leadership_readiness"} \cup {"collaboration"}) \cup {"reliability"})
                    \cup {"resilience_under_pressure"})
  BY <1>3, FS_AddElement
<1>5. IsFiniteSet(((({"leadership_readiness"} \cup {"collaboration"}) \cup {"reliability"})
                    \cup {"resilience_under_pressure"}) \cup {"integrity_judgment"})
  BY <1>4, FS_AddElement
<1>6. Profiles = ((({"leadership_readiness"} \cup {"collaboration"}) \cup {"reliability"})
                    \cup {"resilience_under_pressure"}) \cup {"integrity_judgment"}
  BY <1>1
<1> QED
  BY <1>5, <1>6

(***************************************************************************)
(* Verdict: composites                                                     *)
(***************************************************************************)
Levels == {TraitConfidence(n) : n \in 0 .. TargetQuestions}

\* The entries of a report's traits.
Entries == [key : UNION Vocabularies, section : DOMAIN Sections, score : 0 .. 1000, confidence : Levels]

TraitsFit(ts) ==
    /\ IsFiniteSet(ts) /\ ts \subseteq Entries
    /\ \A t, u \in ts : t.key = u.key /\ t.section = u.section => t = u

\* What a composite is a mean of.
PresentFit(p, ps) ==
    /\ IsFiniteSet(ps) /\ ps \subseteq Entries
    /\ \A t \in ps : t.key \in DOMAIN Weights[p] /\ t.confidence > 0
    /\ \A t, u \in ps : t.key = u.key => t = u

\* Of several entries of a trait only the last section's is present.
LEMMA PresentIsFit ==
    ASSUME NEW ts, TraitsFit(ts), NEW p \in Profiles
    PROVE  PresentFit(p, Present(p, ts)) /\ Present(p, ts) \subseteq ts
<1> DEFINE P == Present(p, ts)
<1>1. P \subseteq ts
  BY DEF Present, ByKey
<1>2. IsFiniteSet(P)
  BY <1>1, FS_Subset DEF TraitsFit
<1>3. \A t \in P : t.key \in DOMAIN Weights[p] /\ t.confidence > 0
  BY DEF Present
<1>4. ASSUME NEW t \in P, NEW u \in P, t.key = u.key PROVE t = u
  <2>1. t \in ts /\ u \in ts /\ u.section <= t.section /\ t.section <= u.section
    BY <1>4 DEF Present, ByKey
  <2>2. t.section \in Int /\ u.section \in Int
    <3>1. t.section \in DOMAIN Sections /\ u.section \in DOMAIN Sections
      BY <2>1 DEF TraitsFit, Entries
    <3>2. DOMAIN Sections \subseteq Int
      BY VerdictAssumption
    <3> QED
      BY <3>1, <3>2
  <2>3. t.section = u.section
    BY <2>1, <2>2
  <2> QED
    BY <1>4, <2>1, <2>3 DEF TraitsFit
<1> QED
  BY <1>1, <1>2, <1>3, <1>4 DEF PresentFit, TraitsFit

\* The three sums of a composite.
Weigh(p, ps) == SumFunctionOnSet([t \in ps |-> Weights[p][t.key]], ps)
ScoreSum(p, ps) == SumFunctionOnSet([t \in ps |-> Weights[p][t.key] * t.score], ps)
TrustSum(p, ps) == SumFunctionOnSet([t \in ps |-> Weights[p][t.key] * t.confidence], ps)

\* A composite in the terms of its three sums.
LEMMA CompositeIs ==
    ASSUME NEW ts, NEW p, NEW ps, ps = Present(p, ts)
    PROVE  Composite(p, ts) =
             LET reportable == TrustSum(p, ps) >= MinTraitConfidence * Weigh(p, ps)
             IN  [key |-> p,
                  score |-> IF reportable THEN RoundDiv(ScoreSum(p, ps), Weigh(p, ps)) ELSE None,
                  band |-> IF reportable THEN BandFor(ScoreSum(p, ps), Weigh(p, ps)) ELSE None,
                  confidence |-> RoundDiv(TrustSum(p, ps), Weigh(p, ps))]
<1>1. SumFunction([t \in ps |-> Weights[p][t.key]]) = Weigh(p, ps)
  BY DEF SumFunction, Weigh
<1>2. SumFunction([t \in ps |-> Weights[p][t.key] * t.score]) = ScoreSum(p, ps)
  BY DEF SumFunction, ScoreSum
<1>3. SumFunction([t \in ps |-> Weights[p][t.key] * t.confidence]) = TrustSum(p, ps)
  BY DEF SumFunction, TrustSum
<1> QED
  BY <1>1, <1>2, <1>3 DEF Composite

LEMMA SumIsNat ==
    ASSUME NEW g, NEW S, IsFiniteSet(S), \A x \in S : g[x] \in Nat
    PROVE  SumFunctionOnSet(g, S) \in Nat
<1> DEFINE F == {T \in SUBSET S : SumFunctionOnSet(g, T) \in Nat}
<1>1. {} \in F
  BY SumOfNone
<1>2. ASSUME NEW T \in SUBSET S, T # {}, \A x \in T : T \ {x} \in F PROVE T \in F
  <2>1. Picked(T) \in T /\ IsFiniteSet(T)
    BY <1>2, FS_Subset DEF Picked
  <2>2. SumFunctionOnSet(g, T \ {Picked(T)}) \in Nat /\ g[Picked(T)] \in Nat
    BY <1>2, <2>1
  <2>3. SumFunctionOnSet(g, T) = g[Picked(T)] + SumFunctionOnSet(g, T \ {Picked(T)})
    BY <1>2, <2>1, SumFirst
  <2> QED
    BY <2>2, <2>3
<1>3. S \in F
  <2>1. \A T \in SUBSET S : T # {} /\ (\A x \in T : T \ {x} \in F) => T \in F
    BY <1>2
  <2> HIDE DEF F
  <2>2. \A T \in SUBSET S : T \in F
    BY <1>1, <2>1, EverySubset
  <2> QED
    BY <2>2
<1> QED
  BY <1>3

LEMMA TermsAreNat ==
    ASSUME NEW p \in Profiles, NEW ps, PresentFit(p, ps), NEW t \in ps
    PROVE  /\ Weights[p][t.key] \in 1 .. 100
           /\ Weights[p][t.key] \in Nat /\ t.score \in Nat
           /\ t.score \in 0 .. 1000 /\ t.confidence \in Levels /\ t.confidence \in 0 .. 100
           /\ Weights[p][t.key] * t.score \in Nat /\ Weights[p][t.key] * t.confidence \in Nat
<1>1. t \in Entries /\ t.key \in DOMAIN Weights[p]
  BY DEF PresentFit
<1>2. Weights[p][t.key] \in 1 .. 100
  BY <1>1, WeightsFit
<1>3. t.score \in 0 .. 1000 /\ t.confidence \in Levels
  BY <1>1 DEF Entries
<1>4. t.confidence \in 0 .. 100
  BY <1>3, ConfidenceLevels DEF Levels
<1>5. \A a, b \in Nat : a * b \in Nat
  OBVIOUS
<1>6. Weights[p][t.key] \in Nat /\ t.score \in Nat /\ t.confidence \in Nat
  <2>1. Weights[p][t.key] \in Nat
    BY <1>2
  <2>2. t.score \in Nat
    BY <1>3
  <2>3. t.confidence \in Nat
    BY <1>4
  <2> QED
    BY <2>1, <2>2, <2>3
<1>7. Weights[p][t.key] * t.score \in Nat /\ Weights[p][t.key] * t.confidence \in Nat
  BY <1>5, <1>6
<1> QED
  BY <1>2, <1>3, <1>4, <1>6, <1>7

LEMMA SumsOfComposite ==
    ASSUME NEW p \in Profiles, NEW ps, PresentFit(p, ps), ps # {}
    PROVE  Weigh(p, ps) \in Nat \ {0} /\ ScoreSum(p, ps) \in Nat /\ TrustSum(p, ps) \in Nat
<1> DEFINE w == [t \in ps |-> Weights[p][t.key]]
<1>1. IsFiniteSet(ps)
  BY DEF PresentFit
<1>2. ScoreSum(p, ps) \in Nat
  <2> DEFINE g == [t \in ps |-> Weights[p][t.key] * t.score]
  <2>1. \A t \in ps : g[t] \in Nat
    BY TermsAreNat
  <2> HIDE DEF g
  <2>2. SumFunctionOnSet(g, ps) \in Nat
    BY <1>1, <2>1, SumIsNat
  <2> QED
    BY <2>2 DEF ScoreSum, g
<1>3. TrustSum(p, ps) \in Nat
  <2> DEFINE g == [t \in ps |-> Weights[p][t.key] * t.confidence]
  <2>1. \A t \in ps : g[t] \in Nat
    BY TermsAreNat
  <2> HIDE DEF g
  <2>2. SumFunctionOnSet(g, ps) \in Nat
    BY <1>1, <2>1, SumIsNat
  <2> QED
    BY <2>2 DEF TrustSum, g
<1>4. Weigh(p, ps) \in Nat \ {0}
  <2>1. PICK e : e \in ps
    OBVIOUS
  <2>2. \A t \in ps : w[t] \in Nat /\ w[t] > 0
    BY TermsAreNat
  <2> HIDE DEF w
  <2>3. SumFunctionOnSet(w, ps) = w[e] + SumFunctionOnSet(w, ps \ {e})
    BY <1>1, <2>1, <2>2, SumWithout
  <2>4. IsFiniteSet(ps \ {e})
    BY <1>1, FS_Subset
  <2>5. SumFunctionOnSet(w, ps \ {e}) \in Nat
    BY <2>2, <2>4, SumIsNat
  <2>6. w[e] \in Nat /\ w[e] > 0
    BY <2>1, <2>2
  <2>7. SumFunctionOnSet(w, ps) \in Nat \ {0}
    BY <2>3, <2>5, <2>6
  <2> QED
    BY <2>7 DEF Weigh, w
<1> QED
  BY <1>2, <1>3, <1>4

\* A composite that is trusted enough for a finding has a trait that was heard
\* three times.
LEMMA TrustNeedsAFullTrait ==
    ASSUME NEW p \in Profiles, NEW ps, PresentFit(p, ps), ps # {},
           RoundDiv(TrustSum(p, ps), Weigh(p, ps)) >= MinFindingConfidence
    PROVE  \E t \in ps : t.confidence = 100
<1> SUFFICES ASSUME \A t \in ps : t.confidence # 100 PROVE FALSE
  OBVIOUS
<1> DEFINE g == [t \in ps |-> Weights[p][t.key] * t.confidence]
           w == [t \in ps |-> Weights[p][t.key]]
<1>1. IsFiniteSet(ps)
  BY DEF PresentFit
<1>2. ASSUME NEW t \in ps PROVE g[t] \in Int /\ w[t] \in Int /\ g[t] <= 67 * w[t]
  <2>1. t.confidence \in {0, 33, 67}
    <3>1. t.confidence \in Levels
      BY TermsAreNat
    <3>2. Levels = {0, 33, 67, 100}
      BY ConfidenceLevels DEF Levels
    <3> QED
      BY <3>1, <3>2
  <2>2. \A a \in 1 .. 100 : a * 0 <= 67 * a /\ a * 33 <= 67 * a /\ a * 67 <= 67 * a
    OBVIOUS
  <2>3. Weights[p][t.key] \in 1 .. 100
    BY TermsAreNat
  <2>4. Weights[p][t.key] * t.confidence <= 67 * Weights[p][t.key]
    BY <2>1, <2>2, <2>3
  <2>5. Weights[p][t.key] * t.confidence \in Int
    BY TermsAreNat
  <2> QED
    BY <2>3, <2>4, <2>5
<1> HIDE DEF g, w
<1>3. SumFunctionOnSet(g, ps) <= 67 * SumFunctionOnSet(w, ps)
  BY <1>1, <1>2, SumInProportion
<1>4. TrustSum(p, ps) <= 67 * Weigh(p, ps)
  BY <1>3 DEF TrustSum, Weigh, g, w
<1>5. RoundDiv(TrustSum(p, ps), Weigh(p, ps)) <= 67
  BY <1>4, SumsOfComposite, RoundingIsBounded
<1>6. RoundDiv(TrustSum(p, ps), Weigh(p, ps)) \in Int
  BY SumsOfComposite, RoundingGrows
<1> QED
  BY <1>5, <1>6 DEF MinFindingConfidence

\* f matches the members of S and of T one to one.
Matches(f, S, T) ==
    /\ f \in [S -> T]
    /\ \A x, y \in S : f[x] = f[y] => x = y
    /\ \A y \in T : \E x \in S : f[x] = y

\* Sets that match have one size and, term by term, one sum.
LEMMA SameSize ==
    ASSUME NEW S, IsFiniteSet(S), NEW T, NEW f, Matches(f, S, T)
    PROVE  IsFiniteSet(T) /\ Cardinality(T) = Cardinality(S)
<1>1. ExistsBijection(S, T)
  BY DEF Matches, ExistsBijection, Bijection, Injection, Surjection, IsInjective
<1> QED
  BY <1>1, FS_Bijection

LEMMA SumSame ==
    ASSUME NEW S, IsFiniteSet(S), NEW T, NEW g, NEW h, NEW f, Matches(f, S, T),
           \A x \in S : g[x] \in Int /\ g[x] = h[f[x]]
    PROVE  SumFunctionOnSet(g, S) = SumFunctionOnSet(h, T)
<1> DEFINE back == [y \in T |-> CHOOSE x \in S : f[x] = y]
<1>1. \A y \in T : back[y] \in S /\ f[back[y]] = y
  BY DEF Matches
<1>2. \A y \in T : h[y] \in Int
  BY <1>1
<1>3. IsFiniteSet(T)
  BY SameSize
<1>4. SumFunctionOnSet(g, S) <= SumFunctionOnSet(h, T)
  <2>1. \A x \in S : g[x] <= h[f[x]]
    OBVIOUS
  <2> QED
    BY <1>2, <2>1, SumGrows DEF Matches
<1>5. SumFunctionOnSet(h, T) <= SumFunctionOnSet(g, S)
  <2>1. back \in [T -> S]
    BY <1>1
  <2> HIDE DEF back
  <2>2. \A y, z \in T : back[y] = back[z] => y = z
    BY <1>1
  <2>3. \A x \in S : f[x] \in T /\ back[f[x]] = x
    BY <1>1 DEF Matches
  <2>4. \A y \in T : h[y] <= g[back[y]]
    BY <1>1, <1>2
  <2>5. \A x \in S : \E y \in T : back[y] = x
    BY <2>3
  <2>6. \A x \in S : g[x] \in Int
    OBVIOUS
  <2> QED
    BY <1>2, <1>3, <2>1, <2>2, <2>4, <2>5, <2>6, SumGrows
<1>6. SumFunctionOnSet(g, S) \in Int /\ SumFunctionOnSet(h, T) \in Int
  BY <1>2, <1>3, SumIsInt
<1> QED
  BY <1>4, <1>5, <1>6

\* A mean of values none of which is less is no less.
LEMMA MeanGrows ==
    ASSUME NEW S, IsFiniteSet(S), S # {}, NEW T, NEW f, Matches(f, S, T),
           NEW g \in [S -> Int], NEW h \in [T -> Int],
           \A x \in S : g[x] <= h[f[x]]
    PROVE  Mean(g) \in Int /\ Mean(h) \in Int /\ Mean(g) <= Mean(h)
<1>1. IsFiniteSet(T) /\ Cardinality(T) = Cardinality(S)
  BY SameSize
<1>2. SumFunction(g) = SumFunctionOnSet(g, S) /\ SumFunction(h) = SumFunctionOnSet(h, T)
  BY DEF SumFunction
<1>3. SumFunctionOnSet(g, S) \in Int /\ SumFunctionOnSet(h, T) \in Int
  BY <1>1, SumIsInt
<1>4. SumFunctionOnSet(g, S) <= SumFunctionOnSet(h, T)
  BY SumGrows DEF Matches
<1>5. Cardinality(S) \in Nat \ {0}
  BY FS_CardinalityType, FS_EmptySet
<1>6. RoundDiv(SumFunction(g), Cardinality(S)) \in Int
      /\ RoundDiv(SumFunction(h), Cardinality(S)) \in Int
      /\ RoundDiv(SumFunction(g), Cardinality(S)) <= RoundDiv(SumFunction(h), Cardinality(S))
  BY <1>2, <1>3, <1>4, <1>5, RoundingGrows
<1> QED
  BY <1>1, <1>6 DEF Mean

\* Traits of which f raises some scores and leaves all else as it was.
Raised(f, ts, us) ==
    /\ f \in [ts -> us] /\ \A u \in us : \E t \in ts : f[t] = u
    /\ \A t \in ts : /\ f[t].key = t.key /\ f[t].section = t.section
                     /\ f[t].confidence = t.confidence /\ t.score <= f[t].score

\* A better score changes no set a composite is a mean of ...
LEMMA PresentRaised ==
    ASSUME NEW ts, TraitsFit(ts), NEW us, TraitsFit(us), NEW f, Raised(f, ts, us), NEW p \in Profiles
    PROVE  /\ \A t \in Present(p, ts) : f[t] \in Present(p, us)
           /\ \A u \in Present(p, us) : \E t \in Present(p, ts) : f[t] = u
<1>1. \A t \in ts : f[t] \in us /\ f[t].key = t.key /\ f[t].section = t.section
                    /\ f[t].confidence = t.confidence
  BY DEF Raised
<1>2. \A u \in us : \E t \in ts : f[t] = u
  BY DEF Raised
<1>3. \A t \in ts : t \in ByKey(ts) <=> f[t] \in ByKey(us)
  BY <1>1, <1>2 DEF ByKey
<1>4. \A t \in ts : t \in Present(p, ts) <=> f[t] \in Present(p, us)
  BY <1>1, <1>3 DEF Present
<1>5. Present(p, ts) \subseteq ts /\ Present(p, us) \subseteq us
  BY DEF Present, ByKey
<1> QED
  BY <1>2, <1>4, <1>5

\* ... and makes no composite worse, or withheld ...
LEMMA CompositeRaised ==
    ASSUME NEW ts, TraitsFit(ts), NEW us, TraitsFit(us), NEW f, Raised(f, ts, us),
           NEW p \in Profiles, Present(p, ts) # {}
    PROVE  /\ Composite(p, ts).key = p /\ Composite(p, us).key = p
           /\ Composite(p, ts).score = None <=> Composite(p, us).score = None
           /\ Composite(p, ts).score # None =>
                /\ Composite(p, ts).score \in Int /\ Composite(p, us).score \in Int
                /\ Composite(p, ts).score <= Composite(p, us).score
<1> DEFINE P == Present(p, ts)
           Q == Present(p, us)
           m == [t \in P |-> f[t]]
<1>1. PresentFit(p, P) /\ PresentFit(p, Q) /\ P \subseteq ts /\ Q \subseteq us
  BY PresentIsFit
<1>2. Matches(m, P, Q)
  <2>1. m \in [P -> Q] /\ \A y \in Q : \E x \in P : m[x] = y
    BY PresentRaised
  <2>2. ASSUME NEW x \in P, NEW y \in P, m[x] = m[y] PROVE x = y
    <3>1. x \in ts /\ y \in ts /\ f[x] = f[y]
      BY <1>1, <2>2
    <3>2. x.key = y.key /\ x.section = y.section
      BY <3>1 DEF Raised
    <3> QED
      BY <3>1, <3>2 DEF TraitsFit
  <2> QED
    BY <2>1, <2>2 DEF Matches
<1>3. \A t \in P : /\ m[t] = f[t] /\ m[t].key = t.key /\ m[t].confidence = t.confidence
                   /\ t.score <= m[t].score /\ m[t] \in Q
  BY <1>1, <1>2 DEF Raised, Matches
<1>4. Q # {}
  BY <1>3
<1>5. IsFiniteSet(P) /\ IsFiniteSet(Q)
  BY <1>1 DEF PresentFit
<1> HIDE DEF P, Q, m
<1>6. Weigh(p, P) = Weigh(p, Q)
  <2> DEFINE g == [t \in P |-> Weights[p][t.key]]
             h == [t \in Q |-> Weights[p][t.key]]
  <2>1. \A x \in P : g[x] \in Int /\ g[x] = h[m[x]]
    BY <1>1, <1>3, TermsAreNat
  <2> HIDE DEF g, h
  <2>2. SumFunctionOnSet(g, P) = SumFunctionOnSet(h, Q)
    BY <1>2, <1>5, <2>1, SumSame
  <2> QED
    BY <2>2 DEF Weigh, g, h
<1>7. TrustSum(p, P) = TrustSum(p, Q)
  <2> DEFINE g == [t \in P |-> Weights[p][t.key] * t.confidence]
             h == [t \in Q |-> Weights[p][t.key] * t.confidence]
  <2>1. \A x \in P : g[x] \in Int /\ g[x] = h[m[x]]
    BY <1>1, <1>3, TermsAreNat
  <2> HIDE DEF g, h
  <2>2. SumFunctionOnSet(g, P) = SumFunctionOnSet(h, Q)
    BY <1>2, <1>5, <2>1, SumSame
  <2> QED
    BY <2>2 DEF TrustSum, g, h
<1>8. ScoreSum(p, P) <= ScoreSum(p, Q)
  <2> DEFINE g == [t \in P |-> Weights[p][t.key] * t.score]
             h == [t \in Q |-> Weights[p][t.key] * t.score]
  <2>1. ASSUME NEW x \in P PROVE g[x] <= h[m[x]]
    <3>1. Weights[p][x.key] \in Nat /\ x.score \in Nat /\ m[x].score \in Nat /\ x.score <= m[x].score
      <4>1. Weights[p][x.key] \in Nat /\ x.score \in Nat
        BY <1>1, TermsAreNat
      <4>2. m[x] \in Q /\ x.score <= m[x].score
        BY <1>3
      <4>3. m[x].score \in Nat
        BY <1>1, <4>2, TermsAreNat
      <4> QED
        BY <4>1, <4>2, <4>3
    <3>2. \A a, b, c \in Nat : b <= c => a * b <= a * c
      OBVIOUS
    <3>3. Weights[p][x.key] * x.score <= Weights[p][x.key] * m[x].score
      BY <3>1, <3>2
    <3>4. h[m[x]] = Weights[p][x.key] * m[x].score
      BY <1>3
    <3> QED
      BY <3>3, <3>4
  <2>2. (\A x \in P : g[x] \in Int) /\ (\A y \in Q : h[y] \in Int)
    BY <1>1, TermsAreNat
  <2> HIDE DEF g, h
  <2>3. SumFunctionOnSet(g, P) <= SumFunctionOnSet(h, Q)
    BY <1>2, <1>5, <2>1, <2>2, SumGrows DEF Matches
  <2> QED
    BY <2>3 DEF ScoreSum, g, h
<1>9. RoundDiv(ScoreSum(p, P), Weigh(p, P)) <= RoundDiv(ScoreSum(p, Q), Weigh(p, Q))
      /\ RoundDiv(ScoreSum(p, P), Weigh(p, P)) \in Int /\ RoundDiv(ScoreSum(p, Q), Weigh(p, Q)) \in Int
  <2>1. Weigh(p, P) \in Nat \ {0} /\ ScoreSum(p, P) \in Nat /\ ScoreSum(p, Q) \in Nat
    BY <1>1, <1>4, SumsOfComposite DEF P
  <2> QED
    BY <1>6, <1>8, <2>1, RoundingGrows
<1>10. None \notin Int
  BY VerdictAssumption
<1> DEFINE reportable == TrustSum(p, P) >= MinTraitConfidence * Weigh(p, P)
<1>11. /\ Composite(p, ts).key = p
       /\ Composite(p, ts).score = IF reportable THEN RoundDiv(ScoreSum(p, P), Weigh(p, P)) ELSE None
  BY CompositeIs DEF P
<1>12. /\ Composite(p, us).key = p
       /\ Composite(p, us).score = IF reportable THEN RoundDiv(ScoreSum(p, Q), Weigh(p, Q)) ELSE None
  BY <1>6, <1>7, CompositeIs DEF Q
<1> HIDE DEF reportable
<1> QED
  BY <1>9, <1>10, <1>11, <1>12

\* The composites that have a score.
Confident(ts) == {c \in BehavioralProfiles(ts) : c.score # None}
Composed(ts) == {p \in Profiles : Present(p, ts) # {}}

\* ... nor their mean.
LEMMA IndexRaised ==
    ASSUME NEW ts, TraitsFit(ts), NEW us, TraitsFit(us), NEW f, Raised(f, ts, us)
    PROVE  LET old == BehavioralIndex(BehavioralProfiles(ts))
               new == BehavioralIndex(BehavioralProfiles(us))
           IN  /\ (old = None) = (new = None)
               /\ old # None => old \in Int /\ new \in Int /\ old <= new
<1>1. Composed(ts) = Composed(us)
  BY PresentRaised DEF Composed
<1>2. /\ BehavioralProfiles(ts) = {Composite(p, ts) : p \in Composed(ts)}
      /\ BehavioralProfiles(us) = {Composite(p, us) : p \in Composed(ts)}
  BY <1>1 DEF BehavioralProfiles, Composed
<1>3. \A p \in Composed(ts) :
        /\ Composite(p, ts).key = p /\ Composite(p, us).key = p
        /\ Composite(p, ts).score = None <=> Composite(p, us).score = None
        /\ Composite(p, ts).score # None =>
             /\ Composite(p, ts).score \in Int /\ Composite(p, us).score \in Int
             /\ Composite(p, ts).score <= Composite(p, us).score
  BY CompositeRaised DEF Composed
<1> DEFINE C == Confident(ts)
           D == Confident(us)
           K == {p \in Composed(ts) : Composite(p, ts).score # None}
           m == [c \in C |-> Composite(c.key, us)]
           g == [c \in C |-> c.score]
           h == [c \in D |-> c.score]
<1>4. C = {Composite(p, ts) : p \in K} /\ D = {Composite(p, us) : p \in K}
  BY <1>2, <1>3 DEF Confident
<1>5. \A p \in K : m[Composite(p, ts)] = Composite(p, us)
  BY <1>3, <1>4
<1>6. Matches(m, C, D)
  <2>1. \A c \in C : \E p \in K : c = Composite(p, ts)
    BY <1>4
  <2>2. m \in [C -> D]
    <3>1. ASSUME NEW c \in C PROVE m[c] \in D
      <4>1. PICK p \in K : c = Composite(p, ts)
        BY <2>1
      <4>2. m[c] = Composite(p, us)
        BY <1>5, <4>1
      <4> QED
        BY <1>4, <4>2
    <3> HIDE DEF C, D
    <3> QED
      BY <3>1
  <2>3. ASSUME NEW x \in C, NEW y \in C, m[x] = m[y] PROVE x = y
    <3>1. PICK p \in K : x = Composite(p, ts)
      BY <2>1
    <3>2. PICK q \in K : y = Composite(q, ts)
      BY <2>1
    <3>3. Composite(p, us) = Composite(q, us)
      BY <1>5, <2>3, <3>1, <3>2
    <3>4. p = q
      BY <1>3, <3>3
    <3> QED
      BY <3>1, <3>2, <3>4
  <2>4. ASSUME NEW d \in D PROVE \E c \in C : m[c] = d
    <3>1. PICK p \in K : d = Composite(p, us)
      BY <1>4
    <3>2. Composite(p, ts) \in C /\ m[Composite(p, ts)] = d
      BY <1>4, <1>5, <3>1
    <3> QED
      BY <3>2
  <2> QED
    BY <2>2, <2>3, <2>4 DEF Matches
<1>7. IsFiniteSet(C)
  <2>1. IsFiniteSet(K)
    BY ProfilesAreFinite, FS_Subset DEF Composed
  <2> DEFINE v == [p \in K |-> Composite(p, ts)]
  <2>2. C = {v[p] : p \in K}
    BY <1>4
  <2> HIDE DEF v, C, K
  <2> QED
    BY <2>1, <2>2, ImageIsFinite
<1>8. g \in [C -> Int] /\ h \in [D -> Int]
  BY <1>3, <1>4
<1>9. \A c \in C : g[c] <= h[m[c]]
  BY <1>3, <1>4, <1>5
<1>10. (C = {}) = (D = {})
  BY <1>4
<1>11. /\ BehavioralIndex(BehavioralProfiles(ts)) = IF C = {} THEN None ELSE Mean(g)
       /\ BehavioralIndex(BehavioralProfiles(us)) = IF D = {} THEN None ELSE Mean(h)
  BY DEF BehavioralIndex, Confident
<1>12. None \notin Int
  BY VerdictAssumption
<1> HIDE DEF C, D, g, h, m
<1>13. C # {} => Mean(g) \in Int /\ Mean(h) \in Int /\ Mean(g) <= Mean(h)
  BY <1>6, <1>7, <1>8, <1>9, MeanGrows
<1> QED
  BY <1>10, <1>11, <1>12, <1>13

ScoreOrNone(x) == x = None \/ x \in Int

\* y is no worse than x, and there when x is.
NoWorse(x, y) ==
    /\ (x = None) = (y = None)
    /\ x # None => x \in Int /\ y \in Int /\ x <= y

\* Summaries that f matches, one section each.
SameSections(f, ms, ns) ==
    /\ Matches(f, ms, ns)
    /\ \A m \in ms : /\ f[m].section = m.section /\ f[m].objective = m.objective
                     /\ f[m].questionCount = m.questionCount /\ f[m].answered = m.answered

(***************************************************************************)
(* Verdict: the whole report                                               *)
(***************************************************************************)
LEMMA CoveredSame ==
    ASSUME NEW ms, IsFiniteSet(ms), NEW ns, NEW f, SameSections(f, ms, ns),
           \A m \in ms : m.questionCount \in Nat /\ m.answered \in Nat
    PROVE  Covered(ms) = Covered(ns)
<1> DEFINE g1 == [m \in ms |-> m.questionCount]
           h1 == [m \in ns |-> m.questionCount]
           g2 == [m \in ms |-> m.answered]
           h2 == [m \in ns |-> m.answered]
<1>1. Matches(f, ms, ns) /\ \A m \in ms : f[m] \in ns
  BY DEF SameSections, Matches
<1>2. \A m \in ms : g1[m] \in Int /\ g1[m] = h1[f[m]]
  BY <1>1 DEF SameSections
<1>3. \A m \in ms : g2[m] \in Int /\ g2[m] = h2[f[m]]
  BY <1>1 DEF SameSections
<1>4. /\ SumFunction(g1) = SumFunctionOnSet(g1, ms) /\ SumFunction(h1) = SumFunctionOnSet(h1, ns)
      /\ SumFunction(g2) = SumFunctionOnSet(g2, ms) /\ SumFunction(h2) = SumFunctionOnSet(h2, ns)
  BY DEF SumFunction
<1>5. /\ Covered(ms) = (100 * SumFunction(g2) >= MinCoverage * SumFunction(g1))
      /\ Covered(ns) = (100 * SumFunction(h2) >= MinCoverage * SumFunction(h1))
  BY DEF Covered
<1> HIDE DEF g1, g2, h1, h2
<1>6. SumFunctionOnSet(g1, ms) = SumFunctionOnSet(h1, ns)
  BY <1>1, <1>2, SumSame
<1>7. SumFunctionOnSet(g2, ms) = SumFunctionOnSet(h2, ns)
  BY <1>1, <1>3, SumSame
<1> QED
  BY <1>4, <1>5, <1>6, <1>7

LEMMA AbilityRaised ==
    ASSUME NEW ms, IsFiniteSet(ms), NEW ns, NEW f, SameSections(f, ms, ns),
           \A m \in ms : m.objective => NoWorse(m.score, f[m].score)
    PROVE  NoWorse(AbilityScore(ms), AbilityScore(ns))
<1> DEFINE A == {m \in ms : m.objective /\ m.answered > 0}
           B == {m \in ns : m.objective /\ m.answered > 0}
           e == [m \in A |-> f[m]]
           g == [m \in A |-> IF m.score = None THEN 0 ELSE m.score]
           h == [m \in B |-> IF m.score = None THEN 0 ELSE m.score]
<1>1. /\ \A m \in ms : f[m] \in ns /\ f[m].objective = m.objective /\ f[m].answered = m.answered
      /\ \A n \in ns : \E m \in ms : f[m] = n
      /\ \A x, y \in ms : f[x] = f[y] => x = y
  BY DEF SameSections, Matches
<1>2. Matches(e, A, B)
  <2>1. e \in [A -> B]
    BY <1>1
  <2>2. \A n \in B : \E m \in A : e[m] = n
    BY <1>1
  <2>3. \A x, y \in A : e[x] = e[y] => x = y
    BY <1>1
  <2> QED
    BY <2>1, <2>2, <2>3 DEF Matches
<1>3. IsFiniteSet(A)
  BY FS_Subset
<1>4. ASSUME NEW m \in A PROVE g[m] \in Int /\ h[e[m]] \in Int /\ g[m] <= h[e[m]]
  <2>1. m \in ms /\ m.objective /\ e[m] = f[m] /\ e[m] \in B
    BY <1>2 DEF Matches
  <2>2. NoWorse(m.score, e[m].score)
    BY <2>1
  <2>3. g[m] = (IF m.score = None THEN 0 ELSE m.score)
        /\ h[e[m]] = (IF e[m].score = None THEN 0 ELSE e[m].score)
    BY <2>1
  <2> HIDE DEF g, h, e
  <2> QED
    BY <2>2, <2>3 DEF NoWorse
<1>5. g \in [A -> Int] /\ h \in [B -> Int]
  <2>1. \A n \in B : h[n] \in Int
    <3>1. \A n \in B : \E m \in A : e[m] = n
      BY <1>2 DEF Matches
    <3> HIDE DEF A, B, e, h
    <3> QED
      BY <1>4, <3>1
  <2>2. g = [m \in A |-> g[m]] /\ h = [n \in B |-> h[n]]
    OBVIOUS
  <2>3. \A m \in A : g[m] \in Int
    BY <1>4
  <2> HIDE DEF A, B, g, h
  <2> QED
    BY <2>1, <2>2, <2>3
<1>6. (A = {}) = (B = {})
  BY <1>2 DEF Matches
<1>7. /\ AbilityScore(ms) = IF A = {} THEN None ELSE Mean(g)
      /\ AbilityScore(ns) = IF B = {} THEN None ELSE Mean(h)
  BY DEF AbilityScore
<1>8. None \notin Int
  BY VerdictAssumption
<1> HIDE DEF A, B, e, g, h
<1>9. A # {} => Mean(g) \in Int /\ Mean(h) \in Int /\ Mean(g) <= Mean(h)
  BY <1>2, <1>3, <1>4, <1>5, MeanGrows
<1> QED
  BY <1>6, <1>7, <1>8, <1>9 DEF NoWorse

\* The blend takes the one that is there, or both: what is missing stays so.
LEMMA BlendGrows ==
    ASSUME NEW a, NEW b, NEW i, NEW j, NoWorse(a, b), NoWorse(i, j)
    PROVE  NoWorse(BlendScores(a, i), BlendScores(b, j))
<1>1. None \notin Int
  BY VerdictAssumption
<1>2. CASE a = None
  BY <1>2 DEF NoWorse, BlendScores
<1>3. CASE a # None /\ i = None
  BY <1>3 DEF NoWorse, BlendScores
<1>4. CASE a # None /\ i # None
  <2>1. a \in Int /\ b \in Int /\ i \in Int /\ j \in Int /\ a <= b /\ i <= j /\ b # None /\ j # None
    BY <1>4 DEF NoWorse
  <2> DEFINE m == AbilityWeight * a + BehavioralWeight * i
             n == AbilityWeight * b + BehavioralWeight * j
  <2>2. m \in Int /\ n \in Int /\ m <= n
    BY <2>1 DEF AbilityWeight, BehavioralWeight
  <2>3. AbilityWeight + BehavioralWeight \in Nat \ {0}
    BY DEF AbilityWeight, BehavioralWeight
  <2>4. BlendScores(a, i) = RoundDiv(m, AbilityWeight + BehavioralWeight)
        /\ BlendScores(b, j) = RoundDiv(n, AbilityWeight + BehavioralWeight)
    BY <1>4, <2>1 DEF BlendScores
  <2> HIDE DEF m, n
  <2>5. /\ RoundDiv(m, AbilityWeight + BehavioralWeight) \in Int
        /\ RoundDiv(n, AbilityWeight + BehavioralWeight) \in Int
        /\ RoundDiv(m, AbilityWeight + BehavioralWeight) <= RoundDiv(n, AbilityWeight + BehavioralWeight)
    BY <2>2, <2>3, RoundingGrows
  <2> QED
    BY <1>1, <2>4, <2>5 DEF NoWorse
<1> QED
  BY <1>2, <1>3, <1>4

LEMMA RecommendKinds ==
    ASSUME NEW x, ScoreOrNone(x), NEW c \in BOOLEAN
    PROVE  /\ x # None => Recommend(x, c) \in Recommendations
           /\ x = None => Recommend(x, c) = None
           /\ ~c => Recommend(x, c) \in {None, "borderline", "not_recommended"}
BY VerdictAssumption DEF Recommend, Recommendations, ScoreOrNone

\* A band at least as high, capped or not.
LEMMA RecommendGrows ==
    ASSUME NEW x \in Int, NEW y \in Int, x <= y, NEW c \in BOOLEAN
    PROVE  Ranks[Recommend(x, c)] <= Ranks[Recommend(y, c)]
<1> DEFINE Banded(z) == IF z >= StronglyRecommendedAt THEN "strongly_recommended"
                        ELSE IF z >= RecommendedAt THEN "recommended"
                        ELSE IF z >= BorderlineAt THEN "borderline" ELSE "not_recommended"
           Rank(z) == IF z >= StronglyRecommendedAt THEN 4 ELSE IF z >= RecommendedAt THEN 3
                      ELSE IF z >= BorderlineAt THEN 2 ELSE 1
<1>1. /\ Ranks["not_recommended"] = 1 /\ Ranks["borderline"] = 2
      /\ Ranks["recommended"] = 3 /\ Ranks["strongly_recommended"] = 4
  BY DEF Ranks
<1>2. x # None /\ y # None
  BY VerdictAssumption
<1>3. ASSUME NEW z \in Int, z # None
      PROVE  Ranks[Recommend(z, c)] = IF ~c /\ Rank(z) >= 3 THEN 2 ELSE Rank(z)
  <2>1. Recommend(z, c) = IF ~c /\ Banded(z) \in {"strongly_recommended", "recommended"} THEN "borderline"
                          ELSE Banded(z)
    BY <1>3 DEF Recommend
  <2>2. Ranks[Banded(z)] = Rank(z) /\ (Banded(z) \in {"strongly_recommended", "recommended"} <=> Rank(z) >= 3)
    BY <1>1, <1>3 DEF StronglyRecommendedAt, RecommendedAt, BorderlineAt
  <2> HIDE DEF Banded, Rank
  <2> QED
    BY <1>1, <2>1, <2>2
<1>4. Rank(x) <= Rank(y) /\ Rank(x) \in 1 .. 4 /\ Rank(y) \in 1 .. 4
  BY DEF StronglyRecommendedAt, RecommendedAt, BorderlineAt
<1>5. /\ Ranks[Recommend(x, c)] = IF ~c /\ Rank(x) >= 3 THEN 2 ELSE Rank(x)
      /\ Ranks[Recommend(y, c)] = IF ~c /\ Rank(y) >= 3 THEN 2 ELSE Rank(y)
  BY <1>2, <1>3
<1> HIDE DEF Rank
<1> QED
  BY <1>4, <1>5

\* A report of summaries of which f raises scores and g scores of traits.
\* Sections matched one to one and traits raised: no score and no band is lower.
LEMMA ReportGrows ==
    ASSUME NEW ms, IsFiniteSet(ms), NEW ns, NEW f, SameSections(f, ms, ns),
           \A m \in ms : m.questionCount \in Nat /\ m.answered \in Nat,
           \A m \in ms : m.objective => NoWorse(m.score, f[m].score),
           TraitsFit(AllTraits(ms)), TraitsFit(AllTraits(ns)),
           NEW g, Raised(g, AllTraits(ms), AllTraits(ns))
    PROVE  LET old == BuildReport(ms)
               new == BuildReport(ns)
           IN  old.overallScore # None =>
                 /\ new.overallScore >= old.overallScore
                 /\ Ranks[new.hiringRecommendation] >= Ranks[old.hiringRecommendation]
<1> DEFINE a == AbilityScore(ms)
           b == AbilityScore(ns)
           i == BehavioralIndex(BehavioralProfiles(AllTraits(ms)))
           j == BehavioralIndex(BehavioralProfiles(AllTraits(ns)))
           x == BlendScores(a, i)
           y == BlendScores(b, j)
<1>1. NoWorse(a, b)
  BY AbilityRaised
<1>2. NoWorse(i, j)
  BY IndexRaised DEF NoWorse
<1>3. Covered(ms) = Covered(ns) /\ Covered(ms) \in BOOLEAN
  BY CoveredSame DEF Covered
<1>4. /\ BuildReport(ms).overallScore = x /\ BuildReport(ms).hiringRecommendation = Recommend(x, Covered(ms))
      /\ BuildReport(ns).overallScore = y /\ BuildReport(ns).hiringRecommendation = Recommend(y, Covered(ns))
  BY DEF BuildReport
<1>5. NoWorse(x, y)
  <2> HIDE DEF a, b, i, j
  <2> QED
    BY <1>1, <1>2, BlendGrows
<1> HIDE DEF x, y
<1>6. SUFFICES ASSUME x # None
               PROVE  y >= x /\ Ranks[Recommend(y, Covered(ns))] >= Ranks[Recommend(x, Covered(ms))]
  BY <1>4
<1>7. x \in Int /\ y \in Int /\ x <= y
  BY <1>5, <1>6 DEF NoWorse
<1>8. Ranks[Recommend(x, Covered(ms))] <= Ranks[Recommend(y, Covered(ms))]
  BY <1>3, <1>7, RecommendGrows
<1>9. Ranks[Recommend(x, Covered(ms))] \in Int /\ Ranks[Recommend(y, Covered(ms))] \in Int
  <2>1. \A r \in Recommendations : Ranks[r] \in Int
    BY DEF Ranks, Recommendations
  <2>2. x # None /\ y # None /\ ScoreOrNone(x) /\ ScoreOrNone(y)
    BY <1>7, VerdictAssumption DEF ScoreOrNone
  <2> QED
    BY <1>3, <2>1, <2>2, RecommendKinds
<1> QED
  BY <1>3, <1>7, <1>8, <1>9

\* What buildModuleSummaries may return: one summary a section, its traits by key.
Summaries == [section : DOMAIN Sections, objective : BOOLEAN, questionCount : Nat, answered : Nat,
              score : (0 .. 1000) \cup {None}, traits : SUBSET Entries]

SummariesFit(ms) ==
    /\ IsFiniteSet(ms) /\ ms \subseteq Summaries
    /\ \A m, n \in ms : m.section = n.section => m = n
    /\ \A m \in ms :
         /\ IsFiniteSet(m.traits)
         /\ \A t \in m.traits : t.section = m.section
         /\ \A t, u \in m.traits : t.key = u.key => t = u
         /\ m.objective => m.traits = {} /\ (m.score # None <=> m.answered > 0)
         /\ ~m.objective => m.score = None
         /\ m.answered = 0 => m.traits = {}

LEMMA SummaryTyped ==
    ASSUME NEW ms, SummariesFit(ms), NEW m \in ms
    PROVE  /\ m.section \in DOMAIN Sections /\ m.objective \in BOOLEAN /\ m.questionCount \in Nat
           /\ m.answered \in Nat /\ m.score \in (0 .. 1000) \cup {None} /\ m.traits \subseteq Entries
           /\ m = [section |-> m.section, objective |-> m.objective, questionCount |-> m.questionCount,
                   answered |-> m.answered, score |-> m.score, traits |-> m.traits]
BY DEF SummariesFit, Summaries

LEMMA EntryTyped ==
    ASSUME NEW t \in Entries
    PROVE  /\ t.key \in UNION Vocabularies /\ t.section \in DOMAIN Sections
           /\ t.score \in 0 .. 1000 /\ t.score \in Int /\ t.confidence \in Levels
           /\ t.confidence \in {0, 33, 67, 100}
           /\ t = [key |-> t.key, section |-> t.section, score |-> t.score, confidence |-> t.confidence]
<1>1. /\ t.key \in UNION Vocabularies /\ t.section \in DOMAIN Sections
      /\ t.score \in 0 .. 1000 /\ t.score \in Int /\ t.confidence \in Levels
  BY DEF Entries
<1>2. t.confidence \in {0, 33, 67, 100}
  BY <1>1, ConfidenceLevels DEF Levels
<1>3. t = [key |-> t.key, section |-> t.section, score |-> t.score, confidence |-> t.confidence]
  BY DEF Entries
<1> QED
  BY <1>1, <1>2, <1>3

LEMMA AllTraitsFit ==
    ASSUME NEW ms, SummariesFit(ms)
    PROVE  TraitsFit(AllTraits(ms))
<1>1. IsFiniteSet(AllTraits(ms))
  <2> DEFINE f == [m \in ms |-> m.traits]
  <2>1. {f[m] : m \in ms} = {m.traits : m \in ms}
    OBVIOUS
  <2>2. IsFiniteSet(ms) /\ \A m \in ms : IsFiniteSet(m.traits)
    BY DEF SummariesFit
  <2>3. IsFiniteSet({f[m] : m \in ms})
    <3> HIDE DEF f
    <3> QED
      BY <2>2, ImageIsFinite
  <2>4. IsFiniteSet(UNION {m.traits : m \in ms})
    <3>1. \A T \in {m.traits : m \in ms} : IsFiniteSet(T)
      BY <2>2
    <3>2. PICK F : F = {m.traits : m \in ms}
      OBVIOUS
    <3>3. IsFiniteSet(F) /\ \A T \in F : IsFiniteSet(T)
      BY <2>1, <2>3, <3>1, <3>2
    <3>4. IsFiniteSet(UNION F)
      BY <3>3, FS_UNION
    <3> QED
      BY <3>2, <3>4
  <2> QED
    BY <2>4 DEF AllTraits
<1>2. AllTraits(ms) \subseteq Entries
  BY SummaryTyped DEF AllTraits
<1>3. ASSUME NEW t \in AllTraits(ms), NEW u \in AllTraits(ms), t.key = u.key, t.section = u.section
      PROVE  t = u
  <2>1. PICK m \in ms : t \in m.traits
    BY DEF AllTraits
  <2>2. PICK n \in ms : u \in n.traits
    BY DEF AllTraits
  <2>3. m.section = n.section
    BY <1>3, <2>1, <2>2 DEF SummariesFit
  <2>4. m = n
    BY <2>3 DEF SummariesFit
  <2> QED
    BY <1>3, <2>1, <2>2, <2>4 DEF SummariesFit
<1> QED
  BY <1>1, <1>2, <1>3 DEF TraitsFit

LEMMA InAllTraits ==
    ASSUME NEW ms, NEW t
    PROVE  t \in AllTraits(ms) <=> \E m \in ms : t \in m.traits
BY DEF AllTraits

\* One summary in the place of another of the same section.
Swapped(ms, m, n, ns) == \A x : x \in ns <=> (x \in ms /\ x # m) \/ x = n

\* Sections match when one summary takes the place of another.
LEMMA SwappedSections ==
    ASSUME NEW ms, SummariesFit(ms), NEW m \in ms, NEW n, NEW ns, Swapped(ms, m, n, ns),
           n.section = m.section, n.objective = m.objective,
           n.questionCount = m.questionCount, n.answered = m.answered,
           m.objective => NoWorse(m.score, n.score)
    PROVE  \E f : /\ SameSections(f, ms, ns)
                  /\ \A x \in ms : x.objective => NoWorse(x.score, f[x].score)
<1> DEFINE f == [x \in ms |-> IF x = m THEN n ELSE x]
<1>1. ASSUME NEW x \in ms, x.section = n.section PROVE x = m
  BY <1>1 DEF SummariesFit
<1>2. SameSections(f, ms, ns)
  <2>1. \A x \in ms : f[x] \in ns
    BY DEF Swapped
  <2>2. f \in [ms -> ns]
    BY <2>1
  <2>3. \A y \in ns : \E x \in ms : f[x] = y
    <3> SUFFICES ASSUME NEW y \in ns PROVE \E x \in ms : f[x] = y
      OBVIOUS
    <3>1. (y \in ms /\ y # m) \/ y = n
      BY DEF Swapped
    <3>2. f[m] = n /\ \A x \in ms : x # m => f[x] = x
      OBVIOUS
    <3> HIDE DEF f
    <3> QED
      BY <3>1, <3>2
  <2>4. ASSUME NEW x \in ms, NEW y \in ms, f[x] = f[y] PROVE x = y
    <3>1. \A z \in ms : f[z].section = z.section
      OBVIOUS
    <3>2. x.section = y.section
      BY <2>4, <3>1
    <3> QED
      BY <3>2 DEF SummariesFit
  <2>5. \A x \in ms : /\ f[x].section = x.section /\ f[x].objective = x.objective
                      /\ f[x].questionCount = x.questionCount /\ f[x].answered = x.answered
    OBVIOUS
  <2> HIDE DEF f
  <2> QED
    BY <2>2, <2>3, <2>4, <2>5 DEF SameSections, Matches
<1>3. ASSUME NEW x \in ms, x.objective PROVE NoWorse(x.score, f[x].score)
  <2>1. CASE x = m
    BY <1>3, <2>1
  <2>2. CASE x # m
    <3>1. f[x] = x
      BY <2>2
    <3>2. x.score \in (0 .. 1000) \cup {None}
      BY SummaryTyped
    <3>3. NoWorse(x.score, x.score)
      BY <3>2 DEF NoWorse
    <3> QED
      BY <3>1, <3>3
  <2> QED
    BY <2>1, <2>2
<1> HIDE DEF f
<1> QED
  BY <1>2, <1>3

\* The report says no less.
Grows(ms, ns) ==
    LET old == BuildReport(ms)
        new == BuildReport(ns)
    IN  old.overallScore # None =>
          /\ new.overallScore >= old.overallScore
          /\ Ranks[new.hiringRecommendation] >= Ranks[old.hiringRecommendation]

LEMMA SwapGrows ==
    ASSUME NEW ms, SummariesFit(ms), NEW m \in ms, NEW n, NEW ns, Swapped(ms, m, n, ns),
           n.section = m.section, n.objective = m.objective,
           n.questionCount = m.questionCount, n.answered = m.answered,
           m.objective => NoWorse(m.score, n.score),
           TraitsFit(AllTraits(ns)), NEW g, Raised(g, AllTraits(ms), AllTraits(ns))
    PROVE  Grows(ms, ns)
<1>1. PICK f : /\ SameSections(f, ms, ns)
               /\ \A x \in ms : x.objective => NoWorse(x.score, f[x].score)
  BY SwappedSections
<1>2. TraitsFit(AllTraits(ms))
  BY AllTraitsFit
<1>3. \A x \in ms : x.questionCount \in Nat /\ x.answered \in Nat
  BY SummaryTyped
<1>4. IsFiniteSet(ms)
  BY DEF SummariesFit
<1> QED
  BY <1>1, <1>2, <1>3, <1>4, ReportGrows DEF Grows

\* A better score in a section.
LEMMA SectionRaised ==
    ASSUME NEW ms, SummariesFit(ms), NEW m \in ms, NEW n, NEW ns, Swapped(ms, m, n, ns),
           n.section = m.section, n.objective = m.objective,
           n.questionCount = m.questionCount, n.answered = m.answered,
           NoWorse(m.score, n.score), n.traits = m.traits
    PROVE  Grows(ms, ns)
<1>1. ASSUME NEW t PROVE t \in AllTraits(ns) <=> t \in AllTraits(ms)
  BY InAllTraits DEF Swapped
<1>2. AllTraits(ns) = AllTraits(ms)
  BY <1>1
<1> DEFINE g == [t \in AllTraits(ms) |-> t]
<1>3. TraitsFit(AllTraits(ms))
  BY AllTraitsFit
<1>4. Raised(g, AllTraits(ms), AllTraits(ns))
  <2>1. \A t \in AllTraits(ms) : t.score \in Int
    BY <1>3, EntryTyped DEF TraitsFit
  <2> QED
    BY <1>2, <2>1 DEF Raised
<1> HIDE DEF g
<1> QED
  BY <1>2, <1>3, <1>4, SwapGrows

\* A better score on one trait.
LEMMA TraitRaised ==
    ASSUME NEW ms, SummariesFit(ms), NEW m \in ms, NEW t \in m.traits,
           NEW v \in Entries, v.key = t.key, v.section = t.section,
           v.confidence = t.confidence, t.score <= v.score,
           NEW n, NEW ns, Swapped(ms, m, n, ns),
           n.section = m.section, n.objective = m.objective,
           n.questionCount = m.questionCount, n.answered = m.answered,
           \A u : u \in n.traits <=> (u \in m.traits /\ u # t) \/ u = v
    PROVE  Grows(ms, ns)
<1> DEFINE ts == AllTraits(ms)
           us == AllTraits(ns)
           g == [u \in ts |-> IF u = t THEN v ELSE u]
<1>1. ~m.objective
  BY DEF SummariesFit
<1>2. TraitsFit(ts) /\ t \in ts
  BY AllTraitsFit, InAllTraits
<1>3. \A x \in ms : t \in x.traits => x = m
  BY DEF SummariesFit
<1>4. ASSUME NEW u PROVE u \in us <=> (u \in ts /\ u # t) \/ u = v
  <2>1. u \in us <=> (\E x \in ms : x # m /\ u \in x.traits) \/ u \in n.traits
    BY InAllTraits DEF Swapped
  <2>2. u \in ts <=> (\E x \in ms : x # m /\ u \in x.traits) \/ u \in m.traits
    BY InAllTraits
  <2>3. (\E x \in ms : x # m /\ u \in x.traits) => u # t
    BY <1>3
  <2> HIDE DEF ts, us
  <2> QED
    BY <2>1, <2>2, <2>3
<1> HIDE DEF ts, us
<1>5. TraitsFit(us)
  <2>1. IsFiniteSet(us)
    <3>1. IsFiniteSet(ts \ {t})
      BY <1>2, FS_Subset DEF TraitsFit
    <3>2. IsFiniteSet((ts \ {t}) \cup {v})
      BY <3>1, FS_AddElement
    <3>3. us = (ts \ {t}) \cup {v}
      BY <1>4
    <3> QED
      BY <3>2, <3>3
  <2>2. us \subseteq Entries
    BY <1>2, <1>4 DEF TraitsFit
  <2>3. ASSUME NEW a \in us, NEW b \in us, a.key = b.key, a.section = b.section PROVE a = b
    <3>1. \A u \in ts : u.key = t.key /\ u.section = t.section => u = t
      BY <1>2 DEF TraitsFit
    <3>2. (a \in ts /\ a # t) \/ a = v
      BY <1>4
    <3>3. (b \in ts /\ b # t) \/ b = v
      BY <1>4
    <3>4. a \in ts /\ b \in ts => a = b
      BY <1>2, <2>3 DEF TraitsFit
    <3> QED
      BY <2>3, <3>1, <3>2, <3>3, <3>4
  <2> QED
    BY <2>1, <2>2, <2>3 DEF TraitsFit
<1>6. Raised(g, ts, us)
  <2>1. \A u \in ts : u.score \in Int
    BY <1>2, EntryTyped DEF TraitsFit
  <2>2. g[t] = v /\ \A u \in ts : u # t => g[u] = u
    BY <1>2
  <2>3. \A u \in ts : g[u] \in us
    BY <1>4
  <2>4. g \in [ts -> us]
    BY <2>3
  <2> HIDE DEF g
  <2>5. \A w \in us : \E u \in ts : g[u] = w
    BY <1>2, <1>4, <2>2
  <2>6. ASSUME NEW u \in ts
        PROVE  /\ g[u].key = u.key /\ g[u].section = u.section
               /\ g[u].confidence = u.confidence /\ u.score <= g[u].score
    <3>1. CASE u = t
      BY <2>2, <3>1
    <3>2. CASE u # t
      BY <2>1, <2>2, <3>2
    <3> QED
      BY <3>1, <3>2
  <2> QED
    BY <2>4, <2>5, <2>6 DEF Raised
<1> HIDE DEF g
<1> QED
  BY <1>1, <1>5, <1>6, SwapGrows DEF ts, us

\* BetterNeverCosts, of any summaries.
Raise(x) == [x EXCEPT !.score = Clamp(@ + 150, 0, 1000)]
Retraited(m, t, v) == [m EXCEPT !.traits = (@ \ {t}) \cup {v}]

LEMMA TraitImproved ==
    ASSUME NEW ms, SummariesFit(ms), NEW m \in ms, NEW t \in m.traits,
           NEW v, v = Raise(t),
           NEW n, n = Retraited(m, t, v)
    PROVE  Grows(ms, (ms \ {m}) \cup {n})
<1>0. m = [section |-> m.section, objective |-> m.objective, questionCount |-> m.questionCount,
           answered |-> m.answered, score |-> m.score, traits |-> m.traits]
  BY SummaryTyped
<1>1. t \in Entries
  BY SummaryTyped
<1>2. t.score \in 0 .. 1000
  BY <1>1, EntryTyped
<1>3. PICK more : more = Clamp(t.score + 150, 0, 1000)
  OBVIOUS
<1>4. more \in 0 .. 1000 /\ t.score <= more
  <2>1. PICK s \in 0 .. 1000 : s = t.score
    BY <1>2
  <2>2. more = Clamp(s + 150, 0, 1000)
    BY <1>3, <2>1
  <2>3. more \in 0 .. 1000 /\ s <= more
    BY <2>2 DEF Clamp
  <2> QED
    BY <2>1, <2>3
<1>6. v = [key |-> t.key, section |-> t.section, score |-> more, confidence |-> t.confidence]
  <2>1. t = [key |-> t.key, section |-> t.section, score |-> t.score, confidence |-> t.confidence]
    BY <1>1, EntryTyped
  <2>2. v = [t EXCEPT !.score = more]
    BY <1>3 DEF Raise
  <2> QED
    BY <2>1, <2>2
<1>7. v.key = t.key /\ v.section = t.section /\ v.score = more /\ v.confidence = t.confidence
  BY <1>6
<1>8. v \in Entries
  <2>1. t.key \in UNION Vocabularies /\ t.section \in DOMAIN Sections /\ t.confidence \in Levels
    BY <1>1, EntryTyped
  <2> QED
    BY <1>4, <1>6, <2>1 DEF Entries
<1>10. /\ n.section = m.section /\ n.objective = m.objective /\ n.questionCount = m.questionCount
       /\ n.answered = m.answered /\ n.traits = (m.traits \ {t}) \cup {v}
  BY <1>0 DEF Retraited
<1>11. PICK ns : ns = (ms \ {m}) \cup {n}
  OBVIOUS
<1>12. Swapped(ms, m, n, ns)
  BY <1>11 DEF Swapped
<1>13. \A u : u \in n.traits <=> (u \in m.traits /\ u # t) \/ u = v
  BY <1>10
<1>14. Grows(ms, ns)
  BY <1>4, <1>7, <1>8, <1>10, <1>12, <1>13, TraitRaised
<1> QED
  BY <1>11, <1>14

LEMMA SectionImproved ==
    ASSUME NEW ms, SummariesFit(ms), NEW m \in ms, m.score # None,
           NEW n, n = Raise(m)
    PROVE  Grows(ms, (ms \ {m}) \cup {n})
<1>0. m = [section |-> m.section, objective |-> m.objective, questionCount |-> m.questionCount,
           answered |-> m.answered, score |-> m.score, traits |-> m.traits]
  BY SummaryTyped
<1>1. m.score \in 0 .. 1000
  BY SummaryTyped
<1>2. PICK more : more = Clamp(m.score + 150, 0, 1000)
  OBVIOUS
<1>3. more \in 0 .. 1000 /\ m.score <= more
  <2>1. PICK s \in 0 .. 1000 : s = m.score
    BY <1>1
  <2>2. more = Clamp(s + 150, 0, 1000)
    BY <1>2, <2>1
  <2>3. more \in 0 .. 1000 /\ s <= more
    BY <2>2 DEF Clamp
  <2> QED
    BY <2>1, <2>3
<1>5. n = [m EXCEPT !.score = more]
  BY <1>2 DEF Raise
<1>6. /\ n.section = m.section /\ n.objective = m.objective /\ n.questionCount = m.questionCount
      /\ n.answered = m.answered /\ n.traits = m.traits /\ n.score = more
  BY <1>0, <1>5
<1>7. NoWorse(m.score, n.score)
  <2>1. PICK s \in 0 .. 1000 : s = m.score
    BY <1>1
  <2>2. s \in Int /\ more \in Int /\ s <= more
    BY <1>3, <2>1
  <2>3. s # None /\ more # None
    BY <2>2, VerdictAssumption
  <2>4. NoWorse(s, more)
    BY <2>2, <2>3 DEF NoWorse
  <2> QED
    BY <1>6, <2>1, <2>4
<1>8. PICK ns : ns = (ms \ {m}) \cup {n}
  OBVIOUS
<1>9. Swapped(ms, m, n, ns)
  BY <1>8 DEF Swapped
<1>10. Grows(ms, ns)
  BY <1>6, <1>7, <1>9, SectionRaised
<1> QED
  BY <1>8, <1>10

(***************************************************************************)
(* Verdict: findings                                                       *)
(***************************************************************************)
StrongSection(m) == m.score # None /\ m.score >= StrongScore /\ IsEstablished(m)
WeakSection(m) == m.score # None /\ m.score <= WeakScore /\ IsEstablished(m)
Partial(m) == m.answered > 0 /\ m.answered < m.questionCount

\* What a finding is of.
LEMMA StrengthsAre ==
    ASSUME NEW ms, NEW ps, NEW f
    PROVE  f \in Strengths(ms, ps) <=>
             \/ \E m \in ms : StrongSection(m) /\ f = <<"section", m.section>>
             \/ \E t \in AllTraits(ms) : Established(t) /\ t.score >= StrongScore /\ f = <<"trait", t.section, t.key>>
             \/ \E p \in ps : Established(p) /\ p.band = "strong" /\ f = <<"profile", p.key>>
<1> DEFINE A == {<<"section", m.section>> :
                    m \in {n \in ms : n.score # None /\ n.score >= StrongScore /\ IsEstablished(n)}}
           B == {<<"trait", t.section, t.key>> : t \in {u \in AllTraits(ms) : Established(u) /\ u.score >= StrongScore}}
           C == {<<"profile", p.key>> : p \in {q \in ps : Established(q) /\ q.band = "strong"}}
<1>1. Strengths(ms, ps) = A \cup B \cup C
  BY DEF Strengths
<1>2. f \in A <=> \E m \in ms : StrongSection(m) /\ f = <<"section", m.section>>
  BY DEF StrongSection
<1>3. f \in B <=> \E t \in AllTraits(ms) : Established(t) /\ t.score >= StrongScore /\ f = <<"trait", t.section, t.key>>
  OBVIOUS
<1>4. f \in C <=> \E p \in ps : Established(p) /\ p.band = "strong" /\ f = <<"profile", p.key>>
  OBVIOUS
<1> HIDE DEF A, B, C
<1> QED
  BY <1>1, <1>2, <1>3, <1>4

LEMMA WeaknessesAre ==
    ASSUME NEW ms, NEW ps, NEW f
    PROVE  f \in Weaknesses(ms, ps) <=>
             \/ \E m \in ms : WeakSection(m) /\ f = <<"section", m.section>>
             \/ \E t \in AllTraits(ms) : Established(t) /\ t.score <= WeakScore /\ f = <<"trait", t.section, t.key>>
             \/ \E m \in ms : Partial(m) /\ f = <<"unfinished", m.section>>
             \/ \E p \in ps : Established(p) /\ p.band = "developing" /\ f = <<"profile", p.key>>
<1> DEFINE A == {<<"section", m.section>> :
                    m \in {n \in ms : n.score # None /\ n.score <= WeakScore /\ IsEstablished(n)}}
           B == {<<"trait", t.section, t.key>> : t \in {u \in AllTraits(ms) : Established(u) /\ u.score <= WeakScore}}
           C == {<<"unfinished", m.section>> : m \in {n \in ms : n.answered > 0 /\ n.answered < n.questionCount}}
           D == {<<"profile", p.key>> : p \in {q \in ps : Established(q) /\ q.band = "developing"}}
<1>1. Weaknesses(ms, ps) = A \cup B \cup C \cup D
  BY DEF Weaknesses
<1>2. f \in A <=> \E m \in ms : WeakSection(m) /\ f = <<"section", m.section>>
  BY DEF WeakSection
<1>3. f \in B <=> \E t \in AllTraits(ms) : Established(t) /\ t.score <= WeakScore /\ f = <<"trait", t.section, t.key>>
  OBVIOUS
<1>4. f \in C <=> \E m \in ms : Partial(m) /\ f = <<"unfinished", m.section>>
  BY DEF Partial
<1>5. f \in D <=> \E p \in ps : Established(p) /\ p.band = "developing" /\ f = <<"profile", p.key>>
  OBVIOUS
<1> HIDE DEF A, B, C, D
<1> QED
  BY <1>1, <1>2, <1>3, <1>4, <1>5

\* Confidence comes in thirds: 0.8 of it is all of it.
LEMMA EstablishedIsFull ==
    ASSUME NEW t \in Entries, Established(t)
    PROVE  t.confidence = 100
BY EntryTyped DEF Established, MinFindingConfidence

\* A weighted mean of 80 needs a term above 67, that is of 100.
LEMMA EstablishedProfile ==
    ASSUME NEW ts, TraitsFit(ts), NEW c \in BehavioralProfiles(ts)
    PROVE  /\ c.key \in Profiles /\ c = Composite(c.key, ts) /\ Present(c.key, ts) # {}
           /\ Established(c) => \E t \in ts : t.confidence = 100 /\ t.key \in DOMAIN Weights[c.key]
<1>1. PICK p \in Profiles : Present(p, ts) # {} /\ c = Composite(p, ts)
  BY DEF BehavioralProfiles
<1>2. c.key = p /\ c.confidence = RoundDiv(TrustSum(p, Present(p, ts)), Weigh(p, Present(p, ts)))
  BY <1>1, CompositeIs
<1>3. PresentFit(p, Present(p, ts)) /\ Present(p, ts) \subseteq ts
  BY PresentIsFit
<1>4. Established(c) => \E t \in Present(p, ts) : t.confidence = 100
  BY <1>1, <1>2, <1>3, TrustNeedsAFullTrait DEF Established
<1>5. \A t \in Present(p, ts) : t.key \in DOMAIN Weights[p] /\ t \in ts
  BY <1>3 DEF PresentFit
<1> QED
  BY <1>1, <1>2, <1>4, <1>5

\* FindingsAreEstablished, of any summaries.
LEMMA FindingsHold ==
    ASSUME NEW ms, SummariesFit(ms), NEW ps, ps = BehavioralProfiles(AllTraits(ms)),
           NEW f \in Strengths(ms, ps) \cup Weaknesses(ms, ps)
    PROVE  /\ f[1] = "section" => \E m \in ms : f[2] = m.section /\ m.answered >= 3
           /\ f[1] = "trait" => \E t \in AllTraits(ms) : t.confidence = 100 /\ t.section = f[2] /\ t.key = f[3]
           /\ f[1] = "profile" => \E t \in AllTraits(ms) : t.confidence = 100 /\ t.key \in DOMAIN Weights[f[2]]
<1>1. TraitsFit(AllTraits(ms)) /\ AllTraits(ms) \subseteq Entries
  BY AllTraitsFit DEF TraitsFit
<1>2. ASSUME NEW m \in ms, IsEstablished(m), f = <<"section", m.section>> PROVE f[2] = m.section /\ m.answered >= 3
  BY <1>2 DEF IsEstablished, MinFindingAnswers
<1>3. ASSUME NEW t \in AllTraits(ms), Established(t), f = <<"trait", t.section, t.key>>
      PROVE  t.confidence = 100 /\ t.section = f[2] /\ t.key = f[3]
  BY <1>1, <1>3, EstablishedIsFull
<1>4. ASSUME NEW c \in ps, Established(c), f = <<"profile", c.key>>
      PROVE  \E t \in AllTraits(ms) : t.confidence = 100 /\ t.key \in DOMAIN Weights[f[2]]
  BY <1>1, <1>4, EstablishedProfile
<1>5. CASE \E m \in ms : IsEstablished(m) /\ f = <<"section", m.section>>
  BY <1>2, <1>5
<1>6. CASE \E t \in AllTraits(ms) : Established(t) /\ f = <<"trait", t.section, t.key>>
  BY <1>3, <1>6
<1>7. CASE \E c \in ps : Established(c) /\ f = <<"profile", c.key>>
  BY <1>4, <1>7
<1>8. CASE \E m \in ms : f = <<"unfinished", m.section>>
  BY <1>8
<1> QED
  BY <1>5, <1>6, <1>7, <1>8, StrengthsAre, WeaknessesAre DEF StrongSection, WeakSection

LEMMA NothingIsBoth ==
    ASSUME NEW ms, SummariesFit(ms), NEW ps, ps = BehavioralProfiles(AllTraits(ms))
    PROVE  Strengths(ms, ps) \cap Weaknesses(ms, ps) = {}
<1>1. TraitsFit(AllTraits(ms)) /\ AllTraits(ms) \subseteq Entries
  BY AllTraitsFit DEF TraitsFit
<1>2. ASSUME NEW m \in ms, NEW n \in ms, StrongSection(m), WeakSection(n), m.section = n.section PROVE FALSE
  <2>1. m = n
    BY <1>2 DEF SummariesFit
  <2>2. m.score \in 0 .. 1000
    BY <1>2, SummaryTyped DEF StrongSection
  <2>3. m.score >= 650 /\ m.score <= 350
    BY <1>2, <2>1 DEF StrongSection, WeakSection, StrongScore, WeakScore
  <2> QED
    BY <2>2, <2>3
<1>3. ASSUME NEW t \in AllTraits(ms), NEW u \in AllTraits(ms), t.score >= StrongScore, u.score <= WeakScore,
             t.section = u.section, t.key = u.key
      PROVE  FALSE
  <2>1. t = u
    BY <1>1, <1>3 DEF TraitsFit
  <2>2. t.score \in Int
    BY <1>1, EntryTyped
  <2> QED
    BY <1>3, <2>1, <2>2 DEF StrongScore, WeakScore
<1>4. ASSUME NEW c \in ps, NEW d \in ps, c.band = "strong", d.band = "developing", c.key = d.key PROVE FALSE
  <2>1. c = d
    BY <1>1, <1>4, EstablishedProfile
  <2> QED
    BY <1>4, <2>1
<1> SUFFICES ASSUME NEW f \in Strengths(ms, ps), f \in Weaknesses(ms, ps) PROVE FALSE
  OBVIOUS
<1>5. CASE \E m \in ms : StrongSection(m) /\ f = <<"section", m.section>>
  <2>1. PICK m \in ms : StrongSection(m) /\ f = <<"section", m.section>>
    BY <1>5
  <2>2. f[1] = "section" /\ f[2] = m.section
    BY <2>1
  <2>3. PICK n \in ms : WeakSection(n) /\ f[2] = n.section
    BY <2>2, WeaknessesAre
  <2> QED
    BY <1>2, <2>1, <2>2, <2>3
<1>6. CASE \E t \in AllTraits(ms) : t.score >= StrongScore /\ f = <<"trait", t.section, t.key>>
  <2>1. PICK t \in AllTraits(ms) : t.score >= StrongScore /\ f = <<"trait", t.section, t.key>>
    BY <1>6
  <2>2. f[1] = "trait" /\ f[2] = t.section /\ f[3] = t.key
    BY <2>1
  <2>3. PICK u \in AllTraits(ms) : u.score <= WeakScore /\ f[2] = u.section /\ f[3] = u.key
    BY <2>2, WeaknessesAre
  <2> QED
    BY <1>3, <2>1, <2>2, <2>3
<1>7. CASE \E c \in ps : c.band = "strong" /\ f = <<"profile", c.key>>
  <2>1. PICK c \in ps : c.band = "strong" /\ f = <<"profile", c.key>>
    BY <1>7
  <2>2. f[1] = "profile" /\ f[2] = c.key
    BY <2>1
  <2>3. PICK d \in ps : d.band = "developing" /\ f[2] = d.key
    BY <2>2, WeaknessesAre
  <2> QED
    BY <1>4, <2>1, <2>2, <2>3
<1> QED
  BY <1>5, <1>6, <1>7, StrengthsAre

(***************************************************************************)
(* Verdict: what was never measured                                        *)
(***************************************************************************)
\* What UnmeasuredSaysNothing varies: the score of a trait nothing was said of.
ReadAs(t, s) == IF t.confidence = 0 THEN [t EXCEPT !.score = s] ELSE t

LEMMA RereadKeeps ==
    ASSUME NEW t \in Entries, NEW s
    PROVE  /\ ReadAs(t, s).key = t.key /\ ReadAs(t, s).section = t.section
           /\ ReadAs(t, s).confidence = t.confidence
           /\ t.confidence # 0 => ReadAs(t, s) = t
BY EntryTyped DEF ReadAs

LEMMA SameFindings ==
    ASSUME NEW ms, NEW ns, NEW f, SameSections(f, ms, ns), \A m \in ms : f[m].score = m.score,
           \A t : Established(t) => (t \in AllTraits(ms) <=> t \in AllTraits(ns)), NEW ps
    PROVE  Strengths(ns, ps) = Strengths(ms, ps) /\ Weaknesses(ns, ps) = Weaknesses(ms, ps)
<1>1. \A m \in ms : /\ f[m] \in ns /\ f[m].section = m.section /\ f[m].score = m.score
                    /\ f[m].questionCount = m.questionCount /\ f[m].answered = m.answered
  BY DEF SameSections, Matches
<1>2. \A n \in ns : \E m \in ms : f[m] = n
  BY DEF SameSections, Matches
<1>3. \A m \in ms : /\ StrongSection(f[m]) <=> StrongSection(m)
                    /\ WeakSection(f[m]) <=> WeakSection(m)
                    /\ Partial(f[m]) <=> Partial(m)
  BY <1>1 DEF StrongSection, WeakSection, Partial, IsEstablished
<1>4. ASSUME NEW x PROVE x \in Strengths(ns, ps) <=> x \in Strengths(ms, ps)
  <2>1. (\E m \in ms : StrongSection(m) /\ x = <<"section", m.section>>)
        <=> \E n \in ns : StrongSection(n) /\ x = <<"section", n.section>>
    BY <1>1, <1>2, <1>3
  <2> QED
    BY <2>1, StrengthsAre
<1>5. ASSUME NEW x PROVE x \in Weaknesses(ns, ps) <=> x \in Weaknesses(ms, ps)
  <2>1. (\E m \in ms : WeakSection(m) /\ x = <<"section", m.section>>)
        <=> \E n \in ns : WeakSection(n) /\ x = <<"section", n.section>>
    BY <1>1, <1>2, <1>3
  <2>2. (\E m \in ms : Partial(m) /\ x = <<"unfinished", m.section>>)
        <=> \E n \in ns : Partial(n) /\ x = <<"unfinished", n.section>>
    BY <1>1, <1>2, <1>3
  <2> QED
    BY <2>1, <2>2, WeaknessesAre
<1> QED
  BY <1>4, <1>5

Rereading(ms, s) == {[m EXCEPT !.traits = {ReadAs(t, s) : t \in @}] : m \in ms}

LEMMA RereadSaysTheSame ==
    ASSUME NEW ms, SummariesFit(ms), NEW s
    PROVE  BuildReport(Rereading(ms, s)) = BuildReport(ms)
<1> PICK ns : ns = {[m EXCEPT !.traits = {ReadAs(t, s) : t \in @}] : m \in ms}
  OBVIOUS
<1> SUFFICES BuildReport(ns) = BuildReport(ms)
  BY DEF Rereading
<1> DEFINE f == [m \in ms |-> [m EXCEPT !.traits = {ReadAs(t, s) : t \in @}]]
           ts == AllTraits(ms)
           us == AllTraits(ns)
<1>1. ASSUME NEW m \in ms
      PROVE  /\ f[m] \in ns /\ f[m].section = m.section /\ f[m].objective = m.objective
             /\ f[m].questionCount = m.questionCount /\ f[m].answered = m.answered
             /\ f[m].score = m.score /\ f[m].traits = {ReadAs(t, s) : t \in m.traits}
             /\ m.traits = {} => f[m] = m
  <2>1. m = [section |-> m.section, objective |-> m.objective, questionCount |-> m.questionCount,
             answered |-> m.answered, score |-> m.score, traits |-> m.traits]
    BY SummaryTyped
  <2>2. f[m] = [section |-> m.section, objective |-> m.objective, questionCount |-> m.questionCount,
                answered |-> m.answered, score |-> m.score, traits |-> {ReadAs(t, s) : t \in m.traits}]
    BY <2>1
  <2>3. m.traits = {} => {ReadAs(t, s) : t \in m.traits} = m.traits
    OBVIOUS
  <2>4. f[m] \in ns
    OBVIOUS
  <2> HIDE DEF f
  <2>5. /\ f[m].section = m.section /\ f[m].objective = m.objective
        /\ f[m].questionCount = m.questionCount /\ f[m].answered = m.answered
        /\ f[m].score = m.score /\ f[m].traits = {ReadAs(t, s) : t \in m.traits}
    BY <2>2
  <2>6. m.traits = {} => f[m] = m
    BY <2>1, <2>2, <2>3
  <2> QED
    BY <2>4, <2>5, <2>6
<1>2. \A n \in ns : \E m \in ms : f[m] = n
  OBVIOUS
<1> HIDE DEF f
<1>3. f \in [ms -> ns]
  BY <1>1 DEF f
<1>4. SameSections(f, ms, ns)
  <2>1. \A x, y \in ms : f[x] = f[y] => x = y
    <3> SUFFICES ASSUME NEW x \in ms, NEW y \in ms, f[x] = f[y] PROVE x = y
      OBVIOUS
    <3>1. x.section = y.section
      BY <1>1
    <3> QED
      BY <3>1 DEF SummariesFit
  <2> QED
    BY <1>1, <1>2, <1>3, <2>1 DEF SameSections, Matches
<1>5. ts \subseteq Entries
  BY AllTraitsFit DEF TraitsFit
<1>6. ASSUME NEW u PROVE u \in us <=> \E t \in ts : u = ReadAs(t, s)
  <2>1. u \in us <=> \E m \in ms : u \in f[m].traits
    BY <1>1, <1>2, InAllTraits
  <2>2. \A m \in ms : u \in f[m].traits <=> \E t \in m.traits : u = ReadAs(t, s)
    BY <1>1
  <2>3. (\E t \in ts : u = ReadAs(t, s)) <=> \E m \in ms : \E t \in m.traits : u = ReadAs(t, s)
    BY InAllTraits
  <2> QED
    BY <2>1, <2>2, <2>3
<1> HIDE DEF ts, us
<1>7. \A t : t.confidence # 0 => (t \in ts <=> t \in us)
  BY <1>5, <1>6, RereadKeeps
<1>8. ASSUME NEW p \in Profiles PROVE Present(p, us) = Present(p, ts)
  <2>1. ASSUME NEW t \in ts, t \in us PROVE t \in ByKey(us) <=> t \in ByKey(ts)
    <3>1. \A u \in us : \E w \in ts : u.key = w.key /\ u.section = w.section
      BY <1>5, <1>6, RereadKeeps
    <3>2. \A w \in ts : \E u \in us : u.key = w.key /\ u.section = w.section
      BY <1>5, <1>6, RereadKeeps
    <3> QED
      BY <2>1, <3>1, <3>2 DEF ByKey
  <2>2. \A t : t.confidence > 0 => t.confidence # 0
    BY SMT
  <2>3. ASSUME NEW t PROVE t \in Present(p, us) <=> t \in Present(p, ts)
    <3>1. t \in Present(p, us) => t \in us /\ t.confidence # 0 /\ t \in ByKey(us)
      BY <2>2 DEF Present, ByKey
    <3>2. t \in Present(p, ts) => t \in ts /\ t.confidence # 0 /\ t \in ByKey(ts)
      BY <2>2 DEF Present, ByKey
    <3> QED
      BY <1>7, <2>1, <3>1, <3>2 DEF Present
  <2> QED
    BY <2>3
<1>9. BehavioralProfiles(us) = BehavioralProfiles(ts)
  <2>1. \A p \in Profiles : Composite(p, us) = Composite(p, ts)
    BY <1>8, CompositeIs
  <2> QED
    BY <1>8, <2>1 DEF BehavioralProfiles
<1>10. AbilityScore(ns) = AbilityScore(ms)
  <2>1. {m \in ns : m.objective /\ m.answered > 0} = {m \in ms : m.objective /\ m.answered > 0}
    <3>1. \A m \in ms : m.objective => f[m] = m
      BY <1>1 DEF SummariesFit
    <3>2. \A m : m \in ns /\ m.objective => m \in ms
      BY <1>1, <1>2, <3>1
    <3>3. \A m : m \in ms /\ m.objective => m \in ns
      BY <1>1, <3>1
    <3> QED
      BY <3>2, <3>3
  <2> QED
    BY <2>1 DEF AbilityScore
<1>11. Covered(ns) = Covered(ms)
  <2>1. \A m \in ms : m.questionCount \in Nat /\ m.answered \in Nat
    BY SummaryTyped
  <2> QED
    BY <1>4, <2>1, CoveredSame DEF SummariesFit
<1>12. ASSUME NEW ps
       PROVE  Strengths(ns, ps) = Strengths(ms, ps) /\ Weaknesses(ns, ps) = Weaknesses(ms, ps)
  <2>1. \A t : Established(t) => t.confidence # 0
    BY SMT DEF Established, MinFindingConfidence
  <2>2. \A t : Established(t) => (t \in AllTraits(ms) <=> t \in AllTraits(ns))
    BY <1>7, <2>1 DEF ts, us
  <2>3. \A m \in ms : f[m].score = m.score
    BY <1>1
  <2> QED
    BY <1>4, <2>2, <2>3, SameFindings
<1>13. BehavioralProfiles(AllTraits(ns)) = BehavioralProfiles(AllTraits(ms))
  BY <1>9 DEF ts, us
<1> QED
  BY <1>10, <1>11, <1>12, <1>13 DEF BuildReport

(***************************************************************************)
(* Verdict: the rows                                                       *)
(***************************************************************************)
\* What a row may say of its section.
RowFits(i, r) ==
    /\ r \in Rows
    /\ r.answered <= Sections[i].questionCount
    /\ Sections[i].objective => r.traitScores = None /\ (r.ability # None <=> r.answered > 0)
    /\ ~Sections[i].objective => r.ability = None /\ (r.answered = 0 => r.traitScores = None)

VocabularyFits ==
    /\ vocabulary \in [DOMAIN Sections -> Nat]
    /\ \A i \in DOMAIN Sections : ~Sections[i].objective => vocabulary[i] \in DOMAIN Sections[i].vocabularies

VerdictIInv ==
    /\ results \in [DOMAIN Sections -> Rows \cup {None}]
    /\ \A i \in DOMAIN Sections : results[i] # None => RowFits(i, results[i])
    /\ finished \in BOOLEAN
    /\ finished => \A i \in DOMAIN Sections : results[i] # None
    /\ VocabularyFits

LEMMA SectionFacts ==
    /\ DOMAIN Sections \subseteq Nat
    /\ IsFiniteSet(DOMAIN Sections)
    /\ \A i \in DOMAIN Sections : /\ Sections[i].objective \in BOOLEAN
                                  /\ Sections[i].questionCount \in Nat \ {0}
                                  /\ Sections[i].vocabularies \in Seq(Vocabularies)
                                  /\ ~Sections[i].objective => Sections[i].vocabularies # <<>>
<1> PICK T : T = {Sections[i] : i \in DOMAIN Sections}
  OBVIOUS
<1>1. Sections \in Seq(T)
  BY VerdictAssumption
<1>2. DOMAIN Sections = 1 .. Len(Sections) /\ Len(Sections) \in Nat
  BY <1>1
<1>3. IsFiniteSet(1 .. Len(Sections))
  BY <1>2, FS_Interval
<1> QED
  BY <1>2, <1>3, VerdictAssumption

LEMMA DeclaredIsOne ==
    ASSUME VocabularyFits, NEW i \in DOMAIN Sections, ~Sections[i].objective
    PROVE  Declared(i) \in Vocabularies
<1> PICK s : s = Sections[i].vocabularies
  OBVIOUS
<1> PICK V : V = Vocabularies
  OBVIOUS
<1>1. s \in Seq(V)
  BY SectionFacts
<1>2. vocabulary[i] \in DOMAIN s
  BY DEF VocabularyFits
<1>3. s[vocabulary[i]] \in V
  BY <1>1, <1>2
<1> QED
  BY <1>3 DEF Declared

\* A row persistModuleResult writes for the section the attempt is in.
LEMMA AttemptedFits ==
    ASSUME VocabularyFits, NEW i \in DOMAIN Sections, NEW row \in AttemptedRows(i)
    PROVE  RowFits(i, row)
<1> DEFINE Heard(n) == {[score |-> m.score, confidence |-> TraitConfidence(m.count)] :
                            m \in {x \in Measures : x.count <= n}}
           Held == {None} \cup UNION {[v -> Measurements] : v \in Vocabularies}
<1>0. Sections[i].objective \in BOOLEAN /\ Sections[i].questionCount \in Nat
  BY SectionFacts
<1>1. CASE Sections[i].objective
  <2>1. row \in [answered : 1 .. Sections[i].questionCount, ability : Abilities, traitScores : {None}]
    BY <1>1 DEF AttemptedRows
  <2>2. row \in Rows
    BY <1>0, <2>1 DEF Rows
  <2>3. row.ability # None
    <3>1. row.ability \in Abilities
      BY <2>1
    <3>2. None \notin Abilities
      <4>1. Abilities \subseteq Int /\ None \notin Int
        BY VerdictAssumption
      <4> QED
        BY <4>1
    <3> QED
      BY <3>1, <3>2
  <2> QED
    BY <1>0, <1>1, <2>1, <2>2, <2>3 DEF RowFits
<1>2. CASE ~Sections[i].objective
  <2>1. row \in UNION {[answered : {n}, ability : {None}, traitScores : [Declared(i) -> Heard(n)]] :
                       n \in 1 .. Sections[i].questionCount}
    BY <1>2 DEF AttemptedRows
  <2> HIDE DEF Heard
  <2>2. PICK n \in 1 .. Sections[i].questionCount :
             row \in [answered : {n}, ability : {None}, traitScores : [Declared(i) -> Heard(n)]]
    BY <2>1
  <2>3. row.answered = n /\ row.ability = None /\ row.traitScores \in [Declared(i) -> Heard(n)]
        /\ row = [answered |-> row.answered, ability |-> row.ability, traitScores |-> row.traitScores]
    BY <2>2
  <2>4. Heard(n) \subseteq Measurements
    <3> SUFFICES ASSUME NEW m \in Measures, m.count <= n
                 PROVE  [score |-> m.score, confidence |-> TraitConfidence(m.count)] \in Measurements
      BY DEF Heard
    <3>1. m.score \in 0 .. 1000 /\ m.count \in Nat
      BY VerdictAssumption
    <3>2. TraitConfidence(m.count) \in {TraitConfidence(k) : k \in 0 .. TargetQuestions}
      BY <3>1, ConfidenceIsALevel
    <3> QED
      BY <3>1, <3>2 DEF Measurements
  <2>5. row.traitScores \in Held
    <3>1. row.traitScores \in [Declared(i) -> Measurements]
      BY <2>3, <2>4
    <3>2. Declared(i) \in Vocabularies
      BY <1>2, DeclaredIsOne
    <3> QED
      BY <3>1, <3>2
  <2> HIDE DEF Held
  <2>6. row \in [answered : Nat, ability : Abilities \cup {None}, traitScores : Held]
    BY <1>0, <2>2, <2>3, <2>5
  <2>7. row \in Rows
    BY <2>6 DEF Rows, Held
  <2> QED
    BY <1>0, <1>2, <2>2, <2>3, <2>7 DEF RowFits
<1> QED
  BY <1>0, <1>1, <1>2

\* A row finalize writes for a section never reached.
LEMMA UnreachedFits ==
    ASSUME NEW i \in DOMAIN Sections
    PROVE  RowFits(i, UnreachedRow)
<1>1. UnreachedRow \in Rows
  BY DEF UnreachedRow, Rows
<1>2. Sections[i].questionCount \in Nat
  BY SectionFacts
<1> QED
  BY <1>1, <1>2 DEF RowFits, UnreachedRow

\* The section the attempt is in: a set of naturals with a member has a least one.
LEMMA FirstIsUnclosed ==
    ASSUME Unclosed # {}
    PROVE  Min(Unclosed) \in Unclosed /\ Min(Unclosed) \in DOMAIN Sections
<1> DEFINE R == {ss \in Nat \X Nat : ss[1] < ss[2]}
<1>1. IsWellFoundedOn(R, Nat)
  BY NatLessThanWellFounded DEF OpToRel
<1>2. Unclosed \subseteq DOMAIN Sections
  BY DEF Unclosed
<1>3. Unclosed \subseteq Nat
  BY <1>2, SectionFacts
<1> HIDE DEF R
<1> DEFINE T == Unclosed
<1>4. T # {} /\ T \subseteq Nat
  BY <1>3
<1> HIDE DEF T
<1>5. PICK x \in T : \A y \in T : ~(<<y, x>> \in R)
  BY <1>1, <1>4, WFMin
<1>6. ASSUME NEW y \in T PROVE x <= y
  <2>1. x \in Nat /\ y \in Nat
    BY <1>4
  <2>2. ~(y < x)
    BY <1>5, <2>1 DEF R
  <2> QED
    BY <2>1, <2>2
<1>8. \E z \in Unclosed : \A y \in Unclosed : z <= y
  BY <1>6 DEF T
<1>7. Min(Unclosed) \in Unclosed
  BY <1>8 DEF Min
<1> QED
  BY <1>2, <1>7

LEMMA VerdictInitOK == VerdictInit => VerdictIInv
<1> SUFFICES ASSUME VerdictInit PROVE VerdictIInv
  OBVIOUS
<1>1. results = [i \in DOMAIN Sections |-> None] /\ finished = FALSE
      /\ vocabulary = [i \in DOMAIN Sections |-> 1]
  BY DEF VerdictInit
<1>2. ASSUME NEW i \in DOMAIN Sections, ~Sections[i].objective
      PROVE  1 \in DOMAIN Sections[i].vocabularies
  <2> PICK s : s = Sections[i].vocabularies
    OBVIOUS
  <2> PICK V : V = Vocabularies
    OBVIOUS
  <2>1. s \in Seq(V) /\ s # <<>>
    BY <1>2, SectionFacts
  <2> QED
    BY <2>1
<1>3. VocabularyFits
  BY <1>1, <1>2 DEF VocabularyFits
<1> QED
  BY <1>1, <1>3 DEF VerdictIInv

LEMMA CloseSectionOK ==
    ASSUME VerdictIInv, NEW row \in AttemptedRows(Min(Unclosed)), CloseSection(row)
    PROVE  VerdictIInv'
<1> PICK i : i = Min(Unclosed)
  OBVIOUS
<1>1. i \in DOMAIN Sections
  BY FirstIsUnclosed DEF CloseSection
<1>2. results' = [results EXCEPT ![i] = row] /\ finished' = finished /\ vocabulary' = vocabulary /\ ~finished
  BY DEF CloseSection
<1>3. RowFits(i, row) /\ row \in Rows
  BY <1>1, AttemptedFits DEF VerdictIInv, RowFits
<1>4. VocabularyFits'
  BY <1>2 DEF VerdictIInv, VocabularyFits
<1>5. results' \in [DOMAIN Sections -> Rows \cup {None}]
  BY <1>1, <1>2, <1>3 DEF VerdictIInv
<1>6. ASSUME NEW j \in DOMAIN Sections, results'[j] # None PROVE RowFits(j, results'[j])
  <2>1. j = i => results'[j] = row
    BY <1>1, <1>2 DEF VerdictIInv
  <2>2. j # i => results'[j] = results[j]
    BY <1>2 DEF VerdictIInv
  <2> QED
    BY <1>3, <1>6, <2>1, <2>2 DEF VerdictIInv
<1> QED
  BY <1>2, <1>4, <1>5, <1>6 DEF VerdictIInv, RowFits

LEMMA FinalizeOK ==
    ASSUME VerdictIInv, NEW row, Finalize(row)
    PROVE  VerdictIInv'
<1> PICK i : i = Min(Unclosed)
  OBVIOUS
<1>1. results' = [j \in DOMAIN Sections |->
                     IF j \notin Unclosed THEN results[j] ELSE IF j = i THEN row ELSE UnreachedRow]
      /\ finished' = TRUE /\ vocabulary' = vocabulary
  BY DEF Finalize
<1>2. ASSUME Unclosed # {} PROVE i \in DOMAIN Sections /\ RowFits(i, row)
  <2>1. i \in DOMAIN Sections
    BY <1>2, FirstIsUnclosed
  <2>2. CASE row = UnreachedRow
    BY <2>1, <2>2, UnreachedFits
  <2>3. CASE row # UnreachedRow
    BY <2>1, <2>3, AttemptedFits DEF Finalize, VerdictIInv
  <2> QED
    BY <2>1, <2>2, <2>3
<1>3. ASSUME NEW j \in DOMAIN Sections PROVE RowFits(j, results'[j]) /\ results'[j] # None
  <2>1. CASE j \notin Unclosed
    <3>1. results'[j] = results[j] /\ results[j] # None
      BY <1>1, <2>1 DEF Unclosed
    <3> QED
      BY <3>1 DEF VerdictIInv
  <2>2. CASE j \in Unclosed
    <3>1. (results'[j] = row /\ j = i) \/ results'[j] = UnreachedRow
      BY <1>1, <2>2
    <3>2. RowFits(j, results'[j])
      BY <1>2, <2>2, <3>1, UnreachedFits
    <3> QED
      BY <3>2, VerdictAssumption DEF RowFits
  <2> QED
    BY <2>1, <2>2
<1>4. results' \in [DOMAIN Sections -> Rows \cup {None}]
  <2>1. \A j \in DOMAIN Sections : results'[j] \in Rows
    BY <1>3 DEF RowFits
  <2>2. results' = [j \in DOMAIN Sections |-> results'[j]]
    BY <1>1
  <2> QED
    BY <2>1, <2>2
<1>5. VocabularyFits'
  BY <1>1 DEF VerdictIInv, VocabularyFits
<1> QED
  BY <1>1, <1>3, <1>4, <1>5 DEF VerdictIInv, RowFits

LEMMA RedeclareOK ==
    ASSUME VerdictIInv, NEW i \in DOMAIN Sections, Redeclare(i)
    PROVE  VerdictIInv'
<1> PICK s : s = Sections[i].vocabularies
  OBVIOUS
<1> PICK V : V = Vocabularies
  OBVIOUS
<1>1. ~Sections[i].objective /\ vocabulary[i] < Len(s) /\ results' = results /\ finished' = finished
      /\ vocabulary' = [vocabulary EXCEPT ![i] = vocabulary[i] + 1]
  BY DEF Redeclare
<1>2. s \in Seq(V)
  BY SectionFacts
<1>3. vocabulary \in [DOMAIN Sections -> Nat] /\ vocabulary[i] \in DOMAIN s
  BY <1>1 DEF VerdictIInv, VocabularyFits
<1>4. vocabulary[i] + 1 \in DOMAIN s /\ vocabulary[i] + 1 \in Nat
  BY <1>1, <1>2, <1>3
<1>5. VocabularyFits'
  BY <1>1, <1>3, <1>4 DEF VerdictIInv, VocabularyFits
<1> QED
  BY <1>1, <1>5 DEF VerdictIInv, RowFits

\* A row says of its section what the section can have: an ability only of an
\* objective one that was answered, traits only of another that was; once the
\* attempt is closed every section has one (persistModuleResult, finalize).
THEOREM VerdictInvariant == VerdictSpec => []VerdictIInv
<1>1. VerdictIInv /\ [VerdictNext]_verdict => VerdictIInv'
  <2> SUFFICES ASSUME VerdictIInv, [VerdictNext]_verdict PROVE VerdictIInv'
    OBVIOUS
  <2>1. ASSUME NEW row \in AttemptedRows(Min(Unclosed)), CloseSection(row) \/ Finalize(row)
        PROVE  VerdictIInv'
    BY <2>1, CloseSectionOK, FinalizeOK
  <2>2. CASE Finalize(UnreachedRow)
    BY <2>2, FinalizeOK
  <2>3. ASSUME NEW i \in DOMAIN Sections, Redeclare(i) PROVE VerdictIInv'
    BY <2>3, RedeclareOK
  <2>4. CASE UNCHANGED verdict
    BY <2>4 DEF verdict, VerdictIInv, VocabularyFits, RowFits
  <2> QED
    BY <2>1, <2>2, <2>3, <2>4 DEF VerdictNext
<1> QED
  BY <1>1, VerdictInitOK, PTL DEF VerdictSpec

LEMMA AbilityIsAScore ==
    ASSUME NEW a \in Int
    PROVE  NormaliseAbility(a) \in 0 .. 1000
<1> DEFINE x == Clamp(a, 600, 1400) - 600
<1>1. x \in Int /\ 0 <= x /\ x <= 800
  BY DEF Clamp
<1>2. NormaliseAbility(a) = RoundDiv(1000 * x, 800)
  BY DEF NormaliseAbility, AbilityFloor, AbilityCeiling
<1> HIDE DEF x
<1>3. 1000 * x \in Int /\ 0 <= 1000 * x /\ 1000 * x <= 1000 * 800
  BY <1>1
<1>4. RoundDiv(0, 800) = 0
  BY DEF RoundDiv
<1>5. RoundDiv(1000 * x, 800) \in Int /\ 0 <= RoundDiv(1000 * x, 800)
  <2>1. RoundDiv(0, 800) <= RoundDiv(1000 * x, 800)
    BY <1>3, RoundingGrows
  <2>2. RoundDiv(1000 * x, 800) \in Int
    BY <1>3, RoundingGrows
  <2> QED
    BY <1>4, <2>1, <2>2
<1>6. RoundDiv(1000 * x, 800) <= 1000
  BY <1>3, RoundingIsBounded
<1> QED
  BY <1>2, <1>5, <1>6

\* What buildTraits reads from a stored row.
LEMMA TraitsAreEntries ==
    ASSUME VocabularyFits, NEW i \in DOMAIN Sections, ~Sections[i].objective,
           NEW v \in Vocabularies, NEW scores \in [v -> Measurements]
    PROVE  /\ BuildTraits(i, scores) \subseteq Entries
           /\ IsFiniteSet(BuildTraits(i, scores))
           /\ \A t \in BuildTraits(i, scores) : t.section = i
           /\ \A t, u \in BuildTraits(i, scores) : t.key = u.key => t = u
<1> DEFINE stored == DOMAIN scores
           legacy == Declared(i) \cap stored = {} /\ stored # {}
           Neutral == [score |-> 500, confidence |-> 0]
           Stored(k) == IF k \in stored THEN scores[k] ELSE Neutral
           Flipped(k) == IF k \in Inverted /\ ~legacy THEN 1000 - Stored(k).score ELSE Stored(k).score
           keys == IF legacy THEN stored ELSE Declared(i)
           f == [k \in keys |-> [key |-> k, section |-> i, score |-> Flipped(k),
                                 confidence |-> Stored(k).confidence]]
           e(k) == [key |-> k, section |-> i, score |-> Flipped(k), confidence |-> Stored(k).confidence]
<1>1. BuildTraits(i, scores) = {f[k] : k \in keys}
  <2>2. BuildTraits(i, scores) = {e(k) : k \in keys}
    BY DEF BuildTraits
  <2>3. \A k \in keys : f[k] = e(k)
    OBVIOUS
  <2> HIDE DEF f, e, keys
  <2> QED
    BY <2>2, <2>3
<1>0. stored = v
  OBVIOUS
<1>2. keys \in Vocabularies
  BY <1>0, DeclaredIsOne
<1>3. ASSUME NEW k \in keys
      PROVE  Flipped(k) \in 0 .. 1000 /\ Stored(k).confidence \in Levels
  <2>1. Stored(k) \in Measurements
    <3>1. k \notin stored => Stored(k) = Neutral
      OBVIOUS
    <3>2. Neutral \in Measurements
      BY ConfidenceLevels DEF Measurements
    <3>3. k \in v => scores[k] \in Measurements
      OBVIOUS
    <3>4. k \in stored => Stored(k) = scores[k]
      OBVIOUS
    <3> HIDE DEF Stored, Neutral, stored
    <3> QED
      BY <1>0, <3>1, <3>2, <3>3, <3>4
  <2>2. Stored(k).score \in 0 .. 1000 /\ Stored(k).confidence \in Levels
    BY <2>1 DEF Measurements, Levels
  <2> HIDE DEF Stored
  <2>3. 1000 - Stored(k).score \in 0 .. 1000
    <3>1. PICK x \in 0 .. 1000 : x = Stored(k).score
      BY <2>2
    <3>2. 1000 - x \in 0 .. 1000
      OBVIOUS
    <3> HIDE DEF keys, f, e, Flipped
    <3> QED
      BY <3>1, <3>2
  <2> QED
    BY <2>2, <2>3
<1>4. ASSUME NEW k \in keys
      PROVE  /\ f[k].key = k /\ f[k].section = i
             /\ f[k] \in Entries
  <2> HIDE DEF keys, Flipped, Stored
  <2>1. f[k] = [key |-> k, section |-> i, score |-> Flipped(k), confidence |-> Stored(k).confidence]
    OBVIOUS
  <2> HIDE DEF f
  <2>2. k \in UNION Vocabularies
    BY <1>2
  <2> QED
    BY <1>3, <2>1, <2>2 DEF Entries
<1> HIDE DEF keys, f
<1>5. IsFiniteSet({f[k] : k \in keys})
  <2>1. IsFiniteSet(keys)
    BY <1>2, VerdictAssumption
  <2> QED
    BY <2>1, ImageIsFinite
<1> QED
  BY <1>1, <1>4, <1>5

\* A summary says of its section what the row says.
Reads(m, i) ==
    /\ m.section = i /\ m.objective = Sections[i].objective
    /\ m.questionCount = Sections[i].questionCount /\ m.answered = results[i].answered
    /\ m.score = IF Sections[i].objective /\ results[i].ability # None
                 THEN NormaliseAbility(results[i].ability) ELSE None
    /\ m.traits = IF results[i].traitScores = None THEN {} ELSE BuildTraits(i, results[i].traitScores)

Closed == {i \in DOMAIN Sections : results[i] # None}

\* The summary of each section.
Summary ==
    [i \in Closed |->
        [section |-> i, objective |-> Sections[i].objective,
         questionCount |-> Sections[i].questionCount, answered |-> results[i].answered,
         score |-> IF Sections[i].objective /\ results[i].ability # None
                   THEN NormaliseAbility(results[i].ability) ELSE None,
         traits |-> IF results[i].traitScores = None THEN {} ELSE BuildTraits(i, results[i].traitScores)]]

LEMMA SummaryReads ==
    ASSUME VerdictIInv
    PROVE  /\ ModuleSummaries(results) = {Summary[i] : i \in Closed}
           /\ \A i \in Closed : Reads(Summary[i], i)
<1>1. DOMAIN results = DOMAIN Sections
  BY DEF VerdictIInv
<1>2. ModuleSummaries(results) = {Summary[i] : i \in Closed}
  BY <1>1 DEF ModuleSummaries, Summary, Closed
<1>3. \A i \in Closed : Reads(Summary[i], i)
  BY DEF Summary, Reads
<1> QED
  BY <1>2, <1>3

LEMMA SummaryFits ==
    ASSUME VerdictIInv, NEW i \in Closed
    PROVE  /\ Summary[i] \in Summaries
           /\ IsFiniteSet(Summary[i].traits)
           /\ \A t \in Summary[i].traits : t.section = i
           /\ \A t, u \in Summary[i].traits : t.key = u.key => t = u
           /\ Summary[i].objective => /\ Summary[i].traits = {}
                                      /\ Summary[i].score # None <=> Summary[i].answered > 0
           /\ ~Summary[i].objective => Summary[i].score = None
           /\ Summary[i].answered = 0 => Summary[i].traits = {}
<1> PICK r : r = results[i]
  OBVIOUS
<1> PICK m : m = Summary[i]
  OBVIOUS
<1>1. RowFits(i, r) /\ i \in DOMAIN Sections
  BY DEF VerdictIInv, Closed
<1>2. m.section = i /\ m.objective = Sections[i].objective
      /\ m.questionCount = Sections[i].questionCount /\ m.answered = r.answered
      /\ m.score = (IF Sections[i].objective /\ r.ability # None THEN NormaliseAbility(r.ability) ELSE None)
      /\ m.traits = IF r.traitScores = None THEN {} ELSE BuildTraits(i, r.traitScores)
  BY SummaryReads DEF Reads
<1>3. m = [section |-> m.section, objective |-> m.objective, questionCount |-> m.questionCount,
           answered |-> m.answered, score |-> m.score, traits |-> m.traits]
  BY DEF Summary
<1>4. /\ Sections[i].objective \in BOOLEAN /\ Sections[i].questionCount \in Nat
      /\ r.answered \in Nat /\ r.ability \in Abilities \cup {None}
      /\ r.traitScores = None \/ \E v \in Vocabularies : r.traitScores \in [v -> Measurements]
  BY <1>1, SectionFacts DEF RowFits, Rows
<1>5. /\ m.score \in (0 .. 1000) \cup {None}
      /\ m.objective => (m.score # None <=> m.answered > 0)
      /\ ~m.objective => m.score = None
  <2>1. r.ability # None => NormaliseAbility(r.ability) \in 0 .. 1000
    <3>1. Abilities \subseteq Int
      BY VerdictAssumption
    <3>2. r.ability # None => r.ability \in Int
      BY <1>4, <3>1
    <3> QED
      BY <3>2, AbilityIsAScore
  <2>2. None \notin 0 .. 1000
    <3>1. None \notin Int
      BY VerdictAssumption
    <3> QED
      BY <3>1
  <2> QED
    BY <1>1, <1>2, <2>1, <2>2 DEF RowFits
<1>6. /\ m.traits \subseteq Entries /\ IsFiniteSet(m.traits)
      /\ \A t \in m.traits : t.section = i
      /\ \A t, u \in m.traits : t.key = u.key => t = u
      /\ m.objective \/ m.answered = 0 => m.traits = {}
  <2>1. CASE r.traitScores = None
    <3>1. m.traits = {}
      BY <1>2, <2>1
    <3> QED
      BY <3>1, FS_EmptySet
  <2>2. CASE r.traitScores # None
    <3>1. ~Sections[i].objective /\ r.answered # 0
      BY <1>1, <1>4, <2>2 DEF RowFits
    <3>2. PICK v \in Vocabularies : r.traitScores \in [v -> Measurements]
      BY <1>4, <2>2
    <3>3. m.traits = BuildTraits(i, r.traitScores)
      BY <1>2, <2>2
    <3>4. VocabularyFits
      BY DEF VerdictIInv
    <3>5. /\ m.traits \subseteq Entries /\ IsFiniteSet(m.traits)
          /\ \A t \in m.traits : t.section = i
          /\ \A t, u \in m.traits : t.key = u.key => t = u
      BY <1>1, <3>1, <3>2, <3>3, <3>4, TraitsAreEntries
    <3> QED
      BY <1>2, <3>1, <3>5
  <2> QED
    BY <2>1, <2>2
<1>7. m \in Summaries
  BY <1>1, <1>2, <1>3, <1>4, <1>5, <1>6 DEF Summaries
<1> QED
  BY <1>5, <1>6, <1>7

LEMMA SummariesAreFit ==
    ASSUME VerdictIInv
    PROVE  SummariesFit(ModuleSummaries(results))
<1> PICK ms : ms = ModuleSummaries(results)
  OBVIOUS
<1>1. ms = {Summary[i] : i \in Closed} /\ \A i \in Closed : Summary[i].section = i
  BY SummaryReads DEF Reads
<1>2. IsFiniteSet(Closed)
  BY SectionFacts, FS_Subset DEF Closed
<1>3. IsFiniteSet(ms)
  BY <1>1, <1>2, ImageIsFinite
<1>4. \A m \in ms : m.section \in Closed /\ m = Summary[m.section]
  BY <1>1
<1>5. \A m, n \in ms : m.section = n.section => m = n
  BY <1>4
<1>6. ms \subseteq Summaries
  BY <1>4, SummaryFits
<1>7. ASSUME NEW m \in ms
      PROVE  /\ IsFiniteSet(m.traits)
             /\ \A t \in m.traits : t.section = m.section
             /\ \A t, u \in m.traits : t.key = u.key => t = u
             /\ m.objective => m.traits = {} /\ (m.score # None <=> m.answered > 0)
             /\ ~m.objective => m.score = None
             /\ m.answered = 0 => m.traits = {}
  BY <1>4, SummaryFits
<1> QED
  BY <1>3, <1>5, <1>6, <1>7 DEF SummariesFit

(***************************************************************************)
(* Verdict: the properties                                                 *)
(***************************************************************************)
\* The scores a report blends are whole numbers, or null.
LEMMA ScoresAreScores ==
    ASSUME NEW ms, SummariesFit(ms)
    PROVE  /\ ScoreOrNone(AbilityScore(ms))
           /\ {m \in ms : m.objective /\ m.answered > 0} # {} <=> AbilityScore(ms) # None
           /\ ScoreOrNone(BuildReport(ms).overallScore)
<1> DEFINE A == {m \in ms : m.objective /\ m.answered > 0}
           e == [m \in A |-> m]
           g == [m \in A |-> IF m.score = None THEN 0 ELSE m.score]
           ts == AllTraits(ms)
           d == [t \in ts |-> t]
           rated == BehavioralIndex(BehavioralProfiles(ts))
<1>1. A # {} => AbilityScore(ms) = Mean(g)
  BY DEF AbilityScore
<1>2. A = {} => AbilityScore(ms) = None
  BY DEF AbilityScore
<1>3. \A m \in A : g[m] \in Int
  <2>1. \A m \in A : m.score \in (0 .. 1000) \cup {None}
    BY SummaryTyped
  <2>2. \A m \in A : m.score # None => m.score \in Int
    BY <2>1
  <2> QED
    BY <2>2
<1>4. IsFiniteSet(A)
  BY FS_Subset DEF SummariesFit
<1>5. TraitsFit(ts)
  BY AllTraitsFit
<1> HIDE DEF A, ts
<1>6. A # {} => Mean(g) \in Int
  <2>1. g \in [A -> Int]
    BY <1>3
  <2>2. Matches(e, A, A)
    BY DEF Matches
  <2>3. \A m \in A : g[m] <= g[e[m]]
    BY <1>3
  <2> HIDE DEF g, e
  <2> QED
    BY <1>4, <2>1, <2>2, <2>3, MeanGrows
<1>7. NoWorse(AbilityScore(ms), AbilityScore(ms)) /\ ScoreOrNone(AbilityScore(ms))
  BY <1>1, <1>2, <1>6 DEF NoWorse, ScoreOrNone
<1>8. A # {} <=> AbilityScore(ms) # None
  BY <1>1, <1>2, <1>6, VerdictAssumption
<1>9. Raised(d, ts, ts)
  <2>1. \A t \in ts : t.score \in Int
    BY <1>5, EntryTyped DEF TraitsFit
  <2> QED
    BY <2>1 DEF Raised, Matches
<1>10. NoWorse(rated, rated)
  <2> HIDE DEF d
  <2> QED
    BY <1>5, <1>9, IndexRaised DEF NoWorse
<1> HIDE DEF rated
<1>11. NoWorse(BlendScores(AbilityScore(ms), rated), BlendScores(AbilityScore(ms), rated))
  BY <1>7, <1>10, BlendGrows
<1>12. BuildReport(ms).overallScore = BlendScores(AbilityScore(ms), rated)
  BY DEF BuildReport, rated, ts
<1> QED
  BY <1>7, <1>8, <1>11, <1>12 DEF NoWorse, ScoreOrNone, A

LEMMA RecommendationIs ==
    ASSUME NEW ms, SummariesFit(ms)
    PROVE  LET r == BuildReport(ms)
           IN  /\ (r.overallScore = None) = (r.hiringRecommendation = None)
               /\ ~Covered(ms) => r.hiringRecommendation \in {None, "borderline", "not_recommended"}
<1> PICK x : x = BuildReport(ms).overallScore
  OBVIOUS
<1>1. BuildReport(ms).hiringRecommendation = Recommend(x, Covered(ms))
  BY DEF BuildReport
<1>2. ScoreOrNone(x) /\ Covered(ms) \in BOOLEAN
  BY ScoresAreScores DEF Covered
<1>3. x # None => Recommend(x, Covered(ms)) # None
  BY <1>2, RecommendKinds, VerdictAssumption
<1> QED
  BY <1>1, <1>2, <1>3, RecommendKinds

LEMMA SummariesMatch ==
    ASSUME VerdictIInv
    PROVE  Matches(Summary, Closed, ModuleSummaries(results))
<1>1. \A i \in Closed : Summary[i].section = i
  BY SummaryReads DEF Reads
<1>2. Summary \in [Closed -> ModuleSummaries(results)]
  BY SummaryReads DEF Summary
<1>3. \A m \in ModuleSummaries(results) : \E i \in Closed : Summary[i] = m
  BY SummaryReads
<1> QED
  BY <1>1, <1>2, <1>3 DEF Matches

LEMMA ThinIsCapped == VerdictIInv => ThinEvidenceIsCapped
<1> DEFINE q == [i \in DOMAIN Sections |-> Sections[i].questionCount]
           a == [i \in DOMAIN Sections |-> results[i].answered]
           ms == ModuleSummaries(results)
           h == [m \in ms |-> m.questionCount]
           k == [m \in ms |-> m.answered]
<1> SUFFICES ASSUME VerdictIInv, finished, 10 * SumFunction(a) < 6 * SumFunction(q)
             PROVE  Report.hiringRecommendation \in {None, "borderline", "not_recommended"}
  BY DEF ThinEvidenceIsCapped
<1>0. 10 * SumFunction(a) < 6 * SumFunction(q)
  OBVIOUS
<1>1. Closed = DOMAIN Sections
  BY DEF VerdictIInv, Closed
<1>2. IsFiniteSet(DOMAIN Sections) /\ Matches(Summary, DOMAIN Sections, ms)
  BY <1>1, SectionFacts, SummariesMatch
<1>3. ASSUME NEW i \in DOMAIN Sections
      PROVE  /\ Summary[i].questionCount = q[i] /\ Summary[i].answered = a[i]
             /\ q[i] \in Int /\ a[i] \in Int /\ Summary[i] \in ms
  <2>1. results[i].answered \in Nat
    BY <1>1 DEF VerdictIInv, RowFits, Rows, Closed
  <2> QED
    BY <1>1, <1>2, <2>1, SummaryReads, SectionFacts DEF Reads, Matches
<1> HIDE DEF ms
<1>4. SumFunctionOnSet(q, DOMAIN Sections) = SumFunctionOnSet(h, ms)
  <2>1. \A i \in DOMAIN Sections : q[i] \in Int /\ q[i] = h[Summary[i]]
    BY <1>3
  <2> HIDE DEF q, h
  <2> QED
    BY <1>2, <2>1, SumSame
<1>5. SumFunctionOnSet(a, DOMAIN Sections) = SumFunctionOnSet(k, ms)
  <2>1. \A i \in DOMAIN Sections : a[i] \in Int /\ a[i] = k[Summary[i]]
    BY <1>3
  <2> HIDE DEF a, k
  <2> QED
    BY <1>2, <2>1, SumSame
<1>6. SumFunction(q) = SumFunction(h) /\ SumFunction(a) = SumFunction(k)
  BY <1>4, <1>5 DEF SumFunction
<1>7. SumFunction(q) \in Int /\ SumFunction(a) \in Int
  <2>1. SumFunctionOnSet(q, DOMAIN Sections) \in Int /\ SumFunctionOnSet(a, DOMAIN Sections) \in Int
    <3>1. \A i \in DOMAIN Sections : q[i] \in Int /\ a[i] \in Int
      BY <1>3
    <3> HIDE DEF q, a
    <3> QED
      BY <1>2, <3>1, SumIsInt
  <2> QED
    BY <2>1 DEF SumFunction
<1>8. Covered(ms) = (100 * SumFunction(k) >= 60 * SumFunction(h))
  BY DEF Covered, MinCoverage
<1> HIDE DEF q, a, h, k
<1>9. ~Covered(ms)
  <2> PICK x : x = SumFunction(a)
    OBVIOUS
  <2> PICK y : y = SumFunction(q)
    OBVIOUS
  <2>1. Covered(ms) = (100 * x >= 60 * y)
    BY <1>6, <1>8
  <2>2. x \in Int /\ y \in Int /\ 10 * x < 6 * y
    BY <1>0, <1>7
  <2>3. ~(100 * x >= 60 * y)
    BY <2>2
  <2> QED
    BY <2>1, <2>3
<1> QED
  BY <1>9, RecommendationIs, SummariesAreFit DEF Report, ms

LEMMA NoEvidenceSays == VerdictIInv => NoEvidenceNoVerdict
<1> SUFFICES ASSUME VerdictIInv PROVE NoEvidenceNoVerdict
  OBVIOUS
<1> DEFINE sat == {i \in DOMAIN Sections : results[i] # None /\ results[i].answered > 0}
           ms == ModuleSummaries(results)
           A == {m \in ms : m.objective /\ m.answered > 0}
<1>1. SummariesFit(ms)
  BY SummariesAreFit
<1>2. /\ \A i \in Closed : Summary[i] \in ms /\ Summary[i].answered = results[i].answered
                           /\ Summary[i].objective = Sections[i].objective
      /\ \A m \in ms : \E i \in Closed : m = Summary[i]
  BY SummaryReads DEF Reads
<1>3. A # {} <=> \E i \in sat : Sections[i].objective
  BY <1>2 DEF Closed
<1>4. Report.abilityScore = AbilityScore(ms)
  BY DEF Report, BuildReport
<1>5. (\E i \in sat : Sections[i].objective) = (Report.abilityScore # None)
  BY <1>1, <1>3, <1>4, ScoresAreScores
<1>6. ASSUME sat = {} PROVE Report.overallScore = None
  <2>1. AbilityScore(ms) = None
    BY <1>4, <1>5, <1>6
  <2>2. ASSUME NEW m \in ms PROVE m.traits = {}
    <3>1. ~(m.answered > 0) /\ m.answered \in Nat
      BY <1>1, <1>2, <1>6, SummaryTyped DEF Closed
    <3>2. m.answered = 0
      BY <3>1
    <3> QED
      BY <1>1, <3>2 DEF SummariesFit
  <2>3. AllTraits(ms) = {}
    BY <2>2 DEF AllTraits
  <2>4. BehavioralProfiles(AllTraits(ms)) = {}
    BY <2>3 DEF BehavioralProfiles, Present, ByKey
  <2>5. BehavioralIndex(BehavioralProfiles(AllTraits(ms))) = None
    BY <2>4 DEF BehavioralIndex
  <2> QED
    BY <2>1, <2>5 DEF Report, BuildReport, BlendScores
<1>7. (Report.overallScore = None) = (Report.hiringRecommendation = None)
  BY <1>1, RecommendationIs DEF Report
<1> QED
  BY <1>5, <1>6, <1>7 DEF NoEvidenceNoVerdict

LEMMA UnmeasuredSays == VerdictIInv => UnmeasuredSaysNothing
<1> SUFFICES ASSUME VerdictIInv PROVE UnmeasuredSaysNothing
  OBVIOUS
<1> DEFINE ms == ModuleSummaries(results)
           Reading(s) ==
               {[m EXCEPT !.traits = {IF t.confidence = 0 THEN [t EXCEPT !.score = s] ELSE t : t \in @}] :
                   m \in ms}
<1>1. SummariesFit(ms)
  BY SummariesAreFit
<1>2. \A s : Rereading(ms, s) = Reading(s)
  BY DEF Rereading, ReadAs
<1> HIDE DEF ms, Reading
<1>3. BuildReport(Rereading(ms, 0)) = BuildReport(ms) /\ BuildReport(Rereading(ms, 1000)) = BuildReport(ms)
  BY <1>1, RereadSaysTheSame
<1>4. BuildReport(Reading(0)) = BuildReport(Reading(1000))
  BY <1>2, <1>3
<1> QED
  BY <1>4 DEF UnmeasuredSaysNothing, Reading, ms

LEMMA BetterIsBetter == VerdictIInv => BetterNeverCosts
<1> SUFFICES ASSUME VerdictIInv PROVE BetterNeverCosts
  OBVIOUS
<1> DEFINE ms == ModuleSummaries(results)
           More(x) == [x EXCEPT !.score = Clamp(@ + 150, 0, 1000)]
           Better(m) == {[m EXCEPT !.traits = (@ \ {t}) \cup {More(t)}] : t \in m.traits}
                        \cup IF m.score = None THEN {} ELSE {More(m)}
           Improved == UNION {{(ms \ {m}) \cup {n} : n \in Better(m)} : m \in ms}
<1>1. SummariesFit(ms)
  BY SummariesAreFit
<1>2. ASSUME NEW m
      PROVE  Better(m) = {Retraited(m, t, Raise(t)) : t \in m.traits}
                         \cup IF m.score = None THEN {} ELSE {Raise(m)}
  BY DEF Retraited, Raise
<1> HIDE DEF ms, Better
<1>3. ASSUME NEW m \in ms, NEW n \in Better(m) PROVE Grows(ms, (ms \ {m}) \cup {n})
  <2>1. CASE \E t \in m.traits : n = Retraited(m, t, Raise(t))
    <3>1. PICK t \in m.traits : n = Retraited(m, t, Raise(t))
      BY <2>1
    <3>2. PICK v : v = Raise(t)
      OBVIOUS
    <3>3. n = Retraited(m, t, v)
      BY <3>1, <3>2
    <3> QED
      BY <1>1, <3>2, <3>3, TraitImproved
  <2>2. CASE m.score # None /\ n = Raise(m)
    BY <1>1, <2>2, SectionImproved
  <2> QED
    BY <1>2, <2>1, <2>2
<1>4. \A better \in Improved : Grows(ms, better)
  BY <1>3
<1> HIDE DEF Improved
<1> QED
  BY <1>4 DEF BetterNeverCosts, Grows, Report, Improved, Better, ms

LEMMA FindingsStand == VerdictIInv => FindingsAreEstablished
<1> SUFFICES ASSUME VerdictIInv PROVE FindingsAreEstablished
  OBVIOUS
<1> DEFINE ms == ModuleSummaries(results)
           ps == BehavioralProfiles(AllTraits(ms))
           full == {t \in AllTraits(ms) : t.confidence = 100}
<1>1. SummariesFit(ms)
  BY SummariesAreFit
<1>2. Report.strengths = Strengths(ms, ps) /\ Report.weaknesses = Weaknesses(ms, ps)
  BY DEF Report, BuildReport
<1>3. \A m \in ms : m.answered = results[m.section].answered
  BY SummaryReads DEF Reads
<1> HIDE DEF ms, ps
<1>4. Strengths(ms, ps) \cap Weaknesses(ms, ps) = {}
  BY <1>1, NothingIsBoth DEF ps
<1>5. ASSUME NEW f \in Strengths(ms, ps) \cup Weaknesses(ms, ps)
      PROVE  /\ f[1] = "section" => results[f[2]].answered >= 3
             /\ f[1] = "trait" => \E t \in full : t.section = f[2] /\ t.key = f[3]
             /\ f[1] = "profile" => \E t \in full : t.key \in DOMAIN Weights[f[2]]
  <2>1. /\ f[1] = "section" => \E m \in ms : f[2] = m.section /\ m.answered >= 3
        /\ f[1] = "trait" => \E t \in AllTraits(ms) : t.confidence = 100 /\ t.section = f[2] /\ t.key = f[3]
        /\ f[1] = "profile" => \E t \in AllTraits(ms) : t.confidence = 100 /\ t.key \in DOMAIN Weights[f[2]]
    BY <1>1, FindingsHold DEF ps
  <2> QED
    BY <1>3, <2>1
<1> QED
  BY <1>2, <1>4, <1>5 DEF FindingsAreEstablished, ms

\* For any sections, vocabularies, abilities and measurements: fewer than three
\* answers in five are never "recommended", without an answer there is no verdict,
\* what was never measured changes nothing in a report, a better result costs
\* nothing, and findings rest on three answers (BuildReport, of any stored rows).
THEOREM VerdictStaysFair == VerdictSpec => []VerdictIsFair
<1>1. VerdictIInv => VerdictIsFair
  BY ThinIsCapped, NoEvidenceSays, UnmeasuredSays, BetterIsBetter, FindingsStand DEF VerdictIsFair
<1> QED
  BY <1>1, VerdictInvariant, PTL

-----------------------------------------------------------------------------
(* Scores: sums and products over sets                                     *)

\* The sum over two sets that share nothing.
LEMMA SumUnion ==
    ASSUME NEW S, IsFiniteSet(S), NEW T, IsFiniteSet(T), S \cap T = {},
           NEW g, \A x \in S \cup T : g[x] \in Int
    PROVE  SumFunctionOnSet(g, S \cup T) = SumFunctionOnSet(g, S) + SumFunctionOnSet(g, T)
<1> DEFINE F == {R \in SUBSET S : SumFunctionOnSet(g, R \cup T) = SumFunctionOnSet(g, R) + SumFunctionOnSet(g, T)}
<1>1. {} \in F
  <2>1. SumFunctionOnSet(g, {}) = 0 /\ SumFunctionOnSet(g, T) \in Int
    BY SumOfNone, SumIsInt
  <2>2. {} \cup T = T
    OBVIOUS
  <2> QED
    BY <2>1, <2>2
<1>2. ASSUME NEW R \in SUBSET S, R # {}, \A x \in R : R \ {x} \in F PROVE R \in F
  <2>1. PICK x \in R : TRUE
    BY <1>2
  <2> DEFINE Q == R \ {x}
  <2>2. SumFunctionOnSet(g, Q \cup T) = SumFunctionOnSet(g, Q) + SumFunctionOnSet(g, T)
    BY <1>2
  <2>3. IsFiniteSet(R) /\ IsFiniteSet(R \cup T) /\ IsFiniteSet(Q)
    BY FS_Subset, FS_Union
  <2>4. SumFunctionOnSet(g, R) = g[x] + SumFunctionOnSet(g, Q)
    BY <2>3, SumWithout
  <2>5. SumFunctionOnSet(g, R \cup T) = g[x] + SumFunctionOnSet(g, Q \cup T)
    <3>1. (R \cup T) \ {x} = Q \cup T
      OBVIOUS
    <3>2. x \in R \cup T
      OBVIOUS
    <3>3. \A y \in R \cup T : g[y] \in Int
      OBVIOUS
    <3> HIDE DEF Q
    <3>4. SumFunctionOnSet(g, R \cup T) = g[x] + SumFunctionOnSet(g, (R \cup T) \ {x})
      BY <2>3, <3>2, <3>3, SumWithout
    <3> QED
      BY <3>1, <3>4
  <2>6. g[x] \in Int /\ SumFunctionOnSet(g, Q) \in Int /\ SumFunctionOnSet(g, T) \in Int
    BY <2>3, SumIsInt
  <2> HIDE DEF Q
  <2>7. SumFunctionOnSet(g, R \cup T) = SumFunctionOnSet(g, R) + SumFunctionOnSet(g, T)
    BY <2>2, <2>4, <2>5, <2>6
  <2> QED
    BY <2>7
<1>3. \A R \in SUBSET S : R \in F
  <2> HIDE DEF F
  <2> QED
    BY <1>1, <1>2, EverySubset
<1>4. S \in F
  BY <1>3
<1> QED
  BY <1>4

Combines(k, S, a, g, b, h) ==
    \A x \in S : g[x] \in Int /\ h[x] \in Int /\ k[x] = a * g[x] + b * h[x]

\* A sum of combinations is the combination of the sums.
LEMMA SumCombines ==
    ASSUME NEW S, IsFiniteSet(S), NEW a \in Int, NEW b \in Int, NEW g, NEW h, NEW k,
           Combines(k, S, a, g, b, h)
    PROVE  SumFunctionOnSet(k, S) = a * SumFunctionOnSet(g, S) + b * SumFunctionOnSet(h, S)
<1> DEFINE G(R) == SumFunctionOnSet(g, R)
           H(R) == SumFunctionOnSet(h, R)
           F == {R \in SUBSET S : SumFunctionOnSet(k, R) = a * G(R) + b * H(R)}
<1>1. {} \in F
  BY SumOfNone
<1>2. ASSUME NEW R \in SUBSET S, R # {}, \A x \in R : R \ {x} \in F PROVE R \in F
  <2>1. PICK x \in R : TRUE
    BY <1>2
  <2> DEFINE Q == R \ {x}
  <2>2. SumFunctionOnSet(k, Q) = a * G(Q) + b * H(Q)
    BY <1>2
  <2>3. IsFiniteSet(R) /\ IsFiniteSet(Q)
    BY FS_Subset
  <2>4. \A y \in R : g[y] \in Int /\ h[y] \in Int /\ k[y] = a * g[y] + b * h[y]
    BY DEF Combines
  <2>5. \A y \in R : g[y] \in Int /\ h[y] \in Int /\ k[y] \in Int
    <3>1. \A u, v \in Int : a * u + b * v \in Int
      OBVIOUS
    <3> QED
      BY <2>4, <3>1
  <2>6. G(R) = g[x] + G(Q) /\ H(R) = h[x] + H(Q)
    BY <2>3, <2>5, SumWithout
  <2>7. SumFunctionOnSet(k, R) = k[x] + SumFunctionOnSet(k, Q)
    BY <2>3, <2>5, SumWithout
  <2>8. G(Q) \in Int /\ H(Q) \in Int
    BY <2>3, <2>5, SumIsInt
  <2>9. \A u, v, w, z \in Int : (a * u + b * v) + (a * w + b * z) = a * (u + w) + b * (v + z)
    OBVIOUS
  <2> HIDE DEF G, H, Q
  <2>10. SumFunctionOnSet(k, R) = a * G(R) + b * H(R)
    BY <2>2, <2>4, <2>6, <2>7, <2>8, <2>9
  <2> QED
    BY <2>10
<1>3. \A R \in SUBSET S : R \in F
  <2> HIDE DEF F
  <2> QED
    BY <1>1, <1>2, EverySubset
<1>4. S \in F
  BY <1>3
<1> QED
  BY <1>4

\* The product of the second members of pairs.
Product(f, S) == FoldFunctionOnSet(LAMBDA v, n : v[2] * n, 1, f, S)

ProductsTo(h, f, S) ==
    h = [s \in SUBSET S |-> IF s = {} THEN 1
                            ELSE f[CHOOSE x \in s : TRUE][2] * h[s \ {CHOOSE x \in s : TRUE}]]

\* The fold over a set is read off a function on its subsets.
LEMMA ProductIs ==
    ASSUME NEW f, NEW S
    PROVE  Product(f, S) = (CHOOSE h : ProductsTo(h, f, S))[S]
BY DEF Product, FoldFunctionOnSet, MapThenFoldSet, ProductsTo

LEMMA ProductsToExist ==
    ASSUME NEW g, NEW S, IsFiniteSet(S)
    PROVE  \E h : ProductsTo(h, g, S)
<1> DEFINE Term(h, s) == IF s = {} THEN 1 ELSE g[Picked(s)][2] * h[s \ {Picked(s)}]
           UpTo(h, n) == \A s \in SUBSET S : Cardinality(s) <= n => h[s] = Term(h, s)
           Sizes == {n \in Nat : \E h : UpTo(h, n)}
<1>1. \A s \in SUBSET S : IsFiniteSet(s) /\ Cardinality(s) \in Nat /\ Cardinality(s) <= Cardinality(S)
  BY FS_Subset, FS_CardinalityType
<1>2. \A s \in SUBSET S : s # {} => Picked(s) \in s
  BY DEF Picked
<1>3. ASSUME NEW s \in SUBSET S, s # {}
      PROVE  s \ {Picked(s)} \in SUBSET S /\ Cardinality(s \ {Picked(s)}) = Cardinality(s) - 1
  BY <1>1, <1>2, <1>3, FS_RemoveElement
<1>4. 0 \in Sizes
  <2>1. UpTo([s \in SUBSET S |-> 1], 0)
    BY <1>1, FS_EmptySet
  <2> QED
    BY <2>1
<1>5. ASSUME NEW n \in Nat, n \in Sizes PROVE n + 1 \in Sizes
  <2>1. PICK h : UpTo(h, n)
    BY <1>5
  <2> DEFINE k == [s \in SUBSET S |-> IF Cardinality(s) <= n THEN h[s] ELSE Term(h, s)]
  <2>2. ASSUME NEW s \in SUBSET S, Cardinality(s) <= n + 1 PROVE k[s] = Term(k, s)
    <3>1. k[s] = Term(h, s)
      BY <2>1
    <3>2. s # {} => k[s \ {Picked(s)}] = h[s \ {Picked(s)}]
      BY <1>1, <1>3, <2>2
    <3> QED
      BY <3>1, <3>2
  <2>3. UpTo(k, n + 1)
    BY <2>2
  <2> HIDE DEF UpTo, k
  <2> QED
    BY <2>3
<1>6. Cardinality(S) \in Sizes
  <2>1. Nat \subseteq Sizes
    <3> HIDE DEF Sizes
    <3> QED
      BY <1>4, <1>5, EveryNumber
  <2> QED
    BY <1>1, <2>1
<1>7. PICK h : UpTo(h, Cardinality(S))
  BY <1>6
<1> DEFINE k == [s \in SUBSET S |-> h[s]]
<1>8. ASSUME NEW s \in SUBSET S PROVE k[s] = Term(k, s)
  <2>1. k[s] = Term(h, s)
    BY <1>1, <1>7
  <2>2. s # {} => k[s \ {Picked(s)}] = h[s \ {Picked(s)}]
    BY <1>3
  <2> QED
    BY <2>1, <2>2
<1>9. k = [s \in SUBSET S |-> Term(k, s)]
  <2>1. k = [s \in SUBSET S |-> k[s]]
    OBVIOUS
  <2> HIDE DEF k
  <2> QED
    BY <1>8, <2>1
<1>10. ProductsTo(k, g, S)
  <2> HIDE DEF k
  <2> QED
    BY <1>9 DEF ProductsTo, Picked
<1> QED
  BY <1>10

LEMMA ProductIsSound ==
    ASSUME NEW g, NEW S, IsFiniteSet(S)
    PROVE  \E h : ProductsTo(h, g, S) /\ Product(g, S) = h[S]
<1> DEFINE h == CHOOSE h : ProductsTo(h, g, S)
<1>1. ProductsTo(h, g, S)
  BY ProductsToExist
<1>2. Product(g, S) = h[S]
  BY ProductIs
<1> QED
  BY <1>1, <1>2

\* On a smaller set the recursion gives the same.
LEMMA ProductsAgree ==
    ASSUME NEW g, NEW S, IsFiniteSet(S), NEW T \in SUBSET S,
           NEW h, ProductsTo(h, g, S), NEW k, ProductsTo(k, g, T)
    PROVE  h[T] = k[T]
<1> DEFINE F == {s \in SUBSET T : h[s] = k[s]}
<1>1. {} \in F
  BY DEF ProductsTo
<1>2. ASSUME NEW s \in SUBSET T, s # {}, \A x \in s : s \ {x} \in F PROVE s \in F
  <2>1. Picked(s) \in s
    BY <1>2 DEF Picked
  <2>2. h[s \ {Picked(s)}] = k[s \ {Picked(s)}]
    BY <1>2, <2>1
  <2>3. h[s] = g[Picked(s)][2] * h[s \ {Picked(s)}]
    BY <1>2 DEF ProductsTo, Picked
  <2>4. k[s] = g[Picked(s)][2] * k[s \ {Picked(s)}]
    BY <1>2 DEF ProductsTo, Picked
  <2> QED
    BY <2>2, <2>3, <2>4
<1>3. IsFiniteSet(T)
  BY FS_Subset
<1>4. \A s \in SUBSET T : s \in F
  <2> HIDE DEF F
  <2> QED
    BY <1>1, <1>2, <1>3, EverySubset
<1> QED
  BY <1>4

LEMMA ProductOfNone == ASSUME NEW g PROVE Product(g, {}) = 1
<1>1. PICK h : ProductsTo(h, g, {}) /\ Product(g, {}) = h[{}]
  BY ProductIsSound, FS_EmptySet
<1> QED
  BY <1>1 DEF ProductsTo

\* The product takes its factors one at a time; the order does not matter.
LEMMA ProductFirst ==
    ASSUME NEW g, NEW S, IsFiniteSet(S), S # {}
    PROVE  Product(g, S) = g[Picked(S)][2] * Product(g, S \ {Picked(S)})
<1> DEFINE T == S \ {Picked(S)}
<1>1. PICK h : ProductsTo(h, g, S) /\ Product(g, S) = h[S]
  BY ProductIsSound
<1>2. T \in SUBSET S /\ IsFiniteSet(T)
  BY FS_Subset
<1>3. PICK k : ProductsTo(k, g, T) /\ Product(g, T) = k[T]
  BY <1>2, ProductIsSound
<1>4. h[T] = k[T]
  BY <1>1, <1>2, <1>3, ProductsAgree
<1>5. h[S] = g[Picked(S)][2] * h[T]
  BY <1>1 DEF ProductsTo, Picked
<1> QED
  BY <1>1, <1>3, <1>4, <1>5

LEMMA ProductIsNat ==
    ASSUME NEW g, NEW S, IsFiniteSet(S), \A x \in S : g[x][2] \in Nat
    PROVE  Product(g, S) \in Nat
<1> DEFINE F == {T \in SUBSET S : Product(g, T) \in Nat}
<1>1. {} \in F
  BY ProductOfNone
<1>2. ASSUME NEW T \in SUBSET S, T # {}, \A x \in T : T \ {x} \in F PROVE T \in F
  <2>1. Picked(T) \in T /\ IsFiniteSet(T)
    BY <1>2, FS_Subset DEF Picked
  <2>2. Product(g, T) = g[Picked(T)][2] * Product(g, T \ {Picked(T)})
    BY <1>2, <2>1, ProductFirst
  <2>3. g[Picked(T)][2] \in Nat /\ Product(g, T \ {Picked(T)}) \in Nat
    BY <1>2, <2>1
  <2>4. \A m, n \in Nat : m * n \in Nat
    OBVIOUS
  <2>5. Product(g, T) \in Nat
    BY <2>2, <2>3, <2>4
  <2> QED
    BY <2>5
<1>3. \A T \in SUBSET S : T \in F
  <2> HIDE DEF F
  <2> QED
    BY <1>1, <1>2, EverySubset
<1>4. S \in F
  BY <1>3
<1> QED
  BY <1>4

LEMMA ProductWithout ==
    ASSUME NEW g, NEW S, IsFiniteSet(S), \A x \in S : g[x][2] \in Nat, NEW e \in S
    PROVE  Product(g, S) = g[e][2] * Product(g, S \ {e})
<1> DEFINE Total(T) == Product(g, T)
           F == {T \in SUBSET S : \A x \in T : Total(T) = g[x][2] * Total(T \ {x})}
<1>1. {} \in F
  OBVIOUS
<1>2. ASSUME NEW T \in SUBSET S, T # {}, \A x \in T : T \ {x} \in F PROVE T \in F
  <2> DEFINE c == Picked(T)
  <2>1. c \in T /\ IsFiniteSet(T)
    BY <1>2, FS_Subset DEF Picked
  <2>2. Total(T) = g[c][2] * Total(T \ {c})
    BY <1>2, <2>1, ProductFirst
  <2> HIDE DEF c
  <2>3. ASSUME NEW x \in T, x # c PROVE Total(T) = g[x][2] * Total(T \ {x})
    <3>1. PICK rest : rest = (T \ {c}) \ {x}
      OBVIOUS
    <3>2. (T \ {x}) \ {c} = rest
      BY <3>1
    <3>3. Total(T \ {c}) = g[x][2] * Total(rest)
      BY <1>2, <2>1, <2>3, <3>1
    <3>4. Total(T \ {x}) = g[c][2] * Total(rest)
      BY <1>2, <2>1, <2>3, <3>2
    <3>5. Total(rest) \in Nat
      <4>1. IsFiniteSet(rest) /\ rest \subseteq S
        BY <2>1, <3>1, FS_Subset
      <4> QED
        BY <4>1, ProductIsNat
    <3>6. g[x][2] \in Nat /\ g[c][2] \in Nat
      BY <2>1
    <3>7. \A m, n, k \in Nat : m * (n * k) = n * (m * k)
      OBVIOUS
    <3> HIDE DEF Total
    <3> QED
      BY <2>2, <3>3, <3>4, <3>5, <3>6, <3>7
  <2> QED
    BY <2>2, <2>3
<1>3. S \in F
  <2>1. \A T \in SUBSET S : T # {} /\ (\A x \in T : T \ {x} \in F) => T \in F
    BY <1>2
  <2> HIDE DEF F
  <2>2. \A T \in SUBSET S : T \in F
    BY <1>1, <2>1, EverySubset
  <2> QED
    BY <2>2
<1> QED
  BY <1>3

\* A product depends on the factors alone.
LEMMA ProductSame ==
    ASSUME NEW f, NEW g, NEW S, IsFiniteSet(S), \A x \in S : f[x] = g[x]
    PROVE  Product(f, S) = Product(g, S)
<1> DEFINE F == {T \in SUBSET S : Product(f, T) = Product(g, T)}
<1>1. {} \in F
  BY ProductOfNone
<1>2. ASSUME NEW T \in SUBSET S, T # {}, \A x \in T : T \ {x} \in F PROVE T \in F
  <2>1. Picked(T) \in T /\ IsFiniteSet(T)
    BY <1>2, FS_Subset DEF Picked
  <2>2. /\ Product(f, T) = f[Picked(T)][2] * Product(f, T \ {Picked(T)})
        /\ Product(g, T) = g[Picked(T)][2] * Product(g, T \ {Picked(T)})
    BY <1>2, <2>1, ProductFirst
  <2>3. f[Picked(T)] = g[Picked(T)] /\ Product(f, T \ {Picked(T)}) = Product(g, T \ {Picked(T)})
    BY <1>2, <2>1
  <2>4. Product(f, T) = Product(g, T)
    BY <2>2, <2>3
  <2> QED
    BY <2>4
<1>3. \A T \in SUBSET S : T \in F
  <2> HIDE DEF F
  <2> QED
    BY <1>1, <1>2, EverySubset
<1>4. S \in F
  BY <1>3
<1> QED
  BY <1>4

-----------------------------------------------------------------------------
(* Scores: sheets of answers                                               *)

\* The ways to fill in A, each i of A with a pair of O[i]: a value and its weight.
SheetsOf(A, O) == {f \in [A -> UNION {O[i] : i \in A}] : \A i \in A : f[i] \in O[i]}
Value(f, A) == SumFunctionOnSet([i \in A |-> f[i][1]], A)

OddsFit(A, O, c) ==
    /\ IsFiniteSet(A)
    /\ \A i \in A : /\ IsFiniteSet(O[i]) /\ c[i] \in Int
                    /\ \A p \in O[i] : p[1] \in Int /\ p[2] \in Nat

\* How far a sheet is from what is expected, with its weight.
Excess(A, O, c) ==
    [f \in SheetsOf(A, O) |-> Product(f, A) * (Value(f, A) - SumFunctionOnSet(c, A))]
Weighed(A, O) == [f \in SheetsOf(A, O) |-> Product(f, A)]

LEMMA SheetTyped ==
    ASSUME NEW A, NEW O, NEW c, OddsFit(A, O, c), NEW f \in SheetsOf(A, O)
    PROVE  Product(f, A) \in Nat /\ Value(f, A) \in Int /\ SumFunctionOnSet(c, A) \in Int
<1>1. \A i \in A : f[i] \in O[i]
  BY DEF SheetsOf
<1>2. \A i \in A : f[i][1] \in Int /\ f[i][2] \in Nat
  BY <1>1 DEF OddsFit
<1>3. IsFiniteSet(A) /\ \A i \in A : c[i] \in Int
  BY DEF OddsFit
<1>4. Product(f, A) \in Nat
  BY <1>2, <1>3, ProductIsNat
<1>5. Value(f, A) \in Int
  <2> DEFINE g == [i \in A |-> f[i][1]]
  <2>1. \A i \in A : g[i] \in Int
    BY <1>2
  <2> HIDE DEF g
  <2>2. SumFunctionOnSet(g, A) \in Int
    BY <1>3, <2>1, SumIsInt
  <2> QED
    BY <2>2 DEF g, Value
<1> QED
  BY <1>3, <1>4, <1>5, SumIsInt

Extended(g, a, p, B) == [i \in B \cup {a} |-> IF i = a THEN p ELSE g[i]]

Extends(e, g, a, p, B, O) ==
    /\ e \in SheetsOf(B \cup {a}, O) /\ e[a] = p /\ \A i \in B : e[i] = g[i]
    /\ Product(e, B \cup {a}) = p[2] * Product(g, B)
    /\ Value(e, B \cup {a}) = p[1] + Value(g, B)

\* A sheet of B with an answer to a is a sheet of both.
LEMMA ExtendedIs ==
    ASSUME NEW B, NEW O, NEW c, NEW a, a \notin B, OddsFit(B \cup {a}, O, c),
           NEW p \in O[a], NEW g \in SheetsOf(B, O)
    PROVE  Extends(Extended(g, a, p, B), g, a, p, B, O)
<1> DEFINE A == B \cup {a}
<1> PICK e : e = Extended(g, a, p, B)
  OBVIOUS
<1>1. e = [i \in A |-> IF i = a THEN p ELSE g[i]]
  BY DEF Extended
<1>2. e[a] = p /\ \A i \in B : e[i] = g[i] /\ g[i] \in O[i]
  BY <1>1 DEF SheetsOf
<1>3. \A i \in A : e[i] \in O[i]
  BY <1>2
<1>4. e \in [A -> UNION {O[i] : i \in A}]
  <2>1. \A i \in A : e[i] \in UNION {O[j] : j \in A}
    BY <1>3
  <2> QED
    BY <1>1, <2>1
<1>5. e \in SheetsOf(A, O)
  BY <1>3, <1>4 DEF SheetsOf
<1>6. IsFiniteSet(A) /\ IsFiniteSet(B) /\ a \in A /\ A \ {a} = B
  <2>1. IsFiniteSet(A)
    BY DEF OddsFit
  <2> QED
    BY <2>1, FS_Subset
<1>7. \A i \in A : e[i][1] \in Int /\ e[i][2] \in Nat
  BY <1>3 DEF OddsFit
<1> HIDE DEF A
<1>8. Product(e, A) = p[2] * Product(g, B)
  <2>1. Product(e, A) = e[a][2] * Product(e, A \ {a})
    BY <1>6, <1>7, ProductWithout
  <2>2. Product(e, B) = Product(g, B)
    BY <1>2, <1>6, ProductSame
  <2> QED
    BY <1>2, <1>6, <2>1, <2>2
<1>9. Value(e, A) = p[1] + Value(g, B)
  <2> DEFINE u == [i \in A |-> e[i][1]]
             v == [i \in B |-> g[i][1]]
             same == [i \in B |-> i]
  <2>1. \A i \in A : u[i] \in Int /\ u[i] = e[i][1]
    BY <1>7
  <2>2. \A i \in B : i \in A /\ u[i] = v[i]
    BY <1>2, <1>6
  <2>3. u[a] = p[1]
    BY <1>2, <1>6
  <2>4. Matches(same, B, B) /\ \A i \in B : same[i] = i
    BY DEF Matches
  <2> HIDE DEF u, v, same
  <2>5. SumFunctionOnSet(u, A) = u[a] + SumFunctionOnSet(u, A \ {a})
    BY <1>6, <2>1, SumWithout
  <2>6. SumFunctionOnSet(u, B) = SumFunctionOnSet(v, B)
    BY <1>6, <2>1, <2>2, <2>4, SumSame
  <2>7. Value(e, A) = SumFunctionOnSet(u, A) /\ Value(g, B) = SumFunctionOnSet(v, B)
    BY DEF Value, u, v
  <2> QED
    BY <1>6, <2>3, <2>5, <2>6, <2>7
<1> QED
  <2>1. Extends(e, g, a, p, B, O)
    BY <1>2, <1>5, <1>8, <1>9 DEF A, Extends
  <2> QED
    BY <2>1

\* The sheets that say p of a.
LEMMA SheetsWith ==
    ASSUME NEW B, NEW O, NEW c, NEW a, a \notin B, OddsFit(B \cup {a}, O, c), NEW p \in O[a],
           IsFiniteSet(SheetsOf(B, O)),
           SumFunctionOnSet(Excess(B, O, c), SheetsOf(B, O)) = 0
    PROVE  LET T == {f \in SheetsOf(B \cup {a}, O) : f[a] = p}
           IN  /\ IsFiniteSet(T)
               /\ SumFunctionOnSet(Excess(B \cup {a}, O, c), T) =
                    (p[2] * (p[1] - c[a])) * SumFunctionOnSet(Weighed(B, O), SheetsOf(B, O))
<1> DEFINE A == B \cup {a}
           T == {f \in SheetsOf(A, O) : f[a] = p}
           S == SheetsOf(B, O)
           ext == [g \in S |-> Extended(g, a, p, B)]
           w == Weighed(B, O)
           x == Excess(B, O, c)
           y == Excess(A, O, c)
           k == [g \in S |-> y[ext[g]]]
           C == SumFunctionOnSet(c, B)
<1>1. ASSUME NEW g \in S
      PROVE  /\ ext[g] \in T /\ \A i \in B : ext[g][i] = g[i]
             /\ Product(ext[g], A) = p[2] * Product(g, B)
             /\ Value(ext[g], A) = p[1] + Value(g, B)
  <2>1. ext[g] = Extended(g, a, p, B)
    OBVIOUS
  <2>2. Extends(Extended(g, a, p, B), g, a, p, B, O)
    BY ExtendedIs
  <2>3. Extends(ext[g], g, a, p, B, O)
    BY <2>1, <2>2
  <2> HIDE DEF ext
  <2> QED
    BY <2>3 DEF Extends
<1>2. Matches(ext, S, T)
  <2>1. ext \in [S -> T]
    BY <1>1
  <2>2. ASSUME NEW g \in S, NEW h \in S, ext[g] = ext[h] PROVE g = h
    <3>1. \A i \in B : g[i] = h[i]
      BY <1>1, <2>2
    <3>2. g = [i \in B |-> g[i]] /\ h = [i \in B |-> h[i]]
      BY DEF SheetsOf
    <3> HIDE DEF S, ext
    <3> QED
      BY <3>1, <3>2
  <2>3. ASSUME NEW f \in T PROVE \E g \in S : ext[g] = f
    <3> DEFINE g == [i \in B |-> f[i]]
    <3>1. f = [i \in A |-> f[i]] /\ f[a] = p /\ \A i \in B : f[i] \in O[i]
      BY DEF SheetsOf
    <3>2. g \in S
      <4>1. \A i \in B : g[i] \in O[i]
        BY <3>1
      <4>2. g \in [B -> UNION {O[i] : i \in B}]
        BY <3>1
      <4> HIDE DEF g
      <4> QED
        BY <4>1, <4>2 DEF SheetsOf
    <3>3. Extended(g, a, p, B) = [i \in A |-> f[i]]
      BY <3>1 DEF Extended
    <3> HIDE DEF g, T, S
    <3> QED
      BY <3>1, <3>2, <3>3
  <2> HIDE DEF S, T, ext
  <2> QED
    BY <2>1, <2>2, <2>3 DEF Matches
<1>3. IsFiniteSet(S) /\ IsFiniteSet(T)
  <2> HIDE DEF S, T, ext
  <2> QED
    BY <1>2, SameSize DEF S
<1>4. OddsFit(B, O, c) /\ IsFiniteSet(A) /\ IsFiniteSet(B) /\ C \in Int /\ c[a] \in Int
      /\ p[1] \in Int /\ p[2] \in Nat
  <2>1. IsFiniteSet(A) /\ IsFiniteSet(B)
    BY FS_Subset DEF OddsFit
  <2>2. \A i \in A : c[i] \in Int
    BY DEF OddsFit
  <2>3. C \in Int
    BY <2>1, <2>2, SumIsInt
  <2> QED
    BY <2>1, <2>2, <2>3 DEF OddsFit
<1>5. SumFunctionOnSet(c, A) = c[a] + C
  <2>1. A \ {a} = B /\ a \in A /\ \A i \in A : c[i] \in Int
    BY DEF OddsFit
  <2> HIDE DEF A
  <2> QED
    BY <1>4, <2>1, SumWithout
<1>6. ASSUME NEW g \in S
      PROVE  /\ w[g] \in Int /\ x[g] \in Int
             /\ k[g] = (p[2] * (p[1] - c[a])) * w[g] + p[2] * x[g]
  <2>1. Product(g, B) \in Nat /\ Value(g, B) \in Int
    BY <1>4, SheetTyped
  <2>2. w[g] = Product(g, B) /\ x[g] = Product(g, B) * (Value(g, B) - C)
    BY DEF Weighed, Excess
  <2>3. k[g] = (p[2] * Product(g, B)) * ((p[1] + Value(g, B)) - (c[a] + C))
    BY <1>1, <1>5 DEF Excess
  <2>4. \A l, m, n, q, r, s \in Int :
           (l * m) * ((n + q) - (r + s)) = (l * (n - r)) * m + l * (m * (q - s))
    OBVIOUS
  <2>5. \A m, n \in Int : m * n \in Int
    OBVIOUS
  <2> HIDE DEF w, x, k, C
  <2> QED
    BY <1>4, <2>1, <2>2, <2>3, <2>4, <2>5
<1>7. p[2] * (p[1] - c[a]) \in Int /\ p[2] \in Int
  <2>1. \A m, n \in Int : m * n \in Int
    OBVIOUS
  <2> QED
    BY <1>4, <2>1
<1>8. SumFunctionOnSet(k, S) = (p[2] * (p[1] - c[a])) * SumFunctionOnSet(w, S) + p[2] * SumFunctionOnSet(x, S)
  <2> HIDE DEF k, w, x, S
  <2>3. Combines(k, S, p[2] * (p[1] - c[a]), w, p[2], x)
    BY <1>6 DEF Combines
  <2> QED
    BY <1>3, <1>7, <2>3, SumCombines
<1>9. SumFunctionOnSet(k, S) = SumFunctionOnSet(y, T)
  <2>1. \A g \in S : k[g] \in Int /\ k[g] = y[ext[g]]
    <3>1. \A l, m, n, q \in Int : l * m + n * q \in Int
      OBVIOUS
    <3>2. \A g \in S : k[g] = y[ext[g]]
      OBVIOUS
    <3> HIDE DEF k, w, x, S, y, ext
    <3> QED
      BY <1>6, <1>7, <3>1, <3>2
  <2> HIDE DEF k, y, S, T, ext
  <2> QED
    BY <1>2, <1>3, <2>1, SumSame
<1>10. SumFunctionOnSet(x, S) = 0 /\ SumFunctionOnSet(w, S) \in Int
  <2>1. \A g \in S : w[g] \in Int
    BY <1>6
  <2> HIDE DEF w
  <2> QED
    BY <1>3, <2>1, SumIsInt
<1>11. SumFunctionOnSet(y, T) = (p[2] * (p[1] - c[a])) * SumFunctionOnSet(w, S)
  <2>1. \A m, n, l \in Int : m * n + l * 0 = m * n
    OBVIOUS
  <2> HIDE DEF k, w, x, y, S, T
  <2> QED
    BY <1>7, <1>8, <1>9, <1>10, <2>1
<1> QED
  BY <1>3, <1>11

\* What the answers to one question differ from what is expected of it, weighed.
Bias(O, c, a) == [p \in O[a] |-> p[2] * (p[1] - c[a])]
SheetsAmong(A, O, a, Q) == {f \in SheetsOf(A, O) : f[a] \in Q}

LEMMA BiasTyped ==
    ASSUME NEW A, NEW O, NEW c, OddsFit(A, O, c), NEW a \in A, NEW Q \in SUBSET O[a]
    PROVE  /\ IsFiniteSet(Q) /\ \A p \in Q : Bias(O, c, a)[p] \in Int
           /\ SumFunctionOnSet(Bias(O, c, a), Q) \in Int
<1>1. IsFiniteSet(Q) /\ c[a] \in Int /\ \A p \in Q : p \in O[a] /\ p[1] \in Int /\ p[2] \in Nat
  BY FS_Subset DEF OddsFit
<1>2. \A l, m, n \in Int : l * (m - n) \in Int
  OBVIOUS
<1>3. \A p \in Q : Bias(O, c, a)[p] \in Int
  BY <1>1, <1>2 DEF Bias
<1> QED
  BY <1>1, <1>3, SumIsInt

LEMMA ExcessTyped ==
    ASSUME NEW A, NEW O, NEW c, OddsFit(A, O, c), NEW f \in SheetsOf(A, O)
    PROVE  Excess(A, O, c)[f] \in Int /\ Weighed(A, O)[f] \in Nat
<1>1. Product(f, A) \in Nat /\ Value(f, A) \in Int /\ SumFunctionOnSet(c, A) \in Int
  BY SheetTyped
<1>2. \A l, m, n \in Int : l * (m - n) \in Int
  OBVIOUS
<1> QED
  BY <1>1, <1>2 DEF Excess, Weighed

\* With a further question the excess over all the sheets still cancels.
LEMMA SheetsStep ==
    ASSUME NEW B, NEW O, NEW c, NEW a, a \notin B, OddsFit(B \cup {a}, O, c),
           IsFiniteSet(SheetsOf(B, O)),
           SumFunctionOnSet(Excess(B, O, c), SheetsOf(B, O)) = 0,
           SumFunctionOnSet(Bias(O, c, a), O[a]) = 0
    PROVE  /\ IsFiniteSet(SheetsOf(B \cup {a}, O))
           /\ SumFunctionOnSet(Excess(B \cup {a}, O, c), SheetsOf(B \cup {a}, O)) = 0
<1> DEFINE A == B \cup {a}
           y == Excess(A, O, c)
           W == SumFunctionOnSet(Weighed(B, O), SheetsOf(B, O))
           T(Q) == SheetsAmong(A, O, a, Q)
           D(Q) == SumFunctionOnSet(Bias(O, c, a), Q)
           F == {Q \in SUBSET O[a] : IsFiniteSet(T(Q)) /\ SumFunctionOnSet(y, T(Q)) = D(Q) * W}
<1>1. IsFiniteSet(O[a]) /\ OddsFit(A, O, c) /\ OddsFit(B, O, c) /\ a \in A
  BY FS_Subset DEF OddsFit
<1>2. \A f \in SheetsOf(A, O) : y[f] \in Int
  BY <1>1, ExcessTyped
<1>3. W \in Int
  <2>1. \A f \in SheetsOf(B, O) : Weighed(B, O)[f] \in Int
    BY <1>1, ExcessTyped
  <2> QED
    BY <2>1, SumIsInt
<1>4. \A Q \in SUBSET O[a] : D(Q) \in Int
  BY <1>1, BiasTyped
<1>5. {} \in F
  <2>1. T({}) = {}
    BY DEF SheetsAmong
  <2>2. SumFunctionOnSet(y, {}) = 0 /\ D({}) = 0
    BY SumOfNone
  <2>3. 0 * W = 0
    BY <1>3
  <2>4. IsFiniteSet({})
    BY FS_EmptySet
  <2> HIDE DEF y, W
  <2> QED
    BY <2>1, <2>2, <2>3, <2>4
<1>6. ASSUME NEW Q \in SUBSET O[a], Q # {}, \A p \in Q : Q \ {p} \in F PROVE Q \in F
  <2>1. PICK p \in Q : TRUE
    BY <1>6
  <2> DEFINE R == Q \ {p}
             U == {f \in SheetsOf(A, O) : f[a] = p}
  <2>2. IsFiniteSet(T(R)) /\ SumFunctionOnSet(y, T(R)) = D(R) * W
    BY <1>6
  <2>3. IsFiniteSet(U) /\ SumFunctionOnSet(y, U) = (p[2] * (p[1] - c[a])) * W
    <3>1. p \in O[a]
      BY <2>1
    <3>2. /\ IsFiniteSet({f \in SheetsOf(B \cup {a}, O) : f[a] = p})
          /\ SumFunctionOnSet(Excess(B \cup {a}, O, c), {f \in SheetsOf(B \cup {a}, O) : f[a] = p}) =
                (p[2] * (p[1] - c[a])) * SumFunctionOnSet(Weighed(B, O), SheetsOf(B, O))
      BY ONLY <3>1, a \notin B, OddsFit(B \cup {a}, O, c), IsFiniteSet(SheetsOf(B, O)),
              SumFunctionOnSet(Excess(B, O, c), SheetsOf(B, O)) = 0, SheetsWith
    <3> QED
      BY <3>2
  <2>4. D(Q) = Bias(O, c, a)[p] + D(R)
    <3>1. IsFiniteSet(Q) /\ \A q \in Q : Bias(O, c, a)[q] \in Int
      BY <1>1, BiasTyped
    <3> QED
      BY <2>1, <3>1, SumWithout
  <2>5. T(Q) = T(R) \cup U /\ T(R) \cap U = {} /\ T(Q) \subseteq SheetsOf(A, O)
    BY <2>1 DEF SheetsAmong
  <2> HIDE DEF U, T, y
  <2>6. \A f \in T(R) \cup U : y[f] \in Int
    BY <1>2, <2>5
  <2>7. IsFiniteSet(T(Q))
    <3>1. IsFiniteSet(T(R) \cup U)
      BY <2>2, <2>3, FS_Union
    <3> QED
      BY <2>5, <3>1
  <2>8. SumFunctionOnSet(y, T(Q)) = SumFunctionOnSet(y, T(R)) + SumFunctionOnSet(y, U)
    <3> PICK P : P = T(R)
      OBVIOUS
    <3>1. IsFiniteSet(P) /\ IsFiniteSet(U) /\ P \cap U = {} /\ \A f \in P \cup U : y[f] \in Int
      BY <2>2, <2>3, <2>5, <2>6
    <3>2. SumFunctionOnSet(y, P \cup U) = SumFunctionOnSet(y, P) + SumFunctionOnSet(y, U)
      BY <3>1, SumUnion
    <3> QED
      BY <2>5, <3>2
  <2>9. Bias(O, c, a)[p] = p[2] * (p[1] - c[a]) /\ Bias(O, c, a)[p] \in Int /\ D(R) \in Int
    <3>1. p \in O[a] /\ R \in SUBSET O[a]
      BY <2>1
    <3>2. Bias(O, c, a)[p] = p[2] * (p[1] - c[a])
      BY <3>1 DEF Bias
    <3>3. Bias(O, c, a)[p] \in Int
      BY <1>1, <3>1, BiasTyped
    <3> QED
      BY <1>4, <3>1, <3>2, <3>3
  <2>10. SumFunctionOnSet(y, T(Q)) = D(Q) * W
    <3>1. \A l, m, n \in Int : (l + m) * n = m * n + l * n
      OBVIOUS
    <3> HIDE DEF D, W
    <3> QED
      BY <1>3, <2>2, <2>3, <2>4, <2>8, <2>9, <3>1
  <2> QED
    BY <2>7, <2>10
<1>7. O[a] \in F
  <2> PICK S : S = O[a]
    OBVIOUS
  <2> HIDE DEF F
  <2>1. {} \in F /\ IsFiniteSet(S) /\ S \in SUBSET S
    BY <1>1, <1>5
  <2>2. \A Q \in SUBSET S : Q # {} /\ (\A p \in Q : Q \ {p} \in F) => Q \in F
    BY <1>6
  <2>3. \A Q \in SUBSET S : Q \in F
    BY <2>1, <2>2, EverySubset
  <2> QED
    BY <2>1, <2>3
<1>8. T(O[a]) = SheetsOf(A, O)
  <2>1. \A f \in SheetsOf(A, O) : f[a] \in O[a]
    BY <1>1 DEF SheetsOf
  <2> QED
    BY <2>1 DEF SheetsAmong
<1>9. 0 * W = 0
  BY <1>3
<1> HIDE DEF y, W, T
<1>10. IsFiniteSet(SheetsOf(A, O)) /\ SumFunctionOnSet(y, SheetsOf(A, O)) = 0
  BY <1>7, <1>8, <1>9
<1> QED
  BY <1>10 DEF y

\* Over all sheets the excesses cancel, as they do over the answers to each question.
LEMMA SheetsCancel ==
    ASSUME NEW A, NEW O, NEW c, OddsFit(A, O, c),
           \A a \in A : SumFunctionOnSet(Bias(O, c, a), O[a]) = 0
    PROVE  /\ IsFiniteSet(SheetsOf(A, O))
           /\ SumFunctionOnSet(Excess(A, O, c), SheetsOf(A, O)) = 0
<1> DEFINE Cancel(B) == /\ IsFiniteSet(SheetsOf(B, O))
                        /\ SumFunctionOnSet(Excess(B, O, c), SheetsOf(B, O)) = 0
           F == {B \in SUBSET A : Cancel(B)}
<1>1. Cancel({})
  <2>1. PICK e : e = [i \in {} |-> 0]
    OBVIOUS
  <2>2. SheetsOf({}, O) = {e}
    <3>1. \A f \in SheetsOf({}, O) : f = e
      BY <2>1 DEF SheetsOf
    <3>2. e \in SheetsOf({}, O)
      BY <2>1 DEF SheetsOf
    <3> QED
      BY <3>1, <3>2
  <2>3. Product(e, {}) = 1 /\ Value(e, {}) = 0 /\ SumFunctionOnSet(c, {}) = 0
    BY ProductOfNone, SumOfNone DEF Value
  <2>4. Excess({}, O, c)[e] = 0
    BY <2>2, <2>3 DEF Excess
  <2>5. IsFiniteSet({e}) /\ e \in {e} /\ \A f \in {e} : Excess({}, O, c)[f] \in Int
    <3>1. IsFiniteSet({e})
      BY FS_Singleton
    <3> QED
      BY <2>4, <3>1
  <2>6. SumFunctionOnSet(Excess({}, O, c), {e})
          = Excess({}, O, c)[e] + SumFunctionOnSet(Excess({}, O, c), {e} \ {e})
    BY <2>5, SumWithout
  <2>7. SumFunctionOnSet(Excess({}, O, c), {e} \ {e}) = 0
    <3>1. {e} \ {e} = {}
      OBVIOUS
    <3> QED
      BY <3>1, SumOfNone
  <2> QED
    <3> HIDE DEF F
    <3>1. SumFunctionOnSet(Excess({}, O, c), {e}) = 0
      BY <2>4, <2>6, <2>7
    <3> QED
      BY <2>2, <2>5, <3>1
<1>2. ASSUME NEW T \in SUBSET A, T # {}, \A x \in T : T \ {x} \in F PROVE T \in F
  <2>1. PICK a \in T : TRUE
    BY <1>2
  <2>2. PICK B : B = T \ {a}
    OBVIOUS
  <2>3. T = B \cup {a} /\ a \notin B /\ a \in A /\ Cancel(B)
    BY <1>2, <2>1, <2>2
  <2>4. OddsFit(B \cup {a}, O, c)
    BY <2>3, FS_Subset DEF OddsFit
  <2>5. Cancel(B \cup {a})
    BY <2>3, <2>4, SheetsStep
  <2> QED
    BY <2>3, <2>5
<1>3. A \in F
  <2>1. IsFiniteSet(A)
    BY DEF OddsFit
  <2>2. {} \in F
    BY <1>1
  <2> HIDE DEF F
  <2> QED
    BY <1>2, <2>1, <2>2, EverySubset
<1> QED
  BY <1>3

-----------------------------------------------------------------------------
(* Scores: values and how often each occurs                                *)

LEMMA SumConstant ==
    ASSUME NEW S, IsFiniteSet(S), NEW g, NEW d \in Int, \A x \in S : g[x] = d
    PROVE  SumFunctionOnSet(g, S) = Cardinality(S) * d
<1> DEFINE F == {T \in SUBSET S : SumFunctionOnSet(g, T) = Cardinality(T) * d}
<1>1. {} \in F
  <2>1. SumFunctionOnSet(g, {}) = 0 /\ Cardinality({}) = 0 /\ 0 * d = 0
    BY SumOfNone, FS_EmptySet
  <2> QED
    BY <2>1
<1>2. ASSUME NEW T \in SUBSET S, T # {}, \A x \in T : T \ {x} \in F PROVE T \in F
  <2>1. PICK x \in T : TRUE
    BY <1>2
  <2>2. PICK U : U = T \ {x}
    OBVIOUS
  <2>3. IsFiniteSet(T) /\ IsFiniteSet(U)
    BY <2>2, FS_Subset
  <2>4. Cardinality(T) \in Nat /\ Cardinality(U) \in Nat /\ Cardinality(U) = Cardinality(T) - 1
    BY <2>1, <2>2, <2>3, FS_CardinalityType, FS_RemoveElement
  <2>5. SumFunctionOnSet(g, T) = d + SumFunctionOnSet(g, U)
    <3>1. \A y \in T : g[y] \in Int
      OBVIOUS
    <3>2. SumFunctionOnSet(g, T) = g[x] + SumFunctionOnSet(g, T \ {x})
      BY <2>1, <2>3, <3>1, SumWithout
    <3> QED
      BY <2>1, <2>2, <3>2
  <2>6. SumFunctionOnSet(g, U) = Cardinality(U) * d
    BY <1>2, <2>1, <2>2
  <2>7. \A m \in Nat : d + (m - 1) * d = m * d
    OBVIOUS
  <2>8. SumFunctionOnSet(g, T) = Cardinality(T) * d
    BY <2>4, <2>5, <2>6, <2>7
  <2> QED
    BY <2>8
<1>3. S \in F
  <2> HIDE DEF F
  <2>1. \A T \in SUBSET S : T \in F
    BY <1>1, <1>2, EverySubset
  <2> QED
    BY <2>1
<1> QED
  BY <1>3

\* Values and how often each occurs.
Fibre(X, v, n) == {x \in X : v[x] = n}
OddsOf(X, v) == {<<v[x], Cardinality(Fibre(X, v, v[x]))>> : x \in X}
Told(X, v, Q) == {x \in X : <<v[x], Cardinality(Fibre(X, v, v[x]))>> \in Q}

LEMMA OddsTyped ==
    ASSUME NEW X, IsFiniteSet(X), NEW v, \A x \in X : v[x] \in Int
    PROVE  /\ IsFiniteSet(OddsOf(X, v))
           /\ \A p \in OddsOf(X, v) : p[1] \in Int /\ p[2] \in Nat
           /\ \A p \in OddsOf(X, v) : p = <<p[1], Cardinality(Fibre(X, v, p[1]))>>
<1>1. \A n : IsFiniteSet(Fibre(X, v, n))
  BY FS_Subset DEF Fibre
<1>2. \A n : Cardinality(Fibre(X, v, n)) \in Nat
  BY <1>1, FS_CardinalityType
<1>3. PICK f : f = [x \in X |-> <<v[x], Cardinality(Fibre(X, v, v[x]))>>]
  OBVIOUS
<1>4. IsFiniteSet({f[x] : x \in X})
  BY ImageIsFinite
<1>5. {f[x] : x \in X} = OddsOf(X, v)
  BY <1>3 DEF OddsOf
<1>6. \A p \in OddsOf(X, v) : p[1] \in Int /\ p[2] \in Nat
  BY <1>2 DEF OddsOf
<1>7. \A p \in OddsOf(X, v) : p = <<p[1], Cardinality(Fibre(X, v, p[1]))>>
  BY DEF OddsOf
<1> QED
  BY <1>4, <1>5, <1>6, <1>7

\* Values weighed by how often they occur are as far above their mean as below it.
LEMMA OddsCancel ==
    ASSUME NEW X, IsFiniteSet(X), NEW v, \A x \in X : v[x] \in Int,
           NEW c \in Int, SumFunctionOnSet(v, X) = Cardinality(X) * c,
           NEW b, \A p \in OddsOf(X, v) : b[p] = p[2] * (p[1] - c)
    PROVE  SumFunctionOnSet(b, OddsOf(X, v)) = 0
<1> DEFINE O == OddsOf(X, v)
           g == [x \in X |-> v[x] - c]
           T(Q) == Told(X, v, Q)
           Squares(Q) == SumFunctionOnSet(b, Q) = SumFunctionOnSet(g, T(Q))
           F == {Q \in SUBSET O : Squares(Q)}
<1>1. /\ IsFiniteSet(O) /\ \A p \in O : p[1] \in Int /\ p[2] \in Nat
      /\ \A p \in O : p = <<p[1], Cardinality(Fibre(X, v, p[1]))>>
  BY OddsTyped
<1>2. \A p \in O : b[p] \in Int
  <2>1. \A m, n \in Int : m * (n - c) \in Int
    OBVIOUS
  <2> QED
    BY <1>1, <2>1
<1>3. \A x \in X : g[x] = v[x] - c /\ g[x] \in Int
  OBVIOUS
<1> HIDE DEF g
<1>4. Squares({})
  <2>1. T({}) = {}
    BY DEF Told
  <2> QED
    BY <2>1, SumOfNone
<1>5. ASSUME NEW Q \in SUBSET O, Q # {}, \A p \in Q : Q \ {p} \in F PROVE Q \in F
  <2>1. PICK p \in Q : TRUE
    BY <1>5
  <2>2. PICK R : R = Q \ {p}
    OBVIOUS
  <2>3. PICK U : U = Fibre(X, v, p[1])
    OBVIOUS
  <2>4. Squares(R) /\ p \in O
    BY <1>5, <2>1, <2>2
  <2>5. IsFiniteSet(Q)
    BY <1>1, FS_Subset
  <2>6. SumFunctionOnSet(b, Q) = b[p] + SumFunctionOnSet(b, R)
    <3>1. \A q \in Q : b[q] \in Int
      BY <1>2
    <3>2. SumFunctionOnSet(b, Q) = b[p] + SumFunctionOnSet(b, Q \ {p})
      BY <2>1, <2>5, <3>1, SumWithout
    <3> QED
      BY <2>2, <3>2
  <2>7. T(Q) = T(R) \cup U /\ T(R) \cap U = {}
    <3>1. \A x \in X : <<v[x], Cardinality(Fibre(X, v, v[x]))>> = p <=> v[x] = p[1]
      BY <1>1, <2>4
    <3> QED
      BY <2>1, <2>2, <2>3, <3>1 DEF Told, Fibre
  <2>8. IsFiniteSet(T(R)) /\ IsFiniteSet(U) /\ \A x \in T(R) \cup U : x \in X /\ g[x] \in Int
    BY <1>3, <2>3, FS_Subset DEF Told, Fibre
  <2>9. SumFunctionOnSet(g, T(Q)) = SumFunctionOnSet(g, T(R)) + SumFunctionOnSet(g, U)
    <3> PICK P : P = T(R)
      OBVIOUS
    <3>1. SumFunctionOnSet(g, P \cup U) = SumFunctionOnSet(g, P) + SumFunctionOnSet(g, U)
      BY <2>7, <2>8, SumUnion
    <3> QED
      BY <2>7, <3>1
  <2>10. SumFunctionOnSet(g, U) = b[p]
    <3>1. p[1] - c \in Int /\ p[2] = Cardinality(U) /\ b[p] = p[2] * (p[1] - c)
      BY <1>1, <2>3, <2>4
    <3>2. \A x \in U : g[x] = p[1] - c
      BY <1>3, <2>3 DEF Fibre
    <3>3. SumFunctionOnSet(g, U) = Cardinality(U) * (p[1] - c)
      BY <2>8, <3>1, <3>2, SumConstant
    <3> QED
      BY <3>1, <3>3
  <2>11. b[p] \in Int /\ SumFunctionOnSet(g, T(R)) \in Int
    <3>1. SumFunctionOnSet(g, T(R)) \in Int
      <4> PICK P : P = T(R)
        OBVIOUS
      <4>1. SumFunctionOnSet(g, P) \in Int
        BY <2>8, SumIsInt
      <4> QED
        BY <4>1
    <3> QED
      BY <1>2, <2>4, <3>1
  <2>12. Squares(Q)
    BY <2>4, <2>6, <2>9, <2>10, <2>11
  <2> QED
    BY <2>12
<1>6. Squares(O)
  <2> PICK S : S = O
    OBVIOUS
  <2>1. {} \in F
    BY <1>4
  <2>2. \A Q \in SUBSET S : Q # {} /\ (\A p \in Q : Q \ {p} \in F) => Q \in F
    BY <1>5
  <2> HIDE DEF F
  <2>3. \A Q \in SUBSET S : Q \in F
    BY <1>1, <2>1, <2>2, EverySubset
  <2>4. O \in F
    BY <2>3
  <2> QED
    BY <2>4 DEF F
<1>7. T(O) = X
  BY DEF Told, OddsOf
<1>8. SumFunctionOnSet(g, X) = 0
  <2> DEFINE one == [x \in X |-> 1]
  <2> PICK u \in Int, m \in Int : u = 1 /\ m = -c
    OBVIOUS
  <2>1. \A x \in X : v[x] \in Int /\ one[x] \in Int /\ g[x] = u * v[x] + m * one[x]
    BY <1>3
  <2>2. SumFunctionOnSet(one, X) = Cardinality(X) * 1
    BY SumConstant
  <2> HIDE DEF one
  <2>3. SumFunctionOnSet(g, X) = u * SumFunctionOnSet(v, X) + m * SumFunctionOnSet(one, X)
    <3>1. Combines(g, X, u, v, m, one)
      BY <2>1 DEF Combines
    <3> QED
      BY <3>1, SumCombines
  <2>4. Cardinality(X) \in Nat
    BY FS_CardinalityType
  <2>5. \A n \in Nat : 1 * (n * c) + (-c) * (n * 1) = 0
    OBVIOUS
  <2> QED
    BY <2>2, <2>3, <2>4, <2>5
<1> QED
  BY <1>6, <1>7, <1>8

-----------------------------------------------------------------------------
(* Scores: extremes and rounding                                           *)

\* A finite set of numbers has its largest and its smallest member.
LEMMA MaxIs ==
    ASSUME NEW S, IsFiniteSet(S), S # {}, S \subseteq Int
    PROVE  Max(S) \in S /\ \A y \in S : y <= Max(S)
<1> DEFINE Top(T) == \E x \in T : \A y \in T : x >= y
           F == {T \in SUBSET S : T # {} => Top(T)}
<1>1. ASSUME NEW T \in SUBSET S, T # {}, \A x \in T : T \ {x} \in F PROVE T \in F
  <2>1. PICK x \in T : TRUE
    BY <1>1
  <2>2. PICK R : R = T \ {x}
    OBVIOUS
  <2>3. R # {} => Top(R)
    BY <1>1, <2>1, <2>2
  <2>4. Top(T)
    <3>1. CASE R = {}
      BY <2>1, <2>2, <3>1
    <3>2. CASE R # {}
      <4>1. PICK z \in R : \A y \in R : z >= y
        BY <2>3, <3>2
      <4>2. x \in Int /\ z \in Int /\ z \in T /\ \A y \in T : y \in Int /\ (y = x \/ y \in R)
        BY <2>1, <2>2, <4>1
      <4>3. CASE z >= x
        BY <4>1, <4>2, <4>3
      <4>4. CASE ~(z >= x)
        <5>1. \A y \in T : x >= y
          BY <4>1, <4>2, <4>4
        <5> QED
          BY <2>1, <5>1
      <4> QED
        BY <4>3, <4>4
    <3> QED
      BY <3>1, <3>2
  <2> QED
    BY <2>4
<1>2. {} \in F
  OBVIOUS
<1>3. S \in F
  <2> HIDE DEF F
  <2>1. \A T \in SUBSET S : T \in F
    BY <1>1, <1>2, EverySubset
  <2> QED
    BY <2>1
<1>4. Max(S) \in S /\ \A y \in S : Max(S) >= y
  <2>1. \E x \in S : \A y \in S : x >= y
    BY <1>3
  <2> QED
    BY <2>1 DEF Max
<1> QED
  BY <1>4

LEMMA MinIs ==
    ASSUME NEW S, IsFiniteSet(S), S # {}, S \subseteq Int
    PROVE  Min(S) \in S /\ \A y \in S : Min(S) <= y
<1>1. PICK f : f = [x \in S |-> 0 - x]
  OBVIOUS
<1>2. PICK T : T = {f[x] : x \in S}
  OBVIOUS
<1>3. IsFiniteSet(T) /\ T # {} /\ T \subseteq Int
  <2>1. IsFiniteSet(T)
    BY <1>2, ImageIsFinite
  <2>2. \A x \in S : f[x] \in Int
    BY <1>1
  <2> QED
    BY <1>2, <2>1, <2>2
<1>4. Max(T) \in T /\ \A y \in T : y <= Max(T)
  BY <1>3, MaxIs
<1>5. PICK x \in S : Max(T) = f[x]
  BY <1>2, <1>4
<1>6. \A y \in S : x <= y
  <2>1. ASSUME NEW y \in S PROVE x <= y
    <3>1. f[y] <= f[x]
      BY <1>2, <1>4, <1>5
    <3>2. f[y] = 0 - y /\ f[x] = 0 - x /\ x \in Int /\ y \in Int
      BY <1>1
    <3> QED
      BY <3>1, <3>2
  <2> QED
    BY <2>1
<1>7. \E z \in S : \A y \in S : z <= y
  BY <1>6
<1> QED
  BY <1>7 DEF Min

\* There are finitely many functions between finite sets.
LEMMA FunctionsAreFinite ==
    ASSUME NEW D, IsFiniteSet(D), NEW R, IsFiniteSet(R), R \subseteq Int
    PROVE  IsFiniteSet([D -> R])
<1>1. PICK O : O = [i \in D |-> R \X {0}]
  OBVIOUS
<1>2. PICK c : c = [i \in D |-> 0]
  OBVIOUS
<1>3. IsFiniteSet(R \X {0})
  BY FS_Product, FS_Singleton
<1>4. \A i \in D : \A p \in O[i] : p[1] \in R /\ p[1] \in Int /\ p[2] = 0
  BY <1>1
<1>5. OddsFit(D, O, c)
  BY <1>1, <1>2, <1>3, <1>4 DEF OddsFit
<1>6. \A a \in D : SumFunctionOnSet(Bias(O, c, a), O[a]) = 0
  <2>1. ASSUME NEW a \in D PROVE SumFunctionOnSet(Bias(O, c, a), O[a]) = 0
    <3> PICK b : b = Bias(O, c, a)
      OBVIOUS
    <3> PICK S : S = O[a]
      OBVIOUS
    <3>1. \A p \in S : b[p] = 0
      <4>1. \A p \in S : p[1] \in Int /\ p[2] = 0 /\ c[a] = 0
        BY <1>2, <1>4
      <4>2. \A m \in Int : 0 * (m - 0) = 0
        OBVIOUS
      <4>3. \A p \in S : b[p] = p[2] * (p[1] - c[a])
        BY DEF Bias
      <4> QED
        BY <4>1, <4>2, <4>3
    <3>2. IsFiniteSet(S) /\ Cardinality(S) \in Nat
      BY <1>1, <1>3, FS_CardinalityType
    <3>3. SumFunctionOnSet(b, S) = Cardinality(S) * 0
      BY <3>1, <3>2, SumConstant
    <3> QED
      BY <3>2, <3>3
  <2> QED
    BY <2>1
<1>7. IsFiniteSet(SheetsOf(D, O))
  BY <1>5, <1>6, SheetsCancel
<1>8. PICK plain : plain = [f \in SheetsOf(D, O) |-> [i \in D |-> f[i][1]]]
  OBVIOUS
<1>9. IsFiniteSet({plain[f] : f \in SheetsOf(D, O)})
  BY <1>7, ImageIsFinite
<1>10. [D -> R] \subseteq {plain[f] : f \in SheetsOf(D, O)}
  <2>1. ASSUME NEW g \in [D -> R] PROVE \E f \in SheetsOf(D, O) : plain[f] = g
    <3>1. PICK f : f = [i \in D |-> <<g[i], 0>>]
      OBVIOUS
    <3>2. f \in SheetsOf(D, O)
      <4>1. \A i \in D : f[i] \in O[i]
        BY <1>1, <3>1
      <4>2. f \in [D -> UNION {O[i] : i \in D}]
        BY <3>1, <4>1
      <4> QED
        BY <4>1, <4>2 DEF SheetsOf
    <3>3. plain[f] = g
      <4>1. plain[f] = [i \in D |-> f[i][1]]
        BY <1>8, <3>2
      <4>2. \A i \in D : f[i][1] = g[i]
        BY <3>1
      <4> QED
        BY <4>1, <4>2
    <3> QED
      BY <3>2, <3>3
  <2> QED
    BY <2>1
<1> QED
  BY <1>9, <1>10, FS_Subset

\* A quotient is off by at most a half of the divisor once it is rounded.
LEMMA RoundingIsClose ==
    ASSUME NEW n \in Int, NEW d \in Nat \ {0}
    PROVE  /\ RoundDiv(n, d) \in Int
           /\ 2 * (d * RoundDiv(n, d)) <= 2 * n + d
           /\ 2 * n - d <= 2 * (d * RoundDiv(n, d))
<1>1. PICK q : q = (2 * n + d) \div (2 * d)
  OBVIOUS
<1>2. PICK e : e = 2 * d
  OBVIOUS
<1>3. e \in Nat \ {0} /\ 2 * n + d \in Int
  BY <1>2
<1>4. q \in Int /\ e * q <= 2 * n + d /\ 2 * n + d < e * q + e
  BY <1>1, <1>2, <1>3, QuotientBounds
<1>5. e * q = 2 * (d * q)
  BY <1>2, <1>4
<1>6. d * q \in Int
  BY <1>4
<1>7. 2 * (d * q) <= 2 * n + d /\ 2 * n - d <= 2 * (d * q)
  BY <1>2, <1>4, <1>5, <1>6
<1> QED
  BY <1>1, <1>4, <1>7 DEF RoundDiv

\* A quotient that comes out even.
LEMMA QuotientIsExact ==
    ASSUME NEW m \in Int, NEW d \in Nat \ {0}
    PROVE  (d * m) \div d = m
<1>1. PICK n : n = d * m
  OBVIOUS
<1>2. PICK q : q = n \div d
  OBVIOUS
<1>3. n \in Int
  BY <1>1
<1>4. q \in Int /\ d * q <= d * m /\ d * m < d * q + d
  BY <1>1, <1>2, <1>3, QuotientBounds
<1>5. d * (q + 1) = d * q + d
  BY <1>4
<1>6. ~(q + 1 <= m)
  <2> SUFFICES ASSUME q + 1 <= m PROVE FALSE
    OBVIOUS
  <2>1. d * (q + 1) <= d * m
    BY <1>4
  <2> QED
    BY <1>3, <1>4, <1>5, <2>1, <1>1
<1>7. ~(m + 1 <= q)
  <2> SUFFICES ASSUME m + 1 <= q PROVE FALSE
    OBVIOUS
  <2>1. d * (m + 1) <= d * q
    BY <1>4
  <2>2. d * (m + 1) = d * m + d
    OBVIOUS
  <2>3. d * m \in Int /\ d * q \in Int
    BY <1>4
  <2> QED
    BY <1>4, <2>1, <2>2, <2>3
<1>8. q = m
  BY <1>4, <1>6, <1>7
<1> QED
  BY <1>1, <1>2, <1>8

-----------------------------------------------------------------------------
(* Scores: what an answer says                                             *)

OutcomesFor(v, t) == {x \in Outcomes : x.version = v /\ x.trait = t}
Outcome(v, t, a) ==
    [version |-> v, trait |-> t, answer |-> a, value |-> ValueFor(t, Evaluate(Version(v), a))]

LEMMA VersionsAre ==
    /\ \A v \in Versions :
         /\ v = <<v[1], v[2], v[3]>> /\ v[1] \in Items /\ v[2] \in DOMAIN Editions[v[1]]
         /\ v[3] \in {"choice", "ranking"} /\ EditionOK(Version(v))
    /\ \A q \in Items : \A i \in DOMAIN Editions[q] : \A form \in {"choice", "ranking"} :
         <<q, i, form>> \in Versions /\ Version(<<q, i, form>>) = Editions[q][i]
<1>1. \A v \in Versions : /\ v = <<v[1], v[2], v[3]>> /\ v[1] \in Items /\ v[2] \in DOMAIN Editions[v[1]]
                          /\ v[3] \in {"choice", "ranking"}
  BY DEF Versions
<1>2. \A v \in Versions : EditionOK(Version(v))
  BY <1>1, ScoringAssumption DEF Version
<1>3. \A q \in Items : \A i \in DOMAIN Editions[q] : \A form \in {"choice", "ranking"} :
        <<q, i, form>> \in Versions /\ Version(<<q, i, form>>) = Editions[q][i]
  BY DEF Versions, Version
<1> QED
  BY <1>1, <1>2, <1>3

\* The outcomes of a version for a trait are those of its answers, one each.
LEMMA OutcomesAre ==
    ASSUME NEW v \in Versions, NEW t \in Mentioned(Version(v))
    PROVE  OutcomesFor(v, t) = {Outcome(v, t, a) : a \in AnswersAs(v[3], Version(v))}
<1>1. ASSUME NEW a \in AnswersAs(v[3], Version(v)) PROVE Outcome(v, t, a) \in OutcomesFor(v, t)
  BY DEF Outcomes, OutcomesOf, OutcomesFor, Outcome
<1>2. ASSUME NEW x \in OutcomesFor(v, t) PROVE \E a \in AnswersAs(v[3], Version(v)) : x = Outcome(v, t, a)
  BY DEF Outcomes, OutcomesOf, OutcomesFor, Outcome
<1> QED
  BY <1>1, <1>2

-----------------------------------------------------------------------------
(* What the evaluators give.                                               *)

Naming(e, t) == {o \in DOMAIN e.options : t \in DOMAIN e.options[o]}
Placed(e, p, t) ==
    [o \in Naming(e, t) |-> e.options[o][t] * (Cardinality(DOMAIN e.options) - 1 - 2 * p[o])]
Placement(e, p, t) == SumFunctionOnSet(Placed(e, p, t), Naming(e, t))
Parts(e, t) == (Cardinality(DOMAIN e.options) - 1) * Cardinality(Naming(e, t))

\* What EditionOK says, with its numbers.
LEMMA OptionsAre ==
    ASSUME NEW e, EditionOK(e)
    PROVE  /\ IsFiniteSet(DOMAIN e.options) /\ Cardinality(DOMAIN e.options) \in 2 .. 6
           /\ \A o \in DOMAIN e.options : \A t \in DOMAIN e.options[o] : t \in Traits /\ e.options[o][t] \in Int
BY DEF EditionOK, MinOptions, MaxOptions

\* The factors of a ranking divide Unit.
LEMMA PartsDivideUnit ==
    ASSUME NEW n \in 2 .. 6, NEW k \in 1 .. n
    PROVE  \E c \in Int : Unit = ((n - 1) * k) * c
<1>1. n \in {2, 3, 4, 5, 6} /\ k \in {1, 2, 3, 4, 5, 6}
  OBVIOUS
<1>2. ASSUME NEW m \in {1, 2, 3, 4}, NEW j \in {1, 2, 3, 4, 5}
      PROVE  \E c \in Int : Unit = (m * j) * c
  <2>1. m = 1 \/ m = 2 \/ m = 3 \/ m = 4
    OBVIOUS
  <2>2. /\ Unit = (1 * 1) * 3600 /\ Unit = (1 * 2) * 1800 /\ Unit = (1 * 3) * 1200
        /\ Unit = (1 * 4) * 900 /\ Unit = (1 * 5) * 720
    BY DEF Unit
  <2>3. /\ Unit = (2 * 1) * 1800 /\ Unit = (2 * 2) * 900 /\ Unit = (2 * 3) * 600
        /\ Unit = (2 * 4) * 450 /\ Unit = (2 * 5) * 360
    BY DEF Unit
  <2>4. /\ Unit = (3 * 1) * 1200 /\ Unit = (3 * 2) * 600 /\ Unit = (3 * 3) * 400
        /\ Unit = (3 * 4) * 300 /\ Unit = (3 * 5) * 240
    BY DEF Unit
  <2>5. /\ Unit = (4 * 1) * 900 /\ Unit = (4 * 2) * 450 /\ Unit = (4 * 3) * 300
        /\ Unit = (4 * 4) * 225 /\ Unit = (4 * 5) * 180
    BY DEF Unit
  <2>6. CASE m = 1
    BY <2>2, <2>6
  <2>7. CASE m = 2
    BY <2>3, <2>7
  <2>8. CASE m = 3
    BY <2>4, <2>8
  <2>9. CASE m = 4
    BY <2>5, <2>9
  <2> QED
    BY <2>1, <2>6, <2>7, <2>8, <2>9
<1>3. CASE n \in {2, 3, 4, 5}
  <2>1. PICK m : m = n - 1
    OBVIOUS
  <2>2. m \in {1, 2, 3, 4} /\ k \in {1, 2, 3, 4, 5}
    BY <1>3, <2>1
  <2> QED
    BY <1>2, <2>1, <2>2
<1>4. CASE n = 6
  <2>1. /\ Unit = (5 * 1) * 720 /\ Unit = (5 * 2) * 360 /\ Unit = (5 * 3) * 240
        /\ Unit = (5 * 4) * 180 /\ Unit = (5 * 5) * 144 /\ Unit = (5 * 6) * 120
    BY DEF Unit
  <2>2. n - 1 = 5
    BY <1>4
  <2> QED
    BY <1>1, <2>1, <2>2
<1> QED
  BY <1>1, <1>3, <1>4

\* The mean over up to six options is a whole number of units.
LEMMA OptionsDivideUnit ==
    ASSUME NEW n \in 2 .. 6
    PROVE  \E c \in Int : Unit = n * c
<1>1. n = 2 \/ n = 3 \/ n = 4 \/ n = 5 \/ n = 6
  OBVIOUS
<1>2. Unit = 2 * 1800 /\ Unit = 3 * 1200 /\ Unit = 4 * 900 /\ Unit = 5 * 720 /\ Unit = 6 * 600
  BY DEF Unit
<1> QED
  BY <1>1, <1>2

LEMMA NamingIs ==
    ASSUME NEW e, EditionOK(e), NEW t \in Mentioned(e)
    PROVE  /\ IsFiniteSet(Naming(e, t)) /\ Naming(e, t) \subseteq DOMAIN e.options
           /\ Cardinality(Naming(e, t)) \in 1 .. Cardinality(DOMAIN e.options)
           /\ Parts(e, t) \in Nat \ {0}
<1>1. IsFiniteSet(DOMAIN e.options) /\ Cardinality(DOMAIN e.options) \in 2 .. 6
  BY OptionsAre
<1>2. Naming(e, t) \subseteq DOMAIN e.options /\ Naming(e, t) # {}
  BY DEF Naming, Mentioned
<1>3. IsFiniteSet(Naming(e, t)) /\ Cardinality(Naming(e, t)) <= Cardinality(DOMAIN e.options)
  BY <1>1, <1>2, FS_Subset
<1>4. Cardinality(Naming(e, t)) \in Nat /\ Cardinality(Naming(e, t)) # 0
  BY <1>2, <1>3, FS_CardinalityType, FS_EmptySet
<1>5. PICK n, k : n = Cardinality(DOMAIN e.options) /\ k = Cardinality(Naming(e, t))
  OBVIOUS
<1>6. n \in 2 .. 6 /\ k \in 1 .. n
  BY <1>1, <1>3, <1>4, <1>5
<1>7. (n - 1) * k \in Nat \ {0}
  <2>1. \A i, j \in Nat \ {0} : i * j \in Nat \ {0}
    OBVIOUS
  <2>2. n - 1 \in Nat \ {0} /\ k \in Nat \ {0}
    BY <1>6
  <2> QED
    BY <2>1, <2>2
<1> QED
  BY <1>2, <1>3, <1>5, <1>6, <1>7 DEF Parts

LEMMA RankingsAre ==
    ASSUME NEW e, EditionOK(e), NEW p \in Bijection(DOMAIN e.options, 0 .. Cardinality(DOMAIN e.options) - 1)
    PROVE  \A o \in DOMAIN e.options : p[o] \in 0 .. Cardinality(DOMAIN e.options) - 1 /\ p[o] \in Int
<1>1. p \in [DOMAIN e.options -> 0 .. Cardinality(DOMAIN e.options) - 1]
  BY DEF Bijection, Injection
<1> QED
  BY <1>1, OptionsAre

LEMMA PlacedTyped ==
    ASSUME NEW e, EditionOK(e), NEW t \in Mentioned(e),
           NEW p \in Bijection(DOMAIN e.options, 0 .. Cardinality(DOMAIN e.options) - 1)
    PROVE  (\A o \in Naming(e, t) : Placed(e, p, t)[o] \in Int) /\ Placement(e, p, t) \in Int
<1>1. \A o \in Naming(e, t) : e.options[o][t] \in Int /\ p[o] \in Int
  BY OptionsAre, RankingsAre DEF Naming
<1>2. PICK n : n = Cardinality(DOMAIN e.options)
  OBVIOUS
<1>3. n \in Int
  BY <1>2, OptionsAre
<1>4. \A w, x \in Int : w * (n - 1 - 2 * x) \in Int
  BY <1>3
<1>5. \A o \in Naming(e, t) : Placed(e, p, t)[o] \in Int
  BY <1>1, <1>2, <1>4 DEF Placed
<1>6. IsFiniteSet(Naming(e, t))
  BY NamingIs
<1> QED
  BY <1>5, <1>6, SumIsInt DEF Placement

LEMMA RankingValue ==
    ASSUME NEW e, EditionOK(e)
    PROVE  \A p \in Bijection(DOMAIN e.options, 0 .. Cardinality(DOMAIN e.options) - 1) :
             /\ DOMAIN EvaluateRanking(e, p) = Mentioned(e)
             /\ \A t \in Mentioned(e) : EvaluateRanking(e, p)[t] = (Unit * Placement(e, p, t)) \div Parts(e, t)
<1> SUFFICES ASSUME NEW p \in Bijection(DOMAIN e.options, 0 .. Cardinality(DOMAIN e.options) - 1)
             PROVE  /\ DOMAIN EvaluateRanking(e, p) = Mentioned(e)
                    /\ \A t \in Mentioned(e) :
                         EvaluateRanking(e, p)[t] = (Unit * Placement(e, p, t)) \div Parts(e, t)
  OBVIOUS
<1>1. EvaluateRanking(e, p) =
        [t \in Mentioned(e) |-> (Unit * SumFunction(Placed(e, p, t))) \div Parts(e, t)]
  BY DEF EvaluateRanking, Mentioned, Parts, Placed, Naming
<1>2. \A t : SumFunction(Placed(e, p, t)) = Placement(e, p, t)
  BY DEF SumFunction, Placement, Placed
<1> QED
  BY <1>1, <1>2

\* An even share of the unit for each part.
LEMMA RankingIsExact ==
    ASSUME NEW e, EditionOK(e), NEW t \in Mentioned(e)
    PROVE  \E c \in Int : \A p \in Bijection(DOMAIN e.options, 0 .. Cardinality(DOMAIN e.options) - 1) :
             EvaluateRanking(e, p)[t] = c * Placement(e, p, t)
<1>1. PICK n, k : n = Cardinality(DOMAIN e.options) /\ k = Cardinality(Naming(e, t))
  OBVIOUS
<1>2. n \in 2 .. 6 /\ k \in 1 .. n /\ Parts(e, t) \in Nat \ {0} /\ Parts(e, t) = (n - 1) * k
  BY <1>1, OptionsAre, NamingIs DEF Parts
<1>3. PICK c \in Int : Unit = ((n - 1) * k) * c
  BY <1>2, PartsDivideUnit
<1>4. PICK d : d = Parts(e, t)
  OBVIOUS
<1>5. d \in Nat \ {0} /\ Unit = d * c
  BY <1>2, <1>3, <1>4
<1>6. ASSUME NEW p \in Bijection(DOMAIN e.options, 0 .. Cardinality(DOMAIN e.options) - 1)
      PROVE  EvaluateRanking(e, p)[t] = c * Placement(e, p, t)
  <2>1. PICK s : s = Placement(e, p, t)
    OBVIOUS
  <2>2. s \in Int /\ c * s \in Int
    <3>1. s \in Int
      BY <2>1, PlacedTyped
    <3> QED
      BY <3>1
  <2>3. Unit * s = d * (c * s)
    BY <1>5, <2>2
  <2>4. (d * (c * s)) \div d = c * s
    BY <1>5, <2>2, QuotientIsExact
  <2>5. EvaluateRanking(e, p)[t] = (Unit * s) \div d
    BY <1>4, <2>1, RankingValue
  <2> QED
    BY <2>1, <2>3, <2>4, <2>5
<1> QED
  BY <1>6

Chosen(o) == [kind |-> "choice", option |-> o]
Ranked(p) == [kind |-> "ranking", position |-> p]
Orders(e) == Bijection(DOMAIN e.options, 0 .. Cardinality(DOMAIN e.options) - 1)
Weight(e, o, t) == IF t \in DOMAIN e.options[o] THEN e.options[o][t] ELSE 0
Forms == {"choice", "ranking"}

LEMMA AnswersAre ==
    ASSUME NEW e
    PROVE  /\ AnswersAs("choice", e) = {Chosen(o) : o \in DOMAIN e.options}
           /\ AnswersAs("ranking", e) = {Ranked(p) : p \in Orders(e)}
BY DEF AnswersAs, SingleChoices, Rankings, Chosen, Ranked, Orders

\* What a choice and what an order add to a trait.
LEMMA ChoiceValue ==
    ASSUME NEW e, EditionOK(e), NEW o \in DOMAIN e.options
    PROVE  /\ DOMAIN Evaluate(e, Chosen(o)) \subseteq Mentioned(e)
           /\ \A t : ValueFor(t, Evaluate(e, Chosen(o))) = Unit * Weight(e, o, t)
           /\ \A t : Weight(e, o, t) \in Int
<1>1. Evaluate(e, Chosen(o)) = [t \in DOMAIN e.options[o] |-> Unit * e.options[o][t]]
  BY DEF Evaluate, Chosen, EvaluatePersonality
<1>2. DOMAIN e.options[o] \subseteq Mentioned(e)
  BY DEF Mentioned
<1>3. \A t \in DOMAIN e.options[o] : e.options[o][t] \in Int
  BY OptionsAre
<1>4. \A t : Weight(e, o, t) \in Int
  BY <1>3 DEF Weight
<1>5. Unit * 0 = 0
  BY DEF Unit
<1>6. \A t : ValueFor(t, Evaluate(e, Chosen(o))) = Unit * Weight(e, o, t)
  BY <1>1, <1>5 DEF ValueFor, Weight
<1> QED
  BY <1>1, <1>2, <1>4, <1>6

LEMMA OrderValue ==
    ASSUME NEW e, EditionOK(e), NEW p \in Orders(e)
    PROVE  /\ DOMAIN Evaluate(e, Ranked(p)) = Mentioned(e)
           /\ \A t : ValueFor(t, Evaluate(e, Ranked(p))) =
                       IF t \in Mentioned(e) THEN EvaluateRanking(e, p)[t] ELSE 0
           /\ \A t : ValueFor(t, Evaluate(e, Ranked(p))) \in Int
<1>1. Evaluate(e, Ranked(p)) = EvaluateRanking(e, p)
  BY DEF Evaluate, Ranked
<1>2. DOMAIN EvaluateRanking(e, p) = Mentioned(e)
  BY RankingValue DEF Orders
<1>3. \A t \in Mentioned(e) : EvaluateRanking(e, p)[t] \in Int
  <2>1. ASSUME NEW t \in Mentioned(e) PROVE EvaluateRanking(e, p)[t] \in Int
    <3>1. PICK c \in Int : EvaluateRanking(e, p)[t] = c * Placement(e, p, t)
      BY RankingIsExact DEF Orders
    <3>2. Placement(e, p, t) \in Int
      BY PlacedTyped DEF Orders
    <3> QED
      BY <3>1, <3>2
  <2> QED
    BY <2>1
<1>4. \A t : ValueFor(t, Evaluate(e, Ranked(p))) = IF t \in Mentioned(e) THEN EvaluateRanking(e, p)[t] ELSE 0
  BY <1>1, <1>2 DEF ValueFor
<1> QED
  BY <1>1, <1>2, <1>3, <1>4

LEMMA EvaluatedTyped ==
    ASSUME NEW e, EditionOK(e), NEW form \in Forms, NEW a \in AnswersAs(form, e)
    PROVE  /\ a.kind = form /\ DOMAIN Evaluate(e, a) \subseteq Mentioned(e)
           /\ \A t : ValueFor(t, Evaluate(e, a)) \in Int
<1>1. CASE form = "choice"
  <2>1. PICK o \in DOMAIN e.options : a = Chosen(o)
    BY <1>1, AnswersAre
  <2>2. \A t : Weight(e, o, t) \in Int /\ Unit * Weight(e, o, t) \in Int
    <3>1. Unit \in Int
      BY DEF Unit
    <3> QED
      BY <3>1, ChoiceValue
  <2>3. a.kind = form
    BY <1>1, <2>1 DEF Chosen
  <2> QED
    BY <2>1, <2>2, <2>3, ChoiceValue
<1>2. CASE form = "ranking"
  <2>1. PICK p \in Orders(e) : a = Ranked(p)
    BY <1>2, AnswersAre
  <2>2. a.kind = form
    BY <1>2, <2>1 DEF Ranked
  <2> QED
    BY <2>1, <2>2, OrderValue
<1> QED
  BY <1>1, <1>2 DEF Forms

LEMMA OrdersAreFinite ==
    ASSUME NEW e, EditionOK(e)
    PROVE  IsFiniteSet(Orders(e))
<1>1. PICK n, D : n = Cardinality(DOMAIN e.options) /\ D = DOMAIN e.options
  OBVIOUS
<1>2. IsFiniteSet(D) /\ n \in Int
  BY <1>1, OptionsAre
<1>3. IsFiniteSet(0 .. n - 1) /\ 0 .. n - 1 \subseteq Int
  BY <1>2, FS_Interval
<1>4. IsFiniteSet([D -> 0 .. n - 1])
  <2> PICK R : R = 0 .. n - 1
    OBVIOUS
  <2>1. IsFiniteSet([D -> R])
    BY <1>2, <1>3, FunctionsAreFinite
  <2> QED
    BY <2>1
<1>5. Orders(e) \subseteq [D -> 0 .. n - 1]
  BY <1>1 DEF Orders, Bijection, Injection
<1> QED
  BY <1>4, <1>5, FS_Subset

\* Turning an order round.
Turned(e, p) == [o \in DOMAIN e.options |-> Cardinality(DOMAIN e.options) - 1 - p[o]]

\* An order turned upside down is an order, and says the opposite.
LEMMA TurnedIsOrder ==
    ASSUME NEW e, EditionOK(e), NEW p \in Orders(e)
    PROVE  Turned(e, p) \in Orders(e) /\ Turned(e, Turned(e, p)) = p
<1>1. PICK n, D : n = Cardinality(DOMAIN e.options) /\ D = DOMAIN e.options
  OBVIOUS
<1>2. n \in 2 .. 6
  BY <1>1, OptionsAre
<1>3. /\ p \in [D -> 0 .. n - 1] /\ \A b, c \in D : p[b] = p[c] => b = c
      /\ \A j \in 0 .. n - 1 : \E o \in D : p[o] = j
  BY <1>1 DEF Orders, Bijection, Injection, Surjection, IsInjective
<1>4. PICK r : r = Turned(e, p)
  OBVIOUS
<1>5. r = [o \in D |-> n - 1 - p[o]]
  BY <1>1, <1>4 DEF Turned
<1>6. \A o \in D : p[o] \in 0 .. n - 1 /\ r[o] = n - 1 - p[o] /\ r[o] \in 0 .. n - 1
  BY <1>2, <1>3, <1>5
<1>7. r \in [D -> 0 .. n - 1]
  BY <1>5, <1>6
<1>8. \A b, c \in D : r[b] = r[c] => b = c
  <2>1. \A b, c \in D : r[b] = r[c] => p[b] = p[c]
    BY <1>2, <1>6
  <2> QED
    BY <1>3, <2>1
<1>9. \A j \in 0 .. n - 1 : \E o \in D : r[o] = j
  <2>1. ASSUME NEW j \in 0 .. n - 1 PROVE \E o \in D : r[o] = j
    <3>1. n - 1 - j \in 0 .. n - 1
      BY <1>2
    <3>2. PICK o \in D : p[o] = n - 1 - j
      BY <1>3, <3>1
    <3>3. r[o] = j
      BY <1>2, <1>6, <3>2
    <3> QED
      BY <3>3
  <2> QED
    BY <2>1
<1>10. r \in Orders(e)
  BY <1>1, <1>7, <1>8, <1>9 DEF Orders, Bijection, Injection, Surjection, IsInjective
<1>11. Turned(e, r) = p
  <2>1. Turned(e, r) = [o \in D |-> n - 1 - r[o]]
    BY <1>1 DEF Turned
  <2>2. \A o \in D : n - 1 - r[o] = p[o]
    BY <1>2, <1>6
  <2>3. p = [o \in D |-> p[o]]
    BY <1>3
  <2> QED
    BY <2>1, <2>2, <2>3
<1> QED
  BY <1>4, <1>10, <1>11

LEMMA TurnedIsOpposite ==
    ASSUME NEW e, EditionOK(e), NEW p \in Orders(e), NEW t \in Mentioned(e)
    PROVE  Placement(e, Turned(e, p), t) = - Placement(e, p, t)
<1>1. PICK n : n = Cardinality(DOMAIN e.options)
  OBVIOUS
<1>2. PICK r : r = Turned(e, p)
  OBVIOUS
<1>3. PICK g, k, S : g = Placed(e, p, t) /\ k = Placed(e, r, t) /\ S = Naming(e, t)
  OBVIOUS
<1>4. r \in Orders(e) /\ n \in Int /\ IsFiniteSet(S) /\ S \subseteq DOMAIN e.options
  BY <1>1, <1>2, <1>3, TurnedIsOrder, OptionsAre, NamingIs
<1>5. \A o \in S : g[o] \in Int /\ k[o] \in Int
  BY <1>3, <1>4, PlacedTyped DEF Orders
<1>6. PICK u \in Int, z \in Int : u = 0 - 1 /\ z = 0
  OBVIOUS
<1>7. \A o \in S : k[o] = u * g[o] + z * g[o]
  <2>1. ASSUME NEW o \in S PROVE k[o] = u * g[o] + z * g[o]
    <3>1. PICK w, x : w = e.options[o][t] /\ x = p[o]
      OBVIOUS
    <3>2. w \in Int /\ x \in Int
      BY <1>3, <3>1, OptionsAre, RankingsAre DEF Naming, Orders
    <3>3. r[o] = n - 1 - x
      BY <1>1, <1>2, <1>4, <3>1 DEF Turned
    <3>4. g[o] = w * (n - 1 - 2 * x) /\ k[o] = w * (n - 1 - 2 * r[o])
      BY <1>1, <1>3, <3>1 DEF Placed
    <3>5. w * (n - 1 - 2 * (n - 1 - x)) = (0 - 1) * (w * (n - 1 - 2 * x)) + 0 * (w * (n - 1 - 2 * x))
      BY <1>4, <3>2
    <3> QED
      BY <1>6, <3>3, <3>4, <3>5
  <2> QED
    BY <2>1
<1>8. SumFunctionOnSet(k, S) = u * SumFunctionOnSet(g, S) + z * SumFunctionOnSet(g, S)
  <2>1. Combines(k, S, u, g, z, g)
    BY <1>5, <1>7 DEF Combines
  <2> QED
    BY <1>4, <2>1, SumCombines
<1>9. SumFunctionOnSet(g, S) \in Int
  BY <1>4, <1>5, SumIsInt
<1>10. SumFunctionOnSet(k, S) = - SumFunctionOnSet(g, S)
  BY <1>6, <1>8, <1>9
<1> QED
  BY <1>2, <1>3, <1>10 DEF Placement

-----------------------------------------------------------------------------
(* Scores: the range of a version                                          *)

Gains(e, form, t) == [a \in AnswersAs(form, e) |-> ValueFor(t, Evaluate(e, a))]
Even(e, form, t) ==
    /\ IsFiniteSet(AnswersAs(form, e))
    /\ \E c \in Int : SumFunctionOnSet(Gains(e, form, t), AnswersAs(form, e))
                        = Cardinality(AnswersAs(form, e)) * c

\* The mean of the choices, and of the orders, is a whole number.
LEMMA ChoicesAreEven ==
    ASSUME NEW e, EditionOK(e), NEW t
    PROVE  Even(e, "choice", t)
<1>1. PICK D, A, g : D = DOMAIN e.options /\ A = AnswersAs("choice", e) /\ g = Gains(e, "choice", t)
  OBVIOUS
<1>2. PICK f : f = [o \in D |-> Chosen(o)]
  OBVIOUS
<1>3. IsFiniteSet(D) /\ Cardinality(D) \in 2 .. 6
  BY <1>1, OptionsAre
<1>4. A = {Chosen(o) : o \in D}
  BY <1>1, AnswersAre
<1>5. Matches(f, D, A)
  <2>1. \A o \in D : f[o] \in A
    BY <1>2, <1>4
  <2>2. \A o, x \in D : f[o] = f[x] => o = x
    <3>1. \A o, x : Chosen(o) = Chosen(x) => o = x
      BY DEF Chosen
    <3> QED
      BY <1>2, <3>1
  <2>3. \A a \in A : \E o \in D : f[o] = a
    BY <1>2, <1>4
  <2> QED
    BY <1>2, <2>1, <2>2, <2>3 DEF Matches
<1>6. IsFiniteSet(A) /\ Cardinality(A) = Cardinality(D)
  BY <1>3, <1>5, SameSize
<1>7. PICK k, w : k = [o \in D |-> Unit * Weight(e, o, t)] /\ w = [o \in D |-> Weight(e, o, t)]
  OBVIOUS
<1>8. PICK u \in Int, z \in Int : u = Unit /\ z = 0
  BY DEF Unit
<1>9. \A o \in D : w[o] \in Int /\ w[o] \in Int /\ k[o] = u * w[o] + z * w[o] /\ k[o] \in Int
  <2>1. \A o \in D : Weight(e, o, t) \in Int
    BY <1>1, ChoiceValue
  <2>2. \A m \in Int : u * m = u * m + 0 * m /\ u * m \in Int
    OBVIOUS
  <2> QED
    BY <1>7, <1>8, <2>1, <2>2
<1>10. \A o \in D : k[o] \in Int /\ k[o] = g[f[o]]
  <2>1. \A o \in D : k[o] = ValueFor(t, Evaluate(e, Chosen(o)))
    BY <1>1, <1>7, ChoiceValue
  <2>2. \A a \in A : g[a] = ValueFor(t, Evaluate(e, a))
    BY <1>1 DEF Gains
  <2>3. \A o \in D : f[o] = Chosen(o) /\ f[o] \in A
    BY <1>2, <1>4
  <2> QED
    BY <1>9, <2>1, <2>2, <2>3
<1>11. SumFunctionOnSet(k, D) = SumFunctionOnSet(g, A)
  BY <1>3, <1>5, <1>10, SumSame
<1>12. SumFunctionOnSet(k, D) = u * SumFunctionOnSet(w, D) + z * SumFunctionOnSet(w, D)
  <2>1. Combines(k, D, u, w, z, w)
    BY <1>9 DEF Combines
  <2> QED
    BY <1>3, <1>8, <2>1, SumCombines
<1>13. SumFunctionOnSet(w, D) \in Int
  BY <1>3, <1>9, SumIsInt
<1>14. PICK n : n = Cardinality(D)
  OBVIOUS
<1>15. n \in 2 .. 6
  BY <1>3, <1>14
<1>16. PICK c \in Int : Unit = n * c
  BY <1>15, OptionsDivideUnit
<1>17. PICK s \in Int : s = SumFunctionOnSet(w, D)
  BY <1>13
<1>18. SumFunctionOnSet(g, A) = n * (c * s) /\ c * s \in Int
  BY <1>8, <1>11, <1>12, <1>15, <1>16, <1>17
<1> QED
  BY <1>1, <1>6, <1>14, <1>18 DEF Even

LEMMA OrdersAreEven ==
    ASSUME NEW e, EditionOK(e), NEW t
    PROVE  Even(e, "ranking", t)
<1>1. PICK B, A, g : B = Orders(e) /\ A = AnswersAs("ranking", e) /\ g = Gains(e, "ranking", t)
  OBVIOUS
<1>2. PICK f : f = [p \in B |-> Ranked(p)]
  OBVIOUS
<1>3. IsFiniteSet(B)
  BY <1>1, OrdersAreFinite
<1>4. A = {Ranked(p) : p \in B}
  BY <1>1, AnswersAre
<1>5. Matches(f, B, A)
  <2>1. \A p \in B : f[p] \in A
    BY <1>2, <1>4
  <2>2. \A p, x \in B : f[p] = f[x] => p = x
    <3>1. \A p, x : Ranked(p) = Ranked(x) => p = x
      BY DEF Ranked
    <3> QED
      BY <1>2, <3>1
  <2>3. \A a \in A : \E p \in B : f[p] = a
    BY <1>2, <1>4
  <2> QED
    BY <1>2, <2>1, <2>2, <2>3 DEF Matches
<1>6. IsFiniteSet(A)
  BY <1>3, <1>5, SameSize
<1>7. PICK k : k = [p \in B |-> ValueFor(t, Evaluate(e, Ranked(p)))]
  OBVIOUS
<1>8. \A p \in B : k[p] \in Int
  BY <1>1, <1>7, OrderValue
<1>9. \A p \in B : k[p] \in Int /\ k[p] = g[f[p]]
  <2>1. \A a \in A : g[a] = ValueFor(t, Evaluate(e, a))
    BY <1>1 DEF Gains
  <2>2. \A p \in B : f[p] = Ranked(p) /\ f[p] \in A
    BY <1>2, <1>4
  <2> QED
    BY <1>7, <1>8, <2>1, <2>2
<1>10. SumFunctionOnSet(k, B) = SumFunctionOnSet(g, A)
  BY <1>3, <1>5, <1>9, SumSame
<1>11. PICK r, h : r = [p \in B |-> Turned(e, p)] /\ h = [p \in B |-> 0 - k[p]]
  OBVIOUS
<1>12. Matches(r, B, B)
  <2>1. \A p \in B : r[p] \in B /\ r[r[p]] = p
    BY <1>1, <1>11, TurnedIsOrder
  <2> QED
    BY <1>11, <2>1 DEF Matches
<1>13. \A p \in B : k[p] \in Int /\ k[p] = h[r[p]]
  <2>1. ASSUME NEW p \in B PROVE k[p] = h[r[p]]
    <3>1. r[p] = Turned(e, p) /\ r[p] \in B
      BY <1>1, <1>11, TurnedIsOrder
    <3>2. CASE t \in Mentioned(e)
      <4>1. PICK c \in Int : \A q \in B : EvaluateRanking(e, q)[t] = c * Placement(e, q, t)
        BY <1>1, <3>2, RankingIsExact DEF Orders
      <4>2. k[p] = c * Placement(e, p, t) /\ k[r[p]] = c * Placement(e, r[p], t)
        BY <1>1, <1>7, <3>1, <3>2, <4>1, OrderValue
      <4>3. PICK s \in Int : s = Placement(e, p, t)
        BY <1>1, <3>2, PlacedTyped DEF Orders
      <4>4. Placement(e, r[p], t) = - s
        BY <1>1, <3>1, <3>2, <4>3, TurnedIsOpposite
      <4>5. 0 - c * (- s) = c * s
        OBVIOUS
      <4>6. h[r[p]] = 0 - k[r[p]]
        BY <1>11, <3>1
      <4> QED
        BY <4>2, <4>3, <4>4, <4>5, <4>6
    <3>3. CASE t \notin Mentioned(e)
      <4>1. k[p] = 0 /\ k[r[p]] = 0
        BY <1>1, <1>7, <3>1, <3>3, OrderValue
      <4>2. h[r[p]] = 0 - k[r[p]]
        BY <1>11, <3>1
      <4> QED
        BY <4>1, <4>2
    <3> QED
      BY <3>2, <3>3
  <2> QED
    BY <1>8, <2>1
<1>14. SumFunctionOnSet(k, B) = SumFunctionOnSet(h, B)
  BY <1>3, <1>12, <1>13, SumSame
<1>15. PICK u \in Int, z \in Int : u = 0 - 1 /\ z = 0
  OBVIOUS
<1>16. \A p \in B : k[p] \in Int /\ k[p] \in Int /\ h[p] = u * k[p] + z * k[p]
  <2>1. \A m \in Int : 0 - m = (0 - 1) * m + 0 * m
    OBVIOUS
  <2> QED
    BY <1>8, <1>11, <1>15, <2>1
<1>17. SumFunctionOnSet(h, B) = u * SumFunctionOnSet(k, B) + z * SumFunctionOnSet(k, B)
  <2>1. Combines(h, B, u, k, z, k)
    BY <1>16 DEF Combines
  <2> QED
    BY <1>3, <1>15, <2>1, SumCombines
<1>18. SumFunctionOnSet(k, B) \in Int
  BY <1>3, <1>8, SumIsInt
<1>19. SumFunctionOnSet(k, B) = 0
  BY <1>14, <1>15, <1>17, <1>18
<1>20. Cardinality(A) \in Nat /\ Cardinality(A) * 0 = 0
  BY <1>6, FS_CardinalityType
<1>21. SumFunctionOnSet(g, A) = Cardinality(A) * 0
  BY <1>10, <1>19, <1>20
<1> QED
  BY <1>1, <1>6, <1>21 DEF Even

\* The range of a version is a range: it bounds every outcome, and its chance
\* is their mean exactly.
RangeHolds(X, r) ==
    /\ IsFiniteSet(X) /\ X # {}
    /\ r.chance \in Int /\ r.best \in Int /\ r.worst \in Int
    /\ \A x \in X : x.value \in Int /\ r.worst <= x.value /\ x.value <= r.best
    /\ r.worst <= r.chance /\ r.chance <= r.best
    /\ SumFunctionOnSet([x \in X |-> x.value], X) = Cardinality(X) * r.chance

\* A mean lies between the bounds of its terms.
LEMMA MeanLiesBetween ==
    ASSUME NEW X, IsFiniteSet(X), X # {}, NEW g, NEW low \in Int, NEW high \in Int, NEW c \in Int,
           \A x \in X : g[x] \in Int /\ low <= g[x] /\ g[x] <= high,
           SumFunctionOnSet(g, X) = Cardinality(X) * c
    PROVE  low <= c /\ c <= high
<1>1. PICK n : n = Cardinality(X)
  OBVIOUS
<1>2. n \in Nat /\ n # 0
  BY <1>1, FS_CardinalityType, FS_EmptySet
<1>3. PICK a, b, i : a = [x \in X |-> low] /\ b = [x \in X |-> high] /\ i = [x \in X |-> x]
  OBVIOUS
<1>4. SumFunctionOnSet(a, X) = n * low /\ SumFunctionOnSet(b, X) = n * high
  <2>1. (\A x \in X : a[x] = low) /\ \A x \in X : b[x] = high
    BY <1>3
  <2> QED
    BY <1>1, <2>1, SumConstant
<1>5. i \in [X -> X] /\ (\A x, y \in X : i[x] = i[y] => x = y) /\ \A y \in X : \E x \in X : i[x] = y
  BY <1>3
<1>6. SumFunctionOnSet(a, X) <= SumFunctionOnSet(g, X)
  <2>1. (\A x \in X : a[x] \in Int) /\ (\A x \in X : g[x] \in Int) /\ \A x \in X : a[x] <= g[i[x]]
    BY <1>3
  <2> QED
    BY <1>5, <2>1, SumGrows
<1>7. SumFunctionOnSet(g, X) <= SumFunctionOnSet(b, X)
  <2>1. (\A x \in X : b[x] \in Int) /\ (\A x \in X : g[x] \in Int) /\ \A x \in X : g[x] <= b[i[x]]
    BY <1>3
  <2> QED
    BY <1>5, <2>1, SumGrows
<1>8. n * low <= n * c /\ n * c <= n * high
  BY <1>1, <1>4, <1>6, <1>7
<1>9. \A k, m \in Int : n * k <= n * m => k <= m
  <2>1. ASSUME NEW k \in Int, NEW m \in Int, n * k <= n * m, m + 1 <= k PROVE FALSE
    <3>1. n * (m + 1) <= n * k
      BY <1>2, <2>1
    <3>2. n * (m + 1) = n * m + n
      BY <1>2
    <3>3. n * m \in Int /\ n * k \in Int
      BY <1>2
    <3> QED
      BY <1>2, <2>1, <3>1, <3>2, <3>3
  <2> QED
    BY <2>1
<1> QED
  BY <1>8, <1>9

\* The range of a version holds (achievableTraitRange).
LEMMA RangeIs ==
    ASSUME NEW v \in Versions, NEW t \in Mentioned(Version(v)), AnswersAs(v[3], Version(v)) # {}
    PROVE  RangeHolds(OutcomesFor(v, t), AchievableTraitRange(v, t))
<1>1. PICK e, A, g, X : /\ e = Version(v) /\ A = AnswersAs(v[3], e) /\ g = Gains(e, v[3], t)
                        /\ X = OutcomesFor(v, t)
  OBVIOUS
<1>2. EditionOK(e) /\ v[3] \in Forms
  BY <1>1, VersionsAre DEF Forms
<1>3. Even(e, v[3], t)
  BY <1>2, ChoicesAreEven, OrdersAreEven DEF Forms
<1>4. PICK c \in Int : SumFunctionOnSet(g, A) = Cardinality(A) * c
  BY <1>1, <1>3 DEF Even
<1>5. IsFiniteSet(A)
  BY <1>1, <1>3 DEF Even
<1>6. PICK f : f = [a \in A |-> Outcome(v, t, a)]
  OBVIOUS
<1>7. X = {f[a] : a \in A}
  BY <1>1, <1>6, OutcomesAre
<1>8. \A a \in A : f[a].answer = a /\ f[a].value = g[a] /\ g[a] \in Int
  <2>1. \A a \in A : g[a] = ValueFor(t, Evaluate(e, a))
    BY <1>1 DEF Gains
  <2>2. \A a \in A : ValueFor(t, Evaluate(e, a)) \in Int
    BY <1>1, <1>2, EvaluatedTyped
  <2> QED
    BY <1>1, <1>6, <2>1, <2>2 DEF Outcome
<1>9. Matches(f, A, X)
  <2>1. \A a, b \in A : f[a] = f[b] => a = b
    <3>1. \A a, b \in A : f[a].answer = a /\ f[b].answer = b
      BY <1>8
    <3> QED
      BY <3>1
  <2>2. f \in [A -> X]
    BY <1>6, <1>7
  <2> QED
    BY <1>7, <2>1, <2>2 DEF Matches
<1>10. IsFiniteSet(X) /\ Cardinality(X) = Cardinality(A) /\ X # {}
  <2>1. A # {}
    BY <1>1
  <2>2. IsFiniteSet(X) /\ Cardinality(X) = Cardinality(A)
    BY <1>5, <1>9, SameSize
  <2> QED
    BY <1>7, <2>1, <2>2
<1>11. PICK h, vals : h = [x \in X |-> x.value] /\ vals = {h[x] : x \in X}
  OBVIOUS
<1>12. \A x \in X : h[x] = x.value /\ h[x] \in Int
  BY <1>7, <1>8, <1>11
<1>13. SumFunctionOnSet(h, X) = Cardinality(X) * c
  <2>1. \A a \in A : g[a] \in Int /\ g[a] = h[f[a]]
    BY <1>7, <1>8, <1>12
  <2>2. SumFunctionOnSet(g, A) = SumFunctionOnSet(h, X)
    BY <1>5, <1>9, <2>1, SumSame
  <2> QED
    BY <1>4, <1>10, <2>2
<1>14. IsFiniteSet(vals) /\ vals # {} /\ vals \subseteq Int /\ vals = {x.value : x \in X}
  <2>1. IsFiniteSet(vals)
    BY <1>10, <1>11, ImageIsFinite
  <2>2. vals = {x.value : x \in X}
    BY <1>11, <1>12
  <2> QED
    BY <1>10, <1>11, <1>12, <2>1, <2>2
<1>15. PICK r : r = AchievableTraitRange(v, t)
  OBVIOUS
<1>16. r.best = Max(vals) /\ r.worst = Min(vals) /\ r.chance = SumFunction(h) \div Cardinality(X)
  BY <1>1, <1>11, <1>14, <1>15 DEF AchievableTraitRange, OutcomesFor
<1>17. r.chance = c
  <2>1. SumFunction(h) = SumFunctionOnSet(h, X)
    BY <1>11 DEF SumFunction
  <2>2. PICK n : n = Cardinality(X)
    OBVIOUS
  <2>3. n \in Nat \ {0}
    BY <1>10, <2>2, FS_CardinalityType, FS_EmptySet
  <2>4. (n * c) \div n = c
    BY <2>3, QuotientIsExact
  <2> QED
    BY <1>13, <1>16, <2>1, <2>2, <2>4
<1>18. /\ Max(vals) \in vals /\ \A y \in vals : y <= Max(vals)
       /\ Min(vals) \in vals /\ \A y \in vals : Min(vals) <= y
  BY <1>14, MaxIs, MinIs
<1>19. r.best \in Int /\ r.worst \in Int /\ \A x \in X : r.worst <= h[x] /\ h[x] <= r.best
  BY <1>11, <1>14, <1>16, <1>18
<1>20. r.worst <= c /\ c <= r.best
  <2>1. PICK low \in Int, high \in Int : low = r.worst /\ high = r.best
    BY <1>19
  <2>2. \A x \in X : h[x] \in Int /\ low <= h[x] /\ h[x] <= high
    BY <1>12, <1>19, <2>1
  <2>3. low <= c /\ c <= high
    BY <1>10, <1>13, <2>2, MeanLiesBetween
  <2> QED
    BY <2>1, <2>3
<1>21. RangeHolds(X, r)
  BY <1>10, <1>11, <1>12, <1>13, <1>17, <1>19, <1>20 DEF RangeHolds
<1> QED
  BY <1>1, <1>15, <1>21

-----------------------------------------------------------------------------
(* Scores: rows and what they add                                          *)

Tally == [sum : Int, count : Nat, chance : Int, best : Int, worst : Int]
NoPart == [chance |-> 0, best |-> 0, worst |-> 0]
Part(v, t) ==
    IF t \in Mentioned(Version(v))
    THEN LET r == AchievableTraitRange(v, t)
         IN  [chance |-> r.chance, best |-> r.best, worst |-> r.worst]
    ELSE NoPart

\* What a row adds to a tally, and to the scale it is measured on.
Adds(old, new, gain, part) ==
    /\ new \in Tally
    /\ new.sum = old.sum + gain
    /\ new.chance = old.chance + part.chance
    /\ new.best = old.best + part.best
    /\ new.worst = old.worst + part.worst
Within(gain, part) ==
    /\ gain \in Int /\ part.chance \in Int /\ part.best \in Int /\ part.worst \in Int
    /\ part.worst <= gain /\ gain <= part.best
    /\ part.worst <= part.chance /\ part.chance <= part.best

\* No answer adds more, or less, than its question offers.
LEMMA GainIsWithin ==
    ASSUME NEW v \in Versions, NEW a \in AnswersAs(v[3], Version(v)), NEW t
    PROVE  Within(ValueFor(t, Evaluate(Version(v), a)), Part(v, t))
<1>1. PICK e, g, p : e = Version(v) /\ g = ValueFor(t, Evaluate(e, a)) /\ p = Part(v, t)
  OBVIOUS
<1>2. EditionOK(e) /\ v[3] \in Forms
  BY <1>1, VersionsAre DEF Forms
<1>3. g \in Int /\ DOMAIN Evaluate(e, a) \subseteq Mentioned(e)
  BY <1>1, <1>2, EvaluatedTyped
<1>4. CASE t \in Mentioned(e)
  <2>1. PICK r, X : r = AchievableTraitRange(v, t) /\ X = OutcomesFor(v, t)
    OBVIOUS
  <2>2. RangeHolds(X, r)
    BY <1>1, <1>4, <2>1, RangeIs
  <2>3. Outcome(v, t, a) \in X /\ Outcome(v, t, a).value = g
    <3>1. X = {Outcome(v, t, b) : b \in AnswersAs(v[3], Version(v))}
      BY <1>1, <1>4, <2>1, OutcomesAre
    <3>2. Outcome(v, t, a).value = g
      BY <1>1 DEF Outcome
    <3> QED
      BY <3>1, <3>2
  <2>4. p = [chance |-> r.chance, best |-> r.best, worst |-> r.worst]
    BY <1>1, <1>4, <2>1 DEF Part
  <2>5. Within(g, p)
    BY <2>2, <2>3, <2>4 DEF RangeHolds, Within
  <2> QED
    BY <1>1, <2>5
<1>5. CASE t \notin Mentioned(e)
  <2>1. g = 0 /\ p = NoPart
    BY <1>1, <1>3, <1>5 DEF ValueFor, Part
  <2>2. Within(g, p)
    BY <2>1 DEF Within, NoPart
  <2> QED
    BY <1>1, <2>2
<1> QED
  BY <1>4, <1>5

\* The range a trait is given is the range of the version.
RangesFor(v) == {r \in Ranges : r.version = v}

LEMMA RangesAre ==
    ASSUME NEW v \in Versions, NEW t
    PROVE  /\ (\E r \in RangesFor(v) : r.trait = t) <=> t \in Mentioned(Version(v))
           /\ \A r \in RangesFor(v) : r.trait = t => r = AchievableTraitRange(v, t)
<1>1. \A w, s : AchievableTraitRange(w, s).version = w /\ AchievableTraitRange(w, s).trait = s
  BY DEF AchievableTraitRange
<1>2. Ranges = UNION {{AchievableTraitRange(w, s) : s \in Mentioned(Version(w))} : w \in Versions}
  BY DEF Ranges
<1>3. \A s \in Mentioned(Version(v)) : AchievableTraitRange(v, s) \in RangesFor(v)
  BY <1>1, <1>2 DEF RangesFor
<1>4. \A r \in RangesFor(v) : \E s \in Mentioned(Version(v)) : r = AchievableTraitRange(v, s)
  BY <1>1, <1>2 DEF RangesFor
<1> QED
  BY <1>1, <1>3, <1>4

Express(x, w) == [x EXCEPT !.sum = @ + w, !.count = @ + 1]
Offer(x, r) == [x EXCEPT !.chance = @ + r.chance, !.best = @ + r.best, !.worst = @ + r.worst]

LEMMA ExpressIs ==
    ASSUME NEW x \in Tally, NEW w \in Int
    PROVE  /\ Express(x, w) \in Tally /\ Express(x, w).sum = x.sum + w
           /\ Express(x, w).chance = x.chance /\ Express(x, w).best = x.best /\ Express(x, w).worst = x.worst
<1>1. PICK s \in Int, n \in Nat, c \in Int, b \in Int, l \in Int :
        x = [sum |-> s, count |-> n, chance |-> c, best |-> b, worst |-> l]
  BY DEF Tally
<1>2. Express(x, w) = [sum |-> s + w, count |-> n + 1, chance |-> c, best |-> b, worst |-> l]
  <2>1. PICK y : y = [x EXCEPT !.sum = @ + w]
    OBVIOUS
  <2>2. y = [sum |-> s + w, count |-> n, chance |-> c, best |-> b, worst |-> l]
    BY <1>1, <2>1
  <2>3. Express(x, w) = [y EXCEPT !.count = @ + 1]
    BY <2>1 DEF Express
  <2> QED
    BY <2>2, <2>3
<1>3. s + w \in Int /\ n + 1 \in Nat
  OBVIOUS
<1> QED
  BY <1>1, <1>2, <1>3 DEF Tally

LEMMA OfferIs ==
    ASSUME NEW x \in Tally, NEW r, r.chance \in Int, r.best \in Int, r.worst \in Int
    PROVE  /\ Offer(x, r) \in Tally /\ Offer(x, r).sum = x.sum
           /\ Offer(x, r).chance = x.chance + r.chance /\ Offer(x, r).best = x.best + r.best
           /\ Offer(x, r).worst = x.worst + r.worst
<1>1. PICK s \in Int, n \in Nat, c \in Int, b \in Int, l \in Int :
        x = [sum |-> s, count |-> n, chance |-> c, best |-> b, worst |-> l]
  BY DEF Tally
<1>2. Offer(x, r) = [sum |-> s, count |-> n, chance |-> c + r.chance, best |-> b + r.best,
                     worst |-> l + r.worst]
  <2>1. PICK y : y = [x EXCEPT !.chance = @ + r.chance]
    OBVIOUS
  <2>2. PICK z : z = [y EXCEPT !.best = @ + r.best]
    OBVIOUS
  <2>3. y = [sum |-> s, count |-> n, chance |-> c + r.chance, best |-> b, worst |-> l]
    BY <1>1, <2>1
  <2>4. z = [sum |-> s, count |-> n, chance |-> c + r.chance, best |-> b + r.best, worst |-> l]
    BY <2>2, <2>3
  <2>5. Offer(x, r) = [z EXCEPT !.worst = @ + r.worst]
    BY <2>1, <2>2 DEF Offer
  <2> QED
    BY <2>4, <2>5
<1>3. c + r.chance \in Int /\ b + r.best \in Int /\ l + r.worst \in Int
  OBVIOUS
<1> QED
  BY <1>1, <1>2, <1>3 DEF Tally

\* An answer adds to each trait what it says of it, and its question what it offers.
LEMMA AppliedIs ==
    ASSUME NEW v \in Versions, NEW a \in AnswersAs(v[3], Version(v)), NEW ts \in [Traits -> Tally],
           NEW t \in Traits
    PROVE  Adds(ts[t], ApplyTraitWeights(ts, Evaluate(Version(v), a), RangesFor(v))[t],
                ValueFor(t, Evaluate(Version(v), a)), Part(v, t))
<1>1. PICK e, ws, g, p : e = Version(v) /\ ws = Evaluate(e, a) /\ g = ValueFor(t, ws) /\ p = Part(v, t)
  OBVIOUS
<1>2. PICK x, said, y :
        /\ x = ts[t] /\ said = (IF t \in DOMAIN ws THEN Express(x, ws[t]) ELSE x)
        /\ y = ApplyTraitWeights(ts, ws, RangesFor(v))[t]
  OBVIOUS
<1>3. y = IF \E r \in RangesFor(v) : r.trait = t
          THEN Offer(said, CHOOSE r \in RangesFor(v) : r.trait = t) ELSE said
  BY <1>2 DEF ApplyTraitWeights, Express, Offer
<1>4. x \in Tally /\ Within(g, p) /\ EditionOK(e)
  BY <1>1, <1>2, GainIsWithin, VersionsAre
<1>5. g = (IF t \in DOMAIN ws THEN ws[t] ELSE 0) /\ g \in Int
  BY <1>1, <1>4 DEF ValueFor, Within
<1>6. /\ said \in Tally /\ said.sum = x.sum + g
      /\ said.chance = x.chance /\ said.best = x.best /\ said.worst = x.worst
  <2>1. CASE t \in DOMAIN ws
    <3>1. said = Express(x, g)
      BY <1>2, <1>5, <2>1
    <3> QED
      BY <1>4, <1>5, <3>1, ExpressIs
  <2>2. CASE t \notin DOMAIN ws
    <3>1. said = x /\ g = 0 /\ x.sum \in Int
      BY <1>2, <1>4, <1>5, <2>2 DEF Tally
    <3> QED
      BY <1>4, <3>1
  <2> QED
    BY <2>1, <2>2
<1>7. CASE t \in Mentioned(e)
  <2>1. PICK r : r = AchievableTraitRange(v, t)
    OBVIOUS
  <2>2. y = Offer(said, r)
    <3>1. \E s \in RangesFor(v) : s.trait = t
      BY <1>1, <1>7, RangesAre
    <3>2. (CHOOSE s \in RangesFor(v) : s.trait = t) = r
      BY <2>1, <3>1, RangesAre
    <3> QED
      BY <1>3, <3>1, <3>2
  <2>3. p = [chance |-> r.chance, best |-> r.best, worst |-> r.worst]
    BY <1>1, <1>7, <2>1 DEF Part
  <2>4. r.chance \in Int /\ r.best \in Int /\ r.worst \in Int /\ p.chance = r.chance /\ p.best = r.best
        /\ p.worst = r.worst
    BY <1>4, <2>3 DEF Within
  <2>5. Adds(x, y, g, p)
    BY <1>6, <2>2, <2>4, OfferIs DEF Adds
  <2> QED
    BY <1>1, <1>2, <2>5
<1>8. CASE t \notin Mentioned(e)
  <2>1. y = said
    BY <1>1, <1>3, <1>8, RangesAre
  <2>2. p.chance = 0 /\ p.best = 0 /\ p.worst = 0
    BY <1>1, <1>8 DEF Part, NoPart
  <2>3. x.chance \in Int /\ x.best \in Int /\ x.worst \in Int
    BY <1>4 DEF Tally
  <2>4. Adds(x, y, g, p)
    BY <1>6, <2>1, <2>2, <2>3 DEF Adds
  <2> QED
    BY <1>1, <1>2, <2>4
<1> QED
  BY <1>7, <1>8

LEMMA AppliedTyped ==
    ASSUME NEW v \in Versions, NEW a \in AnswersAs(v[3], Version(v)), NEW ts \in [Traits -> Tally]
    PROVE  ApplyTraitWeights(ts, Evaluate(Version(v), a), RangesFor(v)) \in [Traits -> Tally]
<1>1. PICK u : u = ApplyTraitWeights(ts, Evaluate(Version(v), a), RangesFor(v))
  OBVIOUS
<1>2. \A t \in Traits : u[t] \in Tally
  BY <1>1, AppliedIs DEF Adds
<1>3. u = [t \in Traits |-> u[t]]
  BY <1>1 DEF ApplyTraitWeights
<1> QED
  BY <1>1, <1>2, <1>3

-----------------------------------------------------------------------------
(* Rows against a bank.                                                    *)

Banks == {ed \in [Items -> Nat] : \A q \in Items : ed[q] \in DOMAIN Editions[q]}
RowOK(row) ==
    /\ row.question \in Items
    /\ \/ row.answer = Unanswered
       \/ \E i \in DOMAIN Editions[row.question] : \E form \in Forms :
             row.answer \in AnswersAs(form, Editions[row.question][i])
DetailsIn(ed, q) == Editions[q][ed[q]]
PutAs(ed, row) == <<row.question, ed[row.question], row.answer.kind>>
Counts(ed, row) == Fits(DetailsIn(ed, row.question), row.answer)

\* A row that counts is an answer to the version of now.
LEMMA CountsMeans ==
    ASSUME NEW ed \in Banks, NEW row, RowOK(row), Counts(ed, row)
    PROVE  /\ PutAs(ed, row) \in Versions /\ Version(PutAs(ed, row)) = DetailsIn(ed, row.question)
           /\ PutAs(ed, row)[3] = row.answer.kind /\ row.answer.kind \in Forms
           /\ row.answer \in AnswersAs(row.answer.kind, DetailsIn(ed, row.question))
<1>1. PICK e, a, q : e = DetailsIn(ed, row.question) /\ a = row.answer /\ q = row.question
  OBVIOUS
<1>2. Fits(e, a) /\ q \in Items
  BY <1>1 DEF Counts, RowOK
<1>3. a # Unanswered
  BY <1>2 DEF Fits, Unanswered
<1>4. PICK i \in DOMAIN Editions[q], form \in Forms : a \in AnswersAs(form, Editions[q][i])
  BY <1>1, <1>3 DEF RowOK
<1>5. PICK f : f = Editions[q][i]
  OBVIOUS
<1>6. EditionOK(f) /\ ed[q] \in DOMAIN Editions[q] /\ EditionOK(e)
  BY <1>1, <1>2, <1>5, ScoringAssumption DEF Banks, DetailsIn
<1>7. a.kind = form
  BY <1>4, <1>5, <1>6, EvaluatedTyped
<1>8. a \in AnswersAs(form, e)
  <2>1. CASE form = "choice"
    <3>1. PICK o \in DOMAIN f.options : a = Chosen(o)
      BY <1>4, <1>5, <2>1, AnswersAre
    <3>2. o \in DOMAIN e.options
      BY <1>2, <3>1 DEF Fits, Chosen
    <3> QED
      BY <2>1, <3>1, <3>2, AnswersAre
  <2>2. CASE form = "ranking"
    <3>1. PICK p \in Orders(f) : a = Ranked(p)
      BY <1>4, <1>5, <2>2, AnswersAre
    <3>2. DOMAIN p = DOMAIN e.options
      BY <1>2, <3>1 DEF Fits, Ranked
    <3>3. DOMAIN p = DOMAIN f.options
      BY DEF Orders, Bijection, Injection
    <3>4. Orders(f) = Orders(e)
      BY <3>2, <3>3 DEF Orders
    <3> QED
      BY <2>2, <3>1, <3>4, AnswersAre
  <2> QED
    BY <2>1, <2>2 DEF Forms
<1>9. PICK v : v = <<q, ed[q], form>>
  OBVIOUS
<1>10. v \in Versions /\ Version(v) = e /\ v[3] = form
  BY <1>1, <1>2, <1>6, <1>9, VersionsAre DEF DetailsIn, Forms
<1>11. v = PutAs(ed, row)
  BY <1>1, <1>7, <1>9 DEF PutAs
<1> QED
  BY <1>1, <1>7, <1>8, <1>10, <1>11

ScoredBy(ed, ts, q, a) ==
    IF a.kind = "unanswered" THEN ts
    ELSE ApplyTraitWeights(ts, Evaluate(DetailsIn(ed, q), a), RangesFor(<<q, ed[q], a.kind>>))
ReplayedBy(ed, ts, row) ==
    IF Counts(ed, row) THEN ScoredBy(ed, ts, row.question, row.answer) ELSE ts
Moved(ed, row, t) ==
    IF Counts(ed, row) THEN ValueFor(t, Evaluate(DetailsIn(ed, row.question), row.answer)) ELSE 0
Span(ed, row, t) == IF Counts(ed, row) THEN Part(PutAs(ed, row), t) ELSE NoPart

LEMMA MovedIsWithin ==
    ASSUME NEW ed \in Banks, NEW row, RowOK(row), NEW t
    PROVE  Within(Moved(ed, row, t), Span(ed, row, t))
<1>1. CASE Counts(ed, row)
  <2>1. PICK v, a : v = PutAs(ed, row) /\ a = row.answer
    OBVIOUS
  <2>2. v \in Versions /\ a \in AnswersAs(v[3], Version(v)) /\ Version(v) = DetailsIn(ed, row.question)
    BY <1>1, <2>1, CountsMeans
  <2>3. Within(ValueFor(t, Evaluate(Version(v), a)), Part(v, t))
    BY <2>2, GainIsWithin
  <2> QED
    BY <1>1, <2>1, <2>2, <2>3 DEF Moved, Span
<1>2. CASE ~Counts(ed, row)
  <2>1. Moved(ed, row, t) = 0 /\ Span(ed, row, t) = NoPart
    BY <1>2 DEF Moved, Span
  <2>2. Within(0, NoPart)
    BY DEF Within, NoPart
  <2> QED
    BY <2>1, <2>2
<1> QED
  BY <1>1, <1>2

\* A row that is replayed adds what it moves, and its part of the scale.
LEMMA ReplayedIs ==
    ASSUME NEW ed \in Banks, NEW row, RowOK(row), NEW ts \in [Traits -> Tally]
    PROVE  /\ ReplayedBy(ed, ts, row) \in [Traits -> Tally]
           /\ \A t \in Traits :
                Adds(ts[t], ReplayedBy(ed, ts, row)[t], Moved(ed, row, t), Span(ed, row, t))
<1>1. CASE Counts(ed, row)
  <2>1. PICK v, a : v = PutAs(ed, row) /\ a = row.answer
    OBVIOUS
  <2>2. /\ v \in Versions /\ a \in AnswersAs(v[3], Version(v)) /\ Version(v) = DetailsIn(ed, row.question)
        /\ a.kind # "unanswered"
    BY <1>1, <2>1, CountsMeans DEF Forms
  <2>3. PICK u : u = ApplyTraitWeights(ts, Evaluate(Version(v), a), RangesFor(v))
    OBVIOUS
  <2>4. ReplayedBy(ed, ts, row) = u
    BY <1>1, <2>1, <2>2, <2>3 DEF ReplayedBy, ScoredBy, PutAs
  <2>5. u \in [Traits -> Tally]
    BY <2>2, <2>3, AppliedTyped
  <2>6. \A t \in Traits : Adds(ts[t], u[t], ValueFor(t, Evaluate(Version(v), a)), Part(v, t))
    BY <2>2, <2>3, AppliedIs
  <2>7. \A t \in Traits : /\ Moved(ed, row, t) = ValueFor(t, Evaluate(Version(v), a))
                          /\ Span(ed, row, t) = Part(v, t)
    BY <1>1, <2>1, <2>2 DEF Moved, Span
  <2> QED
    BY <2>4, <2>5, <2>6, <2>7
<1>2. CASE ~Counts(ed, row)
  <2>1. \A t : Moved(ed, row, t) = 0 /\ Span(ed, row, t) = NoPart
    BY <1>2 DEF Moved, Span
  <2>2. ReplayedBy(ed, ts, row) = ts
    BY <1>2 DEF ReplayedBy
  <2>3. ASSUME NEW x \in Tally PROVE Adds(x, x, 0, NoPart)
    BY DEF Adds, NoPart, Tally
  <2>4. \A t \in Traits : ts[t] \in Tally
    OBVIOUS
  <2> QED
    BY <2>1, <2>2, <2>3, <2>4
<1> QED
  BY <1>1, <1>2

-----------------------------------------------------------------------------
(* Scores: the replay                                                      *)

Empty == [t \in Traits |-> NoTally]
ReplaysTo(h, ed, rs, k) ==
    h = [n \in 0 .. k |-> IF n = 0 THEN Empty ELSE ReplayedBy(ed, h[n - 1], rs[n])]
ReplayBy(ed, rs) == (CHOOSE h : ReplaysTo(h, ed, rs, Len(rs)))[Len(rs)]

\* The replay, as a function of the bank and the rows.
LEMMA ReplayIs ==
    ASSUME NEW rs
    PROVE  Replay(rs) = ReplayBy(edition, rs)
BY DEF Replay, ReplayBy, ReplaysTo, Empty, Replayed, ReplayedBy, Scored, ScoredBy, Details, DetailsIn,
       Counts, RangesFor

LEMMA ScoreReplayExists ==
    ASSUME NEW ed, NEW rs, NEW k \in Nat
    PROVE  \E f : ReplaysTo(f, ed, rs, k)
<1> DEFINE T == {n \in Nat : \E f : ReplaysTo(f, ed, rs, n)}
<1>1. 0 \in T
  <2>1. ReplaysTo([n \in 0 .. 0 |-> Empty], ed, rs, 0)
    BY DEF ReplaysTo
  <2> QED
    BY <2>1
<1>2. ASSUME NEW m \in Nat, m \in T PROVE m + 1 \in T
  <2>1. PICK f : ReplaysTo(f, ed, rs, m)
    BY <1>2
  <2> DEFINE g == [n \in 0 .. m + 1 |-> IF n = m + 1 THEN ReplayedBy(ed, f[m], rs[m + 1]) ELSE f[n]]
  <2>2. \A n \in 0 .. m : g[n] = f[n]
    OBVIOUS
  <2>3. \A n \in 0 .. m : f[n] = IF n = 0 THEN Empty ELSE ReplayedBy(ed, f[n - 1], rs[n])
    BY <2>1 DEF ReplaysTo
  <2>4. \A n \in 0 .. m + 1 : g[n] = IF n = 0 THEN Empty ELSE ReplayedBy(ed, g[n - 1], rs[n])
    <3>1. ASSUME NEW n \in 0 .. m + 1
          PROVE  g[n] = IF n = 0 THEN Empty ELSE ReplayedBy(ed, g[n - 1], rs[n])
      <4>1. CASE n = m + 1
        <5>1. g[n] = ReplayedBy(ed, f[m], rs[m + 1]) /\ n # 0 /\ n - 1 = m /\ g[m] = f[m]
          BY <4>1, <2>2
        <5> HIDE DEF g
        <5> QED
          BY <4>1, <5>1
      <4>2. CASE n \in 0 .. m
        <5>1. g[n] = f[n] /\ (n # 0 => n - 1 \in 0 .. m /\ g[n - 1] = f[n - 1])
          BY <4>2, <2>2
        <5> HIDE DEF g
        <5> QED
          BY <4>2, <5>1, <2>3
      <4> QED
        BY <4>1, <4>2
    <3> QED
      BY <3>1
  <2>5. g = [n \in 0 .. m + 1 |-> IF n = 0 THEN Empty ELSE ReplayedBy(ed, g[n - 1], rs[n])]
    <3>1. g = [n \in 0 .. m + 1 |-> g[n]]
      OBVIOUS
    <3> HIDE DEF g
    <3> QED
      BY <2>4, <3>1
  <2>6. ReplaysTo(g, ed, rs, m + 1)
    <3> HIDE DEF g
    <3> QED
      BY <2>5 DEF ReplaysTo
  <2> QED
    BY <2>6
<1>3. Nat \subseteq T
  <2> HIDE DEF T
  <2> QED
    BY <1>1, <1>2, EveryNumber
<1> QED
  BY <1>3

\* Two replays agree for as long as their rows do the same.
LEMMA ReplaysAgree ==
    ASSUME NEW ed, NEW fd, NEW rs, NEW others, NEW k \in Nat, NEW m \in Nat, NEW f, NEW g,
           ReplaysTo(f, ed, rs, k), ReplaysTo(g, fd, others, m), k <= m,
           \A n \in 1 .. k : \A ts : ReplayedBy(ed, ts, rs[n]) = ReplayedBy(fd, ts, others[n])
    PROVE  f[k] = g[k]
<1> DEFINE T == {n \in Nat : n <= k => f[n] = g[n]}
<1>1. /\ \A n \in 0 .. k : f[n] = IF n = 0 THEN Empty ELSE ReplayedBy(ed, f[n - 1], rs[n])
      /\ \A n \in 0 .. m : g[n] = IF n = 0 THEN Empty ELSE ReplayedBy(fd, g[n - 1], others[n])
  BY DEF ReplaysTo
<1>2. 0 \in T
  BY <1>1
<1>3. ASSUME NEW n \in Nat, n \in T PROVE n + 1 \in T
  <2> SUFFICES ASSUME n + 1 <= k PROVE f[n + 1] = g[n + 1]
    OBVIOUS
  <2>1. f[n] = g[n] /\ n + 1 \in 0 .. k /\ n + 1 \in 0 .. m /\ n + 1 \in 1 .. k
    BY <1>3
  <2>2. n + 1 # 0 /\ (n + 1) - 1 = n /\ ReplayedBy(ed, f[n], rs[n + 1]) = ReplayedBy(fd, f[n], others[n + 1])
    BY <2>1
  <2> QED
    BY <1>1, <2>1, <2>2
<1>4. Nat \subseteq T
  <2> HIDE DEF T
  <2> QED
    BY <1>2, <1>3, EveryNumber
<1> QED
  BY <1>4

LEMMA ReplayIsOne ==
    ASSUME NEW ed, NEW rs, Len(rs) \in Nat
    PROVE  \E h : ReplaysTo(h, ed, rs, Len(rs)) /\ ReplayBy(ed, rs) = h[Len(rs)]
BY ScoreReplayExists DEF ReplayBy

\* An answer that is added is replayed last.
LEMMA ReplayGrows ==
    ASSUME NEW ed, NEW S, NEW rs \in Seq(S), NEW row \in S
    PROVE  ReplayBy(ed, Append(rs, row)) = ReplayedBy(ed, ReplayBy(ed, rs), row)
<1>1. PICK n, more : n = Len(rs) /\ more = Append(rs, row)
  OBVIOUS
<1>2. n \in Nat /\ Len(more) = n + 1 /\ more[n + 1] = row /\ \A i \in 1 .. n : more[i] = rs[i]
  BY <1>1
<1>3. PICK f : ReplaysTo(f, ed, rs, n) /\ ReplayBy(ed, rs) = f[n]
  BY <1>1, <1>2, ReplayIsOne
<1>4. PICK g : ReplaysTo(g, ed, more, n + 1) /\ ReplayBy(ed, more) = g[n + 1]
  BY <1>2, ReplayIsOne
<1>5. f[n] = g[n]
  <2>1. n <= n + 1 /\ n + 1 \in Nat
    BY <1>2
  <2>2. \A i \in 1 .. n : \A ts : ReplayedBy(ed, ts, rs[i]) = ReplayedBy(ed, ts, more[i])
    BY <1>2
  <2> QED
    BY <1>2, <1>3, <1>4, <2>1, <2>2, ReplaysAgree
<1>6. g[n + 1] = ReplayedBy(ed, g[n], row)
  <2>1. n + 1 \in 0 .. n + 1 /\ n + 1 # 0 /\ (n + 1) - 1 = n
    BY <1>2
  <2>2. g[n + 1] = IF n + 1 = 0 THEN Empty ELSE ReplayedBy(ed, g[(n + 1) - 1], more[n + 1])
    BY <1>4, <2>1 DEF ReplaysTo
  <2> QED
    BY <1>2, <2>1, <2>2
<1> QED
  BY <1>1, <1>3, <1>4, <1>5, <1>6

\* An edit of a question without an answer changes no replay.
LEMMA ReplayStays ==
    ASSUME NEW ed, NEW fd, NEW rs, Len(rs) \in Nat,
           \A n \in 1 .. Len(rs) : ed[rs[n].question] = fd[rs[n].question]
    PROVE  ReplayBy(ed, rs) = ReplayBy(fd, rs)
<1>1. PICK n : n = Len(rs)
  OBVIOUS
<1>2. PICK f : ReplaysTo(f, ed, rs, n) /\ ReplayBy(ed, rs) = f[n]
  BY <1>1, ReplayIsOne
<1>3. PICK g : ReplaysTo(g, fd, rs, n) /\ ReplayBy(fd, rs) = g[n]
  BY <1>1, ReplayIsOne
<1>4. \A i \in 1 .. n : \A ts : ReplayedBy(ed, ts, rs[i]) = ReplayedBy(fd, ts, rs[i])
  BY <1>1 DEF ReplayedBy, ScoredBy, Counts, DetailsIn
<1>5. n \in Nat /\ n <= n
  BY <1>1
<1>6. f[n] = g[n]
  BY <1>2, <1>3, <1>4, <1>5, ReplaysAgree
<1> QED
  BY <1>2, <1>3, <1>6

LEMMA SumUpTo ==
    ASSUME NEW n \in Nat, NEW g, \A i \in 1 .. n + 1 : g[i] \in Int
    PROVE  SumFunctionOnSet(g, 1 .. n + 1) = SumFunctionOnSet(g, 1 .. n) + g[n + 1]
<1>1. PICK S, x : S = 1 .. n + 1 /\ x = n + 1
  OBVIOUS
<1>2. IsFiniteSet(S) /\ x \in S /\ S \ {x} = 1 .. n /\ \A i \in S : g[i] \in Int
  <2>1. IsFiniteSet(1 .. n + 1)
    <3>1. 1 \in Int /\ n + 1 \in Int
      OBVIOUS
    <3> QED
      BY <3>1, FS_Interval
  <2>2. S \ {x} = 1 .. n
    BY <1>1
  <2> QED
    BY <1>1, <2>1, <2>2
<1>3. SumFunctionOnSet(g, S) = g[x] + SumFunctionOnSet(g, S \ {x})
  BY <1>2, SumWithout
<1>4. SumFunctionOnSet(g, S \ {x}) \in Int /\ g[x] \in Int
  <2>1. IsFiniteSet(S \ {x}) /\ \A i \in S \ {x} : g[i] \in Int
    BY <1>2, FS_Subset
  <2> PICK R : R = S \ {x}
    OBVIOUS
  <2>2. SumFunctionOnSet(g, R) \in Int
    BY <2>1, SumIsInt
  <2> QED
    BY <1>2, <2>2
<1>5. PICK u, v : u = SumFunctionOnSet(g, S \ {x}) /\ v = g[x]
  OBVIOUS
<1>6. v + u = u + v
  BY <1>4, <1>5
<1> QED
  BY <1>1, <1>2, <1>3, <1>5, <1>6

MovedBy(ed, rs, t) == [i \in 1 .. Len(rs) |-> Moved(ed, rs[i], t)]
ChanceBy(ed, rs, t) == [i \in 1 .. Len(rs) |-> Span(ed, rs[i], t).chance]
BestBy(ed, rs, t) == [i \in 1 .. Len(rs) |-> Span(ed, rs[i], t).best]
WorstBy(ed, rs, t) == [i \in 1 .. Len(rs) |-> Span(ed, rs[i], t).worst]

\* What n rows come to.
Totals(x, ed, rs, t, n) ==
    /\ x.sum = SumFunctionOnSet(MovedBy(ed, rs, t), 1 .. n)
    /\ x.chance = SumFunctionOnSet(ChanceBy(ed, rs, t), 1 .. n)
    /\ x.best = SumFunctionOnSet(BestBy(ed, rs, t), 1 .. n)
    /\ x.worst = SumFunctionOnSet(WorstBy(ed, rs, t), 1 .. n)

LEMMA TotalsStep ==
    ASSUME NEW ed \in Banks, NEW rs, Len(rs) \in Nat, \A i \in 1 .. Len(rs) : RowOK(rs[i]),
           NEW t, NEW n \in Nat, n + 1 <= Len(rs), NEW x, NEW y,
           Totals(x, ed, rs, t, n), Adds(x, y, Moved(ed, rs[n + 1], t), Span(ed, rs[n + 1], t))
    PROVE  Totals(y, ed, rs, t, n + 1)
<1>1. PICK m, c, b, w : /\ m = MovedBy(ed, rs, t) /\ c = ChanceBy(ed, rs, t)
                        /\ b = BestBy(ed, rs, t) /\ w = WorstBy(ed, rs, t)
  OBVIOUS
<1>2. \A i \in 1 .. n + 1 : i \in 1 .. Len(rs)
  OBVIOUS
<1>3. \A i \in 1 .. n + 1 : /\ m[i] = Moved(ed, rs[i], t) /\ c[i] = Span(ed, rs[i], t).chance
                            /\ b[i] = Span(ed, rs[i], t).best /\ w[i] = Span(ed, rs[i], t).worst
  BY <1>1, <1>2 DEF MovedBy, ChanceBy, BestBy, WorstBy
<1>4. \A i \in 1 .. n + 1 : Within(Moved(ed, rs[i], t), Span(ed, rs[i], t))
  BY <1>2, MovedIsWithin
<1>5. \A i \in 1 .. n + 1 : m[i] \in Int /\ c[i] \in Int /\ b[i] \in Int /\ w[i] \in Int
  BY <1>3, <1>4 DEF Within
<1>6. /\ SumFunctionOnSet(m, 1 .. n + 1) = SumFunctionOnSet(m, 1 .. n) + m[n + 1]
      /\ SumFunctionOnSet(c, 1 .. n + 1) = SumFunctionOnSet(c, 1 .. n) + c[n + 1]
      /\ SumFunctionOnSet(b, 1 .. n + 1) = SumFunctionOnSet(b, 1 .. n) + b[n + 1]
      /\ SumFunctionOnSet(w, 1 .. n + 1) = SumFunctionOnSet(w, 1 .. n) + w[n + 1]
  BY <1>5, SumUpTo
<1>7. n + 1 \in 1 .. n + 1
  OBVIOUS
<1> QED
  BY <1>1, <1>3, <1>6, <1>7 DEF Totals, Adds

OnScale(x) == /\ x.worst <= x.sum /\ x.sum <= x.best
              /\ x.worst <= x.chance /\ x.chance <= x.best

LEMMA ScaleStep ==
    ASSUME NEW x \in Tally, NEW y, NEW g, NEW p, OnScale(x), Adds(x, y, g, p), Within(g, p)
    PROVE  OnScale(y)
<1>1. x.sum \in Int /\ x.chance \in Int /\ x.best \in Int /\ x.worst \in Int
  BY DEF Tally
<1> QED
  BY <1>1 DEF OnScale, Adds, Within

\* The replay of any rows comes to their totals, each trait on its scale.
LEMMA ReplayTotals ==
    ASSUME NEW ed \in Banks, NEW rs, Len(rs) \in Nat, \A i \in 1 .. Len(rs) : RowOK(rs[i])
    PROVE  /\ ReplayBy(ed, rs) \in [Traits -> Tally]
           /\ \A t \in Traits : Totals(ReplayBy(ed, rs)[t], ed, rs, t, Len(rs))
           /\ \A t \in Traits : OnScale(ReplayBy(ed, rs)[t])
<1>1. PICK h : ReplaysTo(h, ed, rs, Len(rs)) /\ ReplayBy(ed, rs) = h[Len(rs)]
  BY ReplayIsOne
<1> DEFINE Good(n) == /\ h[n] \in [Traits -> Tally]
                      /\ \A t \in Traits : Totals(h[n][t], ed, rs, t, n) /\ OnScale(h[n][t])
           T == {n \in Nat : n <= Len(rs) => Good(n)}
<1>2. \A n \in 0 .. Len(rs) : h[n] = IF n = 0 THEN Empty ELSE ReplayedBy(ed, h[n - 1], rs[n])
  BY <1>1 DEF ReplaysTo
<1>3. 0 \in T
  <2>1. h[0] = Empty
    BY <1>2
  <2>2. Empty \in [Traits -> Tally] /\ \A t \in Traits : Empty[t] = NoTally
    BY DEF Empty, NoTally, Tally
  <2>3. \A g : SumFunctionOnSet(g, 1 .. 0) = 0
    <3>1. 1 .. 0 = {}
      OBVIOUS
    <3> QED
      BY <3>1, SumOfNone
  <2>4. \A t \in Traits : Totals(NoTally, ed, rs, t, 0)
    BY <2>3 DEF Totals, NoTally
  <2>5. OnScale(NoTally)
    BY DEF OnScale, NoTally
  <2> QED
    BY <2>1, <2>2, <2>4, <2>5
<1>4. ASSUME NEW n \in Nat, n \in T PROVE n + 1 \in T
  <2> SUFFICES ASSUME n + 1 <= Len(rs) PROVE Good(n + 1)
    OBVIOUS
  <2>1. Good(n) /\ n + 1 \in 0 .. Len(rs) /\ n + 1 \in 1 .. Len(rs) /\ (n + 1) - 1 = n /\ n + 1 # 0
    BY <1>4
  <2>2. h[n + 1] = ReplayedBy(ed, h[n], rs[n + 1]) /\ RowOK(rs[n + 1])
    BY <1>2, <2>1
  <2>3. PICK x, y, row : x = h[n] /\ y = h[n + 1] /\ row = rs[n + 1]
    OBVIOUS
  <2>4. y \in [Traits -> Tally] /\ \A t \in Traits : Adds(x[t], y[t], Moved(ed, row, t), Span(ed, row, t))
    BY <2>1, <2>2, <2>3, ReplayedIs
  <2>5. \A t \in Traits : Totals(y[t], ed, rs, t, n + 1)
    BY <2>1, <2>3, <2>4, TotalsStep
  <2>6. \A t \in Traits : OnScale(y[t])
    <3>1. \A t \in Traits : /\ x[t] \in Tally /\ OnScale(x[t])
                            /\ Adds(x[t], y[t], Moved(ed, row, t), Span(ed, row, t))
      BY <2>1, <2>3, <2>4
    <3>2. \A t : Within(Moved(ed, row, t), Span(ed, row, t))
      BY <2>2, <2>3, MovedIsWithin
    <3> QED
      BY <3>1, <3>2, ScaleStep
  <2> QED
    BY <2>3, <2>4, <2>5, <2>6
<1>5. Nat \subseteq T
  <2> HIDE DEF T
  <2> QED
    BY <1>3, <1>4, EveryNumber
<1>6. Good(Len(rs))
  BY <1>5
<1> QED
  BY <1>1, <1>6

-----------------------------------------------------------------------------
(* Scores: the attempt                                                     *)

AllRows == [question : Items, answer : {Unanswered} \cup UNION {AnswersAs(v[3], Version(v)) : v \in Versions}]

\* The rows and the tallies of an attempt belong to questions of the bank; and as long as
\* none of its questions was edited, every answer fits and the tallies are their replay.
ScoringIInv ==
    /\ edition \in Banks
    /\ rows \in Seq(AllRows)
    /\ \A i \in 1 .. Len(rows) : RowOK(rows[i])
    /\ tallies \in [Traits -> Tally]
    /\ \A t \in Traits : OnScale(tallies[t])
    /\ stale = {} =>
          /\ \A i \in 1 .. Len(rows) : rows[i].answer = Unanswered \/ Counts(edition, rows[i])
          /\ tallies = ReplayBy(edition, rows)

LEMMA ScoringStarts == ScoringInit => ScoringIInv
<1> SUFFICES ASSUME ScoringInit PROVE ScoringIInv
  OBVIOUS
<1>1. edition = [q \in Items |-> 1] /\ rows = <<>> /\ tallies = Empty
  BY DEF ScoringInit, Empty
<1>2. edition \in Banks
  <2>1. ASSUME NEW q \in Items PROVE 1 \in DOMAIN Editions[q]
    <3>1. Editions[q] \in Seq({Editions[q][i] : i \in DOMAIN Editions[q]}) /\ Editions[q] # <<>>
      BY ScoringAssumption
    <3> QED
      BY <3>1
  <2> QED
    BY <1>1, <2>1 DEF Banks
<1>3. rows \in Seq(AllRows) /\ Len(rows) = 0 /\ \A i \in 1 .. Len(rows) : FALSE
  BY <1>1
<1>4. Empty \in [Traits -> Tally] /\ \A t \in Traits : OnScale(Empty[t])
  BY DEF Empty, NoTally, Tally, OnScale
<1>5. ReplayBy(edition, rows) = Empty
  <2>1. PICK h : ReplaysTo(h, edition, rows, Len(rows)) /\ ReplayBy(edition, rows) = h[Len(rows)]
    BY <1>3, ReplayIsOne
  <2> QED
    BY <1>3, <2>1 DEF ReplaysTo
<1> QED
  BY <1>1, <1>2, <1>3, <1>4, <1>5 DEF ScoringIInv

\* Scoring an answer is replaying its row.
LEMMA ScoringIsReplaying ==
    ASSUME NEW ed \in Banks, NEW q \in Items, NEW ts,
           NEW a \in AnswersAs(Kind(DetailsIn(ed, q)), DetailsIn(ed, q)) \cup {Unanswered},
           NEW row, row = [question |-> q, answer |-> a]
    PROVE  /\ ScoredBy(ed, ts, q, a) = ReplayedBy(ed, ts, row)
           /\ RowOK(row) /\ row \in AllRows
           /\ row.answer = Unanswered \/ Counts(ed, row)
<1>1. PICK e, form : e = DetailsIn(ed, q) /\ form = Kind(e)
  OBVIOUS
<1>2. ed[q] \in DOMAIN Editions[q] /\ e = Editions[q][ed[q]] /\ form \in Forms /\ EditionOK(e)
  BY <1>1, ScoringAssumption DEF Banks, DetailsIn, Kind, Forms
<1>3. CASE a = Unanswered
  <2>1. ~Counts(ed, row) /\ a.kind = "unanswered"
    BY <1>3 DEF Counts, Fits, Unanswered
  <2>2. ScoredBy(ed, ts, q, a) = ReplayedBy(ed, ts, row)
    BY <2>1 DEF ScoredBy, ReplayedBy
  <2>3. RowOK(row) /\ row \in AllRows /\ row.answer = Unanswered
    BY <1>3 DEF RowOK, AllRows
  <2> QED
    BY <2>2, <2>3
<1>4. CASE a \in AnswersAs(form, e)
  <2>1. Fits(e, a)
    <3>1. CASE form = "choice"
      <4>1. PICK o \in DOMAIN e.options : a = Chosen(o)
        BY <1>4, <3>1, AnswersAre
      <4> QED
        BY <4>1 DEF Fits, Chosen
    <3>2. CASE form = "ranking"
      <4>1. PICK p \in Orders(e) : a = Ranked(p)
        BY <1>4, <3>2, AnswersAre
      <4>2. DOMAIN p = DOMAIN e.options
        BY DEF Orders, Bijection, Injection
      <4> QED
        BY <4>1, <4>2 DEF Fits, Ranked
    <3> QED
      BY <1>2, <3>1, <3>2 DEF Forms
  <2>2. Counts(ed, row)
    BY <1>1, <2>1 DEF Counts
  <2>3. ScoredBy(ed, ts, q, a) = ReplayedBy(ed, ts, row)
    BY <2>2 DEF ReplayedBy
  <2>4. RowOK(row)
    BY <1>2, <1>4 DEF RowOK
  <2>5. row \in AllRows
    <3>1. PICK v : v = <<q, ed[q], form>>
      OBVIOUS
    <3>2. v \in Versions /\ Version(v) = e /\ v[3] = form
      BY <1>2, <3>1, VersionsAre DEF Forms
    <3> QED
      BY <1>4, <3>2 DEF AllRows
  <2> QED
    BY <2>2, <2>3, <2>4, <2>5
<1> QED
  BY <1>1, <1>3, <1>4

\* An answer, a rebuild and an edit keep the invariant.
LEMMA RecordKeeps ==
    ASSUME ScoringIInv, NEW q \in Items, NEW a \in AnswersAs(Kind(Details(q)), Details(q)) \cup {Unanswered},
           RecordTraitAnswer(q, a)
    PROVE  ScoringIInv'
<1>1. PICK row : row = [question |-> q, answer |-> a]
  OBVIOUS
<1>2. edition \in Banks /\ Details(q) = DetailsIn(edition, q) /\ rows \in Seq(AllRows)
  BY DEF ScoringIInv, Details, DetailsIn
<1>3. /\ ScoredBy(edition, tallies, q, a) = ReplayedBy(edition, tallies, row)
      /\ RowOK(row) /\ row \in AllRows /\ (row.answer = Unanswered \/ Counts(edition, row))
  BY <1>1, <1>2, ScoringIsReplaying
<1>4. tallies' = ReplayedBy(edition, tallies, row)
  <2>1. tallies' = ScoredBy(edition, tallies, q, a)
    BY DEF RecordTraitAnswer, Scored, ScoredBy, Details, DetailsIn, RangesFor
  <2> QED
    BY <1>3, <2>1
<1>5. edition' = edition /\ stale' = stale /\ rows' = Append(rows, row)
  BY <1>1 DEF RecordTraitAnswer
<1>6. PICK n : n = Len(rows)
  OBVIOUS
<1>7. /\ n \in Nat /\ rows' \in Seq(AllRows) /\ Len(rows') = n + 1 /\ rows'[n + 1] = row
      /\ \A i \in 1 .. n : rows'[i] = rows[i]
  BY <1>2, <1>3, <1>5, <1>6
<1>8. \A i \in 1 .. n + 1 : i = n + 1 \/ i \in 1 .. n
  BY <1>7
<1>9. \A i \in 1 .. Len(rows') : RowOK(rows'[i])
  <2>1. \A i \in 1 .. n : RowOK(rows[i])
    BY <1>6 DEF ScoringIInv
  <2> QED
    BY <1>3, <1>7, <1>8, <2>1
<1>10. tallies' \in [Traits -> Tally] /\ \A t \in Traits : OnScale(tallies'[t])
  <2>1. tallies \in [Traits -> Tally] /\ \A t \in Traits : OnScale(tallies[t])
    BY DEF ScoringIInv
  <2>2. /\ tallies' \in [Traits -> Tally]
        /\ \A t \in Traits : Adds(tallies[t], tallies'[t], Moved(edition, row, t), Span(edition, row, t))
    BY <1>2, <1>3, <1>4, <2>1, ReplayedIs
  <2>3. \A t : Within(Moved(edition, row, t), Span(edition, row, t))
    BY <1>2, <1>3, MovedIsWithin
  <2>4. \A t \in Traits : tallies[t] \in Tally
    BY <2>1
  <2> QED
    BY <2>1, <2>2, <2>3, <2>4, ScaleStep
<1>11. ASSUME stale = {}
       PROVE  /\ \A i \in 1 .. Len(rows') : rows'[i].answer = Unanswered \/ Counts(edition, rows'[i])
              /\ tallies' = ReplayBy(edition, rows')
  <2>1. /\ \A i \in 1 .. n : rows[i].answer = Unanswered \/ Counts(edition, rows[i])
        /\ tallies = ReplayBy(edition, rows)
    BY <1>6, <1>11 DEF ScoringIInv
  <2>2. \A i \in 1 .. Len(rows') : rows'[i].answer = Unanswered \/ Counts(edition, rows'[i])
    BY <1>3, <1>7, <1>8, <2>1
  <2>3. ReplayBy(edition, Append(rows, row)) = ReplayedBy(edition, ReplayBy(edition, rows), row)
    BY <1>2, <1>3, ReplayGrows
  <2> QED
    BY <1>4, <1>5, <2>1, <2>2, <2>3
<1> QED
  BY <1>2, <1>5, <1>7, <1>9, <1>10, <1>11 DEF ScoringIInv

LEMMA RebuildKeeps ==
    ASSUME ScoringIInv, Rebuild
    PROVE  ScoringIInv'
<1>1. /\ edition \in Banks /\ rows \in Seq(AllRows) /\ Len(rows) \in Nat
      /\ \A i \in 1 .. Len(rows) : RowOK(rows[i])
  BY DEF ScoringIInv
<1>2. tallies' = ReplayBy(edition, rows) /\ edition' = edition /\ rows' = rows /\ stale' = stale
  BY ReplayIs DEF Rebuild
<1>3. tallies' \in [Traits -> Tally] /\ \A t \in Traits : OnScale(tallies'[t])
  BY <1>1, <1>2, ReplayTotals
<1> QED
  BY <1>1, <1>2, <1>3 DEF ScoringIInv

LEMMA EditKeeps ==
    ASSUME ScoringIInv, NEW q \in Items, EditQuestion(q)
    PROVE  ScoringIInv'
<1>1. PICK ed, fd : ed = edition /\ fd = edition'
  OBVIOUS
<1>2. ed \in Banks /\ ed[q] < Len(Editions[q]) /\ fd = [ed EXCEPT ![q] = @ + 1]
  BY <1>1 DEF ScoringIInv, EditQuestion
<1>3. rows' = rows /\ tallies' = tallies /\ stale' = stale \cup ({q} \cap Asked)
  BY DEF EditQuestion
<1>4. fd \in Banks
  <2>1. ed \in [Items -> Nat] /\ \A r \in Items : ed[r] \in DOMAIN Editions[r]
    BY <1>2 DEF Banks
  <2>2. ed[q] + 1 \in DOMAIN Editions[q]
    <3>1. Editions[q] \in Seq({Editions[q][i] : i \in DOMAIN Editions[q]})
      BY ScoringAssumption
    <3>2. DOMAIN Editions[q] = 1 .. Len(Editions[q]) /\ Len(Editions[q]) \in Nat
      BY <3>1
    <3> QED
      BY <1>2, <2>1, <3>2
  <2>3. fd \in [Items -> Nat]
    BY <1>2, <2>1
  <2>4. \A r \in Items : fd[r] \in DOMAIN Editions[r]
    BY <1>2, <2>1, <2>2
  <2> QED
    BY <2>3, <2>4 DEF Banks
<1>5. ASSUME stale' = {}
      PROVE  /\ stale = {} /\ ReplayBy(fd, rows) = ReplayBy(ed, rows)
             /\ \A i \in 1 .. Len(rows) : Counts(fd, rows[i]) = Counts(ed, rows[i])
  <2>1. stale = {} /\ q \notin Asked
    BY <1>3, <1>5
  <2>2. rows \in Seq(AllRows) /\ Len(rows) \in Nat /\ \A i \in 1 .. Len(rows) : RowOK(rows[i])
    BY DEF ScoringIInv
  <2>3. \A i \in 1 .. Len(rows) : rows[i].question # q /\ rows[i].question \in Items
    BY <2>1, <2>2 DEF Asked, RowOK
  <2>4. \A i \in 1 .. Len(rows) : fd[rows[i].question] = ed[rows[i].question]
    <3>1. \A r \in Items : r # q => fd[r] = ed[r]
      BY <1>2 DEF Banks
    <3> QED
      BY <2>3, <3>1
  <2>5. ReplayBy(fd, rows) = ReplayBy(ed, rows)
    BY <2>2, <2>4, ReplayStays
  <2>6. \A i \in 1 .. Len(rows) : Counts(fd, rows[i]) = Counts(ed, rows[i])
    BY <2>4 DEF Counts, DetailsIn
  <2> QED
    BY <2>1, <2>5, <2>6
<1> QED
  BY <1>1, <1>3, <1>4, <1>5 DEF ScoringIInv

\* For any traits, questions, versions and number of answers: sums stay on their
\* scale, and the tallies are the replay of the rows as long as no answered question
\* was edited (recordTraitAnswer, replayTraitAnswer, QuestionBankService.update).
THEOREM ScoringInvariant == ScoringSpec => []ScoringIInv
<1>1. ScoringIInv /\ [ScoringNext]_scoring => ScoringIInv'
  <2> SUFFICES ASSUME ScoringIInv, [ScoringNext]_scoring PROVE ScoringIInv'
    OBVIOUS
  <2>1. CASE UNCHANGED scoring
    BY <2>1 DEF ScoringIInv, scoring
  <2>2. ASSUME NEW q \in Items, NEW a \in AnswersAs(Kind(Details(q)), Details(q)) \cup {Unanswered},
               RecordTraitAnswer(q, a)
        PROVE  ScoringIInv'
    BY <2>2, RecordKeeps
  <2>3. CASE Rebuild
    BY <2>3, RebuildKeeps
  <2>4. ASSUME NEW q \in Items, EditQuestion(q) PROVE ScoringIInv'
    BY <2>4, EditKeeps
  <2> QED
    BY <2>1, <2>2, <2>3, <2>4 DEF ScoringNext
<1> QED
  BY <1>1, ScoringStarts, PTL DEF ScoringSpec

-----------------------------------------------------------------------------
(* Scores: on the reporting scale                                          *)

LEMMA SumIsMonotone ==
    ASSUME NEW S, IsFiniteSet(S), NEW g, NEW h,
           \A x \in S : g[x] \in Int /\ h[x] \in Int /\ g[x] <= h[x]
    PROVE  SumFunctionOnSet(g, S) <= SumFunctionOnSet(h, S)
<1>1. PICK i : i = [x \in S |-> x]
  OBVIOUS
<1>2. i \in [S -> S] /\ (\A x, y \in S : i[x] = i[y] => x = y) /\ \A y \in S : \E x \in S : i[x] = y
  BY <1>1
<1>3. (\A x \in S : g[x] \in Int) /\ (\A x \in S : h[x] \in Int) /\ \A x \in S : g[x] <= h[i[x]]
  BY <1>1
<1> QED
  BY <1>2, <1>3, SumGrows

LEMMA LargerOfTwo ==
    ASSUME NEW a \in Int, NEW b \in Int
    PROVE  Max({a, b}) \in {a, b} /\ a <= Max({a, b}) /\ b <= Max({a, b})
<1>1. PICK S : S = {a, b}
  OBVIOUS
<1>2. IsFiniteSet(S)
  <2>1. IsFiniteSet({a} \cup {b})
    <3>1. IsFiniteSet({a}) /\ IsFiniteSet({b})
      BY FS_Singleton
    <3> QED
      BY <3>1, FS_Union
  <2>2. S = {a} \cup {b}
    BY <1>1
  <2> QED
    BY <2>1, <2>2
<1>3. Max(S) \in S /\ \A y \in S : y <= Max(S)
  BY <1>1, <1>2, MaxIs
<1> QED
  BY <1>1, <1>3

\* How far a score is from fifty, before and after rounding.
Shift(x) == TraitScore(x) - 500
Spread(x) == Max({x.best - x.chance, x.chance - x.worst})

\* A score is the linear transform of its sum, to within half a tenth: on the scale
\* nothing is clamped.
LEMMA ShiftIs ==
    ASSUME NEW x, x.sum \in Int, x.chance \in Int, x.best \in Int, x.worst \in Int,
           x.worst <= x.sum, x.sum <= x.best
    PROVE  /\ Shift(x) \in Int /\ Spread(x) \in Int
           /\ Spread(x) <= 0 => Shift(x) = 0
           /\ 0 < Spread(x) =>
                /\ 2 * (Spread(x) * Shift(x)) <= 1000 * (x.sum - x.chance) + Spread(x)
                /\ 1000 * (x.sum - x.chance) - Spread(x) <= 2 * (Spread(x) * Shift(x))
<1>1. PICK d : d = Spread(x)
  OBVIOUS
<1>2. d \in Int /\ x.best - x.chance <= d /\ x.chance - x.worst <= d
  <2>1. x.best - x.chance \in Int /\ x.chance - x.worst \in Int
    OBVIOUS
  <2>2. /\ Spread(x) \in {x.best - x.chance, x.chance - x.worst}
        /\ x.best - x.chance <= Spread(x) /\ x.chance - x.worst <= Spread(x)
    BY <2>1, LargerOfTwo DEF Spread
  <2> QED
    BY <1>1, <2>1, <2>2
<1>3. TraitScore(x) = IF d <= 0 THEN 500 ELSE Clamp(RoundDiv(500 * (d + x.sum - x.chance), d), 0, 1000)
  BY <1>1 DEF TraitScore, Spread
<1>4. CASE d <= 0
  <2>1. Shift(x) = 0
    BY <1>3, <1>4 DEF Shift
  <2> QED
    BY <1>1, <1>2, <1>4, <2>1
<1>5. CASE ~(d <= 0)
  <2>1. PICK off : off = x.sum - x.chance
    OBVIOUS
  <2>2. PICK n : n = 500 * (d + x.sum - x.chance)
    OBVIOUS
  <2>3. PICK r : r = RoundDiv(n, d)
    OBVIOUS
  <2>4. off \in Int /\ - d <= off /\ off <= d /\ d \in Nat \ {0} /\ n = 500 * d + 500 * off /\ n \in Int
    BY <1>2, <1>5, <2>1, <2>2
  <2>5. r \in Int /\ 2 * (d * r) <= 2 * n + d /\ 2 * n - d <= 2 * (d * r)
    BY <2>3, <2>4, RoundingIsClose
  <2>6. PICK m \in Int : m = d * r
    BY <2>4, <2>5
  <2>7. 0 <= r
    <3> SUFFICES ASSUME r <= 0 - 1 PROVE FALSE
      BY <2>5
    <3>1. d * r <= d * (0 - 1)
      BY <2>4, <2>5
    <3>2. d * (0 - 1) = 0 - d
      BY <2>4
    <3> QED
      BY <2>4, <2>5, <2>6, <3>1, <3>2
  <2>8. r <= 1000
    <3> SUFFICES ASSUME 1001 <= r PROVE FALSE
      BY <2>5
    <3>1. d * 1001 <= d * r
      BY <2>4, <2>5
    <3> QED
      BY <2>4, <2>5, <2>6, <3>1
  <2>9. Shift(x) = r - 500
    BY <1>3, <1>5, <2>2, <2>3, <2>5, <2>7, <2>8 DEF Shift, Clamp
  <2>10. d * (r - 500) = m - 500 * d
    BY <2>4, <2>5, <2>6
  <2>11. /\ 2 * (d * (r - 500)) <= 1000 * off + d
         /\ 1000 * off - d <= 2 * (d * (r - 500))
    BY <2>4, <2>5, <2>6, <2>10
  <2> QED
    BY <1>1, <1>2, <1>5, <2>1, <2>5, <2>9, <2>11
<1> QED
  BY <1>4, <1>5

\* Weighed shifts that are each within half a point cancel to within half a point.
LEMMA ShiftsCancel ==
    ASSUME NEW S, IsFiniteSet(S), NEW d \in Int, 0 < d, NEW k \in Int, NEW y, NEW x, NEW w,
           \A f \in S : /\ y[f] \in Int /\ x[f] \in Int /\ w[f] \in Int
                        /\ 2 * (d * y[f]) <= k * x[f] + d * w[f]
                        /\ k * x[f] - d * w[f] <= 2 * (d * y[f]),
           SumFunctionOnSet(x, S) = 0
    PROVE  /\ 2 * SumFunctionOnSet(y, S) <= SumFunctionOnSet(w, S)
           /\ - SumFunctionOnSet(w, S) <= 2 * SumFunctionOnSet(y, S)
<1>1. PICK a \in Int, b \in Int, e \in Int, z \in Int :
        a = 2 * d /\ b = d /\ e = 0 - d /\ z = 0
  OBVIOUS
<1>2. PICK u, over, under : /\ u = [f \in S |-> 2 * (d * y[f])]
                            /\ over = [f \in S |-> k * x[f] + d * w[f]]
                            /\ under = [f \in S |-> k * x[f] - d * w[f]]
  OBVIOUS
<1>3. \A m, n \in Int : d * m \in Int /\ k * m + d * n \in Int /\ k * m - d * n \in Int
  OBVIOUS
<1>4. \A f \in S : /\ u[f] = 2 * (d * y[f]) /\ over[f] = k * x[f] + d * w[f]
                   /\ under[f] = k * x[f] - d * w[f]
                   /\ u[f] \in Int /\ over[f] \in Int /\ under[f] \in Int
  BY <1>2, <1>3
<1>5. SumFunctionOnSet(u, S) <= SumFunctionOnSet(over, S)
  <2>1. \A f \in S : u[f] \in Int /\ over[f] \in Int /\ u[f] <= over[f]
    BY <1>4
  <2> QED
    BY <2>1, SumIsMonotone
<1>6. SumFunctionOnSet(under, S) <= SumFunctionOnSet(u, S)
  <2>1. \A f \in S : under[f] \in Int /\ u[f] \in Int /\ under[f] <= u[f]
    BY <1>4
  <2> QED
    BY <2>1, SumIsMonotone
<1>7. SumFunctionOnSet(u, S) = a * SumFunctionOnSet(y, S) + z * SumFunctionOnSet(y, S)
  <2>1. \A m \in Int : 2 * (d * m) = (2 * d) * m + 0 * m
    OBVIOUS
  <2>2. Combines(u, S, a, y, z, y)
    BY <1>1, <1>4, <2>1 DEF Combines
  <2> QED
    BY <1>1, <2>2, SumCombines
<1>8. SumFunctionOnSet(over, S) = k * SumFunctionOnSet(x, S) + b * SumFunctionOnSet(w, S)
  <2>1. Combines(over, S, k, x, b, w)
    BY <1>1, <1>4 DEF Combines
  <2> QED
    BY <2>1, SumCombines
<1>9. SumFunctionOnSet(under, S) = k * SumFunctionOnSet(x, S) + e * SumFunctionOnSet(w, S)
  <2>1. ASSUME NEW f \in S PROVE under[f] = k * x[f] + e * w[f]
    <3>1. PICK m \in Int, n \in Int : m = x[f] /\ n = w[f]
      OBVIOUS
    <3>2. k * m - d * n = k * m + (0 - d) * n
      OBVIOUS
    <3> QED
      BY <1>1, <1>4, <3>1, <3>2
  <2>2. Combines(under, S, k, x, e, w)
    BY <2>1 DEF Combines
  <2> QED
    BY <2>2, SumCombines
<1>10. PICK total, ways : total = SumFunctionOnSet(y, S) /\ ways = SumFunctionOnSet(w, S)
  OBVIOUS
<1>11. total \in Int /\ ways \in Int
  <2>1. (\A f \in S : y[f] \in Int) /\ \A f \in S : w[f] \in Int
    OBVIOUS
  <2> QED
    BY <1>10, <2>1, SumIsInt
<1>12. d * (2 * total) <= d * ways
  <2>1. (2 * d) * total + 0 * total <= k * 0 + d * ways
    BY <1>1, <1>5, <1>7, <1>8, <1>10
  <2>2. (2 * d) * total + 0 * total = d * (2 * total) /\ d * ways \in Int
    BY <1>11
  <2> QED
    BY <2>1, <2>2
<1>13. d * (0 - ways) <= d * (2 * total)
  <2>1. k * 0 + (0 - d) * ways <= (2 * d) * total + 0 * total
    BY <1>1, <1>6, <1>7, <1>9, <1>10
  <2>2. (2 * d) * total + 0 * total = d * (2 * total) /\ (0 - d) * ways = d * (0 - ways)
    BY <1>11
  <2>3. d * (0 - ways) \in Int
    BY <1>11
  <2> QED
    BY <2>1, <2>2, <2>3
<1>14. \A m, n \in Int : d * m <= d * n => m <= n
  <2>1. ASSUME NEW m \in Int, NEW n \in Int, d * m <= d * n, n + 1 <= m PROVE FALSE
    <3>1. d * (n + 1) <= d * m
      BY <2>1
    <3>2. d * (n + 1) = d * n + d
      OBVIOUS
    <3>3. d * n \in Int /\ d * m \in Int
      OBVIOUS
    <3> QED
      BY <2>1, <3>1, <3>2, <3>3
  <2> QED
    BY <2>1
<1>15. 2 * total \in Int /\ 0 - ways \in Int
  BY <1>11
<1>16. 2 * total <= ways
  BY <1>11, <1>12, <1>14, <1>15
<1>17. 0 - ways <= 2 * total
  BY <1>13, <1>14, <1>15
<1> QED
  BY <1>10, <1>11, <1>16, <1>17

-----------------------------------------------------------------------------
(* Scores: all the sheets of an attempt                                    *)

ValuesOf(X) == [x \in X |-> x.value]

\* What is on offer on each of the questions A: the outcomes X, the scale s, the odds O.
Offers(A, X, s, O) ==
    /\ IsFiniteSet(A)
    /\ \A i \in A : RangeHolds(X[i], s[i]) /\ O[i] = OddsOf(X[i], ValuesOf(X[i]))
Chances(A, s) == [i \in A |-> s[i].chance]
Bests(A, s) == [i \in A |-> s[i].best]
Worsts(A, s) == [i \in A |-> s[i].worst]
Scale(A, s, x) ==
    /\ x.chance = SumFunctionOnSet(Chances(A, s), A)
    /\ x.best = SumFunctionOnSet(Bests(A, s), A)
    /\ x.worst = SumFunctionOnSet(Worsts(A, s), A)

\* What is on offer has odds that cancel, within the range of its question.
LEMMA OffersFit ==
    ASSUME NEW A, NEW X, NEW s, NEW O, Offers(A, X, s, O)
    PROVE  /\ OddsFit(A, O, Chances(A, s))
           /\ \A i \in A : SumFunctionOnSet(Bias(O, Chances(A, s), i), O[i]) = 0
           /\ \A i \in A : \A p \in O[i] : p[1] \in Int /\ s[i].worst <= p[1] /\ p[1] <= s[i].best
           /\ \A i \in A : s[i].chance \in Int /\ s[i].best \in Int /\ s[i].worst \in Int
<1>1. ASSUME NEW i \in A
      PROVE  /\ IsFiniteSet(O[i]) /\ Chances(A, s)[i] \in Int
             /\ \A p \in O[i] : p[1] \in Int /\ p[2] \in Nat
             /\ SumFunctionOnSet(Bias(O, Chances(A, s), i), O[i]) = 0
             /\ \A p \in O[i] : s[i].worst <= p[1] /\ p[1] <= s[i].best
             /\ s[i].chance \in Int /\ s[i].best \in Int /\ s[i].worst \in Int
  <2>1. PICK Y, r, v, c, b : /\ Y = X[i] /\ r = s[i] /\ v = ValuesOf(Y) /\ c = Chances(A, s)[i]
                             /\ b = Bias(O, Chances(A, s), i)
    OBVIOUS
  <2>2. RangeHolds(Y, r) /\ O[i] = OddsOf(Y, v) /\ c = r.chance
    BY <2>1 DEF Offers, Chances
  <2>3. IsFiniteSet(Y) /\ c \in Int /\ SumFunctionOnSet(v, Y) = Cardinality(Y) * c
    BY <2>1, <2>2 DEF RangeHolds, ValuesOf
  <2>4. \A x \in Y : v[x] = x.value /\ v[x] \in Int
    BY <2>1, <2>2 DEF RangeHolds, ValuesOf
  <2>5. IsFiniteSet(OddsOf(Y, v)) /\ \A p \in OddsOf(Y, v) : p[1] \in Int /\ p[2] \in Nat
    BY <2>3, <2>4, OddsTyped
  <2>6. \A p \in OddsOf(Y, v) : b[p] = p[2] * (p[1] - c)
    BY <2>1, <2>2 DEF Bias
  <2>7. SumFunctionOnSet(b, OddsOf(Y, v)) = 0
    BY <2>3, <2>4, <2>6, OddsCancel
  <2>8. \A p \in OddsOf(Y, v) : r.worst <= p[1] /\ p[1] <= r.best
    <3>1. \A p \in OddsOf(Y, v) : \E x \in Y : p[1] = v[x]
      BY DEF OddsOf
    <3>2. \A x \in Y : r.worst <= v[x] /\ v[x] <= r.best
      BY <2>2, <2>4 DEF RangeHolds
    <3> QED
      BY <3>1, <3>2
  <2>9. r.chance \in Int /\ r.best \in Int /\ r.worst \in Int
    BY <2>2 DEF RangeHolds
  <2> QED
    BY <2>1, <2>2, <2>3, <2>5, <2>7, <2>8, <2>9
<1>2. OddsFit(A, O, Chances(A, s))
  BY <1>1 DEF OddsFit, Offers
<1> QED
  BY <1>1, <1>2

\* No sheet of answers leaves the scale of the tally.
LEMMA SheetsStayOnScale ==
    ASSUME NEW A, NEW X, NEW s, NEW O, Offers(A, X, s, O), NEW x, Scale(A, s, x)
    PROVE  /\ x.chance \in Int /\ x.best \in Int /\ x.worst \in Int
           /\ \A f \in SheetsOf(A, O) : Value(f, A) \in Int /\ x.worst <= Value(f, A) /\ Value(f, A) <= x.best
<1>1. PICK c, b, w : c = Chances(A, s) /\ b = Bests(A, s) /\ w = Worsts(A, s)
  OBVIOUS
<1>2. IsFiniteSet(A) /\ \A i \in A : c[i] \in Int /\ b[i] \in Int /\ w[i] \in Int
  <2>1. \A i \in A : s[i].chance \in Int /\ s[i].best \in Int /\ s[i].worst \in Int
    BY OffersFit
  <2>2. IsFiniteSet(A)
    BY DEF Offers
  <2> QED
    BY <1>1, <2>1, <2>2 DEF Chances, Bests, Worsts
<1>3. x.chance \in Int /\ x.best \in Int /\ x.worst \in Int
  <2>1. (\A i \in A : c[i] \in Int) /\ (\A i \in A : b[i] \in Int) /\ \A i \in A : w[i] \in Int
    BY <1>2
  <2>2. SumFunctionOnSet(c, A) \in Int /\ SumFunctionOnSet(b, A) \in Int /\ SumFunctionOnSet(w, A) \in Int
    BY <1>2, <2>1, SumIsInt
  <2> QED
    BY <1>1, <2>2 DEF Scale
<1>4. ASSUME NEW f \in SheetsOf(A, O)
      PROVE  Value(f, A) \in Int /\ x.worst <= Value(f, A) /\ Value(f, A) <= x.best
  <2>1. PICK g : g = [i \in A |-> f[i][1]]
    OBVIOUS
  <2>2. \A i \in A : f[i] \in O[i]
    BY DEF SheetsOf
  <2>3. \A i \in A : g[i] \in Int /\ w[i] <= g[i] /\ g[i] <= b[i]
    <3>1. \A i \in A : \A p \in O[i] : p[1] \in Int /\ s[i].worst <= p[1] /\ p[1] <= s[i].best
      BY OffersFit
    <3>2. \A i \in A : g[i] = f[i][1] /\ w[i] = s[i].worst /\ b[i] = s[i].best
      BY <1>1, <2>1 DEF Worsts, Bests
    <3> QED
      BY <2>2, <3>1, <3>2
  <2>4. SumFunctionOnSet(w, A) <= SumFunctionOnSet(g, A)
    <3>1. \A i \in A : w[i] \in Int /\ g[i] \in Int /\ w[i] <= g[i]
      BY <1>2, <2>3
    <3> QED
      BY <1>2, <3>1, SumIsMonotone
  <2>5. SumFunctionOnSet(g, A) <= SumFunctionOnSet(b, A)
    <3>1. \A i \in A : g[i] \in Int /\ b[i] \in Int /\ g[i] <= b[i]
      BY <1>2, <2>3
    <3> QED
      BY <1>2, <3>1, SumIsMonotone
  <2>6. SumFunctionOnSet(g, A) \in Int
    <3>1. \A i \in A : g[i] \in Int
      BY <2>3
    <3> QED
      BY <1>2, <3>1, SumIsInt
  <2> QED
    BY <1>1, <2>1, <2>4, <2>5, <2>6 DEF Value, Scale
<1> QED
  BY <1>3, <1>4

\* The scores of all sheets together, each as often as there are ways to get it.
Marked(x, n) == [x EXCEPT !.sum = n]
Shifts(A, O, x) == [f \in SheetsOf(A, O) |-> Product(f, A) * Shift(Marked(x, Value(f, A)))]

\* All the sheets together are fifty each, up to their rounding.
LEMMA SheetsEarnFifty ==
    ASSUME NEW A, NEW X, NEW s, NEW O, Offers(A, X, s, O), NEW x \in Tally, Scale(A, s, x)
    PROVE  LET total == SumFunctionOnSet(Shifts(A, O, x), SheetsOf(A, O))
               ways == SumFunctionOnSet(Weighed(A, O), SheetsOf(A, O))
           IN  total \in Int /\ ways \in Int /\ 2 * total <= ways /\ - ways <= 2 * total
<1>1. PICK S, y, e, w, c, d : /\ S = SheetsOf(A, O) /\ y = Shifts(A, O, x) /\ c = Chances(A, s)
                              /\ e = Excess(A, O, c) /\ w = Weighed(A, O) /\ d = Spread(x)
  OBVIOUS
<1>2. OddsFit(A, O, c) /\ IsFiniteSet(S) /\ SumFunctionOnSet(e, S) = 0
  <2>1. OddsFit(A, O, c) /\ \A i \in A : SumFunctionOnSet(Bias(O, c, i), O[i]) = 0
    BY <1>1, OffersFit
  <2> QED
    BY <1>1, <2>1, SheetsCancel
<1>3. \A f \in S : e[f] \in Int /\ w[f] \in Nat
  BY <1>1, <1>2, ExcessTyped
<1>4. /\ x.chance \in Int /\ x.best \in Int /\ x.worst \in Int
      /\ \A f \in S : Value(f, A) \in Int /\ x.worst <= Value(f, A) /\ Value(f, A) <= x.best
  BY <1>1, SheetsStayOnScale
<1>5. ASSUME NEW f \in S
      PROVE  /\ Shift(Marked(x, Value(f, A))) \in Int /\ d \in Int
             /\ d <= 0 => Shift(Marked(x, Value(f, A))) = 0
             /\ 0 < d =>
                  /\ 2 * (d * Shift(Marked(x, Value(f, A)))) <= 1000 * (Value(f, A) - x.chance) + d
                  /\ 1000 * (Value(f, A) - x.chance) - d <= 2 * (d * Shift(Marked(x, Value(f, A))))
  <2>1. PICK m, v : v = Value(f, A) /\ m = Marked(x, v)
    OBVIOUS
  <2>2. m.sum = v /\ m.chance = x.chance /\ m.best = x.best /\ m.worst = x.worst
    BY <2>1 DEF Marked, Tally
  <2>3. Spread(m) = d
    BY <1>1, <2>2 DEF Spread
  <2>4. v \in Int /\ x.worst <= v /\ v <= x.best
    BY <1>4, <2>1
  <2>5. m.sum \in Int /\ m.chance \in Int /\ m.best \in Int /\ m.worst \in Int /\ m.worst <= m.sum /\ m.sum <= m.best
    BY <1>4, <2>2, <2>4
  <2>6. /\ Shift(m) \in Int /\ Spread(m) \in Int
        /\ Spread(m) <= 0 => Shift(m) = 0
        /\ 0 < Spread(m) =>
             /\ 2 * (Spread(m) * Shift(m)) <= 1000 * (m.sum - m.chance) + Spread(m)
             /\ 1000 * (m.sum - m.chance) - Spread(m) <= 2 * (Spread(m) * Shift(m))
    BY <2>5, ShiftIs
  <2> QED
    BY <2>1, <2>2, <2>3, <2>6
<1>6. x.chance = SumFunctionOnSet(c, A)
  BY <1>1 DEF Scale
<1>7. \A f \in S : /\ y[f] = w[f] * Shift(Marked(x, Value(f, A)))
                   /\ e[f] = w[f] * (Value(f, A) - x.chance)
  BY <1>1, <1>6 DEF Shifts, Weighed, Excess
<1>8. d \in Int
  <2>1. x.best - x.chance \in Int /\ x.chance - x.worst \in Int
    BY <1>4
  <2>2. d \in {x.best - x.chance, x.chance - x.worst}
    BY <1>1, <2>1, LargerOfTwo DEF Spread
  <2> QED
    BY <2>1, <2>2
<1>9. \A f \in S : y[f] \in Int
  <2>1. \A m, n \in Int : m * n \in Int
    OBVIOUS
  <2> QED
    BY <1>3, <1>5, <1>7, <2>1
<1>9a. SumFunctionOnSet(y, S) \in Int /\ SumFunctionOnSet(w, S) \in Int
  <2>1. \A f \in S : w[f] \in Int
    BY <1>3
  <2>2. SumFunctionOnSet(y, S) \in Int
    BY <1>2, <1>9, SumIsInt
  <2>3. SumFunctionOnSet(w, S) \in Int
    BY <1>2, <2>1, SumIsInt
  <2> QED
    BY <2>2, <2>3
<1>10. CASE d <= 0
  <2>1. \A f \in S : y[f] = 0
    <3>1. \A m \in Int : m * 0 = 0
      OBVIOUS
    <3> QED
      BY <1>3, <1>5, <1>7, <1>10, <3>1
  <2>2. SumFunctionOnSet(y, S) = 0
    <3>1. SumFunctionOnSet(y, S) = Cardinality(S) * 0
      BY <1>2, <2>1, SumConstant
    <3> QED
      BY <1>2, <3>1, FS_CardinalityType
  <2>3. SumFunctionOnSet(w, S) \in Nat
    BY <1>2, <1>3, SumIsNat
  <2> QED
    BY <1>1, <1>9a, <2>2, <2>3
<1>11. CASE 0 < d
  <2>1. PICK k : k = 1000
    OBVIOUS
  <2>2. ASSUME NEW f \in S
        PROVE  /\ 2 * (d * y[f]) <= k * e[f] + d * w[f]
               /\ k * e[f] - d * w[f] <= 2 * (d * y[f])
    <3>1. PICK h, o, p : h = Shift(Marked(x, Value(f, A))) /\ o = Value(f, A) - x.chance /\ p = w[f]
      OBVIOUS
    <3>2. h \in Int /\ o \in Int /\ p \in Nat
      BY <1>3, <1>4, <1>5, <3>1
    <3>3. 2 * (d * h) <= k * o + d /\ k * o - d <= 2 * (d * h)
      BY <1>5, <1>11, <2>1, <3>1
    <3>4. y[f] = p * h /\ e[f] = p * o /\ w[f] = p
      BY <1>7, <3>1
    <3>5. PICK a, low, high \in Int : a = 2 * (d * h) /\ low = k * o - d /\ high = k * o + d
      <4>1. 2 * (d * h) \in Int /\ k * o - d \in Int /\ k * o + d \in Int
        BY <1>8, <2>1, <3>2
      <4> QED
        BY <4>1
    <3>6. p * a <= p * high /\ p * low <= p * a
      <4>1. a <= high /\ low <= a
        BY <3>3, <3>5
      <4>2. \A i, j \in Int : i <= j => p * i <= p * j
        BY <3>2
      <4> QED
        BY <3>5, <4>1, <4>2
    <3>7. p * a = 2 * (d * (p * h))
      BY <1>8, <3>2, <3>5
    <3>8. p * high = k * (p * o) + d * p
      BY <1>8, <2>1, <3>2, <3>5
    <3>9. p * low = k * (p * o) - d * p
      BY <1>8, <2>1, <3>2, <3>5
    <3> QED
      BY <3>4, <3>6, <3>7, <3>8, <3>9
  <2>3. k \in Int
    BY <2>1
  <2>4. \A f \in S : /\ y[f] \in Int /\ e[f] \in Int /\ w[f] \in Int
                     /\ 2 * (d * y[f]) <= k * e[f] + d * w[f]
                     /\ k * e[f] - d * w[f] <= 2 * (d * y[f])
    BY <1>3, <1>9, <2>2
  <2>5. /\ 2 * SumFunctionOnSet(y, S) <= SumFunctionOnSet(w, S)
        /\ - SumFunctionOnSet(w, S) <= 2 * SumFunctionOnSet(y, S)
    BY <1>2, <1>8, <1>11, <2>3, <2>4, ShiftsCancel
  <2> QED
    BY <1>1, <1>9a, <2>5
<1> QED
  BY <1>8, <1>10, <1>11

-----------------------------------------------------------------------------
(* Scores: the rows of an attempt                                          *)

\* What can be said of trait t in a row, and the scale that goes with it.
LEMMA RowIsOffer ==
    ASSUME NEW ed \in Banks, NEW row, RowOK(row), row.answer = Unanswered \/ Counts(ed, row),
           NEW t
    PROVE  /\ OutcomesFor(PutAs(ed, row), t) = {} => Span(ed, row, t) = NoPart
           /\ OutcomesFor(PutAs(ed, row), t) # {}
                => RangeHolds(OutcomesFor(PutAs(ed, row), t), Span(ed, row, t))
<1>1. PICK v, a, X, s : v = PutAs(ed, row) /\ a = row.answer /\ X = OutcomesFor(v, t) /\ s = Span(ed, row, t)
  OBVIOUS
<1>2. \A x \in X : x \in Outcomes /\ x.version = v /\ x.trait = t
  BY <1>1 DEF OutcomesFor
<1>3. \A x \in Outcomes : x.version \in Versions /\ x.trait \in Mentioned(Version(x.version))
  BY DEF Outcomes, OutcomesOf
<1>4. CASE Counts(ed, row)
  <2>1. v \in Versions /\ a \in AnswersAs(v[3], Version(v))
    BY <1>1, <1>4, CountsMeans
  <2>2. s = Part(v, t)
    BY <1>1, <1>4 DEF Span
  <2>3. CASE t \in Mentioned(Version(v))
    <3>1. PICK r : r = AchievableTraitRange(v, t)
      OBVIOUS
    <3>2. RangeHolds(X, r)
      BY <1>1, <2>1, <2>3, <3>1, RangeIs
    <3>3. s = [chance |-> r.chance, best |-> r.best, worst |-> r.worst]
      BY <2>2, <2>3, <3>1 DEF Part
    <3>4. RangeHolds(X, s)
      BY <3>2, <3>3 DEF RangeHolds
    <3>5. X # {}
      BY <3>2 DEF RangeHolds
    <3> QED
      BY <1>1, <3>4, <3>5
  <2>4. CASE t \notin Mentioned(Version(v))
    <3>1. X = {}
      BY <1>2, <1>3, <2>4
    <3>2. s = NoPart
      BY <2>2, <2>4 DEF Part
    <3> QED
      BY <1>1, <3>1, <3>2
  <2> QED
    BY <2>3, <2>4
<1>5. CASE ~Counts(ed, row)
  <2>1. a.kind = "unanswered"
    BY <1>1, <1>5 DEF Unanswered
  <2>2. v[3] = "unanswered"
    BY <1>1, <2>1 DEF PutAs
  <2>3. v \notin Versions
    BY <2>2, VersionsAre
  <2>4. X = {}
    BY <1>2, <1>3, <2>3
  <2>5. s = NoPart
    BY <1>1, <1>5 DEF Span
  <2> QED
    BY <1>1, <2>4, <2>5
<1> QED
  BY <1>4, <1>5

\* Rows that cannot express the trait do not count on its scale.
LEMMA SumOverSome ==
    ASSUME NEW S, IsFiniteSet(S), NEW A \in SUBSET S, NEW g, NEW h,
           \A i \in S : g[i] \in Int, \A i \in S \ A : g[i] = 0, \A i \in A : h[i] = g[i]
    PROVE  SumFunctionOnSet(g, S) = SumFunctionOnSet(h, A)
<1>1. PICK B : B = S \ A
  OBVIOUS
<1>2. IsFiniteSet(A) /\ IsFiniteSet(B) /\ A \cap B = {} /\ S = A \cup B
  BY <1>1, FS_Subset
<1>3. SumFunctionOnSet(g, A \cup B) = SumFunctionOnSet(g, A) + SumFunctionOnSet(g, B)
  <2>1. \A i \in A \cup B : g[i] \in Int
    BY <1>2
  <2> QED
    BY <1>2, <2>1, SumUnion
<1>4. SumFunctionOnSet(g, B) = 0
  <2>1. \A i \in B : g[i] = 0
    BY <1>1
  <2>2. SumFunctionOnSet(g, B) = Cardinality(B) * 0
    BY <1>2, <2>1, SumConstant
  <2> QED
    BY <1>2, <2>2, FS_CardinalityType
<1>5. PICK same : same = [i \in A |-> i]
  OBVIOUS
<1>6. SumFunctionOnSet(g, A) = SumFunctionOnSet(h, A)
  <2>1. Matches(same, A, A)
    BY <1>5 DEF Matches
  <2>2. \A i \in A : g[i] \in Int /\ g[i] = h[same[i]]
    BY <1>5
  <2> QED
    BY <1>2, <2>1, <2>2, SumSame
<1>7. SumFunctionOnSet(g, A) \in Int
  <2>1. \A i \in A : g[i] \in Int
    OBVIOUS
  <2> QED
    BY <1>2, <2>1, SumIsInt
<1>8. SumFunctionOnSet(g, S) = SumFunctionOnSet(g, A)
  BY <1>2, <1>3, <1>4, <1>7
<1> QED
  BY <1>6, <1>8

-----------------------------------------------------------------------------
(* ChanceEarnsFifty, name by name.                                         *)

PossibleAt(t, i) == OutcomesFor(PutAs(edition, rows[i]), t)
AskingOf(t) == {i \in DOMAIN rows : PossibleAt(t, i) # {}}
OddsAt(t, i) == {<<x.value, Cardinality({y \in PossibleAt(t, i) : y.value = x.value})>> : x \in PossibleAt(t, i)}
Fifty(t) ==
    LET asking == AskingOf(t)
        odds == UNION {{<<i, v>> : v \in OddsAt(t, i)} : i \in asking}
        Sheets == {f \in [asking -> {p[2] : p \in odds}] : \A i \in asking : <<i, f[i]>> \in odds}
        Off(f) == TraitScore([Replay(rows)[t] EXCEPT !.sum = SumFunction([i \in asking |-> f[i][1]])]) - 500
        Ways(f) == FoldFunction(LAMBDA v, n : v[2] * n, 1, f)
        total == SumFunction([f \in Sheets |-> Ways(f) * Off(f)])
        ways == SumFunction([f \in Sheets |-> Ways(f)])
    IN  2 * total <= ways /\ 2 * total >= -ways

LEMMA FiftyForAll == (stale = {} => \A t \in Traits : Fifty(t)) => ChanceEarnsFifty
BY DEF ChanceEarnsFifty, Fifty, AskingOf, OddsAt, PossibleAt, OutcomesFor, PutAs

PossibleOf(t) == [i \in AskingOf(t) |-> PossibleAt(t, i)]
SpanOf(t) == [i \in AskingOf(t) |-> Span(edition, rows[i], t)]
OddsFor(t) == [i \in AskingOf(t) |-> OddsAt(t, i)]
WaysOf(f) == FoldFunction(LAMBDA v, n : v[2] * n, 1, f)

LEMMA WaysAre ==
    ASSUME NEW f
    PROVE  WaysOf(f) = Product(f, DOMAIN f)
BY DEF WaysOf, Product, FoldFunction

\* The rows that can express a trait are on offer with their odds, and the tally of the
\* replay has their scale.
LEMMA RowsAreOffers ==
    ASSUME ScoringIInv, stale = {}, NEW t \in Traits
    PROVE  /\ Offers(AskingOf(t), PossibleOf(t), SpanOf(t), OddsFor(t))
           /\ Scale(AskingOf(t), SpanOf(t), Replay(rows)[t])
           /\ Replay(rows)[t] \in Tally
<1>1. PICK A, X, s, O, ed, n, x :
        /\ A = AskingOf(t) /\ X = PossibleOf(t) /\ s = SpanOf(t) /\ O = OddsFor(t)
        /\ ed = edition /\ n = Len(rows) /\ x = Replay(rows)[t]
  OBVIOUS
<1>2. ed \in Banks /\ rows \in Seq(AllRows) /\ \A i \in 1 .. n : RowOK(rows[i])
  BY <1>1 DEF ScoringIInv
<1>3. \A i \in 1 .. n : rows[i].answer = Unanswered \/ Counts(ed, rows[i])
  BY <1>1 DEF ScoringIInv
<1>4. DOMAIN rows = 1 .. n /\ n \in Nat
  BY <1>1, <1>2
<1>5. A \in SUBSET (1 .. n) /\ IsFiniteSet(1 .. n) /\ IsFiniteSet(A)
  <2>1. A \in SUBSET (1 .. n)
    BY <1>1, <1>4 DEF AskingOf
  <2>2. IsFiniteSet(1 .. n)
    <3>1. 1 \in Int /\ n \in Int
      BY <1>4
    <3> QED
      BY <3>1, FS_Interval
  <2> QED
    BY <2>1, <2>2, FS_Subset
<1>6. \A i \in 1 .. n : /\ PossibleAt(t, i) = {} => Span(ed, rows[i], t) = NoPart
                        /\ PossibleAt(t, i) # {} => RangeHolds(PossibleAt(t, i), Span(ed, rows[i], t))
  BY <1>1, <1>2, <1>3, RowIsOffer DEF PossibleAt
<1>7. \A i \in A : i \in 1 .. n /\ PossibleAt(t, i) # {}
  BY <1>1, <1>4 DEF AskingOf
<1>8. \A i \in 1 .. n : i \notin A => PossibleAt(t, i) = {}
  BY <1>1, <1>4 DEF AskingOf
<1>9. \A i \in A : X[i] = PossibleAt(t, i) /\ s[i] = Span(ed, rows[i], t) /\ O[i] = OddsAt(t, i)
  BY <1>1 DEF PossibleOf, SpanOf, OddsFor
<1>10. Offers(A, X, s, O)
  <2>1. ASSUME NEW i \in A PROVE OddsAt(t, i) = OddsOf(PossibleAt(t, i), ValuesOf(PossibleAt(t, i)))
    <3>1. PICK Y, v : Y = PossibleAt(t, i) /\ v = ValuesOf(Y)
      OBVIOUS
    <3>2. \A z \in Y : v[z] = z.value
      BY <3>1 DEF ValuesOf
    <3>3. \A z \in Y : {y \in Y : y.value = z.value} = Fibre(Y, v, v[z])
      BY <3>2 DEF Fibre
    <3>4. OddsAt(t, i) = {<<z.value, Cardinality({y \in Y : y.value = z.value})>> : z \in Y}
      BY <3>1 DEF OddsAt
    <3>5. OddsOf(Y, v) = {<<v[z], Cardinality(Fibre(Y, v, v[z]))>> : z \in Y}
      BY DEF OddsOf
    <3>6. PICK j : j = [z \in Y |-> <<v[z], Cardinality(Fibre(Y, v, v[z]))>>]
      OBVIOUS
    <3>7. \A z \in Y : /\ j[z] = <<z.value, Cardinality({y \in Y : y.value = z.value})>>
                       /\ j[z] = <<v[z], Cardinality(Fibre(Y, v, v[z]))>>
      BY <3>2, <3>3, <3>6
    <3>8. OddsAt(t, i) = {j[z] : z \in Y}
      BY <3>4, <3>7
    <3>9. OddsOf(Y, v) = {j[z] : z \in Y}
      BY <3>5, <3>7
    <3> QED
      BY <3>1, <3>8, <3>9
  <2> QED
    BY <1>5, <1>6, <1>7, <1>9, <2>1 DEF Offers
<1>11. x = ReplayBy(ed, rows)[t] /\ x \in Tally /\ Totals(x, ed, rows, t, n)
  <2>1. x = ReplayBy(ed, rows)[t]
    BY <1>1, ReplayIs
  <2>2. /\ ReplayBy(ed, rows) \in [Traits -> Tally]
        /\ \A u \in Traits : Totals(ReplayBy(ed, rows)[u], ed, rows, u, n)
    BY <1>1, <1>2, <1>4, ReplayTotals
  <2> QED
    BY <2>1, <2>2
<1>12. PICK S : S = 1 .. n
  OBVIOUS
<1>12a. IsFiniteSet(S) /\ A \in SUBSET S
  BY <1>5, <1>12
<1>13. \A i \in S : Within(Moved(ed, rows[i], t), Span(ed, rows[i], t))
  BY <1>2, <1>12, MovedIsWithin
<1>14. \A i \in S \ A : Span(ed, rows[i], t) = NoPart
  BY <1>6, <1>8, <1>12
<1>15. PICK c, b, w, d, e, f : /\ c = ChanceBy(ed, rows, t) /\ b = BestBy(ed, rows, t) /\ w = WorstBy(ed, rows, t)
                               /\ d = Chances(A, s) /\ e = Bests(A, s) /\ f = Worsts(A, s)
  OBVIOUS
<1>16. \A i \in S : /\ c[i] = Span(ed, rows[i], t).chance /\ b[i] = Span(ed, rows[i], t).best
                    /\ w[i] = Span(ed, rows[i], t).worst
  BY <1>1, <1>12, <1>15 DEF ChanceBy, BestBy, WorstBy
<1>17. \A i \in A : /\ d[i] = Span(ed, rows[i], t).chance /\ e[i] = Span(ed, rows[i], t).best
                    /\ f[i] = Span(ed, rows[i], t).worst
  BY <1>9, <1>15 DEF Chances, Bests, Worsts
<1>18. \A i \in S : c[i] \in Int /\ b[i] \in Int /\ w[i] \in Int
  BY <1>13, <1>16 DEF Within
<1>19. \A i \in S \ A : c[i] = 0 /\ b[i] = 0 /\ w[i] = 0
  BY <1>14, <1>16 DEF NoPart
<1>20. \A i \in A : i \in S
  BY <1>5, <1>12
<1>21. \A i \in A : d[i] = c[i] /\ e[i] = b[i] /\ f[i] = w[i]
  BY <1>16, <1>17, <1>20
<1>22. SumFunctionOnSet(c, S) = SumFunctionOnSet(d, A)
  <2>1. (\A i \in S : c[i] \in Int) /\ (\A i \in S \ A : c[i] = 0) /\ \A i \in A : d[i] = c[i]
    BY <1>18, <1>19, <1>21
  <2> QED
    BY <1>12a, <2>1, SumOverSome
<1>23. SumFunctionOnSet(b, S) = SumFunctionOnSet(e, A)
  <2>1. (\A i \in S : b[i] \in Int) /\ (\A i \in S \ A : b[i] = 0) /\ \A i \in A : e[i] = b[i]
    BY <1>18, <1>19, <1>21
  <2> QED
    BY <1>12a, <2>1, SumOverSome
<1>24. SumFunctionOnSet(w, S) = SumFunctionOnSet(f, A)
  <2>1. (\A i \in S : w[i] \in Int) /\ (\A i \in S \ A : w[i] = 0) /\ \A i \in A : f[i] = w[i]
    BY <1>18, <1>19, <1>21
  <2> QED
    BY <1>12a, <2>1, SumOverSome
<1>25. Scale(A, s, x)
  BY <1>11, <1>12, <1>15, <1>22, <1>23, <1>24 DEF Totals, Scale
<1> QED
  BY <1>1, <1>10, <1>11, <1>25

SheetsIn(A, odds) == {f \in [A -> {p[2] : p \in odds}] : \A i \in A : <<i, f[i]>> \in odds}

\* The sheets of the property are the sheets of the lemmas.
LEMMA SheetsAre ==
    ASSUME NEW A, NEW O, NEW odds, odds = UNION {{<<i, v>> : v \in O[i]} : i \in A}
    PROVE  SheetsIn(A, odds) = SheetsOf(A, O)
<1>1. \A i, v : <<i, v>> \in odds <=> i \in A /\ v \in O[i]
  OBVIOUS
<1>2. PICK C, D : C = {p[2] : p \in odds} /\ D = UNION {O[i] : i \in A}
  OBVIOUS
<1>3. C = D
  <2>1. ASSUME NEW c \in C PROVE c \in D
    <3>1. PICK p \in odds : c = p[2]
      BY <1>2
    <3>2. PICK i \in A : \E v \in O[i] : p = <<i, v>>
      OBVIOUS
    <3> QED
      BY <1>2, <3>1, <3>2
  <2>2. ASSUME NEW d \in D PROVE d \in C
    <3>1. PICK i \in A : d \in O[i]
      BY <1>2
    <3>2. <<i, d>> \in odds /\ <<i, d>>[2] = d
      BY <1>1, <3>1
    <3> QED
      BY <1>2, <3>2
  <2> QED
    BY <2>1, <2>2
<1>4. \A f \in [A -> D] : (\A i \in A : <<i, f[i]>> \in odds) <=> \A i \in A : f[i] \in O[i]
  BY <1>1
<1> QED
  BY <1>2, <1>3, <1>4 DEF SheetsOf, SheetsIn

\* Fifty in the terms of the lemmas.
LEMMA FiftyIs ==
    ASSUME NEW t, NEW A, A = AskingOf(t), NEW O, O = OddsFor(t), NEW x, x = Replay(rows)[t],
           2 * SumFunctionOnSet(Shifts(A, O, x), SheetsOf(A, O)) <= SumFunctionOnSet(Weighed(A, O), SheetsOf(A, O)),
           2 * SumFunctionOnSet(Shifts(A, O, x), SheetsOf(A, O)) >= - SumFunctionOnSet(Weighed(A, O), SheetsOf(A, O))
    PROVE  Fifty(t)
<1> DEFINE odds == UNION {{<<i, v>> : v \in OddsAt(t, i)} : i \in A}
           Sheets == {f \in [A -> {p[2] : p \in odds}] : \A i \in A : <<i, f[i]>> \in odds}
           Off(f) == TraitScore([x EXCEPT !.sum = SumFunction([i \in A |-> f[i][1]])]) - 500
           shifts == [f \in Sheets |-> WaysOf(f) * Off(f)]
           weights == [f \in Sheets |-> WaysOf(f)]
<1>1. odds = UNION {{<<i, v>> : v \in O[i]} : i \in A}
  <2>1. \A i \in A : O[i] = OddsAt(t, i)
    BY DEF OddsFor
  <2> QED
    BY <2>1
<1>2. Sheets = SheetsOf(A, O)
  <2>1. PICK pairs : pairs = odds
    OBVIOUS
  <2>2. pairs = UNION {{<<i, v>> : v \in O[i]} : i \in A}
    BY <1>1, <2>1
  <2>3. SheetsIn(A, pairs) = SheetsOf(A, O)
    BY <2>2, SheetsAre
  <2>4. Sheets = SheetsIn(A, pairs)
    BY <2>1 DEF SheetsIn
  <2> QED
    BY <2>3, <2>4
<1>3. PICK S : S = SheetsOf(A, O)
  OBVIOUS
<1>4. ASSUME NEW f \in S
      PROVE  WaysOf(f) = Product(f, A) /\ Off(f) = Shift(Marked(x, Value(f, A)))
  <2>1. DOMAIN f = A
    BY <1>3 DEF SheetsOf
  <2>2. WaysOf(f) = Product(f, A)
    BY <2>1, WaysAre
  <2>3. PICK g : g = [i \in A |-> f[i][1]]
    OBVIOUS
  <2>4. SumFunction(g) = Value(f, A)
    BY <2>3 DEF SumFunction, Value
  <2>5. Off(f) = Shift(Marked(x, Value(f, A)))
    BY <2>3, <2>4 DEF Shift, Marked
  <2> QED
    BY <2>2, <2>5
<1>5. shifts = Shifts(A, O, x) /\ weights = Weighed(A, O)
  <2> HIDE DEF Sheets, Off
  <2>1. Shifts(A, O, x) = [f \in S |-> Product(f, A) * Shift(Marked(x, Value(f, A)))]
    BY <1>3 DEF Shifts
  <2>2. Weighed(A, O) = [f \in S |-> Product(f, A)]
    BY <1>3 DEF Weighed
  <2>3. Sheets = S
    BY <1>2, <1>3
  <2>4. shifts = [f \in S |-> WaysOf(f) * Off(f)] /\ weights = [f \in S |-> WaysOf(f)]
    BY <2>3
  <2> QED
    BY <1>4, <2>1, <2>2, <2>4
<1>6. SumFunction(shifts) = SumFunctionOnSet(Shifts(A, O, x), S)
  <2> HIDE DEF Sheets, Off
  <2>1. DOMAIN shifts = S
    BY <1>2, <1>3
  <2> QED
    BY <1>5, <2>1 DEF SumFunction
<1>7. SumFunction(weights) = SumFunctionOnSet(Weighed(A, O), S)
  <2> HIDE DEF Sheets, Off
  <2>1. DOMAIN weights = S
    BY <1>2, <1>3
  <2> QED
    BY <1>5, <2>1 DEF SumFunction
<1>8. 2 * SumFunction(shifts) <= SumFunction(weights) /\ 2 * SumFunction(shifts) >= - SumFunction(weights)
  BY <1>3, <1>6, <1>7
<1> QED
  BY <1>8 DEF Fifty, WaysOf

\* Each trait of an unedited attempt earns fifty at random.
LEMMA EveryTraitEarnsFifty ==
    ASSUME ScoringIInv, stale = {}, NEW t \in Traits
    PROVE  Fifty(t)
<1>1. PICK A, X, s, O, x : /\ A = AskingOf(t) /\ X = PossibleOf(t) /\ s = SpanOf(t) /\ O = OddsFor(t)
                           /\ x = Replay(rows)[t]
  OBVIOUS
<1>2. Offers(A, X, s, O) /\ Scale(A, s, x) /\ x \in Tally
  BY <1>1, RowsAreOffers
<1>3. PICK total, ways : /\ total = SumFunctionOnSet(Shifts(A, O, x), SheetsOf(A, O))
                         /\ ways = SumFunctionOnSet(Weighed(A, O), SheetsOf(A, O))
  OBVIOUS
<1>4. total \in Int /\ ways \in Int /\ 2 * total <= ways /\ - ways <= 2 * total
  BY <1>2, <1>3, SheetsEarnFifty
<1>6. 2 * total >= - ways
  BY <1>4
<1> QED
  BY <1>1, <1>3, <1>4, <1>6, FiftyIs

\* The invariant is what the property says.
LEMMA ScoresMean == ScoringIInv => ScoresMeanWhatTheySay
<1> SUFFICES ASSUME ScoringIInv PROVE ScoresMeanWhatTheySay
  OBVIOUS
<1>1. /\ edition \in Banks /\ rows \in Seq(AllRows)
      /\ \A i \in 1 .. Len(rows) : RowOK(rows[i])
  BY DEF ScoringIInv
<1>2. DOMAIN rows = 1 .. Len(rows) /\ Len(rows) \in Nat
  BY <1>1
<1>3. stale = {} => tallies = ReplayBy(edition, rows)
  BY DEF ScoringIInv
<1>4. SumsAreOnTheirScale
  <2>1. \A t \in Traits : OnScale(tallies[t])
    BY DEF ScoringIInv
  <2> QED
    BY <2>1 DEF OnScale, SumsAreOnTheirScale
<1>5. ChanceEarnsFifty
  <2>1. stale = {} => \A t \in Traits : Fifty(t)
    BY EveryTraitEarnsFifty
  <2> QED
    BY <2>1, FiftyForAll
<1>6. RebuildScoresTheSame
  <2>1. stale = {} => Replay(rows) = tallies
    BY <1>3, ReplayIs
  <2> QED
    BY <2>1 DEF RebuildScoresTheSame
<1>7. EvidenceAddsUp
  <2>1. ASSUME stale = {}, NEW t \in Traits
        PROVE  tallies[t].sum = SumFunction([i \in DOMAIN rows |-> ValueFor(t, ContributionsFor(rows[i]))])
    <3>1. PICK g : g = [i \in DOMAIN rows |-> ValueFor(t, ContributionsFor(rows[i]))]
      OBVIOUS
    <3>2. PICK n, ed : n = Len(rows) /\ ed = edition
      OBVIOUS
    <3>3. Totals(ReplayBy(ed, rows)[t], ed, rows, t, n)
      BY <1>1, <1>2, <3>2, ReplayTotals
    <3>4. tallies[t].sum = SumFunctionOnSet(MovedBy(ed, rows, t), 1 .. n)
      BY <1>3, <2>1, <3>2, <3>3 DEF Totals
    <3>5. g = MovedBy(ed, rows, t)
      <4>1. ASSUME NEW i \in 1 .. n
            PROVE  ValueFor(t, ContributionsFor(rows[i])) = Moved(ed, rows[i], t)
        <5>1. CASE Counts(ed, rows[i])
          BY <3>2, <5>1 DEF ContributionsFor, Moved, Counts, Details, DetailsIn
        <5>2. CASE ~Counts(ed, rows[i])
          <6>1. ContributionsFor(rows[i]) = [u \in {} |-> 0]
            BY <3>2, <5>2 DEF ContributionsFor, Counts, Details, DetailsIn
          <6>2. ValueFor(t, ContributionsFor(rows[i])) = 0
            BY <6>1 DEF ValueFor
          <6> QED
            BY <5>2, <6>2 DEF Moved
        <5> QED
          BY <5>1, <5>2
      <4> QED
        BY <1>2, <3>1, <3>2, <4>1 DEF MovedBy
    <3>6. SumFunction(g) = SumFunctionOnSet(g, 1 .. n)
      BY <1>2, <3>1, <3>2 DEF SumFunction
    <3> QED
      BY <3>1, <3>4, <3>5, <3>6
  <2> QED
    BY <2>1 DEF EvidenceAddsUp
<1> QED
  BY <1>4, <1>5, <1>6, <1>7 DEF ScoresMeanWhatTheySay

\* For any traits, banks of two to six options and number of answers: sums stay on
\* their scale, answering at random earns fifty, an attempt rebuilt from its rows scores
\* as it did, and the evidence adds up to the score (traitScore, applyTraitWeights,
\* replayTraitAnswer, AnswerDetail).
THEOREM ScoresStayTrue == ScoringSpec => []ScoresMeanWhatTheySay
BY ScoringInvariant, ScoresMean, PTL

=============================================================================
