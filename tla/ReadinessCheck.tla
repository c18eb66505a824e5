--------------------------- MODULE ReadinessCheck ---------------------------
(***************************************************************************)
(* The wizard before the assessment (frontend/src/routes/candidate/        *)
(* ReadinessCheck.tsx, lib/system-check.ts, lib/face-detection.ts          *)
(* watchFaces, lib/audio-monitor.ts, components/Splash.tsx).               *)
(*                                                                         *)
(* One effect runs per visit to a step.  It opens a device or takes a      *)
(* measurement, awaits it, goes on observing, and publishes verdicts; the  *)
(* Continue button is bound to the last one.  When the visit ends, what it *)
(* has registered is cleaned up, and whatever it still awaits arrives      *)
(* after it.  A click, the render it causes and the effects of that render *)
(* are one step.                                                           *)
(***************************************************************************)
EXTENDS Naturals, Sequences

CONSTANTS STABLE_SAMPLES

CONSTANTS           \* bounds of the exploration, not of the program
    MaxVisits,      \* visits to a step
    MaxInFlight,    \* frames being read
    MaxChanges      \* changes of the candidate's surroundings

ASSUME ReadinessAssumption ==
    /\ {STABLE_SAMPLES, MaxVisits, MaxInFlight, MaxChanges} \subseteq Nat
    /\ STABLE_SAMPLES > 0 /\ MaxVisits > 0

STEPS == <<"browser", "screen", "camera", "microphone", "connection">>

VARIABLES
    stage,          \* "gone" when the page is left
    index,          \* the step on screen
    visit,          \* the effect's current run
    result,         \* the verdict on screen: its status, and the visit that published it
    awaiting,       \* what each visit's setup awaits
    alive,          \* the devices, timers and listeners that are on, and whose
    frames,         \* the frames being read, in order
    recent,         \* the last verdicts of the camera visit
    pings,          \* the visits with a repeated measurement in flight
    world,          \* the candidate's surroundings
    changes,
    \* history
    evidence        \* the last observations, by the visit that made them

readiness == <<stage, index, visit, result, awaiting, alive, frames, recent, pings, world, changes,
               evidence>>

Visits == 1 .. MaxVisits
Statuses == {"ok", "warn", "fail"}
Resources == {"listener", "stream", "watcher", "poll", "audio", "frame", "timer"}
NoVerdict == [status |-> "pending", by |-> 0]

ReadinessTypeOK ==
    /\ stage \in {"checks", "splash-practice", "practice", "splash-assessment", "gone"}
    /\ index \in DOMAIN STEPS
    /\ visit \in Visits
    /\ result \in {NoVerdict} \cup [status: Statuses, by: Visits]
    /\ awaiting \subseteq [by: Visits, what: {"camera", "model", "microphone", "measure"}]
    /\ alive \subseteq [by: Visits, what: Resources]
    /\ frames \in Seq([by: Visits, framed: BOOLEAN])
    /\ recent \in Seq(BOOLEAN)
    /\ pings \subseteq Visits
    /\ world \in [supported: BOOLEAN, model: BOOLEAN, alone: BOOLEAN, fills: BOOLEAN,
                  framed: BOOLEAN, loud: BOOLEAN, near: BOOLEAN, allowed: BOOLEAN]
    /\ changes \in Nat
    /\ evidence \in Seq([by: Visits, good: BOOLEAN])

Step == STEPS[index]
Live(v) == stage = "checks" /\ v = visit
Passed == stage = "checks" /\ result.status = "ok"

\* publish: a visit that is over publishes nothing.
Publish(v, status) ==
    result' = IF Live(v) THEN [status |-> status, by |-> v] ELSE result

\* The history: what was just observed.
Observe(v, good) ==
    evidence' = LET all == Append(evidence, [by |-> v, good |-> good])
            IN  IF Len(all) > STABLE_SAMPLES THEN Tail(all) ELSE all

(***************************************************************************)
(* A visit begins and ends                                                 *)
(***************************************************************************)
\* The screen step's two questions.
ScreenStatus == IF world.alone /\ world.fills THEN "ok" ELSE "warn"

\* What is left of the resources once a visit is cleaned up.
Released(v) == {h \in alive : h.by # v}

\* setup, up to its first await.
SetUp(v, key) ==
    /\ visit' = v
    /\ recent' = <<>>
    /\ CASE key = "browser" ->
              /\ result' = [status |-> IF world.supported THEN "ok" ELSE "fail", by |-> v]
              /\ Observe(v, world.supported)
              /\ alive' = Released(visit)
              /\ UNCHANGED awaiting
         [] key = "screen" ->
              /\ result' = [status |-> ScreenStatus, by |-> v]
              /\ Observe(v, ScreenStatus = "ok")
              /\ alive' = Released(visit) \cup {[by |-> v, what |-> "listener"]}
              /\ UNCHANGED awaiting
         [] OTHER ->
              /\ result' = NoVerdict
              /\ awaiting' = awaiting \cup {[by |-> v, what |->
                    IF key = "connection" THEN "measure" ELSE key]}
              /\ alive' = Released(visit)
              /\ UNCHANGED evidence

\* The last visit is over, and none begins.
TearDown ==
    /\ alive' = Released(visit)
    /\ UNCHANGED <<index, visit, result, awaiting, recent, evidence>>

ReadinessInit ==
    /\ stage = "checks"
    /\ index = 1
    /\ visit = 1
    /\ world \in [supported: BOOLEAN, model: BOOLEAN, alone: BOOLEAN, fills: BOOLEAN,
                  framed: {FALSE}, loud: {FALSE}, near: {TRUE}, allowed: BOOLEAN]
    /\ result = [status |-> IF world.supported THEN "ok" ELSE "fail", by |-> 1]
    /\ evidence = <<[by |-> 1, good |-> world.supported]>>
    /\ awaiting = {}
    /\ alive = {}
    /\ frames = <<>>
    /\ recent = <<>>
    /\ pings = {}
    /\ changes = 0

surroundings == <<world, changes>>

\* Continue: the next step, or the way into the assessment, by the sample questions if
\* there are any and they have arrived.
Continue ==
    /\ Passed
    /\ IF index < Len(STEPS)
       THEN /\ visit < MaxVisits
            /\ index' = index + 1
            /\ SetUp(visit + 1, STEPS[index + 1])
            /\ UNCHANGED stage
       ELSE /\ stage' \in {"splash-practice", "splash-assessment"}
            /\ TearDown
    /\ UNCHANGED <<frames, pings, surroundings>>

CheckAgain ==
    /\ stage = "checks"
    /\ result # NoVerdict
    /\ visit < MaxVisits
    /\ SetUp(visit + 1, Step)
    /\ UNCHANGED <<stage, index, frames, pings, surroundings>>

\* "Back to my assessments".
GoBack ==
    /\ stage \in {"checks", "practice"}
    /\ stage' = "gone"
    /\ IF stage = "checks" THEN TearDown
       ELSE UNCHANGED <<index, visit, result, awaiting, alive, recent, evidence>>
    /\ UNCHANGED <<frames, pings, surroundings>>

(***************************************************************************)
(* What a setup awaits                                                     *)
(***************************************************************************)
Arrives(v, what) ==
    /\ [by |-> v, what |-> what] \in awaiting
    /\ awaiting' = awaiting \ {[by |-> v, what |-> what]}

Unwatched == <<stage, index, visit, frames, recent, pings, surroundings, evidence>>

\* Mutant of CameraOpens: the stream is kept whoever it was opened for.
CameraKept(v) ==
    /\ [by |-> v, what |-> "camera"] \in awaiting
    /\ awaiting' = (awaiting \ {[by |-> v, what |-> "camera"]})
         \cup (IF world.allowed THEN {[by |-> v, what |-> "model"]} ELSE {})
    /\ alive' = IF world.allowed THEN alive \cup {[by |-> v, what |-> "stream"]} ELSE alive
    /\ Publish(v, "warn")
    /\ UNCHANGED Unwatched

\* openCamera: the stream of a visit that is over is stopped at once; otherwise it is
\* registered, and the face model is loaded.
CameraOpens(v) ==
    /\ [by |-> v, what |-> "camera"] \in awaiting
    /\ awaiting' = (awaiting \ {[by |-> v, what |-> "camera"]})
         \cup (IF world.allowed /\ Live(v) THEN {[by |-> v, what |-> "model"]} ELSE {})
    /\ alive' = IF world.allowed /\ Live(v) THEN alive \cup {[by |-> v, what |-> "stream"]}
               ELSE alive
    /\ Publish(v, "warn")
    /\ UNCHANGED Unwatched

\* watchFaces: polling starts, or the check cannot be made at all.
ModelLoads(v) ==
    /\ Arrives(v, "model")
    /\ IF world.model
       THEN /\ alive' = IF Live(v) THEN alive \cup [by: {v}, what: {"watcher", "poll"}] ELSE alive
            /\ UNCHANGED result
       ELSE /\ Publish(v, "fail")
            /\ UNCHANGED alive
    /\ UNCHANGED Unwatched

\* openMicrophone.
MicrophoneOpens(v) ==
    /\ Arrives(v, "microphone")
    /\ alive' = IF world.allowed /\ Live(v) THEN alive \cup [by: {v}, what: {"audio", "frame"}]
               ELSE alive
    /\ Publish(v, "warn")
    /\ UNCHANGED Unwatched

Status(good) == IF good THEN "ok" ELSE "warn"

\* The first measurement: the timer is started after it, whoever is on screen by then.
Measured(v) ==
    /\ Arrives(v, "measure")
    /\ Publish(v, Status(world.near))
    /\ IF Live(v) THEN Observe(v, world.near) ELSE UNCHANGED evidence
    /\ alive' = alive \cup {[by |-> v, what |-> "timer"]}
    /\ UNCHANGED <<stage, index, visit, frames, recent, pings, surroundings>>

(***************************************************************************)
(* What goes on being observed                                             *)
(***************************************************************************)
\* The poll: a frame is read.  One that could not be is not counted at all.
Poll(v) ==
    /\ [by |-> v, what |-> "poll"] \in alive
    /\ Len(frames) < MaxInFlight
    /\ frames' = Append(frames, [by |-> v, framed |-> world.framed])
    /\ UNCHANGED <<stage, index, visit, result, awaiting, alive, recent, pings, surroundings,
                   evidence>>

\* Mutant of Kept: the newest verdict is forgotten, not the oldest.
KeptFirst(s) == IF Len(s) > STABLE_SAMPLES THEN SubSeq(s, 1, STABLE_SAMPLES) ELSE s

\* recent.shift
Kept(s) == IF Len(s) > STABLE_SAMPLES THEN Tail(s) ELSE s

\* Unanimous, over enough frames.
Settled(s) == Len(s) >= STABLE_SAMPLES /\ \A n \in DOMAIN s : s[n]

\* faces().then: the verdicts of a visit that is over are not counted.
ReadArrives ==
    /\ frames # <<>>
    /\ frames' = Tail(frames)
    /\ LET r == Head(frames)
           s == Kept(Append(recent, r.framed))
       IN  IF Live(r.by)
           THEN /\ recent' = s
                /\ Publish(r.by, Status(Settled(s)))
                /\ Observe(r.by, r.framed)
           ELSE UNCHANGED <<recent, result, evidence>>
    /\ UNCHANGED <<stage, index, visit, awaiting, alive, pings, surroundings>>

\* The meter's animation frame: only a sound changes anything.
Hear(v) ==
    /\ [by |-> v, what |-> "frame"] \in alive
    /\ world.loud
    /\ Publish(v, "ok")
    /\ Observe(v, TRUE)
    /\ UNCHANGED <<stage, index, visit, awaiting, alive, frames, recent, pings, surroundings>>

\* The timer, and the measurement it takes.
Ping(v) ==
    /\ [by |-> v, what |-> "timer"] \in alive
    /\ v \notin pings
    /\ pings' = pings \cup {v}
    /\ UNCHANGED <<stage, index, visit, result, awaiting, alive, frames, recent, surroundings,
                   evidence>>

\* Mutant of PingEnds: its verdict is shown whoever is on screen.
PingEndsAnyway(v) ==
    /\ v \in pings
    /\ pings' = pings \ {v}
    /\ result' = [status |-> Status(world.near), by |-> v]
    /\ Observe(v, world.near)
    /\ UNCHANGED <<stage, index, visit, awaiting, alive, frames, recent, surroundings>>

PingEnds(v) ==
    /\ v \in pings
    /\ pings' = pings \ {v}
    /\ Publish(v, Status(world.near))
    /\ IF Live(v) THEN Observe(v, world.near) ELSE UNCHANGED evidence
    /\ UNCHANGED <<stage, index, visit, awaiting, alive, frames, recent, surroundings>>

(***************************************************************************)
(* The surroundings, and the way in                                        *)
(***************************************************************************)
Changes(w) ==
    /\ stage # "gone"
    /\ changes < MaxChanges
    /\ changes' = changes + 1
    /\ world' = w
    /\ UNCHANGED <<stage, index, visit, awaiting, alive, frames, recent, pings>>

\* The candidate moves, speaks or falls silent, the network comes and goes, a permission
\* is given or taken back, a display is plugged in or out: no event follows.
Change ==
    /\ \E f \in {"framed", "loud", "near", "allowed", "alone"} :
        Changes([world EXCEPT ![f] = ~world[f]])
    /\ UNCHANGED <<result, evidence>>

\* The window is resized: the listener decides anew.
Resize ==
    /\ Changes([world EXCEPT !.fills = ~world.fills])
    /\ LET good == world.alone /\ ~world.fills
       IN  IF [by |-> visit, what |-> "listener"] \in alive
           THEN Publish(visit, Status(good)) /\ Observe(visit, good)
           ELSE UNCHANGED <<result, evidence>>

Goes(from, to) ==
    /\ stage = from
    /\ stage' = to
    /\ UNCHANGED <<index, visit, result, awaiting, alive, frames, recent, pings, surroundings,
                   evidence>>

\* The two pauses, and the sample questions between them.
SplashOver ==
    \/ Goes("splash-practice", "practice")
    \/ Goes("splash-assessment", "gone")

Practised == Goes("practice", "splash-assessment")

Observing(v) == Poll(v) \/ Hear(v) \/ Ping(v) \/ PingEnds(v)

Awaited(v) == CameraOpens(v) \/ ModelLoads(v) \/ MicrophoneOpens(v) \/ Measured(v)

ReadinessNext ==
    \/ Continue \/ CheckAgain \/ GoBack
    \/ \E v \in Visits : Awaited(v) \/ Observing(v)
    \/ ReadArrives
    \/ Change \/ Resize \/ SplashOver \/ Practised

\* Timers fire and what was asked for arrives.  The candidate may do nothing.
ReadinessFairness ==
    /\ WF_readiness(ReadArrives)
    /\ \A v \in Visits : WF_readiness(Poll(v)) /\ WF_readiness(Hear(v)) /\ WF_readiness(Awaited(v))
    /\ \A v \in Visits : WF_readiness(Ping(v)) /\ WF_readiness(PingEnds(v))

ReadinessSpec == ReadinessInit /\ [][ReadinessNext]_readiness /\ ReadinessFairness

(***************************************************************************)
(* What must hold                                                          *)
(***************************************************************************)
\* "Continue is bound to the verdict right now": a step is passed only on observations its
\* own visit has made, the last of each kind, and the camera's on STABLE_SAMPLES framed
\* frames together, whatever older visits still have in flight.
PassIsEarned ==
    Passed =>
        LET n == IF Step = "camera" THEN STABLE_SAMPLES ELSE 1
        IN  /\ result.by = visit
            /\ Len(evidence) >= n
            /\ \A k \in 0 .. n - 1 : evidence[Len(evidence) - k] = [by |-> visit, good |-> TRUE]
            /\ Step = "screen" => world.fills

\* "the thing that must never happen is a resource outliving its step", for the camera, the
\* microphone, their loops and the listener.  The connection's timer, started after an await
\* nobody looks back from, does outlive its step.
DevicesAreReleased == \A h \in alive : h.what # "timer" => Live(h.by)

\* A step rests on what it asked for itself, and leaves nothing of it behind.
StepsKeepToThemselves == PassIsEarned /\ DevicesAreReleased

\* A candidate who does what the step on screen asks, while it is observed, gets to go on,
\* however many frames failed before.
Observed(what) == [by |-> visit, what |-> what] \in alive

DoesAsAsked ==
    \/ Observed("poll") /\ world.framed
    \/ Observed("frame") /\ world.loud
    \/ Observed("timer") /\ world.near

GoodEnoughPasses == <>[](stage = "checks" /\ DoesAsAsked) => <>[]Passed

=============================================================================
