---------------------------- MODULE FaceMonitor -----------------------------
(***************************************************************************)
(* The face-presence loop of frontend/src/hooks/useProctoring.ts: one      *)
(* detection at a time, a verdict that has to hold before it is recorded,  *)
(* and the notice the candidate sees.                                      *)
(*                                                                         *)
(* The candidate moves between a tick and the verdict of its detection.    *)
(* What the loop emits goes to SignalChannel and never comes back.         *)
(***************************************************************************)
EXTENDS Naturals, Sequences

CONSTANTS
    OffCodes,       \* the verdicts on a face that is visible but not framed
    Sustained       \* SUSTAINED_FRAMES

ASSUME FaceAssumption ==
    /\ Sustained \in Nat \ {0}
    /\ OffCodes \cap {"ok", "absent", "multiple", "none", "unknown"} = {}

Codes == {"ok", "absent", "multiple"} \cup OffCodes     \* FramingCode
Sources == {"fullscreen", "tab", "face", "noise"}       \* NoticeSource

VARIABLES
    running,        \* the effect is mounted: the page is active, the camera on
    reported, pending, runs, codeRuns,  \* the effect's locals; null is "none"
    detecting,           \* a detection is in flight
    notice,         \* which monitor owns the notice on screen
    \* history
    verdicts,       \* the last Sustained verdicts of this run of the effect
    signal          \* the last signal emitted, and the verdicts it rested on

face == <<running, reported, pending, runs, codeRuns, detecting, notice, verdicts, signal>>

FaceTypeOK ==
    /\ running \in BOOLEAN
    /\ reported \in Codes \cup {"none"}
    /\ pending \in Codes \cup {"none"}
    /\ runs \in 0..Sustained
    /\ codeRuns \in 0..Sustained
    /\ detecting \in BOOLEAN
    /\ notice \in Sources \cup {"none"}
    /\ verdicts \in Seq(Codes)
    /\ signal \in [code: Codes \cup {"none"}, verdicts: Seq(Codes)]

FaceInit ==
    /\ running = FALSE
    /\ reported = "none" /\ pending = "none"
    /\ runs = 0 /\ codeRuns = 0
    /\ detecting = FALSE
    /\ notice = "none"
    /\ verdicts = <<>>
    /\ signal = [code |-> "none", verdicts |-> <<>>]

-----------------------------------------------------------------------------
(* The verdict on a read.  Both counters are only ever compared with       *)
(* Sustained, so they stop there.                                          *)

Framed(code) == code = "ok"

Longer(n) == IF n < Sustained THEN n + 1 ELSE n

\* Mutant of Runs: every read continues the run.
RunsOn(code) == IF pending = "none" THEN Longer(0) ELSE Longer(runs)

\* Two different problems continue the run; only being framed or not restarts it.
Runs(code) ==
    IF pending # "none" /\ Framed(pending) = Framed(code) THEN Longer(runs) ELSE Longer(0)

CodeRuns(code) == IF code = pending THEN Longer(codeRuns) ELSE Longer(0)

FramedChanged(code) == reported = "none" \/ Framed(reported) # Framed(code)

Worsened(code) ==
    /\ code \in {"absent", "multiple"}
    /\ code # reported
    /\ CodeRuns(code) >= Sustained

\* Whether the read becomes the truth.
Becomes(code) == Runs(code) >= Sustained /\ (FramedChanged(code) \/ Worsened(code))

\* The notice after a verdict became the truth: a problem takes it over, and a return to
\* the frame clears it only if it is the monitor's own.
NoticeAfter(code) ==
    IF ~Framed(code) THEN "face" ELSE IF notice = "face" THEN "none" ELSE notice

-----------------------------------------------------------------------------
(* The effect.                                                             *)

\* The effect mounts with fresh locals, each time the page becomes active again.
Start ==
    /\ ~running
    /\ running' = TRUE
    /\ reported' = "none" /\ pending' = "none"
    /\ runs' = 0 /\ codeRuns' = 0
    /\ detecting' = FALSE
    /\ verdicts' = <<>>
    /\ UNCHANGED <<notice, signal>>

\* Its cleanup: the result of a detection in flight is dropped.
Stop ==
    /\ running
    /\ running' = FALSE
    /\ detecting' = FALSE
    /\ UNCHANGED <<reported, pending, runs, codeRuns, notice, verdicts, signal>>

\* A tick of the interval, skipped while a detection is in flight.
Tick ==
    /\ running /\ ~detecting
    /\ detecting' = TRUE
    /\ UNCHANGED <<running, reported, pending, runs, codeRuns, notice, verdicts, signal>>

\* A detection that says nothing: no frame decoded, or the detector threw.
Unknown ==
    /\ running /\ detecting
    /\ detecting' = FALSE
    /\ UNCHANGED <<running, reported, pending, runs, codeRuns, notice, verdicts, signal>>

Read(code) ==
    LET seen == IF Len(verdicts) < Sustained THEN Append(verdicts, code)
                ELSE Append(Tail(verdicts), code)
    IN  /\ running /\ detecting
        /\ detecting' = FALSE
        /\ runs' = Runs(code)
        /\ codeRuns' = CodeRuns(code)
        /\ pending' = code
        /\ verdicts' = seen
        /\ IF Becomes(code)
           THEN /\ reported' = code
                /\ notice' = NoticeAfter(code)
                /\ signal' = IF Framed(code) THEN signal ELSE [code |-> code, verdicts |-> seen]
           ELSE UNCHANGED <<reported, notice, signal>>
        /\ UNCHANGED running

\* The other monitors take the notice over, and the candidate dismisses it.
OtherNotice ==
    /\ notice' \in {"tab", "fullscreen", "none"} \ {notice}
    /\ UNCHANGED <<running, reported, pending, runs, codeRuns, detecting, verdicts, signal>>

FaceNext ==
    \/ Start
    \/ Stop
    \/ Tick
    \/ Unknown
    \/ \E code \in Codes: Read(code)
    \/ OtherNotice

FaceSpec == FaceInit /\ [][FaceNext]_face

-----------------------------------------------------------------------------
(* The last Sustained verdicts were all the given one.                     *)
Held(code) == Len(verdicts) = Sustained /\ \A i \in 1..Sustained: verdicts[i] = code

(***************************************************************************)
(* What the record says about the camera is what the camera saw.  A face   *)
(* signal rests on Sustained reads in a row that all found the candidate   *)
(* out of frame; an empty chair, a second person or a framed face that     *)
(* held that long is what the loop has reported last; a face that held out *)
(* of place is at least reported as some problem; and the notice is never  *)
(* left up over a candidate who is back in frame.                          *)
(***************************************************************************)
FaceSignalsAreEarned ==
    /\ signal.code # "none" =>
        /\ Len(signal.verdicts) = Sustained
        /\ \A i \in 1..Sustained: ~Framed(signal.verdicts[i])
    /\ \A code \in Codes: Held(code) =>
        IF code \in OffCodes THEN reported \notin {"none", "ok"} ELSE reported = code
    /\ notice = "face" => signal.code # "none" /\ (running => ~Framed(reported))

==============================================================================
