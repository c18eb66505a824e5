--------------------------- MODULE ProctoringPage ---------------------------
(***************************************************************************)
(* The candidate's test screen as the proctoring hook sees it:             *)
(* frontend/src/routes/candidate/TakeAssessment.tsx, hooks/useSession.ts   *)
(* and the window, full-screen and camera parts of hooks/useProctoring.ts. *)
(*                                                                         *)
(* The screen is whatever the last reply of the server says.  Replies are  *)
(* not numbered, so an older one may be applied after a newer.  Monitoring *)
(* is mounted while the attempt is shown unsubmitted, and the window is    *)
(* watched while a question is on screen.                                  *)
(***************************************************************************)
EXTENDS Naturals

CONSTANTS
    SectionCount,       \* how many modules the attempt has
    Slots           \* the calls that can be in flight at once

ASSUME PageAssumption == SectionCount \in Nat \ {0}

\* The steps of an attempt in order: the intro of section k is 2k - 1, its questions 2k.
Last == 2 * SectionCount + 1
Steps == 1..Last

VARIABLES
    at,             \* the step the server has reached
    kind, view,     \* the calls in flight, and the step each reply carries (0: not served);
                    \* "begin" is one yet to be sent, while the browser goes full screen
    onScreen,       \* the step on screen, 0 before the first reply
    mounted, busy,
    camera, asked, opening, held,   \* the camera, its permission query, the start in flight
                                    \* and whether the hook holds a stream
    permission,     \* what the browser says of the camera
    fullscreen, selfExit, exiting,
    focused, visible, timer, away,  \* the window, the grace timer and awayRef
    \* history
    signals,        \* tab_switch events since the candidate was last here
    unheard,        \* full-screen exits of the candidate minus fullscreen_exit events
    armedSince,     \* the absence began with the window watched
    begun,          \* the section on screen was begun on this page
    late,           \* whether the page was left with a start in flight
    tangled         \* whether an older reply replaced a newer one, or Begin was pressed
                    \* with another call still in flight, an earlier press included

server == <<at, kind, view>>
screen == <<onScreen, mounted, busy>>
eye == <<camera, asked, opening, held, permission, late>>
full == <<fullscreen, selfExit, exiting, unheard>>
window == <<focused, visible, timer, away, signals, armedSince>>
pageVars == <<server, screen, eye, full, window, begun, tangled>>

Completed(step) == step = Last
Intro(step) == step \in Steps \ {Last} /\ step % 2 = 1
Question(step) == step \in Steps /\ step % 2 = 0

Active == mounted /\ onScreen # 0 /\ ~Completed(onScreen)
Armed == mounted /\ Question(onScreen)
Here == focused /\ visible

PageTypeOK ==
    /\ at \in Steps
    /\ kind \in [Slots -> {"free", "load", "begin", "start", "answer", "refresh"}]
    /\ view \in [Slots -> {0} \cup Steps]
    /\ onScreen \in {0} \cup Steps
    /\ camera \in {"idle", "starting", "active", "denied"}
    /\ permission \in {"granted", "prompt", "denied"}
    /\ exiting \in {"no", "first", "retry"}
    /\ signals \in Nat /\ unheard \in Nat
    /\ {mounted, busy, asked, opening, held, fullscreen, selfExit, focused, visible, timer,
        away, armedSince, begun, late, tangled} \subseteq BOOLEAN

\* A fresh attempt, or one the page is reopened on, in whatever state the window is in.
PageInit ==
    /\ at \in Steps
    /\ \E s \in Slots: kind = [t \in Slots |-> IF t = s THEN "load" ELSE "free"]
    /\ view = [s \in Slots |-> 0]
    /\ onScreen = 0 /\ mounted = TRUE /\ busy = FALSE
    /\ camera = "idle" /\ asked = FALSE /\ opening = FALSE /\ held = FALSE
    /\ permission \in {"granted", "prompt", "denied"}
    /\ fullscreen = FALSE /\ selfExit = FALSE /\ exiting = "no"
    /\ focused = TRUE /\ visible = TRUE /\ timer = FALSE /\ away = FALSE
    /\ signals = 0 /\ unheard = 0
    /\ armedSince = FALSE /\ begun = FALSE /\ late = FALSE /\ tangled = FALSE

-----------------------------------------------------------------------------
(* The calls of useSession.                                                *)

Sends(s, what) ==
    /\ kind[s] = "free"
    /\ kind' = [kind EXCEPT ![s] = what]
    /\ UNCHANGED <<at, view>>

\* The server applies a call: it may move on by one step, and answers with where it is.
Moves(what) ==
    \/ at' = at
    \/ what = "start" /\ Intro(at) /\ at' = at + 1
    \/ what \in {"answer", "refresh"} /\ Question(at) /\ at' = at + 1

Serve(s) ==
    /\ kind[s] \notin {"free", "begin"} /\ view[s] = 0
    /\ Moves(kind[s])
    /\ view' = [view EXCEPT ![s] = at']
    /\ UNCHANGED <<kind, screen, eye, full, window, begun, tangled>>

\* The auto-submit closes the attempt with no call from the page.
AutoSubmit ==
    /\ ~Completed(at)
    /\ at' = Last
    /\ UNCHANGED <<kind, view, screen, eye, full, window, begun, tangled>>

Free(s) ==
    /\ kind' = [kind EXCEPT ![s] = "free"]
    /\ view' = [view EXCEPT ![s] = 0]
    /\ UNCHANGED at

-----------------------------------------------------------------------------
(* What a change of the screen does to the hook's effects: the cleanups    *)
(* first, then the effects that only run when monitoring is off.           *)

\* The watch on the window ends with the section, and takes the timer and the latch along.
Disarm(armed) ==
    /\ timer' = (timer /\ armed)
    /\ away' = (away /\ armed)
    /\ UNCHANGED <<focused, visible, signals, armedSince>>

\* exitFullscreen, up to its first await.
GiveBack(active) ==
    IF ~active /\ fullscreen /\ exiting = "no"
    THEN selfExit' = TRUE /\ exiting' = "first" /\ UNCHANGED <<fullscreen, unheard>>
    ELSE UNCHANGED full

\* The cleanup of the permission query, which is asked again once active returns.
Forget(active) ==
    /\ asked' = (asked /\ active)
    /\ UNCHANGED <<camera, opening, held, permission, late>>

Apply(step) ==
    /\ onScreen' = step
    /\ Disarm(Question(step))
    /\ GiveBack(~Completed(step))
    /\ Forget(~Completed(step))
    /\ tangled' = (tangled \/ step < onScreen)
    /\ UNCHANGED mounted

\* A reply replaces the whole step; one of a left page is dropped.
Reply(s) ==
    /\ view[s] # 0
    /\ Free(s)
    /\ busy' = FALSE
    /\ IF mounted
       THEN Apply(view[s]) /\ begun' = (kind[s] = "start" \/ (begun /\ view[s] = onScreen))
       ELSE UNCHANGED <<onScreen, mounted, eye, full, window, begun, tangled>>

\* A call that fails leaves the screen as it is, under an error.
Fail(s) ==
    /\ kind[s] \notin {"free", "begin"}
    /\ Free(s)
    /\ busy' = FALSE
    /\ UNCHANGED <<onScreen, mounted, eye, full, window, begun, tangled>>

\* The clock on screen runs out: the page asks where it is, whatever else is in flight.
Expire(s) ==
    /\ Armed
    /\ Sends(s, "refresh")
    /\ busy' = TRUE
    /\ UNCHANGED <<onScreen, mounted, eye, full, window, begun, tangled>>

Answer(s) ==
    /\ Armed /\ Here /\ ~busy
    /\ Sends(s, "answer")
    /\ busy' = TRUE
    /\ UNCHANGED <<onScreen, mounted, eye, full, window, begun, tangled>>

\* Mutant of CameraReady: a camera that is still starting will do.
CameraNotDenied == camera # "denied"

CameraReady == camera = "active"

\* Begin is pressed: full screen is asked for, and the page is not busy meanwhile.
PressBegin(s) ==
    /\ mounted /\ Intro(onScreen) /\ Here /\ ~busy
    /\ CameraReady
    /\ Sends(s, "begin")
    /\ tangled' = (tangled \/ \E t \in Slots : kind[t] # "free")
    /\ UNCHANGED <<screen, eye, full, window, begun>>

\* The browser has granted or refused it: the call goes out, whatever is on screen by now.
Begin(s) ==
    /\ kind[s] = "begin"
    /\ kind' = [kind EXCEPT ![s] = "start"]
    /\ busy' = TRUE
    /\ fullscreen' \in {fullscreen, TRUE}
    /\ UNCHANGED <<at, view, onScreen, mounted, selfExit, exiting, unheard>>
    /\ UNCHANGED <<eye, window, begun, tangled>>

\* The page is left: every cleanup, and the streams the hook holds are stopped.
Leave ==
    /\ mounted
    /\ mounted' = FALSE
    /\ held' = FALSE
    /\ asked' = FALSE
    /\ late' = opening
    /\ Disarm(FALSE)
    /\ GiveBack(FALSE)
    /\ UNCHANGED <<server, onScreen, busy, camera, opening, permission, begun, tangled>>

-----------------------------------------------------------------------------
(* The camera.                                                             *)

\* startCamera, up to its await.
StartCamera ==
    /\ camera \notin {"active", "starting"}
    /\ camera' = "starting"
    /\ opening' = TRUE

\* The permission query of the effect resolves; only a standing grant starts the camera.
PermissionState ==
    /\ Active /\ camera = "idle" /\ ~asked
    /\ asked' = TRUE
    /\ IF permission = "granted" THEN StartCamera ELSE UNCHANGED <<camera, opening>>
    /\ UNCHANGED <<held, permission, late>>
    /\ UNCHANGED <<server, screen, full, window, begun, tangled>>

\* The intro offers the manual control only once the camera has been denied.
ControlShown == mounted /\ Intro(onScreen) /\ camera = "denied"

TryAgain ==
    /\ ControlShown /\ Here
    /\ StartCamera
    /\ UNCHANGED <<asked, held, permission, late>>
    /\ UNCHANGED <<server, screen, full, window, begun, tangled>>

\* startFaceMonitor returns: the hook holds the stream, mounted or not.
Opened ==
    /\ opening /\ permission # "denied"
    /\ opening' = FALSE
    /\ camera' = "active"
    /\ held' = TRUE
    /\ UNCHANGED <<asked, permission, late>>
    /\ UNCHANGED <<server, screen, full, window, begun, tangled>>

\* It throws: permission, device or model; or the video does not play, and the stream that
\* was opened a line above stays on, with nothing that could stop it.
NotOpened ==
    /\ opening
    /\ opening' = FALSE
    /\ camera' = "denied"
    /\ UNCHANGED <<asked, held, permission, late>>
    /\ UNCHANGED <<server, screen, full, window, begun, tangled>>

\* The candidate changes the permission in the browser.
ChangePermission ==
    /\ permission' \in {"granted", "denied"} \ {permission}
    /\ UNCHANGED <<camera, asked, opening, held, late>>
    /\ UNCHANGED <<server, screen, full, window, begun, tangled>>

-----------------------------------------------------------------------------
(* Full screen.                                                            *)

\* The fullscreenchange listener on an exit: the page's own is told apart by the flag.
OnExit(byCandidate) ==
    IF ~Active THEN UNCHANGED <<selfExit, unheard>>
    ELSE /\ selfExit' = FALSE
         /\ unheard' = IF byCandidate /\ selfExit THEN unheard + 1
                       ELSE IF ~byCandidate /\ ~selfExit THEN unheard + 1
                       ELSE unheard

ExitedByCandidate ==
    /\ fullscreen /\ exiting = "no"
    /\ fullscreen' = FALSE
    /\ OnExit(TRUE)
    /\ UNCHANGED <<exiting, server, screen, eye, window, begun, tangled>>

\* exitFullscreen's request takes effect.
ExitLands ==
    /\ exiting # "no"
    /\ exiting' = "no"
    /\ fullscreen' = FALSE
    /\ OnExit(FALSE)
    /\ UNCHANGED <<server, screen, eye, window, begun, tangled>>

\* Or is refused, and tried once more.
ExitRefused ==
    /\ exiting # "no"
    /\ exiting' = IF exiting = "first" THEN "retry" ELSE "no"
    /\ selfExit' = (exiting = "first")
    /\ UNCHANGED <<fullscreen, unheard, server, screen, eye, window, begun, tangled>>

\* The bar's button back into full screen, and F11, which the page takes for itself.
ReturnToFullscreen ==
    /\ Armed /\ Here /\ ~fullscreen
    /\ fullscreen' = TRUE
    /\ UNCHANGED <<selfExit, exiting, unheard, server, screen, eye, window, begun, tangled>>

-----------------------------------------------------------------------------
(* Leaving the window.                                                     *)

\* Mutant of Depart: each of blur and visibilitychange records its own departure.
DepartEachTime ==
    /\ away' = TRUE
    /\ signals' = signals + 1

\* leave: one departure is one event.
Depart ==
    /\ away' = TRUE
    /\ signals' = IF away THEN signals ELSE signals + 1

\* The history of an absence: it starts when the candidate stops being here, and ends when
\* the page gets focus or is seen again.
Absent == armedSince' = IF Here THEN Armed ELSE armedSince
Returned == signals' = 0 /\ armedSince' = FALSE

OnBlur ==
    /\ focused
    /\ focused' = FALSE
    /\ timer' = Armed
    /\ Absent
    /\ UNCHANGED <<visible, away, signals>>
    /\ UNCHANGED <<server, screen, eye, full, begun, tangled>>

\* The grace has passed: the timer asks again whether the page has the focus.
GraceElapses ==
    /\ timer
    /\ timer' = FALSE
    /\ IF ~focused THEN Depart ELSE UNCHANGED <<away, signals>>
    /\ UNCHANGED <<focused, visible, armedSince>>
    /\ UNCHANGED <<server, screen, eye, full, begun, tangled>>

OnHidden ==
    /\ visible
    /\ visible' = FALSE
    /\ timer' = FALSE
    /\ Absent
    /\ IF Armed THEN Depart ELSE UNCHANGED <<away, signals>>
    /\ UNCHANGED focused
    /\ UNCHANGED <<server, screen, eye, full, begun, tangled>>

\* returned: the focus is back, or the page is seen again.
OnReturn ==
    /\ \/ ~focused /\ visible /\ focused' = TRUE /\ UNCHANGED visible
       \/ ~visible /\ visible' = TRUE /\ UNCHANGED focused
    /\ timer' = FALSE
    /\ away' = FALSE
    /\ Returned
    /\ UNCHANGED <<server, screen, eye, full, begun, tangled>>

PageNext ==
    \/ \E s \in Slots:
        Serve(s) \/ Reply(s) \/ Fail(s) \/ Expire(s) \/ Answer(s)
        \/ PressBegin(s) \/ Begin(s)
    \/ AutoSubmit \/ Leave
    \/ PermissionState \/ TryAgain \/ Opened \/ NotOpened \/ ChangePermission
    \/ ExitedByCandidate \/ ExitLands \/ ExitRefused \/ ReturnToFullscreen
    \/ OnBlur \/ GraceElapses \/ OnHidden \/ OnReturn

PageSpec == PageInit /\ [][PageNext]_pageVars

-----------------------------------------------------------------------------
(***************************************************************************)
(* One departure is one event.  While the candidate is here nothing is     *)
(* held against them; an absence makes at most one tab_switch, and one     *)
(* that hid the page makes it at once; and each exit from full screen is   *)
(* recorded when the candidate made it and not when the page did - unless  *)
(* an older reply has brought back a screen the page had moved on from, or *)
(* Begin was pressed while another call was in flight: a start names no    *)
(* section, and one that is delayed begins whichever is next by then.      *)
(***************************************************************************)
OneSignalPerDeparture ==
    ~tangled =>
    /\ signals <= 1
    /\ Here => signals = 0
    /\ Armed /\ armedSince /\ ~visible => signals = 1
    /\ unheard = 0

(***************************************************************************)
(* A section begun on this page is watched by a camera the hook holds for  *)
(* as long as the page is there, and a page that was left holds none,      *)
(* unless a start was in flight when it was left.                          *)
(***************************************************************************)
CameraFollowsThePage ==
    /\ Armed /\ begun => held
    /\ ~mounted /\ ~late => ~held

(***************************************************************************)
(* The watch follows the page: its events and its camera.                  *)
(***************************************************************************)
WatchFollowsThePage == OneSignalPerDeparture /\ CameraFollowsThePage

==============================================================================
