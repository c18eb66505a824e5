--------------------------- MODULE SignalChannel ----------------------------
(***************************************************************************)
(* The proctoring channel: the socket frontend/src/lib/socket.ts opens for *)
(* one mounted test screen, and the gateway and service that record what   *)
(* it carries (backend/src/proctoring/).                                   *)
(*                                                                         *)
(* The socket library (external) holds what is emitted while there is no   *)
(* connection, and tries again a fixed number of times.  The token travels *)
(* in the handshake, as it was when the socket was made.                   *)
(***************************************************************************)
EXTENDS Naturals, FiniteSets

CONSTANT MaxTries       \* reconnectionAttempts

CONSTANTS               \* bounds of the exploration, not of the program
    MaxSignals,         \* signals that are followed
    MaxDrops,           \* connections that are lost
    MaxRefused          \* log inserts that are refused

ASSUME ChannelAssumption ==
    /\ {MaxTries, MaxSignals, MaxDrops, MaxRefused} \subseteq Nat
    /\ MaxTries > 0

Signals == 1..MaxSignals

VARIABLES
    socket, tries,      \* the client's socket, and its failed attempts in a row
    fresh,              \* the token of the handshake has not expired
    status,            \* assessment_sessions.status, as far as record asks
    place,              \* where each signal is
    drops, dbFaults,
    \* history
    snapped             \* the signals that were on a connection when it broke

channel == <<socket, tries, fresh, status, place, drops, dbFaults, snapped>>

Places == {"unsent", "buffered", "wire", "checked", "stored", "refused", "lost"}

ChannelTypeOK ==
    /\ socket \in {"none", "connecting", "up", "down", "failed", "refused", "closed"}
    /\ tries \in 0..MaxTries
    /\ fresh \in BOOLEAN
    /\ status \in {"in_progress", "closed"}
    /\ place \in [Signals -> Places]
    /\ drops \in 0..MaxDrops /\ dbFaults \in 0..MaxRefused
    /\ snapped \subseteq Signals

ChannelInit ==
    /\ socket = "none" /\ tries = 0 /\ fresh = TRUE
    /\ status = "in_progress"
    /\ place = [s \in Signals |-> "unsent"]
    /\ drops = 0 /\ dbFaults = 0
    /\ snapped = {}

\* The signals of some places move to another.
Moved(from, to) == [s \in Signals |-> IF place[s] = from THEN to ELSE place[s]]

-----------------------------------------------------------------------------
(* The page.                                                               *)

\* connectProctoring, when monitoring is mounted.
Open ==
    /\ socket = "none"
    /\ socket' = "connecting"
    /\ UNCHANGED <<tries, fresh, status, place, drops, dbFaults, snapped>>

\* emit: fire and forget.  Without a connection the library holds the signal.
Emit(s) ==
    /\ socket \notin {"none", "closed"}
    /\ place[s] = "unsent"
    /\ place' = [place EXCEPT ![s] = IF socket = "up" THEN "wire" ELSE "buffered"]
    /\ UNCHANGED <<socket, tries, fresh, status, drops, dbFaults, snapped>>

\* The effect's cleanup; what the socket still held goes with it.
Disconnect ==
    /\ socket \notin {"none", "closed"}
    /\ socket' = "closed"
    /\ place' = Moved("buffered", "lost")
    /\ UNCHANGED <<tries, fresh, status, drops, dbFaults, snapped>>

-----------------------------------------------------------------------------
(* The connection.                                                         *)

Trying == socket \in {"connecting", "down"}

\* Mutant of MayTry: a socket that does not reconnect.
MayTryOnce == tries = 0

MayTry == tries < MaxTries

\* The handshake reaches the gateway, which verifies the token.  A refusal is final: the
\* library does not try again after one.
Handshake ==
    /\ Trying /\ MayTry
    /\ IF fresh
       THEN socket' = "up" /\ tries' = 0 /\ place' = Moved("buffered", "wire")
       ELSE socket' = "refused" /\ UNCHANGED <<tries, place>>
    /\ UNCHANGED <<fresh, status, drops, dbFaults, snapped>>

\* It does not get there.
Unreachable ==
    /\ Trying /\ MayTry
    /\ tries' = tries + 1
    /\ socket' = IF tries' = MaxTries THEN "failed" ELSE socket
    /\ UNCHANGED <<fresh, status, place, drops, dbFaults, snapped>>

\* The connection breaks; what was on it may or may not have arrived.
Drop ==
    /\ socket = "up" /\ drops < MaxDrops
    /\ drops' = drops + 1
    /\ socket' = "down"
    /\ \E gone \in SUBSET {s \in Signals: place[s] = "wire"}:
        place' = [s \in Signals |-> IF s \in gone THEN "lost" ELSE place[s]]
    /\ snapped' = snapped \cup {s \in Signals: place[s] = "wire"}
    /\ UNCHANGED <<tries, fresh, status, dbFaults>>

TokenExpires ==
    /\ fresh
    /\ fresh' = FALSE
    /\ UNCHANGED <<socket, tries, status, place, drops, dbFaults, snapped>>

-----------------------------------------------------------------------------
(* The server.                                                             *)

\* record's read of the session: only an attempt in progress accrues signals.
Check(s) ==
    /\ place[s] = "wire"
    /\ place' = [place EXCEPT ![s] =
                    IF status = "in_progress" THEN "checked" ELSE "refused"]
    /\ UNCHANGED <<socket, tries, fresh, status, drops, dbFaults, snapped>>

\* Its insert.
Save(s) ==
    /\ place[s] = "checked"
    /\ place' = [place EXCEPT ![s] = "stored"]
    /\ UNCHANGED <<socket, tries, fresh, status, drops, dbFaults, snapped>>

\* Or the database refuses, and nobody hears of it.
SaveRefused(s) ==
    /\ place[s] = "checked" /\ dbFaults < MaxRefused
    /\ dbFaults' = dbFaults + 1
    /\ place' = [place EXCEPT ![s] = "lost"]
    /\ UNCHANGED <<socket, tries, fresh, status, drops, snapped>>

CloseAttempt ==
    /\ status = "in_progress"
    /\ status' = "closed"
    /\ UNCHANGED <<socket, tries, fresh, place, drops, dbFaults, snapped>>

ChannelNext ==
    \/ Open \/ Disconnect
    \/ Handshake \/ Unreachable \/ Drop \/ TokenExpires
    \/ \E s \in Signals: Emit(s) \/ Check(s) \/ Save(s) \/ SaveRefused(s)
    \/ CloseAttempt

\* The library keeps trying while it may, and an awaited call of the server returns.
ChannelFairness ==
    /\ WF_channel(Handshake \/ Unreachable)
    /\ \A s \in Signals: WF_channel(Check(s)) /\ WF_channel(Save(s) \/ SaveRefused(s))

ChannelSpec == ChannelInit /\ [][ChannelNext]_channel /\ ChannelFairness

-----------------------------------------------------------------------------
\* Why a signal may never be recorded.
Excused(s) ==
    \/ status = "closed"
    \/ socket \in {"closed", "refused"}
    \/ socket = "failed" /\ tries = MaxTries
    \/ s \in snapped
    \/ dbFaults > 0

(***************************************************************************)
(* A signal the page emitted is recorded, also when it was emitted while   *)
(* the connection was away - unless the attempt closes, the page is left,  *)
(* the connection broke under the signal itself, every attempt to          *)
(* reconnect fails, or the handshake is refused because the token it       *)
(* carries has run out.                                                    *)
(***************************************************************************)
SignalsLand == \A s \in Signals: place[s] # "unsent" ~> place[s] = "stored" \/ Excused(s)

==============================================================================
