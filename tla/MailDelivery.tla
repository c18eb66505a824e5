---------------------------- MODULE MailDelivery ----------------------------
(***************************************************************************)
(* What becomes of an email once it is queued: the invite-emails queue and *)
(* its worker (backend/src/queues/invite-emails), and the transport that   *)
(* posts to the mail provider with an access token it refreshes            *)
(* (backend/src/mail/zoho-api.transport.ts).                               *)
(*                                                                         *)
(* The worker takes one job at a time as it is configured; the transport   *)
(* is written for several, and MailSlots says how many.  Every failure may *)
(* happen at any time: what keeps the exploration finite is the program's  *)
(* own limits on attempts and on stalls.                                   *)
(***************************************************************************)
EXTENDS Naturals, FiniteSets

CONSTANTS
    Mails,          \* the emails put on the queue
    MailSlots,      \* how many jobs the worker has in hand at once
    MailAttempts,   \* attempts of the producers' options
    MaxRestarts,    \* how often the queue restarts a job whose worker died
    Tokens          \* bound: access tokens; one nobody holds is issued again

ASSUME MailAssumption ==
    /\ {MailSlots, MailAttempts} \subseteq Nat \ {0}
    /\ MaxRestarts \in Nat
    /\ IsFiniteSet(Mails)
    \* a delivery holds one token, or the one that was refused and the next
    /\ Tokens = 1..(2 * Cardinality(Mails) + 2)

NoToken == 0

VARIABLES
    mail,           \* the job of each email
    delivery,       \* where its deliver() stands, in this process
    accessToken,    \* the cached token, until the clock reaches expiresAt
    refreshing,     \* the shared promise is set
    tokenRequests,  \* requests for a token on their way
    honoured,       \* the tokens the provider accepts
    copies          \* the copies the provider is known to have taken of each
                    \* email: one whose answer was lost is in nobody's count

mailVars == <<mail, delivery, accessToken, refreshing, tokenRequests, honoured, copies>>
cache == <<accessToken, refreshing, tokenRequests, honoured>>

NoDelivery == [at |-> "idle", forced |-> FALSE, token |-> NoToken, refused |-> NoToken]

MailInit ==
    /\ mail = [m \in Mails |-> [state |-> "absent", made |-> 0, stalls |-> 0]]
    /\ delivery = [m \in Mails |-> NoDelivery]
    /\ accessToken = NoToken
    /\ refreshing = FALSE /\ tokenRequests = 0
    /\ honoured = {}
    /\ copies = [m \in Mails |-> 0]

InUse == {accessToken} \cup {delivery[m].token : m \in Mails} \cup {delivery[m].refused : m \in Mails}

At(m, place) == delivery[m].at = place
JobBecomes(m, state) == mail' = [mail EXCEPT ![m].state = state]
\* A delivery that ends lets go of its tokens.
DeliveryGoes(m, place) ==
    delivery' = [delivery EXCEPT ![m] = IF place \in {"sent", "failed"}
                                        THEN [NoDelivery EXCEPT !.at = place] ELSE [@ EXCEPT !.at = place]]

-----------------------------------------------------------------------------
(* The queue.                                                              *)

EnqueueMail(m) ==
    /\ mail[m].state = "absent"
    /\ JobBecomes(m, "waiting")
    /\ UNCHANGED <<delivery, cache, copies>>

TakeJob(m) ==
    /\ mail[m].state = "waiting"
    /\ Cardinality({n \in Mails : delivery[n].at # "idle"}) < MailSlots
    /\ JobBecomes(m, "active")
    /\ delivery' = [delivery EXCEPT ![m] = [NoDelivery EXCEPT !.at = "token"]]
    /\ UNCHANGED <<cache, copies>>

\* The processor returns, and the queue forgets the job.
Completes(m) ==
    /\ At(m, "sent")
    /\ JobBecomes(m, "done")
    /\ delivery' = [delivery EXCEPT ![m] = NoDelivery]
    /\ UNCHANGED <<cache, copies>>

\* The processor throws: another attempt, when the backoff is over, or none.
Throws(m) ==
    /\ At(m, "failed")
    /\ mail' = [mail EXCEPT ![m].made = @ + 1,
                            ![m].state = IF mail[m].made + 1 < MailAttempts THEN "waiting" ELSE "failed"]
    /\ delivery' = [delivery EXCEPT ![m] = NoDelivery]
    /\ UNCHANGED <<cache, copies>>

\* An active job that nobody has in hand any more.
Stalls(m) ==
    /\ mail[m].state = "active" /\ At(m, "idle")
    /\ mail' = [mail EXCEPT ![m].stalls = @ + 1,
                            ![m].state = IF mail[m].stalls < MaxRestarts THEN "waiting" ELSE "failed"]
    /\ UNCHANGED <<delivery, cache, copies>>

\* The process dies: the transport's fields are lost, the jobs stay active in
\* Redis, and nobody knows of the messages that were just taken.
ProcessDies ==
    /\ copies' = [m \in Mails |-> copies[m] - (IF At(m, "sent") THEN 1 ELSE 0)]
    /\ delivery' = [m \in Mails |-> NoDelivery]
    /\ accessToken' = NoToken
    /\ refreshing' = FALSE /\ tokenRequests' = 0
    /\ UNCHANGED <<mail, honoured>>

-----------------------------------------------------------------------------
(* ZohoApiTransport.                                                       *)

Cached == accessToken # NoToken

\* (mutant) A forced refresh looks at the cache as well.
MayUseCacheAlways(m) == Cached

MayUseCache(m) == ~delivery[m].forced /\ Cached

\* token(), with the cached one.
UsesCache(m) ==
    /\ At(m, "token") /\ MayUseCache(m)
    /\ delivery' = [delivery EXCEPT ![m].at = "post", ![m].token = accessToken]
    /\ UNCHANGED <<mail, cache, copies>>

\* (mutant) Every send asks for a token of its own.
NewRequestsEach == 1

\* refreshing ??= refreshToken(): one request for all who wait.
NewRequests == IF refreshing THEN 0 ELSE 1

AwaitsRefresh(m) ==
    /\ At(m, "token") /\ ~MayUseCache(m)
    /\ DeliveryGoes(m, "refresh")
    /\ refreshing' = TRUE
    /\ tokenRequests' = tokenRequests + NewRequests
    /\ UNCHANGED <<mail, accessToken, honoured, copies>>

\* All who wait go on with the token of the answer, or fail with it.
Waiters == {m \in Mails : At(m, "refresh")}

\* The token the provider issues: one that nobody holds.
NextToken == CHOOSE t \in Tokens \ InUse : \A u \in Tokens \ InUse : t <= u

RefreshOk ==
    /\ tokenRequests > 0
    /\ accessToken' = NextToken
    /\ honoured' = (honoured \cap InUse) \cup {NextToken}
    /\ delivery' = [m \in Mails |->
            IF m \in Waiters THEN [delivery[m] EXCEPT !.at = "post", !.token = NextToken] ELSE delivery[m]]
    /\ refreshing' = FALSE /\ tokenRequests' = tokenRequests - 1
    /\ UNCHANGED <<mail, copies>>

\* (mutant) The handle is only cleared when the refresh succeeds.
HandleAfterFailureKept == TRUE

HandleAfterFailure == FALSE

RefreshFails ==
    /\ tokenRequests > 0
    /\ delivery' = [m \in Mails |->
            IF m \in Waiters THEN [NoDelivery EXCEPT !.at = "failed"] ELSE delivery[m]]
    /\ refreshing' = HandleAfterFailure /\ tokenRequests' = tokenRequests - 1
    /\ UNCHANGED <<mail, accessToken, honoured, copies>>

\* deliver(): the provider takes the message and says so.
PostAccepted(m) ==
    /\ At(m, "post") /\ delivery[m].token \in honoured
    /\ copies' = [copies EXCEPT ![m] = @ + 1]
    /\ DeliveryGoes(m, "sent")
    /\ UNCHANGED <<mail, cache>>

\* (mutant) A 200 whose body reports a failure passes for a success.
VerdictOfStatusAlone == {"failed", "sent"}

\* An error status, a 200 whose body reports one (both are checked), or no
\* answer, to a message that may have been taken.
VerdictOfFailure == {"failed"}

PostFails(m) ==
    /\ At(m, "post")
    /\ \E verdict \in VerdictOfFailure : DeliveryGoes(m, verdict)
    /\ UNCHANGED <<mail, cache, copies>>

\* 401: once more with a forced refresh, or give up.
PostRefused(m) ==
    /\ At(m, "post") /\ delivery[m].token \notin honoured
    /\ delivery' = [delivery EXCEPT ![m] =
            IF @.forced THEN [NoDelivery EXCEPT !.at = "failed"]
            ELSE [at |-> "token", forced |-> TRUE, token |-> NoToken, refused |-> @.token]]
    /\ UNCHANGED <<mail, cache, copies>>

\* The hour is up, by the clock of the process or by the provider's.
Expires == Cached /\ accessToken' = NoToken
           /\ UNCHANGED <<mail, delivery, refreshing, tokenRequests, honoured, copies>>

Invalidated == honoured # {} /\ honoured' = {}
               /\ UNCHANGED <<mail, delivery, accessToken, refreshing, tokenRequests, copies>>

-----------------------------------------------------------------------------

Works(m) ==
    \/ TakeJob(m) \/ Completes(m) \/ Throws(m) \/ Stalls(m)
    \/ UsesCache(m) \/ AwaitsRefresh(m)

Answered(m) == PostAccepted(m) \/ PostFails(m) \/ PostRefused(m)

MailNext ==
    \/ \E m \in Mails : EnqueueMail(m) \/ Works(m) \/ Answered(m)
    \/ RefreshOk \/ RefreshFails
    \/ Expires \/ Invalidated \/ ProcessDies

MailSpec == MailInit /\ [][MailNext]_mailVars

-----------------------------------------------------------------------------
(* Properties.                                                             *)

\* An email is recorded as sent when the provider took it and said so, and once
\* it has said so it is not posted again: "re-sending is safe because Zoho
\* rejected this one" (deliver).
CopiesAreKnown ==
    \A m \in Mails : copies[m] = IF mail[m].state = "done" \/ At(m, "sent") THEN 1 ELSE 0

\* "Concurrent sends share one token request" (refreshing), nobody waits for a
\* request that is not on its way, and the retry after a 401 does not go out
\* with the token that was refused.
TokensAreShared ==
    /\ tokenRequests = (IF refreshing THEN 1 ELSE 0)
    /\ Waiters # {} => refreshing
    /\ \A m \in Mails : At(m, "post") /\ delivery[m].forced => delivery[m].token # delivery[m].refused

\* What is recorded of an email is what happened to it.
MailIsAccounted == CopiesAreKnown /\ TokensAreShared

=============================================================================
