------------------------------- MODULE SignIn -------------------------------
(***************************************************************************)
(* One account's sign-in state: the refresh token its browsers hold, its   *)
(* password and its reset links (backend/src/auth/auth.service.ts,         *)
(* backend/src/users/users.service.ts, frontend/src/lib/auth.tsx, api.ts). *)
(*                                                                         *)
(* The user row keeps the hash of one current refresh token and of a few   *)
(* that were superseded a moment ago.  Every refresh reads the row, checks *)
(* the token it was sent, and writes the columns anew from what it read.   *)
(* The browser learns the new token when the response arrives: late, out   *)
(* of order, or never, if the page was left meanwhile.                     *)
(***************************************************************************)
EXTENDS Naturals, Sequences, FiniteSets

CONSTANTS
    Browsers,       \* the cookie jars
    Links,          \* the reset links
    Nobody,         \* what an idle request serves
    Handlers,       \* the requests in flight
    MaxRecent,      \* MAX_RECENT_REFRESH_TOKENS
    Grace           \* jwt.refreshGraceSeconds, in ticks

CONSTANTS           \* bounds of the exploration, not of the program
    MaxSent,       \* requests ever sent
    Horizon,        \* the last tick
    MaxRefused       \* calls that are refused

ASSUME ClientsAssumption ==
    /\ Browsers \cap Links = {}
    /\ Nobody \notin Browsers \cup Links

ASSUME SignInBounds ==
    /\ {MaxRecent, Grace, MaxSent, Horizon, MaxRefused} \subseteq Nat
    /\ MaxRecent > 0

None == 0           \* no token: a null hash, a cleared cookie

VARIABLES
    account,                \* the account: its current and recent tokens, and its password
    link,               \* password_reset_tokens
    cookie,             \* the refresh cookie of each browser
    responses,          \* the responses on their way, with the cookie each sets
    pc, who, copy,      \* the requests: program counter, whom it serves, what it has read
    now, mishaps, sent,
    \* history
    given,             \* every token issued, in order
    version,            \* the number of updates of the row
    signedOut,          \* the version at which the tokens were last cleared
    passwords,          \* passwords ever set
    resetTo,            \* the password of the last reset
    redeemed,           \* how many passwords each link has set
    raced               \* whether an update was ever made from a row read before another

requests == <<pc, who, copy>>
client == <<cookie, responses>>
elapsed == <<now, mishaps, sent>>
history == <<given, version, signedOut, passwords, resetTo, redeemed, raced>>
signInVars == <<account, link, client, requests, elapsed, history>>

Entries == [token: Nat, at: Nat]
\* Tokens are numbered in the order they were issued, which is the order of the list of
\* recent ones: newest first.
Rows == [current: Nat, recent: SUBSET Entries, password: Nat]
Copies == [account: Rows, presented: Nat, version: Nat]
\* The sign-in a token continues, by the version it was made at and the password it was
\* made with, and when the token stopped being the current one.
Issues == [signIn: Nat, password: Nat, superseded: Nat]

NoAccount == [current |-> None, recent |-> {}, password |-> 0]
NoCopy == [account |-> NoAccount, presented |-> None, version |-> 0]

SignInTypeOK ==
    /\ account \in Rows
    /\ link \in [Links -> {"unminted", "live", "used", "expired"}]
    /\ cookie \in [Browsers -> Nat]
    /\ responses \subseteq [browser: Browsers, token: Nat]
    /\ pc \in [Handlers -> {"idle", "start", "rotate", "revoke", "change",
                            "claim", "burn", "password", "clear"}]
    /\ who \in [Handlers -> Browsers \cup Links \cup {Nobody}]
    /\ copy \in [Handlers -> Copies]
    /\ given \in Seq(Issues)
    /\ redeemed \in [Links -> Nat]
    /\ {now, mishaps, sent, version, signedOut, passwords, resetTo} \subseteq Nat
    /\ raced \in BOOLEAN

\* The account has its first password and nobody is signed in.
SignInInit ==
    /\ account = NoAccount
    /\ link = [l \in Links |-> "unminted"]
    /\ cookie = [b \in Browsers |-> None]
    /\ responses = {}
    /\ pc = [r \in Handlers |-> "idle"]
    /\ who = [r \in Handlers |-> Nobody]
    /\ copy = [r \in Handlers |-> NoCopy]
    /\ given = <<>>
    /\ version = 0 /\ signedOut = 0
    /\ passwords = 0 /\ resetTo = 0
    /\ redeemed = [l \in Links |-> 0]
    /\ now = 0 /\ mishaps = 0 /\ sent = 0
    /\ raced = FALSE

MoveTo(r, l) == pc' = [pc EXCEPT ![r] = l]

\* A request arrives and reads the row.
Read(r, x, presented, l) ==
    /\ pc[r] = "idle"
    /\ sent < MaxSent
    /\ sent' = sent + 1
    /\ MoveTo(r, l)
    /\ who' = [who EXCEPT ![r] = x]
    /\ copy' = [copy EXCEPT ![r] =
                    [account |-> account, presented |-> presented, version |-> version]]

Finish(r) ==
    /\ MoveTo(r, "idle")
    /\ who' = [who EXCEPT ![r] = Nobody]
    /\ copy' = [copy EXCEPT ![r] = NoCopy]

\* The row is updated; an update made from a row that has changed since races.
Update(r, new) ==
    /\ account' = new
    /\ version' = version + 1
    /\ raced' = (raced \/ copy[r].version # version)

Tokens(entries) == {e.token : e \in entries}

\* slice: the n newest entries.
Newest(entries, n) ==
    {e \in entries : Cardinality({t \in Tokens(entries) : t > e.token}) < n}

\* liveRecentTokens: "superseded tokens still inside the grace window, newest first".
Live(entries) == Newest({e \in entries : e.at + Grace >= now}, MaxRecent)

\* The tokens a refresh would accept now: the current one and the live recent ones.
Accepted == IF account.current = None THEN {} ELSE {account.current} \cup Tokens(Live(account.recent))

\* issueTokens: a new token, recorded by the update and sent in the response's cookie.
Issue(r, signIn, pw) ==
    /\ LET left == [i \in 1 .. Len(given) |->
                       IF i = account.current THEN [given[i] EXCEPT !.superseded = now]
                                          ELSE given[i]]
       IN  given' = Append(left, [signIn |-> signIn, password |-> pw, superseded |-> now])
    /\ responses' = responses \cup {[browser |-> who[r], token |-> Len(given) + 1]}

(***************************************************************************)
(* login                                                                   *)
(***************************************************************************)
\* The password is verified against the row that was read.
LogIn(r, b) ==
    /\ Read(r, b, None, "start")
    /\ UNCHANGED <<account, link, client, now, mishaps, history>>

\* startRefreshTokenChain: "nothing earlier is worth honouring".
StartChain(r) ==
    /\ pc[r] = "start"
    /\ Update(r, [account EXCEPT !.current = Len(given) + 1, !.recent = {}])
    /\ Issue(r, version + 1, copy[r].account.password)
    /\ Finish(r)
    /\ UNCHANGED <<link, cookie, elapsed, signedOut, passwords, resetTo, redeemed>>

(***************************************************************************)
(* refresh                                                                 *)
(***************************************************************************)
\* A page load, or the one refresh a burst of 401s collapses into, sends the cookie.
\* The token is the current one or was superseded a moment ago; or it is neither, and
\* everything is revoked.  Without a current token there is nothing to do.
Refresh(r, b) ==
    /\ cookie[b] # None
    /\ account.current # None
    /\ Read(r, b, cookie[b], IF cookie[b] \in Accepted THEN "rotate" ELSE "revoke")
    /\ UNCHANGED <<account, link, client, now, mishaps, history>>

\* What a rotation keeps of the recent tokens of the row that was read.
Kept(r) == Newest(Live(copy[r].account.recent), MaxRecent - 1)

\* Mutant of Rotated: what is kept is the token that was presented.
RotatedPresented(r) == {[token |-> copy[r].presented, at |-> now]} \cup Kept(r)

\* rotateRefreshToken: the outgoing token joins the recent ones.
Rotated(r) == {[token |-> copy[r].account.current, at |-> now]} \cup Kept(r)

Rotate(r) ==
    /\ pc[r] = "rotate"
    /\ Update(r, [account EXCEPT !.current = Len(given) + 1, !.recent = Rotated(r)])
    /\ LET from == given[copy[r].presented]
       IN  Issue(r, from.signIn, from.password)
    /\ Finish(r)
    /\ UNCHANGED <<link, cookie, elapsed, signedOut, passwords, resetTo, redeemed>>

\* clearRefreshTokens.
Clear(r) ==
    /\ Update(r, [account EXCEPT !.current = None, !.recent = {}])
    /\ signedOut' = version + 1
    /\ UNCHANGED given

Revoke(r) ==
    /\ pc[r] = "revoke"
    /\ Clear(r)
    /\ Finish(r)
    /\ UNCHANGED <<link, client, elapsed, passwords, resetTo, redeemed>>

\* Mutant of Logout: only the cookie is cleared.
LogoutCookieOnly(r, b) ==
    /\ pc[r] = "idle"
    /\ cookie[b] # None
    /\ sent < MaxSent
    /\ sent' = sent + 1
    /\ version' = version + 1
    /\ signedOut' = version + 1
    /\ responses' = responses \cup {[browser |-> b, token |-> None]}
    /\ UNCHANGED <<account, link, cookie, requests, now, mishaps, given, passwords, resetTo,
                   redeemed, raced>>

\* logout writes without reading; its response clears the cookie.
Logout(r, b) ==
    /\ pc[r] = "idle"
    /\ cookie[b] # None
    /\ sent < MaxSent
    /\ sent' = sent + 1
    /\ account' = [account EXCEPT !.current = None, !.recent = {}]
    /\ version' = version + 1
    /\ signedOut' = version + 1
    /\ responses' = responses \cup {[browser |-> b, token |-> None]}
    /\ UNCHANGED <<link, cookie, requests, now, mishaps, given, passwords, resetTo, redeemed, raced>>

\* A response arrives.  One that never does is one whose page was left meanwhile.
Deliver(m) ==
    /\ responses' = responses \ {m}
    /\ cookie' = [cookie EXCEPT ![m.browser] = m.token]
    /\ UNCHANGED <<account, link, requests, elapsed, history>>

(***************************************************************************)
(* requestPasswordReset, resetPassword, changePassword                     *)
(***************************************************************************)
\* mintResetLink: earlier links stay live.
Mint(l) ==
    /\ link[l] = "unminted"
    /\ link' = [link EXCEPT ![l] = "live"]
    /\ UNCHANGED <<account, client, requests, elapsed, history>>

Expire(l) ==
    /\ link[l] = "live"
    /\ link' = [link EXCEPT ![l] = "expired"]
    /\ UNCHANGED <<account, client, requests, elapsed, history>>

\* The link is looked up, and refused unless it is live.
ResetFind(r, l) ==
    /\ link[l] = "live"
    /\ Read(r, l, None, "claim")
    /\ UNCHANGED <<account, link, client, now, mishaps, history>>

\* Mutant of ResetClaim: the update is not conditional.
ResetClaimBlind(r) ==
    /\ pc[r] = "claim"
    /\ link' = [link EXCEPT ![who[r]] = "used"]
    /\ MoveTo(r, "burn")
    /\ UNCHANGED <<account, client, who, copy, elapsed, history>>

\* "Conditioned on it still being unspent": zero rows updated, and it is refused.  The
\* expiry is not looked at again.
ResetClaim(r) ==
    /\ pc[r] = "claim"
    /\ \/ /\ link[who[r]] = "used"
          /\ Finish(r)
          /\ UNCHANGED link
       \/ /\ link[who[r]] # "used"
          /\ link' = [link EXCEPT ![who[r]] = "used"]
          /\ MoveTo(r, "burn")
          /\ UNCHANGED <<who, copy>>
    /\ UNCHANGED <<account, client, elapsed, history>>

\* "Every other link this account has outstanding dies here."
ResetBurn(r) ==
    /\ pc[r] = "burn"
    /\ link' = [l \in Links |-> IF link[l] = "unminted" THEN "unminted" ELSE "used"]
    /\ MoveTo(r, "password")
    /\ UNCHANGED <<account, client, who, copy, elapsed, history>>

\* setPassword writes without reading.
ResetPassword(r) ==
    /\ pc[r] = "password"
    /\ account' = [account EXCEPT !.password = passwords + 1]
    /\ version' = version + 1
    /\ passwords' = passwords + 1
    /\ resetTo' = passwords + 1
    /\ redeemed' = [redeemed EXCEPT ![who[r]] = @ + 1]
    /\ copy' = [copy EXCEPT ![r].version = version + 1]
    /\ MoveTo(r, "clear")
    /\ UNCHANGED <<link, client, who, elapsed, given, signedOut, raced>>

\* Mutant of ResetClear: the sessions are left alone, as changePassword leaves them.
ResetClearNothing(r) ==
    /\ pc[r] = "clear"
    /\ Finish(r)
    /\ UNCHANGED <<account, link, client, elapsed, history>>

\* "Anyone already signed in as this account is signed out."
ResetClear(r) ==
    /\ pc[r] = "clear"
    /\ account' = [account EXCEPT !.current = None, !.recent = {}]
    /\ version' = version + 1
    /\ signedOut' = version + 1
    /\ Finish(r)
    /\ UNCHANGED <<link, client, elapsed, given, passwords, resetTo, redeemed, raced>>

\* changePassword: the current password is verified, and the new one written.
ChangeFind(r, b) ==
    /\ cookie[b] # None
    /\ Read(r, b, None, "change")
    /\ UNCHANGED <<account, link, client, now, mishaps, history>>

ChangeUpdate(r) ==
    /\ pc[r] = "change"
    /\ Update(r, [account EXCEPT !.password = passwords + 1])
    /\ passwords' = passwords + 1
    /\ Finish(r)
    /\ UNCHANGED <<link, client, elapsed, given, signedOut, resetTo, redeemed>>

(***************************************************************************)
(* Time and failures                                                       *)
(***************************************************************************)
Tick ==
    /\ now < Horizon
    /\ now' = now + 1
    /\ UNCHANGED <<account, link, client, requests, mishaps, sent, history>>

\* An awaited call is refused, or the server dies: the request ends where it is.
Refuse(r) ==
    /\ pc[r] # "idle"
    /\ mishaps < MaxRefused
    /\ mishaps' = mishaps + 1
    /\ Finish(r)
    /\ UNCHANGED <<account, link, client, now, sent, history>>

SignInStep(r) ==
    \/ StartChain(r) \/ Rotate(r) \/ Revoke(r)
    \/ ResetClaim(r) \/ ResetBurn(r) \/ ResetPassword(r) \/ ResetClear(r)
    \/ ChangeUpdate(r)
    \/ Refuse(r)

Call(r) ==
    \/ \E b \in Browsers : LogIn(r, b) \/ Refresh(r, b) \/ Logout(r, b) \/ ChangeFind(r, b)
    \/ \E l \in Links : ResetFind(r, l)

SignInNext ==
    \/ \E r \in Handlers : Call(r) \/ SignInStep(r)
    \/ \E m \in responses : Deliver(m)
    \/ \E l \in Links : Mint(l) \/ Expire(l)
    \/ Tick

SignInSpec == SignInInit /\ [][SignInNext]_signInVars

(***************************************************************************)
(* What must hold                                                          *)
(***************************************************************************)
\* resetPassword claims the link with a conditional update: however many requests
\* present it at once, and whatever fails, a link sets at most one password.
LinkWorksOnce == \A l \in Links : redeemed[l] <= 1

\* rotateRefreshToken keeps the outgoing token "so that a token which was issued but never
\* used still stays acceptable": of a session that was not signed out, every token that
\* was superseded at most Grace ago, and by at most MaxRecent later ones, is accepted, in
\* whatever order the responses arrived, or if they never did, unless an update was made
\* from a stale read.
SameSession(t) == account.current # None /\ given[t].signIn = given[account.current].signIn

Fresh(t) ==
    /\ account.current - t <= MaxRecent
    /\ t = account.current \/ given[t].superseded + Grace >= now

UnusedTokenIsHonoured ==
    ~raced => \A t \in 1 .. Len(given) : SameSession(t) /\ Fresh(t) => t \in Accepted

\* clearRefreshTokens ends every session: unless an update was made from a stale read, a
\* token is accepted only for a sign-in made after the last sign-out.
SignOutIsFinal == ~raced => \A t \in Accepted : given[t].signIn > signedOut

\* resetPassword signs out "anyone already signed in": once a reset is through, nobody
\* is signed in by a password older than the one it set, unless an update was made from
\* a stale read or the reset was cut short.
ResetTakesOver ==
    ~raced /\ mishaps = 0 /\ (\A r \in Handlers : pc[r] # "clear") =>
        \A t \in Accepted : given[t].password >= resetTo

\* The two together: a session that was ended, by either, is over.
SessionsEnd == SignOutIsFinal /\ ResetTakesOver

==============================================================================
