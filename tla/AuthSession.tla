---------------------------- MODULE AuthSession ----------------------------
(***************************************************************************)
(* Token rotation between the backend (identity/service.go) and the axios  *)
(* instance of the web applications (api-client/src/client.ts), for the    *)
(* tabs that one browser has open of one of the two applications.  They    *)
(* share localStorage; each has its own module state isRefreshing and      *)
(* failedQueue.                                                            *)
(*                                                                         *)
(* A login and a refresh each issue a pair of an access and a refresh      *)
(* token: both are named by the pair's number, 0 is "no token".  A request *)
(* is sent to an endpoint behind middleware.Auth, so it is answered 401    *)
(* unless it bears an access token that has not expired.                   *)
(***************************************************************************)
EXTENDS Naturals

CONSTANTS
    App,        \* "citizen" or "admin": they live on two origins, and share nothing
    Tabs,
    Requests,   \* the API calls the pages make, each once
    Logouts,    \* those of them that are POST /auth/logout, in the citizen application
    TabOf,      \* [Requests -> Tabs]
    MaxLogins,  \* bound of the model
    Faults      \* which failures a run explores

AllFaults == {"network", "crash", "insert_fails", "reload"}

ASSUME SessionAssumption ==
    /\ App \in {"citizen", "admin"}
    /\ Logouts \subseteq Requests
    /\ App = "admin" => Logouts = {}
    /\ TabOf \in [Requests -> Tabs]
    /\ MaxLogins \in Nat
    /\ Faults \subseteq AllFaults

VARIABLES
    issued,      \* server: number of pairs issued
    session,     \* server: [pair -> the login it descends from]
    logins,      \* server: number of logins
    live,        \* table refresh_tokens: stored and not revoked
    fresh,       \* access tokens that have not expired
    access,      \* localStorage access_token
    refresh,     \* localStorage refresh_token
    refreshing,  \* isRefreshing of each tab
    common,      \* api.defaults.headers.common.Authorization of each tab
    status,      \* where each request is
    bearer,      \* its Authorization header
    retried,     \* its _retry mark
    captured,    \* the refresh token a logout was called with
    offered,     \* the refresh token of the POST /auth/refresh it started
    call,        \* where the handler of that POST is
    minted       \* the pair that handler issued

server   == <<issued, session, logins, live, fresh>>
storage  == <<access, refresh>>
tabState == <<refreshing, common>>
requests == <<status, bearer, retried, captured>>
calls    == <<offered, call, minted>>
vars == <<issued, session, logins, live, fresh, access, refresh, refreshing, common,
          status, bearer, retried, captured, offered, call, minted>>

Settled == {"ok", "failed", "gone"}

\* failedQueue of tab t
Queued(t) == {r \in Requests : TabOf[r] = t /\ status[r] = "queued"}

-----------------------------------------------------------------------------
Init ==
    /\ issued = 0
    /\ session = [k \in {} |-> 0]
    /\ logins = 0
    /\ live = {}
    /\ fresh = {}
    /\ access = 0
    /\ refresh = 0
    /\ refreshing = [t \in Tabs |-> FALSE]
    /\ common = [t \in Tabs |-> 0]
    /\ status = [r \in Requests |-> "idle"]
    /\ bearer = [r \in Requests |-> 0]
    /\ retried = [r \in Requests |-> FALSE]
    /\ captured = [r \in Requests |-> 0]
    /\ offered = [r \in Requests |-> 0]
    /\ call = [r \in Requests |-> "none"]
    /\ minted = [r \in Requests |-> 0]

-----------------------------------------------------------------------------
(***************************************************************************)
(* The server.                                                             *)
(***************************************************************************)

\* generateTokens: a new pair of session s.  The INSERT's error is ignored, so
\* the refresh token may be handed out without being stored.
GenerateTokens(s) ==
    /\ issued' = issued + 1
    /\ session' = [k \in 1..(issued + 1) |-> IF k = issued + 1 THEN s ELSE session[k]]
    /\ fresh' = fresh \union {issued + 1}
    /\ \/ live' = live \union {issued + 1}
       \/ "insert_fails" \in Faults /\ live' = live

\* Fifteen minutes are over for pair k.
Expire(k) ==
    /\ k \in fresh
    /\ fresh' = fresh \ {k}
    /\ UNCHANGED <<issued, session, logins, live, storage, tabState, requests, calls>>

\* Mutant: the row is not checked to be unrevoked.
RotateUnchecked(r) ==
    /\ call[r] = "posted"
    /\ live' = live \ {offered[r]}
    /\ call' = [call EXCEPT ![r] = "rotated"]
    /\ UNCHANGED <<issued, session, logins, fresh, storage, tabState, requests, offered, minted>>

\* RefreshService: the UPDATE ... WHERE is_revoked = FALSE RETURNING is atomic.
Rotate(r) ==
    /\ call[r] = "posted"
    /\ offered[r] \in live
    /\ live' = live \ {offered[r]}
    /\ call' = [call EXCEPT ![r] = "rotated"]
    /\ UNCHANGED <<issued, session, logins, fresh, storage, tabState, requests, offered, minted>>

\* It updates no row: 401.
Deny(r) ==
    /\ call[r] = "posted"
    /\ offered[r] \notin live
    /\ call' = [call EXCEPT ![r] = "denied"]
    /\ UNCHANGED <<server, storage, tabState, requests, offered, minted>>

\* RefreshService goes on to generateTokens and answers, heard or not.
Issue(r) ==
    /\ call[r] = "rotated"
    /\ GenerateTokens(session[offered[r]])
    /\ call' = [call EXCEPT ![r] = "issued"]
    /\ minted' = [minted EXCEPT ![r] = issued + 1]
    /\ UNCHANGED <<logins, storage, tabState, requests, offered>>

\* The process dies under the handler.
HandlerDies(r) ==
    /\ "crash" \in Faults
    /\ call[r] \in {"posted", "rotated"}
    /\ call' = [call EXCEPT ![r] = "dead"]
    /\ UNCHANGED <<server, storage, tabState, requests, offered, minted>>

\* LogoutService revokes the token it is given.
Revoke(r) ==
    /\ r \in Logouts
    /\ status[r] = "flying"
    /\ bearer[r] \in fresh
    /\ live' = live \ {captured[r]}
    /\ status' = [status EXCEPT ![r] = "revoked"]
    /\ UNCHANGED <<issued, session, logins, fresh, storage, tabState, bearer, retried, captured, calls>>

-----------------------------------------------------------------------------
(***************************************************************************)
(* The pages.                                                              *)
(***************************************************************************)

\* A sign-in succeeds in some tab and its page stores both tokens.
Login ==
    /\ logins < MaxLogins
    /\ GenerateTokens(logins + 1)
    /\ logins' = logins + 1
    /\ access' = issued + 1
    /\ refresh' = issued + 1
    /\ UNCHANGED <<tabState, requests, calls>>

\* The admin portal's sign-out only clears localStorage.
SignOut ==
    /\ App = "admin"
    /\ access' = 0
    /\ refresh' = 0
    /\ UNCHANGED <<server, tabState, requests, calls>>

\* useAuth runs: a logout started from this rendering will send this token.
Render(r) ==
    /\ r \in Logouts
    /\ status[r] = "idle"
    /\ captured' = [captured EXCEPT ![r] = refresh]
    /\ UNCHANGED <<server, storage, tabState, status, bearer, retried, calls>>

\* A page calls the API; the request interceptor reads localStorage, and the
\* tab's default header stands in when nothing is stored.
Start(r) ==
    /\ status[r] = "idle"
    /\ r \in Logouts => captured[r] # 0
    /\ status' = [status EXCEPT ![r] = "flying"]
    /\ bearer' = [bearer EXCEPT ![r] = IF access # 0 THEN access ELSE common[TabOf[r]]]
    /\ UNCHANGED <<server, storage, tabState, retried, captured, calls>>

\* A logout of a page rendered without a refresh token sends nothing.
LogoutLocally(r) ==
    /\ r \in Logouts
    /\ status[r] = "idle"
    /\ captured[r] = 0
    /\ status' = [status EXCEPT ![r] = "ok"]
    /\ access' = 0
    /\ refresh' = 0
    /\ UNCHANGED <<server, tabState, bearer, retried, captured, calls>>

\* api(originalRequest) after a refresh: the request interceptor runs again.
Resend(r) ==
    /\ status[r] = "ready"
    /\ status' = [status EXCEPT ![r] = "flying"]
    /\ bearer' = [bearer EXCEPT ![r] = IF access # 0 THEN access ELSE @]
    /\ UNCHANGED <<server, storage, tabState, retried, captured, calls>>

\* useAuth's onSettled clears localStorage once a logout has settled.
OnSettled(r) == IF r \in Logouts THEN access' = 0 /\ refresh' = 0 ELSE UNCHANGED storage

\* The query client tries a failed mutation once more before onSettled: the second
\* try is another member of Logouts.
OnError(r) == OnSettled(r) \/ UNCHANGED storage

Succeed(r) ==
    /\ IF r \in Logouts THEN status[r] = "revoked" ELSE status[r] = "flying" /\ bearer[r] \in fresh
    /\ status' = [status EXCEPT ![r] = "ok"]
    /\ OnSettled(r)
    /\ UNCHANGED <<server, tabState, bearer, retried, captured, calls>>

\* No answer arrives.
Disconnect(r) ==
    /\ "network" \in Faults
    /\ status[r] \in {"flying", "revoked"}
    /\ status' = [status EXCEPT ![r] = "failed"]
    /\ OnError(r)
    /\ UNCHANGED <<server, tabState, bearer, retried, captured, calls>>

(***************************************************************************)
(* The response interceptor on a 401.                                      *)
(***************************************************************************)
Unauthorized(r) == status[r] = "flying" /\ bearer[r] \notin fresh

\* A request that was retried is not retried again.
GiveUp(r) ==
    /\ Unauthorized(r)
    /\ retried[r]
    /\ status' = [status EXCEPT ![r] = "failed"]
    /\ OnError(r)
    /\ UNCHANGED <<server, tabState, bearer, retried, captured, calls>>

\* Mutant: isRefreshing is not looked at, every 401 refreshes.
RefreshesAnyway(r) ==
    /\ Unauthorized(r)
    /\ ~retried[r]
    /\ refresh # 0
    /\ retried' = [retried EXCEPT ![r] = TRUE]
    /\ refreshing' = [refreshing EXCEPT ![TabOf[r]] = TRUE]
    /\ status' = [status EXCEPT ![r] = "refreshing"]
    /\ offered' = [offered EXCEPT ![r] = refresh]
    /\ call' = [call EXCEPT ![r] = "posted"]
    /\ UNCHANGED <<server, storage, common, bearer, captured, minted>>

\* Mutant: the refresh is sent without looking whether there is a token to send.
RefreshesBlindly(r) ==
    /\ Unauthorized(r)
    /\ ~retried[r]
    /\ ~refreshing[TabOf[r]]
    /\ retried' = [retried EXCEPT ![r] = TRUE]
    /\ refreshing' = [refreshing EXCEPT ![TabOf[r]] = TRUE]
    /\ status' = [status EXCEPT ![r] = "refreshing"]
    /\ offered' = [offered EXCEPT ![r] = refresh]
    /\ call' = [call EXCEPT ![r] = "posted"]
    /\ UNCHANGED <<server, storage, common, bearer, captured, minted>>

\* A refresh is under way in this tab: wait for it in failedQueue.
Park(r) ==
    /\ Unauthorized(r)
    /\ ~retried[r]
    /\ refreshing[TabOf[r]]
    /\ status' = [status EXCEPT ![r] = "queued"]
    /\ UNCHANGED <<server, storage, tabState, bearer, retried, captured, calls>>

\* There is no refresh token: reject, with isRefreshing already set.
NoRefreshToken(r) ==
    /\ Unauthorized(r)
    /\ ~retried[r]
    /\ ~refreshing[TabOf[r]]
    /\ refresh = 0
    /\ retried' = [retried EXCEPT ![r] = TRUE]
    /\ refreshing' = [refreshing EXCEPT ![TabOf[r]] = TRUE]
    /\ access' = 0
    /\ status' = [status EXCEPT ![r] = "failed"]
    /\ UNCHANGED <<server, refresh, common, bearer, captured, calls>>

\* POST /auth/refresh with the stored token.
StartRefresh(r) ==
    /\ Unauthorized(r)
    /\ ~retried[r]
    /\ ~refreshing[TabOf[r]]
    /\ refresh # 0
    /\ retried' = [retried EXCEPT ![r] = TRUE]
    /\ refreshing' = [refreshing EXCEPT ![TabOf[r]] = TRUE]
    /\ status' = [status EXCEPT ![r] = "refreshing"]
    /\ offered' = [offered EXCEPT ![r] = refresh]
    /\ call' = [call EXCEPT ![r] = "posted"]
    /\ UNCHANGED <<server, storage, common, bearer, captured, minted>>

\* Mutant: only the access token is stored.
RefreshKeepsOld(r) ==
    /\ status[r] = "refreshing"
    /\ call[r] = "issued"
    /\ access' = minted[r]
    /\ refreshing' = [refreshing EXCEPT ![TabOf[r]] = FALSE]
    /\ common' = [common EXCEPT ![TabOf[r]] = minted[r]]
    /\ LET S == Queued(TabOf[r]) \union {r} IN
        /\ status' = [q \in Requests |-> IF q \in S THEN "ready" ELSE status[q]]
        /\ bearer' = [q \in Requests |-> IF q \in S THEN minted[r] ELSE bearer[q]]
    /\ UNCHANGED <<server, refresh, retried, captured, calls>>

\* The refresh succeeded: store the pair, release the queue, send everything again.
RefreshOk(r) ==
    /\ status[r] = "refreshing"
    /\ call[r] = "issued"
    /\ access' = minted[r]
    /\ refresh' = minted[r]
    /\ refreshing' = [refreshing EXCEPT ![TabOf[r]] = FALSE]
    /\ common' = [common EXCEPT ![TabOf[r]] = minted[r]]
    /\ LET S == Queued(TabOf[r]) \union {r} IN
        /\ status' = [q \in Requests |-> IF q \in S THEN "ready" ELSE status[q]]
        /\ bearer' = [q \in Requests |-> IF q \in S THEN minted[r] ELSE bearer[q]]
    /\ UNCHANGED <<server, retried, captured, calls>>

\* Mutant: the queue is not rejected.
ErrorKeepsQueue(r) ==
    /\ status[r] = "refreshing"
    /\ call[r] \in {"denied", "dead"} \/ "network" \in Faults
    /\ access' = 0
    /\ refresh' = 0
    /\ refreshing' = [refreshing EXCEPT ![TabOf[r]] = FALSE]
    /\ status' = [status EXCEPT ![r] = "failed"]
    /\ UNCHANGED <<server, common, bearer, retried, captured, calls>>

\* The refresh failed, or its answer was lost: reject the queue, clear localStorage.
RefreshError(r) ==
    /\ status[r] = "refreshing"
    /\ call[r] \in {"denied", "dead"} \/ "network" \in Faults
    /\ access' = 0
    /\ refresh' = 0
    /\ refreshing' = [refreshing EXCEPT ![TabOf[r]] = FALSE]
    /\ LET S == Queued(TabOf[r]) \union {r} IN
        status' = [q \in Requests |-> IF q \in S THEN "failed" ELSE status[q]]
    /\ UNCHANGED <<server, common, bearer, retried, captured, calls>>

\* The page is reloaded: the tab's module state and its requests are gone; what
\* it had posted is still handled.
Reload(t) ==
    /\ "reload" \in Faults
    /\ refreshing' = [refreshing EXCEPT ![t] = FALSE]
    /\ common' = [common EXCEPT ![t] = 0]
    /\ status' = [r \in Requests |->
                    IF TabOf[r] = t /\ status[r] \notin Settled \union {"idle"}
                    THEN "gone" ELSE status[r]]
    /\ UNCHANGED <<server, storage, bearer, retried, captured, calls>>

-----------------------------------------------------------------------------
Server(r) == Rotate(r) \/ Deny(r) \/ Issue(r) \/ Revoke(r)

Page(r) ==
    Render(r) \/ Start(r) \/ LogoutLocally(r) \/ Resend(r) \/ Succeed(r) \/ Disconnect(r)

Interceptor(r) ==
    \/ GiveUp(r) \/ Park(r) \/ NoRefreshToken(r) \/ StartRefresh(r)
    \/ RefreshOk(r) \/ RefreshError(r)

Next ==
    \/ Login \/ SignOut
    \/ \E k \in fresh : Expire(k)
    \/ \E r \in Requests :
        Server(r) \/ HandlerDies(r) \/ Page(r) \/ Interceptor(r)
    \/ \E t \in Tabs : Reload(t)

Spec == Init /\ [][Next]_vars

\* A request that was sent is answered, the server finishes a handler it began
\* and the page handles what arrives.  Users, expiry and failures owe nothing.
Fairness ==
    \A r \in Requests :
        /\ WF_vars(Server(r))
        /\ WF_vars(Interceptor(r))
        /\ WF_vars(Resend(r))
        /\ WF_vars(Succeed(r))

FairSpec == Spec /\ Fairness

-----------------------------------------------------------------------------
(***************************************************************************)
(* Properties.                                                             *)
(***************************************************************************)

\* The values each variable ranges over: every token a page holds was issued.
Pairs == 1..issued
PairOrNone == 0..issued
Statuses == {"idle", "flying", "queued", "refreshing", "ready", "revoked"} \union Settled
CallStates == {"none", "posted", "rotated", "issued", "denied", "dead"}
TypeOK ==
    /\ issued \in Nat
    /\ logins \in Nat
    /\ session \in [Pairs -> 1..logins]
    /\ live \subseteq Pairs
    /\ fresh \subseteq Pairs
    /\ access \in PairOrNone
    /\ refresh \in PairOrNone
    /\ refreshing \in [Tabs -> BOOLEAN]
    /\ common \in [Tabs -> PairOrNone]
    /\ status \in [Requests -> Statuses]
    /\ bearer \in [Requests -> PairOrNone]
    /\ retried \in [Requests -> BOOLEAN]
    /\ captured \in [Requests -> PairOrNone]
    /\ offered \in [Requests -> PairOrNone]
    /\ call \in [Requests -> CallStates]
    /\ minted \in [Requests -> PairOrNone]
    /\ \A r \in Requests : call[r] # "none" => offered[r] # 0

\* docs/architecture.md 7.2, refresh tokens are rotated on every use: however
\* many tabs present the same token at once and whatever fails on the way, a
\* login never has two refresh tokens that work (RefreshService).
OneLivePerSession == \A k, l \in live : session[k] = session[l] => k = l

\* No two refreshes are granted for one refresh token (RefreshService).
TokenUsedOnce ==
    \A q, r \in Requests :
        call[q] \in {"rotated", "issued"} /\ call[r] \in {"rotated", "issued"} /\ offered[q] = offered[r]
            => q = r

\* Rotation (RefreshService): a login is one chain of refresh tokens, of which the last one
\* works and each of the others was good for one refresh.
RotationIsChain == OneLivePerSession /\ TokenUsedOnce

\* A tab runs one refresh at a time, and only while isRefreshing is set can
\* requests wait in failedQueue: when it is reset the queue has been drained.
OneRefreshPerTab ==
    \A q, r \in Requests :
        /\ status[r] \in {"refreshing", "queued"} => refreshing[TabOf[r]]
        /\ status[q] = "refreshing" /\ status[r] = "refreshing" /\ TabOf[q] = TabOf[r] => q = r

\* While nothing fails, the refresh token in localStorage is one the server
\* accepts, or the answer that replaces or retires it is on its way, although
\* several tabs rotate it and sign in and out at once (client.ts).
StoredTokenUsable ==
    refresh # 0 =>
        \/ refresh \in live
        \/ \E r \in Requests :
            \/ offered[r] = refresh /\ status[r] = "refreshing" /\ call[r] \in {"rotated", "issued"}
            \/ captured[r] = refresh /\ status[r] = "revoked"

\* A request parked behind a running refresh is released, to be sent again or
\* rejected (processQueue).
QueueIsReleased ==
    \A r \in Requests :
        status[r] = "queued" /\ (\E q \in Requests : TabOf[q] = TabOf[r] /\ status[q] = "refreshing")
            ~> status[r] # "queued"
=============================================================================
