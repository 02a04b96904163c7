---------------------------- MODULE ClientProofs ----------------------------
(***************************************************************************)
(* Proofs about what the web applications keep for themselves.  First the  *)
(* tokens of AuthSession, for any tabs, requests, logins and faults: the   *)
(* rotation is a chain, a tab refreshes once at a time, and the stored     *)
(* token stays usable.  Then CommandCentre: the order of its feed, why an  *)
(* entry goes, and that the layers are what lists and filters make them.   *)
(***************************************************************************)
EXTENDS AuthSession, CommandCentre, TLAPS

LEMMA StepCases ==
    ASSUME [Next]_vars
    PROVE  \/ Login \/ SignOut \/ (\E k \in fresh : Expire(k)) \/ (\E t \in Tabs : Reload(t))
           \/ (\E r \in Requests : Rotate(r) \/ Deny(r) \/ Issue(r) \/ Revoke(r) \/ HandlerDies(r))
           \/ (\E r \in Requests : Render(r) \/ Start(r) \/ LogoutLocally(r) \/ Resend(r)
                                    \/ Succeed(r) \/ Disconnect(r))
           \/ (\E r \in Requests : GiveUp(r) \/ Park(r) \/ NoRefreshToken(r) \/ StartRefresh(r)
                                    \/ RefreshOk(r) \/ RefreshError(r))
           \/ UNCHANGED vars
  BY DEF Next, Server, Page, Interceptor

(***************************************************************************)
(* Types.  Pairs only grow, so what was issued stays issued.               *)
(***************************************************************************)
LEMMA Grows ==
    ASSUME TypeOK, issued' = issued + 1
    PROVE  /\ issued' \in Nat
           /\ issued + 1 \in PairOrNone' /\ issued + 1 \in Pairs'
           /\ Pairs \subseteq Pairs' /\ PairOrNone \subseteq PairOrNone'
  BY DEF TypeOK, Pairs, PairOrNone

LEMMA GeneratedTypes ==
    ASSUME TypeOK, NEW s \in Nat, NEW m \in Nat, s \in 1..m, logins <= m, GenerateTokens(s)
    PROVE  /\ issued' \in Nat
           /\ session' \in [Pairs' -> 1..m]
           /\ live' \subseteq Pairs' /\ fresh' \subseteq Pairs'
<1>1. issued' = issued + 1 /\ issued \in Nat
  BY DEF GenerateTokens, TypeOK
<1>2. issued' \in Nat /\ issued + 1 \in Pairs' /\ Pairs \subseteq Pairs'
  BY <1>1, Grows
<1>3. \A k \in Pairs' : k # issued + 1 => k \in Pairs
  BY <1>1 DEF Pairs
<1>4. Pairs' = 1..(issued + 1)
  BY <1>1 DEF Pairs
<1>5. \A k \in Pairs : session[k] \in 1..m
  BY DEF TypeOK
<1>6. session' \in [Pairs' -> 1..m]
  BY <1>3, <1>4, <1>5 DEF GenerateTokens
<1>7. live' \subseteq live \union {issued + 1} /\ fresh' = fresh \union {issued + 1}
  BY DEF GenerateTokens
<1>8. QED
  BY <1>2, <1>6, <1>7 DEF TypeOK

LEMMA PageTypes ==
    ASSUME TypeOK, PairOrNone \subseteq PairOrNone'
    PROVE  /\ access \in PairOrNone' /\ refresh \in PairOrNone'
           /\ common \in [Tabs -> PairOrNone']
           /\ bearer \in [Requests -> PairOrNone']
           /\ captured \in [Requests -> PairOrNone']
           /\ offered \in [Requests -> PairOrNone']
           /\ minted \in [Requests -> PairOrNone']
  BY DEF TypeOK

THEOREM TypeCorrect == Spec => []TypeOK
<1>1. Init => TypeOK
  <2> SUFFICES ASSUME Init PROVE TypeOK
    OBVIOUS
  <2>1. Pairs = {} /\ 0 \in PairOrNone /\ issued \in Nat /\ logins \in Nat
    BY DEF Init, Pairs, PairOrNone
  <2>2. session \in [Pairs -> 1..logins] /\ live \subseteq Pairs /\ fresh \subseteq Pairs
    BY <2>1 DEF Init
  <2>3. access \in PairOrNone /\ refresh \in PairOrNone /\ common \in [Tabs -> PairOrNone]
    BY <2>1 DEF Init
  <2>4. /\ bearer \in [Requests -> PairOrNone] /\ captured \in [Requests -> PairOrNone]
        /\ offered \in [Requests -> PairOrNone] /\ minted \in [Requests -> PairOrNone]
    BY <2>1 DEF Init
  <2>5. refreshing \in [Tabs -> BOOLEAN] /\ retried \in [Requests -> BOOLEAN]
    BY DEF Init
  <2>6. status \in [Requests -> Statuses] /\ call \in [Requests -> CallStates]
    BY DEF Init, Statuses, CallStates
  <2>7. \A r \in Requests : call[r] = "none"
    BY DEF Init
  <2>8. QED
    BY <2>1, <2>2, <2>3, <2>4, <2>5, <2>6, <2>7 DEF TypeOK
<1>2. TypeOK /\ [Next]_vars => TypeOK'
  <2> SUFFICES ASSUME TypeOK, [Next]_vars PROVE TypeOK'
    OBVIOUS
  <2>p. issued' = issued => Pairs' = Pairs /\ PairOrNone' = PairOrNone /\ 0 \in PairOrNone
    BY DEF Pairs, PairOrNone, TypeOK
  <2>1. CASE Login
    <3>1. GenerateTokens(logins + 1) /\ issued' = issued + 1 /\ logins' = logins + 1 /\ logins \in Nat
      BY <2>1 DEF Login, GenerateTokens, TypeOK
    <3>2. /\ issued' \in Nat /\ session' \in [Pairs' -> 1..logins']
          /\ live' \subseteq Pairs' /\ fresh' \subseteq Pairs'
      BY <3>1, GeneratedTypes
    <3>3. issued + 1 \in PairOrNone' /\ PairOrNone \subseteq PairOrNone'
      BY <3>1, Grows
    <3>4. QED
      BY <2>1, <3>1, <3>2, <3>3, PageTypes DEF Login, TypeOK, tabState, requests, calls
  <2>2. ASSUME NEW r \in Requests, Issue(r) PROVE TypeOK'
    <3>0. offered[r] \in Pairs
      BY <2>2 DEF Issue, TypeOK, Pairs, PairOrNone
    <3>1. session[offered[r]] \in 1..logins /\ session[offered[r]] \in Nat /\ logins \in Nat
      BY <3>0 DEF TypeOK
    <3>2. GenerateTokens(session[offered[r]]) /\ issued' = issued + 1 /\ logins' = logins
      BY <2>2 DEF Issue, GenerateTokens
    <3>3. /\ issued' \in Nat /\ session' \in [Pairs' -> 1..logins']
          /\ live' \subseteq Pairs' /\ fresh' \subseteq Pairs'
      BY <3>1, <3>2, GeneratedTypes
    <3>4. issued + 1 \in PairOrNone' /\ PairOrNone \subseteq PairOrNone'
      BY <3>2, Grows
    <3>5. call' \in [Requests -> CallStates] /\ \A q \in Requests : call'[q] # "none" => call[q] # "none"
      BY <2>2 DEF Issue, TypeOK, CallStates
    <3>6. minted' \in [Requests -> PairOrNone']
      BY <2>2, <3>4, PageTypes DEF Issue
    <3>7. QED
      BY <2>2, <3>1, <3>2, <3>3, <3>4, <3>5, <3>6, PageTypes DEF Issue, TypeOK, tabState, requests, storage
  <2> USE <2>p DEF TypeOK, server, storage, tabState, requests, calls
  <2>3. ASSUME NEW k \in fresh, Expire(k) PROVE TypeOK'
    BY <2>3 DEF Expire
  <2>4. ASSUME NEW r \in Requests, Rotate(r) PROVE TypeOK'
    BY <2>4 DEF Rotate, CallStates
  <2>5. ASSUME NEW r \in Requests, Deny(r) PROVE TypeOK'
    BY <2>5 DEF Deny, CallStates
  <2>6. ASSUME NEW r \in Requests, HandlerDies(r) PROVE TypeOK'
    BY <2>6 DEF HandlerDies, CallStates
  <2>7. ASSUME NEW r \in Requests, Revoke(r) PROVE TypeOK'
    BY <2>7 DEF Revoke, Statuses
  <2>8. CASE SignOut
    BY <2>8 DEF SignOut
  <2>9. ASSUME NEW r \in Requests, Render(r) PROVE TypeOK'
    BY <2>9 DEF Render
  <2>10. ASSUME NEW r \in Requests, Start(r) PROVE TypeOK'
    BY <2>10, SessionAssumption DEF Start, Statuses
  <2>11. ASSUME NEW r \in Requests, LogoutLocally(r) PROVE TypeOK'
    BY <2>11 DEF LogoutLocally, Statuses, Settled
  <2>12. ASSUME NEW r \in Requests, Resend(r) PROVE TypeOK'
    BY <2>12 DEF Resend, Statuses
  <2>13. ASSUME NEW r \in Requests, Succeed(r) PROVE TypeOK'
    BY <2>13 DEF Succeed, OnSettled, OnError, Statuses, Settled
  <2>14. ASSUME NEW r \in Requests, Disconnect(r) PROVE TypeOK'
    BY <2>14 DEF Disconnect, OnSettled, OnError, Statuses, Settled
  <2>15. ASSUME NEW r \in Requests, GiveUp(r) PROVE TypeOK'
    BY <2>15 DEF GiveUp, OnSettled, OnError, Statuses, Settled
  <2>16. ASSUME NEW r \in Requests, Park(r) PROVE TypeOK'
    BY <2>16 DEF Park, Statuses
  <2>17. ASSUME NEW r \in Requests, NoRefreshToken(r) PROVE TypeOK'
    BY <2>17 DEF NoRefreshToken, Statuses, Settled
  <2>18. ASSUME NEW r \in Requests, StartRefresh(r) PROVE TypeOK'
    BY <2>18 DEF StartRefresh, Statuses, CallStates
  <2>19. ASSUME NEW r \in Requests, RefreshOk(r) PROVE TypeOK'
    BY <2>19 DEF RefreshOk, Statuses
  <2>20. ASSUME NEW r \in Requests, RefreshError(r) PROVE TypeOK'
    BY <2>20 DEF RefreshError, Statuses, Settled
  <2>21. ASSUME NEW t \in Tabs, Reload(t) PROVE TypeOK'
    BY <2>21 DEF Reload, Statuses, Settled
  <2>22. CASE UNCHANGED vars
    BY <2>22 DEF vars
  <2>23. QED
    BY <2>1, <2>2, <2>3, <2>4, <2>5, <2>6, <2>7, <2>8, <2>9, <2>10, <2>11, <2>12, <2>13,
       <2>14, <2>15, <2>16, <2>17, <2>18, <2>19, <2>20, <2>21, <2>22, StepCases
<1>3. QED
  BY <1>1, <1>2, PTL DEF Spec

-----------------------------------------------------------------------------
(***************************************************************************)
(* One working refresh token per login.  The strengthening follows a token *)
(* through a refresh: between the UPDATE that revokes it and the INSERT    *)
(* of its successor the session has no working token, and only one refresh *)
(* of the session is at that point.                                        *)
(***************************************************************************)
Granted(r) == call[r] \in {"rotated", "issued"}

SessionInv ==
    /\ OneLivePerSession
    /\ \A r \in Requests : Granted(r) => offered[r] \notin live
    /\ \A k \in live, r \in Requests :
        call[r] = "rotated" => session[offered[r]] # session[k]
    /\ \A q, r \in Requests :
        call[q] = "rotated" /\ call[r] = "rotated" /\ session[offered[q]] = session[offered[r]] => q = r
    /\ TokenUsedOnce

LEMMA GrantedIsIssued ==
    ASSUME TypeOK, NEW r \in Requests, Granted(r)
    PROVE  offered[r] \in Pairs /\ session[offered[r]] \in 1..logins
  BY DEF TypeOK, Granted, Pairs, PairOrNone

\* A new pair of session s, when no working token and no refresh of s is left.
LEMMA SessionStep ==
    ASSUME TypeOK, SessionInv, [Next]_vars
    PROVE  SessionInv'
<1> USE DEF SessionInv, OneLivePerSession, TokenUsedOnce, Granted
<1>1. ASSUME UNCHANGED <<session, offered>>, live' \subseteq live,
             \A r \in Requests : Granted(r)' => call'[r] = call[r]
      PROVE  SessionInv'
  BY <1>1
<1>2. CASE Login
  <2>1. /\ live' \subseteq live \union {issued + 1} /\ UNCHANGED <<offered, call>>
        /\ session'[issued + 1] = logins + 1
        /\ \A k \in Pairs : session'[k] = session[k]
    BY <1>2 DEF Login, GenerateTokens, calls, TypeOK, Pairs
  <2>2. \A k \in Pairs : k # issued + 1 /\ session[k] # logins + 1
    BY DEF TypeOK, Pairs
  <2>3. live \subseteq Pairs
    BY DEF TypeOK
  <2>4. \A r \in Requests : Granted(r) => offered[r] \in Pairs
    BY GrantedIsIssued
  <2>5. QED
    BY <2>1, <2>2, <2>3, <2>4
<1>3. ASSUME NEW r \in Requests, Rotate(r) PROVE SessionInv'
  <2>1. /\ offered[r] \in live /\ live' = live \ {offered[r]}
        /\ UNCHANGED <<session, offered>>
        /\ call'[r] = "rotated" /\ \A q \in Requests : q # r => call'[q] = call[q]
    BY <1>3 DEF Rotate, TypeOK
  <2>2. QED
    BY <2>1
<1>4. ASSUME NEW r \in Requests, Issue(r) PROVE SessionInv'
  <2>1. /\ live' \subseteq live \union {issued + 1} /\ offered' = offered
        /\ call[r] = "rotated" /\ call'[r] = "issued"
        /\ \A q \in Requests : q # r => call'[q] = call[q]
        /\ session'[issued + 1] = session[offered[r]]
        /\ \A k \in Pairs : session'[k] = session[k]
    BY <1>4 DEF Issue, GenerateTokens, TypeOK, Pairs
  <2>2. \A k \in Pairs : k # issued + 1
    BY DEF TypeOK, Pairs
  <2>3. live \subseteq Pairs
    BY DEF TypeOK
  <2>4. \A q \in Requests : Granted(q) => offered[q] \in Pairs
    BY GrantedIsIssued
  <2>5. OneLivePerSession'
    BY <2>1, <2>2, <2>3, <2>4
  <2>6. \A q \in Requests : call'[q] = "rotated" => q # r /\ call[q] = "rotated"
    BY <2>1
  <2>7. \A k \in live', q \in Requests : call'[q] = "rotated" => session'[offered'[q]] # session'[k]
    BY <2>1, <2>2, <2>3, <2>4, <2>6
  <2>8. QED
    BY <2>1, <2>2, <2>3, <2>4, <2>5, <2>6, <2>7
<1>5. ASSUME NEW r \in Requests, StartRefresh(r) PROVE SessionInv'
  <2>1. /\ UNCHANGED <<session, live>>
        /\ call'[r] = "posted"
        /\ \A q \in Requests : q # r => call'[q] = call[q] /\ offered'[q] = offered[q]
    BY <1>5 DEF StartRefresh, server, TypeOK
  <2>2. QED
    BY <2>1
<1>6. ASSUME NEW r \in Requests, Deny(r) \/ HandlerDies(r) PROVE SessionInv'
  <2>1. /\ UNCHANGED <<session, live, offered>>
        /\ call'[r] \in {"denied", "dead"} /\ \A q \in Requests : q # r => call'[q] = call[q]
    BY <1>6 DEF Deny, HandlerDies, server, TypeOK
  <2>2. QED
    BY <1>1, <2>1
<1>7. ASSUME NEW r \in Requests, Revoke(r) PROVE SessionInv'
  BY <1>1, <1>7 DEF Revoke, calls
<1>8. ASSUME UNCHANGED <<session, live, offered, call>>
      PROVE  SessionInv'
  BY <1>1, <1>8
<1>9. CASE SignOut \/ (\E k \in fresh : Expire(k)) \/ (\E t \in Tabs : Reload(t)) \/ UNCHANGED vars
  BY <1>8, <1>9 DEF SignOut, Expire, Reload, server, calls, vars
<1>10. ASSUME NEW r \in Requests,
              \/ Render(r) \/ Start(r) \/ LogoutLocally(r) \/ Resend(r) \/ Succeed(r)
              \/ Disconnect(r) \/ GiveUp(r) \/ Park(r) \/ NoRefreshToken(r)
              \/ RefreshOk(r) \/ RefreshError(r)
       PROVE  SessionInv'
  BY <1>8, <1>10 DEF Render, Start, LogoutLocally, Resend, Succeed, Disconnect, GiveUp, Park,
     NoRefreshToken, RefreshOk, RefreshError, server, calls
<1>11. QED
  BY <1>2, <1>3, <1>4, <1>5, <1>6, <1>7, <1>9, <1>10, StepCases

LEMMA SessionInvariant == Spec => []SessionInv
<1>1. Init => SessionInv
  BY DEF Init, SessionInv, OneLivePerSession, TokenUsedOnce, Granted
<1>2. TypeOK /\ SessionInv /\ [Next]_vars => SessionInv'
  BY SessionStep
<1>3. QED
  BY <1>1, <1>2, TypeCorrect, PTL DEF Spec

(***************************************************************************)
(* Rotation is safe under concurrency: whatever tabs race, crash or lose   *)
(* answers, a login has at most one refresh token that works.              *)
(***************************************************************************)
THEOREM RotationKeepsOneToken == Spec => []OneLivePerSession
<1>1. SessionInv => OneLivePerSession
  BY DEF SessionInv
<1>2. QED
  BY <1>1, SessionInvariant, PTL

(***************************************************************************)
(* A refresh token is exchanged at most once.                              *)
(***************************************************************************)
THEOREM RotationUsesTokenOnce == Spec => []TokenUsedOnce
<1>1. SessionInv => TokenUsedOnce
  BY DEF SessionInv
<1>2. QED
  BY <1>1, SessionInvariant, PTL

(***************************************************************************)
(* isRefreshing and failedQueue: a tab runs one refresh at a time and no   *)
(* request is left in the queue when the flag is reset.                    *)
(***************************************************************************)
THEOREM OneRefresh == Spec => []OneRefreshPerTab
<1>1. Init => OneRefreshPerTab
  BY DEF Init, OneRefreshPerTab
<1>2. TypeOK /\ OneRefreshPerTab /\ [Next]_vars => OneRefreshPerTab'
  <2> SUFFICES ASSUME TypeOK, OneRefreshPerTab, [Next]_vars PROVE OneRefreshPerTab'
    OBVIOUS
  <2> USE SessionAssumption DEF OneRefreshPerTab
  <2>1. ASSUME refreshing' = refreshing,
               \A r \in Requests : status'[r] \in {"refreshing", "queued"} => status'[r] = status[r]
        PROVE  OneRefreshPerTab'
    BY <2>1
  <2>2. CASE Login \/ SignOut \/ (\E k \in fresh : Expire(k)) \/ UNCHANGED vars
    BY <2>1, <2>2 DEF Login, SignOut, Expire, tabState, requests, vars
  <2>3. ASSUME NEW t \in Tabs, Reload(t) PROVE OneRefreshPerTab'
    <3>1. /\ \A r \in Requests : TabOf[r] = t => status'[r] \notin {"refreshing", "queued"}
          /\ \A r \in Requests : TabOf[r] # t => status'[r] = status[r]
          /\ \A u \in Tabs : u # t => refreshing'[u] = refreshing[u]
      BY <2>3 DEF Reload, Settled, TypeOK
    <3>2. QED
      BY <3>1
  <2>4. ASSUME NEW r \in Requests, Rotate(r) \/ Deny(r) \/ Issue(r) \/ Revoke(r) \/ HandlerDies(r)
        PROVE  OneRefreshPerTab'
    BY <2>1, <2>4 DEF Rotate, Deny, Issue, Revoke, HandlerDies, tabState, requests, TypeOK
  <2>5. ASSUME NEW r \in Requests,
               \/ Render(r) \/ Start(r) \/ LogoutLocally(r) \/ Resend(r) \/ Succeed(r)
               \/ Disconnect(r) \/ GiveUp(r)
        PROVE  OneRefreshPerTab'
    BY <2>1, <2>5 DEF Render, Start, LogoutLocally, Resend, Succeed, Disconnect, GiveUp, tabState, TypeOK
  <2>6. ASSUME NEW r \in Requests, Park(r) PROVE OneRefreshPerTab'
    <3>1. /\ refreshing' = refreshing /\ refreshing[TabOf[r]] /\ status'[r] = "queued"
          /\ \A q \in Requests : q # r => status'[q] = status[q]
      BY <2>6 DEF Park, tabState, TypeOK
    <3>2. QED
      BY <3>1
  <2>7. ASSUME NEW r \in Requests, NoRefreshToken(r) \/ StartRefresh(r) PROVE OneRefreshPerTab'
    <3>1. /\ ~refreshing[TabOf[r]]
          /\ refreshing' = [refreshing EXCEPT ![TabOf[r]] = TRUE]
          /\ status'[r] \in {"failed", "refreshing"}
          /\ \A q \in Requests : q # r => status'[q] = status[q]
      BY <2>7 DEF NoRefreshToken, StartRefresh, TypeOK
    <3>2. refreshing'[TabOf[r]] /\ \A u \in Tabs : refreshing[u] => refreshing'[u]
      BY <3>1 DEF TypeOK
    <3>3. \A q \in Requests : status[q] = "refreshing" => TabOf[q] # TabOf[r]
      BY <3>1
    <3>4. QED
      BY <3>1, <3>2, <3>3
  <2>8. ASSUME NEW r \in Requests, RefreshOk(r) \/ RefreshError(r) PROVE OneRefreshPerTab'
    <3>1. status[r] = "refreshing"
      BY <2>8 DEF RefreshOk, RefreshError
    <3>2. \A q \in Requests : q \in Queued(TabOf[r]) \union {r} => status'[q] \in {"ready", "failed"}
      BY <2>8 DEF RefreshOk, RefreshError
    <3>3. \A q \in Requests : q \notin Queued(TabOf[r]) \union {r} => status'[q] = status[q]
      BY <2>8 DEF RefreshOk, RefreshError
    <3>4. \A q \in Requests : status'[q] \in {"refreshing", "queued"} => status'[q] = status[q] /\ TabOf[q] # TabOf[r]
      BY <3>1, <3>2, <3>3 DEF Queued
    <3>5. \A u \in Tabs : u # TabOf[r] => refreshing'[u] = refreshing[u]
      BY <2>8 DEF RefreshOk, RefreshError, TypeOK
    <3>6. QED
      BY <3>4, <3>5
  <2>9. QED
    BY <2>2, <2>3, <2>4, <2>5, <2>6, <2>7, <2>8, StepCases
<1>3. QED
  BY <1>1, <1>2, TypeCorrect, PTL DEF Spec

\* The refresh tokens of a login are a chain, whoever presents them and whatever fails
\* (RefreshService).
THEOREM RotationMakesChain == Spec => []RotationIsChain
  BY RotationKeepsOneToken, RotationUsesTokenOnce, PTL DEF RotationIsChain
-----------------------------------------------------------------------------
(***************************************************************************)
(* The token that is stored.  A pair that was issued and has not been      *)
(* stored yet is known to its own refresh only: nobody else can have       *)
(* offered it, or render a logout with it.                                 *)
(***************************************************************************)
Arriving(r) == status[r] = "refreshing" /\ call[r] = "issued"

ArrivingInv ==
    \A r \in Requests : Arriving(r) =>
        /\ minted[r] \in live /\ minted[r] # refresh
        /\ \A q \in Requests :
            /\ captured[q] # minted[r] /\ offered[q] # minted[r]
            /\ Arriving(q) /\ minted[q] = minted[r] => q = r

StoreInv ==
    /\ StoredTokenUsable
    /\ \A r \in Requests : call[r] = "posted" => status[r] = "refreshing"
    /\ ArrivingInv

\* Nothing that is stored, offered or rendered changes, nor what is on its way.
LEMMA StoreKept ==
    ASSUME StoreInv, UNCHANGED <<live, refresh, captured, offered, call, minted>>,
           \A r \in Requests : status[r] \in {"refreshing", "revoked"} => status'[r] = status[r],
           \A r \in Requests : status'[r] = "refreshing" => status[r] = "refreshing"
    PROVE  StoreInv'
BY DEF StoreInv, StoredTokenUsable, ArrivingInv, Arriving

\* localStorage is cleared; no refresh is touched but one that was denied.
LEMMA StoreCleared ==
    ASSUME StoreInv, refresh' = 0, UNCHANGED <<live, captured, offered, call, minted>>,
           \A r \in Requests : Arriving(r) \/ call[r] = "posted" => status'[r] = status[r],
           \A r \in Requests : status'[r] = "refreshing" => status[r] = "refreshing",
           \A r \in Requests : Arriving(r) => minted[r] # 0
    PROVE  StoreInv'
BY DEF StoreInv, StoredTokenUsable, ArrivingInv, Arriving

LEMMA StoreStep ==
    ASSUME TypeOK, StoreInv, [Next]_vars, Faults = {}
    PROVE  StoreInv'
<1>0. /\ live \subseteq Pairs /\ 0 \notin Pairs /\ issued + 1 \notin Pairs /\ issued + 1 \notin PairOrNone
      /\ issued + 1 # 0 /\ refresh \in PairOrNone
      /\ \A r \in Requests : captured[r] \in PairOrNone /\ offered[r] \in PairOrNone
  BY DEF TypeOK, Pairs, PairOrNone
<1>a. \A r \in Requests : Arriving(r) => minted[r] # 0 /\ minted[r] # issued + 1
  BY <1>0 DEF StoreInv, ArrivingInv
<1>1. CASE Login
  <2>1. /\ live' = live \union {issued + 1} /\ refresh' = issued + 1
        /\ UNCHANGED <<status, captured, offered, call, minted>>
    BY <1>1 DEF Login, GenerateTokens, requests, calls
  <2>2. QED
    BY <1>a, <2>1 DEF StoreInv, StoredTokenUsable, ArrivingInv, Arriving
<1>2. CASE SignOut
  BY <1>2, <1>a, StoreCleared DEF SignOut, server, requests, calls
<1>3. ASSUME NEW r \in Requests, Rotate(r) PROVE StoreInv'
  <2>1. /\ call[r] = "posted" /\ status[r] = "refreshing" /\ live' = live \ {offered[r]}
        /\ call'[r] = "rotated" /\ \A q \in Requests : q # r => call'[q] = call[q]
        /\ UNCHANGED <<refresh, status, captured, offered, minted>>
    BY <1>3 DEF Rotate, storage, requests, TypeOK, StoreInv
  <2>2. StoredTokenUsable'
    BY <2>1 DEF StoreInv, StoredTokenUsable
  <2>3. \A q \in Requests : Arriving(q)' => Arriving(q)
    BY <2>1 DEF Arriving
  <2>4. QED
    BY <2>1, <2>2, <2>3 DEF StoreInv, ArrivingInv
<1>4. ASSUME NEW r \in Requests, Deny(r) PROVE StoreInv'
  <2>1. /\ call[r] = "posted"
        /\ call'[r] = "denied" /\ \A q \in Requests : q # r => call'[q] = call[q]
        /\ UNCHANGED <<live, refresh, status, captured, offered, minted>>
    BY <1>4 DEF Deny, server, storage, requests, TypeOK
  <2>2. QED
    BY <2>1 DEF StoreInv, StoredTokenUsable, ArrivingInv, Arriving
<1>5. ASSUME NEW r \in Requests, Issue(r) PROVE StoreInv'
  <2>1. /\ call[r] = "rotated" /\ live' = live \union {issued + 1}
        /\ call'[r] = "issued" /\ \A q \in Requests : q # r => call'[q] = call[q]
        /\ minted'[r] = issued + 1 /\ \A q \in Requests : q # r => minted'[q] = minted[q]
        /\ UNCHANGED <<refresh, status, captured, offered>>
    BY <1>5 DEF Issue, GenerateTokens, storage, requests, TypeOK
  <2>2. StoredTokenUsable' /\ \A q \in Requests : call'[q] = "posted" => status'[q] = "refreshing"
    BY <2>1 DEF StoreInv, StoredTokenUsable
  <2>3. \A q \in Requests : q # r => (Arriving(q)' <=> Arriving(q))
    BY <2>1 DEF Arriving
  <2>4. \A q \in Requests : captured[q] # issued + 1 /\ offered[q] # issued + 1 /\ refresh # issued + 1
    BY <1>0
  <2>5. ArrivingInv'
    BY <1>a, <2>1, <2>3, <2>4 DEF StoreInv, ArrivingInv
  <2>6. QED
    BY <2>2, <2>5 DEF StoreInv
<1>6. ASSUME NEW r \in Requests, Revoke(r) PROVE StoreInv'
  <2>1. /\ status[r] = "flying" /\ status'[r] = "revoked" /\ live' = live \ {captured[r]}
        /\ \A q \in Requests : q # r => status'[q] = status[q]
        /\ UNCHANGED <<refresh, captured, offered, call, minted>>
    BY <1>6 DEF Revoke, storage, calls, TypeOK
  <2>2. StoredTokenUsable' /\ \A q \in Requests : call'[q] = "posted" => status'[q] = "refreshing"
    BY <2>1 DEF StoreInv, StoredTokenUsable
  <2>3. \A q \in Requests : Arriving(q)' => Arriving(q)
    BY <2>1 DEF Arriving
  <2>4. ArrivingInv'
    BY <2>1, <2>3 DEF StoreInv, ArrivingInv
  <2>5. QED
    BY <2>2, <2>4 DEF StoreInv
<1>7. ASSUME NEW r \in Requests, Render(r) PROVE StoreInv'
  <2>1. /\ status[r] = "idle" /\ captured'[r] = refresh
        /\ \A q \in Requests : q # r => captured'[q] = captured[q]
        /\ UNCHANGED <<live, refresh, status, offered, call, minted>>
    BY <1>7 DEF Render, server, storage, calls, TypeOK
  <2>2. QED
    BY <2>1 DEF StoreInv, StoredTokenUsable, ArrivingInv, Arriving
<1>8. ASSUME NEW r \in Requests, StartRefresh(r) PROVE StoreInv'
  <2>1. /\ status[r] = "flying" /\ status'[r] = "refreshing" /\ offered'[r] = refresh /\ call'[r] = "posted"
        /\ \A q \in Requests : q # r =>
              status'[q] = status[q] /\ offered'[q] = offered[q] /\ call'[q] = call[q]
        /\ UNCHANGED <<live, refresh, captured, minted>>
    BY <1>8 DEF StartRefresh, Unauthorized, server, storage, TypeOK
  <2>2. StoredTokenUsable' /\ \A q \in Requests : call'[q] = "posted" => status'[q] = "refreshing"
    BY <2>1 DEF StoreInv, StoredTokenUsable
  <2>3. \A q \in Requests : Arriving(q)' => Arriving(q) /\ q # r
    BY <2>1 DEF Arriving
  <2>4. ArrivingInv'
    BY <2>1, <2>3 DEF StoreInv, ArrivingInv
  <2>5. QED
    BY <2>2, <2>4 DEF StoreInv
<1>9. ASSUME NEW r \in Requests, RefreshOk(r) PROVE StoreInv'
  <2>1. /\ Arriving(r) /\ refresh' = minted[r]
        /\ UNCHANGED <<live, captured, offered, call, minted>>
    BY <1>9 DEF RefreshOk, Arriving, server, calls
  <2>2. /\ status'[r] = "ready"
        /\ \A q \in Requests : status'[q] = "refreshing" => status[q] = "refreshing" /\ q # r
        /\ \A q \in Requests : q # r /\ status[q] = "refreshing" => status'[q] = "refreshing"
    BY <1>9 DEF RefreshOk, Queued
  <2>3. \A q \in Requests : Arriving(q)' => Arriving(q) /\ q # r
    BY <2>1, <2>2 DEF Arriving
  <2>4. StoredTokenUsable'
    BY <2>1 DEF StoreInv, StoredTokenUsable, ArrivingInv
  <2>5. ArrivingInv'
    BY <2>1, <2>3 DEF StoreInv, ArrivingInv
  <2>6. \A q \in Requests : call'[q] = "posted" => status'[q] = "refreshing"
    BY <2>1, <2>2 DEF StoreInv, Arriving
  <2>7. QED
    BY <2>4, <2>5, <2>6 DEF StoreInv
<1>10. ASSUME NEW r \in Requests, RefreshError(r) PROVE StoreInv'
  <2>1. /\ refresh' = 0 /\ status[r] = "refreshing" /\ call[r] \in {"denied", "dead"}
        /\ UNCHANGED <<live, captured, offered, call, minted>>
    BY <1>10 DEF RefreshError, server, calls
  <2>2. /\ \A q \in Requests : status'[q] = "refreshing" => status[q] = "refreshing"
        /\ \A q \in Requests : q # r /\ status[q] = "refreshing" => status'[q] = status[q]
    BY <1>10 DEF RefreshError, Queued
  <2>3. QED
    BY <1>a, <2>1, <2>2, StoreCleared DEF StoreInv, Arriving
<1>11. ASSUME NEW r \in Requests, LogoutLocally(r) PROVE StoreInv'
  <2>1. /\ refresh' = 0 /\ status[r] = "idle" /\ status'[r] = "ok"
        /\ \A q \in Requests : q # r => status'[q] = status[q]
        /\ UNCHANGED <<live, captured, offered, call, minted>>
    BY <1>11 DEF LogoutLocally, server, calls, TypeOK
  <2>2. QED
    BY <1>a, <2>1, StoreCleared DEF StoreInv, Arriving
<1>12. ASSUME NEW r \in Requests, Succeed(r) \/ GiveUp(r) PROVE StoreInv'
  <2>1. /\ status[r] \in {"flying", "revoked"} /\ (status[r] = "revoked" => r \in Logouts /\ Succeed(r))
        /\ status'[r] \in {"ok", "failed"} /\ \A q \in Requests : q # r => status'[q] = status[q]
        /\ UNCHANGED <<live, captured, offered, call, minted>>
    BY <1>12 DEF Succeed, GiveUp, Unauthorized, server, calls, TypeOK
  <2>2. CASE refresh' = 0
    BY <1>a, <2>1, <2>2, StoreCleared DEF StoreInv, Arriving
  <2>3. CASE refresh' # 0
    <3>1. status[r] = "flying" /\ refresh' = refresh
      BY <1>12, <2>1, <2>3 DEF Succeed, GiveUp, OnError, OnSettled, storage
    <3>2. QED
      BY <2>1, <3>1, StoreKept
  <2>4. QED
    BY <2>2, <2>3
<1>13. ASSUME NEW r \in Requests, Start(r) \/ Resend(r) \/ Park(r) \/ NoRefreshToken(r) PROVE StoreInv'
  <2>1. /\ status[r] \in {"idle", "ready", "flying"} /\ status'[r] \in {"flying", "queued", "failed"}
        /\ \A q \in Requests : q # r => status'[q] = status[q]
        /\ UNCHANGED <<live, refresh, captured, offered, call, minted>>
    BY <1>13 DEF Start, Resend, Park, NoRefreshToken, Unauthorized, server, storage, calls, TypeOK
  <2>2. QED
    BY <2>1, StoreKept
<1>14. CASE (\E k \in fresh : Expire(k)) \/ UNCHANGED vars
  BY <1>14, StoreKept DEF Expire, storage, requests, calls, vars
<1>15. /\ \A r \in Requests : ~HandlerDies(r) /\ ~Disconnect(r)
       /\ \A t \in Tabs : ~Reload(t)
  BY DEF HandlerDies, Disconnect, Reload
<1>16. QED
  BY <1>1, <1>2, <1>3, <1>4, <1>5, <1>6, <1>7, <1>8, <1>9, <1>10, <1>11, <1>12, <1>13, <1>14, <1>15,
     StepCases

(***************************************************************************)
(* While nothing fails, the refresh token in localStorage is one that the  *)
(* server accepts, or the answer that replaces or retires it is under way, *)
(* whatever tabs rotate it, sign in and sign out at once.                  *)
(***************************************************************************)
THEOREM StoredTokenStaysUsable == Spec => [](Faults = {} => StoredTokenUsable)
<1> DEFINE Inv == Faults = {} => StoreInv
<1>1. Init => Inv
  BY DEF Init, StoreInv, StoredTokenUsable, ArrivingInv, Arriving
<1>2. TypeOK /\ Inv /\ [Next]_vars => Inv'
  BY StoreStep
<1>3. Inv => (Faults = {} => StoredTokenUsable)
  BY DEF StoreInv
<1> HIDE DEF Inv
<1>4. QED
  BY <1>1, <1>2, <1>3, TypeCorrect, PTL DEF Spec

-----------------------------------------------------------------------------
(***************************************************************************)
(* The command centre.                                                     *)
(***************************************************************************)

LEMMA FilledSeqs ==
  ASSUME NEW m \in Nat, NEW n \in Nat, m <= n, NEW s \in Seq(1..m)
  PROVE  s \in Seq(1..n)
<1>1. Len(s) \in Nat /\ s = [i \in 1..Len(s) |-> s[i]] /\ \A i \in 1..Len(s) : s[i] \in 1..n
  OBVIOUS
<1> QED
  BY <1>1

-----------------------------------------------------------------------------
(***************************************************************************)
(* Types.                                                                  *)
(***************************************************************************)

\* The stream and the two connections.
StreamTypes ==
    /\ plan \in Plans
    /\ log \in Seq(Events) /\ Len(log) <= MaxEvents
    /\ published = Len(log) /\ cursor \in 0..published
    /\ subscribed \subseteq Conns /\ connecting \subseteq Conns \ subscribed
    /\ got \in [Conns -> Seq(1..cursor)] /\ since \in [Conns -> 0..cursor]
    /\ "feed" \in subscribed \union connecting <=> listening
    /\ open \in BOOLEAN /\ listening \in BOOLEAN /\ (listening => open)

\* The queries and the page.
ListTypes ==
    /\ cache \in [Queries -> 0..Len(log) \union {None}]
    /\ reply \in [Queries -> 0..Len(log) \union {None}]
    /\ fetch \in [Queries -> {"none", "asked", "read"}]
    /\ \A k \in Queries : reply[k] # None <=> fetch[k] = "read"
    /\ invalid \subseteq Queries
    /\ filters \subseteq Filters
    /\ popup # None => loaded

FeedTypes == events \in Seq(Entries) /\ Len(events) <= Cap

LEMMA CentreTypeGroups == CentreTypeOK <=> StreamTypes /\ ListTypes /\ FeedTypes
  BY DEF CentreTypeOK, StreamTypes, ListTypes, FeedTypes

\* What a connection was last written.
LEMMA NewestFacts ==
  ASSUME StreamTypes, NEW c \in Conns
  PROVE  Feed!Newest(c) \in 0..cursor /\ cursor \in Nat
  BY DEF StreamTypes, Feed!Newest

LEMMA DeliverFacts ==
  ASSUME StreamTypes, NEW c \in Conns, Feed!Deliver(c)
  PROVE  \E e \in (Feed!Newest(c) + 1)..cursor :
            /\ got' = [got EXCEPT ![c] = Append(@, e)]
            /\ e \in 1..cursor /\ e \in 1..Len(log)
            /\ got'[c] = Append(got[c], e)
            /\ got'[c][Len(got'[c])] = e
            /\ got' \in [Conns -> Seq(1..cursor)]
<1>1. PICK e \in (Feed!Newest(c) + 1)..cursor : got' = [got EXCEPT ![c] = Append(@, e)]
  BY DEF Feed!Deliver
<1>2. e \in 1..cursor /\ e \in 1..Len(log) /\ got[c] \in Seq(1..cursor)
  BY NewestFacts DEF StreamTypes
<1>3. got'[c] = Append(got[c], e)
  BY <1>1 DEF StreamTypes
<1>4. got'[c][Len(got'[c])] = e /\ got'[c] \in Seq(1..cursor)
  BY <1>2, <1>3
<1>5. got' \in [Conns -> Seq(1..cursor)]
  BY <1>1, <1>3, <1>4 DEF StreamTypes
<1> QED
  BY <1>1, <1>2, <1>3, <1>4, <1>5

LEMMA EndFacts ==
  ASSUME StreamTypes, Feed!End, cursor' = cursor
  PROVE  /\ got' \in [Conns -> Seq(1..cursor)] /\ since' \in [Conns -> 0..cursor]
         /\ published' = published
<1>1. PICK S \in SUBSET Conns :
        /\ since' = [c \in Conns |-> IF c \in S THEN 0 ELSE since[c]]
        /\ got' = [c \in Conns |-> IF c \in S THEN <<>> ELSE got[c]]
  BY DEF Feed!End
<1>2. <<>> \in Seq(1..cursor) /\ 0 \in 0..cursor
  BY DEF StreamTypes
<1> QED
  BY <1>1, <1>2 DEF StreamTypes, Feed!End

\* What a step does to the stream, when it does anything.
LEMMA StreamStep ==
  ASSUME CentreTypeOK, [CentreNext]_centreVars
  PROVE  StreamTypes' /\ Len(log) <= Len(log')
<1> SUFFICES ASSUME StreamTypes, [CentreNext]_centreVars PROVE StreamTypes' /\ Len(log) <= Len(log')
  BY CentreTypeGroups
<1>1. CASE UNCHANGED <<plan, stream, open, listening>>
  BY <1>1 DEF StreamTypes, stream
<1>2. ASSUME NEW id \in Ids, NEW what \in Whats, Happens(id, what)
      PROVE  StreamTypes' /\ Len(log) <= Len(log')
  <2>1. [id |-> id, what |-> what] \in Events
    BY DEF Events
  <2>2. log' \in Seq(Events) /\ Len(log') = Len(log) + 1 /\ Len(log') <= MaxEvents
    BY <1>2, <2>1, CommandCentreAssumption DEF Happens, StreamTypes
  <2> QED
    BY <1>2, <2>2 DEF Happens, StreamTypes, Feed!Publish, feed
<1>3. CASE Advance
  <2>1. cursor' \in (cursor + 1)..published /\ UNCHANGED <<published, subscribed, since, got>>
    BY <1>3 DEF Advance, Feed!Advance
  <2>2. \A c \in Conns : got[c] \in Seq(1..cursor') /\ since[c] \in 0..cursor'
    BY <2>1, FilledSeqs DEF StreamTypes
  <2>3. got' \in [Conns -> Seq(1..cursor')] /\ since' \in [Conns -> 0..cursor']
    BY <2>1, <2>2 DEF StreamTypes
  <2> QED
    BY <1>3, <2>1, <2>3 DEF Advance, StreamTypes, feed
<1>4. ASSUME NEW c \in Conns, Connected(c) PROVE StreamTypes' /\ Len(log) <= Len(log')
  BY <1>4 DEF Connected, Feed!Subscribe, StreamTypes, feed
<1>5. ASSUME NEW c \in Conns, Feed!Deliver(c), UNCHANGED <<plan, log, connecting, open, listening>>
      PROVE  StreamTypes' /\ Len(log) <= Len(log')
  <2>1. got' \in [Conns -> Seq(1..cursor)]
    BY <1>5, DeliverFacts
  <2> QED
    BY <1>5, <2>1 DEF Feed!Deliver, StreamTypes
<1>6. ASSUME NEW c \in Conns, StreamEnds(c) PROVE StreamTypes' /\ Len(log) <= Len(log')
  <2>1. /\ subscribed' = subscribed \ {c} /\ connecting' = connecting \ {c}
        /\ cursor' = cursor /\ published' = published /\ UNCHANGED <<plan, log, open>>
        /\ got' \in [Conns -> Seq(1..cursor)] /\ since' \in [Conns -> 0..cursor]
    <3>1. CASE c \in subscribed
      BY <1>6, <3>1, EndFacts DEF StreamEnds
    <3>2. CASE c \notin subscribed
      BY <1>6, <3>2 DEF StreamEnds, StreamTypes
    <3> QED BY <3>1, <3>2
  <2>2. listening' = (listening /\ c # "feed")
    BY <1>6 DEF StreamEnds
  <2>3. /\ "feed" \in subscribed' \union connecting' <=> listening'
        /\ open' \in BOOLEAN /\ listening' \in BOOLEAN /\ (listening' => open')
    BY <2>1, <2>2, Zenon DEF StreamTypes
  <2> QED
    BY <2>1, <2>3 DEF StreamTypes
<1>7. CASE Leave
  <2>1. /\ subscribed' = subscribed \ {"feed"} /\ connecting' = connecting \ {"feed"}
        /\ cursor' = cursor /\ published' = published /\ UNCHANGED <<plan, log>>
        /\ got' \in [Conns -> Seq(1..cursor)] /\ since' \in [Conns -> 0..cursor]
    <3>1. CASE "feed" \in subscribed
      BY <1>7, <3>1, EndFacts DEF Leave
    <3>2. CASE "feed" \notin subscribed
      BY <1>7, <3>2 DEF Leave, StreamTypes
    <3> QED BY <3>1, <3>2
  <2>2. open' = FALSE /\ listening' = FALSE
    BY <1>7 DEF Leave
  <2>3. /\ "feed" \in subscribed' \union connecting' <=> listening'
        /\ open' \in BOOLEAN /\ listening' \in BOOLEAN /\ (listening' => open')
    BY <2>1, <2>2, Zenon
  <2> QED
    BY <2>1, <2>3 DEF StreamTypes
<1>8. CASE Enter
  BY <1>8 DEF Enter, StreamTypes, Conns
<1>9. CASE RootHears \/ FeedHears
  BY <1>9, <1>5 DEF RootHears, FeedHears, Conns, feed
<1> QED
  BY <1>1, <1>2, <1>3, <1>4, <1>6, <1>7, <1>8, <1>9
  DEF CentreNext, centreVars, feed, MapLoads, ToggleFilter, ClickZone, Refetch, Read, Apply, LoadFails,
      HandleFeedClick

LEMMA HistoryFacts ==
  ASSUME NEW n \in Nat, n <= MaxEvents
  PROVE  /\ History(n) \in Seq(Entries)
         /\ Len(History(n)) = IF n < Cap THEN n ELSE Cap
         /\ \A i \in 1..Len(History(n)) : History(n)[i] = [event |-> n + 1 - i, live |-> FALSE]
<1> DEFINE m == IF n < Cap THEN n ELSE Cap
<1>1. m \in Nat /\ m <= n /\ MaxEvents \in Nat
  BY CommandCentreAssumption
<1>2. \A i \in 1..m : [event |-> n + 1 - i, live |-> FALSE] \in Entries
  BY <1>1 DEF Entries
<1>3. History(n) = [i \in 1..m |-> [event |-> n + 1 - i, live |-> FALSE]]
  BY DEF History
<1> HIDE DEF m
<1>4. History(n) \in [1..m -> Entries]
  BY <1>2, <1>3
<1>5. History(n) \in Seq(Entries) /\ Len(History(n)) = m
  BY <1>1, <1>4
<1> QED
  BY <1>1, <1>3, <1>5 DEF m

\* What is heard is put in front, and the last entry of a full feed is dropped.
LEMMA UpdateFacts ==
  ASSUME NEW prev \in Seq(Entries), Len(prev) <= Cap, NEW e \in Entries
  PROVE  /\ Update(prev, e) \in Seq(Entries)
         /\ Len(Update(prev, e)) = IF Len(prev) < Cap THEN Len(prev) + 1 ELSE Cap
         /\ Update(prev, e)[1] = e
         /\ \A i \in 2..Len(Update(prev, e)) : Update(prev, e)[i] = prev[i - 1]
<1> DEFINE all == <<e>> \o prev
           m == IF Len(prev) < Cap THEN Len(prev) + 1 ELSE Cap
<1>1. /\ all \in Seq(Entries) /\ Len(all) = Len(prev) + 1
      /\ all[1] = e /\ \A i \in 2..Len(all) : all[i] = prev[i - 1]
  OBVIOUS
<1>2. m \in Nat /\ 1 <= m /\ m <= Len(all)
  BY <1>1, CommandCentreAssumption
<1>3. Update(prev, e) = SubSeq(all, 1, m)
  BY DEF Update
<1> HIDE DEF all, m
<1>4. /\ Update(prev, e) \in Seq(Entries) /\ Len(Update(prev, e)) = m
      /\ \A i \in 1..m : Update(prev, e)[i] = all[i]
  BY <1>1, <1>2, <1>3
<1> QED
  BY <1>1, <1>2, <1>4 DEF m

\* What a step does to the feed.
LEMMA FeedStep ==
  ASSUME CentreTypeOK, [CentreNext]_centreVars
  PROVE  \/ UNCHANGED events
         \/ FeedHears
         \/ /\ Apply("history") /\ open /\ cache["history"] # reply["history"]
            /\ events' = History(reply["history"])
         \/ Leave
         \/ Enter
<1>1. ASSUME NEW k \in Queries, Apply(k), events' # events
      PROVE  k = "history" /\ open /\ cache[k] # reply[k] /\ events' = History(reply[k])
  BY <1>1 DEF Apply, TakeHistory
<1> QED
  BY <1>1 DEF CentreNext, centreVars, feed, MapLoads, ToggleFilter, ClickZone, Happens, Advance,
     RootHears, Connected, StreamEnds, Refetch, Read, Apply, LoadFails, HandleFeedClick

LEMMA FeedTypesKept ==
  ASSUME CentreTypeOK, [CentreNext]_centreVars
  PROVE  FeedTypes'
<1> USE CentreTypeGroups
<1>1. CASE UNCHANGED events
  BY <1>1 DEF FeedTypes
<1>2. CASE FeedHears
  <2>1. PICK e \in 1..Len(log) : got'["feed"][Len(got'["feed"])] = e
    BY <1>2, DeliverFacts DEF FeedHears, Conns
  <2>2. [event |-> e, live |-> TRUE] \in Entries
    BY CommandCentreAssumption DEF Entries, StreamTypes
  <2>3. events' = Update(events, [event |-> e, live |-> TRUE])
    BY <1>2, <2>1 DEF FeedHears
  <2> QED
    BY <2>2, <2>3, UpdateFacts, CommandCentreAssumption DEF FeedTypes
<1>3. ASSUME NEW n \in 0..Len(log), events' = History(n) PROVE FeedTypes'
  <2>1. n \in Nat /\ n <= MaxEvents
    BY CommandCentreAssumption DEF StreamTypes
  <2> QED
    BY <1>3, <2>1, HistoryFacts, CommandCentreAssumption DEF FeedTypes
<1>4. CASE Apply("history") /\ events' = History(reply["history"])
  <2>1. "history" \in Queries
    BY DEF Queries
  <2>2. reply["history"] \in 0..Len(log)
    BY <1>4, <2>1 DEF Apply, ListTypes
  <2> QED BY <1>3, <1>4, <2>2
<1>5. CASE events' = <<>>
  BY <1>5, CommandCentreAssumption DEF FeedTypes
<1>6. CASE Enter
  <2>1. "history" \in Queries
    BY DEF Queries
  <2>2. cache["history"] # None => cache["history"] \in 0..Len(log)
    BY <2>1 DEF ListTypes
  <2> QED BY <1>3, <1>5, <1>6, <2>2 DEF Enter, TakeHistory
<1>7. CASE Leave
  BY <1>5, <1>7 DEF Leave
<1> QED
  BY <1>1, <1>2, <1>4, <1>6, <1>7, FeedStep

LEMMA ListTypesKept ==
  ASSUME CentreTypeOK, [CentreNext]_centreVars
  PROVE  ListTypes'
<1> SUFFICES ASSUME StreamTypes, ListTypes, [CentreNext]_centreVars, Len(log) <= Len(log')
             PROVE  ListTypes'
  BY CentreTypeGroups, StreamStep
<1>0. Len(log) \in Nat /\ Len(log') \in Nat
  BY StreamStep, CentreTypeGroups DEF StreamTypes
<1> USE CommandCentreAssumption DEF ListTypes
<1>1. CASE UNCHANGED <<query, filters, loaded, popup>>
  BY <1>0, <1>1 DEF query
<1>2. CASE MapLoads
  BY <1>2 DEF MapLoads, query, stream
<1>3. ASSUME NEW f \in Filters, ToggleFilter(f) PROVE ListTypes'
  BY <1>3 DEF ToggleFilter, query, stream
<1>4. ASSUME NEW id \in Ids, ClickZone(id) PROVE ListTypes'
  BY <1>4 DEF ClickZone, query, stream
<1>5. ASSUME NEW i \in 1..Cap, HandleFeedClick(i) PROVE ListTypes'
  BY <1>5 DEF HandleFeedClick, query, stream
<1>6. CASE Leave
  BY <1>6 DEF Leave, query, Filters
<1>7. ASSUME NEW ks, Invalidate(ks), ks \subseteq Queries, UNCHANGED <<log, cache, filters, loaded, popup>>
      PROVE  ListTypes'
  BY <1>7 DEF Invalidate
<1>8. CASE RootHears
  <2>1. PICK e \in 1..Len(log) : got'["root"][Len(got'["root"])] = e
    BY <1>8, DeliverFacts DEF RootHears, Conns
  <2>2. log[e] \in Events
    BY DEF StreamTypes
  <2>3. KindOf[log[e].id] \in Kinds
    BY <2>2 DEF Events
  <2>4. Tells(e) \subseteq Queries
    BY <2>3 DEF Tells, Queries, Kinds
  <2> QED
    BY <1>7, <1>8, <2>1, <2>4 DEF RootHears, canvas
<1>9. ASSUME NEW k \in Queries, Refetch(k) PROVE ListTypes'
  BY <1>9 DEF Refetch, stream, canvas
<1>10. ASSUME NEW k \in Queries, Read(k) PROVE ListTypes'
  BY <1>10, <1>0 DEF Read, stream, canvas
<1>11. ASSUME NEW k \in Queries, Apply(k) PROVE ListTypes'
  BY <1>11 DEF Apply, stream
<1>12. ASSUME NEW k \in Queries, LoadFails(k) PROVE ListTypes'
  BY <1>12 DEF LoadFails, stream, canvas
<1>13. CASE Enter
  <2> DEFINE must == {k \in plan.queries : fetch[k] = "none" /\ (cache[k] = None \/ k \in invalid)}
             can == {k \in plan.queries : fetch[k] = "none"}
  <2>1. PICK ks \in {must, can} :
          /\ fetch' = [k \in Queries |-> IF k \in ks THEN "asked" ELSE fetch[k]]
          /\ invalid' = invalid \ ks
    BY <1>13 DEF Enter
  <2>2. \A k \in ks : fetch[k] = "none"
    BY <2>1
  <2> QED
    BY <1>13, <2>1, <2>2 DEF Enter, canvas
<1> QED
  BY <1>1, <1>2, <1>3, <1>4, <1>5, <1>6, <1>8, <1>9, <1>10, <1>11, <1>12, <1>13
  DEF CentreNext, centreVars, canvas, query, Happens, Advance, FeedHears, Connected, StreamEnds

LEMMA CentreInitTypes == CentreInit => CentreTypeOK
<1> SUFFICES ASSUME CentreInit PROVE StreamTypes /\ ListTypes /\ FeedTypes
  BY CentreTypeGroups
<1> USE CommandCentreAssumption
<1>1. published = 0 /\ cursor = 0 /\ subscribed = {} /\ since = [c \in Conns |-> 0]
      /\ got = [c \in Conns |-> <<>>]
  BY DEF CentreInit, Feed!Init
<1>2. <<>> \in Seq(1..0) /\ <<>> \in Seq(Events) /\ <<>> \in Seq(Entries) /\ Len(<<>>) = 0
  OBVIOUS
<1>3. StreamTypes
  BY <1>1, <1>2 DEF CentreInit, StreamTypes, Conns
<1> QED
  BY <1>2, <1>3 DEF CentreInit, ListTypes, FeedTypes, Filters

LEMMA CentreNextTypes == CentreTypeOK /\ [CentreNext]_centreVars => CentreTypeOK'
<1> SUFFICES ASSUME CentreTypeOK, [CentreNext]_centreVars PROVE StreamTypes' /\ ListTypes' /\ FeedTypes'
  BY DEF CentreTypeOK, StreamTypes, ListTypes, FeedTypes
<1> QED
  BY StreamStep, ListTypesKept, FeedTypesKept

\* command-center.tsx, useAdminMapLayers.ts: every variable keeps its type, whatever ids, events
\* and history's length there are: a query has data of events that have happened, a popup is on
\* a map that is loaded, and the page listens only while it is open.
THEOREM CentreTypesCorrect == CentreSpec => []CentreTypeOK
  BY CentreInitTypes, CentreNextTypes, PTL DEF CentreSpec

-----------------------------------------------------------------------------
(***************************************************************************)
(* The order of the feed.                                                  *)
(***************************************************************************)

\* A connection that is being made has brought nothing yet.  What comes over it next is newer
\* than all that it has brought.
HeardInv ==
    /\ "feed" \in connecting => \A i \in DOMAIN events : ~events[i].live
    /\ "feed" \in subscribed => \A i \in DOMAIN events :
          events[i].live => events[i].event <= Feed!Newest("feed")

SeamInv == FeedIsOrdered /\ HeardInv

LEMMA HistoryOrdered ==
  ASSUME NEW n \in Nat, n <= MaxEvents, events' = History(n)
  PROVE  FeedIsOrdered' /\ \A i \in DOMAIN events' : ~events'[i].live
<1>1. DOMAIN events' = 1..Len(events') /\ Len(events') \in Nat
  BY HistoryFacts
<1>2. \A i \in 1..Len(events') : events'[i] = [event |-> n + 1 - i, live |-> FALSE]
  BY HistoryFacts
<1>3. ASSUME NEW i \in 1..Len(events') PROVE events'[i].event = n + 1 - i
  <2>1. events'[i] = [event |-> n + 1 - i, live |-> FALSE]
    BY <1>2
  <2> QED BY <2>1
<1>4. ASSUME NEW i \in 1..Len(events') PROVE ~events'[i].live
  <2>1. events'[i] = [event |-> n + 1 - i, live |-> FALSE]
    BY <1>2
  <2> QED BY <2>1
<1> QED
  BY <1>1, <1>3, <1>4 DEF FeedIsOrdered

LEMMA CentreInitOrdered == CentreInit => SeamInv
  BY DEF CentreInit, SeamInv, FeedIsOrdered, HeardInv, Feed!Init

LEMMA CentreNextOrdered == CentreTypeOK /\ SeamInv /\ [CentreNext]_centreVars => SeamInv'
<1> SUFFICES ASSUME CentreTypeOK, StreamTypes, ListTypes, FeedTypes, SeamInv, [CentreNext]_centreVars
             PROVE  FeedIsOrdered' /\ HeardInv'
  BY CentreTypeGroups DEF SeamInv
<1> USE DEF SeamInv
<1>1. CASE FeedHears
  <2>1. PICK e \in (Feed!Newest("feed") + 1)..cursor :
          /\ e \in 1..Len(log)
          /\ got'["feed"] = Append(got["feed"], e)
          /\ got'["feed"][Len(got'["feed"])] = e
    BY <1>1, DeliverFacts DEF FeedHears, Conns
  <2> DEFINE new == [event |-> e, live |-> TRUE]
             u == Update(events, new)
  <2>2. events' = u
    BY <1>1, <2>1 DEF FeedHears
  <2>3. new \in Entries
    BY <2>1, CommandCentreAssumption DEF Entries, StreamTypes
  <2>4. /\ u \in Seq(Entries) /\ u[1] = new
        /\ \A i \in 2..Len(u) : u[i] = events[i - 1]
        /\ Len(u) = IF Len(events) < Cap THEN Len(events) + 1 ELSE Cap
    BY <2>3, UpdateFacts DEF FeedTypes
  <2>5. "feed" \in subscribed /\ "feed" \notin connecting /\ UNCHANGED <<subscribed, connecting>>
    BY <1>1 DEF FeedHears, Feed!Deliver, StreamTypes
  <2>6. Feed!Newest("feed") \in Nat
    BY NewestFacts DEF Conns
  <2>7. got["feed"] \in Seq(1..cursor)
    BY DEF StreamTypes, Conns
  <2>8. got'["feed"] # <<>>
    BY <2>1, <2>7
  <2>9. Feed!Newest("feed")' = e
    BY <2>1, <2>8 DEF Feed!Newest
  <2>10. ASSUME NEW i \in 1..Len(events), events[i].live PROVE events[i].event < e
    <3>0. events[i] \in Entries
      BY DEF FeedTypes
    <3>1. events[i].event \in Nat
      BY <3>0 DEF Entries
    <3>2. events[i].event <= Feed!Newest("feed")
      BY <2>5, <2>10 DEF HeardInv, FeedTypes
    <3> QED BY <3>1, <3>2, <2>1, <2>6
  <2> HIDE DEF u
  <2>11. \A i \in 1..Len(u) : \/ i = 1 /\ u[i].event = e /\ u[i].live
                              \/ i > 1 /\ i - 1 \in 1..Len(events) /\ u[i] = events[i - 1]
    BY <2>4, CommandCentreAssumption DEF FeedTypes
  <2>12. \A i \in 1..Len(events) : events[i] \in Entries
    BY DEF FeedTypes
  <2>13. ASSUME NEW i \in 1..Len(u), NEW j \in 1..Len(u), i < j
         PROVE  /\ u[i].live = u[j].live => u[i].event > u[j].event
                /\ u[i].live \/ ~u[j].live
    <3>1. j > 1 /\ j - 1 \in 1..Len(events) /\ u[j] = events[j - 1]
      BY <2>11, <2>13
    <3>2. CASE i = 1
      <4>0. u[j] \in Entries
        BY <2>12, <3>1
      <4>1. u[i].event = e /\ u[i].live /\ u[j].live \in BOOLEAN /\ u[j].event \in Nat
        BY <2>4, <3>2, <4>0 DEF Entries
      <4>2. u[j].live => u[j].event < e
        BY <3>1, <2>10
      <4>3. u[i].live = u[j].live => u[j].live
        BY <4>1, Zenon
      <4> QED BY <4>1, <4>2, <4>3
    <3>3. CASE i > 1
      <4>1. i - 1 \in 1..Len(events) /\ u[i] = events[i - 1] /\ i - 1 < j - 1
        BY <2>11, <2>13, <3>3
      <4>2. /\ events[i - 1].live = events[j - 1].live => events[i - 1].event > events[j - 1].event
            /\ events[i - 1].live \/ ~events[j - 1].live
        BY <3>1, <4>1 DEF FeedIsOrdered, FeedTypes
      <4> QED BY <3>1, <4>1, <4>2
    <3> QED BY <3>2, <3>3
  <2>14. DOMAIN u = 1..Len(u)
    BY <2>4
  <2>15. FeedIsOrdered'
    BY <2>2, <2>13, <2>14 DEF FeedIsOrdered
  <2>16. ASSUME NEW i \in 1..Len(u), u[i].live PROVE u[i].event <= e
    <3>1. e \in Nat
      BY <2>1
    <3>2. CASE i = 1
      BY <2>4, <3>1, <3>2
    <3>3. CASE i > 1
      <4>1. i - 1 \in 1..Len(events) /\ u[i] = events[i - 1]
        BY <2>11, <3>3
      <4>2. events[i - 1] \in Entries
        BY <2>12, <4>1
      <4>3. events[i - 1].event < e /\ events[i - 1].event \in Nat
        BY <2>10, <2>16, <4>1, <4>2 DEF Entries
      <4> QED BY <3>1, <4>1, <4>3
    <3> QED BY <3>2, <3>3
  <2>17. HeardInv'
    BY <2>2, <2>5, <2>9, <2>14, <2>16 DEF HeardInv
  <2> QED BY <2>15, <2>17
<1>2. ASSUME NEW n \in 0..Len(log), events' = History(n) PROVE FeedIsOrdered' /\ HeardInv'
  <2>1. n \in Nat /\ n <= MaxEvents
    BY CommandCentreAssumption DEF StreamTypes
  <2> QED BY <1>2, <2>1, HistoryOrdered DEF HeardInv
<1>3. ASSUME events' = <<>> PROVE FeedIsOrdered' /\ HeardInv'
  BY <1>3 DEF FeedIsOrdered, HeardInv
<1>4. CASE /\ Apply("history") /\ open /\ cache["history"] # reply["history"]
           /\ events' = History(reply["history"])
  <2>1. reply["history"] \in 0..Len(log)
    BY <1>4 DEF Apply, ListTypes, Queries
  <2> QED BY <1>2, <1>4, <2>1
<1>5. CASE Leave
  BY <1>3, <1>5 DEF Leave
<1>6. CASE Enter
  <2>1. cache["history"] # None => cache["history"] \in 0..Len(log)
    BY DEF ListTypes, Queries
  <2> QED
    BY <1>2, <1>3, <1>6, <2>1 DEF Enter, TakeHistory
<1>7. ASSUME UNCHANGED events,
             "feed" \in connecting' => "feed" \in connecting,
             "feed" \in subscribed' =>
                "feed" \in connecting \/ ("feed" \in subscribed /\ UNCHANGED <<got["feed"], since["feed"]>>)
      PROVE  FeedIsOrdered' /\ HeardInv'
  BY <1>7 DEF FeedIsOrdered, HeardInv, Feed!Newest
<1>8. CASE UNCHANGED events /\ ~FeedHears /\ ~Enter
  <2>1. CASE UNCHANGED <<subscribed, connecting, got, since>>
    BY <1>7, <1>8, <2>1
  <2>2. ASSUME NEW c \in Conns, Connected(c) PROVE FeedIsOrdered' /\ HeardInv'
    BY <1>7, <1>8, <2>2 DEF Connected, Feed!Subscribe, StreamTypes, Conns
  <2>3. CASE RootHears
    BY <1>7, <1>8, <2>3 DEF RootHears, Feed!Deliver, StreamTypes, Conns
  <2>4. ASSUME NEW c \in Conns, StreamEnds(c) PROVE FeedIsOrdered' /\ HeardInv'
    <3>1. CASE c \in subscribed
      <4>1. PICK S \in SUBSET Conns :
              /\ subscribed' = subscribed \ S
              /\ since' = [d \in Conns |-> IF d \in S THEN 0 ELSE since[d]]
              /\ got' = [d \in Conns |-> IF d \in S THEN <<>> ELSE got[d]]
        BY <2>4, <3>1 DEF StreamEnds, Feed!End
      <4> QED BY <1>7, <1>8, <2>4, <4>1 DEF StreamEnds, Conns
    <3>2. CASE c \notin subscribed
      BY <1>7, <1>8, <2>4, <3>2 DEF StreamEnds
    <3> QED BY <3>1, <3>2
  <2>5. CASE Leave
    BY <1>5, <2>5
  <2> QED
    BY <1>8, <2>1, <2>2, <2>3, <2>4, <2>5
    DEF CentreNext, centreVars, stream, MapLoads, ToggleFilter, ClickZone, Happens, Feed!Publish,
        Advance, Feed!Advance, Refetch, Read, Apply, LoadFails, HandleFeedClick
<1> QED
  BY <1>1, <1>4, <1>5, <1>6, <1>8, FeedStep

LEMMA CentreOrdered == CentreSpec => [](CentreTypeOK /\ SeamInv)
<1>1. CentreInit => CentreTypeOK /\ SeamInv
  BY CentreInitTypes, CentreInitOrdered
<1>2. (CentreTypeOK /\ SeamInv) /\ [CentreNext]_centreVars => (CentreTypeOK /\ SeamInv)'
  BY CentreNextTypes, CentreNextOrdered
<1> QED
  BY <1>1, <1>2, PTL DEF CentreSpec

\* command-center.tsx:86-123: newest first but for the seam between what was heard and what was
\* fetched, for any number of events, any size of the feed, and any order of history, stream,
\* leaving and coming back.
THEOREM FeedStaysOrdered == CentreSpec => []FeedIsOrdered
  BY CentreOrdered, PTL DEF SeamInv

-----------------------------------------------------------------------------
(***************************************************************************)
(* Why an entry goes.                                                      *)
(***************************************************************************)

LEMMA GoneStep ==
  ASSUME CentreTypeOK, [CentreNext]_centreVars, NEW e \in Shown, e \notin Shown', open, open'
  PROVE  \/ Len(events') = Cap
         \/ cache'["history"] # cache["history"] /\ cache'["history"] < e
<1> USE CentreTypeGroups, CommandCentreAssumption
<1>0. PICK j \in DOMAIN events : events[j].event = e
  BY DEF Shown
<1>1. j \in 1..Len(events) /\ Len(events) \in Nat /\ Len(events) <= Cap /\ events[j] \in Entries
  BY <1>0 DEF FeedTypes
<1>2. e \in 1..MaxEvents
  BY <1>0, <1>1 DEF Entries
<1>3. CASE UNCHANGED events
  BY <1>3 DEF Shown
<1>4. CASE FeedHears
  <2>1. PICK n \in 1..Len(log) : got'["feed"][Len(got'["feed"])] = n
    BY <1>4, DeliverFacts DEF FeedHears, Conns
  <2>2. [event |-> n, live |-> TRUE] \in Entries
    BY DEF Entries, StreamTypes
  <2> DEFINE u == Update(events, [event |-> n, live |-> TRUE])
  <2>3. events' = u
    BY <1>4, <2>1 DEF FeedHears
  <2>4. /\ u \in Seq(Entries)
        /\ Len(u) = IF Len(events) < Cap THEN Len(events) + 1 ELSE Cap
        /\ \A i \in 2..Len(u) : u[i] = events[i - 1]
    BY <2>2, UpdateFacts DEF FeedTypes
  <2> HIDE DEF u
  <2>5. CASE Len(events) < Cap
    <3>1. j + 1 \in DOMAIN u /\ u[j + 1] = events[j]
      BY <1>1, <2>4, <2>5
    <3>2. e \in Shown'
      BY <1>0, <2>3, <3>1 DEF Shown
    <3> QED BY <3>2
  <2>6. CASE Len(events) >= Cap
    BY <1>1, <2>3, <2>4, <2>6
  <2> QED BY <1>1, <2>5, <2>6
<1>5. CASE /\ Apply("history") /\ open /\ cache["history"] # reply["history"]
           /\ events' = History(reply["history"])
  <2> DEFINE n == reply["history"]
  <2>1. n \in 0..Len(log) /\ cache'["history"] = n
    BY <1>5 DEF Apply, ListTypes, Queries
  <2>2. n \in Nat /\ n <= MaxEvents
    BY <2>1 DEF StreamTypes
  <2> HIDE DEF n
  <2>3. CASE n < e
    BY <1>5, <2>1, <2>3 DEF n
  <2>4. CASE n >= e /\ n < Cap
    <3>1. Len(events') = n /\ events' \in Seq(Entries)
      BY <1>5, <2>2, <2>4, HistoryFacts DEF n
    <3>2. n + 1 - e \in 1..Len(events')
      BY <1>2, <2>2, <2>4, <3>1
    <3>3. events'[n + 1 - e] = [event |-> n + 1 - (n + 1 - e), live |-> FALSE]
      BY <1>5, <2>2, <3>2, HistoryFacts DEF n
    <3>4. events'[n + 1 - e].event = e
      BY <1>2, <2>2, <3>3
    <3>5. e \in Shown'
      BY <3>1, <3>2, <3>4 DEF Shown
    <3> QED BY <3>5
  <2>5. CASE n >= Cap
    BY <1>5, <2>2, <2>5, HistoryFacts DEF n
  <2> QED BY <1>2, <2>2, <2>3, <2>4, <2>5
<1>6. CASE Leave \/ Enter
  BY <1>6 DEF Leave, Enter
<1> QED
  BY <1>3, <1>4, <1>5, <1>6, FeedStep

\* command-center.tsx:87 and 97-119: for any size of the feed and any number of events, an entry
\* leaves an open page because the feed is full, or because a history that is older than it came.
THEOREM EntriesGoForReason == CentreSpec => GoneForReason
<1>1. CentreTypeOK /\ [CentreNext]_centreVars =>
        [\A e \in Shown \ Shown' :
            open /\ open' =>
                \/ Len(events') = Cap
                \/ cache'["history"] # cache["history"] /\ cache'["history"] < e]_centreVars
  BY GoneStep
<1> QED
  BY <1>1, CentreTypesCorrect, PTL DEF CentreSpec, GoneForReason

-----------------------------------------------------------------------------
(***************************************************************************)
(* The layers.                                                             *)
(***************************************************************************)

\* What there was after n events does not change with the events that follow.
LEMMA DataStays ==
  ASSUME StreamTypes, ListTypes, UNCHANGED <<cache, log>> \/ (UNCHANGED cache /\ \E x : log' = Append(log, x)),
         NEW k \in Queries
  PROVE  Data(k, cache[k])' = Data(k, cache[k])
<1>1. CASE cache[k] = None
  BY <1>1 DEF Data
<1>2. CASE cache[k] # None
  <2>1. cache[k] \in 0..Len(log) /\ cache'[k] = cache[k]
    BY <1>2 DEF ListTypes
  <2>2. \A i \in 1..cache[k] : log'[i] = log[i]
    BY <2>1 DEF StreamTypes
  <2>3. \A id, what : Happened(id, what, cache[k])' <=> Happened(id, what, cache[k])
    BY <2>1, <2>2 DEF Happened
  <2>4. Listed(k, cache[k])' = Listed(k, cache[k])
    BY <2>3 DEF Listed, There
  <2> QED
    BY <1>2, <2>1, <2>4 DEF Data
<1> QED BY <1>1, <1>2

LEMMA EffectsFollow ==
  ASSUME LayersFollow, Effects
  PROVE  LayersFollow'
<1>1. ASSUME loaded' PROVE zones' = WantedZones'
  <2>1. CASE ZonesDepend' # ZonesDepend
    BY <1>1, <2>1 DEF Effects
  <2>2. CASE ZonesDepend' = ZonesDepend
    <3>1. WantedZones' = WantedZones /\ loaded
      BY <1>1, <2>2 DEF ZonesDepend, WantedZones
    <3> QED BY <2>2, <3>1 DEF Effects, LayersFollow
  <2> QED BY <2>1, <2>2
<1>2. ASSUME loaded' PROVE markers' = WantedMarkers'
  <2>1. CASE MarkersDepend' # MarkersDepend
    BY <1>2, <2>1 DEF Effects
  <2>2. CASE MarkersDepend' = MarkersDepend
    <3>1. WantedMarkers' = WantedMarkers /\ loaded
      BY <1>2, <2>2 DEF MarkersDepend, WantedMarkers
    <3> QED BY <2>2, <3>1 DEF Effects, LayersFollow
  <2> QED BY <2>1, <2>2
<1> QED BY <1>1, <1>2 DEF LayersFollow

LEMMA NextLayers == CentreTypeOK /\ LayersFollow /\ [CentreNext]_centreVars => LayersFollow'
<1> SUFFICES ASSUME StreamTypes, ListTypes, LayersFollow, [CentreNext]_centreVars PROVE LayersFollow'
  BY CentreTypeGroups
<1>1. ASSUME UNCHANGED <<cache, filters, loaded, zones, markers>>,
             UNCHANGED log \/ \E x : log' = Append(log, x)
      PROVE  LayersFollow'
  <2>1. \A k \in Queries : Data(k, cache[k])' = Data(k, cache[k])
    BY <1>1, DataStays
  <2>2. WantedZones' = WantedZones /\ WantedMarkers' = WantedMarkers
    BY <1>1, <2>1 DEF WantedZones, WantedMarkers, Queries
  <2> QED BY <1>1, <2>2 DEF LayersFollow
<1>2. CASE Leave
  BY <1>2 DEF Leave, LayersFollow
<1>3. ASSUME Effects PROVE LayersFollow'
  BY <1>3, EffectsFollow
<1> QED
  BY <1>1, <1>2, <1>3
  DEF CentreNext, centreVars, query, canvas, stream, MapLoads, ToggleFilter, ClickZone, Happens, Advance,
      RootHears, FeedHears, Connected, StreamEnds, Refetch, Read, Apply, LoadFails, HandleFeedClick, Enter

\* useAdminMapLayers.ts: for any things and any order of answers, filters, clicks and the map's
\* loading, the layers are what the lists and the filters make them.
THEOREM LayersFollowLists == CentreSpec => []LayersFollow
<1>1. CentreInit => CentreTypeOK /\ LayersFollow
  BY CentreInitTypes DEF CentreInit, LayersFollow
<1>2. (CentreTypeOK /\ LayersFollow) /\ [CentreNext]_centreVars => (CentreTypeOK /\ LayersFollow)'
  BY CentreNextTypes, NextLayers
<1> QED
  BY <1>1, <1>2, PTL DEF CentreSpec

-----------------------------------------------------------------------------
\* sse.ts: the page's two connections have what EventFeed promises, and SseHub keeps that promise.
THEOREM CentreUsesFeed == CentreSpec => Feed!Spec
<1>1. CentreInit => Feed!Init
  BY DEF CentreInit
<1>2. [CentreNext]_centreVars => [Feed!Next]_(Feed!vars)
  <2> SUFFICES ASSUME [CentreNext]_centreVars PROVE [Feed!Next]_(Feed!vars)
    OBVIOUS
  <2>1. CASE UNCHANGED <<published, cursor, subscribed, since, got>>
    BY <2>1 DEF Feed!vars
  <2>2. ASSUME NEW c \in Conns, StreamEnds(c), c \in subscribed PROVE Feed!Next
    BY <2>2 DEF StreamEnds, Feed!Next
  <2>3. CASE Leave /\ "feed" \in subscribed
    BY <2>3 DEF Leave, Feed!Next
  <2>4. ASSUME NEW c \in Conns, Connected(c) PROVE Feed!Next
    BY <2>4 DEF Connected, Feed!Next
  <2>5. CASE RootHears \/ FeedHears
    BY <2>5 DEF RootHears, FeedHears, Feed!Next, Conns
  <2>6. CASE Advance
    BY <2>6 DEF Advance, Feed!Next
  <2>7. ASSUME NEW id \in Ids, NEW what \in Whats, Happens(id, what) PROVE Feed!Next
    BY <2>7 DEF Happens, Feed!Next
  <2> QED
    BY <2>1, <2>2, <2>3, <2>4, <2>5, <2>6, <2>7
    DEF CentreNext, centreVars, stream, MapLoads, ToggleFilter, ClickZone, StreamEnds, Leave, Refetch,
        Read, Apply, LoadFails, HandleFeedClick, Enter
<1> QED
  BY <1>1, <1>2, PTL DEF CentreSpec, Feed!Spec

=============================================================================
