-------------------------- MODULE IncidentsProofs --------------------------
(***************************************************************************)
(* Proofs about Incidents and the modules that extend it.  First, what the *)
(* steps of Incidents preserve.  Then LiveViews: types, what decisions     *)
(* leave in the tables, and that pages show what the tables hold.  Then    *)
(* SafeRoute: types, that routes avoid the zones they should, what the     *)
(* cache holds, and that the route on display is the one to the target.    *)
(***************************************************************************)
EXTENDS LiveViews, SafeRoute, TLAPS

LEMMA ServerInitTypes == ServerInit => ServerTypeOK
  BY DEF ServerInit, ServerTypeOK, Is

LEMMA PublishTypes ==
  ASSUME log \in Seq(Events), NEW e \in Events, Publish(e)
  PROVE  log' \in Seq(Events)
  BY DEF Publish

LEMMA BeginTypes ==
  ASSUME ServerTypeOK, NEW d \in Decisions, NEW k, NEW r \in Reports, NEW v \in Verdicts,
         Begin(d, k, r, v), k \in Desks \union {"nobody"},
         step' \in [Decisions -> AtWork \union {"idle", "answered", "failed", "settled"}],
         step'[d] = "update", again' \subseteq Decisions,
         \A e \in Decisions \ {d} : step'[e] = "idle" <=> step[e] = "idle",
         \A e \in Decisions \ {d} : step[e] = "settled" => step'[e] = "settled"
  PROVE  ServerTypeOK'
<1> USE DEF ServerTypeOK, Begin, calls, zones, Is
<1>1. subject' \in [Decisions -> Reports \union {"nothing"}]
  OBVIOUS
<1>2. \A e \in Decisions : subject'[e] = "nothing" <=> step'[e] = "idle"
  BY IncidentsAssumption
<1>3. crossed' \subseteq Reports
  OBVIOUS
<1>4. /\ verdict' \in [Decisions -> Verdicts \union {"none"}]
      /\ \A e \in Decisions : verdict'[e] = "none" => step'[e] \in {"idle", "settled"}
  BY DEF Verdicts
<1>5. /\ by' \in [Decisions -> Desks \union {"nobody"}]
      /\ active' \subseteq {z \in Zones : shape'[z] # "nothing"}
  OBVIOUS
<1> QED BY <1>1, <1>2, <1>3, <1>4, <1>5

LEMMA ServerTypes ==
  ASSUME ServerTypeOK, ServerStep
  PROVE  ServerTypeOK'
<1> USE IncidentsAssumption DEF ServerTypeOK, zones, calls, making, Is
<1>1. ASSUME NEW r \in Reports, CreateIncident(r) PROVE ServerTypeOK'
  BY <1>1 DEF CreateIncident
<1>2. ASSUME NEW r \in Reports, PublishCreated(r) PROVE ServerTypeOK'
  BY <1>2, PublishTypes DEF PublishCreated, Events
<1>3. ASSUME NEW w \in Drawings, NEW s \in Shapes, CreateDangerZone(w, s) PROVE ServerTypeOK'
  BY <1>3 DEF CreateDangerZone, Zones
<1>4. ASSUME NEW w \in Drawings, PublishActive(w) PROVE ServerTypeOK'
  BY <1>4, PublishTypes DEF PublishActive, Events
<1>5. ASSUME NEW z \in Zones, NEW s \in Shapes, UpdateDangerZone(z, s) PROVE ServerTypeOK'
  BY <1>5 DEF UpdateDangerZone
<1>6. ASSUME NEW z \in Zones, DeleteDangerZone(z) PROVE ServerTypeOK'
  BY <1>6 DEF DeleteDangerZone
<1>7. ASSUME NEW d \in Decisions, UpdateStatus(d) PROVE ServerTypeOK'
  BY <1>7 DEF UpdateStatus, Goes, AtWork, Verdicts
<1>8. ASSUME NEW d \in Decisions, InsertZone(d) PROVE ServerTypeOK'
  BY <1>8 DEF InsertZone, Goes, AtWork, Zones
<1>9. ASSUME NEW d \in Decisions, InsertFails(d) PROVE ServerTypeOK'
  BY <1>9 DEF InsertFails, Goes, AtWork
<1>10. ASSUME NEW d \in Decisions, PublishVerified(d) PROVE ServerTypeOK'
  BY <1>10, PublishTypes DEF PublishVerified, Goes, AtWork, Events
<1>11. ASSUME NEW d \in Decisions, Notify(d) PROVE ServerTypeOK'
  <2>1. subject[d] \in Reports /\ verdict[d] \in Verdicts
    BY <1>11 DEF Notify
  <2>2. notices' \in [Reports -> SUBSET Verdicts]
    BY <1>11, <2>1 DEF Notify
  <2> QED
    BY <1>11, <2>2 DEF Notify, Goes, AtWork
<1>12. ASSUME NEW d \in Decisions, HandlerDies(d) PROVE ServerTypeOK'
  BY <1>12 DEF HandlerDies, Goes, AtWork
<1>13. ASSUME NEW d \in Decisions, LoseAnswer(d) PROVE ServerTypeOK'
  BY <1>13 DEF LoseAnswer, Goes, AtWork
<1>14. ASSUME NEW d \in Decisions, NEW e \in Decisions, Retry(d, e) PROVE ServerTypeOK'
  <2>1. /\ subject[d] \in Reports /\ verdict[d] \in Verdicts /\ by[d] \in Desks \union {"nobody"}
        /\ Begin(e, by[d], subject[d], verdict[d]) /\ step[d] = "failed"
    BY <1>14 DEF Retry
  <2>2. /\ step' = [step EXCEPT ![d] = "settled", ![e] = "update"]
        /\ again' \subseteq Decisions
    BY <1>14 DEF Retry
  <2>3. step[e] = "idle" /\ d # e
    BY <2>1 DEF Begin
  <2>4. /\ step' \in [Decisions -> AtWork \union {"idle", "answered", "failed", "settled"}]
        /\ step'[e] = "update"
        /\ \A f \in Decisions \ {e} : step'[f] \in {"idle", "settled"} \/ step'[f] = step[f]
        /\ \A f \in Decisions \ {e} : step'[f] = "idle" <=> step[f] = "idle"
        /\ \A f \in Decisions \ {e} : step[f] = "settled" => step'[f] = "settled"
    BY <2>2, <2>3, <2>1 DEF AtWork
  <2> HIDE DEF ServerTypeOK
  <2> QED
    BY <2>1, <2>2, <2>4, BeginTypes
<1> QED
  BY <1>1, <1>2, <1>3, <1>4, <1>5, <1>6, <1>7, <1>8, <1>9, <1>10, <1>11, <1>12, <1>13, <1>14
  DEF ServerStep

LEMMA DecideTypes ==
  ASSUME ServerTypeOK, NEW d \in Decisions, NEW k \in Desks, NEW r \in Reports, NEW v \in Verdicts,
         Decide(d, k, r, v)
  PROVE  ServerTypeOK'
<1>1. step' \in [Decisions -> AtWork \union {"idle", "answered", "failed", "settled"}]
      /\ step'[d] = "update" /\ again' \subseteq Decisions
      /\ \A e \in Decisions \ {d} : step'[e] = step[e]
  BY DEF Decide, Goes, AtWork, ServerTypeOK
<1>2. Begin(d, k, r, v)
  BY DEF Decide
<1> QED
  BY <1>1, <1>2, BeginTypes

LEMMA SettleTypes ==
  ASSUME ServerTypeOK, NEW d \in Decisions, Settle(d)
  PROVE  ServerTypeOK'
  BY DEF ServerTypeOK, Settle, calls, zones, Is, Goes

LEMMA AbandonTypes ==
  ASSUME ServerTypeOK, NEW k, Abandon(k)
  PROVE  ServerTypeOK'
  BY DEF ServerTypeOK, Abandon, calls, zones, Is

-----------------------------------------------------------------------------
\* The stream is only added to.
LEMMA LogGrows ==
  ASSUME ServerTypeOK, ServerStep
  PROVE  log' = log \/ \E e \in Events : log' = Append(log, e)
  BY DEF ServerStep, CreateIncident, PublishCreated, CreateDangerZone, PublishActive, UpdateDangerZone,
     DeleteDangerZone, UpdateStatus, InsertZone, InsertFails, PublishVerified, Notify, HandlerDies,
     LoseAnswer, Retry, Begin, Publish, Events

-----------------------------------------------------------------------------
(***************************************************************************)
(* VerifiedHasZone.                                                        *)
(***************************************************************************)

LEMMA InitHasZone == ServerInit => VerifiedHasZone
  BY DEF ServerInit, VerifiedHasZone

LEMMA BeginHasZone ==
  ASSUME ServerTypeOK, VerifiedHasZone, NEW d \in Decisions, NEW k, NEW r \in Reports, NEW v,
         Begin(d, k, r, v), \A e \in Decisions : step[e] = "zone" => step'[e] = "zone"
  PROVE  VerifiedHasZone'
  BY IncidentsAssumption DEF ServerTypeOK, VerifiedHasZone, Begin, zones, calls, Is

LEMMA StepHasZone ==
  ASSUME ServerTypeOK, VerifiedHasZone, ServerStep
  PROVE  VerifiedHasZone'
<1> USE IncidentsAssumption DEF ServerTypeOK, VerifiedHasZone, zones, calls, making, Is, Goes
<1>1. ASSUME NEW r \in Reports, CreateIncident(r) PROVE VerifiedHasZone'
  BY <1>1 DEF CreateIncident
<1>2. ASSUME NEW r \in Reports, PublishCreated(r) PROVE VerifiedHasZone'
  BY <1>2 DEF PublishCreated
<1>3. ASSUME NEW w \in Drawings, NEW s \in Shapes, CreateDangerZone(w, s) PROVE VerifiedHasZone'
  BY <1>3 DEF CreateDangerZone, Zones
<1>4. ASSUME NEW w \in Drawings, PublishActive(w) PROVE VerifiedHasZone'
  BY <1>4 DEF PublishActive
<1>5. ASSUME NEW z \in Zones, NEW s \in Shapes, UpdateDangerZone(z, s) PROVE VerifiedHasZone'
  BY <1>5 DEF UpdateDangerZone, Zones
<1>6. ASSUME NEW z \in Zones, DeleteDangerZone(z) PROVE VerifiedHasZone'
  BY <1>6 DEF DeleteDangerZone
<1>7. ASSUME NEW d \in Decisions, UpdateStatus(d) PROVE VerifiedHasZone'
  BY <1>7 DEF UpdateStatus
<1>8. ASSUME NEW d \in Decisions, InsertZone(d) PROVE VerifiedHasZone'
  BY <1>8 DEF InsertZone, Zones
<1>9. ASSUME NEW d \in Decisions, InsertFails(d) PROVE VerifiedHasZone'
  BY <1>9 DEF InsertFails
<1>10. ASSUME NEW d \in Decisions, PublishVerified(d) PROVE VerifiedHasZone'
  BY <1>10 DEF PublishVerified
<1>11. ASSUME NEW d \in Decisions, Notify(d) PROVE VerifiedHasZone'
  BY <1>11 DEF Notify
<1>12. ASSUME NEW d \in Decisions, HandlerDies(d) PROVE VerifiedHasZone'
  BY <1>12 DEF HandlerDies
<1>13. ASSUME NEW d \in Decisions, LoseAnswer(d) PROVE VerifiedHasZone'
  BY <1>13 DEF LoseAnswer
<1>14. ASSUME NEW d \in Decisions, NEW e \in Decisions, Retry(d, e) PROVE VerifiedHasZone'
  <2>1. subject[d] \in Reports /\ Begin(e, by[d], subject[d], verdict[d])
        /\ \A f \in Decisions : step[f] = "zone" => step'[f] = "zone"
    BY <1>14 DEF Retry, Begin
  <2> QED
    BY <2>1, BeginHasZone
<1> QED
  BY <1>1, <1>2, <1>3, <1>4, <1>5, <1>6, <1>7, <1>8, <1>9, <1>10, <1>11, <1>12, <1>13, <1>14
  DEF ServerStep
-----------------------------------------------------------------------------
(***************************************************************************)
(* DecidedOnce.                                                            *)
(***************************************************************************)

\* A decision that has not got to its INSERT has no zone; decisions are about filed reports.
Fresh ==
    /\ \A d \in Decisions : step[d] \in {"idle", "update", "zone"} => shape[d] = "nothing"
    /\ \A r \in Reports : filed[r] = "none" => status[r] = "none"
    /\ \A d \in Decisions : subject[d] \in Reports => status[subject[d]] # "none"

About(r) == {d \in Decisions : subject[d] = r}

\* A report that is decided for the first time: one handler is at work, and nothing has come
\* of it but what that handler has done so far.
Once(r) ==
    /\ \A d, e \in About(r) : step[d] \in AtWork /\ step[e] \in AtWork => d = e
    /\ \A d \in About(r) : step[d] = "update" => status[r] = "pending"
    /\ status[r] = "pending" =>
          notices[r] = {} /\ \A d \in About(r) : step[d] \notin {"zone", "publish", "notify"}
    /\ \A d \in About(r) : step[d] \in {"zone", "publish", "notify"} =>
          verdict[d] = status[r] /\ notices[r] = {}
    /\ \A d \in About(r) : step[d] = "zone" =>
          status[r] = "verified" /\ \A e \in About(r) : shape[e] = "nothing"
    /\ \A d, e \in About(r) : shape[d] # "nothing" /\ shape[e] # "nothing" => d = e
    /\ status[r] # "verified" => \A d \in About(r) : shape[d] = "nothing"
    /\ notices[r] \subseteq {status[r]}

OnceInv == Fresh /\ \A r \in Reports \ crossed : Once(r)

LEMMA InitOnce == ServerInit => OnceInv
  BY IncidentsAssumption DEF ServerInit, OnceInv, Fresh, Once, About, Zones, AtWork

LEMMA OnceDecided == OnceInv => DecidedOnce
  BY DEF OnceInv, Once, About, DecidedOnce

LEMMA BeginOnce ==
  ASSUME ServerTypeOK, OnceInv, NEW d \in Decisions, NEW k, NEW r \in Reports, NEW v \in Verdicts,
         Begin(d, k, r, v), status[r] # "none", step'[d] = "update",
         \A e \in Decisions \ {d} : step'[e] = step[e] \/ (step[e] \notin AtWork /\ step'[e] = "settled")
  PROVE  OnceInv'
<1> USE IncidentsAssumption DEF Begin, zones, calls, Is, ServerTypeOK
<1>1. subject' = [subject EXCEPT ![d] = r] /\ subject[d] = "nothing" /\ shape[d] = "nothing"
  BY DEF OnceInv, Fresh
<1>2. Fresh'
  BY <1>1 DEF OnceInv, Fresh
<1>3. ASSUME NEW q \in Reports \ crossed', q # r PROVE Once(q)'
  BY <1>1, <1>3 DEF OnceInv, Once, About, AtWork
<1>4. ASSUME r \notin crossed' PROVE Once(r)'
  <2>1. Once(r) /\ status[r] = "pending" /\ \A e \in About(r) : step[e] \notin AtWork
    BY <1>4 DEF OnceInv, About
  <2> QED
    BY <1>1, <2>1 DEF Once, About, AtWork
<1> QED
  BY <1>2, <1>3, <1>4 DEF OnceInv

LEMMA StepOnce ==
  ASSUME ServerTypeOK, OnceInv, ServerStep
  PROVE  OnceInv'
<1> USE IncidentsAssumption
    DEF ServerTypeOK, OnceInv, Fresh, Once, About, AtWork, zones, calls, making, Is, Goes
<1>1. ASSUME NEW r \in Reports, CreateIncident(r) PROVE OnceInv'
  BY <1>1 DEF CreateIncident, Verdicts
<1>2. ASSUME NEW r \in Reports, PublishCreated(r) PROVE OnceInv'
  BY <1>2 DEF PublishCreated
<1>3. ASSUME NEW w \in Drawings, NEW s \in Shapes, CreateDangerZone(w, s) PROVE OnceInv'
  BY <1>3 DEF CreateDangerZone, Zones
<1>4. ASSUME NEW w \in Drawings, PublishActive(w) PROVE OnceInv'
  BY <1>4 DEF PublishActive
<1>5. ASSUME NEW z \in Zones, NEW s \in Shapes, UpdateDangerZone(z, s) PROVE OnceInv'
  BY <1>5 DEF UpdateDangerZone, Zones
<1>6. ASSUME NEW z \in Zones, DeleteDangerZone(z) PROVE OnceInv'
  BY <1>6 DEF DeleteDangerZone
<1>7. ASSUME NEW d \in Decisions, UpdateStatus(d) PROVE OnceInv'
  BY <1>7 DEF UpdateStatus, Verdicts
<1>8. ASSUME NEW d \in Decisions, InsertZone(d) PROVE OnceInv'
  BY <1>8 DEF InsertZone, Zones
<1>9. ASSUME NEW d \in Decisions, InsertFails(d) PROVE OnceInv'
  BY <1>9 DEF InsertFails
<1>10. ASSUME NEW d \in Decisions, PublishVerified(d) PROVE OnceInv'
  BY <1>10 DEF PublishVerified
<1>11. ASSUME NEW d \in Decisions, Notify(d) PROVE OnceInv'
  BY <1>11 DEF Notify
<1>12. ASSUME NEW d \in Decisions, HandlerDies(d) PROVE OnceInv'
  BY <1>12 DEF HandlerDies
<1>13. ASSUME NEW d \in Decisions, LoseAnswer(d) PROVE OnceInv'
  BY <1>13 DEF LoseAnswer
<1>14. ASSUME NEW d \in Decisions, NEW e \in Decisions, Retry(d, e) PROVE OnceInv'
  <2>1. /\ Begin(e, by[d], subject[d], verdict[d]) /\ step[d] = "failed" /\ step[e] = "idle"
        /\ step' = [step EXCEPT ![d] = "settled", ![e] = "update"]
    BY <1>14 DEF Retry, Begin
  <2>2. /\ subject[d] \in Reports /\ verdict[d] \in Verdicts /\ status[subject[d]] # "none"
        /\ step'[e] = "update"
        /\ \A f \in Decisions \ {e} : step'[f] = step[f] \/ (step[f] \notin AtWork /\ step'[f] = "settled")
    BY <2>1
  <2> HIDE DEF OnceInv, ServerTypeOK, AtWork
  <2> QED
    BY <2>1, <2>2, BeginOnce
<1> QED
  BY <1>1, <1>2, <1>3, <1>4, <1>5, <1>6, <1>7, <1>8, <1>9, <1>10, <1>11, <1>12, <1>13, <1>14
  DEF ServerStep

-----------------------------------------------------------------------------
(***************************************************************************)
(* LiveViews.                                                              *)
(***************************************************************************)

LEMMA ServerSame ==
  ASSUME UNCHANGED server
  PROVE  /\ ServerTypeOK => ServerTypeOK'
         /\ VerifiedHasZone => VerifiedHasZone'
         /\ OnceInv => OnceInv'
  BY DEF ServerTypeOK, server, Is, VerifiedHasZone, OnceInv, Fresh, Once, About

\* TypeOK without the tables.
ViewTypes ==
    /\ shown \in Displays
    /\ loaded \subseteq shown
    /\ DOMAIN cache = Views /\ DOMAIN reply = Views
    /\ fetch \in [Views -> {"none", "asked", "read"}]
    /\ \A v \in Views \ shown : fetch[v] = "none"
    /\ amiss \in [Views -> {"nothing", "short", "failed", "outdated"}]
    /\ \A v \in Views : fetch[v] = "asked" => amiss[v] = "nothing"

StreamTypes ==
    /\ listening \subseteq Pages
    /\ broken \subseteq Desks /\ broken \intersect listening = {}
    /\ cursor \in [Pages -> 0..Len(log)]

LEMMA TypeGroups == TypeOK <=> ServerTypeOK /\ ViewTypes /\ StreamTypes
  BY DEF TypeOK, ViewTypes, StreamTypes

LEMMA ShownAreViews == ViewTypes => shown \subseteq Views
  BY ViewsAssumption DEF ViewTypes

LEMMA InitTypes == Init => TypeOK
<1> SUFFICES ASSUME Init PROVE ServerTypeOK /\ ViewTypes /\ StreamTypes
  BY TypeGroups
<1>1. log = <<>> /\ Len(log) = 0
  BY DEF Init, ServerInit
<1> QED
  BY <1>1, ServerInitTypes DEF Init, ViewTypes, StreamTypes

LEMMA StreamsStay ==
  ASSUME StreamTypes, ServerTypeOK, UNCHANGED streams, log' = log \/ \E e \in Events : log' = Append(log, e)
  PROVE  StreamTypes'
<1>1. Len(log) \in Nat /\ Len(log') \in Nat /\ Len(log) <= Len(log')
  BY DEF ServerTypeOK
<1> QED
  BY <1>1 DEF StreamTypes, streams

LEMMA InvalidateTypes ==
  ASSUME ViewTypes, NEW vs \in SUBSET shown, Invalidate(vs), UNCHANGED <<shown, loaded, cache>>
  PROVE  ViewTypes'
  BY ShownAreViews DEF ViewTypes, Invalidate

LEMMA NextTypes == TypeOK /\ [Next]_vars => TypeOK'
<1> SUFFICES ASSUME ServerTypeOK, ViewTypes, StreamTypes, [Next]_vars
             PROVE  ServerTypeOK' /\ ViewTypes' /\ StreamTypes'
  BY DEF TypeOK, ViewTypes, StreamTypes
<1> USE ShownAreViews
<1> DEFINE T == ServerTypeOK /\ ViewTypes /\ StreamTypes
<1>1. CASE Server
  BY <1>1, ServerTypes, LogGrows, StreamsStay DEF Server, Outdate, Unsaid, ViewTypes, views
<1>2. CASE UNCHANGED vars
  BY <1>2, ServerSame DEF vars, server, ViewTypes, StreamTypes
<1>3. ASSUME NEW k \in Desks, NEW d \in Decisions, NEW r \in Reports, NEW v \in Verdicts,
             HandleAction(k, d, r, v)
      PROVE  T'
  <2>1. log' = log
    BY <1>3 DEF HandleAction, Decide, Begin
  <2> QED
    BY <1>3, <2>1, DecideTypes, StreamsStay DEF HandleAction, ViewTypes, views
<1>4. ASSUME NEW d \in Decisions, ActionSettles(d) PROVE T'
  <2>1. log' = log /\ ServerTypeOK'
    BY <1>4, SettleTypes DEF ActionSettles, Settle
  <2>2. ViewTypes'
    BY <1>4, InvalidateTypes DEF ActionSettles, Of, ViewTypes
  <2> QED
    BY <1>4, <2>1, <2>2, StreamsStay DEF ActionSettles
<1>5. ASSUME NEW v \in Views, Refetch(v) \/ Read(v) \/ Apply(v) \/ Fail(v) PROVE T'
  <2>1. ServerTypeOK' /\ StreamTypes'
    BY <1>5, ServerSame, StreamsStay DEF Refetch, Read, Apply, Fail, server
  <2>2. ViewTypes'
    BY <1>5 DEF Refetch, Read, Apply, Fail, Show, ViewTypes
  <2> QED
    BY <2>1, <2>2
<1>6. ASSUME NEW p \in Pages, Listen(p) PROVE T'
  <2>1. Len(log) \in Nat /\ log' = log
    BY <1>6 DEF ServerTypeOK, Listen, server
  <2>2. StreamTypes'
    BY <1>6, <2>1 DEF Listen, StreamTypes
  <2>3. ViewTypes'
    BY <1>6 DEF Listen, Outdate, Of, ViewTypes, views
  <2> QED
    BY <1>6, <2>2, <2>3, ServerSame DEF Listen
<1>7. ASSUME NEW p \in Pages, StreamBreaks(p) PROVE T'
  BY <1>7, ServerSame DEF StreamBreaks, StreamTypes, ViewTypes, views, server
<1>8. ASSUME NEW p \in Pages, OnMessage(p) PROVE T'
  <2>1. Len(log) \in Nat /\ log' = log
    BY <1>8 DEF ServerTypeOK, OnMessage, server
  <2>2. StreamTypes'
    BY <1>8, <2>1 DEF OnMessage, StreamTypes
  <2>3. ViewTypes'
    BY <1>8, InvalidateTypes DEF OnMessage, Of
  <2> QED
    BY <1>8, <2>2, <2>3, ServerSame DEF OnMessage
<1>9. ASSUME NEW p \in Pages, Reload(p) PROVE T'
  <2>1. Len(log) \in Nat /\ log' = log
    BY <1>9 DEF ServerTypeOK, Reload, Abandon
  <2>2. StreamTypes'
    BY <1>9, <2>1 DEF Reload, StreamTypes
  <2>3. ViewTypes'
    BY <1>9 DEF Reload, Of, ViewTypes
  <2> QED
    BY <1>9, <2>2, <2>3, AbandonTypes DEF Reload
<1> QED
  BY <1>1, <1>2, <1>3, <1>4, <1>5, <1>6, <1>7, <1>8, <1>9 DEF Next

\* Every variable keeps its type, for any number of pages, reports, decisions and drawings.
THEOREM TypeCorrect == Spec => []TypeOK
  BY InitTypes, NextTypes, PTL DEF Spec

-----------------------------------------------------------------------------
(***************************************************************************)
(* The tables.                                                             *)
(***************************************************************************)

TablesInv == VerifiedHasZone /\ OnceInv

LEMMA NextTables == TypeOK /\ TablesInv /\ [Next]_vars => TablesInv'
<1> SUFFICES ASSUME ServerTypeOK, TablesInv, [Next]_vars PROVE TablesInv'
  BY DEF TypeOK
<1>1. CASE Server
  BY <1>1, StepHasZone, StepOnce DEF Server, TablesInv
<1>2. CASE UNCHANGED server
  BY <1>2, ServerSame DEF TablesInv
<1>3. ASSUME NEW k \in Desks, NEW d \in Decisions, NEW r \in Reports, NEW v \in Verdicts,
             HandleAction(k, d, r, v)
      PROVE  TablesInv'
  <2>1. /\ Begin(d, k, r, v) /\ status[r] # "none" /\ step[d] = "idle"
        /\ step' = [step EXCEPT ![d] = "update"]
    BY <1>3 DEF HandleAction, Decide, Begin, Is, Goes
  <2>2. /\ step'[d] = "update"
        /\ \A e \in Decisions : step[e] = "zone" => step'[e] = "zone"
        /\ \A e \in Decisions \ {d} : step'[e] = step[e]
    BY <2>1 DEF ServerTypeOK
  <2> QED
    BY <2>1, <2>2, BeginHasZone, BeginOnce DEF TablesInv
<1>4. ASSUME NEW d \in Decisions, ActionSettles(d) PROVE TablesInv'
  <2>1. Settle(d)
    BY <1>4 DEF ActionSettles
  <2>2. VerifiedHasZone'
    BY <2>1 DEF Settle, Is, Goes, calls, zones, TablesInv, VerifiedHasZone, ServerTypeOK
  <2>3. OnceInv'
    BY <2>1 DEF Settle, Is, Goes, calls, zones, TablesInv, OnceInv, Fresh, Once, About, AtWork, ServerTypeOK
  <2> QED
    BY <2>2, <2>3 DEF TablesInv
<1>5. ASSUME NEW p \in Pages, Reload(p) PROVE TablesInv'
  BY <1>5 DEF Reload, Abandon, calls, zones, TablesInv, VerifiedHasZone, Is, OnceInv, Fresh, Once, About
<1>6. CASE UNCHANGED vars
  BY <1>2, <1>6 DEF vars, server
<1> QED
  BY <1>1, <1>2, <1>3, <1>4, <1>5, <1>6
  DEF Next, Refetch, Read, Apply, Fail, Listen, StreamBreaks, OnMessage

LEMMA TablesHold == Spec => [](TypeOK /\ TablesInv)
<1>1. Init => TypeOK /\ TablesInv
  BY InitTypes, InitHasZone, InitOnce DEF Init, TablesInv
<1>2. (TypeOK /\ TablesInv) /\ [Next]_vars => (TypeOK /\ TablesInv)'
  BY NextTypes, NextTables
<1> QED
  BY <1>1, <1>2, PTL DEF Spec

\* incidents/service.go:197-208: whatever fails after it, a verification that got past its
\* INSERT has left a zone, and no later decision takes it away.
THEOREM VerifiedIsZoned == Spec => []VerifiedHasZone
<1>1. TypeOK /\ TablesInv => VerifiedHasZone
  BY DEF TablesInv
<1> QED
  BY <1>1, TablesHold, PTL

\* incidents/service.go:191-230: as long as decisions on a report are made one by one and
\* only while it is pending, they leave one zone or none, and one verdict is told.
THEOREM OneVerdict == Spec => []DecidedOnce
<1>1. TypeOK /\ TablesInv => DecidedOnce
  BY OnceDecided DEF TablesInv
<1> QED
  BY <1>1, TablesHold, PTL

\* Zones are those of verified reports, in every run of the pages (UpdateIncidentStatusService).
THEOREM DecisionsAreWhatTheySay == Spec => []DecisionsTakeEffect
  BY VerifiedIsZoned, OneVerdict, PTL DEF DecisionsTakeEffect

-----------------------------------------------------------------------------
(***************************************************************************)
(* The views.                                                              *)
(***************************************************************************)

\* Nothing is to come that would make the page ask again, and nothing was kept from it.
Settled(v) == amiss[v] # "outdated" /\ ~Owed(v) /\ ~Unread(v)

\* Then what a request has read is as good as what is shown.
Good(v) ==
    /\ fetch[v] = "read" => Reflects(v, reply[v])
    /\ v \in loaded /\ fetch[v] = "none" => Reflects(v, cache[v])

GoodInv == \A v \in shown : Settled(v) => Good(v)

\* A longer stream has no fewer unread events.
LEMMA UnreadGrows ==
  ASSUME ServerTypeOK, StreamTypes, NEW v \in Views, UNCHANGED cursor,
         log' = log \/ \E e \in Events : log' = Append(log, e), Unread(v)
  PROVE  Unread(v)'
<1>1. v[1] \in Pages
  BY DEF Views, Pages
<1>2. log \in Seq(Events) /\ Len(log) \in Nat /\ cursor[v[1]] \in 0..Len(log)
  BY <1>1 DEF ServerTypeOK, StreamTypes
<1>3. PICK i \in cursor[v[1]] + 1 .. Len(log) : v[2] \in Tells(log[i])
  BY DEF Unread
<1>4. Len(log') \in Nat /\ Len(log) <= Len(log') /\ \A j \in 1..Len(log) : log'[j] = log[j]
  BY <1>2
<1>5. i \in 1..Len(log) /\ i \in cursor[v[1]] + 1 .. Len(log')
  BY <1>2, <1>3, <1>4
<1> QED
  BY <1>3, <1>4, <1>5 DEF Unread, Tells

\* What is asked for again is no matter of doubt; of the other views nothing changes.
LEMMA InvalidateGood ==
  ASSUME ViewTypes, NEW vs \in SUBSET shown, Invalidate(vs), UNCHANGED <<loaded, cache>>,
         NEW v \in shown, amiss'[v] # "outdated"
  PROVE  \/ fetch'[v] = "asked"
         \/ v \notin vs /\ UNCHANGED <<amiss[v], fetch[v], reply[v]>>
  BY ShownAreViews DEF ViewTypes, Invalidate

\* A view stays good as long as neither it nor what it should show changes.
LEMMA GoodKept ==
  ASSUME NEW v \in shown, Good(v), UNCHANGED <<amiss[v], fetch[v], reply[v], cache[v]>>,
         Truth(v[2])' = Truth(v[2]), v \in loaded' => v \in loaded
  PROVE  Good(v)'
  BY DEF Good, Reflects

LEMMA InitGood == Init => GoodInv
  BY ViewsAssumption DEF Init, GoodInv, Good, Reflects

LEMMA NextGood == TypeOK /\ GoodInv /\ [Next]_vars => GoodInv'
<1> SUFFICES ASSUME ServerTypeOK, ViewTypes, StreamTypes, GoodInv, [Next]_vars,
                    NEW v \in shown', Settled(v)'
             PROVE  Good(v)'
  BY TypeGroups DEF GoodInv
<1>0. v \in shown /\ v \in Views /\ v[1] \in Pages
  <2>1. shown' = shown
    BY DEF Next, vars, views, Server, HandleAction, ActionSettles, Refetch, Read, Apply, Fail,
       Listen, StreamBreaks, OnMessage, Reload
  <2>2. v \in shown /\ v \in Views
    BY <2>1, ShownAreViews
  <2> QED
    BY <2>2 DEF Views, Pages
<1> USE <1>0
<1>1. CASE Server
  <2>1. /\ log' = log \/ \E e \in Events : log' = Append(log, e)
        /\ UNCHANGED <<views, cursor>> /\ Outdate(Unsaid)
    BY <1>1, LogGrows DEF Server, streams
  <2>2. CASE fetch[v] = "asked"
    BY <2>1, <2>2 DEF Good, Reflects, views
  <2>3. CASE fetch[v] # "asked"
    <3>1. v \notin Unsaid /\ amiss[v] # "outdated" /\ amiss'[v] = amiss[v]
      BY <2>1, <2>3 DEF Outdate, Settled
    <3>2. ~Owed(v) /\ Truth(v[2])' = Truth(v[2])
      BY <3>1 DEF Unsaid, Settled
    <3>3. ~Unread(v)
      BY <2>1, UnreadGrows DEF Settled
    <3> QED
      BY <2>1, <3>1, <3>2, <3>3 DEF GoodInv, Settled, Good, Reflects, views
  <2> QED BY <2>2, <2>3
<1>2. CASE UNCHANGED vars
  <2>1. (Owed(v)' <=> Owed(v)) /\ (Unread(v)' <=> Unread(v)) /\ Truth(v[2])' = Truth(v[2])
    BY <1>2 DEF vars, Owed, Unread, Truth
  <2> QED
    BY <1>2, <2>1, GoodKept DEF vars, GoodInv, Settled
<1>3. ASSUME NEW k \in Desks, NEW d \in Decisions, NEW r \in Reports, NEW x \in Verdicts,
             HandleAction(k, d, r, x)
      PROVE  Good(v)'
  <2>1. /\ step[d] = "idle" /\ step' = [step EXCEPT ![d] = "update"] /\ by' = [by EXCEPT ![d] = k]
        /\ UNCHANGED <<filed, drawn, status, shape, active, log, views, streams, amiss>>
    BY <1>3 DEF HandleAction, Decide, Begin, Is, Goes, calls, zones
  <2>2. Owed(v)' <=> Owed(v)
    BY <2>1 DEF Owed, ServerTypeOK
  <2> QED
    <3>1. (Unread(v)' <=> Unread(v)) /\ Truth(v[2])' = Truth(v[2])
      BY <2>1 DEF Unread, Truth, streams
    <3> QED
      BY <2>1, <2>2, <3>1, GoodKept DEF GoodInv, Settled, views
<1>4. ASSUME NEW d \in Decisions, ActionSettles(d) PROVE Good(v)'
  <2>1. /\ step' = [step EXCEPT ![d] = "settled"] /\ by' = [by EXCEPT ![d] = "nobody"]
        /\ UNCHANGED <<filed, drawn, status, shape, active, log, loaded, cache, streams>>
        /\ step[d] \in {"answered", "failed"}
    BY <1>4 DEF ActionSettles, Settle, Is, Goes, calls, zones
  <2>2. ASSUME v[2] = "queue" /\ by[d] = v[1] => step[d] # "answered" PROVE Owed(v)' <=> Owed(v)
    BY <2>1, <2>2 DEF Owed, ServerTypeOK
  <2>3. Unread(v)' <=> Unread(v)
    BY <2>1 DEF Unread, streams
  <2>6. Truth(v[2])' = Truth(v[2])
    BY <2>1 DEF Truth
  <2>4. CASE step[d] = "answered"
    <3>1. Invalidate({w \in Of(by[d]) : w[2] = "queue"})
      BY <1>4, <2>4 DEF ActionSettles, Is
    <3>2. \/ fetch'[v] = "asked"
          \/ /\ v \notin {w \in Of(by[d]) : w[2] = "queue"}
             /\ UNCHANGED <<amiss[v], fetch[v], reply[v]>>
      BY <2>1, <3>1, InvalidateGood DEF Of, Settled
    <3>3. CASE fetch'[v] = "asked"
      BY <3>3 DEF Good, Reflects
    <3>4. CASE fetch'[v] # "asked"
      <4>1. ~(v[2] = "queue" /\ by[d] = v[1])
        BY <3>2, <3>4 DEF Of
      <4>2. Settled(v)
        BY <2>2, <2>3, <3>2, <3>4, <4>1 DEF Settled
      <4> QED
        BY <2>1, <2>6, <3>2, <3>4, <4>2, GoodKept DEF GoodInv
    <3> QED BY <3>3, <3>4
  <2>5. CASE step[d] = "failed"
    <3>1. UNCHANGED <<fetch, reply, amiss>>
      BY <1>4, <2>5 DEF ActionSettles, Is
    <3> QED
      BY <2>1, <2>2, <2>3, <2>5, <2>6, <3>1, GoodKept DEF GoodInv, Settled
  <2> QED BY <2>1, <2>4, <2>5
<1>5. ASSUME NEW w \in Views, Refetch(w) \/ Read(w) \/ Apply(w) \/ Fail(w) PROVE Good(v)'
  <2>1. UNCHANGED <<server, streams>>
    BY <1>5 DEF Refetch, Read, Apply, Fail
  <2>2. /\ (Owed(v)' <=> Owed(v)) /\ (Unread(v)' <=> Unread(v))
        /\ Truth(v[2])' = Truth(v[2])
    BY <2>1 DEF server, streams, Owed, Unread, Truth
  <2>3. CASE Refetch(w)
    BY <2>2, <2>3 DEF Refetch, GoodInv, Settled, Good, Reflects, ViewTypes
  <2>4. CASE Read(w)
    BY <2>2, <2>4 DEF Read, GoodInv, Settled, Good, Reflects, ViewTypes
  <2>5. CASE Apply(w)
    BY <2>2, <2>5 DEF Apply, Show, GoodInv, Settled, Good, Reflects, ViewTypes
  <2>6. CASE Fail(w)
    BY <2>2, <2>6 DEF Fail, Show, GoodInv, Settled, Good, Reflects, ViewTypes
  <2> QED BY <1>5, <2>3, <2>4, <2>5, <2>6
<1>6. ASSUME NEW p \in Pages, Listen(p) PROVE Good(v)'
  <2>1. /\ UNCHANGED <<server, views>> /\ cursor' = [cursor EXCEPT ![p] = Len(log)]
        /\ Outdate({w \in Of(p) : Unread(w)})
    BY <1>6 DEF Listen
  <2>2. (Owed(v)' <=> Owed(v)) /\ Truth(v[2])' = Truth(v[2])
    BY <2>1 DEF server, Owed, Truth
  <2>3. CASE fetch[v] = "asked"
    BY <2>1, <2>3 DEF Good, Reflects, views
  <2>4. CASE fetch[v] # "asked"
    <3>1. v \notin {w \in Of(p) : Unread(w)} /\ amiss[v] # "outdated" /\ amiss'[v] = amiss[v]
      BY <2>1, <2>4 DEF Outdate, Settled
    <3>2. ~Unread(v)
      <4>1. CASE v[1] = p
        BY <3>1, <4>1 DEF Of
      <4>2. CASE v[1] # p
        <5>1. cursor'[v[1]] = cursor[v[1]] /\ log' = log
          BY <2>1, <4>2 DEF StreamTypes, server
        <5>2. ~Unread(v)'
          BY DEF Settled
        <5> QED BY <5>1, <5>2 DEF Unread
      <4> QED BY <4>1, <4>2
    <3> QED
      BY <2>1, <2>2, <3>1, <3>2 DEF GoodInv, Settled, Good, Reflects, views
  <2> QED BY <2>3, <2>4
<1>7. ASSUME NEW p \in Pages, StreamBreaks(p) PROVE Good(v)'
  <2>1. (Owed(v)' <=> Owed(v)) /\ (Unread(v)' <=> Unread(v)) /\ Truth(v[2])' = Truth(v[2])
    BY <1>7 DEF StreamBreaks, server, Owed, Unread, Truth
  <2> QED
    BY <1>7, <2>1, GoodKept DEF StreamBreaks, views, GoodInv, Settled
<1>8. ASSUME NEW p \in Pages, OnMessage(p) PROVE Good(v)'
  <2> DEFINE e == log[cursor[p] + 1]
             vs == {w \in Of(p) : w[2] \in Tells(e)}
  <2>1. /\ UNCHANGED <<server, shown, loaded, cache>> /\ Invalidate(vs)
        /\ cursor' = [cursor EXCEPT ![p] = @ + 1] /\ cursor[p] < Len(log)
    BY <1>8 DEF OnMessage
  <2>2. (Owed(v)' <=> Owed(v)) /\ Truth(v[2])' = Truth(v[2]) /\ log' = log
    BY <2>1 DEF server, Owed, Truth
  <2>3. \/ fetch'[v] = "asked"
        \/ v \notin vs /\ UNCHANGED <<amiss[v], fetch[v], reply[v]>>
    BY <2>1, InvalidateGood DEF Of, Settled
  <2>4. CASE fetch'[v] = "asked"
    BY <2>4 DEF Good, Reflects
  <2>5. CASE fetch'[v] # "asked"
    <3>1. ~Unread(v)'
      BY DEF Settled
    <3>2. ~Unread(v)
      <4>1. CASE v[1] = p
        <5>1. v[2] \notin Tells(e)
          BY <2>3, <2>5, <4>1 DEF Of
        <5>2. cursor'[p] = cursor[p] + 1 /\ cursor[p] \in Nat /\ Len(log) \in Nat
          BY <2>1 DEF StreamTypes, ServerTypeOK
        <5>3. \A i \in cursor[p] + 2 .. Len(log) : v[2] \notin Tells(log[i])
          BY <2>2, <3>1, <4>1, <5>2 DEF Unread, Tells
        <5>4. \A i \in cursor[p] + 1 .. Len(log) : i = cursor[p] + 1 \/ i \in cursor[p] + 2 .. Len(log)
          BY <5>2
        <5> QED BY <4>1, <5>1, <5>3, <5>4 DEF Unread
      <4>2. CASE v[1] # p
        <5>1. cursor'[v[1]] = cursor[v[1]]
          BY <2>1, <4>2 DEF StreamTypes
        <5> QED BY <2>2, <3>1, <5>1 DEF Unread
      <4> QED BY <4>1, <4>2
    <3> QED
      BY <2>1, <2>2, <2>3, <2>5, <3>2 DEF GoodInv, Settled, Good, Reflects
  <2> QED BY <2>4, <2>5
<1>9. ASSUME NEW p \in Pages, Reload(p) PROVE Good(v)'
  <2>1. /\ UNCHANGED <<filed, status, drawn, shape, active, step, log>>
        /\ by' = [d \in Decisions |-> IF by[d] = p THEN "nobody" ELSE by[d]]
    BY <1>9 DEF Reload, Abandon, calls, zones
  <2>2. CASE v \in Of(p)
    BY <1>9, <2>2 DEF Reload, Good, Reflects
  <2>3. CASE v \notin Of(p)
    <3>1. v[1] # p
      BY <2>3 DEF Of
    <3>2. /\ fetch'[v] = fetch[v] /\ reply'[v] = reply[v] /\ cache'[v] = cache[v]
          /\ cursor'[v[1]] = cursor[v[1]]
          /\ (v \in loaded' <=> v \in loaded) /\ amiss'[v] = amiss[v]
      BY <1>9, <2>3, <3>1 DEF Reload, StreamTypes
    <3>3. (Unread(v)' <=> Unread(v)) /\ Truth(v[2])' = Truth(v[2])
      BY <2>1, <3>2 DEF Unread, Truth
    <3>4. ~Owed(v)
      <4>1. v[2] = "queue" => v[1] # "nobody"
        BY IncidentsAssumption, ViewsAssumption DEF Views
      <4>2. \A d \in Decisions : v[2] = "queue" => (by'[d] = v[1] <=> by[d] = v[1])
        BY <2>1, <3>1, <4>1
      <4>3. ~Owed(v)'
        BY DEF Settled
      <4> QED
        BY <2>1, <4>2, <4>3 DEF Owed
    <3> QED
      BY <3>2, <3>3, <3>4 DEF GoodInv, Settled, Good, Reflects
  <2> QED BY <2>2, <2>3
<1> QED
  BY <1>1, <1>2, <1>3, <1>4, <1>5, <1>6, <1>7, <1>8, <1>9 DEF Next

\* useSSE.ts:35, __root.tsx:65-71: with any number of pages, lists and events, a list that has
\* nothing to wait for, and to which no change was kept secret, shows what the tables hold, or
\* some of it, if what was read last was cut short.  Excepted is a list whose last load failed:
\* a map is then as old as it was, and a desk's list is empty.
THEOREM PagesFollow == Spec => []ViewIsCurrent
<1>1. Init => TypeOK /\ GoodInv
  BY InitTypes, InitGood
<1>2. (TypeOK /\ GoodInv) /\ [Next]_vars => (TypeOK /\ GoodInv)'
  BY NextTypes, NextGood
<1>3. TypeOK /\ GoodInv => ViewIsCurrent
  <2> SUFFICES ASSUME GoodInv, NEW v \in loaded, loaded \subseteq shown,
                      fetch[v] = "none", ~Owed(v), ~Unread(v)
               PROVE  Reflects(v, cache[v])
    BY DEF TypeOK, ViewIsCurrent
  <2>1. CASE amiss[v] = "outdated"
    BY <2>1 DEF Reflects
  <2>2. CASE amiss[v] # "outdated"
    BY <2>2 DEF GoodInv, Settled, Good
  <2> QED BY <2>1, <2>2
<1> QED
  BY <1>1, <1>2, <1>3, PTL DEF Spec

-----------------------------------------------------------------------------
(***************************************************************************)
(* SafeRoute.                                                              *)
(***************************************************************************)

LEMMA LevelFacts ==
  /\ Len(Levels) = 3 /\ Levels[1] = 1 /\ Levels[2] = 3 /\ Levels[3] = 5
  BY DEF Levels

\* RouteTypeOK without the tables.
RouteTypes ==
    /\ at \in [Requests -> {"idle", "zones", "cache", "valhalla", "store", "answered", "done"}]
    /\ from \in [Requests -> Travellers \union {"nobody"}]
    /\ wish \in [Requests -> Trips \union {"none"}]
    /\ \A h \in Requests : at[h] \in {"idle", "done"} <=> from[h] = "nobody"
    /\ \A h \in Requests : at[h] \in {"idle", "done"} <=> wish[h] = "none"
    /\ camp \subseteq Requests
    /\ level \in [Requests -> 1..3]
    /\ polys \in [Requests -> SUBSET Shapes]
    /\ saw \in [Requests -> SUBSET Shapes]
    /\ DOMAIN found = Requests /\ DOMAIN routeCache = Trips /\ DOMAIN route = Travellers
    /\ \A h \in Requests : found[h] = Nowhere \/ IsRoute(found[h])
    /\ \A t \in Trips : routeCache[t] = Nowhere \/ IsRoute(routeCache[t])
    /\ \A p \in Travellers : route[p] = Nowhere \/ IsRoute(route[p])
    /\ target \in [Travellers -> Trips \union {"none"}]
    /\ troubled \subseteq Travellers

LEMMA RouteTypeGroups == RouteTypeOK <=> ServerTypeOK /\ RouteTypes
  BY LevelFacts DEF RouteTypeOK, RouteTypes

LEMMA RouteInitTypes == RouteInit => RouteTypeOK
<1> SUFFICES ASSUME RouteInit PROVE ServerTypeOK /\ RouteTypes
  BY RouteTypeGroups
<1> QED
  BY ServerInitTypes DEF RouteInit, RouteTypes

LEMMA ReadZonesTypes ==
  ASSUME ServerTypeOK, RouteTypes, NEW h \in Requests, ReadZones(h)
  PROVE  RouteTypes'
<1>1. \A z \in active : shape[z] \in Shapes
  BY DEF ServerTypeOK
<1>2. PICK read \in SUBSET active :
        /\ saw' = [saw EXCEPT ![h] = {shape[z] : z \in read}]
        /\ polys' = [polys EXCEPT ![h] =
              {shape[z] : z \in {y \in read : Severity[shape[y]] >= Levels[level[h]]}}]
  BY DEF ReadZones
<1>3. saw' \in [Requests -> SUBSET Shapes] /\ polys' \in [Requests -> SUBSET Shapes]
  BY <1>1, <1>2 DEF RouteTypes
<1>4. at[h] = "zones" /\ at' = [at EXCEPT ![h] = "cache"]
      /\ UNCHANGED <<from, wish, camp, level, found, routeCache, pages>>
  BY DEF ReadZones
<1> QED
  BY <1>3, <1>4 DEF RouteTypes, pages

LEMMA RouteNextTypes == RouteTypeOK /\ [RouteNext]_routeVars => RouteTypeOK'
<1> SUFFICES ASSUME ServerTypeOK, RouteTypes, [RouteNext]_routeVars PROVE ServerTypeOK' /\ RouteTypes'
  BY LevelFacts DEF RouteTypeOK, RouteTypes
<1> USE RoutesAssumption
<1>1. CASE ZonesChange
  BY <1>1, ServerTypes DEF ZonesChange, RouteTypes, requests, pages
<1>2. CASE UNCHANGED routeVars
  BY <1>2, ServerSame DEF routeVars, server, RouteTypes
<1>3. ASSUME NEW p \in Travellers, ClearRoute(p) PROVE ServerTypeOK' /\ RouteTypes'
  BY <1>3, ServerSame DEF ClearRoute, RouteTypes, requests
<1>4. ASSUME NEW p \in Travellers, NEW h \in Requests, NEW t \in Trips, HandleRouteToLocation(p, h, t)
      PROVE ServerTypeOK' /\ RouteTypes'
  BY <1>4, ServerSame DEF HandleRouteToLocation, Ask, RouteTypes
<1>5. ASSUME NEW p \in Travellers, NEW h \in Requests, NEW t \in Trips, HandleGetRoute(p, h, t)
      PROVE ServerTypeOK' /\ RouteTypes'
  BY <1>5, ServerSame DEF HandleGetRoute, Ask, RouteTypes
<1>6. ASSUME NEW h \in Requests, SetRoute(h) PROVE ServerTypeOK' /\ RouteTypes'
  <2>1. from[h] \in Travellers /\ wish[h] \in Trips /\ IsRoute(found[h])
    BY <1>6 DEF SetRoute, RouteTypes
  <2> QED
    BY <1>6, <2>1, ServerSame DEF SetRoute, Forget, RouteTypes
<1>7. ASSUME NEW h \in Requests, NoRoute(h) PROVE ServerTypeOK' /\ RouteTypes'
  BY <1>7, ServerSame DEF NoRoute, Forget, RouteTypes
<1>8. ASSUME NEW h \in Requests, ReadZones(h) PROVE ServerTypeOK' /\ RouteTypes'
  BY <1>8, ServerSame, ReadZonesTypes DEF ReadZones
<1>9. ASSUME NEW h \in Requests, CacheHit(h) PROVE ServerTypeOK' /\ RouteTypes'
  BY <1>9, ServerSame DEF CacheHit, Used, RouteTypes, pages
<1>10. ASSUME NEW h \in Requests, CacheMiss(h) PROVE ServerTypeOK' /\ RouteTypes'
  BY <1>10, ServerSame DEF CacheMiss, RouteTypes, pages
<1>11. ASSUME NEW h \in Requests, GetRoute(h) PROVE ServerTypeOK' /\ RouteTypes'
  <2>1. PICK path \in Paths[wish[h]] :
          found' = [found EXCEPT ![h] =
            [trip |-> wish[h], path |-> path, compromised |-> level[h] > 1, saw |-> saw[h]]]
    BY <1>11 DEF GetRoute
  <2>2. wish[h] \in Trips /\ saw[h] \subseteq Shapes
    BY <1>11 DEF GetRoute, RouteTypes
  <2>3. IsRoute(found'[h])
    BY <2>1, <2>2 DEF IsRoute, RouteTypes
  <2>4. DOMAIN found' = Requests /\ \A g \in Requests : found'[g] = Nowhere \/ IsRoute(found'[g])
    BY <2>1, <2>3 DEF RouteTypes
  <2> QED
    BY <1>11, <2>4, ServerSame DEF GetRoute, Used, RouteTypes, pages
<1>12. ASSUME NEW h \in Requests, GetRouteFails(h) PROVE ServerTypeOK' /\ RouteTypes'
  BY <1>12, ServerSame, LevelFacts DEF GetRouteFails, Used, RouteTypes, pages
<1>13. ASSUME NEW h \in Requests, Store(h) PROVE ServerTypeOK' /\ RouteTypes'
  BY <1>13, ServerSame DEF Store, RouteTypes, pages
<1>14. ASSUME NEW t \in Trips, Expire(t) PROVE ServerTypeOK' /\ RouteTypes'
  BY <1>14, ServerSame DEF Expire, RouteTypes, requests, pages
<1> QED
  BY <1>1, <1>2, <1>3, <1>4, <1>5, <1>6, <1>7, <1>8, <1>9, <1>10, <1>11, <1>12, <1>13, <1>14
  DEF RouteNext

\* Every variable keeps its type, whatever trips, paths, shapes and severities there are.
THEOREM RouteTypesCorrect == RouteSpec => []RouteTypeOK
  BY RouteInitTypes, RouteNextTypes, PTL DEF RouteSpec

-----------------------------------------------------------------------------
(***************************************************************************)
(* What routes avoid.                                                      *)
(***************************************************************************)

\* Between reading the zones and using them, the excluded ones are those the level is for.
PolysInv ==
    \A h \in Requests : at[h] \in {"cache", "valhalla"} =>
        polys[h] = {s \in saw[h] : Severity[s] >= Levels[level[h]]}

AvoidInv == PolysInv /\ RoutesAvoidZones

LEMMA NowhereKeeps == Keeps(Nowhere)
  BY DEF Keeps, Nowhere, Clear

LEMMA InitAvoids == RouteInit => AvoidInv
  BY NowhereKeeps DEF RouteInit, AvoidInv, PolysInv, RoutesAvoidZones

LEMMA NextAvoids == RouteTypeOK /\ AvoidInv /\ [RouteNext]_routeVars => AvoidInv'
<1> SUFFICES ASSUME RouteTypeOK, RouteTypes, PolysInv, RoutesAvoidZones, [RouteNext]_routeVars
             PROVE  PolysInv' /\ RoutesAvoidZones'
  BY RouteTypeGroups DEF AvoidInv
<1> USE NowhereKeeps, RoutesAssumption DEF RoutesAvoidZones
<1>1. CASE ZonesChange \/ UNCHANGED routeVars
  BY <1>1 DEF ZonesChange, routeVars, PolysInv, requests, pages
<1>2. ASSUME NEW p \in Travellers, ClearRoute(p) PROVE PolysInv' /\ RoutesAvoidZones'
  BY <1>2 DEF ClearRoute, PolysInv, requests, RouteTypes
<1>3. ASSUME NEW p \in Travellers, NEW h \in Requests, NEW t \in Trips,
             HandleRouteToLocation(p, h, t) \/ HandleGetRoute(p, h, t)
      PROVE  PolysInv' /\ RoutesAvoidZones'
  BY <1>3 DEF HandleRouteToLocation, HandleGetRoute, Ask, PolysInv, RouteTypes
<1>4. ASSUME NEW h \in Requests, SetRoute(h) PROVE PolysInv' /\ RoutesAvoidZones'
  BY <1>4 DEF SetRoute, Forget, PolysInv, RouteTypes
<1>5. ASSUME NEW h \in Requests, NoRoute(h) PROVE PolysInv' /\ RoutesAvoidZones'
  BY <1>5 DEF NoRoute, Forget, PolysInv, RouteTypes
<1>6. ASSUME NEW h \in Requests, ReadZones(h) PROVE PolysInv' /\ RoutesAvoidZones'
  <2>1. PICK read \in SUBSET active :
          /\ saw' = [saw EXCEPT ![h] = {shape[z] : z \in read}]
          /\ polys' = [polys EXCEPT ![h] =
                {shape[z] : z \in {y \in read : Severity[shape[y]] >= Levels[level[h]]}}]
    BY <1>6 DEF ReadZones
  <2>2. polys'[h] = {s \in saw'[h] : Severity[s] >= Levels[level[h]]}
    BY <2>1 DEF RouteTypes
  <2> QED
    BY <1>6, <2>1, <2>2 DEF ReadZones, PolysInv, RouteTypes, pages
<1>7. ASSUME NEW h \in Requests, CacheHit(h) PROVE PolysInv' /\ RoutesAvoidZones'
  BY <1>7 DEF CacheHit, Used, PolysInv, RouteTypes, pages
<1>8. ASSUME NEW h \in Requests, CacheMiss(h) PROVE PolysInv' /\ RoutesAvoidZones'
  BY <1>8 DEF CacheMiss, PolysInv, RouteTypes, pages
<1>9. ASSUME NEW h \in Requests, GetRoute(h) PROVE PolysInv' /\ RoutesAvoidZones'
  <2>1. PICK path \in Paths[wish[h]] :
          /\ Clear(path, polys[h])
          /\ found' = [found EXCEPT ![h] =
               [trip |-> wish[h], path |-> path, compromised |-> level[h] > 1, saw |-> saw[h]]]
    BY <1>9 DEF GetRoute
  <2> DEFINE x == [trip |-> wish[h], path |-> path, compromised |-> level[h] > 1, saw |-> saw[h]]
  <2>2. polys[h] = {s \in saw[h] : Severity[s] >= Levels[level[h]]} /\ saw[h] \subseteq Shapes
    BY <1>9 DEF GetRoute, PolysInv, RouteTypes
  <2>3. \A s \in saw[h] : Severity[s] \in 1..5
    BY <2>2
  <2>4. level[h] \in 1..3 /\ (level[h] > 1 => Levels[level[h]] <= 5) /\ (~(level[h] > 1) => Levels[level[h]] = 1)
    BY LevelFacts DEF RouteTypes
  <2>5. {s \in saw[h] : ~x.compromised \/ Severity[s] = 5} \subseteq polys[h]
    <3>1. CASE level[h] > 1
      BY <3>1, <2>2, <2>3, <2>4, LevelFacts
    <3>2. CASE ~(level[h] > 1)
      BY <3>2, <2>2, <2>3, <2>4
    <3> QED BY <3>1, <3>2
  <2>6. Keeps(x)
    BY <2>1, <2>5 DEF Keeps, Clear
  <2>7. \A g \in Requests : Keeps(found'[g])
    BY <2>1, <2>6 DEF RouteTypes
  <2> QED
    BY <1>9, <2>7 DEF GetRoute, Used, PolysInv, RouteTypes, pages
<1>10. ASSUME NEW h \in Requests, GetRouteFails(h) PROVE PolysInv' /\ RoutesAvoidZones'
  BY <1>10 DEF GetRouteFails, Used, PolysInv, RouteTypes, pages
<1>11. ASSUME NEW h \in Requests, Store(h) PROVE PolysInv' /\ RoutesAvoidZones'
  <2>1. wish[h] \in Trips
    BY <1>11 DEF Store, RouteTypes
  <2>2. \A t \in Trips : routeCache'[t] = routeCache[t] \/ routeCache'[t] = found[h]
    BY <1>11, <2>1 DEF Store, RouteTypes
  <2> QED
    BY <1>11, <2>2 DEF Store, PolysInv, RouteTypes, pages
<1>12. ASSUME NEW t \in Trips, Expire(t) PROVE PolysInv' /\ RoutesAvoidZones'
  BY <1>12 DEF Expire, PolysInv, RouteTypes, requests, pages
<1> QED
  BY <1>1, <1>2, <1>3, <1>4, <1>5, <1>6, <1>7, <1>8, <1>9, <1>10, <1>11, <1>12 DEF RouteNext

\* emergency/service.go:267-305: for any zones, severities and road network, a route that is not
\* marked goes around all the zones its request could read, and a marked one around the worst.
THEOREM RoutesKeepPromise == RouteSpec => []RoutesAvoidZones
<1>1. RouteInit => RouteTypeOK /\ AvoidInv
  BY RouteInitTypes, InitAvoids
<1>2. (RouteTypeOK /\ AvoidInv) /\ [RouteNext]_routeVars => (RouteTypeOK /\ AvoidInv)'
  BY RouteNextTypes, NextAvoids
<1>3. RouteTypeOK /\ AvoidInv => RoutesAvoidZones
  BY DEF AvoidInv
<1> QED
  BY <1>1, <1>2, <1>3, PTL DEF RouteSpec

-----------------------------------------------------------------------------
(***************************************************************************)
(* The cache, and what pages show.                                         *)
(***************************************************************************)

\* What a request has found is of its trip; and what a page waits for.
FoundInv ==
    /\ \A h \in Requests : found[h] # Nowhere => found[h].trip = wish[h]
    /\ \A h \in Requests : at[h] \in {"idle", "done"} => found[h] = Nowhere /\ h \notin camp
    /\ CacheIsClean

LEMMA InitFound == RouteInit => FoundInv
  BY DEF RouteInit, FoundInv, CacheIsClean

LEMMA NextFound == RouteTypeOK /\ FoundInv /\ [RouteNext]_routeVars => FoundInv'
<1> SUFFICES ASSUME RouteTypes, FoundInv, [RouteNext]_routeVars PROVE FoundInv'
  BY RouteTypeGroups
<1> USE RoutesAssumption DEF FoundInv, CacheIsClean, RouteTypes
<1>1. CASE ZonesChange \/ UNCHANGED routeVars
  BY <1>1 DEF ZonesChange, routeVars, requests
<1>2. ASSUME NEW p \in Travellers, ClearRoute(p) PROVE FoundInv'
  BY <1>2 DEF ClearRoute, requests
<1>3. ASSUME NEW p \in Travellers, NEW h \in Requests, NEW t \in Trips,
             HandleRouteToLocation(p, h, t) \/ HandleGetRoute(p, h, t)
      PROVE  FoundInv'
  BY <1>3 DEF HandleRouteToLocation, HandleGetRoute, Ask
<1>4. ASSUME NEW h \in Requests, SetRoute(h) \/ NoRoute(h) PROVE FoundInv'
  BY <1>4 DEF SetRoute, NoRoute, Forget
<1>5. ASSUME NEW h \in Requests, ReadZones(h) \/ CacheMiss(h) \/ GetRouteFails(h) PROVE FoundInv'
  BY <1>5 DEF ReadZones, CacheMiss, GetRouteFails
<1>6. ASSUME NEW h \in Requests, CacheHit(h) PROVE FoundInv'
  BY <1>6 DEF CacheHit
<1>7. ASSUME NEW h \in Requests, GetRoute(h) PROVE FoundInv'
  BY <1>7 DEF GetRoute
<1>8. ASSUME NEW h \in Requests, Store(h) PROVE FoundInv'
  BY <1>8 DEF Store
<1>9. ASSUME NEW t \in Trips, Expire(t) PROVE FoundInv'
  BY <1>9 DEF Expire, requests
<1> QED
  BY <1>1, <1>2, <1>3, <1>4, <1>5, <1>6, <1>7, <1>8, <1>9 DEF RouteNext

\* emergency/service.go:330-334: nobody gets a compromised route, or one of another trip, from the
\* cache.
THEOREM CacheStaysClean == RouteSpec => []CacheIsClean
<1>1. RouteInit => RouteTypeOK /\ FoundInv
  BY RouteInitTypes, InitFound
<1>2. (RouteTypeOK /\ FoundInv) /\ [RouteNext]_routeVars => (RouteTypeOK /\ FoundInv)'
  BY RouteNextTypes, NextFound
<1>3. RouteTypeOK /\ FoundInv => CacheIsClean
  BY DEF FoundInv
<1> QED
  BY <1>1, <1>2, <1>3, PTL DEF RouteSpec

\* A page in no trouble waits for one request at most.  If the map made it, the target is its
\* trip already; until a request of the map is made, the route is the target's.
Aims(p) ==
    /\ \A g, h \in Requests : from[g] = p /\ from[h] = p => g = h
    /\ \A h \in Requests \ camp : from[h] = p => wish[h] = target[p]
    /\ (\A h \in Requests : from[h] = p => h \in camp) =>
          route[p] = Nowhere \/ route[p].trip = target[p]

AimInv == \A p \in Travellers \ troubled : Aims(p)

LEMMA InitAims == RouteInit => AimInv
  BY RoutesAssumption DEF RouteInit, AimInv, Aims

LEMMA NextAims == RouteTypeOK /\ FoundInv /\ AimInv /\ [RouteNext]_routeVars => AimInv'
<1> SUFFICES ASSUME RouteTypes, FoundInv, AimInv, [RouteNext]_routeVars,
                    NEW q \in Travellers, q \notin troubled'
             PROVE  Aims(q)'
  BY RouteTypeGroups DEF AimInv
<1> USE RoutesAssumption DEF RouteTypes
<1>1. CASE ZonesChange \/ UNCHANGED routeVars
  BY <1>1 DEF ZonesChange, routeVars, requests, pages, AimInv, Aims
<1>2. ASSUME NEW p \in Travellers, ClearRoute(p) PROVE Aims(q)'
  <2>1. CASE p = q
    BY <1>2, <2>1 DEF ClearRoute, requests, Aims, Waits
  <2>2. CASE p # q
    BY <1>2, <2>2 DEF ClearRoute, requests, AimInv, Aims
  <2> QED BY <2>1, <2>2
<1>3. ASSUME NEW p \in Travellers, NEW h \in Requests, NEW t \in Trips, HandleRouteToLocation(p, h, t)
      PROVE  Aims(q)'
  <2>1. CASE p = q
    <3>1. ~Waits(p)
      BY <1>3, <2>1 DEF HandleRouteToLocation
    <3>2. \A g \in Requests : from[g] # p
      BY <3>1 DEF Waits
    <3>3. h \notin camp
      BY <1>3 DEF HandleRouteToLocation, Ask, FoundInv
    <3> QED
      BY <1>3, <2>1, <3>2, <3>3 DEF HandleRouteToLocation, Ask, Aims
  <2>2. CASE p # q
    BY <1>3, <2>2 DEF HandleRouteToLocation, Ask, AimInv, Aims
  <2> QED BY <2>1, <2>2
<1>4. ASSUME NEW p \in Travellers, NEW h \in Requests, NEW t \in Trips, HandleGetRoute(p, h, t)
      PROVE  Aims(q)'
  <2>1. CASE p = q
    <3>1. ~Waits(p) /\ q \notin troubled
      BY <1>4, <2>1 DEF HandleGetRoute
    <3>2. \A g \in Requests : from[g] # p
      BY <3>1 DEF Waits
    <3> QED
      BY <1>4, <2>1, <3>1, <3>2 DEF HandleGetRoute, Ask, AimInv, Aims
  <2>2. CASE p # q
    BY <1>4, <2>2 DEF HandleGetRoute, Ask, AimInv, Aims
  <2> QED BY <2>1, <2>2
<1>5. ASSUME NEW h \in Requests, SetRoute(h) PROVE Aims(q)'
  <2>1. found[h].trip = wish[h] /\ from[h] \in Travellers /\ q \notin troubled
    BY <1>5 DEF SetRoute, FoundInv
  <2>2. CASE from[h] = q
    <3>1. \A g \in Requests \ {h} : from[g] # q
      BY <2>1, <2>2 DEF AimInv, Aims
    <3>2. target'[q] = wish[h]
      BY <1>5, <2>1, <2>2 DEF SetRoute, AimInv, Aims
    <3>3. route'[q].trip = wish[h]
      BY <1>5, <2>1, <2>2 DEF SetRoute
    <3>4. \A g \in Requests : from'[g] # q
      BY <1>5, <3>1 DEF SetRoute, Forget
    <3> QED
      BY <3>2, <3>3, <3>4 DEF Aims
  <2>3. CASE from[h] # q
    BY <1>5, <2>1, <2>3 DEF SetRoute, Forget, AimInv, Aims
  <2> QED BY <2>2, <2>3
<1>6. ASSUME NEW h \in Requests, NoRoute(h) PROVE Aims(q)'
  <2>1. q \notin troubled /\ (from[h] = q => h \in camp)
    BY <1>6 DEF NoRoute
  <2> QED
    BY <1>6, <2>1 DEF NoRoute, Forget, AimInv, Aims
<1>7. ASSUME NEW h \in Requests,
             ReadZones(h) \/ CacheHit(h) \/ CacheMiss(h) \/ GetRoute(h) \/ GetRouteFails(h) \/ Store(h)
      PROVE  Aims(q)'
  BY <1>7 DEF ReadZones, CacheHit, CacheMiss, GetRoute, GetRouteFails, Store, pages, AimInv, Aims
<1>8. ASSUME NEW t \in Trips, Expire(t) PROVE Aims(q)'
  BY <1>8 DEF Expire, requests, pages, AimInv, Aims
<1> QED
  BY <1>1, <1>2, <1>3, <1>4, <1>5, <1>6, <1>7, <1>8 DEF RouteNext

\* map.tsx:44-65, camps.$id.tsx:83-85: the route on display is the one to the chosen target, for
\* any number of requests, unless two overlapped or the last one failed.
THEOREM RouteIsForTarget == RouteSpec => []ShownIsForTarget
<1>1. RouteInit => RouteTypeOK /\ FoundInv /\ AimInv
  BY RouteInitTypes, InitFound, InitAims
<1>2. (RouteTypeOK /\ FoundInv /\ AimInv) /\ [RouteNext]_routeVars => (RouteTypeOK /\ FoundInv /\ AimInv)'
  BY RouteNextTypes, NextFound, NextAims
<1>3. RouteTypeOK /\ FoundInv /\ AimInv => ShownIsForTarget
  <2> SUFFICES ASSUME RouteTypes, AimInv, NEW p \in Travellers \ troubled, ~Waits(p), route[p] # Nowhere
               PROVE  route[p].trip = target[p]
    BY RouteTypeGroups DEF ShownIsForTarget
  <2>1. \A h \in Requests : from[h] # p
    BY RoutesAssumption DEF Waits, RouteTypes
  <2> QED
    BY <2>1 DEF AimInv, Aims
<1> QED
  BY <1>1, <1>2, <1>3, PTL DEF RouteSpec

\* A route goes around what its request saw, computed or cached (GetSafeRouteService).
THEOREM RoutesAreKept == RouteSpec => []RoutesKeepTheirPromise
  BY RoutesKeepPromise, CacheStaysClean, PTL DEF RoutesKeepTheirPromise
=============================================================================
