----------------------------- MODULE SafeRoute -----------------------------
(***************************************************************************)
(* GET /routes/safe (emergency/service.go) over the danger zones of        *)
(* Incidents, which change between its steps, and the pages that ask for   *)
(* routes (map.tsx, camps.$id.tsx).                                        *)
(*                                                                         *)
(* The handler asks Valhalla for a route around all zones, then around     *)
(* those of severity 3, then of severity 5.  Only the first kind is put in *)
(* the cache that is read.                                                 *)
(*                                                                         *)
(* Valhalla is external: a shape covers some places, a path goes through   *)
(* some, and Valhalla returns a path through no excluded place, if it has  *)
(* one.  A trip is an origin, a destination and a mode.                    *)
(***************************************************************************)
EXTENDS Incidents

CONSTANTS
    Travellers, \* pages of the citizen application
    Requests,   \* GET /routes/safe: a bound
    Trips,
    Drives,     \* the trips by car
    Paths,      \* the paths there are for each trip, as sets of places
    Severity,   \* severity_level of each shape
    Covers      \* the places in each shape

ASSUME RoutesAssumption ==
    /\ Severity \in [Shapes -> 1..5]
    /\ Drives \subseteq Trips
    /\ "none" \notin Trips
    /\ "nobody" \notin Travellers

\* fallbackLevels: the least severity that is avoided at each.
Levels == <<1, 3, 5>>

VARIABLES
    at,         \* where each request is
    from,       \* the page that made it
    wish,       \* its trip
    camp,       \* the requests made by the page of a camp
    level,      \* the fallback level a request is at
    polys,      \* the shapes it wants to have excluded
    found,      \* what it answers
    routeCache, \* Redis, "resq:route:..:sev1:..": the route of each trip
    route,      \* activeRoute of each page
    target,     \* its activeRouteTarget, with the mode
    saw,        \* history: the shapes of the active zones a request could have read
    troubled    \* history: the pages whose last request was not made alone, or failed

requests == <<at, from, wish, camp, level, polys, found, saw>>
pages == <<route, target, troubled>>
routeVars == <<filed, status, drawn, shape, active, step, by, subject, verdict, again, log, notices,
               crossed, unzoned, at, from, wish, camp, level, polys, found, routeCache, route,
               target, saw, troubled>>

\* No route.  A route carries, for the properties only, what its request saw.
Nowhere == [trip |-> "none", path |-> {}, compromised |-> FALSE, saw |-> {}]

Clear(path, shapes) == \A s \in shapes : path \intersect Covers[s] = {}
Waits(p) == \E h \in Requests : from[h] = p /\ at[h] # "done"

RouteInit ==
    /\ ServerInit
    /\ at = [h \in Requests |-> "idle"]
    /\ from = [h \in Requests |-> "nobody"]
    /\ wish = [h \in Requests |-> "none"]
    /\ camp = {}
    /\ level = [h \in Requests |-> 1]
    /\ polys = [h \in Requests |-> {}]
    /\ found = [h \in Requests |-> Nowhere]
    /\ routeCache = [t \in Trips |-> Nowhere]
    /\ route = [p \in Travellers |-> Nowhere]
    /\ target = [p \in Travellers |-> "none"]
    /\ saw = [h \in Requests |-> {}]
    /\ troubled = {}

-----------------------------------------------------------------------------
(***************************************************************************)
(* The pages.                                                              *)
(***************************************************************************)

Ask(p, h, t) ==
    /\ at[h] = "idle"
    /\ at' = [at EXCEPT ![h] = "zones"]
    /\ from' = [from EXCEPT ![h] = p]
    /\ wish' = [wish EXCEPT ![h] = t]
    /\ UNCHANGED <<server, level, polys, found, saw, routeCache, route>>

\* map.tsx: the target is set at once, the route when it comes.
HandleRouteToLocation(p, h, t) ==
    /\ Ask(p, h, t)
    /\ target' = [target EXCEPT ![p] = t]
    /\ troubled' = IF Waits(p) THEN troubled \union {p} ELSE troubled \ {p}
    /\ UNCHANGED camp

\* camps.$id.tsx: both when it comes, and always by car.
HandleGetRoute(p, h, t) ==
    /\ t \in Drives
    /\ Ask(p, h, t)
    /\ camp' = camp \union {h}
    /\ troubled' = IF Waits(p) THEN troubled \union {p} ELSE troubled
    /\ UNCHANGED target

\* The button of the panel that shows the route.
ClearRoute(p) ==
    /\ route[p] # Nowhere
    /\ route' = [route EXCEPT ![p] = Nowhere]
    /\ target' = [target EXCEPT ![p] = "none"]
    /\ troubled' = IF Waits(p) THEN troubled \union {p} ELSE troubled \ {p}
    /\ UNCHANGED <<server, requests, routeCache>>

\* Mutant of the next definition: the trip is left.
ForgetLess(h) ==
    /\ at' = [at EXCEPT ![h] = "done"]
    /\ from' = [from EXCEPT ![h] = "nobody"]
    /\ camp' = camp \ {h}
    /\ level' = [level EXCEPT ![h] = 1]
    /\ polys' = [polys EXCEPT ![h] = {}]
    /\ found' = [found EXCEPT ![h] = Nowhere]
    /\ saw' = [saw EXCEPT ![h] = {}]
    /\ UNCHANGED <<server, wish, routeCache>>

\* A request that is over.
Forget(h) ==
    /\ at' = [at EXCEPT ![h] = "done"]
    /\ from' = [from EXCEPT ![h] = "nobody"]
    /\ wish' = [wish EXCEPT ![h] = "none"]
    /\ camp' = camp \ {h}
    /\ level' = [level EXCEPT ![h] = 1]
    /\ polys' = [polys EXCEPT ![h] = {}]
    /\ found' = [found EXCEPT ![h] = Nowhere]
    /\ saw' = [saw EXCEPT ![h] = {}]
    /\ UNCHANGED <<server, routeCache>>

\* Mutant of the next action: the page of a camp sets the route alone.
SetRouteOnly(h) ==
    /\ at[h] = "answered"
    /\ found[h] # Nowhere
    /\ route' = [route EXCEPT ![from[h]] = found[h]]
    /\ Forget(h)
    /\ UNCHANGED <<target, troubled>>

\* A route comes: whatever the page waits for by now.
SetRoute(h) ==
    /\ at[h] = "answered"
    /\ found[h] # Nowhere
    /\ route' = [route EXCEPT ![from[h]] = found[h]]
    /\ target' = IF h \in camp THEN [target EXCEPT ![from[h]] = wish[h]] ELSE target
    /\ Forget(h)
    /\ UNCHANGED troubled

\* An error comes: the route before stays.
NoRoute(h) ==
    /\ at[h] = "answered"
    /\ found[h] = Nowhere \/ "network" \in Faults
    /\ troubled' = IF h \in camp THEN troubled ELSE troubled \union {from[h]}
    /\ Forget(h)
    /\ UNCHANGED <<route, target>>

-----------------------------------------------------------------------------
(***************************************************************************)
(* GetSafeRouteService.                                                    *)
(***************************************************************************)

\* Mutant of the next action: severity_level > $1.
ReadZonesAbove(h) ==
    /\ at[h] = "zones"
    /\ at' = [at EXCEPT ![h] = "cache"]
    /\ \E read \in SUBSET active :
        /\ read = active \/ "server" \in Faults
        /\ saw' = [saw EXCEPT ![h] = {shape[z] : z \in read}]
        /\ polys' = [polys EXCEPT ![h] =
              {shape[z] : z \in {y \in read : Severity[shape[y]] > Levels[level[h]]}}]
    /\ UNCHANGED <<server, from, wish, camp, level, found, routeCache, pages>>

\* getPolys: an error leaves the rows that came before it, or none.
ReadZones(h) ==
    /\ at[h] = "zones"
    /\ at' = [at EXCEPT ![h] = "cache"]
    /\ \E read \in SUBSET active :
        /\ read = active \/ "server" \in Faults
        /\ saw' = [saw EXCEPT ![h] = {shape[z] : z \in read}]
        /\ polys' = [polys EXCEPT ![h] =
              {shape[z] : z \in {y \in read : Severity[shape[y]] >= Levels[level[h]]}}]
    /\ UNCHANGED <<server, from, wish, camp, level, found, routeCache, pages>>

\* What the handler has read is not read again.
Used(h) == polys' = [polys EXCEPT ![h] = {}] /\ saw' = [saw EXCEPT ![h] = {}]

\* There is a key for each level, but only the first one's is ever set.
CacheHit(h) ==
    /\ at[h] = "cache"
    /\ level[h] = 1
    /\ routeCache[wish[h]] # Nowhere
    /\ found' = [found EXCEPT ![h] = routeCache[wish[h]]]
    /\ at' = [at EXCEPT ![h] = "answered"]
    /\ Used(h)
    /\ UNCHANGED <<server, from, wish, camp, level, routeCache, pages>>

CacheMiss(h) ==
    /\ at[h] = "cache"
    /\ level[h] > 1 \/ routeCache[wish[h]] = Nowhere \/ "server" \in Faults
    /\ at' = [at EXCEPT ![h] = "valhalla"]
    /\ UNCHANGED <<server, from, wish, camp, level, polys, found, saw, routeCache, pages>>

\* valhalla.GetRoute
GetRoute(h) ==
    /\ at[h] = "valhalla"
    /\ \E path \in Paths[wish[h]] :
        /\ Clear(path, polys[h])
        /\ found' = [found EXCEPT ![h] =
            [trip |-> wish[h], path |-> path, compromised |-> level[h] > 1, saw |-> saw[h]]]
    /\ at' = [at EXCEPT ![h] = "store"]
    /\ Used(h)
    /\ UNCHANGED <<server, from, wish, camp, level, routeCache, pages>>

\* No such path, or Valhalla cannot be reached: the next level, or "No Route".
GetRouteFails(h) ==
    /\ at[h] = "valhalla"
    /\ "server" \in Faults \/ \A path \in Paths[wish[h]] : ~Clear(path, polys[h])
    /\ IF level[h] < Len(Levels)
       THEN level' = [level EXCEPT ![h] = @ + 1] /\ at' = [at EXCEPT ![h] = "zones"]
       ELSE at' = [at EXCEPT ![h] = "answered"] /\ UNCHANGED level
    /\ Used(h)
    /\ UNCHANGED <<server, from, wish, camp, found, routeCache, pages>>

\* A compromised route is stored under a key that nobody reads.
Store(h) ==
    /\ at[h] = "store"
    /\ at' = [at EXCEPT ![h] = "answered"]
    /\ \/ ~found[h].compromised /\ routeCache' = [routeCache EXCEPT ![wish[h]] = found[h]]
       \/ (found[h].compromised \/ "server" \in Faults) /\ UNCHANGED routeCache
    /\ UNCHANGED <<server, from, wish, camp, level, polys, found, saw, pages>>

\* 90 seconds.
Expire(t) ==
    /\ routeCache[t] # Nowhere
    /\ routeCache' = [routeCache EXCEPT ![t] = Nowhere]
    /\ UNCHANGED <<server, requests, pages>>

-----------------------------------------------------------------------------
\* The zones of verifications come and go as drawn ones do: there are no decisions here.
ZonesChange == ServerStep /\ UNCHANGED <<requests, routeCache, pages>>

RouteNext ==
    \/ ZonesChange
    \/ \E p \in Travellers : ClearRoute(p)
    \/ \E p \in Travellers, h \in Requests, t \in Trips :
        HandleRouteToLocation(p, h, t) \/ HandleGetRoute(p, h, t)
    \/ \E h \in Requests : SetRoute(h) \/ NoRoute(h) \/ ReadZones(h) \/ CacheHit(h) \/ CacheMiss(h)
                           \/ GetRoute(h) \/ GetRouteFails(h) \/ Store(h)
    \/ \E t \in Trips : Expire(t)

RouteSpec == RouteInit /\ [][RouteNext]_routeVars

-----------------------------------------------------------------------------
(***************************************************************************)
(* Properties.                                                             *)
(***************************************************************************)

IsRoute(x) ==
    /\ x.trip \in Trips
    /\ x.path \in Paths[x.trip]
    /\ x.compromised \in BOOLEAN
    /\ x.saw \subseteq Shapes

RouteTypeOK ==
    /\ ServerTypeOK
    /\ at \in [Requests -> {"idle", "zones", "cache", "valhalla", "store", "answered", "done"}]
    /\ from \in [Requests -> Travellers \union {"nobody"}]
    /\ wish \in [Requests -> Trips \union {"none"}]
    /\ \A h \in Requests : at[h] \in {"idle", "done"} <=> from[h] = "nobody"
    /\ \A h \in Requests : at[h] \in {"idle", "done"} <=> wish[h] = "none"
    /\ camp \subseteq Requests
    /\ level \in [Requests -> 1..Len(Levels)]
    /\ polys \in [Requests -> SUBSET Shapes]
    /\ saw \in [Requests -> SUBSET Shapes]
    /\ DOMAIN found = Requests /\ DOMAIN routeCache = Trips /\ DOMAIN route = Travellers
    /\ \A h \in Requests : found[h] = Nowhere \/ IsRoute(found[h])
    /\ \A t \in Trips : routeCache[t] = Nowhere \/ IsRoute(routeCache[t])
    /\ \A p \in Travellers : route[p] = Nowhere \/ IsRoute(route[p])
    /\ target \in [Travellers -> Trips \union {"none"}]
    /\ troubled \subseteq Travellers

\* docs/api-v1.md:255 and 268, the promise of the fallback levels: a route that is not marked
\* goes around every zone its request saw, and a marked one around those of severity 5.
Keeps(x) == Clear(x.path, {s \in x.saw : ~x.compromised \/ Severity[s] = 5})

\* It holds of every route that is answered, kept for others, or shown.
RoutesAvoidZones ==
    /\ \A h \in Requests : Keeps(found[h])
    /\ \A t \in Trips : Keeps(routeCache[t])
    /\ \A p \in Travellers : Keeps(route[p])

\* service.go:330-334: what is kept for other requests is of the trip of the key, and is not
\* compromised: their answer would say so although they might do better.
CacheIsClean ==
    \A t \in Trips :
        routeCache[t] # Nowhere => routeCache[t].trip = t /\ ~routeCache[t].compromised

\* A route keeps its promise when it is answered at once and when it comes from the cache
\* (service.go:292-334).
RoutesKeepTheirPromise == RoutesAvoidZones /\ CacheIsClean

\* map.tsx:44-65: the route on display leads to the chosen target, in the chosen mode, once
\* nothing is under way, unless two requests overlapped or the last one failed.
ShownIsForTarget ==
    \A p \in Travellers \ troubled : ~Waits(p) /\ route[p] # Nowhere => route[p].trip = target[p]
=============================================================================
