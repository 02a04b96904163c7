--------------------------- MODULE CommandCentre ---------------------------
(***************************************************************************)
(* The portal's command centre: a feed of events that begins with what the *)
(* backend remembers of the stream and goes on with what the page hears,   *)
(* and a map with layers of zones, camps and signals behind filters.  The  *)
(* page has one connection for its feed; the portal's root has another,    *)
(* which refreshes the lists that the layers are made from.  Both have     *)
(* what EventFeed promises.                                                *)
(*                                                                         *)
(* Left out are a signal's acknowledgement, a zone that is edited or       *)
(* deleted, and a broadcast: the feed takes their events like the others,  *)
(* and a list that loses an entry is met with the signals.                 *)
(*                                                                         *)
(* A statement and its event are one step here, for the lists only matter  *)
(* as what the events so far have made of them: what a query has read is   *)
(* the number of events there were by then.                                *)
(***************************************************************************)
EXTENDS Naturals, Sequences, FiniteSets

CONSTANTS
    Ids,        \* signals, camps, reports and zones that desks have drawn
    KindOf,     \* [Ids -> Kinds]
    MaxEvents,  \* how many events there are: a bound
    Cap,        \* how many entries the history and the feed may have; 50 in the code
    Plans,      \* what events are about, which lists can be loaded, which filters are used
    None        \* no data, nothing in focus

Kinds == {"sos", "camp", "report", "zone"}
Queries == {"history", "sos", "camps", "incidents", "zones"}
Filters == {"hazards", "camps", "sos", "resolvedSos"}
Conns == {"root", "feed"}

ASSUME CommandCentreAssumption ==
    /\ KindOf \in [Ids -> Kinds]
    /\ MaxEvents \in Nat /\ Cap \in Nat \ {0}
    /\ None \notin Nat
    /\ Plans \subseteq [ids : SUBSET Ids, queries : SUBSET Queries, filters : SUBSET Filters,
                        may : SUBSET {"stream", "load", "leave", "focus"}]

Whats == {"created", "changed"}
Events == [id: Ids, what: Whats]
Entries == [event: 1..MaxEvents, live: BOOLEAN]

VARIABLES
    plan,
    log,        \* the stream that Redis stores
    published, cursor, subscribed, since, got,  \* the connections, as EventFeed has them
    open,       \* the command centre is the page that is open
    connecting, \* the connections that are being made
    listening,  \* isListening
    events,     \* events
    cache,      \* what each query has
    fetch,      \* how far its request is
    reply,      \* what that has read
    invalid,    \* the queries invalidated while their page was closed
    filters,    \* the filters that are on
    loaded,     \* mapRef and isLoaded
    zones,      \* the layer of zones
    markers,    \* the markers of camps and signals
    focused,    \* focusedEvent, by its id
    popup       \* what popupRef is about

stream     == <<log, published, cursor, subscribed, since, got, connecting>>
feed       == <<listening, events>>
query      == <<cache, fetch, reply, invalid>>
canvas     == <<loaded, zones, markers, focused, popup>>
centreVars == <<plan, stream, open, feed, query, filters, canvas>>

Feed == INSTANCE EventFeed

-----------------------------------------------------------------------------
(***************************************************************************)
(* What there is after n events.                                           *)
(***************************************************************************)

Happened(id, what, n) == \E i \in 1..n : log[i] = [id |-> id, what |-> what]
There(id, n) == Happened(id, "created", n)

\* GetSOSService for 'active', GetCampsService, GetIncidentsService, GetDangerZonesService.  A
\* change resolves a signal, empties a camp, and makes a report a zone.
Listed(k, n) ==
    {id \in Ids :
        /\ There(id, n)
        /\ CASE k = "sos" -> KindOf[id] = "sos" /\ ~Happened(id, "changed", n)
             [] k = "camps" -> KindOf[id] = "camp"
             [] k = "incidents" -> KindOf[id] = "report" /\ ~Happened(id, "changed", n)
             [] k = "zones" -> KindOf[id] = "zone" \/ (KindOf[id] = "report" /\ Happened(id, "changed", n))
             [] k = "history" -> FALSE}

\* GetEventHistoryService: the newest first.
History(n) == [i \in 1..(IF n < Cap THEN n ELSE Cap) |-> [event |-> n + 1 - i, live |-> FALSE]]

\* The data of a query that has read after n events; [] while it has none.
Data(k, n) == IF n = None THEN {} ELSE Listed(k, n)

CentreInit ==
    /\ plan \in Plans
    /\ log = <<>>
    /\ Feed!Init
    /\ open = TRUE
    /\ connecting = Conns
    /\ listening = TRUE
    /\ events = <<>>
    /\ cache = [k \in Queries |-> None]
    /\ fetch = [k \in Queries |-> IF k \in plan.queries THEN "asked" ELSE "none"]
    /\ reply = [k \in Queries |-> None]
    /\ invalid = {}
    /\ filters = {"hazards", "camps", "sos"}
    /\ loaded = FALSE
    /\ zones = {}
    /\ markers = {}
    /\ focused = None
    /\ popup = None

-----------------------------------------------------------------------------
(***************************************************************************)
(* The layers.  An effect runs when something that it depends on changes.  *)
(***************************************************************************)

WantedZones == IF "hazards" \in filters THEN Data("zones", cache["zones"]) ELSE {}

\* The list of signals has the active ones only: none is resolved.
WantedMarkers == (IF "camps" \in filters THEN Data("camps", cache["camps"]) ELSE {})
                 \union (IF "sos" \in filters THEN Data("sos", cache["sos"]) ELSE {})

\* Mutant of the next operator: the filters are left out.
MarkersLessDependent == <<Data("camps", cache["camps"]), Data("sos", cache["sos"]), loaded>>

ZonesDepend == <<Data("zones", cache["zones"]), "hazards" \in filters, loaded>>
MarkersDepend == <<Data("camps", cache["camps"]), Data("sos", cache["sos"]), filters, loaded>>

Effects ==
    /\ zones' = IF loaded' /\ ZonesDepend' # ZonesDepend THEN WantedZones' ELSE zones
    /\ markers' = IF loaded' /\ MarkersDepend' # MarkersDepend THEN WantedMarkers' ELSE markers

MapLoads ==
    /\ open /\ ~loaded
    /\ loaded' = TRUE
    /\ popup' = focused
    /\ UNCHANGED <<plan, stream, open, feed, query, filters, focused>>
    /\ Effects

ToggleFilter(f) ==
    /\ open /\ f \in plan.filters
    /\ filters' = IF f \in filters THEN filters \ {f} ELSE filters \union {f}
    /\ UNCHANGED <<plan, stream, open, feed, query, loaded, focused, popup>>
    /\ Effects

\* A click on a zone of the map opens a popup in place of the one there is.
ClickZone(id) ==
    /\ loaded /\ id \in zones
    /\ popup' = id
    /\ UNCHANGED <<plan, stream, open, feed, query, filters, loaded, zones, markers, focused>>

-----------------------------------------------------------------------------
(***************************************************************************)
(* The stream, and the lists that the root refreshes.                      *)
(***************************************************************************)

\* A signal is triggered or resolved, a camp is deployed or its stock changes, a report is filed
\* or verified, a zone is drawn.
Happens(id, what) ==
    /\ Len(log) < MaxEvents
    /\ id \in plan.ids
    /\ IF what = "created" THEN ~There(id, Len(log))
       ELSE There(id, Len(log)) /\ KindOf[id] # "zone" /\ ~Happened(id, "changed", Len(log))
    /\ log' = Append(log, [id |-> id, what |-> what])
    /\ Feed!Publish
    /\ UNCHANGED <<plan, connecting, open, feed, query, filters, canvas>>

Advance ==
    /\ Feed!Advance
    /\ UNCHANGED <<plan, log, connecting, open, feed, query, filters, canvas>>

Connected(c) ==
    /\ c \in connecting
    /\ Feed!Subscribe(c)
    /\ connecting' = connecting \ {c}
    /\ UNCHANGED <<plan, log, open, feed, query, filters, canvas>>

\* The keys that the root invalidates.
Tells(e) ==
    CASE KindOf[log[e].id] = "sos" -> {"sos"}
      [] KindOf[log[e].id] = "camp" -> {"camps"}
      [] KindOf[log[e].id] = "report" -> IF log[e].what = "created" THEN {"incidents"}
                                         ELSE {"zones", "incidents"}
      [] KindOf[log[e].id] = "zone" -> {"zones", "incidents"}

\* invalidateQueries: a query on display is asked for again, but not while its first answer is
\* to come.  Another one is marked.
Invalidate(ks) ==
    LET again == {k \in ks \intersect plan.queries : open /\ (cache[k] # None \/ fetch[k] = "none")}
    IN  /\ fetch' = [k \in Queries |-> IF k \in again THEN "asked" ELSE fetch[k]]
        /\ reply' = [k \in Queries |-> IF k \in again THEN None ELSE reply[k]]
        /\ invalid' = (invalid \ again) \union {k \in ks \ again : cache[k] # None}

RootHears ==
    /\ Feed!Deliver("root")
    /\ Invalidate(Tells(got'["root"][Len(got'["root"])]))
    /\ UNCHANGED <<plan, log, connecting, open, feed, cache, filters, canvas>>

\* Mutant of the next operator: the entry that is taken out is the one behind the new one.
UpdateTakesFirst(prev, e) ==
    <<e>> \o SubSeq(prev, 2, IF Len(prev) < Cap THEN Len(prev) ELSE Cap)

\* The newest entry of the signal is the new one itself: it is taken out and put in again.
Update(prev, e) == SubSeq(<<e>> \o prev, 1, IF Len(prev) < Cap THEN Len(prev) + 1 ELSE Cap)

FeedHears ==
    /\ Feed!Deliver("feed")
    /\ events' = Update(events, [event |-> got'["feed"][Len(got'["feed"])], live |-> TRUE])
    /\ UNCHANGED <<plan, log, connecting, open, listening, query, filters, canvas>>

\* onerror: the stream is closed for good.
StreamEnds(c) ==
    /\ "stream" \in plan.may
    /\ c \in subscribed \union connecting
    /\ connecting' = connecting \ {c}
    /\ IF c \in subscribed
       THEN Feed!End /\ subscribed' = subscribed \ {c} /\ cursor' = cursor
       ELSE UNCHANGED <<published, cursor, subscribed, since, got>>
    /\ listening' = (listening /\ c # "feed")
    /\ UNCHANGED <<plan, log, open, events, query, filters, canvas>>

-----------------------------------------------------------------------------
(***************************************************************************)
(* Requests.                                                               *)
(***************************************************************************)

\* The signals every ten seconds; any list that is old when the window gets the focus, say.
Refetch(k) ==
    /\ open /\ k \in plan.queries /\ fetch[k] = "none"
    /\ k = "sos" \/ "focus" \in plan.may
    /\ fetch' = [fetch EXCEPT ![k] = "asked"]
    /\ invalid' = invalid \ {k}
    /\ UNCHANGED <<plan, stream, open, feed, cache, reply, filters, canvas>>

Read(k) ==
    /\ fetch[k] = "asked"
    /\ fetch' = [fetch EXCEPT ![k] = "read"]
    /\ reply' = [reply EXCEPT ![k] = Len(log)]
    /\ UNCHANGED <<plan, stream, open, feed, cache, invalid, filters, canvas>>

\* Mutant of the next operator: the history is added to what there is.
AddHistory(n) ==
    LET all == events \o History(n)
    IN  SubSeq(all, 1, IF Len(all) < Cap THEN Len(all) ELSE Cap)

\* setEvents(history).
TakeHistory(n) == History(n)

\* The answer: the effect on [history] runs when it differs, the layers' when a list does.
Apply(k) ==
    /\ fetch[k] = "read"
    /\ cache' = [cache EXCEPT ![k] = reply[k]]
    /\ fetch' = [fetch EXCEPT ![k] = "none"]
    /\ reply' = [reply EXCEPT ![k] = None]
    /\ invalid' = invalid \ {k}
    /\ events' = IF open /\ k = "history" /\ cache[k] # reply[k] THEN TakeHistory(reply[k]) ELSE events
    /\ UNCHANGED <<plan, stream, open, listening, filters, loaded, focused, popup>>
    /\ Effects

\* An error; that of the reports is made into an answer without any, as before the first event.
LoadFails(k) ==
    /\ "load" \in plan.may /\ fetch[k] # "none"
    /\ fetch' = [fetch EXCEPT ![k] = IF k = "incidents" THEN "read" ELSE "none"]
    /\ reply' = [reply EXCEPT ![k] = IF k = "incidents" THEN 0 ELSE None]
    /\ UNCHANGED <<plan, stream, open, feed, cache, invalid, filters, canvas>>

-----------------------------------------------------------------------------
(***************************************************************************)
(* The page.                                                               *)
(***************************************************************************)

\* Which entries the filters let through.
ShouldShow(entry) ==
    LET e == log[entry.event]
    IN  CASE KindOf[e.id] = "sos" -> "sos" \in filters /\ (e.what = "changed" => "resolvedSos" \in filters)
          [] KindOf[e.id] = "camp" -> "camps" \in filters
          [] KindOf[e.id] \in {"report", "zone"} -> "hazards" \in filters

\* Where the map goes: a report's events carry their place; the place of a signal or a camp is
\* looked up in its list; that of a zone is not to be had.
Found(id) ==
    \/ KindOf[id] = "report"
    \/ KindOf[id] = "sos" /\ id \in Data("sos", cache["sos"])
    \/ KindOf[id] = "camp" /\ id \in Data("camps", cache["camps"])

HandleFeedClick(i) ==
    LET id == log[events[i].event].id
    IN  /\ i \in DOMAIN events
        /\ ShouldShow(events[i]) /\ Found(id)
        /\ focused' = id
        /\ popup' = IF loaded THEN id ELSE popup
        /\ UNCHANGED <<plan, stream, open, feed, query, filters, loaded, zones, markers>>

\* Mutant of the next operator: the effect has no clean-up, and the stream goes on.
LeaveKeepsStream ==
    /\ "leave" \in plan.may
    /\ open
    /\ open' = FALSE
    /\ events' = <<>>
    /\ filters' = {"hazards", "camps", "sos"}
    /\ loaded' = FALSE
    /\ zones' = {} /\ markers' = {}
    /\ focused' = None /\ popup' = None
    /\ UNCHANGED <<plan, stream, listening, query>>

\* A page that is left: "View Details" in a popup, or the side bar.  Its stream is closed.
Leave ==
    /\ "leave" \in plan.may
    /\ open
    /\ open' = FALSE
    /\ IF "feed" \in subscribed
       THEN Feed!End /\ subscribed' = subscribed \ {"feed"} /\ cursor' = cursor
       ELSE UNCHANGED <<published, cursor, subscribed, since, got>>
    /\ connecting' = connecting \ {"feed"}
    /\ listening' = FALSE
    /\ events' = <<>>
    /\ filters' = {"hazards", "camps", "sos"}
    /\ loaded' = FALSE
    /\ zones' = {} /\ markers' = {}
    /\ focused' = None /\ popup' = None
    /\ UNCHANGED <<plan, log, query>>

\* A page that opens shows what the cache has, however many events ago it was read; a query is
\* asked for when it has nothing, was invalidated, or is a minute old.
Enter ==
    /\ ~open
    /\ open' = TRUE
    /\ connecting' = connecting \union {"feed"}
    /\ listening' = TRUE
    /\ events' = IF cache["history"] = None THEN <<>> ELSE TakeHistory(cache["history"])
    /\ LET must == {k \in plan.queries : fetch[k] = "none" /\ (cache[k] = None \/ k \in invalid)}
           can == {k \in plan.queries : fetch[k] = "none"}
       IN  \E ks \in {must, can} :
            /\ fetch' = [k \in Queries |-> IF k \in ks THEN "asked" ELSE fetch[k]]
            /\ invalid' = invalid \ ks
    /\ UNCHANGED <<plan, log, published, cursor, subscribed, since, got, cache, reply, filters, canvas>>

-----------------------------------------------------------------------------
CentreNext ==
    \/ MapLoads
    \/ \E f \in Filters : ToggleFilter(f)
    \/ \E id \in Ids : ClickZone(id) \/ \E what \in Whats : Happens(id, what)
    \/ Advance \/ RootHears \/ FeedHears
    \/ \E c \in Conns : Connected(c) \/ StreamEnds(c)
    \/ \E k \in Queries : Refetch(k) \/ Read(k) \/ Apply(k) \/ LoadFails(k)
    \/ \E i \in 1..Cap : HandleFeedClick(i)
    \/ Leave \/ Enter

CentreSpec == CentreInit /\ [][CentreNext]_centreVars

-----------------------------------------------------------------------------
CentreTypeOK ==
    /\ plan \in Plans
    /\ log \in Seq(Events) /\ Len(log) <= MaxEvents
    /\ published = Len(log) /\ cursor \in 0..published
    /\ subscribed \subseteq Conns /\ connecting \subseteq Conns \ subscribed
    /\ got \in [Conns -> Seq(1..cursor)] /\ since \in [Conns -> 0..cursor]
    /\ "feed" \in subscribed \union connecting <=> listening
    /\ open \in BOOLEAN /\ listening \in BOOLEAN /\ (listening => open)
    /\ events \in Seq(Entries) /\ Len(events) <= Cap
    /\ cache \in [Queries -> 0..Len(log) \union {None}]
    /\ reply \in [Queries -> 0..Len(log) \union {None}]
    /\ fetch \in [Queries -> {"none", "asked", "read"}]
    /\ \A k \in Queries : reply[k] # None <=> fetch[k] = "read"
    /\ invalid \subseteq Queries
    /\ filters \subseteq Filters
    /\ popup # None => loaded

Shown == {events[i].event : i \in DOMAIN events}

\* command-center.tsx:86-123, history and stream in any order: newest first but for the seam
\* between what was heard and what was fetched, so that an event has two entries at most.
FeedIsOrdered ==
    \A i, j \in DOMAIN events :
        /\ i < j /\ events[i].live = events[j].live => events[i].event > events[j].event
        /\ i < j => events[i].live \/ ~events[j].live

\* command-center.tsx:87 and 97-119: an entry leaves the feed of an open page only when the feed
\* is full of others, or for a history that was read before the event: the answer to a slow
\* request takes away what was heard meanwhile, nothing else does.
GoneForReason ==
    [][\A e \in Shown \ Shown' :
        open /\ open' =>
            \/ Len(events') = Cap
            \/ cache'["history"] # cache["history"] /\ cache'["history"] < e]_centreVars

\* useAdminMapLayers.ts: whatever has changed since, and in whatever order, the layers are what
\* the lists and the filters make them.
LayersFollow ==
    loaded => zones = WantedZones /\ markers = WantedMarkers
=============================================================================
