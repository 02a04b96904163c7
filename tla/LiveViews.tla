----------------------------- MODULE LiveViews -----------------------------
(***************************************************************************)
(* Incidents with the pages that show them: the lists of reports to decide *)
(* and the maps of danger zones.  A page fetches a list when it opens, now *)
(* and then later, and whenever an event of the stream says that the list  *)
(* has changed (invalidateQueries in useSSE.ts and the portal's            *)
(* __root.tsx).                                                            *)
(*                                                                         *)
(* The stream gives each listening page the events in order and at most    *)
(* once, as EventFeed promises; events published while a page does not     *)
(* listen are missed.                                                      *)
(***************************************************************************)
EXTENDS Incidents

CONSTANTS
    Phones,     \* pages of the citizen application
    Displays,   \* the lists that may be on display together
    Retiring    \* those under which zones are retired as well: a bound

Pages == Desks \union Phones
Views == (Desks \X {"queue"}) \union (Phones \X {"zones"})

ASSUME ViewsAssumption ==
    /\ Desks \intersect Phones = {}
    /\ Displays \subseteq SUBSET Views
    /\ Retiring \subseteq Displays

VARIABLES
    shown,      \* the views on display, from the beginning to the end
    loaded,     \* the views that have data
    cache,      \* the data
    fetch,      \* how far a view's request is, if it has one
    reply,      \* what the request has read
    amiss,      \* history: what is wrong with a view's data, or with its reply if there is one:
                \* it is "short" of rows, or a load has "failed", or a change has "outdated" it
                \* that nobody will tell of; or "nothing"
    listening,  \* the pages with an open stream
    broken,     \* the portal's pages whose stream has ended for good
    cursor      \* the newest event each page has handled, or has missed

views == <<shown, loaded, cache, fetch, reply>>
streams == <<listening, broken, cursor>>
vars == <<filed, status, drawn, shape, active, step, by, subject, verdict, again, log, notices,
          crossed, unzoned, shown, loaded, cache, fetch, reply, amiss, listening, broken, cursor>>

\* What a list would show now.
Truth(kind) ==
    IF kind = "queue" THEN {r \in Reports : status[r] = "pending"}
                      ELSE {<<z, shape[z]>> : z \in active}

Of(p) == {v \in shown : v[1] = p}
Tells(e) == IF e = "INCIDENT_CREATED" THEN {"queue"} ELSE {"queue", "zones"}
Unread(v) == \E i \in cursor[v[1]] + 1 .. Len(log) : v[2] \in Tells(log[i])

\* Somebody who has changed the tables has yet to say so: with an event or, of a decision
\* made at this page, with the answer.
Owed(v) ==
    \/ v[2] = "queue" /\ \E r \in Reports : filed[r] = "publish"
    \/ \E w \in Drawings : drawn[w] = "publish"
    \/ \E d \in Decisions :
        \/ step[d] \in {"zone", "publish"}
        \/ v[2] = "queue" /\ by[d] = v[1] /\ step[d] \in {"notify", "answered"}

Init ==
    /\ ServerInit
    /\ shown \in Displays
    /\ loaded = {}
    /\ cache = [v \in Views |-> {}]
    /\ fetch = [v \in Views |-> IF v \in shown THEN "asked" ELSE "none"]
    /\ reply = [v \in Views |-> {}]
    /\ amiss = [v \in Views |-> "nothing"]
    /\ listening = {}
    /\ broken = {}
    /\ cursor = [p \in Pages |-> 0]

-----------------------------------------------------------------------------
\* The views that a step leaves behind the tables without a word to come.
Unsaid ==
    {v \in shown : /\ ~Owed(v)'
                   /\ ~Unread(v)'
                   /\ Owed(v) \/ Truth(v[2])' # Truth(v[2])}

Outdate(vs) ==
    amiss' = [v \in Views |-> IF v \in vs /\ fetch[v] # "asked" THEN "outdated" ELSE amiss[v]]

\* invalidateQueries: a request under way is made again, but not a view's first one, whose
\* answer counts as new.
Invalidate(vs) ==
    LET restarted == {v \in vs : v \in loaded \/ fetch[v] = "none"}
    IN  /\ fetch' = [v \in Views |-> IF v \in restarted THEN "asked" ELSE fetch[v]]
        /\ reply' = [v \in Views |-> IF v \in restarted THEN {} ELSE reply[v]]
        /\ amiss' = [v \in Views |-> IF v \in restarted THEN "nothing"
                                    ELSE IF v \in vs /\ fetch[v] = "read" THEN "outdated"
                                    ELSE amiss[v]]

-----------------------------------------------------------------------------
Server ==
    /\ ServerStep
    /\ active \subseteq active' \/ shown \in Retiring
    /\ UNCHANGED <<views, streams>>
    /\ Outdate(Unsaid)

\* A desk decides what its list shows; a desk that is not displayed, what it may have shown.
HandleAction(k, d, r, v) ==
    /\ <<k, "queue">> \in shown => r \in cache[<<k, "queue">>]
    /\ Decide(d, k, r, v)
    /\ UNCHANGED <<views, streams, amiss>>

\* After a success, and 300 ms, the page fetches its list again.
ActionSettles(d) ==
    /\ Settle(d)
    /\ IF Is(d, "answered")
       THEN Invalidate({v \in Of(by[d]) : v[2] = "queue"})
       ELSE UNCHANGED <<fetch, reply, amiss>>
    /\ UNCHANGED <<shown, loaded, cache, streams>>

-----------------------------------------------------------------------------
(***************************************************************************)
(* Requests.                                                               *)
(***************************************************************************)

\* The data is a minute old and the window gets the focus, say.
Refetch(v) ==
    /\ v \in shown
    /\ fetch[v] = "none"
    /\ fetch' = [fetch EXCEPT ![v] = "asked"]
    /\ amiss' = [amiss EXCEPT ![v] = "nothing"]
    /\ UNCHANGED <<server, shown, loaded, cache, reply, streams>>

\* GetIncidentsService, GetDangerZonesService: one SELECT.  rows.Err() is not asked for: of
\* a result that ends early the rows that came are answered, with 200.
Read(v) ==
    /\ fetch[v] = "asked"
    /\ fetch' = [fetch EXCEPT ![v] = "read"]
    /\ \/ /\ reply' = [reply EXCEPT ![v] = Truth(v[2])]
          /\ UNCHANGED amiss
       \/ /\ "load" \in Faults
          /\ \E part \in (SUBSET Truth(v[2])) \ {Truth(v[2])} : reply' = [reply EXCEPT ![v] = part]
          /\ amiss' = [amiss EXCEPT ![v] = "short"]
    /\ UNCHANGED <<server, shown, loaded, cache, streams>>

Show(v, data) ==
    /\ fetch' = [fetch EXCEPT ![v] = "none"]
    /\ reply' = [reply EXCEPT ![v] = {}]
    /\ loaded' = loaded \union {v}
    /\ cache' = [cache EXCEPT ![v] = data]

Apply(v) ==
    /\ fetch[v] = "read"
    /\ Show(v, reply[v])
    /\ UNCHANGED <<server, shown, amiss, streams>>

\* An error: the list of reports is shown as empty, as if it had been read (queryFn's
\* catch); a map, after a second error, keeps what it shows.
Fail(v) ==
    /\ "load" \in Faults
    /\ fetch[v] # "none"
    /\ amiss' = [amiss EXCEPT ![v] = IF @ = "outdated" THEN @ ELSE "failed"]
    /\ IF v[2] = "queue"
       THEN Show(v, {})
       ELSE /\ fetch' = [fetch EXCEPT ![v] = "none"]
            /\ reply' = [reply EXCEPT ![v] = {}]
            /\ UNCHANGED <<loaded, cache>>
    /\ UNCHANGED <<server, shown, streams>>

-----------------------------------------------------------------------------
(***************************************************************************)
(* The stream.                                                             *)
(***************************************************************************)

\* The page is registered at the hub.  What came between has been missed.
Listen(p) ==
    /\ Of(p) # {}
    /\ p \notin listening \union broken
    /\ listening' = listening \union {p}
    /\ cursor' = [cursor EXCEPT ![p] = Len(log)]
    /\ Outdate({v \in Of(p) : Unread(v)})
    /\ UNCHANGED <<server, views, broken>>

\* Mutant of the next action: onerror does not close the stream.
StreamBreaksOpen(p) ==
    /\ "stream" \in Faults
    /\ p \in listening
    /\ broken' = IF p \in Desks THEN broken \union {p} ELSE broken
    /\ UNCHANGED <<server, views, amiss, listening, cursor>>

\* A phone's EventSource connects again; the portal closes its own.
StreamBreaks(p) ==
    /\ "stream" \in Faults
    /\ p \in listening
    /\ listening' = listening \ {p}
    /\ broken' = IF p \in Desks THEN broken \union {p} ELSE broken
    /\ UNCHANGED <<server, views, amiss, cursor>>

\* Mutant of the next action: no event concerns the map.
OnMessageQueueOnly(p) ==
    /\ p \in listening
    /\ cursor[p] < Len(log)
    /\ cursor' = [cursor EXCEPT ![p] = @ + 1]
    /\ Invalidate({v \in Of(p) : v[2] = "queue"})
    /\ UNCHANGED <<server, shown, loaded, cache, listening, broken>>

OnMessage(p) ==
    /\ p \in listening
    /\ cursor[p] < Len(log)
    /\ cursor' = [cursor EXCEPT ![p] = @ + 1]
    /\ Invalidate({v \in Of(p) : v[2] \in Tells(log[cursor[p] + 1])})
    /\ UNCHANGED <<server, shown, loaded, cache, listening, broken>>

\* The page is loaded anew.
Reload(p) ==
    /\ "reload" \in Faults
    /\ Of(p) # {}
    /\ Abandon(p)
    /\ loaded' = loaded \ Of(p)
    /\ UNCHANGED shown
    /\ cache' = [v \in Views |-> IF v \in Of(p) THEN {} ELSE cache[v]]
    /\ fetch' = [v \in Views |-> IF v \in Of(p) THEN "asked" ELSE fetch[v]]
    /\ reply' = [v \in Views |-> IF v \in Of(p) THEN {} ELSE reply[v]]
    /\ amiss' = [v \in Views |-> IF v \in Of(p) THEN "nothing" ELSE amiss[v]]
    /\ listening' = listening \ {p}
    /\ broken' = broken \ {p}
    /\ cursor' = [cursor EXCEPT ![p] = Len(log)]

-----------------------------------------------------------------------------
Next ==
    \/ Server
    \/ \E k \in Desks, d \in Decisions, r \in Reports, v \in Verdicts : HandleAction(k, d, r, v)
    \/ \E d \in Decisions : ActionSettles(d)
    \/ \E v \in Views : Refetch(v) \/ Read(v) \/ Apply(v) \/ Fail(v)
    \/ \E p \in Pages : Listen(p) \/ StreamBreaks(p) \/ OnMessage(p) \/ Reload(p)

Spec == Init /\ [][Next]_vars

-----------------------------------------------------------------------------
TypeOK ==
    /\ ServerTypeOK
    /\ shown \in Displays
    /\ loaded \subseteq shown
    /\ DOMAIN cache = Views /\ DOMAIN reply = Views
    /\ fetch \in [Views -> {"none", "asked", "read"}]
    /\ \A v \in Views \ shown : fetch[v] = "none"
    /\ amiss \in [Views -> {"nothing", "short", "failed", "outdated"}]
    /\ \A v \in Views : fetch[v] = "asked" => amiss[v] = "nothing"
    /\ listening \subseteq Pages
    /\ broken \subseteq Desks /\ broken \intersect listening = {}
    /\ cursor \in [Pages -> 0..Len(log)]

\* What a view's data, or what has been read for it, has to do with the tables.
Reflects(v, data) ==
    /\ amiss[v] = "nothing" => data = Truth(v[2])
    /\ amiss[v] = "short" => data \subseteq Truth(v[2])
    /\ amiss[v] = "failed" /\ v[2] = "queue" => data = {}

\* useSSE.ts:35, __root.tsx:65-71: what a page shows is what the tables hold, unless it is
\* about to learn better (a request, an event it has not handled, an announcement that is
\* due) or a change was never announced to it.  A list that was cut short lacks rows, but has
\* none that the tables do not hold.  A load that failed leaves a map as it was, however old,
\* and a desk's list empty, as if there were nothing to decide.
ViewIsCurrent ==
    \A v \in loaded : fetch[v] = "none" /\ ~Owed(v) /\ ~Unread(v)
        => Reflects(v, cache[v])
=============================================================================
