---------------------------- MODULE Notifications ----------------------------
(***************************************************************************)
(* A citizen's notifications: the rows that the backend's handlers write   *)
(* for him, the events that the phone hears of them, the query that the    *)
(* phone asks again at each of them, and the list that it shows.           *)
(*                                                                         *)
(* What a handler does for a notice is a sequence of steps.  A broadcast   *)
(* writes a row for the phones in its area, and its event, which all       *)
(* phones hear, is put on their lists under an id that no row has.  The    *)
(* verification of a report tells the stream before it writes its row, a   *)
(* rejection does not tell the stream.                                     *)
(*                                                                         *)
(* The list has the newest rows only, and rows are never deleted.  An      *)
(* answer may have fewer yet, if the rows stop coming in mid-result.       *)
(*                                                                         *)
(* The header shows the number of notices on every page: the query is      *)
(* always observed.  The stream is what EventFeed promises.                *)
(***************************************************************************)
EXTENDS Naturals, Sequences

CONSTANTS
    Notices,    \* notices for this citizen, or for others of a broadcast's area
    Limit,      \* the LIMIT of the SELECT: 50
    MaxMarks,   \* how often the citizen marks one as read: a bound
    None        \* no list, no row, no place

VARIABLES
    plan,
    page,       \* the page that is open
    location,   \* currentLocation of the store
    (* the backend *)
    taken,      \* how many of its steps a notice's handler has taken
    rows,       \* the notices with a row in user_notifications
    newer,      \* how many rows have come after a notice's own: the order of created_at
    read,       \* those with read_at
    log,        \* the notices that the events of the stream are about
    published, cursor, subscribed, since, got,  \* EventFeed
    (* the phone *)
    cache,      \* the query's data
    fetch,      \* how far its request is
    reply,      \* what the request has read
    invalid,    \* the data is to be asked for again
    cut,        \* history: which of the two, "reply" and "data", is of a result that was cut short
    mark,       \* the calls of markRead
    mine,       \* those of the page that is open
    list,       \* notifications of the store, the pushed ones aside
    pushed,     \* those that came with an event
    told,       \* history: the notices that it has heard of while it had data
    done        \* history: the notices that the backend has confirmed to be read

Feed == INSTANCE EventFeed WITH Conns <- {"phone"}

backend == <<taken, rows, newer, read, log>>
stream  == <<published, cursor, subscribed, since, got>>
query   == <<cache, fetch, reply, invalid, cut>>
shown   == <<list, pushed>>
marking == <<mark, mine, done>>

Kinds == {"broadcast", "sos", "verified", "rejected", "elsewhere"}
Kind(n) == plan.notices[n]
Lists == UNION {[ns -> {"read", "unread", "set"}] : ns \in SUBSET Notices}
Marks == 1..MaxMarks
Calls == [row : Notices \union {None}, previous : Lists \union {None}, tries : 0..2,
          at : {"asked", "arrived", "orphan", "over"}]
Pending(m) == mark[m] # None /\ mark[m].at \in {"asked", "arrived"}

\* CreateBroadcastService, UpdateSOSStatusService and UpdateIncidentStatusService.
Steps ==
    [broadcast |-> <<"insert", "publish">>,
     sos       |-> <<"insert", "publish">>,
     verified  |-> <<"publish", "insert">>,
     rejected  |-> <<"insert">>,
     elsewhere |-> <<"publish">>]

Init ==
    /\ taken = [n \in Notices |-> 0]
    /\ rows = {} /\ newer = [n \in Notices |-> 0] /\ read = {} /\ log = <<>>
    /\ Feed!Init
    /\ cache = None /\ fetch = "asked" /\ reply = None /\ invalid = FALSE /\ cut = {}
    /\ mark = [m \in Marks |-> None] /\ mine = {} /\ done = {}
    /\ list = None /\ pushed = {}
    /\ told = {}

-----------------------------------------------------------------------------
(* The backend. *)

Takes(n, what) ==
    /\ Kind(n) # "none"
    /\ taken[n] < Len(Steps[Kind(n)])
    /\ Steps[Kind(n)][taken[n] + 1] = what
    /\ taken' = [taken EXCEPT ![n] = @ + 1]
    /\ UNCHANGED <<read, query, shown, marking, told>>

Insert(n) ==
    /\ Takes(n, "insert")
    /\ rows' = rows \union {n}
    /\ newer' = [k \in Notices |-> IF k \in rows THEN newer[k] + 1 ELSE newer[k]]
    /\ UNCHANGED <<log, stream>>

Publish(n) ==
    /\ Takes(n, "publish")
    /\ log' = Append(log, n)
    /\ Feed!Publish
    /\ UNCHANGED <<rows, newer>>

\* The errors of both are ignored.
StepFails(n) ==
    /\ "backend" \in plan.may
    /\ Takes(n, "insert") \/ Takes(n, "publish")
    /\ UNCHANGED <<rows, newer, log, stream>>

-----------------------------------------------------------------------------
(* The query, its requests and the store's copy of its data. *)

\* An effect copies data that has changed.
SetData(data) ==
    /\ cache' = data
    /\ IF data = cache THEN UNCHANGED shown ELSE list' = data /\ pushed' = {}

\* invalidateQueries: a request under way is made again, unless it is the first.
Invalidate ==
    /\ invalid' = TRUE
    /\ IF fetch # "none" /\ cache = None THEN UNCHANGED <<fetch, reply>>
       ELSE fetch' = "asked" /\ reply' = None

\* The data is a minute old and the window gets the focus, say.
Refetch ==
    /\ fetch = "none"
    /\ fetch' = "asked"
    /\ UNCHANGED <<backend, stream, cache, reply, invalid, cut, marking, shown, told>>

\* ORDER BY created_at DESC LIMIT: an old row makes place for a new one.
Recent == {n \in rows : newer[n] < Limit}

\* getNotifications.  A row whose Scan fails is left out, and rows.Err is never asked when they stop
\* coming: the answer is 200, with the rest.
Read ==
    /\ fetch = "asked"
    /\ fetch' = "read"
    /\ \E scanned \in SUBSET Recent :
        /\ scanned # Recent => "backend" \in plan.may
        /\ reply' = [n \in scanned |-> IF n \in read THEN "read" ELSE "unread"]
        /\ cut' = IF scanned = Recent THEN cut \ {"reply"} ELSE cut \union {"reply"}
    /\ UNCHANGED <<backend, stream, cache, invalid, marking, shown, told>>

Apply ==
    /\ fetch = "read"
    /\ SetData(reply)
    /\ fetch' = "none" /\ reply' = None /\ invalid' = FALSE
    /\ cut' = IF "reply" \in cut THEN {"data"} ELSE {}
    /\ UNCHANGED <<backend, stream, marking, told>>

\* There is no second attempt, and the data stays.
RequestFails ==
    /\ "network" \in plan.may
    /\ fetch # "none"
    /\ fetch' = "none" /\ reply' = None
    /\ UNCHANGED <<backend, stream, cache, invalid, cut, marking, shown, told>>

-----------------------------------------------------------------------------
(* The stream. *)

Connect ==
    /\ location # None
    /\ Feed!Subscribe("phone")
    /\ UNCHANGED <<backend, query, marking, shown, told>>

HubAdvances ==
    /\ Feed!Advance
    /\ UNCHANGED <<backend, query, marking, shown, told>>

StreamBreaks ==
    /\ "stream" \in plan.may
    /\ subscribed # {}
    /\ Feed!End
    /\ UNCHANGED <<backend, query, marking, shown, told>>

\* An event is delivered and handled.
OnMessage ==
    /\ Feed!Deliver("phone")
    /\ LET n == log[Feed!Newest("phone")']
       IN  /\ Invalidate
           /\ pushed' = IF Kind(n) \in {"broadcast", "elsewhere"} THEN pushed \union {n} ELSE pushed
           /\ told' = IF cache # None /\ Kind(n) # "verified" THEN told \union {n} ELSE told
    /\ UNCHANGED <<backend, cache, cut, marking, list>>

\* The phone is elsewhere, or has no place any more: the stream is closed, to be opened anew.
Relocate ==
    /\ subscribed' = {}
    /\ since' = [c \in {"phone"} |-> 0]
    /\ got' = [c \in {"phone"} |-> <<>>]
    /\ UNCHANGED <<published, cursor>>

-----------------------------------------------------------------------------
(* To mark a notice as read. *)

\* The button of a row, or of a notice that was pushed (None), which no row has the id of.
\* onMutate puts an end to the query's request, and sets the data.
MarkRead(m, row) ==
    /\ page = "notifications"
    /\ m <= plan.marks /\ mark[m] = None /\ \A k \in 1..(m - 1) : mark[k] # None
    /\ ~\E k \in mine : Pending(k)
    /\ IF row = None THEN pushed # {}
       ELSE list # None /\ row \in DOMAIN list /\ list[row] = "unread"
    /\ mark' = [mark EXCEPT ![m] = [row |-> row, previous |-> cache, tries |-> 1, at |-> "asked"]]
    /\ mine' = mine \union {m}
    /\ fetch' = "none" /\ reply' = None
    /\ IF cache = None THEN UNCHANGED <<cache, invalid, shown>>
       ELSE /\ SetData([n \in DOMAIN cache |-> IF n = row THEN "set" ELSE cache[n]])
            /\ invalid' = FALSE
    /\ UNCHANGED <<backend, stream, cut, told, done>>

Over == [row |-> None, previous |-> None, tries |-> 0, at |-> "over"]

MarkArrives(m) ==
    /\ mark[m] # None /\ mark[m].at \in {"asked", "orphan"}
    /\ read' = read \union ({mark[m].row} \intersect rows)
    /\ mark' = [mark EXCEPT ![m] = IF @.at = "orphan" THEN Over ELSE [@ EXCEPT !.at = "arrived"]]
    /\ UNCHANGED <<taken, rows, newer, log, stream, query, mine, done, shown, told>>

\* onSettled: the list is asked for again.
MarkAnswered(m) ==
    /\ mark[m] # None /\ mark[m].at = "arrived"
    /\ done' = done \union ({mark[m].row} \intersect rows)
    /\ mark' = [mark EXCEPT ![m] = Over] /\ mine' = mine \ {m}
    /\ Invalidate
    /\ UNCHANGED <<backend, stream, cache, cut, shown, told>>

\* A call that had no answer is made once more.
MarkRetries(m) ==
    /\ "network" \in plan.may
    /\ Pending(m) /\ mark[m].tries = 1
    /\ mark' = [mark EXCEPT ![m].tries = 2, ![m].at = "asked"]
    /\ UNCHANGED <<backend, stream, query, mine, done, shown, told>>

\* Mutant of the next action: the list is not asked for again.
MarkRolledBack(m) ==
    /\ "network" \in plan.may
    /\ Pending(m) /\ mark[m].tries = 2
    /\ mark' = [mark EXCEPT ![m] = Over] /\ mine' = mine \ {m}
    /\ SetData(IF mark[m].previous = None THEN cache ELSE mark[m].previous)
    /\ invalid' = FALSE
    /\ UNCHANGED <<backend, stream, fetch, reply, cut, done, told>>

\* onError puts back what there was before, whatever has come since; then onSettled.
MarkFails(m) ==
    /\ "network" \in plan.may
    /\ Pending(m) /\ mark[m].tries = 2
    /\ mark' = [mark EXCEPT ![m] = Over] /\ mine' = mine \ {m}
    /\ SetData(IF mark[m].previous = None THEN cache ELSE mark[m].previous)
    /\ Invalidate
    /\ UNCHANGED <<backend, stream, cut, done, told>>

-----------------------------------------------------------------------------
\* Another page.  One with a list runs the effect anew.
PageChanges(k) ==
    /\ mine' = {}
    /\ IF k \in {"home", "notifications"} /\ cache # None THEN list' = cache /\ pushed' = {}
       ELSE UNCHANGED shown
    /\ UNCHANGED <<backend, stream, query, mark, done, told>>

\* The application is opened anew.  Calls under way may yet arrive.
Reloads ==
    /\ cache' = None /\ fetch' = "asked" /\ reply' = None /\ invalid' = FALSE
    /\ cut' = {}
    /\ mark' = [m \in Marks |->
                    IF ~Pending(m) THEN mark[m]
                    ELSE IF mark[m].at = "arrived" THEN Over
                    ELSE [mark[m] EXCEPT !.previous = None, !.tries = 0, !.at = "orphan"]]
    /\ mine' = {}
    /\ list' = None /\ pushed' = {}
    /\ Relocate
    /\ UNCHANGED <<backend, done, told>>

Step ==
    \/ \E n \in Notices : Insert(n) \/ Publish(n) \/ StepFails(n)
    \/ Refetch \/ Read \/ Apply \/ RequestFails
    \/ Connect \/ HubAdvances \/ StreamBreaks \/ OnMessage
    \/ \E m \in Marks :
        \/ \E row \in Notices \union {None} : MarkRead(m, row)
        \/ MarkArrives(m) \/ MarkAnswered(m) \/ MarkRetries(m) \/ MarkFails(m)

-----------------------------------------------------------------------------
TypeOK ==
    /\ taken \in [Notices -> 0..2]
    /\ read \subseteq rows /\ rows \subseteq Notices /\ newer \in [Notices -> Nat]
    /\ published = Len(log) /\ subscribed \subseteq {"phone"}
    /\ fetch \in {"none", "asked", "read"} /\ invalid \in BOOLEAN /\ cut \subseteq {"reply", "data"}
    /\ fetch = "read" <=> reply # None
    /\ {cache, reply} \subseteq Lists \union {None}
    /\ cache # None => DOMAIN cache \subseteq rows
    /\ mark \in [Marks -> Calls \union {None}]
    /\ mine \subseteq {m \in Marks : Pending(m)}
    /\ pushed \subseteq Notices
    /\ told \subseteq Notices /\ done \subseteq read

\* useNotifications.ts:19-48, useSSE.ts:32-60, notifications/service.go:14-43: a list that is at rest
\* has every notice that the phone was told of (that of a verified report comes later) or has marked,
\* if its row is one of the newest and the result that the list comes from was not cut short; it shows
\* as read whatever was confirmed to be; and it is what the query holds.
ListIsCurrent ==
    fetch = "none" /\ ~invalid /\ cache # None /\ (\A m \in Marks : ~Pending(m)) =>
        /\ "data" \in cut \/ (told \union done) \intersect Recent \subseteq DOMAIN cache
        /\ \A n \in done \intersect DOMAIN cache : cache[n] = "read"
        /\ list = cache
=============================================================================
