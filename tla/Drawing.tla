------------------------------ MODULE Drawing ------------------------------
(***************************************************************************)
(* The pages of the portal on which an area is drawn: a new danger zone, a *)
(* broadcast, and the page of one zone with its editor.  A page shows on   *)
(* its map what it is going to send, sends it, and does something to       *)
(* itself when the answer comes, whatever has happened on it meanwhile.    *)
(*                                                                         *)
(* A point is named by the click or the drag that set it, and a text (the  *)
(* message, or type and severity) by the entry that made it; 0 names what  *)
(* was there before, and a text that is still as the form offers it.       *)
(***************************************************************************)
EXTENDS Naturals, Sequences, FiniteSets, FiniteSetsExt

CONSTANTS
    Requests,   \* requests to change something: a bound
    MaxEntries, \* how many points are set and texts entered: a bound
    Plans,      \* who is at the desk, where it starts and may go, how much it enters and sends,
                \* what else may happen
    None        \* no data, no request; among the callbacks, the one that adds the drawing's layers

Boards == {"new", "broadcast"}
Pages == Boards \union {"zone", "command", "login"}
Roles == {"AUTHORITY", "RESPONDER"}

ASSUME DrawingAssumption ==
    /\ MaxEntries \in Nat
    /\ Plans \subseteq [role : Roles, start : Pages, pages : SUBSET Pages,
                        entries : 0..MaxEntries, sends : 0..Cardinality(Requests),
                        may : SUBSET {"lag", "server", "network", "load", "focus", "others"}]

Entries == 0..MaxEntries
Kinds == {"new", "broadcast", "save", "delete"}

Areas  == Seq(Entries)
Zones  == [area : Areas, text : Entries, active : BOOLEAN]
Wishes == [kind : Kinds, area : Areas, text : Entries]

ASSUME NoneAssumption == None \notin Areas /\ None \notin Zones /\ None \notin Wishes

VARIABLES
    plan,
    row,        \* the zone that the page of one zone is about, in danger_zones
    req,        \* what each request asks for
    handler,    \* how far the backend is with it
    heard,      \* how a broadcast was made known
    outcome,    \* how it ended for the desk, if it has
    attached,   \* the requests whose page has stayed open since they were sent
    page,       \* the page that is open
    points,     \* points, or editPoints
    text,       \* what the form holds
    entries,    \* how many points and texts have been entered
    editing,    \* isEditing
    handles,    \* where the markers stand that can be dragged
    dialog,     \* showConfirm, or showDeleteModal
    confirm,    \* CONFIRM stands in the dialog, open or not
    map,        \* mapRef and isLoaded
    layers,     \* the map has the source that shows the area
    drawn,      \* the area it shows
    deferred,   \* updates of the drawing that wait for 'styledata'
    cache,      \* the page's query for its zone
    fetch,      \* how far its request is
    reply,      \* what that has read
    stale,      \* it was invalidated while the page was closed
    smooth,     \* history: no update of the drawing has had to wait or was dropped
    cleared,    \* history: the drawing was cleared behind the open dialog
    overtaken   \* history: the requests under way when the dialog was closed, or something
                \* was entered or cleared behind it

sending == <<req, handler, heard, outcome>>
modal   == <<dialog, confirm, cleared>>
form    == <<points, text, entries, editing, handles, modal>>
canvas  == <<map, layers, drawn, deferred, smooth>>
query   == <<cache, fetch, reply, stale>>
vars    == <<plan, row, sending, attached, page, form, canvas, query, overtaken>>

Given == [area |-> <<0, 0, 0>>, text |-> 0, active |-> TRUE]

Init ==
    /\ plan \in Plans
    /\ row = Given
    /\ req = [q \in Requests |-> None]
    /\ handler = [q \in Requests |-> "none"]
    /\ heard = [q \in Requests |-> {}]
    /\ outcome = [q \in Requests |-> "none"]
    /\ attached = {}
    /\ page = plan.start
    /\ points = <<>>
    /\ text = 0
    /\ entries = 0
    /\ editing = FALSE
    /\ handles = <<>>
    /\ dialog = FALSE
    /\ confirm = FALSE
    /\ cleared = FALSE
    /\ map = IF plan.start \in Boards THEN "loading" ELSE "none"
    /\ layers = FALSE
    /\ drawn = <<>>
    /\ deferred = <<>>
    /\ cache = None
    /\ fetch = IF plan.start = "zone" THEN "asked" ELSE "none"
    /\ reply = None
    /\ stale = FALSE
    /\ smooth = TRUE
    /\ overtaken = {}

-----------------------------------------------------------------------------
(***************************************************************************)
(* The map of a board.  A callback that finds the style not loaded waits   *)
(* for the next 'styledata', and keeps the points it was made for.         *)
(***************************************************************************)

\* A broadcast's map shows closed areas only.
Picture(p) == IF page = "broadcast" /\ Len(p) < 3 THEN <<>> ELSE p

\* Callbacks are called in their order, of which the first n find the style loaded: one adds
\* the layers, the others put their points there, if the layers are.  The rest waits.
Call(callbacks, n) ==
    LET Layered(i) == layers \/ \E j \in 1..i : callbacks[j] = None
        put == {i \in 1..n : callbacks[i] # None /\ Layered(i)}
    IN  /\ layers' = Layered(n)
        /\ drawn' = IF put = {} THEN drawn ELSE Picture(callbacks[Max(put)])
        /\ smooth' = (/\ smooth /\ n = Len(callbacks)
                      /\ \A i \in 1..n : callbacks[i] = None \/ Layered(i))

Found(callbacks) == IF "lag" \in plan.may THEN 0..Len(callbacks) ELSE {Len(callbacks)}

\* updateData, whenever the points have changed.
Redraw(p) ==
    IF map # "loaded" THEN UNCHANGED <<layers, drawn, deferred, smooth>>
    ELSE \E n \in Found(<<p>>) :
            /\ Call(<<p>>, n)
            /\ deferred' = IF n = 1 THEN deferred ELSE Append(deferred, p)

\* 'load': initDraw and updateData on a board.  On the page of a zone the source is added and
\* shows the points, and an editor that is open gets its markers.
MapLoads ==
    /\ map = "loading"
    /\ map' = "loaded"
    /\ IF page = "zone"
       THEN /\ layers' = TRUE
            /\ drawn' = points
            /\ handles' = IF editing THEN points ELSE <<>>
            /\ UNCHANGED <<deferred, smooth>>
       ELSE /\ \E n \in Found(<<None, points>>) :
                /\ Call(<<None, points>>, n)
                /\ deferred' = SubSeq(<<None, points>>, n + 1, 2)
            /\ UNCHANGED handles
    /\ UNCHANGED <<plan, row, sending, attached, page, points, text, entries, editing, modal, query, overtaken>>

StyleData ==
    /\ deferred # <<>>
    /\ \E n \in 1..Len(deferred) :
        /\ Call(deferred, n)
        /\ deferred' = SubSeq(deferred, n + 1, Len(deferred))
    /\ UNCHANGED <<plan, row, sending, attached, page, form, map, query, overtaken>>

-----------------------------------------------------------------------------
(***************************************************************************)
(* The backend.  The events of a zone's change and deletion are left out:  *)
(* no page listens to them.                                                *)
(***************************************************************************)

\* The statement that a request is about.  A deletion clears is_active.
Statement(b) ==
    row' = CASE b.kind = "save" -> [row EXCEPT !.area = b.area, !.text = b.text]
             [] b.kind = "delete" -> [row EXCEPT !.active = FALSE]
             [] OTHER -> row

\* Of a broadcast without points BuildPolygonWKT makes no polygon, and the INSERT fails.
Hollow(b) == b.kind = "broadcast" /\ b.area = <<>>

Handle(q) ==
    /\ handler[q] = "asked" /\ ~Hollow(req[q])
    /\ Statement(req[q])
    /\ handler' = [handler EXCEPT ![q] = IF req[q].kind = "broadcast" THEN "inserted" ELSE "done"]
    /\ UNCHANGED <<plan, req, heard, outcome, attached, page, form, canvas, query, overtaken>>

\* The notifications of the users in the area, whose errors are ignored, and the event.
Spread(q) ==
    /\ handler[q] = "inserted"
    /\ handler' = [handler EXCEPT ![q] = "done"]
    /\ \E ways \in IF "server" \in plan.may THEN SUBSET {"notifications", "event"}
                                            ELSE {{"notifications", "event"}} :
        heard' = [heard EXCEPT ![q] = ways]
    /\ UNCHANGED <<plan, row, req, outcome, attached, page, form, canvas, query, overtaken>>

HandlerFails(q) ==
    /\ handler[q] \in {"asked", "inserted"}
    /\ "server" \in plan.may \/ Hollow(req[q])
    /\ handler' = [handler EXCEPT ![q] = "failed"]
    /\ UNCHANGED <<plan, row, req, heard, outcome, attached, page, form, canvas, query, overtaken>>

\* Another desk edits the zone, or deletes it.
OthersEdit ==
    /\ "others" \in plan.may /\ entries < plan.entries
    /\ entries' = entries + 1
    /\ row' = [row EXCEPT !.area = [i \in DOMAIN @ |-> entries'], !.text = entries']
    /\ UNCHANGED <<plan, sending, attached, page, points, text, editing, handles, modal,
                   canvas, query, overtaken>>

Pending(q) == req[q] # None /\ outcome[q] = "none"

Begin(q, kind, area, t) ==
    /\ req[q] = None
    /\ Cardinality({r \in Requests : req[r] # None}) < plan.sends
    /\ req' = [req EXCEPT ![q] = [kind |-> kind, area |-> area, text |-> t]]
    /\ handler' = [handler EXCEPT ![q] = "asked"]
    /\ attached' = attached \union {q}
    /\ UNCHANGED <<heard, outcome>>

Ends(q, how) ==
    /\ outcome' = [outcome EXCEPT ![q] = how]
    /\ UNCHANGED <<req, handler, heard>>

-----------------------------------------------------------------------------
(***************************************************************************)
(* Drawing on a board, and sending it.                                     *)
(***************************************************************************)

\* Modal lies over the page while it is open: the pointer does not reach what is behind it.
\* The keyboard does.
Covered == dialog

UnderWay == {q \in attached : Pending(q)}

\* Something is entered or cleared: if behind the dialog, the requests are overtaken.
Touch == overtaken' = IF Covered THEN overtaken \union UnderWay ELSE overtaken

\* A click on the map of a board.
Click ==
    /\ page \in Boards /\ map = "loaded" /\ ~Covered
    /\ entries < plan.entries
    /\ entries' = entries + 1
    /\ points' = Append(points, entries')
    /\ Redraw(points')
    /\ UNCHANGED <<plan, row, sending, attached, page, text, editing, handles, modal, map,
                   query, overtaken>>

ClearDrawing ==
    /\ page \in Boards /\ points # <<>>
    /\ points' = <<>>
    /\ Redraw(<<>>)
    /\ cleared' = dialog
    /\ Touch
    /\ UNCHANGED <<plan, row, sending, attached, page, text, entries, editing, handles, dialog, confirm,
                   map, query>>

\* The form of a board, or of a zone that is edited.
Type ==
    /\ page \in Boards \/ editing
    /\ entries < plan.entries
    /\ entries' = entries + 1
    /\ text' = entries'
    /\ Touch
    /\ UNCHANGED <<plan, row, sending, attached, page, points, editing, handles, modal,
                   canvas, query>>

Submitting == \E q \in attached : req[q].kind = "new" /\ Pending(q)

\* onSubmit of the new zone.
EstablishZone(q) ==
    /\ page = "new" /\ Len(points) >= 3 /\ ~Submitting
    /\ Begin(q, "new", points, text)
    /\ UNCHANGED <<plan, row, page, form, canvas, query, overtaken>>

\* onSubmit of a broadcast, which must have a message.
AskToConfirm ==
    /\ page = "broadcast" /\ Len(points) >= 3 /\ text # 0
    /\ dialog' = TRUE
    /\ UNCHANGED <<plan, row, sending, attached, page, points, text, entries, editing, handles, confirm,
                   cleared, canvas, query, overtaken>>

TypeConfirm ==
    /\ dialog /\ ~confirm
    /\ confirm' = TRUE
    /\ UNCHANGED <<plan, row, sending, attached, page, points, text, entries, editing, handles, dialog,
                   cleared, canvas, query, overtaken>>

\* Cancel, or the cross.  What was typed stays.
CloseDialog ==
    /\ dialog
    /\ dialog' = FALSE /\ cleared' = FALSE
    /\ overtaken' = overtaken \union UnderWay
    /\ UNCHANGED <<plan, row, sending, attached, page, points, text, entries, editing, handles, confirm,
                   canvas, query>>

\* The button stays enabled while a broadcast is under way.
HandleConfirmExecute(q) ==
    /\ page = "broadcast" /\ dialog /\ confirm
    /\ Begin(q, "broadcast", points, text)
    /\ UNCHANGED <<plan, row, page, form, canvas, query, overtaken>>

-----------------------------------------------------------------------------
(***************************************************************************)
(* Pages open and close, with their state.                                 *)
(***************************************************************************)

\* beforeLoad of the boards, whose redirect to the command centre its own catch turns into one
\* to the login.
Reached(k) == IF k \in Boards /\ plan.role # "AUTHORITY" THEN "login" ELSE k

\* Mutant of the next operator: the dialog outlives the page.
GoToKeepsDialog(k) ==
    /\ page' = k
    /\ attached' = {}
    /\ points' = IF k = "zone" /\ cache # None THEN cache.area ELSE <<>>
    /\ text' = IF k = "zone" /\ cache # None THEN cache.text ELSE 0
    /\ editing' = FALSE /\ handles' = <<>>
    /\ map' = IF k \in Boards \/ (k = "zone" /\ cache # None) THEN "loading" ELSE "none"
    /\ layers' = FALSE /\ drawn' = <<>> /\ deferred' = <<>>
    /\ smooth' = TRUE
    /\ UNCHANGED <<modal, fetch, stale>>

\* The page of a zone has a map only if its zone is in the cache by then: useMap looks for its
\* container once, and while the zone is loading there is none.
GoTo(k) ==
    /\ page' = k
    /\ attached' = {}
    /\ points' = IF k = "zone" /\ cache # None THEN cache.area ELSE <<>>
    /\ text' = IF k = "zone" /\ cache # None THEN cache.text ELSE 0
    /\ editing' = FALSE /\ handles' = <<>>
    /\ dialog' = FALSE /\ confirm' = FALSE /\ cleared' = FALSE
    /\ map' = IF k \in Boards \/ (k = "zone" /\ cache # None) THEN "loading" ELSE "none"
    /\ layers' = FALSE /\ drawn' = <<>> /\ deferred' = <<>>
    /\ smooth' = TRUE
    /\ \/ /\ k = "zone" /\ fetch = "none" /\ (cache = None \/ stale \/ "focus" \in plan.may)
          /\ fetch' = "asked" /\ stale' = FALSE
       \/ /\ ~(k = "zone" /\ fetch = "none" /\ (cache = None \/ stale))
          /\ UNCHANGED <<fetch, stale>>

\* The side bar, and the links to and from the page of a zone.
Navigate(k) ==
    /\ k \in plan.pages /\ k # page /\ page # "login"
    /\ GoTo(Reached(k))
    /\ UNCHANGED <<plan, row, sending, entries, cache, reply, overtaken>>

\* handleSubmit of the login.
SignIn ==
    /\ page = "login"
    /\ GoTo("command")
    /\ UNCHANGED <<plan, row, sending, entries, cache, reply, overtaken>>

-----------------------------------------------------------------------------
(***************************************************************************)
(* The page of one zone.                                                   *)
(***************************************************************************)

Displayed == page = "zone" /\ cache # None

\* Mutant of the next operator: the fields are filled in only when the zone has changed.
FollowOnlyNews(z, edits) ==
    /\ UNCHANGED <<points, text, drawn>>
    /\ handles' = IF edits /\ map = "loaded" THEN points ELSE <<>>

\* The effects on [hazard, isEditing] and [editPoints]: the fields follow the zone unless they
\* are being edited, the markers stand where the points are, the map shows them.
Follow(z, edits) ==
    /\ IF edits THEN UNCHANGED <<points, text>> ELSE points' = z.area /\ text' = z.text
    /\ handles' = IF edits /\ map = "loaded" THEN points' ELSE <<>>
    /\ drawn' = IF map = "loaded" THEN points' ELSE drawn

Read ==
    /\ fetch = "asked"
    /\ fetch' = "read" /\ reply' = row
    /\ UNCHANGED <<plan, row, sending, attached, page, form, canvas, cache, stale, overtaken>>

\* The answer.  A zone that has not changed keeps its identity.
Apply ==
    /\ fetch = "read"
    /\ cache' = reply
    /\ fetch' = "none" /\ reply' = None /\ stale' = FALSE
    /\ IF page = "zone" /\ cache # reply /\ ~editing
       THEN Follow(reply, FALSE)
       ELSE UNCHANGED <<points, text, handles, drawn>>
    /\ UNCHANGED <<plan, row, sending, attached, page, entries, editing, modal, map, layers,
                   deferred, smooth, overtaken>>

LoadFails ==
    /\ "load" \in plan.may /\ fetch # "none"
    /\ fetch' = "none" /\ reply' = None
    /\ UNCHANGED <<plan, row, sending, attached, page, form, canvas, cache, stale, overtaken>>

\* The data is old and the window gets the focus, say.
Refetch ==
    /\ page = "zone" /\ fetch = "none" /\ (cache = None \/ "focus" \in plan.may)
    /\ fetch' = "asked"
    /\ UNCHANGED <<plan, row, sending, attached, page, form, canvas, cache, reply, stale, overtaken>>

EditZone ==
    /\ Displayed /\ ~editing
    /\ editing' = TRUE
    /\ Follow(cache, TRUE)
    /\ UNCHANGED <<plan, row, sending, attached, page, entries, modal, map, layers, deferred,
                   smooth, query, overtaken>>

\* A marker is dragged: it and the point of its index move.
Drag(i) ==
    /\ editing /\ i \in DOMAIN handles /\ ~Covered
    /\ entries < plan.entries
    /\ entries' = entries + 1
    /\ handles' = [handles EXCEPT ![i] = entries']
    /\ points' = [points EXCEPT ![i] = entries']
    /\ drawn' = points'
    /\ UNCHANGED <<plan, row, sending, attached, page, text, editing, modal, map, layers,
                   deferred, smooth, query, overtaken>>

CancelEdit ==
    /\ editing
    /\ editing' = FALSE
    /\ Follow(cache, FALSE)
    /\ UNCHANGED <<plan, row, sending, attached, page, entries, modal, map, layers, deferred,
                   smooth, query, overtaken>>

\* The button stays enabled, and the editor open, while a request is under way.
HandleSaveEdit(q) ==
    /\ editing
    /\ Begin(q, "save", points, text)
    /\ UNCHANGED <<plan, row, page, form, canvas, query, overtaken>>

OpenDeleteDialog ==
    /\ Displayed /\ ~editing
    /\ dialog' = TRUE
    /\ UNCHANGED <<plan, row, sending, attached, page, points, text, entries, editing, handles, confirm,
                   cleared, canvas, query, overtaken>>

HandleDelete(q) ==
    /\ page = "zone" /\ dialog /\ confirm
    /\ Begin(q, "delete", points, text)
    /\ UNCHANGED <<plan, row, page, form, canvas, query, overtaken>>

-----------------------------------------------------------------------------
(***************************************************************************)
(* The answers.                                                            *)
(***************************************************************************)

Answered(q, kind) == Pending(q) /\ req[q].kind = kind /\ handler[q] = "done"

\* Mutant of the next action: the form and the drawing stay.
BroadcastSentKeepsForm(q) ==
    /\ Answered(q, "broadcast")
    /\ Ends(q, "ok")
    /\ IF q \in attached THEN dialog' = FALSE /\ confirm' = FALSE /\ cleared' = FALSE
       ELSE UNCHANGED modal
    /\ UNCHANGED <<plan, row, attached, page, points, text, entries, editing, handles, canvas, query,
                   overtaken>>

\* Everything on the page is cleared, whether or not it is what was sent.
BroadcastSent(q) ==
    /\ Answered(q, "broadcast")
    /\ Ends(q, "ok")
    /\ IF q \in attached
       THEN /\ points' = <<>>
            /\ text' = 0
            /\ dialog' = FALSE /\ cleared' = FALSE
            /\ confirm' = FALSE
            /\ overtaken' = overtaken \union (UnderWay \ {q})
            /\ Redraw(<<>>)
       ELSE UNCHANGED <<points, text, modal, layers, drawn, deferred, smooth, overtaken>>
    /\ UNCHANGED <<plan, row, attached, page, entries, editing, handles, map, query>>

\* navigate opens the command centre from whatever page is open by then.
Leave ==
    IF page # "command" THEN GoTo("command")
    ELSE UNCHANGED <<attached, page, points, text, editing, handles, modal, canvas, fetch, stale>>

ZoneEstablished(q) ==
    /\ Answered(q, "new")
    /\ Ends(q, "ok")
    /\ Leave
    /\ UNCHANGED <<plan, row, entries, cache, reply, overtaken>>

ZoneDeleted(q) ==
    /\ Answered(q, "delete")
    /\ Ends(q, "ok")
    /\ Leave
    /\ UNCHANGED <<plan, row, entries, cache, reply, overtaken>>

\* setIsEditing(false) comes before the zone is asked for: the page shows the former one.
ZoneSaved(q) ==
    /\ Answered(q, "save")
    /\ Ends(q, "ok")
    /\ IF q \in attached /\ editing
       THEN editing' = FALSE /\ Follow(cache, FALSE)
       ELSE UNCHANGED <<points, text, editing, handles, drawn>>
    /\ IF page = "zone"
       THEN /\ fetch' = IF cache = None /\ fetch = "read" THEN "read" ELSE "asked"
            /\ reply' = IF cache = None /\ fetch = "read" THEN reply ELSE None
            /\ UNCHANGED stale
       ELSE stale' = TRUE /\ UNCHANGED <<fetch, reply>>
    /\ UNCHANGED <<plan, row, attached, page, entries, modal, map, layers, deferred, smooth,
                   cache, overtaken>>

\* A toast, and the page stays as it is.  The request may have been carried out, or be yet.
Fails(q) ==
    /\ Pending(q)
    /\ "network" \in plan.may \/ handler[q] = "failed"
    /\ Ends(q, "error")
    /\ UNCHANGED <<plan, row, attached, page, form, canvas, query, overtaken>>

-----------------------------------------------------------------------------
Next ==
    \/ MapLoads \/ StyleData
    \/ Click \/ ClearDrawing \/ Type \/ AskToConfirm \/ TypeConfirm \/ CloseDialog
    \/ \E k \in Pages : Navigate(k)
    \/ SignIn \/ OthersEdit
    \/ Read \/ Apply \/ LoadFails \/ Refetch
    \/ EditZone \/ CancelEdit \/ OpenDeleteDialog
    \/ \E i \in 1..3 : Drag(i)
    \/ \E q \in Requests :
        \/ Handle(q) \/ Spread(q) \/ HandlerFails(q)
        \/ EstablishZone(q) \/ HandleConfirmExecute(q) \/ HandleSaveEdit(q) \/ HandleDelete(q)
        \/ BroadcastSent(q) \/ ZoneEstablished(q) \/ ZoneDeleted(q) \/ ZoneSaved(q) \/ Fails(q)

Spec == Init /\ [][Next]_vars

-----------------------------------------------------------------------------
TypeOK ==
    /\ plan \in Plans
    /\ row \in Zones
    /\ req \in [Requests -> {None} \union Wishes]
    /\ handler \in [Requests -> {"none", "asked", "inserted", "done", "failed"}]
    /\ heard \in [Requests -> SUBSET {"notifications", "event"}]
    /\ \A q \in Requests : req[q] = None => handler[q] = "none" /\ outcome[q] = "none"
    /\ \A q \in Requests : handler[q] = "inserted" => req[q].kind = "broadcast"
    /\ \A q \in Requests : heard[q] # {} => req[q] # None /\ req[q].kind = "broadcast" /\ handler[q] = "done"
    /\ outcome \in [Requests -> {"none", "ok", "error"}]
    /\ \A q \in Requests : outcome[q] = "ok" => handler[q] = "done"
    /\ attached \subseteq {q \in Requests : req[q] # None}
    /\ page \in Pages
    /\ points \in Areas /\ drawn \in Areas /\ handles \in Areas
    /\ text \in Entries /\ entries \in Entries
    /\ editing \in BOOLEAN /\ (editing => Displayed)
    /\ dialog \in BOOLEAN /\ (dialog => page \in {"broadcast", "zone"})
    /\ confirm \in BOOLEAN
    /\ cleared \in BOOLEAN /\ (cleared => dialog /\ page = "broadcast" /\ points = <<>>)
    /\ overtaken \subseteq Requests
    /\ map \in {"none", "loading", "loaded"} /\ (map # "none" => page \in Boards \union {"zone"})
    /\ layers \in BOOLEAN /\ (layers => map = "loaded")
    /\ deferred \in Seq({None} \union Areas)
    /\ deferred # <<>> => map = "loaded"
    /\ smooth \in BOOLEAN
    /\ cache \in {None} \union Zones
    /\ fetch \in {"none", "asked", "read"}
    /\ reply \in {None} \union Zones
    /\ reply # None <=> fetch = "read"
    /\ stale \in BOOLEAN

\* handleConfirmExecute, which does not look at the points, and handleSaveEdit: whatever the
\* late answers have cleared by then, what their buttons send has three points, unless a
\* drawing has been cleared behind the open dialog (broadcast.tsx:209).
SendsArea == (dialog /\ page = "broadcast" /\ ~cleared) \/ editing => Len(points) >= 3

\* So has what has been sent.  A broadcast whose drawing was cleared behind the dialog has no
\* points at all, and is not carried out.
SentIsArea ==
    \A q \in Requests : req[q] # None =>
        \/ Len(req[q].area) >= 3
        \/ Hollow(req[q]) /\ handler[q] \in {"asked", "failed"}

\* broadcast.tsx:133-155 and hazards.new.tsx:130-153, which nothing but their own effects keeps
\* from sending again: what an answer has acknowledged is not sent a second time.
NotSentAgain ==
    [][\A q, r \in Requests :
        /\ req[q] = None /\ req'[q] # None
        /\ req'[q].kind \in {"new", "broadcast"}
        /\ req[r] # None /\ outcome[r] = "ok"
        => req'[q] # req[r]]_vars

\* broadcast.tsx:150: an answer clears what is on the page.  That is what was sent, unless, while
\* the request was under way, the dialog was closed, by its user or by another answer, or
\* something was entered or cleared behind it.
ClearedWasSent ==
    [][\A q \in Requests :
        /\ Pending(q) /\ outcome'[q] = "ok"
        /\ req[q].kind = "broadcast" /\ q \in attached \ overtaken
        /\ points # <<>>
        => points = req[q].area /\ text = req[q].text]_vars

\* An answer clears what it is the answer to, so that it is neither sent again nor lost unsent.
AnswersClearTheirOwn == NotSentAgain /\ ClearedWasSent

\* The updates of the drawing (hazards.new.tsx:87-126, broadcast.tsx:86-123) and the effects of
\* the zone's editor (hazards.$id.tsx:47-148): unless the map has been busy at some change, it
\* shows the area that will be sent, and the markers stand on it.
ShowsWhatItSends ==
    /\ map = "loaded" /\ smooth => drawn = Picture(points)
    /\ map = "loaded" /\ editing => handles = points
    /\ Displayed /\ ~editing => points = cache.area

\* What is sent is an area, unless it was cleared behind the dialog, and the one that the map
\* shows.
AreaIsShown == SendsArea /\ SentIsArea /\ ShowsWhatItSends
=============================================================================
