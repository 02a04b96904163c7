------------------------------- MODULE Camps -------------------------------
(***************************************************************************)
(* Resource camps: the table, the portal's pages on it (the list with its  *)
(* stock selector, the page of one camp with its editor, the page of a new *)
(* camp) and the phones' list.  Every page reads through the query cache;  *)
(* a change of stock is shown before it is made (onMutate) and taken back  *)
(* when it fails.                                                          *)
(*                                                                         *)
(* A value that somebody enters is named by the operation that wrote it.   *)
(***************************************************************************)
EXTENDS Naturals

CONSTANTS
    Ids,        \* ids of camps
    Given,      \* the camps there are at first
    CampOf,     \* the id that each POST of a new camp makes
    Desks,      \* open pages of the portal
    Phones,     \* open pages of the citizen application
    Ops,        \* what people do at desks: each member is done once
    KindOf,     \* [Ops -> Kinds]
    DeskOf,     \* [Ops -> Desks]
    Plans,      \* what is done, by whom and from which page, and what else may happen
    None        \* no data, no request

Kinds == {"stock", "save", "delete", "create"}
Viewers == Desks \union Phones

Attempts == 1..2                                \* bound: how often one form is submitted
Posts == {e \in Ops : KindOf[e] = "create"} \X Attempts

ASSUME CampsAssumption ==
    /\ Given \subseteq Ids
    /\ CampOf \in [Posts -> Ids \ Given]
    /\ \A x, y \in Posts : CampOf[x] = CampOf[y] => x = y
    /\ KindOf \in [Ops -> Kinds]
    /\ DeskOf \in [Ops -> Desks]
    /\ Plans \subseteq [ops : SUBSET Ops, phones : SUBSET Phones, start : Ids \union {"list", "new"},
                      pages : SUBSET (Ids \union {"list", "away"}), may : SUBSET {"server", "network", "stream", "load", "focus"}]
    /\ Desks \intersect Phones = {}
    /\ "given" \notin Ops
    /\ Ids \intersect {"list", "away", "new", "closed", "none"} = {}

Keys == {"list"} \union Ids                     \* ['admin-camps'] or ['camps'], ['admin-camp', id]
Writers == Ops \union {"given"}
Rows == [entry: Writers, place: Writers, stock: Writers, version: Nat]
Fields == {"entry", "place"}
Drafts == [entry: Writers, place: Writers, typed: SUBSET Fields]

ASSUME NoneAssumption ==
    /\ None \notin Rows /\ None \notin Drafts /\ None \notin Writers /\ None \notin {"asked", "read"}
    /\ \A S \in SUBSET Ids : None \notin [S -> Rows]

VARIABLES
    plan,       \* the operations people have in mind, the phones in use, ...
    rows,       \* resource_camps
    handler,    \* how far the backend is with each attempt of an operation
    op,         \* where its desk is with an operation
    attempt,    \* the attempt the desk waits for
    sent,       \* what an operation asks for
    previous,   \* onMutate's context: the list to go back to
    attached,   \* the operations whose page has stayed open since they began
    page,       \* the page each viewer looks at
    cache,      \* the data of each viewer's queries
    fetch,      \* how far the request of each query is
    reply,      \* what the request has read
    invalid,    \* the queries invalidated while nobody looked at them
    editing,    \* the desks where isEditing is set
    dialog,     \* the desks with the dialog of deletion open
    confirm,    \* the desks where CONFIRM stands in it, open or not
    draft,      \* editName and editType, editLocation
    marker,     \* where the marker on the camp's map stands
    base,       \* history: the version that the page showed when its editing began
    reread,     \* history: the camp's data changed under the editor
    news,       \* events on their way to a viewer
    deaf,       \* viewers without a stream
    outdated,   \* history: data, or an answer on its way, that a change has outdated unannounced
    short,      \* history: lists, or answers on their way, that lack rows
    failed      \* history: the queries whose last request has failed

server == <<rows, handler>>
ops == <<op, attempt, sent, previous, attached>>
views == <<page, cache, fetch, reply, invalid>>
editor == <<editing, dialog, confirm, draft, marker, base, reread>>
feed == <<news, deaf>>
amiss == <<outdated, short, failed>>
vars == <<plan, server, ops, views, editor, feed, amiss>>

Exists == {i \in Ids : rows[i] # None}
Has(v, k) == cache[v][k] # None

\* GetCampsService, GetCampByIDService.
Truth(k) == IF k = "list" THEN [i \in Exists |-> rows[i]] ELSE rows[k]

\* The page on display reads through one query, and shows camps once that has data.
Watches(v, k) == page[v] = k
Displays(v, k) == Watches(v, k) /\ Has(v, k)

Open == plan.phones \union {DeskOf[e] : e \in plan.ops}
Start == [v \in Viewers |-> IF v \in plan.phones THEN "list"
                           ELSE IF v \in Open THEN plan.start ELSE "closed"]

Init ==
    /\ plan \in Plans
    /\ rows = [i \in Ids |-> IF i \in Given
                             THEN [entry |-> "given", place |-> "given", stock |-> "given", version |-> 0]
                             ELSE None]
    /\ handler = [e \in Ops |-> [a \in Attempts |-> "none"]]
    /\ op = [e \in Ops |-> "idle"]
    /\ attempt = [e \in Ops |-> 1]
    /\ sent = [e \in Ops |-> None]
    /\ previous = [e \in Ops |-> None]
    /\ attached = {}
    /\ page = Start
    /\ cache = [v \in Viewers |-> [k \in Keys |-> None]]
    /\ fetch = [v \in Viewers |-> [k \in Keys |-> IF Start[v] = k THEN "asked" ELSE None]]
    /\ reply = [v \in Viewers |-> [k \in Keys |-> None]]
    /\ invalid = {}
    /\ editing = {}
    /\ dialog = {}
    /\ confirm = {}
    /\ draft = [d \in Desks |-> None]
    /\ marker = [d \in Desks |-> None]
    /\ base = [d \in Desks |-> 0]
    /\ reread = {}
    /\ news = [v \in Viewers |-> 0]
    /\ deaf = {}
    /\ outdated = {} /\ short = {} /\ failed = {}

-----------------------------------------------------------------------------
(***************************************************************************)
(* Queries: what a change leaves behind, invalidation, requests.           *)
(***************************************************************************)

Loaded == {q \in Viewers \X Keys : Has(q[1], q[2]) \/ reply[q[1]][q[2]] # None}

\* The list is going to be asked for because of what has happened: an event is due or on its
\* way, or an operation of this desk ends with invalidating it.
Owed(v, k) ==
    /\ k = "list"
    /\ \/ news[v] > 0
       \/ v \notin deaf /\ \E e \in Ops, a \in Attempts : handler[e][a] = "applied"
       \/ \E e \in Ops : DeskOf[e] = v /\ KindOf[e] \in {"stock", "create"} /\ op[e] = "waiting"

Outdate ==
    /\ outdated' = outdated \union
        {q \in Loaded : /\ fetch[q[1]][q[2]] # "asked"
                        /\ ~Owed(q[1], q[2])'
                        /\ Owed(q[1], q[2]) \/ Truth(q[2])' # Truth(q[2])}
    /\ UNCHANGED <<short, failed>>

\* A query is asked for, or asked for again.
Ask(v, k) ==
    /\ fetch' = [fetch EXCEPT ![v][k] = "asked"]
    /\ reply' = [reply EXCEPT ![v][k] = None]
    /\ invalid' = invalid \ {<<v, k>>}
    /\ outdated' = outdated \ {<<v, k>>}
    /\ short' = short \ {<<v, k>>}
    /\ failed' = failed \ {<<v, k>>}

\* invalidateQueries.  A query on display is asked for again, unless its first answer is still
\* to come, which counts as new; another one is marked, and an answer that comes erases the mark.
Invalidate(v, k) ==
    \/ Watches(v, k) /\ (Has(v, k) \/ fetch[v][k] = None) /\ Ask(v, k)
    \/ /\ ~(Watches(v, k) /\ (Has(v, k) \/ fetch[v][k] = None))
       /\ invalid' = IF Has(v, k) THEN invalid \union {<<v, k>>} ELSE invalid
       /\ outdated' = IF fetch[v][k] = "read" THEN outdated \union {<<v, k>>} ELSE outdated
       /\ UNCHANGED <<fetch, reply, short, failed>>

\* A page opens.  What its query holds is shown at once; it is asked for when there is nothing,
\* when it was invalidated, or when it is older than staleTime.
Mount(v, k) ==
    \/ /\ k \in Keys /\ fetch[v][k] = None
       /\ ~Has(v, k) \/ <<v, k>> \in invalid \union outdated \union failed \/ "focus" \in plan.may
       /\ Ask(v, k)
    \/ /\ k \in Keys => fetch[v][k] # None \/ (Has(v, k) /\ <<v, k>> \notin invalid)
       /\ UNCHANGED <<fetch, reply, invalid, amiss>>

\* The data is old and the window gets the focus, say.
Refetch(v, k) ==
    /\ "focus" \in plan.may
    /\ Watches(v, k)
    /\ fetch[v][k] = None
    /\ Ask(v, k)
    /\ UNCHANGED <<plan, server, ops, page, cache, editor, feed>>

\* GetCampsService, GetCampByIDService: one SELECT.  rows.Err() is not asked for: of a result
\* that ends early the rows that came are answered, with 200.  A camp that is gone is an error.
Read(v, k) ==
    /\ fetch[v][k] = "asked"
    /\ Truth(k) # None
    /\ fetch' = [fetch EXCEPT ![v][k] = "read"]
    /\ \/ /\ reply' = [reply EXCEPT ![v][k] = Truth(k)]
          /\ UNCHANGED short
       \/ /\ k = "list" /\ "load" \in plan.may
          /\ \E part \in (SUBSET Exists) \ {Exists} :
                reply' = [reply EXCEPT ![v][k] = [i \in part |-> rows[i]]]
          /\ short' = short \union {<<v, k>>}
    /\ UNCHANGED <<plan, server, ops, page, cache, invalid, editor, feed, outdated, failed>>

\* An error, twice: the query keeps its data.
LoadFails(v, k) ==
    /\ fetch[v][k] # None
    /\ "load" \in plan.may \/ Truth(k) = None
    /\ fetch' = [fetch EXCEPT ![v][k] = None]
    /\ reply' = [reply EXCEPT ![v][k] = None]
    /\ failed' = failed \union {<<v, k>>}
    /\ UNCHANGED <<plan, server, ops, page, cache, invalid, editor, feed, outdated, short>>

------------------------------------------------------------------------------
(***************************************************************************)
(* The backend.                                                            *)
(***************************************************************************)

Told(e) == KindOf[e] \in {"stock", "create"}    \* CAMP_UPDATED, CAMP_DELETED: no page listens

\* One statement.  An UPDATE or a DELETE of a camp that is gone changes nothing and succeeds.
Statement(e, a) ==
    LET c == sent[e]
    IN  rows' = CASE KindOf[e] = "create" ->
                        [rows EXCEPT ![CampOf[<<e, a>>]] =
                            [entry |-> e, place |-> e, stock |-> "given", version |-> 0]]
                  [] KindOf[e] # "create" /\ rows[c.camp] = None -> rows
                  [] KindOf[e] = "stock" /\ rows[c.camp] # None -> [rows EXCEPT ![c.camp].stock = e]
                  [] KindOf[e] = "delete" /\ rows[c.camp] # None -> [rows EXCEPT ![c.camp] = None]
                  [] KindOf[e] = "save" /\ rows[c.camp] # None ->
                        [rows EXCEPT ![c.camp] = [entry |-> c.entry, place |-> c.place,
                                                  stock |-> @.stock, version |-> @.version + 1]]

Handle(e, a) ==
    /\ handler[e][a] = "asked"
    /\ Statement(e, a)
    /\ handler' = [handler EXCEPT ![e][a] = IF Told(e) THEN "applied" ELSE "done"]
    /\ UNCHANGED <<plan, ops, views, editor, feed>>
    /\ Outdate

Publish(e, a) ==
    /\ handler[e][a] = "applied"
    /\ handler' = [handler EXCEPT ![e][a] = "done"]
    /\ news' = [v \in Viewers |-> IF v \in Open \ deaf THEN news[v] + 1 ELSE news[v]]
    /\ UNCHANGED <<plan, rows, ops, views, editor, deaf>>
    /\ Outdate

\* The request does not arrive, or its statement fails.
StatementFails(e, a) ==
    /\ "server" \in plan.may
    /\ handler[e][a] = "asked"
    /\ handler' = [handler EXCEPT ![e][a] = "failed"]
    /\ UNCHANGED <<plan, rows, ops, views, editor, feed, amiss>>

\* The process stops before it publishes.
HandlerDies(e, a) ==
    /\ "server" \in plan.may
    /\ handler[e][a] = "applied"
    /\ handler' = [handler EXCEPT ![e][a] = "failed"]
    /\ UNCHANGED <<plan, rows, ops, views, editor, feed>>
    /\ Outdate

\* The answer is lost.  The handler may not even have begun.
Answered(e) == op[e] = "waiting" /\ handler[e][attempt[e]] = "done"
Refused(e) == op[e] = "waiting" /\ ("network" \in plan.may \/ handler[e][attempt[e]] = "failed")

-----------------------------------------------------------------------------
(***************************************************************************)
(* The stream.                                                             *)
(***************************************************************************)

OnMessage(v) ==
    /\ news[v] > 0
    /\ news' = [news EXCEPT ![v] = @ - 1]
    /\ Invalidate(v, "list")
    /\ UNCHANGED <<plan, server, ops, page, cache, editor, deaf>>

StreamBreaks(v) ==
    /\ "stream" \in plan.may
    /\ v \in Open \ deaf
    /\ deaf' = deaf \union {v}
    /\ news' = [news EXCEPT ![v] = 0]
    /\ UNCHANGED <<plan, server, ops, views, editor>>
    /\ Outdate

\* A phone's EventSource connects again; the portal has closed its own.
Reconnect(p) ==
    /\ p \in deaf \ Desks
    /\ deaf' = deaf \ {p}
    /\ UNCHANGED <<plan, server, ops, views, editor, news, amiss>>

-----------------------------------------------------------------------------
(***************************************************************************)
(* The list and its stock selector.                                        *)
(***************************************************************************)

May(e, kind) == e \in plan.ops /\ KindOf[e] = kind /\ op[e] = "idle"

Begin(e, a, what) ==
    /\ op' = [op EXCEPT ![e] = "waiting"]
    /\ attempt' = [attempt EXCEPT ![e] = a]
    /\ handler' = [handler EXCEPT ![e][a] = "asked"]
    /\ sent' = [sent EXCEPT ![e] = what]

End(e, how) ==
    /\ op' = [op EXCEPT ![e] = how]
    /\ UNCHANGED <<plan, server, attempt, sent, previous, feed>>

\* LogisticsPage: every camp of the list can be given another stock status.
Listed(d) == IF Displays(d, "list") THEN DOMAIN cache[d]["list"] ELSE {}

\* The select of a row: at any time, also while an earlier change of the row is on its way.
MaySelect(d, e, i) == May(e, "stock") /\ DeskOf[e] = d /\ i \in Listed(d)

\* onMutate: a request for the list is dropped, the list is kept, and shown as it is going to be.
UpdateStock(d, e, i) ==
    /\ MaySelect(d, e, i)
    /\ Begin(e, 1, [camp |-> i])
    /\ fetch' = [fetch EXCEPT ![d]["list"] = None]
    /\ reply' = [reply EXCEPT ![d]["list"] = None]
    /\ previous' = [previous EXCEPT ![e] = cache[d]["list"]]
    /\ cache' = [cache EXCEPT ![d]["list"][i].stock = e]
    /\ UNCHANGED <<plan, rows, attached, page, invalid, editor, feed, amiss>>

\* retry: 1.
StockRetried(e) ==
    /\ KindOf[e] = "stock" /\ Refused(e) /\ attempt[e] = 1
    /\ Begin(e, 2, sent[e])
    /\ UNCHANGED <<plan, rows, previous, attached, views, editor, feed, amiss>>

\* Mutant of the next action: onSettled does not invalidate the list.
StockFailsQuietly(d, e) ==
    /\ KindOf[e] = "stock" /\ DeskOf[e] = d /\ Refused(e) /\ attempt[e] = 2
    /\ End(e, "failed")
    /\ cache' = [cache EXCEPT ![d]["list"] = previous[e]]
    /\ UNCHANGED <<attached, page, fetch, reply, invalid, amiss, editor>>

\* onError and onSettled.
StockFails(d, e) ==
    /\ KindOf[e] = "stock" /\ DeskOf[e] = d /\ Refused(e) /\ attempt[e] = 2
    /\ End(e, "failed")
    /\ cache' = [cache EXCEPT ![d]["list"] = previous[e]]
    /\ Invalidate(d, "list")
    /\ UNCHANGED <<attached, page, editor>>

StockUpdated(d, e) ==
    /\ KindOf[e] = "stock" /\ DeskOf[e] = d /\ Answered(e)
    /\ End(e, "ok")
    /\ Invalidate(d, "list")
    /\ UNCHANGED <<attached, page, cache, editor>>

-----------------------------------------------------------------------------
(***************************************************************************)
(* The page of one camp.                                                   *)
(***************************************************************************)

Visible(row) == [entry |-> row.entry, place |-> row.place, stock |-> row.stock]
Entered(row) == [entry |-> row.entry, place |-> row.place, typed |-> {}]
OnCamp(d) == page[d] \in Ids /\ Displays(d, page[d])

\* What the page shows of the camp: the fields while they are being edited.
Shown(d) == IF d \in editing THEN [entry |-> draft[d].entry, place |-> draft[d].place]
            ELSE LET row == cache[d][page[d]] IN [entry |-> row.entry, place |-> row.place]

\* The effects on [camp, isEditing]: the fields follow the camp unless they are being edited;
\* the map is made anew, with its marker where the camp is.
Effects(d, k, row, edits) ==
    /\ draft' = IF edits THEN draft ELSE [draft EXCEPT ![d] = Entered(row)]
    /\ marker' = [marker EXCEPT ![d] = row.place]
    /\ reread' = IF edits THEN reread \union {d} ELSE reread \ {d}

\* A query's answer.  Data that have not changed keep their identity.
Apply(v, k) ==
    /\ fetch[v][k] = "read"
    /\ cache' = [cache EXCEPT ![v][k] = reply[v][k]]
    /\ fetch' = [fetch EXCEPT ![v][k] = None]
    /\ reply' = [reply EXCEPT ![v][k] = None]
    /\ invalid' = invalid \ {<<v, k>>}
    /\ IF k \in Ids /\ Watches(v, k) /\ ~(Has(v, k) /\ Visible(cache[v][k]) = Visible(reply[v][k]))
       THEN Effects(v, k, reply[v][k], v \in editing)
       ELSE UNCHANGED <<draft, marker, reread>>
    /\ UNCHANGED <<plan, server, ops, page, editing, dialog, confirm, base, feed, amiss>>

Close(d) ==
    /\ editing' = editing \ {d}
    /\ dialog' = dialog \ {d}
    /\ confirm' = confirm \ {d}
    /\ attached' = {e \in attached : DeskOf[e] # d}
    /\ base' = [base EXCEPT ![d] = 0]

\* Mutant of the next operator: the page's state outlives the page.
GoToKeepsState(d, k) ==
    /\ page' = [page EXCEPT ![d] = k]
    /\ Mount(d, k)
    /\ UNCHANGED <<attached, editor>>

\* The router leaves a page, with its state, and opens another.
GoTo(d, k) ==
    /\ page' = [page EXCEPT ![d] = k]
    /\ Close(d)
    /\ IF k \in Ids /\ Has(d, k)
       THEN Effects(d, k, cache[d][k], FALSE)
       ELSE /\ draft' = [draft EXCEPT ![d] = None]
            /\ marker' = [marker EXCEPT ![d] = None]
            /\ reread' = reread \ {d}
    /\ Mount(d, k)

\* The side bar, the links of the list, the way back.
Navigate(d, k) ==
    /\ page[d] \notin {k, "closed"}
    /\ k \in plan.pages
    /\ k \in Ids /\ page[d] = "list" => k \in Listed(d)
    /\ GoTo(d, k)
    /\ UNCHANGED <<plan, server, op, attempt, sent, previous, cache, feed>>

Edit(d) ==
    /\ OnCamp(d) /\ d \notin editing
    /\ editing' = editing \union {d}
    /\ base' = [base EXCEPT ![d] = cache[d][page[d]].version]
    /\ marker' = [marker EXCEPT ![d] = cache[d][page[d]].place]
    /\ draft' = [draft EXCEPT ![d].typed = {}]
    /\ reread' = reread \ {d}
    /\ UNCHANGED <<plan, server, ops, views, dialog, confirm, feed, amiss>>

\* The name and type fields, the marker that can be dragged.
ChangeField(d, e) ==
    /\ OnCamp(d) /\ d \in editing
    /\ May(e, "save") /\ DeskOf[e] = d
    /\ \/ /\ draft' = [draft EXCEPT ![d].entry = e, ![d].typed = @ \union {"entry"}]
          /\ UNCHANGED marker
       \/ /\ draft' = [draft EXCEPT ![d].place = e, ![d].typed = @ \union {"place"}]
          /\ marker' = [marker EXCEPT ![d] = e]
    /\ UNCHANGED <<plan, server, ops, views, editing, dialog, confirm, base, reread, feed, amiss>>

\* setIsEditing(false), if it is set: the effects run with the camp that the query holds.
StopEditing(d) ==
    /\ editing' = editing \ {d}
    /\ IF d \in editing THEN Effects(d, page[d], cache[d][page[d]], FALSE)
                        ELSE UNCHANGED <<draft, marker, reread>>
    /\ base' = [base EXCEPT ![d] = 0]
    /\ UNCHANGED <<dialog, confirm>>

CancelEdit(d) ==
    /\ OnCamp(d) /\ d \in editing
    /\ StopEditing(d)
    /\ UNCHANGED <<plan, server, ops, views, feed, amiss>>

\* Mutant of the next action: what was not typed is sent as the form's default.
HandleSaveEditDefaults(d, e) ==
    /\ OnCamp(d) /\ d \in editing
    /\ May(e, "save") /\ DeskOf[e] = d
    /\ Begin(e, 1, [entry |-> IF "entry" \in draft[d].typed THEN draft[d].entry ELSE "given",
                    place |-> draft[d].place, typed |-> draft[d].typed, camp |-> page[d],
                    base |-> base[d]])
    /\ attached' = attached \union {e}
    /\ UNCHANGED <<plan, rows, previous, views, editor, feed, amiss>>

\* PUT, which writes every field.  The editor stays open until the answer comes.
HandleSaveEdit(d, e) ==
    /\ OnCamp(d) /\ d \in editing
    /\ May(e, "save") /\ DeskOf[e] = d
    /\ Begin(e, 1, [entry |-> draft[d].entry, place |-> draft[d].place, typed |-> draft[d].typed,
                    camp |-> page[d], base |-> base[d]])
    /\ attached' = attached \union {e}
    /\ UNCHANGED <<plan, rows, previous, views, editor, feed, amiss>>

\* setIsEditing(false) comes before the camp is asked for: the fields show the former values.
Saved(d, e) ==
    /\ KindOf[e] = "save" /\ DeskOf[e] = d /\ Answered(e)
    /\ End(e, "ok")
    /\ IF e \in attached THEN StopEditing(d) ELSE UNCHANGED editor
    /\ Invalidate(d, sent[e].camp)
    /\ UNCHANGED <<attached, page, cache>>

\* The dialog's text outlives the dialog.
OpenDialog(d) ==
    /\ OnCamp(d) /\ d \notin editing \union dialog
    /\ \E e \in Ops : May(e, "delete") /\ DeskOf[e] = d
    /\ dialog' = dialog \union {d}
    /\ UNCHANGED <<plan, server, ops, views, editing, confirm, draft, marker, base, reread, feed, amiss>>

TypeConfirm(d) ==
    /\ d \in dialog \ confirm
    /\ confirm' = confirm \union {d}
    /\ UNCHANGED <<plan, server, ops, views, editing, dialog, draft, marker, base, reread, feed, amiss>>

CloseDialog(d) ==
    /\ d \in dialog
    /\ dialog' = dialog \ {d}
    /\ UNCHANGED <<plan, server, ops, views, editing, confirm, draft, marker, base, reread, feed, amiss>>

HandleDelete(d, e) ==
    /\ d \in dialog \intersect confirm
    /\ May(e, "delete") /\ DeskOf[e] = d
    /\ Begin(e, 1, [camp |-> page[d]])
    /\ attached' = attached \union {e}
    /\ UNCHANGED <<plan, rows, previous, views, editor, feed, amiss>>

\* navigate opens the list from whatever page is open by then.
Deleted(d, e) ==
    /\ KindOf[e] = "delete" /\ DeskOf[e] = d /\ Answered(e)
    /\ End(e, "ok")
    /\ IF page[d] # "list"
       THEN GoTo(d, "list")
       ELSE UNCHANGED <<attached, page, fetch, reply, invalid, amiss, editing, dialog, confirm,
                        draft, marker, base, reread>>
    /\ UNCHANGED cache

\* A PUT or a DELETE that fails leaves the page as it is.
EditFails(e) ==
    /\ KindOf[e] \in {"save", "delete"} /\ Refused(e)
    /\ End(e, "failed")
    /\ UNCHANGED <<attached, views, editor, amiss>>

-----------------------------------------------------------------------------
(***************************************************************************)
(* The page of a new camp.                                                 *)
(***************************************************************************)

\* isSubmitting.
Submitting(d) == \E e \in attached : DeskOf[e] = d /\ op[e] \in {"waiting", "landing"}

\* The form, whose place is set by the fields and by a click on the map alike, with its button:
\* not while a submission is under way.
MayDeploy(d, e) == page[d] = "new" /\ DeskOf[e] = d /\ KindOf[e] = "create" /\ ~Submitting(d)

\* Again when the first submission has failed and the form is still there.
Deploy(d, e) ==
    /\ MayDeploy(d, e)
    /\ \/ May(e, "create") /\ Begin(e, 1, None)
       \/ op[e] = "failed" /\ attempt[e] = 1 /\ e \in attached /\ Begin(e, 2, None)
    /\ attached' = attached \union {e}
    /\ UNCHANGED <<plan, rows, previous, views, editor, feed, amiss>>

DeployFails(e) ==
    /\ KindOf[e] = "create" /\ Refused(e)
    /\ End(e, "failed")
    /\ UNCHANGED <<attached, views, editor>>
    /\ Outdate

Deployed(d, e) ==
    /\ KindOf[e] = "create" /\ DeskOf[e] = d /\ Answered(e)
    /\ End(e, "landing")
    /\ Invalidate(d, "list")
    /\ UNCHANGED <<attached, page, cache, editor>>

\* invalidateQueries is awaited, then the list opens, whatever page is open by then.
Land(d, e) ==
    /\ op[e] = "landing" /\ DeskOf[e] = d
    /\ Watches(d, "list") => fetch[d]["list"] = None
    /\ End(e, "ok")
    /\ IF page[d] # "list"
       THEN GoTo(d, "list")
       ELSE UNCHANGED <<attached, page, fetch, reply, invalid, amiss, editing, dialog, confirm,
                        draft, marker, base, reread>>
    /\ UNCHANGED cache

-----------------------------------------------------------------------------
Next ==
    \/ \E v \in Viewers, k \in Keys : Refetch(v, k) \/ Read(v, k) \/ LoadFails(v, k) \/ Apply(v, k)
    \/ \E e \in Ops, a \in Attempts :
        Handle(e, a) \/ Publish(e, a) \/ StatementFails(e, a) \/ HandlerDies(e, a)
    \/ \E v \in Viewers : OnMessage(v) \/ StreamBreaks(v) \/ Reconnect(v)
    \/ \E e \in Ops : StockRetried(e) \/ EditFails(e) \/ DeployFails(e)
    \/ \E d \in Desks, e \in plan.ops :
        \/ \E i \in Ids : UpdateStock(d, e, i)
        \/ StockFails(d, e) \/ StockUpdated(d, e)
        \/ ChangeField(d, e) \/ HandleSaveEdit(d, e) \/ Saved(d, e)
        \/ HandleDelete(d, e) \/ Deleted(d, e)
        \/ Deploy(d, e) \/ Deployed(d, e) \/ Land(d, e)
    \/ \E d \in Desks, k \in Keys \union {"away"} : Navigate(d, k)
    \/ \E d \in Desks : Edit(d) \/ CancelEdit(d) \/ OpenDialog(d) \/ TypeConfirm(d) \/ CloseDialog(d)

Spec == Init /\ [][Next]_vars

-----------------------------------------------------------------------------
Pages == Keys \union {"away", "new", "closed"}

\* What a query may hold once it holds anything.
IsList(x) == \E S \in SUBSET Ids : x \in [S -> Rows]
IsData(k, x) == IF k = "list" THEN IsList(x) ELSE x \in Rows

\* What an operation that has begun asks for.
Asks(e) ==
    CASE KindOf[e] = "create" -> {None}
      [] KindOf[e] = "save" -> [entry: Writers, place: Writers, typed: SUBSET Fields, camp: Ids, base: Nat]
      [] KindOf[e] \in {"stock", "delete"} -> [camp: Ids]

TypeOK ==
    /\ plan \in Plans
    /\ rows \in [Ids -> {None} \union Rows]
    /\ handler \in [Ops -> [Attempts -> {"none", "asked", "applied", "done", "failed"}]]
    /\ op \in [Ops -> {"idle", "waiting", "landing", "ok", "failed"}]
    /\ attempt \in [Ops -> Attempts]
    /\ \A e \in Ops : /\ op[e] = "idle" => handler[e][1] = "none" /\ attempt[e] = 1
                      /\ attempt[e] = 1 => handler[e][2] = "none"
                      /\ op[e] # "idle" => sent[e] \in Asks(e)
                      /\ op[e] = "landing" => KindOf[e] = "create"
                      /\ KindOf[e] = "stock" /\ op[e] # "idle" => IsList(previous[e]) /\ Has(DeskOf[e], "list")
    /\ sent = [e \in Ops |-> sent[e]] /\ previous = [e \in Ops |-> previous[e]]
    /\ attached \subseteq Ops
    /\ page \in [Viewers -> Pages]
    /\ cache = [v \in Viewers |-> [k \in Keys |-> cache[v][k]]]
    /\ fetch \in [Viewers -> [Keys -> {None, "asked", "read"}]]
    /\ reply = [v \in Viewers |-> [k \in Keys |-> reply[v][k]]]
    /\ \A v \in Viewers, k \in Keys : /\ Has(v, k) => IsData(k, cache[v][k])
                                      /\ reply[v][k] # None => IsData(k, reply[v][k])
                                      /\ reply[v][k] # None <=> fetch[v][k] = "read"
    /\ invalid \subseteq Viewers \X Keys /\ outdated \subseteq Viewers \X Keys
    /\ short \subseteq Viewers \X {"list"} /\ failed \subseteq Viewers \X Keys
    /\ editing \subseteq {d \in Desks : OnCamp(d)} /\ dialog \subseteq {d \in Desks : OnCamp(d)}
    /\ confirm \subseteq Desks /\ reread \subseteq Desks
    /\ draft \in [Desks -> {None} \union Drafts]
    /\ marker \in [Desks -> {None} \union Writers]
    /\ \A d \in Desks : OnCamp(d) => draft[d] # None /\ marker[d] # None
    /\ base \in [Desks -> Nat]
    /\ news \in [Viewers -> Nat]
    /\ deaf \subseteq Viewers

\* useAdminData.ts:40-61: whatever desks change at once, with whatever rollbacks, and whatever
\* answers come late, what a page shows is what the table holds, unless the page is about to
\* learn better, a change was never announced to it, or its last request failed, which leaves
\* it as it was.  A list that was cut short lacks rows, but has none that the table does not hold.
Reflects(v, k, data) ==
    IF <<v, k>> \in short
    THEN \E part \in SUBSET Exists : data = [i \in part |-> rows[i]]
    ELSE data = Truth(k)

ViewsFollow ==
    \A v \in Viewers, k \in Keys :
        /\ Displays(v, k) /\ fetch[v][k] = None
        /\ <<v, k>> \notin outdated \union failed /\ ~Owed(v, k)
        => Reflects(v, k, cache[v][k])

\* logistics.$id.tsx:61-105: fields, marker and what is shown agree with each other and, outside
\* an edit, with the camp; only data that change under an edit part the marker from what will
\* be saved.
EditorIsWhatItSaves ==
    \A d \in Desks : OnCamp(d) =>
        /\ Shown(d).entry = draft[d].entry /\ Shown(d).place = draft[d].place
        /\ d \in editing \intersect reread \/ marker[d] = draft[d].place

\* What the desks' pages show is what the backend has, and what their editors would save.
PagesFollow == ViewsFollow /\ EditorIsWhatItSaves

\* logistics.$id.tsx:107-113 sends every field: a field that its user has not touched is
\* overwritten only if somebody has saved the camp since the page had its data.
SaveUndoesOnlyUnseen ==
    [][\A e \in Ops, i \in Ids :
        /\ KindOf[e] = "save" /\ handler[e][1] = "asked" /\ handler'[e][1] = "done"
        /\ sent[e].camp = i /\ rows[i] # None /\ sent[e].base = rows[i].version
        => \A f \in Fields \ sent[e].typed : rows'[i][f] = rows[i][f]]_vars
=============================================================================
