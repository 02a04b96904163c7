----------------------------- MODULE SosSignals -----------------------------
(***************************************************************************)
(* The life of an SOS signal: the citizen's phone that triggers, follows   *)
(* and resolves it (SosButton.tsx, __root.tsx, useSSE.ts), the backend     *)
(* handlers (emergency/service.go) and the responders' desks (the admin    *)
(* portal's sos.tsx).                                                      *)
(*                                                                         *)
(* Signals are numbered in the order their rows are inserted, 0 is "no     *)
(* signal".  A long press of the button and a status update are requests,  *)
(* each made once.  The event stream is reduced to what a phone uses: an   *)
(* SOS_UPDATED event reaches the phones that are connected when it is      *)
(* published (SseHub), and is lost to a phone that is reconnecting.        *)
(***************************************************************************)
EXTENDS Naturals, Sequences, FiniteSets

CONSTANTS
    Phones,     \* pages of the citizen application
    UserOf,     \* [Phones -> user signed in there], or "anonymous"
    Desks,      \* pages of the admin portal
    Holds,      \* long presses of the SOS button
    Updates,    \* PATCH requests that set a status
    ActorOf,    \* [Updates -> Phones \union Desks]
    Faults      \* which failures a run explores

AllFaults == {"network", "crash", "db_error", "reload", "expiry"}

ASSUME SosAssumption ==
    /\ ActorOf \in [Updates -> Phones \union Desks]
    /\ Phones \intersect Desks = {}
    /\ Holds \intersect Updates = {}
    /\ Faults \subseteq AllFaults

VARIABLES
    owner,      \* sos_signals.citizen_id of each row, "anonymous" for NULL
    by,         \* history: the phone whose press raised it
    status,     \* sos_signals.status
    known,      \* history: how many rows the SELECT saw that found none open
    had,        \* history: the statuses each signal has had
    reopened,   \* history: the signals that left status 'resolved'
    hold,       \* where the handler of each POST is
    from,       \* the phone that made it
    caller,     \* the user its access token names to OptionalAuth, or "anonymous"
    horizon,    \* history: how many rows its SELECT saw
    result,     \* the id it answers
    update,     \* where the handler of each PATCH is
    target,     \* the signal it is for
    value,      \* the status it sets
    retried,    \* the PATCHes that were sent a second time
    waiting,    \* the requests whose answer a page still waits for
    sos,        \* activeSosId of each phone
    shown,      \* activeSosStatus
    lookups,    \* the GETs of a signal a phone has in flight
    listening,  \* the phones whose event stream is registered at the hub
    inbox       \* the SOS_UPDATED events on their way to each phone

rows     == <<owner, by, status, known, had, reopened>>
posts    == <<hold, from, caller, horizon, result>>
patches  == <<update, target, value, retried>>
phone    == <<sos, shown, lookups, listening, inbox>>
vars == <<owner, by, status, known, had, reopened, hold, from, caller, horizon, result, update,
          target, value, retried, waiting, sos, shown, lookups, listening, inbox>>

Signals == 1..Len(owner)
Statuses == {"active", "acknowledged", "resolved"}
OpenStatuses == {"active", "acknowledged"}
Open(s) == status[s] \in OpenStatuses

\* The requests a phone waits for.
Own(p) == {h \in Holds : from[h] = p} \union {u \in Updates : ActorOf[u] = p}

-----------------------------------------------------------------------------
Init ==
    /\ owner = <<>>
    /\ by = <<>>
    /\ status = <<>>
    /\ known = <<>>
    /\ had = <<>>
    /\ reopened = {}
    /\ hold = [h \in Holds |-> "idle"]
    /\ from = [h \in Holds |-> "nobody"]
    /\ caller = [h \in Holds |-> "anonymous"]
    /\ horizon = [h \in Holds |-> 0]
    /\ result = [h \in Holds |-> 0]
    /\ update = [u \in Updates |-> "idle"]
    /\ target = [u \in Updates |-> 0]
    /\ value = [u \in Updates |-> "active"]
    /\ retried = {}
    /\ waiting = {}
    /\ sos = [p \in Phones |-> 0]
    /\ shown = [p \in Phones |-> "none"]
    /\ lookups = [p \in Phones |-> {}]
    /\ listening = {}
    /\ inbox = [p \in Phones |-> <<>>]

-----------------------------------------------------------------------------
(***************************************************************************)
(* The phone's store.  A change of activeSosId runs two effects: the       *)
(* signal is looked up, and the event stream is closed and opened anew.    *)
(***************************************************************************)
Lookup(s) == [id |-> s, answer |-> "none"]

\* setActiveSos(s, st)
SetActiveSos(p, s, st, others) ==
    /\ sos' = [sos EXCEPT ![p] = s]
    /\ shown' = [shown EXCEPT ![p] = st]
    /\ IF s = sos[p]
       THEN lookups' = [lookups EXCEPT ![p] = others] /\ UNCHANGED <<listening, inbox>>
       ELSE /\ lookups' = [lookups EXCEPT ![p] = others \union {Lookup(s)}]
            /\ listening' = listening \ {p}
            /\ inbox' = [inbox EXCEPT ![p] = <<>>]

\* Mutant: the status is left behind.
ClearsId(p, others) ==
    /\ sos' = [sos EXCEPT ![p] = 0]
    /\ UNCHANGED shown
    /\ lookups' = [lookups EXCEPT ![p] = others]
    /\ listening' = IF sos[p] = 0 THEN listening ELSE listening \ {p}
    /\ inbox' = IF sos[p] = 0 THEN inbox ELSE [inbox EXCEPT ![p] = <<>>]

\* clearActiveSos()
ClearActiveSos(p, others) ==
    /\ sos' = [sos EXCEPT ![p] = 0]
    /\ shown' = [shown EXCEPT ![p] = "none"]
    /\ lookups' = [lookups EXCEPT ![p] = others]
    /\ listening' = IF sos[p] = 0 THEN listening ELSE listening \ {p}
    /\ inbox' = IF sos[p] = 0 THEN inbox ELSE [inbox EXCEPT ![p] = <<>>]

-----------------------------------------------------------------------------
(***************************************************************************)
(* Triggering: SosButton's long press and CreateSOSService.                *)
(***************************************************************************)

\* Whose request a press on p is.  One whose access token has expired passes as
\* anonymous: there is no 401 that would make the client refresh, and the press of a
\* signed-in phone is nobody's.
OptionalAuth(p) == {UserOf[p]} \union (IF "expiry" \in Faults THEN {"anonymous"} ELSE {})

\* A press that will last long enough begins while no SOS is active; nothing is
\* checked again when its timer sends the POST.  The finger may be lifted and press
\* again while the POST is in flight.
Trigger(p, h) ==
    /\ hold[h] = "idle"
    /\ sos[p] = 0
    /\ from' = [from EXCEPT ![h] = p]
    /\ \E user \in OptionalAuth(p) : caller' = [caller EXCEPT ![h] = user]
    /\ hold' = [hold EXCEPT ![h] = "posted"]
    /\ waiting' = waiting \union {h}
    /\ UNCHANGED <<rows, horizon, result, patches, phone>>

\* Mutant: a signal that was acknowledged does not count as open.
ActiveOf(h) == {s \in Signals : owner[s] = caller[h] /\ status[s] = "active"}

\* Mutant: the open signal of whichever citizen.
OpenOfAnyone(h) == {s \in Signals : Open(s)}

\* SELECT id FROM sos_signals WHERE citizen_id = $1 AND status IN (...)
OpenOf(h) == {s \in Signals : owner[s] = caller[h] /\ Open(s)}

\* One of them is the answer.
SelectFinds(h) ==
    /\ hold[h] = "posted"
    /\ caller[h] # "anonymous"
    /\ \E s \in OpenOf(h) : result' = [result EXCEPT ![h] = s]
    /\ hold' = [hold EXCEPT ![h] = "answered"]
    /\ UNCHANGED <<rows, from, caller, horizon, patches, waiting, phone>>

\* There is none, or the query failed; nobody asks for an anonymous caller.
SelectNone(h) ==
    /\ hold[h] = "posted"
    /\ \/ /\ caller[h] # "anonymous"
          /\ OpenOf(h) = {}
          /\ horizon' = [horizon EXCEPT ![h] = Len(owner)]
       \/ /\ caller[h] = "anonymous" \/ "db_error" \in Faults
          /\ UNCHANGED horizon
    /\ hold' = [hold EXCEPT ![h] = "insert"]
    /\ UNCHANGED <<rows, from, caller, result, patches, waiting, phone>>

\* INSERT, then SOS_CREATED is published: it makes the desks refetch their lists.
Insert(h) ==
    /\ hold[h] = "insert"
    /\ owner' = Append(owner, caller[h])
    /\ by' = Append(by, from[h])
    /\ status' = Append(status, "active")
    /\ known' = Append(known, horizon[h])
    /\ had' = Append(had, {"active"})
    /\ result' = [result EXCEPT ![h] = Len(owner) + 1]
    /\ hold' = [hold EXCEPT ![h] = "answered"]
    /\ UNCHANGED <<reopened, from, caller, horizon, patches, waiting, phone>>

\* The INSERT fails.
HoldFails(h) ==
    /\ "db_error" \in Faults
    /\ hold[h] = "insert"
    /\ hold' = [hold EXCEPT ![h] = "failed"]
    /\ UNCHANGED <<rows, from, caller, horizon, result, patches, waiting, phone>>

\* setActiveSos(res.id, 'active'), whatever the signal's status is.
Triggered(h) ==
    /\ hold[h] = "answered"
    /\ h \in waiting
    /\ waiting' = waiting \ {h}
    /\ SetActiveSos(from[h], result[h], "active", lookups[from[h]])
    /\ UNCHANGED <<rows, posts, patches>>

-----------------------------------------------------------------------------
(***************************************************************************)
(* Updating: SosButton's resolve dialog, the desks' buttons and            *)
(* UpdateSOSStatusService.                                                 *)
(***************************************************************************)
Send(u, s, st) ==
    /\ update[u] = "idle"
    /\ update' = [update EXCEPT ![u] = "sent"]
    /\ target' = [target EXCEPT ![u] = s]
    /\ value' = [value EXCEPT ![u] = st]
    /\ waiting' = waiting \union {u}
    /\ UNCHANGED <<rows, posts, retried, phone>>

\* handleResolve; its button is disabled while isResolving.
ResolveOwn(u) ==
    /\ ActorOf[u] \in Phones
    /\ sos[ActorOf[u]] # 0
    /\ \A w \in Updates : ActorOf[w] = ActorOf[u] => w \notin waiting
    /\ Send(u, sos[ActorOf[u]], "resolved")

\* handleAction: which buttons a row has depends on its status in useAdminSOS's list,
\* as the row was when the list was last fetched (every ten seconds, after an event,
\* after an update); they are disabled while this desk has an update of it in flight.
DeskUpdates(u) ==
    /\ ActorOf[u] \in Desks
    /\ \E s \in Signals, st \in {"acknowledged", "resolved"} :
        /\ had[s] \intersect (IF st = "acknowledged" THEN {"active"} ELSE OpenStatuses) # {}
        /\ \A w \in Updates : ActorOf[w] = ActorOf[u] /\ w \in waiting => target[w] # s
        /\ Send(u, s, st)

\* A citizen may update the signals that bear their id; an anonymous caller has no
\* token and an anonymous signal no citizen.
Allowed(u) ==
    ActorOf[u] \in Phones =>
        owner[target[u]] = UserOf[ActorOf[u]] /\ owner[target[u]] # "anonymous"

\* UPDATE sos_signals SET status = $1 WHERE id = $3, whatever the status was.  The row
\* it then leaves in user_notifications is not read by anything modelled here.
UpdateRow(u) ==
    /\ update[u] = "sent"
    /\ Allowed(u)
    /\ status' = [status EXCEPT ![target[u]] = value[u]]
    /\ had' = [had EXCEPT ![target[u]] = @ \union {value[u]}]
    /\ reopened' = IF status[target[u]] = "resolved" /\ value[u] # "resolved"
                   THEN reopened \union {target[u]} ELSE reopened
    /\ update' = [update EXCEPT ![u] = "updated"]
    /\ UNCHANGED <<owner, by, known, posts, target, value, retried, waiting, phone>>

\* SOS_UPDATED is published: the hub hands it to the phones that listen.
PublishUpdate(u) ==
    /\ update[u] = "updated"
    /\ inbox' = [p \in Phones |->
                    IF p \in listening THEN Append(inbox[p], [id |-> target[u], status |-> value[u]])
                    ELSE inbox[p]]
    /\ update' = [update EXCEPT ![u] = "answered"]
    /\ UNCHANGED <<rows, posts, target, value, retried, waiting, sos, shown, lookups, listening>>

\* 401, 403 or 500.
UpdateFails(u) ==
    /\ update[u] = "sent"
    /\ ~Allowed(u) \/ "db_error" \in Faults
    /\ update' = [update EXCEPT ![u] = "failed"]
    /\ UNCHANGED <<rows, posts, target, value, retried, waiting, phone>>

\* handleResolve goes on: clearActiveSos(), whatever the active signal is by now.
ResolvedOwn(u) ==
    /\ ActorOf[u] \in Phones
    /\ update[u] = "answered"
    /\ u \in waiting
    /\ waiting' = waiting \ {u}
    /\ ClearActiveSos(ActorOf[u], lookups[ActorOf[u]])
    /\ UNCHANGED <<rows, posts, patches>>

\* The desk's row leaves processingIds.
DeskDone(u) ==
    /\ ActorOf[u] \in Desks
    /\ update[u] = "answered"
    /\ u \in waiting
    /\ waiting' = waiting \ {u}
    /\ UNCHANGED <<rows, posts, patches, phone>>

\* The admin's query client sends a mutation that failed once more (main.tsx), a
\* lost answer's when its handler has ended.
Retry(u) ==
    /\ ActorOf[u] \in Desks
    /\ u \in waiting \ retried
    /\ update[u] = "failed" \/ (update[u] = "answered" /\ "network" \in Faults)
    /\ update' = [update EXCEPT ![u] = "sent"]
    /\ retried' = retried \union {u}
    /\ UNCHANGED <<rows, posts, target, value, waiting, phone>>

\* A catch block: an error was answered or no answer arrives; a toast is shown.
Caught(x) ==
    /\ x \in waiting
    /\ x \in Updates /\ ActorOf[x] \in Desks => x \in retried
    /\ \/ x \in Holds /\ hold[x] = "failed"
       \/ x \in Updates /\ update[x] = "failed"
       \/ "network" \in Faults
    /\ waiting' = waiting \ {x}
    /\ UNCHANGED <<rows, posts, patches, phone>>

-----------------------------------------------------------------------------
(***************************************************************************)
(* Following: __root.tsx's lookup and useSSE's events.                     *)
(***************************************************************************)

\* GetSOSByIDService reads the row.
ReadStatus(p) ==
    /\ \E l \in lookups[p] :
        /\ l.answer = "none"
        /\ lookups' = [lookups EXCEPT ![p] =
                          (@ \ {l}) \union {[id |-> l.id, answer |-> status[l.id]]}]
    /\ UNCHANGED <<rows, posts, patches, waiting, sos, shown, listening, inbox>>

\* The answer is applied, whatever the active signal is by now.
ApplyLookup(p) ==
    /\ \E l \in lookups[p] :
        /\ l.answer # "none"
        /\ IF l.answer = "resolved" THEN ClearActiveSos(p, lookups[p] \ {l})
           ELSE SetActiveSos(p, l.id, l.answer, lookups[p] \ {l})
    /\ UNCHANGED <<rows, posts, patches, waiting>>

\* No answer arrives, or an error: catch(() => {}).
LookupFails(p) ==
    /\ {"network", "db_error"} \intersect Faults # {}
    /\ \E l \in lookups[p] : lookups' = [lookups EXCEPT ![p] = @ \ {l}]
    /\ UNCHANGED <<rows, posts, patches, waiting, sos, shown, listening, inbox>>

\* The EventSource's request reaches the hub.
Listen(p) ==
    /\ p \notin listening
    /\ listening' = listening \union {p}
    /\ UNCHANGED <<rows, posts, patches, waiting, sos, shown, lookups, inbox>>

\* The location changed, so the effect opens a new stream; or the connection was
\* lost and the EventSource reconnects.
Reopen(p) ==
    /\ p \in listening
    /\ listening' = listening \ {p}
    /\ inbox' = [inbox EXCEPT ![p] = <<>>]
    /\ UNCHANGED <<rows, posts, patches, waiting, sos, shown, lookups>>

\* Mutant: every signal's event is taken for one of the active signal.
OnAnyEvent(p) ==
    /\ inbox[p] # <<>>
    /\ IF sos[p] = 0
       THEN inbox' = [inbox EXCEPT ![p] = Tail(@)] /\ UNCHANGED <<sos, shown, lookups, listening>>
       ELSE ClearActiveSos(p, lookups[p])
    /\ UNCHANGED <<rows, posts, patches, waiting>>

\* source.onmessage: only events of the active signal change the store.
OnMessage(p) ==
    /\ inbox[p] # <<>>
    /\ LET e == Head(inbox[p]) IN
        IF e.id = sos[p] /\ e.status = "resolved" THEN ClearActiveSos(p, lookups[p])
        ELSE /\ shown' = IF e.id = sos[p] THEN [shown EXCEPT ![p] = e.status] ELSE shown
             /\ inbox' = [inbox EXCEPT ![p] = Tail(@)]
             /\ UNCHANGED <<sos, lookups, listening>>
    /\ UNCHANGED <<rows, posts, patches, waiting>>

\* The page is loaded anew: activeSosId and activeSosStatus are persisted, the
\* answers to what it had asked go unheard.
Reload(p) ==
    /\ "reload" \in Faults
    /\ waiting' = waiting \ Own(p)
    /\ lookups' = [lookups EXCEPT ![p] = IF sos[p] = 0 THEN {} ELSE {Lookup(sos[p])}]
    /\ listening' = listening \ {p}
    /\ inbox' = [inbox EXCEPT ![p] = <<>>]
    /\ UNCHANGED <<rows, posts, patches, sos, shown>>

\* The backend's process dies under its handlers and is started anew: the rows are
\* left as they are, what was not published is not, and every stream is lost.
Crash ==
    /\ "crash" \in Faults
    /\ hold' = [h \in Holds |-> IF hold[h] \in {"posted", "insert"} THEN "failed" ELSE hold[h]]
    /\ update' = [u \in Updates |-> IF update[u] \in {"sent", "updated"} THEN "failed" ELSE update[u]]
    /\ listening' = {}
    /\ inbox' = [p \in Phones |-> <<>>]
    /\ UNCHANGED <<rows, from, caller, horizon, result, target, value, retried, waiting, sos, shown, lookups>>

-----------------------------------------------------------------------------
CreateSOS(h) == SelectFinds(h) \/ SelectNone(h) \/ Insert(h)
UpdateSOSStatus(u) == UpdateRow(u) \/ PublishUpdate(u)

Next ==
    \/ \E h \in Holds : (\E p \in Phones : Trigger(p, h)) \/ CreateSOS(h) \/ HoldFails(h) \/ Triggered(h)
    \/ \E u \in Updates :
        \/ ResolveOwn(u) \/ DeskUpdates(u) \/ UpdateSOSStatus(u) \/ UpdateFails(u)
        \/ ResolvedOwn(u) \/ DeskDone(u) \/ Retry(u)
    \/ \E x \in Holds \union Updates : Caught(x)
    \/ Crash
    \/ \E p \in Phones :
        \/ ReadStatus(p) \/ ApplyLookup(p) \/ LookupFails(p)
        \/ Listen(p) \/ Reopen(p) \/ OnMessage(p) \/ Reload(p)

Spec == Init /\ [][Next]_vars

-----------------------------------------------------------------------------
(***************************************************************************)
(* Properties.                                                             *)
(***************************************************************************)

\* The values each variable ranges over: an id somebody holds is the id of a row,
\* and a phone shows a status exactly while it has an active signal.
SignalOrNone == 0..Len(owner)
Users == {UserOf[p] : p \in Phones} \union {"anonymous"}
TypeOK ==
    /\ owner \in Seq(Users)
    /\ by \in [Signals -> Phones]
    /\ status \in [Signals -> Statuses]
    /\ known \in [Signals -> Nat]
    /\ had \in [Signals -> SUBSET Statuses]
    /\ \A s \in Signals : status[s] \in had[s]
    /\ reopened \subseteq Signals
    /\ hold \in [Holds -> {"idle", "posted", "insert", "answered", "failed"}]
    /\ from \in [Holds -> Phones \union {"nobody"}]
    /\ caller \in [Holds -> Users]
    /\ \A h \in Holds : hold[h] # "idle" =>
        from[h] \in Phones /\ caller[h] \in {UserOf[from[h]], "anonymous"}
    /\ horizon \in [Holds -> SignalOrNone]
    /\ result \in [Holds -> SignalOrNone]
    /\ \A h \in Holds : hold[h] = "answered" => result[h] # 0
    /\ update \in [Updates -> {"idle", "sent", "updated", "answered", "failed"}]
    /\ target \in [Updates -> SignalOrNone]
    /\ \A u \in Updates : update[u] # "idle" => target[u] # 0
    /\ value \in [Updates -> Statuses]
    /\ retried \subseteq {u \in Updates : ActorOf[u] \in Desks}
    /\ waiting \subseteq Holds \union Updates
    /\ sos \in [Phones -> SignalOrNone]
    /\ shown \in [Phones -> {"none"} \union OpenStatuses]
    /\ \A p \in Phones : sos[p] = 0 <=> shown[p] = "none"
    /\ lookups \in [Phones -> SUBSET [id : Signals, answer : {"none"} \union Statuses]]
    /\ listening \subseteq Phones
    /\ inbox \in [Phones -> Seq([id : Signals, status : Statuses])]

\* A signed-in citizen has a second open signal only because the two triggers
\* overlapped; the query for open ones failed or, their token having expired, was
\* not made; a desk reopened the older one; or the older one was itself raised with
\* an expired token, so that the row does not name them.  Any other open signal is
\* answered instead of a new row (CreateSOSService, OptionalAuth).
OneOpenSos ==
    \A s, t \in Signals :
        /\ s < t /\ Open(s) /\ Open(t)
        /\ UserOf[by[s]] = UserOf[by[t]] /\ UserOf[by[t]] # "anonymous"
        => s > known[t] \/ s \in reopened \/ owner[s] = "anonymous"

\* The signals p still waits to hear about.
About(p) ==
    {l.id : l \in lookups[p]} \union {target[u] : u \in {w \in Updates : ActorOf[w] = p /\ w \in waiting}}

\* A phone stops showing its SOS only when that signal has been resolved, or when
\* a late answer about an earlier one says that one was: no event of another
\* citizen's signal, no failure and no reload hides an SOS (__root.tsx, useSSE.ts,
\* SosButton.tsx).
HiddenWhenResolved ==
    [][\A p \in Phones : sos[p] # 0 /\ sos'[p] = 0 =>
            \E s \in {sos[p]} \union About(p) : "resolved" \in had[s]]_vars

\* Signal s is of phone p: its press raised it, or the row names its user.
Mine(p, s) == by[s] = p \/ (owner[s] = UserOf[p] /\ UserOf[p] # "anonymous")

\* A phone only ever shows signals that it raised itself or that are its user's,
\* although answers come late, events of all citizens arrive on one stream, and a
\* press with an expired token is anonymous like any other citizen's.
ShowsOwnSos ==
    \A p \in Phones : sos[p] # 0 => Mine(p, sos[p])
=============================================================================
