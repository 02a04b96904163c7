--------------------------- MODULE OfflineReports ---------------------------
(***************************************************************************)
(* "Store and forward" of incident reports: the citizen's form             *)
(* (useSubmitReport.ts) queues a report in localStorage while the device   *)
(* is offline, and every open page flushes that queue when the device      *)
(* comes online (__root.tsx).  The backend inserts one row per POST        *)
(* (incidents/service.go).                                                 *)
(*                                                                         *)
(* A report is what one filling of the form yields.  A POST is named by    *)
(* its sender and its report: the sender is a flush, or the number of the  *)
(* attempt when the form itself sends it.  The rows of a report are the    *)
(* POSTs of it that are "stored".                                          *)
(***************************************************************************)
EXTENDS Naturals, Sequences, Functions

CONSTANTS
    Tabs,       \* pages of the citizen application in one browser
    Reports,
    Flushes,    \* runs of handleOnline that find something to send: a bound
    MaxTries,   \* bound: attempts to send reports from the form
    Faults      \* which failures a run explores

AllFaults == {"network", "server", "close"}

ASSUME ReportsAssumption ==
    /\ MaxTries \in Nat
    /\ Flushes \intersect 1..MaxTries = {}
    /\ "nowhere" \notin Tabs
    /\ Faults \subseteq AllFaults

VARIABLES
    online,     \* navigator.onLine
    due,        \* the pages that have an 'online' event to handle
    open,       \* the pages that are open
    queue,      \* localStorage resq_pending_reports
    badge,      \* pendingReports of each page's store
    form,       \* what became of each report in its form
    at,         \* the page whose form holds it, while one does
    left,       \* the reports being sent whose form has given way to another one
    tries,      \* the number of the last attempt to send it from there
    run,        \* where each flush is
    page,       \* the page that runs it
    pending,    \* the queue as it read it
    pos,        \* the report of it that is next
    remaining,  \* the reports it failed to send
    post,       \* the POSTs: what the server made of each
    stale,      \* history: the pages whose badge another page has outdated
    exposed,    \* history: the reports queued while a flush was running
    shared,     \* history: the reports a flush read while another was at them
    unheard     \* history: the reports of which a POST was made whose answer was lost

pages   == <<online, due, open, stale>>
forms   == <<form, at, left, tries>>
flushes == <<run, page, pending, pos, remaining>>
notes   == <<exposed, shared, unheard>>
vars == <<online, due, open, queue, badge, form, at, left, tries, run, page, pending, pos,
          remaining, post, stale, exposed, shared, unheard>>

Attempts == 1..MaxTries
Senders == Flushes \union Attempts
Stored(r) == \E x \in Senders : post[x][r] = "stored"
Running(f) == run[f] \in {"next", "await"}
Current(f) == pending[f][pos[f]]

\* Flushes that end give up their local variables.
End(fs) ==
    /\ run' = [f \in Flushes |-> IF f \in fs THEN "done" ELSE run[f]]
    /\ page' = [f \in Flushes |-> IF f \in fs THEN "nowhere" ELSE page[f]]
    /\ pending' = [f \in Flushes |-> IF f \in fs THEN <<>> ELSE pending[f]]
    /\ pos' = [f \in Flushes |-> IF f \in fs THEN 1 ELSE pos[f]]
    /\ remaining' = [f \in Flushes |-> IF f \in fs THEN <<>> ELSE remaining[f]]

-----------------------------------------------------------------------------
Init ==
    /\ online = TRUE
    /\ due = {}
    /\ open = {}
    /\ queue = <<>>
    /\ badge = [t \in Tabs |-> 0]
    /\ form = [r \in Reports |-> "idle"]
    /\ at = [r \in Reports |-> "nowhere"]
    /\ left = {}
    /\ tries = [r \in Reports |-> 0]
    /\ run = [f \in Flushes |-> "idle"]
    /\ page = [f \in Flushes |-> "nowhere"]
    /\ pending = [f \in Flushes |-> <<>>]
    /\ pos = [f \in Flushes |-> 1]
    /\ remaining = [f \in Flushes |-> <<>>]
    /\ post = [x \in Senders |-> [r \in Reports |-> "none"]]
    /\ stale = {}
    /\ exposed = {}
    /\ shared = {}
    /\ unheard = {}

-----------------------------------------------------------------------------
(***************************************************************************)
(* The device and the browser.                                             *)
(***************************************************************************)

\* A page is loaded: its store counts the queue.
Open(t) ==
    /\ t \notin open
    /\ open' = open \union {t}
    /\ badge' = [badge EXCEPT ![t] = Len(queue)]
    /\ UNCHANGED <<online, due, stale, queue, forms, flushes, post, notes>>

\* A page is closed or reloaded, with its forms and its flushes; what they have sent
\* is handled by the server all the same.
Close(t) ==
    LET dying  == {f \in Flushes : Running(f) /\ page[f] = t}
        lost   == {r \in Reports : at[r] = t}
    IN  /\ "close" \in Faults
        /\ t \in open
        /\ open' = open \ {t}
        /\ due' = due \ {t}
        /\ form' = [r \in Reports |-> IF r \in lost THEN "dropped" ELSE form[r]]
        /\ at' = [r \in Reports |-> IF r \in lost THEN "nowhere" ELSE at[r]]
        /\ left' = left \ lost
        /\ End(dying)
        /\ unheard' = unheard \union
                        {r \in Reports : \E f \in dying : post[f][r] \in {"posted", "stored"}}
        /\ badge' = [badge EXCEPT ![t] = 0]
        /\ stale' = stale \ {t}
        /\ UNCHANGED <<online, queue, tries, post, exposed, shared>>

GoOffline ==
    /\ online
    /\ online' = FALSE
    /\ UNCHANGED <<due, open, queue, badge, forms, flushes, post, stale, notes>>

\* Every open page gets an 'online' event.
GoOnline ==
    /\ ~online
    /\ online' = TRUE
    /\ due' = open
    /\ UNCHANGED <<open, queue, badge, forms, flushes, post, stale, notes>>

-----------------------------------------------------------------------------
(***************************************************************************)
(* The form: useSubmitReport.                                              *)
(***************************************************************************)

\* The button is disabled while the form is being submitted; after a failure it may be
\* pressed again.  A page has one form: a new report starts when the form was reset, or
\* when the user left it, whatever the old form's submission still does.
MaySubmit(t, r) ==
    /\ t \in open
    /\ form[r] = "idle" \/ (form[r] = "failed" /\ at[r] = t)

\* r's form gets the state s; the form of t that it takes the place of is left, and
\* forgotten if it had failed.
Fill(t, r, s, where) ==
    LET others == {q \in Reports \ {r} : at[q] = t}
        failed == {q \in others : form[q] = "failed"}
    IN  /\ form' = [q \in Reports |-> IF q = r THEN s
                                      ELSE IF q \in failed THEN "dropped" ELSE form[q]]
        /\ at' = [q \in Reports |-> IF q = r THEN where
                                    ELSE IF q \in failed THEN "nowhere" ELSE at[q]]
        /\ left' = left \union (others \ failed)

\* queueOfflineReport: localStorage and the counter, in one callback; the form is reset.
QueueOfflineReport(t, r) ==
    /\ ~online
    /\ MaySubmit(t, r)
    /\ queue' = Append(queue, r)
    /\ badge' = [badge EXCEPT ![t] = @ + 1]
    /\ Fill(t, r, "queued", "nowhere")
    /\ stale' = stale \union (open \ {t})
    /\ exposed' = IF \E f \in Flushes : Running(f) THEN exposed \union {r} ELSE exposed
    /\ UNCHANGED <<online, due, open, tries, flushes, post, shared, unheard>>

\* Online, a photo is uploaded first.
Submit(t, r) ==
    /\ online
    /\ MaySubmit(t, r)
    /\ Fill(t, r, "uploading", t)
    /\ \E n \in Attempts :
        /\ \A q \in Reports : tries[q] < n
        /\ tries' = [tries EXCEPT ![r] = n]
    /\ UNCHANGED <<pages, queue, badge, flushes, post, notes>>

\* A POST of r by x goes out, to be handled or to be answered with an error (no valid
\* token, no database); without a network it fails at once.
Send(x, r) ==
    \/ online /\ post' = [post EXCEPT ![x][r] = "posted"]
    \/ (~online \/ "server" \in Faults) /\ post' = [post EXCEPT ![x][r] = "refused"]

PostForm(r) ==
    /\ form[r] = "uploading"
    /\ Send(tries[r], r)
    /\ form' = [form EXCEPT ![r] = "posted"]
    /\ UNCHANGED <<pages, queue, badge, at, left, tries, flushes, notes>>

\* The page no longer holds r.
Settle(r, s) ==
    /\ form' = [form EXCEPT ![r] = s]
    /\ at' = [at EXCEPT ![r] = "nowhere"]
    /\ left' = left \ {r}

\* The answer is a success: the form is reset.
Submitted(r) ==
    /\ form[r] = "posted"
    /\ post[tries[r]][r] = "stored"
    /\ Settle(r, "told")
    /\ UNCHANGED <<pages, queue, badge, tries, flushes, post, notes>>

\* The answer of x's POST of r is an error, or is lost, whatever the server did.
Fails(x, r) ==
    /\ post[x][r] = "refused" \/ (post[x][r] # "none" /\ "network" \in Faults)
    /\ unheard' = IF post[x][r] = "refused" THEN unheard ELSE unheard \union {r}

\* The photo or the report was not sent: the form stays as it was, if it is still there.
SubmitFails(r) ==
    /\ \/ form[r] = "uploading" /\ UNCHANGED unheard
       \/ form[r] = "posted" /\ Fails(tries[r], r)
    /\ IF r \in left
       THEN Settle(r, "dropped")
       ELSE form' = [form EXCEPT ![r] = "failed"] /\ UNCHANGED <<at, left>>
    /\ UNCHANGED <<pages, queue, badge, tries, flushes, post, exposed, shared>>

-----------------------------------------------------------------------------
(***************************************************************************)
(* The flush: handleOnline, one run of which may overlap another of the    *)
(* same page or of another page.                                           *)
(***************************************************************************)

\* The queue is read before the first await.
HandleOnline(t, f) ==
    /\ t \in due
    /\ run[f] = "idle"
    /\ queue # <<>>
    /\ due' = due \ {t}
    /\ run' = [run EXCEPT ![f] = "next"]
    /\ page' = [page EXCEPT ![f] = t]
    /\ pending' = [pending EXCEPT ![f] = queue]
    /\ shared' = shared \union
                   {r \in Range(queue) : \E g \in Flushes : Running(g) /\ r \in Range(pending[g])}
    /\ UNCHANGED <<online, open, stale, queue, badge, forms, pos, remaining, post, exposed, unheard>>

\* With an empty queue nothing is written, not even the counter.
HandleNothing(t) ==
    /\ t \in due
    /\ queue = <<>>
    /\ due' = due \ {t}
    /\ UNCHANGED <<online, open, stale, queue, badge, forms, flushes, post, notes>>

SubmitNext(f) ==
    /\ run[f] = "next"
    /\ pos[f] <= Len(pending[f])
    /\ Send(f, Current(f))
    /\ run' = [run EXCEPT ![f] = "await"]
    /\ UNCHANGED <<pages, queue, badge, forms, page, pending, pos, remaining, notes>>

Advance(f) ==
    /\ run' = [run EXCEPT ![f] = "next"]
    /\ pos' = [pos EXCEPT ![f] = @ + 1]

Transmitted(f) ==
    /\ run[f] = "await"
    /\ post[f][Current(f)] = "stored"
    /\ Advance(f)
    /\ UNCHANGED <<pages, queue, badge, forms, page, pending, remaining, post, notes>>

\* Mutant: a report that could not be sent is not kept.
CaughtAndDropped(f) ==
    /\ run[f] = "await"
    /\ Fails(f, Current(f))
    /\ Advance(f)
    /\ UNCHANGED <<pages, queue, badge, forms, page, pending, remaining, post, exposed, shared>>

\* An error of any kind keeps the report.
Caught(f) ==
    /\ run[f] = "await"
    /\ Fails(f, Current(f))
    /\ Advance(f)
    /\ remaining' = [remaining EXCEPT ![f] = Append(@, Current(f))]
    /\ UNCHANGED <<pages, queue, badge, forms, page, pending, post, exposed, shared>>

\* The queue is overwritten with this flush's rest; the counter follows.
WriteBack(f, rest, count) ==
    /\ run[f] = "next"
    /\ pos[f] > Len(pending[f])
    /\ End({f})
    /\ queue' = rest
    /\ badge' = [badge EXCEPT ![page[f]] = count]
    /\ stale' = open \ {page[f]}
    /\ UNCHANGED <<online, due, open, forms, post, notes>>

\* Mutants: the rest is added to a queue that still holds it; all that was read is written
\* back.
FinishAppends(f) == WriteBack(f, queue \o remaining[f], Len(queue) + Len(remaining[f]))
FinishRestores(f) == WriteBack(f, pending[f], Len(pending[f]))

\* What it could not send.
Finish(f) == WriteBack(f, remaining[f], Len(remaining[f]))

-----------------------------------------------------------------------------
(***************************************************************************)
(* The backend: CreateIncidentService.  The Idempotency-Key of the request *)
(* is new for every attempt and nothing reads it.                          *)
(***************************************************************************)

Insert(x, r) ==
    /\ post[x][r] = "posted"
    /\ post' = [post EXCEPT ![x][r] = "stored"]
    /\ UNCHANGED <<pages, queue, badge, forms, flushes, notes>>

-----------------------------------------------------------------------------
Next ==
    \/ GoOffline \/ GoOnline
    \/ \E t \in Tabs : Open(t) \/ Close(t) \/ HandleNothing(t)
    \/ \E t \in Tabs, r \in Reports : QueueOfflineReport(t, r) \/ Submit(t, r)
    \/ \E r \in Reports : PostForm(r) \/ Submitted(r) \/ SubmitFails(r)
    \/ \E t \in Tabs, f \in Flushes : HandleOnline(t, f)
    \/ \E f \in Flushes : SubmitNext(f) \/ Transmitted(f) \/ Caught(f) \/ Finish(f)
    \/ \E x \in Senders, r \in Reports : Insert(x, r)

Spec == Init /\ [][Next]_vars

-----------------------------------------------------------------------------
(***************************************************************************)
(* Properties.                                                             *)
(***************************************************************************)

\* Every variable has its type; the queue, and what a flush holds or keeps, never name
\* a report twice.
TypeOK ==
    /\ online \in BOOLEAN
    /\ open \subseteq Tabs /\ due \subseteq open
    /\ queue \in Seq(Reports) /\ IsInjective(queue)
    /\ badge \in [Tabs -> Nat]
    /\ form \in [Reports -> {"idle", "uploading", "posted", "failed", "dropped", "queued", "told"}]
    /\ at \in [Reports -> Tabs \union {"nowhere"}]
    /\ left \subseteq Reports
    /\ tries \in [Reports -> 0..MaxTries]
    /\ run \in [Flushes -> {"idle", "next", "await", "done"}]
    /\ page \in [Flushes -> Tabs \union {"nowhere"}]
    /\ pending \in [Flushes -> Seq(Reports)] /\ remaining \in [Flushes -> Seq(Reports)]
    /\ \A f \in Flushes : IsInjective(pending[f]) /\ IsInjective(remaining[f])
    /\ pos \in [Flushes -> Nat \ {0}]
    /\ post \in [Senders -> [Reports -> {"none", "posted", "stored", "refused"}]]
    /\ stale \subseteq open
    /\ exposed \subseteq Reports /\ shared \subseteq Reports /\ unheard \subseteq Reports

\* useSubmitReport.ts:60, "Report saved locally. Will transmit when signal is restored.":
\* a report its author was told is saved is in localStorage until the server has it, however
\* many flushes overlap, die or fail; the exception is one queued while a flush was running.
NotLost ==
    \A r \in Reports : form[r] = "queued" => r \in Range(queue) \/ Stored(r) \/ r \in exposed

\* A report has two rows only if an answer to it was lost (or its flush died with its page),
\* or two flushes had read it from the queue at the same time.
DuplicatesExplained ==
    \A r \in Reports : \A x, y \in Senders :
        x # y /\ post[x][r] = "stored" /\ post[y][r] = "stored" => r \in unheard \union shared

\* pendingReports, which each page keeps for itself and counts up, is the length of the
\* queue unless another page has written the queue since.
BadgeIsQueue == \A t \in open \ stale : badge[t] = Len(queue)

\* What an author is told of the reports on his phone is true: that they are saved, and how
\* many they are (useSubmitReport.ts:60, BottomNav.tsx:74).
ToldIsTrue == NotLost /\ BadgeIsQueue
=============================================================================
