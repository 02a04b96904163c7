# ResQ in TLA+

This directory holds formal models of ResQ, the disaster-response system of this
repository: a Go backend (Gin on PostgreSQL/PostGIS, Redis Streams and Valhalla), a
citizen PWA and an admin portal (React, Zustand, TanStack Query), and the packages the
two share. The models are translated from the source, checked with TLC on small
instances, and the safety properties of the core are proved with TLAPS for every value
of the constants.

1. [Inventory](#1-inventory): the system's parts, their state and what is hard about them
2. [Plan](#2-plan): modules, in the order they are written
3. [Modules](#3-modules): what is modelled so far, and how it corresponds to the code
4. [Runs](#4-runs): what each configuration checks, its bounds and its fairness
5. [Proofs](#5-proofs)
6. [Disagreements](#6-disagreements-between-the-code-and-the-documents)
7. [Limits](#7-what-is-not-modelled-and-what-stays-with-tlc)

`PROJECT.json` lists the same things for tools: components, runs, the source lines each
definition translates (`map`), one mutant of the code per checked property (`mutants`), the
hazards that the properties are for, and theorems.

## 1. Inventory

Paths are relative to `src/`; `be` is `backend/internal`, `pwa` is
`frontend/apps/citizen-pwa/src`, `admin` is `frontend/apps/admin-portal/src`, `api` is
`frontend/packages/api-client/src`.

| Component | State it keeps | Operations | Talks to | What is hard, and what makes it correct |
|---|---|---|---|---|
| **Event stream and SSE hub** (`be/shared/sse/hub.go`, `be/shared/redis/client.go`, `backend/cmd/resq-server/main.go`) | Redis stream and consumer group; `Hub.clients` under an RWMutex; a channel of 10 per connection | `PublishEvent`, `StartWorker`, `Broadcast`, `AddClient`, `RemoveClient`, `Handler` | every service publishes; every page listens | one worker, many handlers, one lock; crash between reading and acknowledging; full channels drop. Order, no repetition, no loss but the documented one; places are freed; slow clients stop nobody |
| **Sessions** (`be/identity/service.go`, `be/shared/middleware/auth.go`, `api/client.ts`, `pwa/hooks/useAuth.ts`) | table `refresh_tokens`; localStorage shared by tabs; `isRefreshing`, `failedQueue` per tab | register, login, refresh (rotate), logout; interceptors | every authenticated call | tabs race for one single-use token; lost answers; calls parked behind a refresh. A token is used once; a session has one; everybody waiting is released |
| **SOS signals** (`be/emergency/service.go`, `pwa/components/SosButton.tsx`, `pwa/routes/__root.tsx`, `pwa/hooks/useSSE.ts`, `admin/routes/sos.tsx`) | table `sos_signals`; the phone's persisted `activeSosId`/`activeSosStatus`; each desk's list | trigger, look up, acknowledge, resolve; lookup effect; event handler | the hub's `SOS_CREATED`/`SOS_UPDATED` | check-then-insert; stale lists; late lookups; events lost while a stream is reopened. One open signal per citizen; a phone shows its own SOS until that is resolved |
| **Incidents and danger zones** (`be/incidents/service.go`, `admin/routes/triage*.tsx`, `hazards*.tsx`, `pwa/routes/my-reports*.tsx`) | tables `incident_reports`, `danger_zones`, `user_notifications` | report, verify/reject, create/update/retire a zone | publishes `INCIDENT_*`, `DANGER_ZONE_ACTIVE`; zones feed safe routing | several statements without a transaction; repeated or reversed decisions. A zone exists for a verified incident, once |
| **Offline report queue** (`pwa/modules/report/hooks/useSubmitReport.ts`, `pwa/routes/__root.tsx`) | `resq_pending_reports` in localStorage, `pendingReports` counter | queue, flush on `online` | incidents | a flush reads, awaits, and overwrites; flushes overlap; reloads. A queued report is lost or stored twice only for a reason that can be named |
| **Safe routes** (`be/emergency/service.go:209-337`, `pkg/valhalla`, `pkg/geo`, `pwa/routes/map.tsx`) | Redis cache of 90 s; `activeRoute` | fallback over severities 1, 3, 5; encode/decode polylines and polygons | zones, Valhalla | degraded levels, a cache that outlives a new zone, answers out of order. A route not marked compromised avoids every zone it should |
| **Drawn areas** (`admin/routes/broadcast.tsx`, `hazards.new.tsx`, `hazards.$id.tsx`, `be/emergency/service.go:184-207`) | tables `geo_broadcasts`, `danger_zones`, `user_notifications`; points, form and map of a page | draw, confirm, send; edit and retire a zone | publishes `BROADCAST_SENT`, `DANGER_ZONE_ACTIVE` | a map that is busy defers its updates; answers act on a page that has moved on. What is sent is an area and the one on the map; an answer clears what it answers |
| **Logistics (camps)** (`be/logistics/service.go`, `admin/routes/logistics*.tsx`, `admin/hooks/useAdminData.ts`, `pwa/routes/camps.tsx`) | table `resource_camps`; the query caches | create, set stock, edit, delete | publishes `CAMP_*` | optimistic stock with rollback, last writer wins, an editor over data that are refetched. Pages follow the table; a save undoes only what its page had not seen |
| **Notifications** (`be/notifications/service.go`, `pwa/hooks/useNotifications.ts`, `pwa/routes/notifications.tsx`) | table `user_notifications`; list in the store and in the query cache | list, mark read | pushed over SSE, fetched over HTTP | optimistic update with rollback against a concurrent fetch; rows and events in either order. A list at rest is the backend's |
| **Command centre feed** (`admin/routes/command-center.tsx`, `admin/hooks/useAdminMapLayers.ts`) | list of 50 events; layers of the map | fetch history, receive live, filter | Redis `XREVRANGE`, SSE, the lists' queries | two connections, a history that answers late, effects in any order. The feed is ordered, loses entries only for a reason, and the layers are what lists and filters make them |
| **Stream client of the portal** (`api/sse.ts`) | one EventSource | connect, disconnect on error | the hub | an error ends the stream for good |
| **Location** (`pwa/hooks/useLocation.ts`, `Header.tsx`, `LocationPickerModal.tsx`, `profile.tsx`, the store) | `currentLocation`, `isManualLocation`, persisted; `users.last_known_location` | GPS fix, request for the position, pin | report form, routes, stream | a watch that never stops against a choice by hand. The phone is where its citizen has last said to take it from |
| **Report form** (`pwa/routes/report.tsx`, `pwa/modules/report`) | step, place, photo and score of one page | go through the steps, move the map, choose a photo, submit | location, offline queue | a map that moves by itself, a classifier that answers late, an answer that closes another page. The report says what its pin shows; the score is its photo's |
| Weather, helplines, survival guides, SOS history, the citizen's map, ui-kit, types, config, logger, migrations, scripts | none, or static | rendering, forwarding | - | no state of their own |

How the parts interact. A handler changes PostgreSQL, then publishes an event on one Redis
stream (`PublishEvent`; its error is ignored). The hub's worker reads the stream as the
only consumer of one group and hands each event to every connection. Pages treat an event
as a hint: they invalidate the queries it is about, except for the SOS, which the phone
keeps in its own store and changes from the event itself. All other requests go through one
axios instance whose interceptor refreshes the session's tokens. Two things follow for the
models. Components interact only through the database, the stream and the tokens, so
each can be modelled with the others reduced to what it uses of them; and the stream's
guarantees (module `EventFeed`) are what the page models may rely on: events come in order and
at most once, and may be missed.

## 2. Plan

| | Module | Content | State |
|---|---|---|---|
| 1 | `EventFeed` | abstract: what a subscriber of the stream is promised | done, proved to be implemented |
| 2 | `SseHub` | stream, consumer group, worker, hub, connections, crash | done, proved |
| 3 | `AuthSession` | token rotation between the identity service and the tabs | done, proved |
| 4 | `SosSignals` | triggers, updates, phones, desks | done, proved |
| 5 | `OfflineReports` | queue, overlapping flushes, pages that come and go, rows on the server | done, proved |
| 6 | `Incidents`, `LiveViews` | decisions on a report, zones, notifications; the lists and maps that follow them | done, proved |
| 7 | `SafeRoute` | fallback levels, the cache, over `Incidents`' zones that change meanwhile | done, proved |
| 8 | `Camps` | the table of camps, desks with their optimistic list and their editor, phones | done, proved |
| 9 | `Drawing` | the pages on which an area is drawn, and the handlers of zones and broadcasts | done, proved |
| 10 | `CommandCentre` | the feed and the layers, over `EventFeed` twice | done, proved |
| 11 | `PhoneLocation`, `ReportWizard`, `Notifications`, `Citizen` | the citizen's application: three components, composed by the page that is open and the place of the phone | done, proved |

One abstract specification, `EventFeed`, is implemented by `SseHub` (proved) and is what
`CommandCentre` and `Notifications` instantiate for their connections: their `Deliver` and `Advance`
steps are steps of `EventFeed`; that these steps are the only ones that touch the stream is a theorem
too (`CentreUsesFeed`, `PhoneUsesFeed`). Every safety property and every action property that a run
checks is stated by a theorem.

The number of runs is kept small: a run is a component, or a set of components that meet, and two
halves of one promise are one property (`NothingElseIsMissed` is `BatchIsPending` and
`EarlyGapsAreLost`, and so on). What the code does against a document is described in section 6.

## 3. Modules

A specification module declares constants, their assumption, variables, one action per step of
the code, `Next`, fairness and properties; mutated forms of some actions (marked "Mutant") stand
before the action they are compared with. An `MC` module only names the elements of the
constants for TLC. A `Proofs` module extends the specification and TLAPS. Two of them hold the
theorems of several components: `IncidentsProofs` those of `Incidents`, `LiveViews` and `SafeRoute`,
which share its lemmas, and `ClientProofs` those of `AuthSession` and `CommandCentre`, which the portal's pages
have in common and nothing else. What `SafeRoute` and `CommandCentre` define is named accordingly:
`RouteInit`, `RouteNext`, `RouteTypeOK`, `CentreInit`, `CentreNext`, `CentreTypeOK`.

An action is as large as the code that runs without letting anybody else in: a JavaScript
callback up to its next `await`, one SQL statement, one Redis command, one turn of a Go loop
between two points where another goroutine can interfere.

### `EventFeed`: what a subscriber is promised

Events are numbered in stream order. `cursor` is the newest event handed out; `Advance` moves it
past any number of events, `Subscribe` notes where it stands, `Deliver` writes one event newer
than the last one written and not newer than the cursor, `End` closes subscriptions. Events may be
missed; they never come twice, out of order, or from before the subscription.

### `SseHub`: Redis stream, worker, hub, connections

| State | Code |
|---|---|
| `published`, `group`, `delivered`, `pending` | the stream, the group `sse_hub_group`, its last-delivered id and its pending list, as Redis keeps them |
| `worker`, `next`, `todo` | the program counter of `StartWorker`'s goroutine, the message it is at, the channels `Broadcast` has still to visit |
| `clients` | `Hub.clients`; the lock is `HubUnlocked`: `Broadcast` holds it while `worker = "send"` |
| `conn`, `pushed`, `written` | each connection's handler, all that was put in its channel, how much it wrote; the channel is the difference |
| `since` | history: where the stream stood at registration |

`Publish` is `PublishEvent`; `StartWorker`, `ReadGroup`, `ReadError`, `ReadReplyLost`,
`BeginBroadcast`, `Send`, `EndBroadcast`, `Ack`, `Wake` are the worker's loop in the code's order;
`Accept`, `Refuse`, `Write`, `Hangup`, `RemoveClient` are `Handler` with `AddClient` and
`RemoveClient`; `Crash` is the process going down, Redis staying. The heartbeat is left out: it
writes a comment line that no subscriber sees as an event. Nothing makes a client read: the server
has no write timeout (`main.go:54-57`), so a `Write` may wait for as long as its reader likes.

### `AuthSession`: token rotation

The tabs of one browser on one of the two applications, which are two origins and share nothing.
A pair of tokens is a number. `issued`, `session`, `logins`, `live`, `fresh` are the server
(`live`: rows of `refresh_tokens` not revoked; `fresh`: access tokens not expired); `access` and
`refresh` are localStorage; `refreshing` and `common` are a tab's module state; `status`,
`bearer`, `retried`, `captured` are the requests, with `failedQueue` being those that are
`"queued"`; `offered`, `call`, `minted` are the `POST /auth/refresh` a request has started.

`RefreshService` is three actions, because its UPDATE and its INSERT are two statements: `Rotate`
(or `Deny`), then `Issue`, and `HandlerDies` in between. Every branch of the response interceptor
is an action: `GiveUp`, `Park`, `NoRefreshToken`, `StartRefresh`, `RefreshOk`, `RefreshError`.
The pages `Login`, `SignOut` (admin), `Render` and log out (`LogoutLocally`, `Revoke`,
`Succeed`); a `Reload` forgets a tab's memory, while what it posted is still handled.

### `SosSignals`: signals, phones, desks

| State | Code |
|---|---|
| `owner`, `status` | columns of `sos_signals`; a signal is the number of its row |
| `by`, `known`, `had`, `reopened`, `horizon` | history: the phone that raised a row, what its insert's SELECT had seen, the statuses it has had, the rows that left `resolved` |
| `hold`, `from`, `caller`, `result` | the handler of each `POST /sos`, with the user that its access token names |
| `update`, `target`, `value`, `retried` | the handler of each `PATCH /sos/:id/status` |
| `waiting` | the answers some page still waits for |
| `sos`, `shown` | `activeSosId` and `activeSosStatus` of each phone (persisted) |
| `lookups`, `listening`, `inbox` | the GETs in flight, the phones registered at the hub, events on their way |

`CreateSOSService` is `SelectFinds`, or `SelectNone` and `Insert`; `UpdateSOSStatusService` is
`UpdateRow` and `PublishUpdate`, or `UpdateFails`. `SetActiveSos` and `ClearActiveSos` include
both effects a change of `activeSosId` causes, the lookup and the reopening of the stream.
`OptionalAuth` lets a press with an expired access token pass as nobody's (`auth.go:43-65`): there is
no 401, so no refresh either, the SELECT is left out and the row has no citizen. Three abstractions:

- `Trigger` stands for the beginning of a long press: it is there that the code looks for an
  active signal, and not again when the timer sends the request.
- What a desk's list shows is any status the signal has had. Lists are fetched at arbitrary
  moments and kept until the next fetch, so for a desk's one update this is what the code can
  show; for several by one desk it allows a list to become older again.
- A retried update starts after the first handler has ended (with an error, or with a lost
  answer). Which one is published last is still open between two different updates.

`SosSignals` takes from the stream what `EventFeed` promises: an event reaches the phones that
are registered when it is published, in order, at most once.

### `OfflineReports`: form, queue, flush

| State | Code |
|---|---|
| `online`, `due` | `navigator.onLine`; the pages whose `online` listener has yet to run |
| `open`, `badge` | the pages of the application, and the `pendingReports` counter of each one's store |
| `queue` | `resq_pending_reports`, one for all pages |
| `form`, `at`, `left`, `tries` | each filling of the form: how far it is, the page that holds it, whether its user has moved on, the number of its last attempt |
| `run`, `page`, `pending`, `pos`, `remaining` | each run of `handleOnline` with its local variables |
| `post` | each POST: on its way, inserted as a row, or refused |
| `stale`, `exposed`, `shared`, `unheard` | history: the exceptions that the properties name |

`Submit`, `PostForm`, `Submitted`, `SubmitFails` are `submitReport` between its awaits, and
`QueueOfflineReport` is its branch without a network. `HandleOnline` reads the queue,
`SubmitNext`, `Transmitted`, `Caught` are the loop, `Finish` overwrites the queue and sets the
counter. `Insert` is the backend, which makes a row of every POST: the request's
`Idempotency-Key` is random per attempt and nothing reads it. `Close` is a page closed or
reloaded, at any moment, with what it posted still being handled.

### `Incidents`: reports, decisions, zones

| State | Code |
|---|---|
| `status` | `incident_reports.status` |
| `shape`, `active` | rows of `danger_zones`: type, severity and boundary as one value, and `is_active`. A zone is named by the decision or the drawing that inserted it |
| `notices` | `user_notifications` of the reports' authors |
| `log` | the events on the stream that make some page do something |
| `filed`, `drawn` | the handlers of `POST /incidents` and `POST /danger-zones`, between their INSERT and their event |
| `step`, `by`, `subject`, `verdict`, `again` | each `PATCH /incidents/:id/status`: where its handler is, the desk that waits, and whether it is the mutation's second attempt |
| `crossed`, `unzoned` | history: the exceptions that the properties name |

`UpdateIncidentStatusService` is `UpdateStatus`, `InsertZone` or `InsertFails`,
`PublishVerified`, `Notify`, with `HandlerDies` before any of them; the code drops all errors but
the first statement's. `LoseAnswer`, `Retry` and `Settle` are the mutation of the triage page.
A retry starts after the first handler has ended, as in `SosSignals`. The module has no `Next`:
`LiveViews` and `SafeRoute` extend it, and `ServerStep` is what they share.

### `LiveViews`: what pages show of it

Extends `Incidents` with the query caches: `loaded` and `cache` are a list's data, `fetch` and
`reply` its request, `shown` the lists on display (`["admin-incidents"]` of a desk,
`["danger-zones", bbox]` of a phone, with everything inside the box); `listening`, `broken` and
`cursor` are the stream, as `EventFeed` promises it: the events published while a page listens, in
order, at most once. `OnMessage` is the `onmessage` of `useSSE.ts` or of the portal's root; it
calls `Invalidate`, which is TanStack Query's `invalidateQueries`: a request under way is started
again, unless it is the list's first one. `StreamBreaks` ends a desk's stream for good
(`sse.ts:20`) and makes a phone connect again.

`Read` is what the handlers answer, which do not ask `rows.Err()`: all rows, or, when the
result ends early, some of them with status 200. `Fail` is a load that fails: a desk's query function catches
the error and gives an empty queue as its data (`useAdminData.ts:12-17`), a phone's map is asked for
once more and then left as it was. `amiss` is history, of the data or of the answer that will replace them:
`"short"`, `"failed"`, or `"outdated"` by a change that was not, and will not be, announced to the page.

### `SafeRoute`: routes around zones

| State | Code |
|---|---|
| `at`, `level`, `polys`, `found` | each run of `GetSafeRouteService`: its place in the loop over `fallbackLevels`, the zones to exclude, the answer |
| `routeCache` | Redis: the keys `..:sev1:..`, the only ones that are both set and read |
| `route`, `target` | `activeRoute` and `activeRouteTarget` of each page |
| `from`, `wish`, `camp` | the page a request belongs to, what it asks, and whether the page of a camp asked |
| `saw`, `troubled` | history: the zones a request could read; the pages whose last request overlapped another or failed |

`ReadZones` is `getPolys`, which on an error goes on with the rows it has; `CacheHit`,
`CacheMiss`, `GetRoute`, `GetRouteFails`, `Store` are the rest of the loop in the code's order, and
`Expire` is the key's 90 seconds. A trip is origin, destination and mode, as rounded in the key; a
path is the set of places it goes through; Valhalla is external, and is taken to honour
`exclude_polygons` where the code puts it. `HandleRouteToLocation` and `HandleGetRoute` are the two
pages, which set route and target at different times.

### `Camps`: camps, desks, phones

| State | Code |
|---|---|
| `rows`, `handler` | `resource_camps`, and the backend's handler of each attempt of an operation |
| `op`, `attempt`, `sent`, `previous`, `attached` | what people do at desks: where the mutation or the form is, what it sent, `onMutate`'s context, whether its page is still open |
| `page`, `cache`, `fetch`, `reply`, `invalid` | each viewer's page and query cache |
| `editing`, `dialog`, `confirm`, `draft`, `marker` | the page of one camp: `isEditing`, the dialog of deletion and its text, the fields, the marker on the map |
| `news`, `deaf` | events on their way to a viewer, viewers without a stream |
| `base`, `reread` | history: the version an edit began from, data that changed under the editor |
| `outdated`, `short`, `failed` | history, of a viewer's query: a change has outdated it unannounced, its rows were cut short, its last request failed |

An operation is one thing somebody does: a change of stock (`UpdateStock`, `StockUpdated`,
`StockRetried`, `StockFails`: TanStack's mutation with `cancelQueries`, the optimistic list, one
retry and the rollback), a save or a deletion in the editor (`HandleSaveEdit`, `HandleDelete`,
`Saved`, `Deleted`, `EditFails`), a new camp (`Deploy`, `Deployed`, `DeployFails`, `Land`). A value is named by the
operation that entered it, so that a save that brings back somebody else's value can be told from
one that does not. `Effects` are the editor's three effects, which run whenever what they depend on
has changed: the fields are filled in from the data unless an edit is under way, while the map and its marker
are made anew under an edit too. `Read` of a list may be cut short (`logistics/service.go:31-42`), as in
`LiveViews`; a load that fails leaves the page as it was.

### `Drawing`: new zones, broadcasts, the zone's page

| State | Code |
|---|---|
| `row` | the zone whose page can be opened, in `danger_zones` |
| `req`, `handler`, `heard`, `outcome`, `attached` | each request to change something, the backend's handler of it, how a broadcast was made known, how it ended for the desk, whether its page is still open |
| `page`, `points`, `text`, `editing`, `handles`, `dialog`, `confirm` | the open page, its points and form, its markers that can be dragged, its dialog and whether CONFIRM stands in it |
| `map`, `layers`, `drawn`, `deferred` | the map: made and loaded, the source that shows the area, what that shows, the updates that wait for `styledata` |
| `cache`, `fetch`, `reply`, `stale` | the query of one zone |
| `smooth`, `cleared`, `overtaken` | history: no update was deferred; the area was cleared behind the dialog; the requests under way when a dialog was closed, or something was entered or cleared behind it |

`Click`, `Type`, `ClearDrawing`, `EstablishZone`, `AskToConfirm`, `HandleConfirmExecute`, `EditZone`,
`Drag`, `CancelEdit`, `HandleSaveEdit`, `HandleDelete` are what a desk does; `Statement`, `Handle`, `Spread`,
`HandlerFails` the backend; `ZoneEstablished`, `BroadcastSent`, `ZoneSaved`, `ZoneDeleted`, `Fails`
what the page does with an answer, whether or not it is still about what was sent. `Redraw` is the
effect on `points`: at once when the style is loaded, or as a closure with the points of its time.
`GoTo` is a page being entered, with `beforeLoad` sending a responder away (`Reached`).

An open dialog is an overlay and no more (`Modal.tsx:4-41`): it keeps the pointer from what is behind it, so
`Click` and `Drag` ask for `~Covered`, but the keyboard reaches every control there, so typing,
clearing and leaving go on. A broadcast whose area was cleared behind the dialog is sent with no points
(`Hollow`), and its INSERT fails.

### `CommandCentre`: feed and layers

| State | Code |
|---|---|
| `log`, `published`, `cursor`, `subscribed`, `since`, `got` | the stream and the page's two connections, as `EventFeed` has them |
| `connecting`, `listening`, `events` | connections being made, `isListening`, the feed: entries from the history or heard live |
| `cache`, `fetch`, `reply`, `invalid` | the queries of history and lists; what one has read is the number of events there were by then |
| `filters`, `loaded`, `zones`, `markers`, `focused`, `popup` | the filters, the map and its layers, `focusedEvent`, the popup |

`TakeHistory` is the effect that replaces the feed; `Update` is what a live event does to it, with
the removal of the signal's former entry by the index of the new one, as the code has it.
`Effects` runs those effects of `useAdminMapLayers` whose dependencies have changed (`ZonesDepend`,
`MarkersDepend`); `WantedZones` and `WantedMarkers` are what they would build now. `LoadFails` leaves the
cache, except that of the reports, which becomes empty as in `LiveViews`. Left out are the events whose
entries differ from another's in wording only: a zone that is edited or deleted, a broadcast, an
acknowledged signal.

### `Citizen`: place, report form, notifications

`PhoneLocation`, `ReportWizard` and `Notifications` are specifications of one component each, over
their own variables and two shared ones, `page` (the page that is open) and `location` (the place
of the phone). `Citizen` instantiates the three and composes their steps: `GoTo` drops one page's
state and makes another's (`PageChanges` of each), a new place is a step of `PhoneLocation` together
with `FollowLocation` of the form and `Relocate` of the notifications' stream, `Reload` keeps what
localStorage keeps, and the answer to a report (`SubmitEnds`) navigates from whatever page is open.

`PhoneLocation`: the watch (`WatchFix`), the picker's request for the position (`HandleMyLocation`,
`MyLocation`, `MyLocationFails`), the pin of the profile (`PickPlace`, `HandleSaveLocation`), and
what the backend is told (`DeviceUpdated`, `UpdateLost`, in any order). While the picker is open the
pointer sets no pin, but the keyboard can save one that was set before. A place is the number of the
fix or click that met it; `choice` is history: what the citizen chose last.

`ReportWizard`: the steps; the map, which reports every move as the place of the report (`Moved`,
`Drag`, `Resized`), the jump to the current place (`JumpToCurrentLocation`, `Jump`, and the flight
`Fly`, `Land`); photos and their scores (`ChoosePhoto`, `Judged`); the submission (`HandleSubmit`,
`Send`, `Save`, `Submitted`, `SubmitFails`). What becomes of a report is in `OfflineReports`.

`Notifications`: the handlers' statements and publishes in the order each has them (`Steps`), the
query for the newest `Limit` rows (`Recent`; `newer` counts the rows that came after a notice's own, in the
order of `created_at`), of which `Read` may return only some (`cut`), and which is asked again at every event (`Invalidate`: a request
under way is dropped and repeated), the optimistic mark (`MarkRead`, `MarkRetries`, `MarkFails`), the pushed items, which have
ids of their own, and the stream, an instance of `EventFeed` for one phone.

## 4. Runs

Every run explores all interleavings; there is no other bound than the ones named here. A pass
also means that every action and every disjunct of `Next` fires in some passing run.

| Run | Instance | Shows |
|---|---|---|
| `SseHub` | 3 connections, 3 events, limit 2, channels of 2, all faults | `TypeOK`, `HubRegistry`, `NothingElseIsMissed`, `ChannelOrder`, `ImplementsFeed` |
| `SseHubLive` | 2 connections, 3 events, channels of 1; crash, no group, read errors; fair | `EveryEventIsRead`, `PlacesAreReturned` |
| `AuthSession` | admin portal, 2 tabs, 3 requests, 1 login, all faults | `TypeOK`, `RotationIsChain`, `OneRefreshPerTab` |
| `AuthSessionLive` | citizen application, 2 tabs, 3 requests of which one logout, no fault, fair | `StoredTokenUsable`, `QueueIsReleased` |
| `SosSignals` | a signed-in phone and an anonymous one, 2 presses, 1 update by a phone and 1 by the desk; crash, database errors, expired tokens, reload | `TypeOK`, `OneOpenSos`, `ShowsOwnSos`, `HiddenWhenResolved` |
| `OfflineReports` | 2 pages, 2 reports, 2 flushes, 1 attempt from a form, all faults | `TypeOK`, `ToldIsTrue`, `DuplicatesExplained` |
| `LiveViews` | 1 desk with its list or 1 phone with its map (zones are retired under the map only), 1 report, 2 decisions, all faults | `TypeOK`, `DecisionsTakeEffect`, `ViewIsCurrent` |
| `SafeRoute` | 1 phone, 2 requests, 2 trips, 2 drawn zones of 2 shapes (severity 4 over both ways, 5 over one), query, Redis, Valhalla and network failures | `RouteTypeOK`, `RoutesKeepTheirPromise`, `ShownIsForTarget` |
| `Camps` | 1 camp and up to 2 new ones, 2 desks, 1 phone; 7 plans: two changes of stock over a network and loads that fail, two desks' saves, two saves with a page that is left, a save and a deletion, a change that a phone hears of, the same with loads that fail, a new camp sent twice | `TypeOK`, `PagesFollow`, `SaveUndoesOnlyUnseen` |
| `Drawing` | 1 desk, 2 requests, up to 7 entries; 7 plans: a map that is busy, broadcasts one by one and at once, two boards in turn, the editor beside other desks, a deletion, a responder | `TypeOK`, `AreaIsShown`, `AnswersClearTheirOwn` |
| `CommandCentre` | 3 events, a feed of 2; 5 plans: the feed alone with two signals, each list with its filter and layer, the reports' list with loads that fail | `CentreTypeOK`, `FeedIsOrdered`, `LayersFollow`, `GoneForReason` |
| `Citizen` | 4 places, 2 positions asked for, 2 photos, 2 reports, 3 notices of which a list has 2, 2 marks; 10 plans: the phone's place with and without a known one, a report's place likewise, two reports with photos, five sets of notices | `TypeOK`, `SourceIsChosen`, `PinIsReported`, `ScoreIsOfPhoto`, `ListIsCurrent` |

**Why the bounds are enough to be interesting.** Three connections against a limit of two reach
the limit, refuse, free a place and take it again; three events with channels of two fill a
channel, drop an event, and split into batches of one, two and three around a crash. Two tabs are
what a race for one token needs, and a third request gives a tab one call to refresh and one to
park. Two presses are what a second row needs; two updates are what an order needs. Two
pages and two flushes are what an overlap needs, of one page's flushes or of two pages', and with two
reports one is sent while the other waits. Two decisions are two desks' opinions, a change of mind,
or one decision and its retry; a list is read, changed and announced at any moment, and one list at
a time is enough because lists do not affect each other. Two zones are what a mild one
and a severe one need to send a request through all three levels; two requests overlap, and the second
meets the first one's route in the cache. Tokens expire, handlers die and pages close at any
point. The bounds that are no part of the code are `MaxEvents`,
`MaxLogins`, `MaxTries`, `Retiring` (the displays of `LiveViews` under which zones are retired), `MaxEntries`, `MaxPlaces`, `MaxAsked`, `MaxPhotos`, `MaxMarks`, `Attempts` of
a form of `Camps`, and the sizes of `Requests`, `Holds`, `Updates`, `Reports`, `Flushes`, `Decisions`,
`Drawings`, `Ops`, `Posts`, `Notices` (each member is used once); the theorems
below hold without a value for any of them. `MaxConns` and `Cap` are 3 and 10 in the
hub's code, the feed's `Cap` and the `Limit` of the notifications are 50; they are smaller in the runs, so that they are reached.

The `SosSignals` run leaves the network's faults out (lost answers, a lookup that fails for want of
a network): with two phones they exceed what TLC does in a few minutes. The theorems hold for every set of
faults, these included, for all three of its properties.

**Plans.** The four models of pages let a behaviour begin with a plan, which says who is there, on which page, what they
may do and what may fail; `Plans` in the `MC` module lists them. Within a plan everything is interleaved. A
plan restricts only what is begun, never what follows, so what it leaves out is a behaviour in which nobody
did it. The plans pair the operations that touch the same state; what two plans
have between them and no plan has alone is not checked.

**Symmetry.** The run `SosSignals` takes the presses to be interchangeable,
`OfflineReports` the pages, the reports and the flushes, `LiveViews` the decisions, `SafeRoute` the
requests and the drawings, `Drawing` the requests: no constant tells them
apart, and none of these runs checks a liveness property.

**Deadlock.** Checked for the hub, which never stops (its worker sleeps and wakes), and for the
reports, where the network may always come or go. In the other
models people may have made all the calls, presses, updates and entries there are: `CHECK_DEADLOCK FALSE`.

**Fairness.** `SseHub`: a runnable goroutine is scheduled (weak fairness of each worker step); a
read that is possible again and again succeeds some time, and a handler waiting for
the write lock gets it, because Go's `RWMutex` lets no new reader pass a waiting writer (strong
fairness of `ReadGroup` and `RemoveClient`); a stopped process is restarted. Nothing is assumed of clients,
which may stop reading or stay connected for ever, and nothing of writing to them (`hub.go:109-110` waits
as long as they like): that the worker reads every event does not depend on it, and a place is promised
back only for a client that has hung up. `AuthSession`: a
handler that began goes on and a page handles what arrives. The models of
pages assume none and claim none: their properties say what holds meanwhile and when all is at rest. Nothing is assumed of people, of expiry or of failures.

**Mutants.** Each property of each passing run is broken by a plausible mistake in one action: a
limit tested off by one, a row not tested for being revoked, a queue that is not rejected, a
query that forgets acknowledged signals, and so on (`PROJECT.json`, `mutants`).

## 5. Proofs

All theorems are of the form `Spec => ...` for every value of the constants that meets the
module's assumption, so for any number of connections, events, tabs, requests, phones, desks,
reports, flushes, decisions, zones, requests for routes, camps, operations, drawings, entries of the
feed, notices, places and photos, and any set of faults.

**Assumptions.** `SseAssumption`: the limit and the capacity are positive. `SessionAssumption`: logouts are requests, made in the citizen
application only; every request has a tab. `SosAssumption`: updates are made by a phone or a desk,
and phones and desks, presses and updates are different things. `ReportsAssumption`: the number of
attempts is a natural number, flushes are no numbers, `"nowhere"` is no page.
`IncidentsAssumption`: decisions and drawings are different things, each report has a shape that its
verification gives a zone. `ViewsAssumption`: desks and phones are different things, displays
are sets of views, and zones are retired under some of them. `RoutesAssumption`: severities are 1 to 5, trips by car are trips.
`CampsAssumption`: the camps given at first are camps, each POST makes a camp with an id of its own
that was not given (the database makes it), an operation has a kind and a desk, desks and phones are
different things. `DrawingAssumption` and `CommandCentreAssumption`: bounds are natural numbers, the
feed's size is positive (it is 50), each id has a kind. `CitizenAssumption`: bounds
are natural numbers, the list's limit is positive (it is 50 too), and plans are well formed (the first page is
one of the pages, a phone whose place is known has a place). In the last four, `None` is none of the
things it stands for the absence of. None of them says anything of the size of a set.

Eight modules hold the proofs. `ClientProofs` is about `AuthSession` and `CommandCentre`,
`IncidentsProofs` about `Incidents`, `LiveViews` and `SafeRoute`, and each of the others about the module it is named for.

**`SseHubProofs`.** `WorkerInv` relates the worker's place to Redis: outside a batch `next` is
just after what was delivered, inside it is not, and only a broadcast under way has channels to
visit. `RegistryCorrect` (`HubRegistry`) needs cardinalities of finite sets only.
`BatchStaysPending` (`BatchIsPending`) follows from `WorkerInv` step by step. `ChannelsAreOrdered`
(`ChannelOrder`) needs one more fact, that a registration is not newer than what is being
broadcast. `OnlyFullChannelsMiss` (`EarlyGapsAreLost`) is the longest argument: the
strengthening `GapInv` says that a channel the broadcast has visited and that has had room so far
ends with the event being broadcast, so acknowledging that event removes nothing from
`pending` that the channel missed. `HubImplementsFeed` shows that every step of the hub is, under
the mapping given with `Feed`, a step of `EventFeed` or a stutter.

**`ClientProofs`, sessions.** `RotationKeepsOneToken` (`OneLivePerSession`) and
`RotationUsesTokenOnce` (`TokenUsedOnce`) follow from `SessionInv`: a token that was granted is
not live; while a refresh stands between its UPDATE and its INSERT, its session has no live token
and no second refresh is there. The invariant alone would not do: the INSERT could then add a
second token. `OneRefresh` (`OneRefreshPerTab`) is inductive with the types.
`StoredTokenStaysUsable` says of `StoredTokenUsable` what the run checks: it holds where there are no
faults: no answer lost, no crash, no INSERT that fails and no page reloaded, but any number of tabs that
share the storage, requests and logouts. Its `StoreInv` follows the token that is on its way to the storage: what a refresh has minted is live until
it is stored (`ArrivingInv`), and no other request has captured it or offers it, or that request
could rotate it first.

**`ClientProofs`, command centre.** `FeedStaysOrdered` (`FeedIsOrdered`): in `SeamInv`, `HeardInv`
adds that no entry of the feed that was heard is newer than what its connection has delivered,
and that nothing in it was heard while it connects; so the next event goes in front of all of them.
`EntriesGoForReason` (`GoneForReason`) is a property of steps for which the types are enough; the
proof led to a shorter statement, without an alternative that the others cover. `LayersFollowLists`
(`LayersFollow`) is inductive with the types. `CentreUsesFeed` says that every step of the page is, for
its two connections, a step of `EventFeed` or a stutter. With `HubImplementsFeed` it closes the
composition: the page relies on no more than what the hub is proved to give.

**`SosSignalsProofs`.** `OneOpenSignal` (`OneOpenSos`): `RuleInv` carries what a handler's SELECT
established up to its INSERT and, after that, with the row: of the rows it saw none of that
citizen's is open, unless it was reopened. The statement is about the users of the phones, not about the
rows' citizens, so a row raised with an expired token counts as its user's. `OnlyOwnSignals`
(`ShowsOwnSos`): `OwnInv` adds that everything asked for or answered was raised by the phone or bears its
user's id. `ResolvedBeforeHidden`
(`HiddenWhenResolved`, a property of steps): `HearInv` says that whatever can tell a phone a
status (an event, a lookup's answer, an update's answer) tells one that the signal has had.

**`OfflineReportsProofs`.** One inductive invariant, `IInv`, carries three arguments.
`SavedReportsKept` (`NotLost`, which with `BadgeIsQueue` is `ToldIsTrue`: `AuthorsAreToldTheTruth`) rests on `Keeps`: every running flush still holds each saved report
that has no row and was not saved during a flush, either in its rest or from its position on; so
what `Finish` writes back contains it. To keep that when a flush moves on because its POST was
answered, a POST must belong to the report at the flush's position, which is `FlushFresh`.
`DuplicatesAreExplained` (`DuplicatesExplained`) rests on `OnePost`, `Sole`, `NotSentYet` and
`FormUnsent`: a report with no lost answer and no sharing has at most one POST that the server may
have stored, and nobody else (queue, flush, form) that could make another. `BadgeCorrect`
(`BadgeIsQueue`) follows with the types.

**`IncidentsProofs`** begins with lemmas on the steps of `Incidents` that
`LiveViews` and `SafeRoute` share.

*Reports, zones and lists.* `VerifiedIsZoned` (`VerifiedHasZone`) is inductive with the types.
`OneVerdict` (`DecidedOnce`) is not: `OnceInv` adds that a decision which has not reached its INSERT
has no zone (`Fresh`), and that a report decided for the first time has one handler at work, which has
the report's status as its verdict, while nothing but what that handler has done so far has come of it
(`Once`). `PagesFollow` (`ViewIsCurrent`) is about requests that may be overtaken: `GoodInv` says that
a list with nothing on its way to refresh it (`Settled`) has what `Reflects` says (the tables' rows, some of
them if it was cut short, none of a queue that failed to load), and that the
answer it may be waiting for does too, or the answer would spoil it on arrival. A change of the tables
leaves a list settled only if it is not about it; an event ends unread only by being read, because the
stream is only added to (`UnreadGrows`).

*Routes.* `RoutesKeepPromise` (`RoutesAvoidZones`): `PolysInv` says that what a request
asks Valhalla to exclude are the zones it read of the level it is at or worse, so a first-level answer
avoids all of them and a later one those of severity 5. `CacheStaysClean` (`CacheIsClean`):
`FoundInv` says that an answer is of the trip its request wished for. `RouteIsForTarget`
(`ShownIsForTarget`): `AimInv` says that a page without trouble has one request at a time, which is for
its target, and that its route is for its target when none is under way.

**`CampsProofs`.** The types are proved in groups (`TypeGroups`), because a step touches few of them.
To be inductive they say more than shapes: an operation that changes a stock has the list to go back to, an attempt that
has not begun has no handler. `WhatIsShownFollows` (`PagesFollow`) joins two arguments. `Follows`, of one query
of one viewer, says that unless it is outdated (a change it never heard of) or an operation
still owes it an invalidation, its data is what the table holds, and so is the answer on its way: in
full, or in part if it was cut short. Of a query whose last request failed it says nothing.
It says so of data that no page shows as well, since a page shows them at once when it opens.
The proof made `ViewsFollow` stronger: it used to excuse a view whenever an operation waits. `Settled`, of
one desk, says that the editor of a camp shows what it would save; it changes with the page, with an
answer, and with an optimistic stock. `SavesUndoOnlyUnseen` (`SaveUndoesOnlyUnseen`, a property of steps)
is about a form that sends every field. `SeenInv` says that whatever knows a version of a camp (cache, answer, editor, save under way) agrees with
the table in the fields its user has not typed in, as long as the table is at that version. Every save raises the version,
a change of stock leaves both fields alone, and an id that a POST is going to make has never been
used (`Born`), so a camp that is deleted cannot come back under knowledge of its former self. When
an editor opens it takes its fields from the page, for which `EditorIsWhatItSaves` is needed.

**`DrawingProofs`.** `WhatIsSentIsShown` (`AreaIsShown`): `DrawnInv` adds that what is stored, shown or behind an open dialog is an
area (three corners or more) unless it was cleared there, that a request its page waits for is of the page that is open, and that an update which waits for
the map has already spoilt the smooth history (`Shown`). `AnswersClear` (`AnswersClearTheirOwn`,
a property of steps) is about an answer that comes when something else has been drawn. `Apart` is
the reason why drawings can be told from each other: a click enters a new point, so the page's
drawing shares no corner with one that was answered or left behind. `Held` says that while a
broadcast is under way that nothing has overtaken, its dialog is open over the page as it was sent.

**`CitizenProofs`.** The proofs follow the composition: a lemma for the steps of each component, one for
what `GoTo` does to it, one for what leaves it alone. `PlaceIsChosen` (`SourceIsChosen`): `PlaceInv` adds
that a request of the picker is a number, so one that is begun can be told from none.
`PinShowsThePlace` (`PinIsReported`): `MapInv` adds that a page which has heard of its map has a loaded map and
a pin, so that the form's effect, which fills an empty pin with the phone's place, no longer touches it; a
position that was asked for sets the pin and begins a flight in one step. `ScoreIsItsPhotos` (`ScoreIsOfPhoto`) is inductive as it stands:
the last photo to be judged is the last chosen, or it has been overtaken.
`ListStaysCurrent` (`ListIsCurrent`): `BackendInv` says that an event is the last step of its notice's
handler, but for a verified report's, so that what the phone has been told of is in the table or never
will be (a new row only takes others out of `Recent`, so a list that had the newest rows has all that still are); `MarkInv` that a call which is confirmed is in the table's `read`; and `CurrentInv` what
`ListIsCurrent` asks, of the answer on its way too, and of data at rest that is not invalid.
A rollback may put back a list that is behind; it is invalid then, and in `CurrentInv` nothing is said of it.
`PhoneUsesFeed` is for the phone what `CentreUsesFeed` is for the command centre; a change of place, which opens
the stream anew, is the end of a subscription.

Each module's `TypeCorrect` comes first, where it has one, and is used by the others. A property with two halves has a
theorem for each, named above, and one for the whole: `OnlyTheseAreMissed` (`NothingElseIsMissed`),
`RotationMakesChain` (`RotationIsChain`), `AuthorsAreToldTheTruth` (`ToldIsTrue`),
`DecisionsAreWhatTheySay` (`DecisionsTakeEffect`), `RoutesAreKept` (`RoutesKeepTheirPromise`).

## 6. Disagreements between the code and the documents

All of these were met while modelling, and the models have them happen: a property that
would exclude them does not hold, and the properties that are checked name them as exceptions.

Against a document, with consequences for a user:

- `docs/ui-v1.md:167` says "Silent Failures are forbidden"; `client.ts:58-64` returns with
  `isRefreshing` set when a call gets a 401 and there is no refresh token. Every later 401 of the
  tab waits in `failedQueue` for ever. In `AuthSession`, `NoRefreshToken` leaves `refreshing` set.
- `docs/redis.md:88` promises to fetch the latest state, "recovering anything missed while
  disconnected"; `useSSE.ts:26` refetches nothing when it connects again. A resolution that is published
  while a phone's stream is being opened is never shown. In `SosSignals`, `Reopen` asks for nothing.
- `docs/ui-v1.md:52` promises "Report saved locally. Will transmit when signal is restored.";
  `__root.tsx:63` overwrites the queue with the flush's rest, so that a report queued while the flush
  was waiting is gone. `NotLost` excludes it by `exposed`.
- `docs/ui-v1.md:171` asks for a CONFIRM before what cannot be taken back; the text survives the
  closing of the dialog (`hazards.$id.tsx`, `logistics.$id.tsx`, `broadcast.tsx`), and is there when it is
  opened again. In `Drawing` and `Camps`, `CloseDialog` leaves `confirm`.
- `docs/ui-v1.md`, section 4.2, lets a click on an entry of the feed fly to its place; entries of
  zones and of resolved signals do nothing (`command-center.tsx:126-175`, `Found`).
- `profile.tsx:305` says "Drag the map or click"; only a click picks a place.
- `broadcast.tsx:222` says that only devices in the area are reached; the event goes to every
  phone, which lists it (kind `"elsewhere"` of `Notifications`) without a row: marking it read does
  nothing, and it vanishes with the next mount of the page.

- Against `docs/ui-v1.md:167` too, a desk's list of reports that fails to load is shown as an empty queue, as if
  there were nothing to decide (`useAdminData.ts:12-17`). A result that ends early is answered with 200 and
  lacks rows, since nobody asks `rows.Err()` (`incidents/service.go:101-119` and `257-274`,
  `logistics/service.go:31-42`, `notifications/service.go:22-43`). `ViewIsCurrent`, `PagesFollow` and
  `ListIsCurrent` name both.
- `docs/ui-v1.md:151` wants Tab to reach every action, and it reaches those behind an open dialog, which
  traps no focus (`Modal.tsx:4-41`). Clear Drawing (`broadcast.tsx:204-211`) and then Send posts a broadcast without
  points, which `broadcast.tsx:133-140` does not check and which the backend answers with 500; what is entered
  behind the dialog while a broadcast is under way is cleared by its answer without having been sent.
  `SentIsArea` and `ClearedWasSent` name it.

Further:

- `docs/redis.md:33` says that after a crash the hub "resumes reading from its last acknowledged
  ID"; `hub.go:69` reads only messages never delivered. In `SseHub` what was in `pending` at a
  `Crash` stays there for ever.
- `docs/api-v1.md:65` says that logout "Revokes the refresh token and terminates the user session";
  `useAuth.ts:18` sends the token of an earlier rendering. In `AuthSession`, `Revoke` takes
  `captured`, and after a rotation the successor stays `live`.
- `docs/api-v1.md:268` promises a route "strictly avoiding Severity 5 zones"; when the query fails
  (`emergency/service.go:240`) the zones are not excluded and the route is not marked.
  `RoutesAvoidZones` speaks of the zones a request `saw`.
- `expires_at` of a zone (`incidents/service.go:206`, 24 hours) is read by no query: a zone stays
  active until it is retired. `Incidents` has no action for it.
- `docs/redis.md:38` allows three streams "per unique User ID"; `hub.go:88` finds no user on this
  route (`main.go:45` installs no authentication), so the limit is shared by everybody. `SseHub`
  has one key for that reason.
- `docs/db.md:27` orders the statuses of a signal; `emergency/service.go:172` sets any status at
  any time. `SosSignals` keeps the rows that left `resolved` in `reopened`.
- `docs/architecture.md:75` speaks of exactly-once reports; the backend never reads the
  `Idempotency-Key`. `OfflineReports` keeps the causes of a second row in `shared` and `unheard`.

What the code does that no document speaks of, and that somebody who changes it should know:

- Hub: there is no write timeout (`main.go:54-57`), so a client that stops reading but stays connected
  keeps its handler, and its place, for ever.
- Signals: a press with an expired access token raises an anonymous signal, whatever its user has open
  already (`emergency/handler.go:12`, `service.go:51`). Their phone shows it, but their history does
  not have it and they may not resolve it (403).
- Broadcasts: Send stays enabled while a broadcast is under way, and its answer clears whatever is
  drawn by then (`ClearedWasSent` excludes what `overtaken` has: a dialog that was closed meanwhile, or what
  was entered or cleared behind it). The errors of the
  notification's INSERT and of the publish are ignored.
- Zones: an update of the drawing that waits for `styledata` overwrites a later one; the page of a
  zone gets no map unless the zone was in the cache when it was opened; no list is refreshed by
  `DANGER_ZONE_UPDATED` or `DANGER_ZONE_DELETED`. A responder who opens a page for the authority ends at
  the login page, because `beforeLoad` catches the redirect it throws.
- Camps: the editor closes before the camp has been read again, and a save sends every field: values
  that its user did not see overwritten come back (`SaveUndoesOnlyUnseen` says which). The answer to a new camp
  navigates, once the lists have been refetched, from whatever page is open by then.
- Command centre: the history's answer replaces live entries that came first (`GoneForReason` names
  it); an update of a signal is meant to replace its entry and removes nothing but itself; markers of
  resolved signals are never shown, whatever the filter says, since only active ones are fetched.
- Location: neither a position asked for nor a place set by hand is sent to the backend, so
  broadcasts are targeted by the last GPS fix; updates of it may arrive in another order, and each
  overwrites `fcm_device_token` with an empty one; a position that was asked for before a pin was
  saved overrides it when it comes later (`choice = "late"`).
- Report form: the answer to an earlier report closes the page that is open by then, with another
  report on it; the score of a photo chosen earlier may come last (`overtaken`), and a photo that cannot
  be loaded never gets one (`useImageClassifier.ts:46` sets no `onerror`).
- Notifications: rows are never deleted and a list has the newest 50 (`notifications/service.go:14`), so an older
  notice drops out of it unread. An event `INCIDENT_VERIFIED` is published before the notification's row is written, and a
  rejection publishes none: the phone shows either with its next refetch.

`OneOpenSos`, `HiddenWhenResolved`, `NotLost`, `DuplicatesExplained`, `VerifiedHasZone`, `DecidedOnce`,
`ViewIsCurrent`, `PagesFollow`, `SentIsArea`, `ClearedWasSent` and `ListIsCurrent` name, as exceptions, what
the code does allow: two presses that overlap, a failed query, an expired token, a reopened signal; a late answer
about an earlier signal; a report saved during a flush; a lost answer, two flushes at once; an INSERT
whose error is dropped; a report decided again; a change nobody announces, a load that fails, a result cut
short; what is cleared or entered behind a dialog; a row that newer ones have pushed out. A change
that closes one of these gaps can drop its exception and re-check.

## 7. What is not modelled, and what stays with TLC

- Not modelled: the polyline's decoder (no state, and its hazard is in the bytes); registration and
  roles (single-row writes behind a UNIQUE constraint); the citizen's map, the read-only pages, weather,
  helplines, guides (no state that outlives a render); configuration, logging, pools, error
  formatting; migrations and scripts; Valhalla, Cloudinary and browsers, other than as what the code sees of them.
- In the hub: heartbeats, event payloads, other readers of the stream.
- In the sessions: roles, registration, the profile's texts; a refresh token has no age, since no query reads `expires_at`.
- In the signals: location and battery, `responder_id`, the notification row, the history list,
  map popups; the phone's user stays the same, though their access token may have expired. A desk's
  list that is cut short shows less to act upon, and a desk may always not act.
- In the reports: their contents, the photo's bytes; the event the backend
  publishes for a row, whose error is ignored.
- In the incidents: the report's contents, the read-only pages of one report.
- In the routes: distances and times, the polyline's decoding, the map.
- In the camps: coordinates and capacities as numbers, the phone's page of one camp (its route is in
  `SafeRoute`).
- In the drawn areas: where a point lies, other layers of the maps, the look of the dialogs.
- In the command centre: the map's camera, the text of popups, the events whose entries only differ in wording
  (`DANGER_ZONE_UPDATED`, `DANGER_ZONE_DELETED`, `BROADCAST_SENT`, an acknowledged `SOS_UPDATED`), lists that are
  cut short: its properties relate what is shown to what was fetched, whatever that is.
- In the citizen's application: the classifier's verdict (only whose it is), the store's fields that nothing reads.
- Only model-checked: every liveness property (`EveryEventIsRead`, `PlacesAreReturned`,
  `QueueIsReleased`), because TLAPS has no proof rules for fairness here. What `StoredTokenUsable`
  says is true only without faults, in the run as in the theorem: a lost answer leaves the tab with a
  token that was rotated.
