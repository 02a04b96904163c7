------------------------------- MODULE SseHub -------------------------------
(***************************************************************************)
(* The server-sent-event hub of the backend (internal/shared/sse/hub.go):  *)
(* one worker goroutine reads the Redis stream through a consumer group    *)
(* and broadcasts each message to the channel of every registered          *)
(* connection; one handler goroutine per connection moves messages from    *)
(* its channel to the HTTP response.                                       *)
(*                                                                         *)
(* Events are named by their position in the stream.  A connection's       *)
(* channel is kept as its history: pushed[c] is all that was ever sent to  *)
(* it, written[c] how many of those the handler has taken to be written,   *)
(* so the channel holds the last Len(pushed[c]) - written[c] of them.      *)
(***************************************************************************)
EXTENDS Naturals, Sequences, FiniteSets

CONSTANTS
    Conns,      \* the HTTP connections clients may hold
    MaxConns,   \* connections per hub key: 3 in the code
    Cap,        \* capacity of a connection's channel: 10 in the code
    MaxEvents,  \* bound of the model: events ever published
    Faults      \* which failures a run explores

AllFaults == {"crash", "no_group", "read_error", "reply_lost", "ack_lost"}

ASSUME SseAssumption ==
    /\ MaxConns \in Nat \ {0}
    /\ Cap \in Nat \ {0}
    /\ MaxEvents \in Nat
    /\ Faults \subseteq AllFaults

VARIABLES
    published,  \* Redis: number of entries of resq:stream:events
    group,      \* Redis: the consumer group exists
    delivered,  \* Redis: last-delivered-id of the group
    pending,    \* Redis: delivered to hub_1 and not acknowledged
    worker,     \* where the worker goroutine is; "down" when the process is not running
    next,       \* the message of the worker's batch next..delivered it is at
    todo,       \* the channels the current Broadcast has still to visit
    clients,    \* the hub's map from user id to channels
    conn,       \* where each connection's handler is
    pushed,     \* history of each connection's channel
    written,    \* how many of pushed[c] the handler has taken to be written
    since       \* history: the newest event broadcast when c was added

redisVars  == <<published, group, delivered, pending>>
workerVars == <<worker, next, todo>>
connVars   == <<clients, conn, pushed, written, since>>
vars == <<published, group, delivered, pending, worker, next, todo,
          clients, conn, pushed, written, since>>

\* The only key that Hub.clients gets.
Keys == {"anon"}

\* Handler: c.GetString("user_id").  main.go puts no authentication middleware
\* on /v1/stream/events, so the context never holds a user id, whoever calls.
StreamUid(c) == "anon"

\* The channel of c takes one more message.
RoomAlways(c) == TRUE
RoomShort(c) == Len(pushed[c]) - written[c] < Cap - 1
Room(c) == Len(pushed[c]) - written[c] < Cap

\* AddClient: len(h.clients[uid]) >= 3.
FullOffByOne(c) == Cardinality(clients[StreamUid(c)]) > MaxConns
Full(c) == Cardinality(clients[StreamUid(c)]) >= MaxConns

Live == {"open", "leaving"}

Registered == UNION {clients[u] : u \in Keys}

\* The hub's lock: Broadcast holds it shared while it visits the channels, and
\* AddClient and RemoveClient need it exclusively.
HubUnlocked == worker # "send"

\* The newest event whose broadcast has begun.
Cursor == IF worker \in {"send", "ack"} THEN next ELSE next - 1

-----------------------------------------------------------------------------
Init ==
    /\ published = 0
    /\ group = FALSE
    /\ delivered = 0
    /\ pending = {}
    /\ worker = "down"
    /\ next = 1
    /\ todo = {}
    /\ clients = [u \in Keys |-> {}]
    /\ conn = [c \in Conns |-> "closed"]
    /\ pushed = [c \in Conns |-> <<>>]
    /\ written = [c \in Conns |-> 0]
    /\ since = [c \in Conns |-> 0]

(***************************************************************************)
(* The publisher: PublishEvent is called by the handlers of the same       *)
(* process.  An XADD that fails is ignored there and changes nothing here. *)
(***************************************************************************)
Publish ==
    /\ worker # "down"
    /\ published < MaxEvents
    /\ published' = published + 1
    /\ UNCHANGED <<group, delivered, pending, workerVars, connVars>>

-----------------------------------------------------------------------------
(***************************************************************************)
(* The worker.                                                             *)
(***************************************************************************)

\* Mutant: each start makes the group anew, at the beginning of the stream.
StartFromZero ==
    /\ worker = "down"
    /\ worker' = "read"
    /\ group' = TRUE
    /\ delivered' = 0
    /\ next' = 1
    /\ pending' = {}
    /\ UNCHANGED <<published, todo, connVars>>

\* The process starts.  The result of XGroupCreateMkStream is ignored: the group
\* may exist already, or the call may fail because Redis is not up yet.
StartWorker ==
    /\ worker = "down"
    /\ worker' = "read"
    /\ \/ group' = TRUE
       \/ "no_group" \in Faults /\ group' = group
    /\ UNCHANGED <<published, delivered, pending, next, todo, connVars>>

\* Redis executes XREADGROUP ">" without COUNT: every entry not delivered yet
\* is delivered, in one batch, and pending until it is acknowledged.
Fetch ==
    /\ group
    /\ delivered < published
    /\ delivered' = published
    /\ pending' = pending \union (delivered + 1)..published

\* XReadGroup returns the batch.
ReadGroup ==
    /\ worker = "read"
    /\ Fetch
    /\ worker' = "lock"
    /\ UNCHANGED <<published, group, next, todo, connVars>>

\* XReadGroup returns an error: no such group, or Redis cannot be reached.
ReadError ==
    /\ worker = "read"
    /\ ~group \/ "read_error" \in Faults
    /\ worker' = "sleep"
    /\ UNCHANGED <<redisVars, next, todo, connVars>>

\* Redis has executed XREADGROUP and the reply does not arrive.
ReadReplyLost ==
    /\ "reply_lost" \in Faults
    /\ worker = "read"
    /\ Fetch
    /\ next' = published + 1
    /\ worker' = "sleep"
    /\ UNCHANGED <<published, group, todo, connVars>>

\* Broadcast(payload) takes the lock; the channels are visited one by one.
BeginBroadcast ==
    /\ worker = "lock"
    /\ worker' = "send"
    /\ todo' = Registered
    /\ UNCHANGED <<redisVars, next, connVars>>

\* Mutant: the send waits for room.
SendBlocking(c) ==
    /\ worker = "send"
    /\ c \in todo
    /\ Room(c)
    /\ todo' = todo \ {c}
    /\ pushed' = [pushed EXCEPT ![c] = Append(@, next)]
    /\ UNCHANGED <<redisVars, worker, next, clients, conn, written, since>>

\* One turn of Broadcast's inner loop: a send that does not block, so a full
\* channel misses the event.  Go visits the keys in an unspecified order and a
\* key's channels in list order; any order is allowed here.
Send(c) ==
    /\ worker = "send"
    /\ c \in todo
    /\ todo' = todo \ {c}
    /\ pushed' = IF Room(c) THEN [pushed EXCEPT ![c] = Append(@, next)] ELSE pushed
    /\ UNCHANGED <<redisVars, worker, next, clients, conn, written, since>>

EndBroadcast ==
    /\ worker = "send"
    /\ todo = {}
    /\ worker' = "ack"
    /\ UNCHANGED <<redisVars, next, todo, connVars>>

\* Mutant: a message whose acknowledgement fails is broadcast again.
AckRetries ==
    /\ worker = "ack"
    /\ \/ /\ pending' = pending \ {next}
          /\ next' = next + 1
          /\ worker' = IF next < delivered THEN "lock" ELSE "sleep"
       \/ /\ "ack_lost" \in Faults
          /\ worker' = "lock"
          /\ UNCHANGED <<pending, next>>
    /\ UNCHANGED <<published, group, delivered, todo, connVars>>

\* XAck, its result ignored, and on to the next message of the batch.
Ack ==
    /\ worker = "ack"
    /\ \/ pending' = pending \ {next}
       \/ "ack_lost" \in Faults /\ pending' = pending
    /\ next' = next + 1
    /\ worker' = IF next < delivered THEN "lock" ELSE "sleep"
    /\ UNCHANGED <<published, group, delivered, todo, connVars>>

\* time.Sleep(100ms) is over.
Wake ==
    /\ worker = "sleep"
    /\ worker' = "read"
    /\ UNCHANGED <<redisVars, next, todo, connVars>>

\* The process dies or is stopped, with its batch and all its connections.
Crash ==
    /\ "crash" \in Faults
    /\ worker # "down"
    /\ worker' = "down"
    /\ next' = delivered + 1
    /\ todo' = {}
    /\ clients' = [u \in Keys |-> {}]
    /\ conn' = [c \in Conns |-> "closed"]
    /\ pushed' = [c \in Conns |-> <<>>]
    /\ written' = [c \in Conns |-> 0]
    /\ since' = [c \in Conns |-> 0]
    /\ UNCHANGED redisVars

-----------------------------------------------------------------------------
(***************************************************************************)
(* The handler of a connection.                                            *)
(***************************************************************************)

\* AddClient accepts: a fresh channel joins the hub.
Accept(c) ==
    /\ worker # "down"
    /\ HubUnlocked
    /\ conn[c] \in {"closed", "refused"}
    /\ ~Full(c)
    /\ clients' = [clients EXCEPT ![StreamUid(c)] = @ \union {c}]
    /\ conn' = [conn EXCEPT ![c] = "open"]
    /\ since' = [since EXCEPT ![c] = Cursor]
    /\ UNCHANGED <<redisVars, workerVars, pushed, written>>

\* AddClient returns an error: the answer is 429.
Refuse(c) ==
    /\ worker # "down"
    /\ HubUnlocked
    /\ conn[c] = "closed"
    /\ Full(c)
    /\ conn' = [conn EXCEPT ![c] = "refused"]
    /\ UNCHANGED <<redisVars, workerVars, clients, pushed, written, since>>

\* select: a message is taken from the channel to be written to the response.  The
\* server sets no WriteTimeout, so Write and Flush may block for ever on a client
\* that does not read: its handler then takes no further step of either kind.
Write(c) ==
    /\ conn[c] = "open"
    /\ written[c] < Len(pushed[c])
    /\ written' = [written EXCEPT ![c] = @ + 1]
    /\ UNCHANGED <<redisVars, workerVars, clients, conn, pushed, since>>

\* select: the request's context is done, whatever the channel still holds.
Hangup(c) ==
    /\ conn[c] = "open"
    /\ conn' = [conn EXCEPT ![c] = "leaving"]
    /\ UNCHANGED <<redisVars, workerVars, clients, pushed, written, since>>

\* The deferred RemoveClient; the channel goes with the handler.
RemoveClient(c) ==
    /\ conn[c] = "leaving"
    /\ HubUnlocked
    /\ clients' = [clients EXCEPT ![StreamUid(c)] = @ \ {c}]
    /\ conn' = [conn EXCEPT ![c] = "closed"]
    /\ pushed' = [pushed EXCEPT ![c] = <<>>]
    /\ written' = [written EXCEPT ![c] = 0]
    /\ since' = [since EXCEPT ![c] = 0]
    /\ UNCHANGED <<redisVars, workerVars>>

-----------------------------------------------------------------------------
Worker ==
    \/ ReadGroup \/ ReadError \/ ReadReplyLost
    \/ BeginBroadcast \/ (\E c \in Conns : Send(c)) \/ EndBroadcast
    \/ Ack \/ Wake

Handler(c) == Accept(c) \/ Refuse(c) \/ Write(c) \/ Hangup(c) \/ RemoveClient(c)

Next == Publish \/ StartWorker \/ Worker \/ Crash \/ (\E c \in Conns : Handler(c))

Spec == Init /\ [][Next]_vars

(***************************************************************************)
(* Fairness.  A goroutine that can run is eventually scheduled (WF).  A    *)
(* Redis read that is possible again and again eventually succeeds, and a  *)
(* handler waiting for the hub's lock gets it, because Go's RWMutex lets   *)
(* no new reader in before a waiting writer (SF).  Clients owe nothing: a  *)
(* handler may stay in Write for as long as its client does not read, so   *)
(* neither Write nor Hangup is fair.  Nor do publishers and failures owe   *)
(* anything, but a stopped process is restarted.                           *)
(***************************************************************************)
Fairness ==
    /\ WF_vars(StartWorker)
    /\ SF_vars(ReadGroup)
    /\ WF_vars(BeginBroadcast)
    /\ WF_vars(\E c \in Conns : Send(c))
    /\ WF_vars(EndBroadcast)
    /\ WF_vars(Ack)
    /\ WF_vars(Wake)
    /\ \A c \in Conns : SF_vars(RemoveClient(c))

FairSpec == Spec /\ Fairness

-----------------------------------------------------------------------------
(***************************************************************************)
(* Properties.                                                             *)
(***************************************************************************)

\* The values each variable ranges over; a channel never holds more than Cap.
TypeOK ==
    /\ published \in Nat
    /\ group \in BOOLEAN
    /\ delivered \in Nat
    /\ pending \subseteq Nat
    /\ worker \in {"down", "read", "lock", "send", "ack", "sleep"}
    /\ next \in Nat \ {0}
    /\ todo \subseteq Conns
    /\ clients \in [Keys -> SUBSET Conns]
    /\ conn \in [Conns -> {"closed", "open", "leaving", "refused"}]
    /\ pushed \in [Conns -> Seq(Nat)]
    /\ written \in [Conns -> Nat]
    /\ \A c \in Conns : written[c] <= Len(pushed[c]) /\ Len(pushed[c]) - written[c] <= Cap
    /\ since \in [Conns -> Nat]

\* A connection holds a place in the hub exactly while its handler runs, whatever
\* the order of AddClient, RemoveClient, Broadcast and a restart, and no key ever
\* has more than MaxConns places (AddClient, RemoveClient).
HubRegistry ==
    /\ \A u \in Keys, c \in Conns :
        c \in clients[u] <=> u = StreamUid(c) /\ conn[c] \in Live
    /\ \A u \in Keys : IsFiniteSet(clients[u]) /\ Cardinality(clients[u]) <= MaxConns

\* The events the worker holds in its batch are still pending in Redis: a
\* message is acknowledged only after its broadcast (StartWorker's loop).
BatchIsPending == worker # "down" => next..delivered \subseteq pending

\* The newest event the channel of c can hold at this point of the broadcast.
Bound(c) == IF worker = "send" /\ c \in todo THEN next - 1 ELSE Cursor

\* What a connection is sent is newer than its registration, in stream order and
\* without repetition, although registrations, removals and restarts interleave
\* with the worker's batch (Broadcast, AddClient).
ChannelOrder ==
    \A c \in Conns :
        /\ \A i \in 1..Len(pushed[c]) : since[c] < pushed[c][i] /\ pushed[c][i] <= Bound(c)
        /\ \A i, j \in 1..Len(pushed[c]) : i < j => pushed[c][i] < pushed[c][j]

\* The n-th event that c's channel accepted (or its registration, for n = 0),
\* and the newest event before the following one.
NthOf(c, n) == IF n = 0 THEN since[c] ELSE pushed[c][n]
BeforeNext(c, n) == IF n < Len(pushed[c]) THEN pushed[c][n + 1] - 1 ELSE Bound(c)

\* A connection misses an event only because its channel was full: until the
\* channel has accepted Cap events nothing is skipped, save events whose
\* XREADGROUP reply was lost, and those stay pending in Redis (Broadcast).
EarlyGapsAreLost ==
    \A c \in Conns : conn[c] \in Live =>
        \A n \in 0..Len(pushed[c]) : n < Cap =>
            (NthOf(c, n) + 1)..BeforeNext(c, n) \subseteq pending

\* A connection misses what its full channel could not take, and nothing else that is not
\* still pending in Redis, where a restarted worker does not look (StartWorker, Broadcast).
NothingElseIsMissed == BatchIsPending /\ EarlyGapsAreLost

Feed == INSTANCE EventFeed WITH
    cursor <- Cursor,
    subscribed <- {c \in Conns : conn[c] \in Live},
    got <- [c \in Conns |-> SubSeq(pushed[c], 1, written[c])]

\* The hub implements the feed: what is written to a subscription was published,
\* was handed out after the subscription began, comes in order and at most once,
\* and no event is handed out twice, not even across a restart.
ImplementsFeed == Feed!Spec

\* The worker reads every event, although no connection need ever read anything: a
\* full channel never holds the broadcast up (Broadcast's default case).
EveryEventIsRead ==
    \A n \in 1..MaxEvents : (group /\ published >= n) ~> (delivered >= n /\ worker = "read")

\* A client that has left gives its place back, although the channels of it and of
\* others are full and nobody reads them: Broadcast never waits for a handler that
\* waits for Broadcast's lock, which would answer 429 for ever (Broadcast's default
\* case, RemoveClient).
PlacesAreReturned ==
    \A c \in Conns : conn[c] = "leaving" ~> c \notin Registered
=============================================================================
