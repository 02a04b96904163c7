---------------------------- MODULE SseHubProofs ----------------------------
(***************************************************************************)
(* Proofs about SseHub, for any connections, users, limits and faults.     *)
(***************************************************************************)
EXTENDS SseHub, FiniteSetTheorems, TLAPS

(***************************************************************************)
(* Every variable keeps its type.  The bound on a channel needs no more:   *)
(* only Send lengthens one, and only into a channel with room.             *)
(***************************************************************************)
THEOREM TypeCorrect == Spec => []TypeOK
<1>1. Init => TypeOK
  <2> SUFFICES ASSUME Init PROVE TypeOK
    OBVIOUS
  <2>1. /\ clients \in [Keys -> SUBSET Conns]
        /\ conn \in [Conns -> {"closed", "open", "leaving", "refused"}]
        /\ written \in [Conns -> Nat]
        /\ since \in [Conns -> Nat]
    BY DEF Init
  <2>2. pushed \in [Conns -> Seq(Nat)]
    BY DEF Init
  <2>3. \A c \in Conns : Len(pushed[c]) = 0 /\ written[c] = 0
    BY DEF Init
  <2>4. \A c \in Conns : written[c] <= Len(pushed[c]) /\ Len(pushed[c]) - written[c] <= Cap
    BY <2>3, SseAssumption
  <2>5. /\ published \in Nat /\ delivered \in Nat /\ next \in Nat \ {0}
        /\ worker \in {"down", "read", "lock", "send", "ack", "sleep"}
    BY DEF Init
  <2>6. pending \subseteq Nat /\ todo \subseteq Conns /\ group \in BOOLEAN
    BY DEF Init
  <2>7. QED
    BY <2>1, <2>2, <2>4, <2>5, <2>6 DEF TypeOK
<1>2. TypeOK /\ [Next]_vars => TypeOK'
  <2> SUFFICES ASSUME TypeOK, [Next]_vars PROVE TypeOK'
    OBVIOUS
  <2> USE SseAssumption DEF TypeOK
  <2>1. CASE Publish
    BY <2>1 DEF Publish, workerVars, connVars
  <2>2. CASE StartWorker
    BY <2>2 DEF StartWorker, connVars
  <2>3. CASE ReadGroup
    BY <2>3 DEF ReadGroup, Fetch, connVars
  <2>4. CASE ReadError
    BY <2>4 DEF ReadError, redisVars, connVars
  <2>5. CASE ReadReplyLost
    BY <2>5 DEF ReadReplyLost, Fetch, connVars
  <2>6. CASE BeginBroadcast
    BY <2>6 DEF BeginBroadcast, redisVars, connVars, Registered
  <2>7. ASSUME NEW c \in Conns, Send(c) PROVE TypeOK'
    <3> USE <2>7 DEF Send, redisVars
    <3>1. pushed' \in [Conns -> Seq(Nat)]
      OBVIOUS
    <3>2. ASSUME NEW d \in Conns
          PROVE  /\ written'[d] <= Len(pushed'[d])
                 /\ Len(pushed'[d]) - written'[d] <= Cap
      BY DEF Room
    <3>3. QED
      BY <3>1, <3>2
  <2>8. CASE EndBroadcast
    BY <2>8 DEF EndBroadcast, redisVars, connVars
  <2>9. CASE Ack
    <3> USE <2>9 DEF Ack, connVars
    <3>0. pending' \subseteq pending
      OBVIOUS
    <3>1. next' \in Nat \ {0} /\ pending' \subseteq Nat
      BY <3>0
    <3>2. worker' \in {"down", "read", "lock", "send", "ack", "sleep"}
      OBVIOUS
    <3>3. QED
      BY <3>1, <3>2
  <2>10. CASE Wake
    BY <2>10 DEF Wake, redisVars, connVars
  <2>11. CASE Crash
    <3> USE <2>11 DEF Crash, redisVars
    <3>1. /\ clients' \in [Keys -> SUBSET Conns]
          /\ conn' \in [Conns -> {"closed", "open", "leaving", "refused"}]
          /\ pushed' \in [Conns -> Seq(Nat)]
          /\ written' \in [Conns -> Nat]
          /\ since' \in [Conns -> Nat]
      OBVIOUS
    <3>2. \A c \in Conns : Len(pushed'[c]) = 0 /\ written'[c] = 0
      OBVIOUS
    <3>3. QED
      BY <3>1, <3>2
  <2>12. ASSUME NEW c \in Conns, Accept(c) PROVE TypeOK'
    <3>1. Cursor \in Nat
      BY DEF Cursor
    <3>2. StreamUid(c) \in Keys
      BY DEF StreamUid, Keys
    <3>3. QED
      BY <2>12, <3>1, <3>2 DEF Accept, redisVars, workerVars
  <2>13. ASSUME NEW c \in Conns, Refuse(c) PROVE TypeOK'
    BY <2>13 DEF Refuse, redisVars, workerVars
  <2>14. ASSUME NEW c \in Conns, Write(c) PROVE TypeOK'
    BY <2>14 DEF Write, redisVars, workerVars
  <2>15. ASSUME NEW c \in Conns, Hangup(c) PROVE TypeOK'
    BY <2>15 DEF Hangup, redisVars, workerVars
  <2>16. ASSUME NEW c \in Conns, RemoveClient(c) PROVE TypeOK'
    <3> USE <2>16 DEF RemoveClient, redisVars, workerVars
    <3>1. /\ clients' \in [Keys -> SUBSET Conns]
          /\ conn' \in [Conns -> {"closed", "open", "leaving", "refused"}]
          /\ pushed' \in [Conns -> Seq(Nat)]
          /\ written' \in [Conns -> Nat]
          /\ since' \in [Conns -> Nat]
      BY DEF StreamUid, Keys
    <3>2. ASSUME NEW d \in Conns
          PROVE  /\ written'[d] <= Len(pushed'[d])
                 /\ Len(pushed'[d]) - written'[d] <= Cap
      OBVIOUS
    <3>3. QED
      BY <3>1, <3>2
  <2>17. CASE UNCHANGED vars
    BY <2>17 DEF vars
  <2>18. QED
    BY <2>1, <2>2, <2>3, <2>4, <2>5, <2>6, <2>7, <2>8, <2>9, <2>10, <2>11,
       <2>12, <2>13, <2>14, <2>15, <2>16, <2>17 DEF Next, Worker, Handler
<1>3. QED
  BY <1>1, <1>2, PTL DEF Spec

-----------------------------------------------------------------------------
(***************************************************************************)
(* Where the worker stands determines how its batch relates to what Redis  *)
(* has delivered, and only a broadcast under way has channels to visit.    *)
(***************************************************************************)
WorkerInv ==
    /\ delivered <= published
    /\ worker \in {"down", "read", "sleep"} => next = delivered + 1
    /\ worker \in {"lock", "send", "ack"} => next <= delivered
    /\ worker # "send" => todo = {}
    /\ worker = "down" => \A c \in Conns : conn[c] = "closed"
    /\ \A c \in todo : conn[c] \in Live
    /\ \A c \in Conns : conn[c] \notin Live => pushed[c] = <<>> /\ written[c] = 0 /\ since[c] = 0

LEMMA WorkerInitial == Init => WorkerInv
  BY DEF Init, WorkerInv, Live

LEMMA CaseSplit ==
    ASSUME [Next]_vars
    PROVE  \/ Publish \/ StartWorker \/ ReadGroup \/ ReadError \/ ReadReplyLost
           \/ BeginBroadcast \/ (\E c \in Conns : Send(c)) \/ EndBroadcast
           \/ Ack \/ Wake \/ Crash
           \/ (\E c \in Conns : Accept(c) \/ Refuse(c) \/ Write(c) \/ Hangup(c) \/ RemoveClient(c))
           \/ UNCHANGED vars
  BY DEF Next, Worker, Handler

(***************************************************************************)
(* The registry: connections have places exactly while they are live.      *)
(***************************************************************************)
LEMMA RegistryInitial == Init => HubRegistry
<1> SUFFICES ASSUME Init PROVE HubRegistry
  OBVIOUS
<1>1. \A u \in Keys : clients[u] = {}
  BY DEF Init
<1>2. \A u \in Keys : IsFiniteSet(clients[u]) /\ Cardinality(clients[u]) <= MaxConns
  BY <1>1, FS_EmptySet, SseAssumption
<1>3. QED
  BY <1>1, <1>2 DEF Init, HubRegistry, Live

LEMMA RegistryStep ==
    ASSUME TypeOK, TypeOK', HubRegistry, [Next]_vars
    PROVE  HubRegistry'
<1>k. \A c \in Conns : StreamUid(c) \in Keys
  BY DEF StreamUid, Keys
<1>1. CASE UNCHANGED <<clients, conn>>
  BY <1>1 DEF HubRegistry, Live, StreamUid
<1>2. CASE Crash
  <2>1. \A u \in Keys : clients'[u] = {}
    BY <1>2 DEF Crash
  <2>2. \A c \in Conns : conn'[c] \notin Live
    BY <1>2 DEF Crash, Live
  <2>3. \A u \in Keys : IsFiniteSet(clients'[u]) /\ Cardinality(clients'[u]) <= MaxConns
    BY <2>1, FS_EmptySet, SseAssumption
  <2>4. QED
    BY <2>1, <2>2, <2>3 DEF HubRegistry
<1>3. ASSUME NEW c \in Conns, Accept(c) PROVE HubRegistry'
  <2> DEFINE k == StreamUid(c)
  <2>1. k \in Keys /\ clients' = [clients EXCEPT ![k] = clients[k] \union {c}]
    BY <1>3, <1>k DEF Accept
  <2>2. IsFiniteSet(clients[k]) /\ Cardinality(clients[k]) < MaxConns
    <3>1. IsFiniteSet(clients[k]) /\ ~(Cardinality(clients[k]) >= MaxConns)
      BY <1>3, <2>1 DEF Accept, Full, HubRegistry
    <3>2. Cardinality(clients[k]) \in Nat
      BY <3>1, FS_CardinalityType
    <3>3. QED
      BY <3>1, <3>2, SseAssumption
  <2>3. IsFiniteSet(clients'[k]) /\ Cardinality(clients'[k]) <= MaxConns
    <3>1. clients'[k] = clients[k] \union {c}
      BY <2>1 DEF TypeOK
    <3>2. Cardinality(clients[k]) \in Nat
      BY <2>2, FS_CardinalityType
    <3>3. /\ IsFiniteSet(clients[k] \union {c})
          /\ Cardinality(clients[k] \union {c}) <= Cardinality(clients[k]) + 1
      BY <2>2, <3>2, FS_AddElement
    <3>4. Cardinality(clients[k] \union {c}) \in Nat
      BY <3>3, FS_CardinalityType
    <3>5. QED
      BY <2>2, <3>1, <3>2, <3>3, <3>4, SseAssumption
  <2>4. \A u \in Keys : IsFiniteSet(clients'[u]) /\ Cardinality(clients'[u]) <= MaxConns
    BY <2>1, <2>3 DEF HubRegistry, TypeOK
  <2>5. \A u \in Keys, d \in Conns : d \in clients'[u] <=> u = StreamUid(d) /\ conn'[d] \in Live
    BY <1>3, <2>1 DEF Accept, HubRegistry, TypeOK, Live
  <2>6. QED
    BY <2>4, <2>5 DEF HubRegistry, StreamUid
<1>4. ASSUME NEW c \in Conns, RemoveClient(c) PROVE HubRegistry'
  <2> DEFINE k == StreamUid(c)
  <2>1. k \in Keys /\ clients' = [clients EXCEPT ![k] = clients[k] \ {c}]
    BY <1>4, <1>k DEF RemoveClient
  <2>2. IsFiniteSet(clients'[k]) /\ Cardinality(clients'[k]) <= MaxConns
    <3>1. clients'[k] = clients[k] \ {c}
      BY <2>1 DEF TypeOK
    <3>2. IsFiniteSet(clients[k]) /\ Cardinality(clients[k]) <= MaxConns
      BY <2>1 DEF HubRegistry
    <3>3. /\ IsFiniteSet(clients[k] \ {c})
          /\ Cardinality(clients[k] \ {c}) <= Cardinality(clients[k])
      <4>1. clients[k] \ {c} \subseteq clients[k]
        OBVIOUS
      <4>2. QED
        BY <3>2, <4>1, FS_Subset
    <3>4. Cardinality(clients[k]) \in Nat /\ Cardinality(clients[k] \ {c}) \in Nat
      BY <3>2, <3>3, FS_CardinalityType
    <3>5. QED
      BY <3>1, <3>2, <3>3, <3>4, SseAssumption
  <2>3. \A u \in Keys : IsFiniteSet(clients'[u]) /\ Cardinality(clients'[u]) <= MaxConns
    BY <2>1, <2>2 DEF HubRegistry, TypeOK
  <2>4. \A u \in Keys, d \in Conns : d \in clients'[u] <=> u = StreamUid(d) /\ conn'[d] \in Live
    BY <1>4, <2>1 DEF RemoveClient, HubRegistry, TypeOK, Live
  <2>5. QED
    BY <2>3, <2>4 DEF HubRegistry, StreamUid
<1>5. ASSUME NEW c \in Conns, Refuse(c) PROVE HubRegistry'
  <2>1. clients' = clients /\ \A d \in Conns : conn[d] \in Live <=> conn'[d] \in Live
    BY <1>5 DEF Refuse, TypeOK, Live
  <2>2. QED
    BY <2>1 DEF HubRegistry, StreamUid
<1>6. ASSUME NEW c \in Conns, Hangup(c) PROVE HubRegistry'
  <2>1. clients' = clients /\ \A d \in Conns : conn[d] \in Live <=> conn'[d] \in Live
    BY <1>6 DEF Hangup, TypeOK, Live
  <2>2. QED
    BY <2>1 DEF HubRegistry, StreamUid
<1>7. QED
  <2>1. CASE \/ Publish \/ StartWorker \/ ReadGroup \/ ReadError \/ ReadReplyLost
             \/ BeginBroadcast \/ (\E c \in Conns : Send(c)) \/ EndBroadcast
             \/ Ack \/ Wake \/ (\E c \in Conns : Write(c)) \/ UNCHANGED vars
    BY <1>1, <2>1 DEF Publish, StartWorker, ReadGroup, ReadError, ReadReplyLost,
       BeginBroadcast, Send, EndBroadcast, Ack, Wake, Write, connVars, vars
  <2>2. QED
    BY <1>2, <1>3, <1>4, <1>5, <1>6, <2>1, CaseSplit

(***************************************************************************)
(* HubRegistry is inductive given the types: no interleaving of AddClient, *)
(* RemoveClient, Broadcast and restarts leaks a place or exceeds the limit.*)
(***************************************************************************)
THEOREM RegistryCorrect == Spec => []HubRegistry
<1>1. Init => HubRegistry
  BY RegistryInitial
<1>2. TypeOK /\ TypeOK' /\ HubRegistry /\ [Next]_vars => HubRegistry'
  BY RegistryStep
<1>3. QED
  BY <1>1, <1>2, TypeCorrect, PTL DEF Spec

-----------------------------------------------------------------------------
(***************************************************************************)
(* The worker's position and its batch.                                    *)
(***************************************************************************)
LEMMA WorkerStep ==
    ASSUME TypeOK, TypeOK', HubRegistry, WorkerInv, [Next]_vars
    PROVE  WorkerInv'
<1> USE DEF WorkerInv, TypeOK, Live
<1>1. CASE Publish
  BY <1>1 DEF Publish, workerVars, connVars
<1>2. CASE StartWorker
  BY <1>2 DEF StartWorker, connVars
<1>3. CASE ReadGroup
  BY <1>3 DEF ReadGroup, Fetch, connVars
<1>4. CASE ReadError
  BY <1>4 DEF ReadError, redisVars, connVars
<1>5. CASE ReadReplyLost
  BY <1>5 DEF ReadReplyLost, Fetch, connVars
<1>6. CASE BeginBroadcast
  <2>1. \A c \in Registered : conn[c] \in Live
    BY DEF Registered, HubRegistry
  <2>2. QED
    BY <1>6, <2>1 DEF BeginBroadcast, redisVars, connVars
<1>7. ASSUME NEW c \in Conns, Send(c) PROVE WorkerInv'
  <2> USE <1>7 DEF Send, redisVars
  <2>1. conn[c] \in Live
    OBVIOUS
  <2>2. \A d \in Conns : d # c => pushed'[d] = pushed[d]
    OBVIOUS
  <2>3. QED
    BY <2>1, <2>2
<1>8. CASE EndBroadcast
  BY <1>8 DEF EndBroadcast, redisVars, connVars
<1>9. CASE Ack
  BY <1>9 DEF Ack, connVars
<1>10. CASE Wake
  BY <1>10 DEF Wake, redisVars, connVars
<1>11. CASE Crash
  BY <1>11 DEF Crash, redisVars
<1>12. ASSUME NEW c \in Conns, Accept(c) PROVE WorkerInv'
  BY <1>12 DEF Accept, redisVars, workerVars, HubUnlocked
<1>13. ASSUME NEW c \in Conns, Refuse(c) PROVE WorkerInv'
  BY <1>13 DEF Refuse, redisVars, workerVars, HubUnlocked
<1>14. ASSUME NEW c \in Conns, Write(c) PROVE WorkerInv'
  BY <1>14 DEF Write, redisVars, workerVars
<1>15. ASSUME NEW c \in Conns, Hangup(c) PROVE WorkerInv'
  BY <1>15 DEF Hangup, redisVars, workerVars
<1>16. ASSUME NEW c \in Conns, RemoveClient(c) PROVE WorkerInv'
  BY <1>16 DEF RemoveClient, redisVars, workerVars, HubUnlocked
<1>17. CASE UNCHANGED vars
  BY <1>17 DEF vars
<1>18. QED
  BY <1>1, <1>2, <1>3, <1>4, <1>5, <1>6, <1>7, <1>8, <1>9, <1>10, <1>11, <1>12,
     <1>13, <1>14, <1>15, <1>16, <1>17, CaseSplit

THEOREM WorkerCorrect == Spec => []WorkerInv
<1>1. Init => WorkerInv
  BY WorkerInitial
<1>2. TypeOK /\ TypeOK' /\ HubRegistry /\ WorkerInv /\ [Next]_vars => WorkerInv'
  BY WorkerStep
<1>3. QED
  BY <1>1, <1>2, TypeCorrect, RegistryCorrect, PTL DEF Spec

(***************************************************************************)
(* A message is acknowledged only after its broadcast: what remains of the *)
(* batch is pending in Redis.                                              *)
(***************************************************************************)
THEOREM BatchStaysPending == Spec => []BatchIsPending
<1>1. Init => BatchIsPending
  BY DEF Init, BatchIsPending
<1>2. TypeOK /\ WorkerInv /\ BatchIsPending /\ [Next]_vars => BatchIsPending'
  <2> SUFFICES ASSUME TypeOK, WorkerInv, BatchIsPending, [Next]_vars PROVE BatchIsPending'
    OBVIOUS
  <2> USE DEF TypeOK, WorkerInv, BatchIsPending
  <2>1. CASE StartWorker
    BY <2>1 DEF StartWorker, connVars
  <2>2. CASE ReadGroup
    BY <2>2 DEF ReadGroup, Fetch, connVars
  <2>3. CASE ReadReplyLost
    BY <2>3 DEF ReadReplyLost, Fetch, connVars
  <2>4. CASE Ack
    BY <2>4 DEF Ack, connVars
  <2>5. CASE Crash
    BY <2>5 DEF Crash
  <2>6. CASE worker # "down" /\ UNCHANGED <<next, delivered, pending>>
    BY <2>6
  <2>7. CASE UNCHANGED <<worker, next, delivered, pending>>
    BY <2>7
  <2>8. CASE \/ Publish \/ ReadError \/ BeginBroadcast \/ (\E c \in Conns : Send(c))
             \/ EndBroadcast \/ Wake
             \/ (\E c \in Conns : Accept(c) \/ Refuse(c) \/ Write(c) \/ Hangup(c) \/ RemoveClient(c))
             \/ UNCHANGED vars
    BY <2>6, <2>7, <2>8 DEF Publish, ReadError, BeginBroadcast, Send, EndBroadcast, Wake,
       Accept, Refuse, Write, Hangup, RemoveClient, redisVars, workerVars, vars
  <2>9. QED
    BY <2>1, <2>2, <2>3, <2>4, <2>5, <2>8, CaseSplit
<1>3. QED
  BY <1>1, <1>2, TypeCorrect, WorkerCorrect, PTL DEF Spec

-----------------------------------------------------------------------------
(***************************************************************************)
(* The order of a channel.  The strengthening says that a registration is  *)
(* never ahead of what the channel may hold; Bound(c) only grows, except   *)
(* when the process goes down and empties every channel.                   *)
(***************************************************************************)
ChannelInv == ChannelOrder /\ \A c \in Conns : since[c] <= Bound(c)

LEMMA BoundIsNat == TypeOK => \A c \in Conns : Bound(c) \in Nat
  BY DEF TypeOK, Bound, Cursor

LEMMA BoundPrimeIsNat ==
    ASSUME TypeOK', NEW c \in Conns
    PROVE  Bound(c)' \in Nat
<1>1. next' \in Nat \ {0}
  BY DEF TypeOK
<1>2. \A n \in Nat \ {0} : n - 1 \in Nat
  OBVIOUS
<1>3. Bound(c)' = next' \/ Bound(c)' = next' - 1
  BY DEF Bound, Cursor
<1>4. QED
  BY <1>1, <1>2, <1>3

LEMMA EventsAreNat ==
    TypeOK => \A c \in Conns : /\ Len(pushed[c]) \in Nat
                                /\ since[c] \in Nat
                                /\ \A i \in 1..Len(pushed[c]) : pushed[c][i] \in Nat
<1> SUFFICES ASSUME TypeOK, NEW c \in Conns
             PROVE  /\ Len(pushed[c]) \in Nat
                    /\ since[c] \in Nat
                    /\ \A i \in 1..Len(pushed[c]) : pushed[c][i] \in Nat
  OBVIOUS
<1>1. pushed[c] \in Seq(Nat) /\ since[c] \in Nat
  BY DEF TypeOK
<1>2. QED
  BY <1>1

LEMMA BoundGrows ==
    ASSUME TypeOK, TypeOK', WorkerInv, [Next]_vars, ~Crash, NEW c \in Conns
    PROVE  Bound(c) <= Bound(c)'
<1> USE DEF TypeOK, WorkerInv, Bound, Cursor
<1>0. next \in Nat \ {0} /\ next' \in Nat \ {0}
  OBVIOUS
<1>1. CASE StartWorker
  BY <1>1 DEF StartWorker
<1>2. CASE ReadGroup
  BY <1>2 DEF ReadGroup
<1>3. CASE ReadError
  BY <1>3 DEF ReadError
<1>4. CASE ReadReplyLost
  BY <1>4 DEF ReadReplyLost, Fetch
<1>5. CASE BeginBroadcast
  BY <1>5 DEF BeginBroadcast
<1>6. CASE \E d \in Conns : Send(d)
  <2>1. worker = "send" /\ worker' = "send" /\ next' = next /\ todo' \subseteq todo
    BY <1>6 DEF Send
  <2>2. Bound(c)' = IF c \in todo' THEN next - 1 ELSE next
    BY <2>1
  <2>3. Bound(c) = IF c \in todo THEN next - 1 ELSE next
    BY <2>1
  <2>4. QED
    BY <1>0, <2>1, <2>2, <2>3
<1>7. CASE EndBroadcast
  BY <1>7 DEF EndBroadcast
<1>8. CASE Ack
  <2>1. worker = "ack" /\ next' = next + 1 /\ worker' \in {"lock", "sleep"}
    BY <1>8 DEF Ack
  <2>2. QED
    BY <1>0, <2>1
<1>9. CASE Wake
  BY <1>9 DEF Wake
<1>10. CASE UNCHANGED workerVars
  BY <1>10 DEF workerVars
<1>11. CASE \/ Publish \/ UNCHANGED vars
            \/ \E d \in Conns : Accept(d) \/ Refuse(d) \/ Write(d) \/ Hangup(d) \/ RemoveClient(d)
  <2>1. UNCHANGED workerVars
    BY <1>11 DEF Publish, Accept, Refuse, Write, Hangup, RemoveClient, workerVars, vars
  <2>2. QED
    BY <2>1, <1>10
<1>12. QED
  BY <1>1, <1>2, <1>3, <1>4, <1>5, <1>6, <1>7, <1>8, <1>9, <1>11, CaseSplit

LEMMA ChannelStep ==
    ASSUME TypeOK, TypeOK', WorkerInv, ChannelInv, [Next]_vars
    PROVE  ChannelInv'
<1> USE DEF ChannelInv, ChannelOrder
<1>a. \A c \in Conns : Bound(c)' \in Nat
  BY BoundPrimeIsNat
<1>b. \A c \in Conns : Bound(c) \in Nat /\ Bound(c)' \in Nat
  BY <1>a, BoundIsNat
<1>1. CASE Crash
  <2>1. \A c \in Conns : Len(pushed'[c]) = 0 /\ since'[c] = 0
    BY <1>1 DEF Crash
  <2>2. QED
    BY <2>1, <1>b
<1>2. CASE ~Crash /\ UNCHANGED <<pushed, since>>
  <2>1. pushed' = pushed /\ since' = since /\ \A c \in Conns : Bound(c) <= Bound(c)'
    BY <1>2, BoundGrows
  <2>2. QED
    BY <1>b, <2>1, EventsAreNat
<1>3. ASSUME NEW c \in Conns, Send(c) PROVE ChannelInv'
  <2> USE <1>3 DEF Send
  <2>1. \A d \in Conns : Bound(d) <= Bound(d)'
    BY BoundGrows DEF Crash
  <2>2. Bound(c) = next - 1 /\ Bound(c)' = next /\ since' = since
    BY DEF Bound, Cursor
  <2>3. ASSUME NEW d \in Conns, d # c
        PROVE  pushed'[d] = pushed[d]
    BY <2>3 DEF TypeOK
  <2>4. CASE ~Room(c)
    <3>1. pushed' = pushed /\ since' = since
      BY <2>4
    <3>2. QED
      BY <1>b, <2>1, <3>1, EventsAreNat
  <2>5. CASE Room(c)
    <3>1. /\ Len(pushed'[c]) = Len(pushed[c]) + 1
          /\ pushed'[c][Len(pushed[c]) + 1] = next
          /\ \A i \in 1..Len(pushed[c]) : pushed'[c][i] = pushed[c][i]
      BY <2>5 DEF TypeOK
    <3>2. Len(pushed[c]) \in Nat /\ next \in Nat /\ since[c] \in Nat
      BY DEF TypeOK
    <3>3. \A i \in 1..Len(pushed[c]) : pushed[c][i] \in Nat
      BY DEF TypeOK
    <3>4. \A i \in 1..Len(pushed'[c]) : since'[c] < pushed'[c][i] /\ pushed'[c][i] <= Bound(c)'
      BY <2>2, <3>1, <3>2, <3>3
    <3>5. \A i, j \in 1..Len(pushed'[c]) : i < j => pushed'[c][i] < pushed'[c][j]
      BY <2>2, <3>1, <3>2, <3>3
    <3>6. \A d \in Conns : since'[d] <= Bound(d)'
      BY <1>b, <2>1, <2>2 DEF TypeOK
    <3>7. ASSUME NEW d \in Conns, d # c
          PROVE  /\ \A i \in 1..Len(pushed'[d]) : since'[d] < pushed'[d][i] /\ pushed'[d][i] <= Bound(d)'
                 /\ \A i, j \in 1..Len(pushed'[d]) : i < j => pushed'[d][i] < pushed'[d][j]
      <4>1. pushed'[d] = pushed[d] /\ since'[d] = since[d]
        BY <2>2, <2>3, <3>7
      <4>2. /\ \A i \in 1..Len(pushed[d]) : since[d] < pushed[d][i] /\ pushed[d][i] <= Bound(d)
            /\ \A i, j \in 1..Len(pushed[d]) : i < j => pushed[d][i] < pushed[d][j]
            /\ Bound(d) <= Bound(d)' /\ Bound(d) \in Nat /\ Bound(d)' \in Nat
        BY <1>b, <2>1
      <4>3. \A i \in 1..Len(pushed[d]) : pushed[d][i] \in Nat
        BY EventsAreNat
      <4>4. \A i \in 1..Len(pushed[d]) : pushed[d][i] <= Bound(d)'
        BY <4>2, <4>3
      <4>5. QED
        BY <4>1, <4>2, <4>4
    <3>8. QED
      BY <3>4, <3>5, <3>6, <3>7
  <2>6. QED
    BY <2>4, <2>5
<1>4. ASSUME NEW c \in Conns, Accept(c) PROVE ChannelInv'
  <2>1. pushed' = pushed /\ Len(pushed[c]) = 0
    BY <1>4 DEF Accept, WorkerInv, Live, TypeOK
  <2>2. since' = [since EXCEPT ![c] = Cursor] /\ Cursor = Bound(c)'
    BY <1>4 DEF Accept, Bound, Cursor, HubUnlocked, workerVars
  <2>3. \A d \in Conns : Bound(d) = Bound(d)'
    BY <1>4 DEF Accept, Bound, Cursor, workerVars
  <2>4. QED
    <3>1. ASSUME NEW d \in Conns, d # c
          PROVE  since'[d] = since[d]
      BY <2>2, <3>1 DEF TypeOK
    <3>2. since'[c] = Bound(c)'
      BY <2>2 DEF TypeOK
    <3>3. QED
      BY <1>b, <2>1, <2>3, <3>1, <3>2
<1>5. ASSUME NEW c \in Conns, RemoveClient(c) PROVE ChannelInv'
  <2>1. Len(pushed'[c]) = 0 /\ since'[c] = 0
    BY <1>5 DEF RemoveClient, TypeOK
  <2>2. \A d \in Conns : d # c => pushed'[d] = pushed[d] /\ since'[d] = since[d]
    BY <1>5 DEF RemoveClient, TypeOK
  <2>3. \A d \in Conns : Bound(d) = Bound(d)'
    BY <1>5 DEF RemoveClient, Bound, Cursor, workerVars
  <2>4. QED
    BY <1>b, <2>1, <2>2, <2>3
<1>6. CASE \/ Publish \/ StartWorker \/ ReadGroup \/ ReadError \/ ReadReplyLost
           \/ BeginBroadcast \/ EndBroadcast \/ Ack \/ Wake
           \/ (\E c \in Conns : Refuse(c) \/ Write(c) \/ Hangup(c)) \/ UNCHANGED vars
  <2>1. UNCHANGED <<pushed, since>>
    BY <1>6 DEF Publish, StartWorker, ReadGroup, ReadError, ReadReplyLost, BeginBroadcast,
       EndBroadcast, Ack, Wake, Refuse, Write, Hangup, connVars, vars
  <2>2. QED
    BY <1>1, <1>2, <2>1
<1>7. QED
  BY <1>1, <1>3, <1>4, <1>5, <1>6, CaseSplit

LEMMA ChannelInvariant == Spec => []ChannelInv
<1>1. Init => ChannelInv
  <2> SUFFICES ASSUME Init PROVE ChannelInv
    OBVIOUS
  <2>1. \A c \in Conns : Len(pushed[c]) = 0 /\ since[c] = 0 /\ Bound(c) = 0
    BY DEF Init, Bound, Cursor
  <2>2. QED
    BY <2>1 DEF ChannelInv, ChannelOrder
<1>2. TypeOK /\ TypeOK' /\ WorkerInv /\ ChannelInv /\ [Next]_vars => ChannelInv'
  BY ChannelStep
<1>3. QED
  BY <1>1, <1>2, TypeCorrect, WorkerCorrect, PTL DEF Spec

(***************************************************************************)
(* A connection is sent events newer than its registration, in the order   *)
(* of the stream and each once.                                            *)
(***************************************************************************)
THEOREM ChannelsAreOrdered == Spec => []ChannelOrder
<1>1. ChannelInv => ChannelOrder
  BY DEF ChannelInv
<1>2. QED
  BY <1>1, ChannelInvariant, PTL

-----------------------------------------------------------------------------
(***************************************************************************)
(* What a connection misses.  The strengthening says that, once a          *)
(* broadcast has visited a channel that has accepted fewer than Cap        *)
(* events, the event being broadcast is the last one it accepted, or it    *)
(* registered since: acknowledging that event then removes from pending    *)
(* nothing the channel has missed.                                         *)
(***************************************************************************)
NoGap(c) == \A n \in 0..Len(pushed[c]) : n < Cap =>
                (NthOf(c, n) + 1)..BeforeNext(c, n) \subseteq pending

Visited(c) ==
    worker \in {"send", "ack"} /\ c \notin todo /\ Len(pushed[c]) < Cap
        => NthOf(c, Len(pushed[c])) = next

GapInv == \A c \in Conns : conn[c] \in Live => NoGap(c) /\ Visited(c)

LEMMA PositionsAreNat ==
    ASSUME TypeOK, NEW c \in Conns, NEW n \in 0..Len(pushed[c])
    PROVE  NthOf(c, n) \in Nat
<1>1. CASE n = 0
  BY <1>1, EventsAreNat DEF NthOf
<1>2. CASE n # 0
  <2>1. n \in 1..Len(pushed[c])
    BY <1>2, EventsAreNat
  <2>2. QED
    BY <1>2, <2>1, EventsAreNat DEF NthOf
<1>3. QED
  BY <1>1, <1>2

LEMMA NoGapKept ==
    ASSUME TypeOK, NEW c \in Conns, NoGap(c),
           pushed'[c] = pushed[c], since'[c] = since[c],
           pending \subseteq pending', Bound(c)' \in Nat,
           (Bound(c) + 1)..Bound(c)' \subseteq pending'
    PROVE  NoGap(c)'
<1> SUFFICES ASSUME NEW n \in 0..Len(pushed[c]), n < Cap,
                    NEW e \in (NthOf(c, n) + 1)..(BeforeNext(c, n)')
             PROVE  e \in pending'
  <2>1. \A n : NthOf(c, n)' = NthOf(c, n)
    BY DEF NthOf
  <2>2. QED
    BY <2>1 DEF NoGap
<1>1. CASE n < Len(pushed[c])
  BY <1>1 DEF NoGap, BeforeNext
<1>2. CASE ~(n < Len(pushed[c]))
  <2>1. BeforeNext(c, n) = Bound(c) /\ BeforeNext(c, n)' = Bound(c)'
    BY <1>2 DEF BeforeNext
  <2>2. NthOf(c, n) \in Nat /\ Bound(c) \in Nat
    BY PositionsAreNat, BoundIsNat
  <2>3. (NthOf(c, n) + 1)..Bound(c) \subseteq pending
    BY <2>1 DEF NoGap
  <2>4. CASE e <= Bound(c)
    BY <2>1, <2>2, <2>3, <2>4
  <2>5. CASE ~(e <= Bound(c))
    <3>1. e \in (Bound(c) + 1)..Bound(c)'
      BY <2>1, <2>2, <2>5
    <3>2. QED
      BY <3>1
  <2>6. QED
    BY <2>4, <2>5
<1>3. QED
  BY <1>1, <1>2

LEMMA GapStep ==
    ASSUME TypeOK, TypeOK', HubRegistry, WorkerInv, WorkerInv', ChannelInv, GapInv, [Next]_vars
    PROVE  GapInv'
<1>a. \A c \in Conns : Bound(c)' \in Nat
  BY BoundPrimeIsNat
<1>b. next \in Nat \ {0} /\ next' \in Nat \ {0} /\ delivered \in Nat /\ published \in Nat
  BY DEF TypeOK
<1>1. ASSUME UNCHANGED <<pending, next, todo, pushed, since>>,
             \/ worker' = worker
             \/ worker' \notin {"send", "ack"} /\ worker \notin {"send", "ack"}
             \/ worker = "send" /\ worker' = "ack",
             \A c \in Conns : conn'[c] \in Live => conn[c] \in Live
      PROVE  GapInv'
  <2> SUFFICES ASSUME NEW c \in Conns, conn'[c] \in Live PROVE NoGap(c)' /\ Visited(c)'
    BY DEF GapInv
  <2>1. NoGap(c) /\ Visited(c)
    BY <1>1 DEF GapInv
  <2>2. Visited(c)'
    BY <1>1, <2>1 DEF Visited, NthOf, WorkerInv
  <2>3. Bound(c)' = Bound(c)
    BY <1>1 DEF Bound, Cursor, WorkerInv
  <2>4. (Bound(c) + 1)..Bound(c)' = {}
    BY <2>3, BoundIsNat
  <2>5. NoGap(c)'
    BY <1>1, <1>a, <2>1, <2>4, NoGapKept
  <2>6. QED
    BY <2>2, <2>5
<1>2. CASE ReadGroup \/ ReadReplyLost
  <2> SUFFICES ASSUME NEW c \in Conns, conn'[c] \in Live PROVE NoGap(c)' /\ Visited(c)'
    BY DEF GapInv
  <2>1. UNCHANGED <<conn, pushed, since>>
    BY <1>2 DEF ReadGroup, ReadReplyLost, connVars
  <2>2. NoGap(c) /\ worker' \notin {"send", "ack"}
    BY <1>2, <2>1 DEF GapInv, ReadGroup, ReadReplyLost
  <2>3. pending' = pending \union (delivered + 1)..published
    BY <1>2 DEF ReadGroup, ReadReplyLost, Fetch
  <2>4. Bound(c) = delivered
    BY <1>2, <1>b DEF Bound, Cursor, WorkerInv, ReadGroup, ReadReplyLost
  <2>5. Bound(c)' \in {delivered, published}
    <3>1. CASE ReadGroup
      <4>1. worker' = "lock" /\ next' = next /\ next = delivered + 1
        BY <3>1 DEF ReadGroup, WorkerInv
      <4>2. Bound(c)' = next - 1
        BY <4>1 DEF Bound, Cursor
      <4>3. QED
        BY <1>b, <4>1, <4>2
    <3>2. CASE ReadReplyLost
      <4>1. worker' = "sleep" /\ next' = published + 1
        BY <3>2 DEF ReadReplyLost
      <4>2. Bound(c)' = next' - 1
        BY <4>1 DEF Bound, Cursor
      <4>3. QED
        BY <1>b, <4>1, <4>2
    <3>3. QED
      BY <1>2, <3>1, <3>2
  <2>6. (Bound(c) + 1)..Bound(c)' \subseteq pending'
    BY <1>b, <2>3, <2>4, <2>5
  <2>7. NoGap(c)'
    BY <1>a, <2>1, <2>2, <2>3, <2>6, NoGapKept
  <2>8. QED
    BY <2>2, <2>7 DEF Visited
<1>3. CASE BeginBroadcast
  <2> SUFFICES ASSUME NEW c \in Conns, conn'[c] \in Live PROVE NoGap(c)' /\ Visited(c)'
    BY DEF GapInv
  <2>1. UNCHANGED <<conn, pushed, since, pending, next>>
    BY <1>3 DEF BeginBroadcast, connVars, redisVars
  <2>2. NoGap(c)
    BY <2>1 DEF GapInv
  <2>3. c \in todo'
    BY <1>3, <2>1 DEF BeginBroadcast, Registered, HubRegistry, StreamUid, Keys
  <2>4. Bound(c)' = Bound(c)
    BY <1>3, <2>1, <2>3 DEF Bound, Cursor, BeginBroadcast
  <2>5. (Bound(c) + 1)..Bound(c)' = {}
    BY <2>4, BoundIsNat
  <2>6. NoGap(c)'
    BY <1>a, <2>1, <2>2, <2>5, NoGapKept
  <2>7. QED
    BY <2>3, <2>6 DEF Visited
<1>4. ASSUME NEW c \in Conns, Send(c) PROVE GapInv'
  <2> SUFFICES ASSUME NEW d \in Conns, conn'[d] \in Live PROVE NoGap(d)' /\ Visited(d)'
    BY DEF GapInv
  <2>1. /\ UNCHANGED <<conn, since, pending, next, worker, written>>
        /\ worker = "send" /\ c \in todo /\ todo' = todo \ {c}
    BY <1>4 DEF Send, redisVars
  <2>2. NoGap(d) /\ Visited(d)
    BY <2>1 DEF GapInv
  <2>3. CASE d # c
    <3>1. pushed'[d] = pushed[d]
      BY <1>4, <2>3 DEF Send, TypeOK
    <3>2. Bound(d)' = Bound(d)
      BY <2>1, <2>3 DEF Bound, Cursor
    <3>3. (Bound(d) + 1)..Bound(d)' = {}
      BY <3>2, BoundIsNat
    <3>4. NoGap(d)'
      BY <1>a, <2>1, <2>2, <3>1, <3>3, NoGapKept
    <3>5. Visited(d)'
      BY <2>1, <2>2, <2>3, <3>1 DEF Visited, NthOf
    <3>6. QED
      BY <3>4, <3>5
  <2>4. CASE d = c /\ ~Room(c)
    <3>1. pushed' = pushed /\ ~(Len(pushed[c]) < Cap)
      <4>1. pushed' = pushed
        BY <1>4, <2>4 DEF Send
      <4>2. Len(pushed[c]) \in Nat /\ written[c] \in Nat
        BY EventsAreNat DEF TypeOK
      <4>3. QED
        BY <2>4, <4>1, <4>2, SseAssumption DEF Room
    <3>2. Len(pushed[c]) \in Nat
      BY EventsAreNat
    <3>3. ASSUME NEW n \in 0..Len(pushed[c]), n < Cap
          PROVE  n < Len(pushed[c])
      BY <3>1, <3>2, <3>3, SseAssumption
    <3>4. NoGap(c)'
      <4>1. \A n : NthOf(c, n)' = NthOf(c, n)
        BY <2>1, <3>1 DEF NthOf
      <4>2. \A n \in 0..Len(pushed[c]) : n < Cap => BeforeNext(c, n)' = BeforeNext(c, n)
        BY <3>1, <3>3 DEF BeforeNext
      <4>3. QED
        BY <2>1, <2>2, <2>4, <3>1, <4>1, <4>2 DEF NoGap
    <3>5. QED
      BY <2>4, <3>1, <3>4 DEF Visited
  <2>5. CASE d = c /\ Room(c)
    <3>m. PICK m \in Nat : m = Len(pushed[c])
      BY EventsAreNat
    <3>1. pushed'[c] = Append(pushed[c], next)
      BY <1>4, <2>5 DEF Send, TypeOK
    <3>2. m \in Nat /\ pushed[c] \in Seq(Nat) /\ m = Len(pushed[c])
      BY <3>m, EventsAreNat DEF TypeOK
    <3>3. /\ Len(pushed'[c]) = m + 1
          /\ pushed'[c][m + 1] = next
          /\ \A i \in 1..m : pushed'[c][i] = pushed[c][i]
      BY <1>b, <3>1, <3>2
    <3>4. \A n \in 0..m : NthOf(c, n)' = NthOf(c, n)
      BY <2>1, <3>2, <3>3 DEF NthOf
    <3>5. NthOf(c, m + 1)' = next
      BY <3>2, <3>3 DEF NthOf
    <3>6. Bound(c) = next - 1 /\ Bound(c)' = next
      BY <2>1 DEF Bound, Cursor
    <3>7. ASSUME NEW n \in 0..m
          PROVE  BeforeNext(c, n)' = BeforeNext(c, n)
      <4>1. BeforeNext(c, n)' = pushed'[c][n + 1] - 1
        BY <3>2, <3>3 DEF BeforeNext
      <4>2. CASE n = m
        BY <3>2, <3>3, <3>6, <4>1, <4>2 DEF BeforeNext
      <4>3. CASE n # m
        <5>1. n < m /\ n + 1 \in 1..m
          BY <3>2, <4>3
        <5>2. QED
          BY <3>2, <3>3, <4>1, <5>1 DEF BeforeNext
      <4>4. QED
        BY <4>2, <4>3
    <3>8. BeforeNext(c, m + 1)' = next
      BY <3>2, <3>3, <3>6 DEF BeforeNext
    <3>9. NoGap(c)'
      <4>1. ASSUME NEW n \in 0..(m + 1), n < Cap
            PROVE  (NthOf(c, n)' + 1)..(BeforeNext(c, n)') \subseteq pending
        <5>1. CASE n = m + 1
          <6>1. (next + 1)..next = {}
            BY <1>b
          <6>2. QED
            BY <3>5, <3>8, <5>1, <6>1
        <5>2. CASE n # m + 1
          <6>1. n \in 0..m
            BY <3>2, <5>2
          <6>2. (NthOf(c, n) + 1)..BeforeNext(c, n) \subseteq pending
            BY <2>2, <2>5, <3>2, <4>1, <6>1 DEF NoGap
          <6>3. NthOf(c, n)' = NthOf(c, n) /\ BeforeNext(c, n)' = BeforeNext(c, n)
            BY <3>4, <3>7, <6>1
          <6>4. QED
            BY <6>2, <6>3
        <5>3. QED
          BY <5>1, <5>2
      <4>2. QED
        BY <2>1, <3>3, <4>1 DEF NoGap
    <3>10. Visited(c)'
      BY <2>1, <3>3, <3>5 DEF Visited
    <3>11. QED
      BY <2>5, <3>9, <3>10
  <2>6. QED
    BY <2>3, <2>4, <2>5
<1>5. CASE Ack
  <2> SUFFICES ASSUME NEW c \in Conns, conn'[c] \in Live PROVE NoGap(c)' /\ Visited(c)'
    BY DEF GapInv
  <2>1. /\ UNCHANGED <<conn, pushed, since, todo>>
        /\ worker = "ack" /\ worker' \notin {"send", "ack"} /\ todo = {}
        /\ next' = next + 1 /\ pending \ {next} \subseteq pending'
    BY <1>5 DEF Ack, connVars, WorkerInv
  <2>2. NoGap(c) /\ Visited(c)
    BY <2>1 DEF GapInv
  <2>3. Bound(c) = next /\ Bound(c)' = next
    BY <1>b, <2>1 DEF Bound, Cursor
  <2>4. Len(pushed[c]) \in Nat
    BY EventsAreNat
  <2>5. ASSUME NEW n \in 0..Len(pushed[c]), n < Cap
        PROVE  (NthOf(c, n)' + 1)..(BeforeNext(c, n)') \subseteq pending'
    <3>1. NthOf(c, n)' = NthOf(c, n) /\ BeforeNext(c, n)' = BeforeNext(c, n)
      BY <2>1, <2>3 DEF NthOf, BeforeNext
    <3>2. NthOf(c, n) \in Nat
      BY PositionsAreNat
    <3>3. CASE n < Len(pushed[c])
      <4>1. n + 1 \in 1..Len(pushed[c])
        BY <2>4, <3>3
      <4>2. pushed[c][n + 1] <= next /\ pushed[c][n + 1] \in Nat
        BY <2>3, <4>1, EventsAreNat DEF ChannelInv, ChannelOrder
      <4>3. next \notin (NthOf(c, n) + 1)..BeforeNext(c, n)
        BY <1>b, <3>2, <3>3, <4>2 DEF BeforeNext
      <4>4. QED
        BY <2>1, <2>2, <2>5, <3>1, <4>3 DEF NoGap
    <3>4. CASE ~(n < Len(pushed[c]))
      <4>1. n = Len(pushed[c])
        BY <2>4, <3>4
      <4>2. NthOf(c, n) = next /\ BeforeNext(c, n) = next
        BY <2>1, <2>2, <2>3, <2>5, <4>1 DEF Visited, BeforeNext
      <4>3. (next + 1)..next = {}
        BY <1>b
      <4>4. QED
        BY <3>1, <4>2, <4>3
    <3>5. QED
      BY <3>3, <3>4
  <2>6. NoGap(c)'
    BY <2>1, <2>5 DEF NoGap
  <2>7. QED
    BY <2>1, <2>6 DEF Visited
<1>6. ASSUME NEW c \in Conns, Accept(c) PROVE GapInv'
  <2> SUFFICES ASSUME NEW d \in Conns, conn'[d] \in Live PROVE NoGap(d)' /\ Visited(d)'
    BY DEF GapInv
  <2>1. /\ UNCHANGED <<pushed, pending, next, worker, todo>>
        /\ worker # "send" /\ todo = {}
    BY <1>6 DEF Accept, HubUnlocked, redisVars, workerVars, WorkerInv
  <2>2. Bound(d) = Cursor /\ Bound(d)' = Cursor
    BY <2>1 DEF Bound, Cursor
  <2>3. CASE d = c
    <3>1. Len(pushed[c]) = 0 /\ pushed' = pushed
      <4>1. conn[c] \notin Live
        BY <1>6 DEF Accept, Live
      <4>2. pushed[c] = <<>>
        BY <4>1 DEF WorkerInv
      <4>3. QED
        BY <2>1, <4>2
    <3>2. since'[c] = Cursor
      BY <1>6 DEF Accept, TypeOK
    <3>3. (Cursor + 1)..Cursor = {}
      BY <2>2, BoundIsNat
    <3>4. NthOf(c, 0)' = Cursor /\ BeforeNext(c, 0)' = Cursor
      BY <2>2, <2>3, <3>1, <3>2 DEF NthOf, BeforeNext
    <3>5. NoGap(c)'
      BY <3>1, <3>3, <3>4 DEF NoGap
    <3>6. Visited(c)'
      BY <2>1, <3>1, <3>4 DEF Visited, Cursor
    <3>7. QED
      BY <2>3, <3>5, <3>6
  <2>4. CASE d # c
    <3>1. conn'[d] = conn[d] /\ since'[d] = since[d]
      BY <1>6, <2>4 DEF Accept, TypeOK
    <3>2. NoGap(d) /\ Visited(d)
      BY <3>1 DEF GapInv
    <3>3. (Bound(d) + 1)..Bound(d)' = {}
      BY <2>2, BoundIsNat
    <3>4. NoGap(d)'
      BY <1>a, <2>1, <3>1, <3>2, <3>3, NoGapKept
    <3>5. Visited(d)'
      BY <2>1, <3>1, <3>2 DEF Visited, NthOf
    <3>6. QED
      BY <3>4, <3>5
  <2>5. QED
    BY <2>3, <2>4
<1>7. ASSUME NEW c \in Conns, RemoveClient(c) PROVE GapInv'
  <2> SUFFICES ASSUME NEW d \in Conns, conn'[d] \in Live PROVE NoGap(d)' /\ Visited(d)'
    BY DEF GapInv
  <2>1. /\ UNCHANGED <<pending, next, worker, todo>>
        /\ d # c /\ conn'[d] = conn[d] /\ since'[d] = since[d] /\ pushed'[d] = pushed[d]
    BY <1>7 DEF RemoveClient, redisVars, workerVars, TypeOK, Live
  <2>2. NoGap(d) /\ Visited(d)
    BY <2>1 DEF GapInv
  <2>3. Bound(d)' = Bound(d)
    BY <2>1 DEF Bound, Cursor
  <2>4. (Bound(d) + 1)..Bound(d)' = {}
    BY <2>3, BoundIsNat
  <2>5. NoGap(d)'
    BY <1>a, <2>1, <2>2, <2>4, NoGapKept
  <2>6. Visited(d)'
    BY <2>1, <2>2 DEF Visited, NthOf
  <2>7. QED
    BY <2>5, <2>6
<1>8. CASE Crash
  BY <1>8 DEF Crash, GapInv, Live
<1>9. CASE Publish \/ StartWorker \/ ReadError \/ EndBroadcast \/ Wake \/ UNCHANGED vars
  <2>1. UNCHANGED <<pending, next, todo, pushed, since, conn>>
    BY <1>9 DEF Publish, StartWorker, ReadError, EndBroadcast, Wake, redisVars, workerVars,
       connVars, vars
  <2>2. \/ worker' = worker
        \/ worker' \notin {"send", "ack"} /\ worker \notin {"send", "ack"}
        \/ worker = "send" /\ worker' = "ack"
    BY <1>9 DEF Publish, StartWorker, ReadError, EndBroadcast, Wake, workerVars, vars
  <2>3. \A c \in Conns : conn'[c] \in Live => conn[c] \in Live
    BY <2>1
  <2>4. QED
    BY <1>1, <2>1, <2>2, <2>3
<1>10. ASSUME NEW c \in Conns, Refuse(c) \/ Write(c) \/ Hangup(c) PROVE GapInv'
  <2>1. UNCHANGED <<pending, next, todo, pushed, since, worker>>
    BY <1>10 DEF Refuse, Write, Hangup, redisVars, workerVars
  <2>2. \A d \in Conns : conn'[d] \in Live => conn[d] \in Live
    BY <1>10 DEF Refuse, Write, Hangup, TypeOK, Live
  <2>3. QED
    BY <1>1, <2>1, <2>2
<1>11. QED
  BY <1>2, <1>3, <1>4, <1>5, <1>6, <1>7, <1>8, <1>9, <1>10, CaseSplit

(***************************************************************************)
(* A connection misses an event only when its channel has been full: the   *)
(* first Cap events follow one another in the stream, but for events whose *)
(* reply was lost on the way to the worker.                                *)
(***************************************************************************)
THEOREM OnlyFullChannelsMiss == Spec => []EarlyGapsAreLost
<1>1. Init => GapInv
  BY DEF Init, GapInv, Live
<1>2. /\ TypeOK /\ TypeOK' /\ HubRegistry /\ WorkerInv /\ WorkerInv' /\ ChannelInv /\ GapInv
      /\ [Next]_vars
      => GapInv'
  BY GapStep
<1>3. GapInv => EarlyGapsAreLost
  BY DEF GapInv, NoGap, EarlyGapsAreLost
<1>4. QED
  BY <1>1, <1>2, <1>3, TypeCorrect, RegistryCorrect, WorkerCorrect, ChannelInvariant, PTL DEF Spec

-----------------------------------------------------------------------------
(***************************************************************************)
(* The hub implements the feed.                                            *)
(***************************************************************************)
Got(c) == SubSeq(pushed[c], 1, written[c])

LEMMA PrefixKept ==
    ASSUME NEW s \in Seq(Nat), NEW k \in 0..Len(s), NEW e \in Nat
    PROVE  SubSeq(Append(s, e), 1, k) = SubSeq(s, 1, k)
  OBVIOUS

LEMMA PrefixGrows ==
    ASSUME NEW s \in Seq(Nat), NEW k \in 0..Len(s), k < Len(s)
    PROVE  SubSeq(s, 1, k + 1) = Append(SubSeq(s, 1, k), s[k + 1])
  OBVIOUS

\* Steps that move neither the cursor nor anything a subscriber sees.
LEMMA FeedStutters ==
    ASSUME published' = published, Cursor' = Cursor, since' = since,
           \A c \in Conns : Got(c)' = Got(c),
           \A c \in Conns : conn'[c] \in Live <=> conn[c] \in Live
    PROVE  UNCHANGED Feed!vars
<1>1. [c \in Conns |-> SubSeq(pushed'[c], 1, written'[c])] = [c \in Conns |-> SubSeq(pushed[c], 1, written[c])]
  BY DEF Got
<1>2. {c \in Conns : conn'[c] \in Live} = {c \in Conns : conn[c] \in Live}
  OBVIOUS
<1>3. QED
  BY <1>1, <1>2 DEF Feed!vars

LEMMA FeedAdvances ==
    ASSUME Cursor' \in (Cursor + 1)..published, UNCHANGED <<published, since, conn, pushed, written>>
    PROVE  Feed!Advance
  BY DEF Feed!Advance

LEMMA CursorInRange ==
    ASSUME TypeOK, WorkerInv
    PROVE  Cursor \in Nat /\ Cursor <= delivered /\ delivered <= published /\ Cursor \in Cursor..published
<1>1. next \in Nat \ {0} /\ published \in Nat /\ delivered \in Nat
  BY DEF TypeOK
<1>2. Cursor \in Nat /\ Cursor <= delivered
  <2>1. CASE worker \in {"send", "ack"}
    BY <1>1, <2>1 DEF Cursor, WorkerInv
  <2>2. CASE worker \in {"down", "read", "sleep"}
    BY <1>1, <2>2 DEF Cursor, WorkerInv
  <2>3. CASE worker = "lock"
    BY <1>1, <2>3 DEF Cursor, WorkerInv
  <2>4. QED
    BY <2>1, <2>2, <2>3 DEF TypeOK
<1>3. delivered <= published
  BY DEF WorkerInv
<1>4. QED
  BY <1>1, <1>2, <1>3

LEMMA FeedStep ==
    ASSUME TypeOK, TypeOK', WorkerInv, WorkerInv', ChannelInv, [Next]_vars
    PROVE  [Feed!Next]_(Feed!vars)
<1>a. next \in Nat \ {0} /\ next' \in Nat \ {0} /\ published \in Nat /\ delivered \in Nat
  BY DEF TypeOK
<1>1. CASE Publish
  <2>1. /\ published' = published + 1 /\ Cursor' = Cursor
        /\ UNCHANGED <<since, conn, pushed, written>>
    BY <1>1 DEF Publish, workerVars, connVars, Cursor
  <2>2. Feed!Publish
    BY <2>1 DEF Feed!Publish
  <2>3. QED
    BY <2>2 DEF Feed!Next
<1>2. CASE ReadReplyLost \/ BeginBroadcast
  <2>1. UNCHANGED <<published, since, conn, pushed, written>>
    BY <1>2 DEF ReadReplyLost, BeginBroadcast, connVars, redisVars
  <2>2. Cursor' \in (Cursor + 1)..published
    <3>1. CASE ReadReplyLost
      BY <3>1, <1>a DEF ReadReplyLost, Fetch, Cursor, WorkerInv
    <3>2. CASE BeginBroadcast
      BY <3>2, <1>a DEF BeginBroadcast, Cursor, WorkerInv
    <3>3. QED
      BY <1>2, <3>1, <3>2
  <2>3. Feed!Advance
    BY <2>1, <2>2, FeedAdvances
  <2>4. QED
    BY <2>3 DEF Feed!Next
<1>3. CASE \/ StartWorker \/ ReadGroup \/ ReadError \/ EndBroadcast \/ Ack \/ Wake \/ UNCHANGED vars
  <2>1. UNCHANGED <<published, since, conn, pushed, written>>
    BY <1>3 DEF StartWorker, ReadGroup, Fetch, ReadError, EndBroadcast, Ack, Wake, connVars, redisVars, vars
  <2>2. Cursor' = Cursor
    <3>1. CASE Ack
      <4>1. worker = "ack" /\ next' = next + 1 /\ worker' \notin {"send", "ack"}
        BY <3>1 DEF Ack
      <4>2. QED
        BY <4>1, <1>a DEF Cursor
    <3>2. CASE StartWorker \/ ReadGroup \/ ReadError \/ EndBroadcast \/ Wake \/ UNCHANGED vars
      BY <3>2 DEF StartWorker, ReadGroup, ReadError, EndBroadcast, Wake, Cursor, vars
    <3>3. QED
      BY <1>3, <3>1, <3>2
  <2>3. \A c \in Conns : Got(c)' = Got(c)
    BY <2>1 DEF Got
  <2>4. QED
    BY <2>1, <2>2, <2>3, FeedStutters
<1>4. ASSUME NEW c \in Conns, Send(c) PROVE UNCHANGED Feed!vars
  <2>1. /\ UNCHANGED <<published, since, conn, written>>
        /\ Cursor' = Cursor
    BY <1>4 DEF Send, redisVars, Cursor
  <2>2. ASSUME NEW d \in Conns PROVE Got(d)' = Got(d)
    <3>1. pushed'[d] = pushed[d] \/ pushed'[d] = Append(pushed[d], next)
      BY <1>4 DEF Send, TypeOK
    <3>2. pushed[d] \in Seq(Nat) /\ written[d] \in 0..Len(pushed[d])
      BY EventsAreNat DEF TypeOK
    <3>3. SubSeq(Append(pushed[d], next), 1, written[d]) = SubSeq(pushed[d], 1, written[d])
      BY <1>a, <3>2, PrefixKept
    <3>4. QED
      BY <2>1, <3>1, <3>3 DEF Got
  <2>3. QED
    BY <2>1, <2>2, FeedStutters
<1>5. ASSUME NEW c \in Conns, Refuse(c) \/ Hangup(c) PROVE UNCHANGED Feed!vars
  <2>1. /\ UNCHANGED <<published, since, pushed, written>>
        /\ Cursor' = Cursor
    BY <1>5 DEF Refuse, Hangup, redisVars, workerVars, Cursor
  <2>2. \A d \in Conns : conn'[d] \in Live <=> conn[d] \in Live
    BY <1>5 DEF Refuse, Hangup, Live, TypeOK
  <2>3. \A d \in Conns : Got(d)' = Got(d)
    BY <2>1 DEF Got
  <2>4. QED
    BY <2>1, <2>2, <2>3, FeedStutters
<1>6. ASSUME NEW c \in Conns, Accept(c) PROVE Feed!Subscribe(c)
  <2>1. /\ UNCHANGED <<published, pushed, written>>
        /\ Cursor' = Cursor /\ since' = [since EXCEPT ![c] = Cursor]
        /\ conn' = [conn EXCEPT ![c] = "open"] /\ conn[c] \notin Live
    BY <1>6 DEF Accept, redisVars, workerVars, Cursor, Live
  <2>2. {d \in Conns : conn'[d] \in Live} = {d \in Conns : conn[d] \in Live} \union {c}
    BY <2>1 DEF TypeOK, Live
  <2>3. QED
    BY <2>1, <2>2 DEF Feed!Subscribe
<1>7. ASSUME NEW c \in Conns, Write(c) PROVE Feed!Deliver(c)
  <2> DEFINE k == written[c]
             got == [d \in Conns |-> SubSeq(pushed[d], 1, written[d])]
             e == pushed[c][k + 1]
  <2>1. /\ UNCHANGED <<published, since, conn, pushed>>
        /\ Cursor' = Cursor
        /\ conn[c] = "open" /\ k < Len(pushed[c])
        /\ written' = [written EXCEPT ![c] = k + 1]
    BY <1>7 DEF Write, redisVars, workerVars, Cursor
  <2>2. pushed[c] \in Seq(Nat) /\ k \in 0..Len(pushed[c]) /\ Len(pushed[c]) \in Nat
    BY EventsAreNat DEF TypeOK
  <2>3. e \in Nat /\ k + 1 \in 1..Len(pushed[c])
    BY <2>1, <2>2
  <2>4. e <= Cursor
    <3>1. e <= Bound(c) /\ Bound(c) \in Nat
      BY <2>3, BoundIsNat DEF ChannelInv, ChannelOrder
    <3>2. Bound(c) <= Cursor /\ Cursor \in Nat
      BY <1>a DEF Bound, Cursor
    <3>3. QED
      BY <2>3, <3>1, <3>2
  <2>5. Feed!Newest(c) \in Nat /\ Feed!Newest(c) < e
    <3>1. CASE k = 0
      <4>1. got[c] = <<>>
        BY <2>2, <3>1
      <4>2. Feed!Newest(c) = since[c]
        BY <4>1 DEF Feed!Newest
      <4>3. QED
        BY <2>3, <4>2, EventsAreNat DEF ChannelInv, ChannelOrder
    <3>2. CASE k # 0
      <4>1. k \in 1..Len(pushed[c])
        BY <2>2, <3>2
      <4>2. got[c] # <<>> /\ Len(got[c]) = k /\ got[c][k] = pushed[c][k]
        BY <2>2, <4>1
      <4>3. Feed!Newest(c) = pushed[c][k]
        BY <4>2 DEF Feed!Newest
      <4>4. pushed[c][k] \in Nat /\ pushed[c][k] < e
        BY <2>3, <4>1, EventsAreNat DEF ChannelInv, ChannelOrder
      <4>5. QED
        BY <4>3, <4>4
    <3>3. QED
      BY <3>1, <3>2
  <2>6. e \in (Feed!Newest(c) + 1)..Cursor
    <3>1. Cursor \in Nat
      BY <1>a DEF Cursor
    <3>2. QED
      BY <2>3, <2>4, <2>5, <3>1
  <2>7. [d \in Conns |-> SubSeq(pushed'[d], 1, written'[d])] = [got EXCEPT ![c] = Append(got[c], e)]
    <3>1. SubSeq(pushed[c], 1, k + 1) = Append(SubSeq(pushed[c], 1, k), e)
      BY <2>1, <2>2, PrefixGrows
    <3>2. pushed' = pushed /\ written'[c] = k + 1 /\ \A d \in Conns : d # c => written'[d] = written[d]
      BY <2>1 DEF TypeOK
    <3>3. QED
      BY <3>1, <3>2
  <2>8. c \in {d \in Conns : conn[d] \in Live}
    BY <2>1 DEF Live
  <2>9. {d \in Conns : conn'[d] \in Live} = {d \in Conns : conn[d] \in Live}
    BY <2>1
  <2>10. QED
    BY <2>1, <2>6, <2>7, <2>8, <2>9 DEF Feed!Deliver
<1>8. ASSUME NEW S \in SUBSET Conns, published' = published, Cursor' \in Cursor..published,
             \A d \in S : conn'[d] \notin Live /\ since'[d] = 0 /\ Got(d)' = <<>>,
             \A d \in Conns \ S : /\ conn'[d] = conn[d] /\ since'[d] = since[d]
                                  /\ Got(d)' = Got(d)
      PROVE  Feed!End
  <2>1. {d \in Conns : conn'[d] \in Live} = {d \in Conns : conn[d] \in Live} \ S
    BY <1>8
  <2>2. since' = [d \in Conns |-> IF d \in S THEN 0 ELSE since[d]]
    BY <1>8 DEF TypeOK
  <2>3. [d \in Conns |-> SubSeq(pushed'[d], 1, written'[d])]
            = [d \in Conns |-> IF d \in S THEN <<>> ELSE [c \in Conns |-> SubSeq(pushed[c], 1, written[c])][d]]
    BY <1>8 DEF Got
  <2>4. QED
    BY <1>8, <2>1, <2>2, <2>3 DEF Feed!End
<1>9. ASSUME NEW c \in Conns, RemoveClient(c) PROVE Feed!End
  <2>1. published' = published /\ Cursor' = Cursor
    BY <1>9 DEF RemoveClient, redisVars, workerVars, Cursor
  <2>2. Cursor \in Cursor..published
    BY CursorInRange
  <2>3. conn'[c] \notin Live /\ since'[c] = 0 /\ Got(c)' = <<>>
    BY <1>9 DEF RemoveClient, TypeOK, Live, Got
  <2>4. \A d \in Conns \ {c} : conn'[d] = conn[d] /\ since'[d] = since[d] /\ Got(d)' = Got(d)
    BY <1>9 DEF RemoveClient, TypeOK, Got
  <2>5. {c} \in SUBSET Conns
    OBVIOUS
  <2>6. QED
    BY <1>8, <2>1, <2>2, <2>3, <2>4, <2>5
<1>10. CASE Crash
  <2>1. published' = published
    BY <1>10 DEF Crash, redisVars
  <2>2. Cursor' = delivered /\ Cursor' \in Cursor..published
    <3>1. worker' = "down" /\ next' = delivered + 1
      BY <1>10 DEF Crash
    <3>2. Cursor' = delivered
      BY <1>a, <3>1 DEF Cursor
    <3>3. QED
      BY <1>a, <3>2, CursorInRange DEF WorkerInv
  <2>3. \A d \in Conns : conn'[d] \notin Live /\ since'[d] = 0 /\ Got(d)' = <<>>
    BY <1>10 DEF Crash, Live, Got
  <2>4. Conns \in SUBSET Conns /\ Conns \ Conns = {}
    OBVIOUS
  <2>5. Feed!End
    BY <1>8, <2>1, <2>2, <2>3, <2>4
  <2>6. QED
    BY <2>5 DEF Feed!Next
<1>11. QED
  <2>1. CASE \E c \in Conns : Send(c) \/ Refuse(c) \/ Hangup(c)
    BY <2>1, <1>4, <1>5
  <2>2. CASE \E c \in Conns : Accept(c) \/ Write(c)
    BY <2>2, <1>6, <1>7 DEF Feed!Next
  <2>3. CASE \E c \in Conns : RemoveClient(c)
    BY <2>3, <1>9 DEF Feed!Next
  <2>4. QED
    BY <1>1, <1>2, <1>3, <1>10, <2>1, <2>2, <2>3, CaseSplit

(***************************************************************************)
(* What is written to a subscription was handed out after it began, in     *)
(* order and at most once, whatever crashes, losses and slow connections   *)
(* do: every behaviour of the hub is one of the feed.                      *)
(***************************************************************************)
THEOREM HubImplementsFeed == Spec => ImplementsFeed
<1>1. Init => Feed!Init
  <2> SUFFICES ASSUME Init PROVE Feed!Init
    OBVIOUS
  <2>1. \A c \in Conns : SubSeq(pushed[c], 1, written[c]) = <<>> /\ conn[c] \notin Live
    BY DEF Init, Live
  <2>2. [c \in Conns |-> SubSeq(pushed[c], 1, written[c])] = [c \in Conns |-> <<>>]
    BY <2>1
  <2>3. {c \in Conns : conn[c] \in Live} = {}
    BY <2>1
  <2>4. QED
    <3>1. Cursor = 0
      BY DEF Init, Cursor
    <3>2. QED
      BY <2>2, <2>3, <3>1 DEF Init, Feed!Init
<1>2. TypeOK /\ TypeOK' /\ WorkerInv /\ WorkerInv' /\ ChannelInv /\ [Next]_vars => [Feed!Next]_(Feed!vars)
  BY FeedStep
<1>3. QED
  BY <1>1, <1>2, TypeCorrect, WorkerCorrect, ChannelInvariant, PTL DEF Spec, ImplementsFeed, Feed!Spec

\* What a connection misses was not given to it because its channel was full, or waits in Redis
\* for ever (StartWorker, Broadcast).
THEOREM OnlyTheseAreMissed == Spec => []NothingElseIsMissed
  BY BatchStaysPending, OnlyFullChannelsMiss, PTL DEF NothingElseIsMissed
=============================================================================
