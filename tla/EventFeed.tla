----------------------------- MODULE EventFeed -----------------------------
(***************************************************************************)
(* What the server-sent-event service promises a subscriber, without the   *)
(* Redis consumer group, the worker, the hub's lock or its channels.       *)
(*                                                                         *)
(* Events are the numbers 1, 2, ... in the order Redis stores them.  The   *)
(* feed has a cursor: the newest event it has started to hand out.  A      *)
(* subscriber is written events handed out after it subscribed, in order   *)
(* and each at most once.  Any of them may be missing.                     *)
(***************************************************************************)
EXTENDS Naturals, Sequences

CONSTANTS Conns

VARIABLES
    published,   \* number of events in the stream
    cursor,      \* newest event handed out
    subscribed,  \* the connections that are subscribed
    since,       \* the cursor when the subscription began
    got          \* the events written to the subscription

vars == <<published, cursor, subscribed, since, got>>

Newest(c) == IF got[c] = <<>> THEN since[c] ELSE got[c][Len(got[c])]

Init ==
    /\ published = 0
    /\ cursor = 0
    /\ subscribed = {}
    /\ since = [c \in Conns |-> 0]
    /\ got = [c \in Conns |-> <<>>]

Publish ==
    /\ published' = published + 1
    /\ UNCHANGED <<cursor, subscribed, since, got>>

Advance ==
    /\ cursor' \in (cursor + 1)..published
    /\ UNCHANGED <<published, subscribed, since, got>>

Subscribe(c) ==
    /\ c \notin subscribed
    /\ subscribed' = subscribed \union {c}
    /\ since' = [since EXCEPT ![c] = cursor]
    /\ UNCHANGED <<published, cursor, got>>

Deliver(c) ==
    /\ c \in subscribed
    /\ \E e \in (Newest(c) + 1)..cursor : got' = [got EXCEPT ![c] = Append(@, e)]
    /\ UNCHANGED <<published, cursor, subscribed, since>>

\* Some subscriptions end: one, or all of them when the process goes down, which
\* may also skip events that were handed out to nobody.
End ==
    /\ \E S \in SUBSET Conns :
        /\ subscribed' = subscribed \ S
        /\ since' = [c \in Conns |-> IF c \in S THEN 0 ELSE since[c]]
        /\ got' = [c \in Conns |-> IF c \in S THEN <<>> ELSE got[c]]
    /\ cursor' \in cursor..published
    /\ UNCHANGED published

Next ==
    \/ Publish
    \/ Advance
    \/ \E c \in Conns : Subscribe(c) \/ Deliver(c)
    \/ End

Spec == Init /\ [][Next]_vars

=============================================================================
