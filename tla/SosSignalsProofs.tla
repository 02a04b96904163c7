-------------------------- MODULE SosSignalsProofs --------------------------
(***************************************************************************)
(* Proofs about SosSignals: types, the one-open-signal rule, and that a    *)
(* phone shows its own signal until that one is resolved.                  *)
(***************************************************************************)
EXTENDS SosSignals, SequenceTheorems, TLAPS

(***************************************************************************)
(* TypeOK in four groups, one per tuple of variables.                      *)
(***************************************************************************)
RowTypes ==
    /\ owner \in Seq(Users)
    /\ by \in [Signals -> Phones]
    /\ status \in [Signals -> Statuses]
    /\ known \in [Signals -> Nat]
    /\ had \in [Signals -> SUBSET Statuses]
    /\ \A s \in Signals : status[s] \in had[s]
    /\ reopened \subseteq Signals

PostTypes ==
    /\ hold \in [Holds -> {"idle", "posted", "insert", "answered", "failed"}]
    /\ from \in [Holds -> Phones \union {"nobody"}]
    /\ caller \in [Holds -> Users]
    /\ \A h \in Holds : hold[h] # "idle" =>
        from[h] \in Phones /\ caller[h] \in {UserOf[from[h]], "anonymous"}
    /\ horizon \in [Holds -> SignalOrNone]
    /\ result \in [Holds -> SignalOrNone]
    /\ \A h \in Holds : hold[h] = "answered" => result[h] # 0

PatchTypes ==
    /\ update \in [Updates -> {"idle", "sent", "updated", "answered", "failed"}]
    /\ target \in [Updates -> SignalOrNone]
    /\ \A u \in Updates : update[u] # "idle" => target[u] # 0
    /\ value \in [Updates -> Statuses]
    /\ retried \subseteq {u \in Updates : ActorOf[u] \in Desks}

Looks == [id : Signals, answer : {"none"} \union Statuses]
Events == [id : Signals, status : Statuses]

PhoneTypes ==
    /\ sos \in [Phones -> SignalOrNone]
    /\ shown \in [Phones -> {"none"} \union OpenStatuses]
    /\ \A p \in Phones : sos[p] = 0 <=> shown[p] = "none"
    /\ lookups \in [Phones -> SUBSET Looks]
    /\ listening \subseteq Phones
    /\ inbox \in [Phones -> Seq(Events)]

WaitTypes == waiting \subseteq Holds \union Updates

LEMMA TypeGroups == TypeOK <=> RowTypes /\ PostTypes /\ PatchTypes /\ WaitTypes /\ PhoneTypes
  BY DEF TypeOK, RowTypes, PostTypes, PatchTypes, WaitTypes, PhoneTypes, Looks, Events

(***************************************************************************)
(* A row appended to a column of the table.                                *)
(***************************************************************************)
LEMMA AppendColumn ==
    ASSUME NEW S, NEW f \in Seq(S), NEW x \in S
    PROVE  /\ Append(f, x) \in [1..(Len(f) + 1) -> S]
           /\ \A i \in 1..Len(f) : Append(f, x)[i] = f[i]
           /\ Append(f, x)[Len(f) + 1] = x
<1>1. /\ Append(f, x) \in Seq(S) /\ Len(Append(f, x)) = Len(f) + 1
      /\ \A i \in 1..Len(f) : Append(f, x)[i] = f[i]
      /\ Append(f, x)[Len(f) + 1] = x
  BY AppendProperties
<1>2. Append(f, x) \in [1..(Len(f) + 1) -> S]
  BY <1>1, LenProperties
<1>3. QED
  BY <1>1, <1>2

LEMMA SignalFacts ==
    ASSUME RowTypes
    PROVE  /\ Len(owner) \in Nat
           /\ \A s : s \in Signals <=> s \in Nat /\ 1 <= s /\ s <= Len(owner)
           /\ \A s : s \in SignalOrNone <=> s = 0 \/ s \in Signals
           /\ 0 \notin Signals
           /\ \A s \in Signals : owner[s] \in Users
<1>1. owner \in Seq(Users)
  BY DEF RowTypes
<1>2. Len(owner) \in Nat
  BY <1>1
<1>3. QED
  BY <1>1, <1>2 DEF Signals, SignalOrNone

\* The ids in use stay ids when the rows do not change, or when one is added.
LEMMA RowsStay ==
    ASSUME RowTypes, UNCHANGED rows
    PROVE  /\ Signals' = Signals /\ SignalOrNone' = SignalOrNone /\ RowTypes'
           /\ Looks' = Looks /\ Events' = Events
  BY DEF rows, Signals, SignalOrNone, RowTypes, Looks, Events

LEMMA InsertRow ==
    ASSUME TypeOK, NEW h \in Holds, Insert(h)
    PROVE  /\ Len(owner') = Len(owner) + 1
           /\ Signals' = Signals \union {Len(owner) + 1}
           /\ SignalOrNone' = SignalOrNone \union {Len(owner) + 1}
           /\ Len(owner) + 1 \notin SignalOrNone
           /\ \A s \in Signals : /\ owner'[s] = owner[s] /\ by'[s] = by[s] /\ status'[s] = status[s]
                                 /\ known'[s] = known[s] /\ had'[s] = had[s]
           /\ owner'[Len(owner) + 1] = caller[h]
           /\ by'[Len(owner) + 1] = from[h]
           /\ status'[Len(owner) + 1] = "active"
           /\ known'[Len(owner) + 1] = horizon[h]
           /\ RowTypes'
<1>1. owner \in Seq(Users) /\ Len(owner) \in Nat /\ caller[h] \in Users /\ from[h] \in Phones
  BY DEF TypeOK, Insert
<1>2. owner' = Append(owner, caller[h])
  BY DEF Insert
<1>3. PICK n \in Nat : n = Len(owner)
  BY <1>1
<1>4. /\ owner' \in Seq(Users) /\ Len(owner') = n + 1
      /\ \A s \in 1..n : owner'[s] = owner[s]
      /\ owner'[n + 1] = caller[h]
  BY <1>1, <1>2, <1>3
<1>5. Signals = 1..n /\ SignalOrNone = 0..n /\ Signals' = 1..(n + 1) /\ SignalOrNone' = 0..(n + 1)
  BY <1>3, <1>4 DEF Signals, SignalOrNone
<1>6. /\ status' \in [1..(n + 1) -> Statuses] /\ status'[n + 1] = "active"
      /\ \A s \in 1..n : status'[s] = status[s]
  <2>1. status \in [1..n -> Statuses] /\ status' = Append(status, "active") /\ "active" \in Statuses
    BY <1>5 DEF TypeOK, Insert, Statuses
  <2>2. status \in Seq(Statuses) /\ Len(status) = n
    BY <2>1
  <2>3. QED
    BY <2>1, <2>2, AppendColumn
<1>7. horizon[h] \in Nat
  BY <1>5 DEF TypeOK
<1>b. /\ by' \in [1..(n + 1) -> Phones] /\ by'[n + 1] = from[h]
      /\ \A s \in 1..n : by'[s] = by[s]
  <2>1. by \in [1..n -> Phones] /\ by' = Append(by, from[h])
    BY <1>5 DEF TypeOK, Insert
  <2>2. by \in Seq(Phones) /\ Len(by) = n
    BY <2>1
  <2>3. QED
    BY <1>1, <2>1, <2>2, AppendColumn
<1>8. /\ known' \in [1..(n + 1) -> Nat] /\ known'[n + 1] = horizon[h]
      /\ \A s \in 1..n : known'[s] = known[s]
  <2>1. known \in Seq(Nat) /\ Len(known) = n /\ known' = Append(known, horizon[h])
    BY <1>5 DEF TypeOK, Insert
  <2>2. /\ known' \in Seq(Nat) /\ Len(known') = n + 1
        /\ \A s \in 1..n : known'[s] = known[s]
        /\ known'[n + 1] = horizon[h]
    BY <2>1, <1>7
  <2>3. QED
    BY <2>2, LenProperties
<1>9. /\ had' \in [1..(n + 1) -> (SUBSET Statuses)] /\ had'[n + 1] = {"active"}
      /\ \A s \in 1..n : had'[s] = had[s]
  <2>1. had \in [1..n -> (SUBSET Statuses)] /\ had' = Append(had, {"active"}) /\ {"active"} \in (SUBSET Statuses)
    BY <1>5 DEF TypeOK, Insert, Statuses
  <2>2. had \in Seq((SUBSET Statuses)) /\ Len(had) = n
    BY <2>1
  <2>3. QED
    BY <2>1, <2>2, AppendColumn
<1>10. \A s \in 1..(n + 1) : s \in 1..n \/ s = n + 1
  OBVIOUS
<1>11. RowTypes'
  <2>1. \A s \in 1..(n + 1) : status'[s] \in had'[s]
    BY <1>5, <1>6, <1>9, <1>10 DEF TypeOK
  <2>2. reopened' \subseteq 1..(n + 1)
    BY <1>5 DEF TypeOK, Insert
  <2>3. QED
    BY <1>4, <1>5, <1>6, <1>b, <1>8, <1>9, <2>1, <2>2 DEF RowTypes
<1>12. QED
  BY <1>3, <1>4, <1>5, <1>6, <1>b, <1>8, <1>9, <1>11

(***************************************************************************)
(* The two store operations keep the phone's types.                        *)
(***************************************************************************)
LEMMA SetTypes ==
    ASSUME RowTypes, PhoneTypes, UNCHANGED rows,
           NEW p \in Phones, NEW s \in Signals, NEW st \in OpenStatuses,
           NEW others \in SUBSET Looks, SetActiveSos(p, s, st, others)
    PROVE  PhoneTypes'
<1>1. /\ Signals' = Signals /\ SignalOrNone' = SignalOrNone /\ Looks' = Looks /\ Events' = Events
      /\ s \in SignalOrNone /\ s # 0
  BY RowsStay, SignalFacts
<1>2. sos' \in [Phones -> SignalOrNone] /\ shown' \in [Phones -> {"none"} \union OpenStatuses]
  BY <1>1 DEF SetActiveSos, PhoneTypes
<1>3. \A q \in Phones : sos'[q] = 0 <=> shown'[q] = "none"
  BY <1>1 DEF SetActiveSos, PhoneTypes, OpenStatuses
<1>4. Lookup(s) \in Looks
  BY DEF Lookup, Looks
<1>5. lookups' \in [Phones -> SUBSET Looks] /\ listening' \subseteq Phones
  <2>1. others \union {Lookup(s)} \in SUBSET Looks /\ others \in SUBSET Looks
    BY <1>4
  <2>2. QED
    BY <2>1 DEF SetActiveSos, PhoneTypes
<1>6. inbox' \in [Phones -> Seq(Events)]
  <2>1. inbox' = inbox \/ inbox' = [inbox EXCEPT ![p] = <<>>]
    BY DEF SetActiveSos
  <2>2. inbox \in [Phones -> Seq(Events)] /\ <<>> \in Seq(Events)
    BY DEF PhoneTypes
  <2>3. QED
    BY <2>1, <2>2
<1>7. QED
  BY <1>1, <1>2, <1>3, <1>5, <1>6 DEF PhoneTypes

LEMMA ClearTypes ==
    ASSUME RowTypes, PhoneTypes, UNCHANGED rows,
           NEW p \in Phones, NEW others \in SUBSET Looks, ClearActiveSos(p, others)
    PROVE  PhoneTypes'
<1>1. /\ Signals' = Signals /\ SignalOrNone' = SignalOrNone /\ Looks' = Looks /\ Events' = Events
      /\ 0 \in SignalOrNone
  BY RowsStay, SignalFacts
<1>2. sos' \in [Phones -> SignalOrNone] /\ shown' \in [Phones -> {"none"} \union OpenStatuses]
  BY <1>1 DEF ClearActiveSos, PhoneTypes
<1>3. \A q \in Phones : sos'[q] = 0 <=> shown'[q] = "none"
  BY <1>1 DEF ClearActiveSos, PhoneTypes
<1>4. lookups' \in [Phones -> SUBSET Looks] /\ listening' \subseteq Phones
  BY DEF ClearActiveSos, PhoneTypes
<1>5. inbox' \in [Phones -> Seq(Events)]
  BY DEF ClearActiveSos, PhoneTypes
<1>6. QED
  BY <1>1, <1>2, <1>3, <1>4, <1>5 DEF PhoneTypes

\* The actions of Next, one per disjunct.
LEMMA StepCases ==
    ASSUME [Next]_vars
    PROVE  \/ \E h \in Holds :
              \/ \E p \in Phones : Trigger(p, h)
              \/ SelectFinds(h) \/ SelectNone(h) \/ Insert(h) \/ HoldFails(h) \/ Triggered(h)
           \/ \E u \in Updates :
              \/ ResolveOwn(u) \/ DeskUpdates(u) \/ UpdateRow(u) \/ PublishUpdate(u)
              \/ UpdateFails(u) \/ ResolvedOwn(u) \/ DeskDone(u) \/ Retry(u)
           \/ \E x \in Holds \union Updates : Caught(x)
           \/ Crash
           \/ \E p \in Phones :
              \/ ReadStatus(p) \/ ApplyLookup(p) \/ LookupFails(p)
              \/ Listen(p) \/ Reopen(p) \/ OnMessage(p) \/ Reload(p)
           \/ UNCHANGED vars
  BY DEF Next, CreateSOS, UpdateSOSStatus

-----------------------------------------------------------------------------
(***************************************************************************)
(* Types: every id that a handler, a request, a phone or an event holds is *)
(* the id of a row, and a phone shows a status exactly while it has an     *)
(* active signal.                                                          *)
(***************************************************************************)
THEOREM TypeCorrect == Spec => []TypeOK
<1>1. Init => TypeOK
  <2> SUFFICES ASSUME Init PROVE TypeOK
    OBVIOUS
  <2>1. owner = <<>> /\ Len(owner) = 0 /\ Signals = {} /\ 0 \in SignalOrNone
    BY DEF Init, Signals, SignalOrNone
  <2>2. RowTypes
    <3>1. by = <<>> /\ status = <<>> /\ known = <<>> /\ had = <<>> /\ reopened = {}
      BY DEF Init
    <3>2. \A S : <<>> \in [{} -> S]
      OBVIOUS
    <3>3. QED
      BY <2>1, <3>1, <3>2 DEF RowTypes
  <2>3. PostTypes
    BY <2>1 DEF Init, PostTypes, Users
  <2>4. PatchTypes
    BY <2>1 DEF Init, PatchTypes, Statuses
  <2>5. WaitTypes
    BY DEF Init, WaitTypes
  <2>6. PhoneTypes
    BY <2>1 DEF Init, PhoneTypes
  <2>7. QED
    BY <2>2, <2>3, <2>4, <2>5, <2>6, TypeGroups
<1>2. TypeOK /\ [Next]_vars => TypeOK'
  <2> SUFFICES ASSUME TypeOK, [Next]_vars PROVE TypeOK'
    OBVIOUS
  <2>g. RowTypes /\ PostTypes /\ PatchTypes /\ WaitTypes /\ PhoneTypes
    BY TypeGroups
  <2>r. rows' = rows => /\ Signals' = Signals /\ SignalOrNone' = SignalOrNone /\ RowTypes'
                        /\ Looks' = Looks /\ Events' = Events
    BY <2>g, RowsStay
  <2>s. 0 \in SignalOrNone /\ Signals \subseteq SignalOrNone /\ 0 \notin Signals
    BY <2>g, SignalFacts
  <2>n. \A s \in SignalOrNone : s # 0 => s \in Signals
    BY <2>g, SignalFacts
  <2>q. RowTypes' /\ PostTypes' /\ PatchTypes' /\ WaitTypes' /\ PhoneTypes' => TypeOK'
    BY DEF TypeOK, RowTypes, PostTypes, PatchTypes, WaitTypes, PhoneTypes, Looks, Events
  <2>u. rows' = rows =>
            /\ (posts' = posts => PostTypes')
            /\ (patches' = patches => PatchTypes')
            /\ (waiting' \subseteq waiting => WaitTypes')
            /\ (phone' = phone => PhoneTypes')
    BY <2>g, <2>r DEF PostTypes, PatchTypes, WaitTypes, PhoneTypes, posts, patches, phone
  <2>1. ASSUME NEW p \in Phones, NEW h \in Holds, Trigger(p, h) PROVE TypeOK'
    <3>1. PostTypes'
      BY <2>1, <2>g, <2>r DEF Trigger, OptionalAuth, PostTypes, Users
    <3>2. WaitTypes'
      BY <2>1, <2>g DEF Trigger, WaitTypes
    <3>3. QED
      BY <2>1, <2>q, <2>r, <2>u, <3>1, <3>2 DEF Trigger
  <2>2. ASSUME NEW h \in Holds, SelectFinds(h) \/ SelectNone(h) \/ HoldFails(h) PROVE TypeOK'
    <3>1. OpenOf(h) \subseteq Signals /\ Len(owner) \in SignalOrNone
      BY <2>g, SignalFacts DEF OpenOf, SignalOrNone
    <3>2. PostTypes'
      BY <2>2, <2>g, <2>r, <2>s, <3>1 DEF SelectFinds, SelectNone, HoldFails, PostTypes
    <3>3. QED
      BY <2>2, <2>q, <2>r, <2>u, <3>2 DEF SelectFinds, SelectNone, HoldFails
  <2>3. ASSUME NEW h \in Holds, Insert(h) PROVE TypeOK'
    <3>1. PICK n : n = Len(owner) + 1
      OBVIOUS
    <3>2. /\ RowTypes' /\ Signals' = Signals \union {n}
          /\ SignalOrNone' = SignalOrNone \union {n} /\ n \notin SignalOrNone
      BY <2>3, <3>1, InsertRow
    <3>3. PostTypes'
      BY <2>3, <2>g, <2>s, <3>1, <3>2 DEF Insert, PostTypes
    <3>4. PatchTypes' /\ WaitTypes'
      BY <2>3, <2>g, <3>2 DEF Insert, PatchTypes, WaitTypes, patches
    <3>5. PhoneTypes'
      <4>1. /\ sos' = sos /\ shown' = shown /\ lookups' = lookups
            /\ listening' = listening /\ inbox' = inbox
        BY <2>3 DEF Insert, phone
      <4>2. Looks \subseteq Looks' /\ Events \subseteq Events'
        BY <3>2 DEF Looks, Events
      <4>3. /\ lookups \in [Phones -> SUBSET Looks']
            /\ inbox \in [Phones -> Seq(Events')]
        <5>1. \A e \in Seq(Events) : e \in Seq(Events')
          <6> SUFFICES ASSUME NEW e \in Seq(Events) PROVE e \in Seq(Events')
            OBVIOUS
          <6>1. e \in [1..Len(e) -> Events] /\ Len(e) \in Nat
            BY LenProperties
          <6>2. e \in [1..Len(e) -> Events']
            BY <6>1, <4>2
          <6>3. QED
            BY <6>1, <6>2
        <5>2. QED
          BY <2>g, <4>2, <5>1 DEF PhoneTypes
      <4>4. QED
        BY <2>g, <3>2, <4>1, <4>3 DEF PhoneTypes
    <3>6. QED
      BY <2>q, <3>2, <3>3, <3>4, <3>5
  <2>4. ASSUME NEW h \in Holds, Triggered(h) PROVE TypeOK'
    <3>1. from[h] \in Phones /\ result[h] \in Signals /\ lookups[from[h]] \in SUBSET Looks
      BY <2>4, <2>g, <2>n DEF Triggered, PostTypes, PhoneTypes, Looks
    <3>2. PhoneTypes'
      BY <2>4, <2>g, <3>1, SetTypes, "active" \in OpenStatuses DEF Triggered, OpenStatuses
    <3>3. QED
      BY <2>4, <2>q, <2>r, <2>u, <3>2 DEF Triggered
  <2>5. ASSUME NEW u \in Updates, ResolveOwn(u) \/ DeskUpdates(u) PROVE TypeOK'
    <3>1. PICK s \in Signals, st \in Statuses : Send(u, s, st)
      BY <2>5, <2>g, <2>n DEF ResolveOwn, DeskUpdates, PhoneTypes, Statuses
    <3>2. PatchTypes'
      BY <3>1, <2>g, <2>r, <2>s DEF Send, PatchTypes
    <3>3. WaitTypes'
      BY <3>1, <2>g DEF Send, WaitTypes
    <3>4. QED
      BY <3>1, <2>q, <2>r, <2>u, <3>2, <3>3 DEF Send
  <2>6. ASSUME NEW u \in Updates, UpdateRow(u) PROVE TypeOK'
    <3>1. owner' = owner /\ Signals' = Signals /\ SignalOrNone' = SignalOrNone
      BY <2>6 DEF UpdateRow, Signals, SignalOrNone
    <3>2. target[u] \in Signals /\ value[u] \in Statuses
      BY <2>6, <2>g, <2>n DEF UpdateRow, PatchTypes
    <3>3. RowTypes'
      BY <2>6, <2>g, <3>1, <3>2 DEF UpdateRow, RowTypes
    <3>4. PatchTypes'
      BY <2>6, <2>g, <3>1 DEF UpdateRow, PatchTypes
    <3>5. PostTypes' /\ WaitTypes'
      BY <2>6, <2>g, <3>1 DEF UpdateRow, PostTypes, WaitTypes, posts
    <3>6. Looks' = Looks /\ Events' = Events
      BY <3>1 DEF Looks, Events
    <3>7. PhoneTypes'
      BY <2>6, <2>g, <3>1, <3>6 DEF UpdateRow, PhoneTypes, phone
    <3>8. QED
      BY <2>q, <3>3, <3>4, <3>5, <3>7
  <2>7. ASSUME NEW u \in Updates, PublishUpdate(u) PROVE TypeOK'
    <3>1. [id |-> target[u], status |-> value[u]] \in Events
      BY <2>7, <2>g, <2>n DEF PublishUpdate, PatchTypes, Events
    <3>2. inbox' \in [Phones -> Seq(Events)]
      <4>1. \A q \in Phones : Append(inbox[q], [id |-> target[u], status |-> value[u]]) \in Seq(Events)
        BY <2>g, <3>1, AppendProperties DEF PhoneTypes
      <4>2. QED
        BY <2>7, <2>g, <4>1 DEF PublishUpdate, PhoneTypes
    <3>3. PhoneTypes'
      BY <2>7, <2>g, <2>r, <3>2 DEF PublishUpdate, PhoneTypes
    <3>4. PatchTypes'
      BY <2>7, <2>g, <2>r DEF PublishUpdate, PatchTypes
    <3>5. QED
      BY <2>7, <2>q, <2>r, <2>u, <3>3, <3>4 DEF PublishUpdate
  <2>8. ASSUME NEW u \in Updates, UpdateFails(u) \/ DeskDone(u) \/ Retry(u) PROVE TypeOK'
    <3>1. PatchTypes' /\ WaitTypes' /\ rows' = rows
      BY <2>8, <2>g, <2>r, <2>u DEF UpdateFails, DeskDone, Retry, PatchTypes, WaitTypes, patches
    <3>2. QED
      BY <2>8, <2>q, <2>r, <2>u, <3>1 DEF UpdateFails, DeskDone, Retry
  <2>9. ASSUME NEW u \in Updates, ResolvedOwn(u) PROVE TypeOK'
    <3>1. ActorOf[u] \in Phones /\ lookups[ActorOf[u]] \in SUBSET Looks
      BY <2>9, <2>g DEF ResolvedOwn, PhoneTypes, Looks
    <3>2. PhoneTypes'
      BY <2>9, <2>g, <3>1, ClearTypes DEF ResolvedOwn
    <3>3. QED
      BY <2>9, <2>q, <2>r, <2>u, <3>2 DEF ResolvedOwn
  <2>10. ASSUME NEW x \in Holds \union Updates, Caught(x) PROVE TypeOK'
    BY <2>10, <2>q, <2>r, <2>u DEF Caught
  <2>11. CASE Crash
    <3>1. PostTypes' /\ PatchTypes'
      BY <2>11, <2>g, <2>r DEF Crash, PostTypes, PatchTypes
    <3>2. PhoneTypes'
      BY <2>11, <2>g, <2>r DEF Crash, PhoneTypes
    <3>3. QED
      BY <2>11, <2>q, <2>r, <2>u, <3>1, <3>2 DEF Crash
  <2>12. ASSUME NEW p \in Phones, ReadStatus(p) \/ LookupFails(p) PROVE TypeOK'
    <3>1. lookups' \in [Phones -> SUBSET Looks]
      <4>1. \A l \in lookups[p] : [id |-> l.id, answer |-> status[l.id]] \in Looks
        BY <2>g DEF PhoneTypes, RowTypes, Looks
      <4>2. lookups \in [Phones -> SUBSET Looks]
        BY <2>g DEF PhoneTypes
      <4>3. CASE ReadStatus(p)
        <5>1. PICK l \in lookups[p] :
                lookups' = [lookups EXCEPT ![p] =
                              (@ \ {l}) \union {[id |-> l.id, answer |-> status[l.id]]}]
          BY <4>3 DEF ReadStatus
        <5>2. QED
          BY <4>1, <4>2, <5>1
      <4>4. CASE LookupFails(p)
        <5>1. PICK l \in lookups[p] : lookups' = [lookups EXCEPT ![p] = @ \ {l}]
          BY <4>4 DEF LookupFails
        <5>2. QED
          BY <4>2, <5>1
      <4>5. QED
        BY <2>12, <4>3, <4>4
    <3>2. PhoneTypes'
      BY <2>12, <2>g, <2>r, <3>1 DEF ReadStatus, LookupFails, PhoneTypes
    <3>3. QED
      BY <2>12, <2>q, <2>r, <2>u, <3>2 DEF ReadStatus, LookupFails
  <2>13. ASSUME NEW p \in Phones, ApplyLookup(p) PROVE TypeOK'
    <3>1. PICK l \in lookups[p] :
            /\ l.answer # "none"
            /\ IF l.answer = "resolved" THEN ClearActiveSos(p, lookups[p] \ {l})
               ELSE SetActiveSos(p, l.id, l.answer, lookups[p] \ {l})
      BY <2>13 DEF ApplyLookup
    <3>2. l.id \in Signals /\ l.answer \in Statuses /\ lookups[p] \ {l} \in SUBSET Looks
      BY <2>g, <3>1 DEF PhoneTypes, Looks
    <3>3. l.answer # "resolved" => l.answer \in OpenStatuses
      BY <3>2 DEF Statuses, OpenStatuses
    <3>4. rows' = rows
      BY <2>13 DEF ApplyLookup
    <3>5. PhoneTypes'
      BY <2>g, <3>1, <3>2, <3>3, <3>4, SetTypes, ClearTypes
    <3>6. QED
      BY <2>13, <2>q, <2>r, <2>u, <3>5 DEF ApplyLookup
  <2>14. ASSUME NEW p \in Phones, Listen(p) \/ Reopen(p) PROVE TypeOK'
    <3>1. PhoneTypes'
      <4>1. /\ listening' \subseteq Phones
            /\ inbox' \in [Phones -> Seq(Events)]
            /\ UNCHANGED <<rows, sos, shown, lookups>>
        <5>1. inbox \in [Phones -> Seq(Events)] /\ <<>> \in Seq(Events) /\ listening \subseteq Phones
          BY <2>g DEF PhoneTypes
        <5>2. inbox' = inbox \/ inbox' = [inbox EXCEPT ![p] = <<>>]
          BY <2>14 DEF Listen, Reopen
        <5>3. listening' \subseteq Phones /\ UNCHANGED <<rows, sos, shown, lookups>>
          BY <2>14, <5>1 DEF Listen, Reopen
        <5>4. QED
          BY <5>1, <5>2, <5>3
      <4>2. QED
        BY <2>g, <2>r, <4>1 DEF PhoneTypes
    <3>2. QED
      BY <2>14, <2>q, <2>r, <2>u, <3>1 DEF Listen, Reopen
  <2>15. ASSUME NEW p \in Phones, OnMessage(p) PROVE TypeOK'
    <3>1. inbox[p] \in Seq(Events) /\ inbox[p] # <<>>
      BY <2>15, <2>g DEF OnMessage, PhoneTypes
    <3>2. PICK e : e = Head(inbox[p])
      OBVIOUS
    <3>3. e.id \in Signals /\ e.status \in Statuses
      <4>1. e \in Events
        BY <3>1, <3>2, HeadTailProperties
      <4>2. QED
        BY <4>1 DEF Events
    <3>4. rows' = rows
      BY <2>15 DEF OnMessage
    <3>5. PhoneTypes'
      <4>1. CASE e.id = sos[p] /\ e.status = "resolved"
        <5>1. ClearActiveSos(p, lookups[p]) /\ lookups[p] \in SUBSET Looks
          BY <2>15, <2>g, <3>2, <4>1 DEF OnMessage, PhoneTypes, Looks
        <5>2. QED
          BY <2>g, <3>4, <5>1, ClearTypes
      <4>2. CASE ~(e.id = sos[p] /\ e.status = "resolved")
        <5>1. /\ shown' = IF e.id = sos[p] THEN [shown EXCEPT ![p] = e.status] ELSE shown
              /\ inbox' = [inbox EXCEPT ![p] = Tail(inbox[p])]
              /\ UNCHANGED <<sos, lookups, listening>>
          BY <2>15, <3>2, <4>2 DEF OnMessage
        <5>2. inbox' \in [Phones -> Seq(Events)]
          BY <2>g, <3>1, <5>1, HeadTailProperties DEF PhoneTypes
        <5>3. e.id = sos[p] => sos[p] # 0 /\ e.status \in OpenStatuses
          BY <2>s, <3>3, <4>2 DEF Statuses, OpenStatuses
        <5>4. /\ shown' \in [Phones -> {"none"} \union OpenStatuses]
              /\ \A q \in Phones : sos'[q] = 0 <=> shown'[q] = "none"
          BY <2>g, <5>1, <5>3 DEF PhoneTypes, OpenStatuses
        <5>5. QED
          BY <2>g, <2>r, <3>4, <5>1, <5>2, <5>4 DEF PhoneTypes
      <4>3. QED
        BY <4>1, <4>2
    <3>6. QED
      BY <2>15, <2>q, <2>r, <2>u, <3>5 DEF OnMessage
  <2>16. ASSUME NEW p \in Phones, Reload(p) PROVE TypeOK'
    <3>1. sos[p] # 0 => Lookup(sos[p]) \in Looks
      BY <2>g, <2>n DEF PhoneTypes, Lookup, Looks
    <3>2. PhoneTypes'
      <4>1. /\ lookups' \in [Phones -> SUBSET Looks] /\ listening' \subseteq Phones
            /\ inbox' \in [Phones -> Seq(Events)]
            /\ UNCHANGED <<rows, sos, shown>>
        BY <2>16, <2>g, <3>1 DEF Reload, PhoneTypes
      <4>2. QED
        BY <2>g, <2>r, <4>1 DEF PhoneTypes
    <3>3. waiting' \subseteq waiting /\ rows' = rows /\ posts' = posts /\ patches' = patches
      BY <2>16 DEF Reload
    <3>4. QED
      BY <2>q, <2>r, <2>u, <3>2, <3>3
  <2>17. CASE UNCHANGED vars
    BY <2>17, <2>q, <2>r, <2>u DEF vars, rows, posts, patches, phone
  <2>18. QED
    BY <2>1, <2>2, <2>3, <2>4, <2>5, <2>6, <2>7, <2>8, <2>9, <2>10, <2>11, <2>12, <2>13,
       <2>14, <2>15, <2>16, <2>17, StepCases
<1>3. QED
  BY <1>1, <1>2, PTL DEF Spec

-----------------------------------------------------------------------------
(***************************************************************************)
(* One open signal per citizen.  A handler that is about to insert carries *)
(* what its SELECT established: of the rows it saw, none of the citizen's  *)
(* is open unless it was reopened since.                                   *)
(***************************************************************************)
Seen(n, citizen) ==
    \A s \in Signals :
        s <= n /\ owner[s] = citizen /\ citizen # "anonymous" /\ Open(s) => s \in reopened

RuleInv ==
    /\ \A t \in Signals : known[t] < t /\ Seen(known[t], owner[t])
    /\ \A h \in Holds : hold[h] \in {"idle", "posted"} => horizon[h] = 0
    /\ \A h \in Holds : hold[h] = "insert" => Seen(horizon[h], caller[h])
    /\ \A h \in Holds : hold[h] = "insert" /\ caller[h] = "anonymous" => horizon[h] = 0
    /\ \A s \in Signals : owner[s] = UserOf[by[s]] \/ (owner[s] = "anonymous" /\ known[s] = 0)

LEMMA RuleStep ==
    ASSUME TypeOK, RuleInv, [Next]_vars
    PROVE  RuleInv'
<1>g. RowTypes /\ PostTypes
  BY TypeGroups
<1>s. \A s \in Signals : s \in Nat /\ s # 0 /\ s <= Len(owner)
  BY <1>g, SignalFacts
<1>1. ASSUME UNCHANGED rows,
             \A h \in Holds : hold'[h] \in {"idle", "posted", "insert"} =>
                 hold'[h] = hold[h] /\ horizon'[h] = horizon[h] /\ caller'[h] = caller[h]
      PROVE  RuleInv'
  <2>1. \A n, c : Seen(n, c)' <=> Seen(n, c)
    BY <1>1 DEF Seen, Open, Signals, rows
  <2>2. \A t \in Signals' : known[t] < t /\ Seen(known[t], owner[t])
    BY <1>1 DEF RuleInv, Signals, rows
  <2>3. QED
    BY <1>1, <2>1, <2>2 DEF RuleInv, Seen, Open, Signals, rows
<1>2. ASSUME NEW p \in Phones, NEW h \in Holds, Trigger(p, h) PROVE RuleInv'
  <2>1. /\ UNCHANGED rows /\ horizon' = horizon
        /\ hold[h] = "idle" /\ hold'[h] = "posted"
        /\ \A k \in Holds : k # h => hold'[k] = hold[k] /\ caller'[k] = caller[k]
    BY <1>2, <1>g DEF Trigger, PostTypes
  <2>2. QED
    BY <2>1 DEF RuleInv, Seen, Open, Signals, rows
<1>3. ASSUME NEW h \in Holds, SelectNone(h) PROVE RuleInv'
  <2>1. /\ UNCHANGED <<rows, caller>>
        /\ hold[h] = "posted" /\ hold'[h] = "insert"
        /\ horizon' = horizon \/ (OpenOf(h) = {} /\ caller[h] # "anonymous")
        /\ \A k \in Holds : k # h => hold'[k] = hold[k] /\ horizon'[k] = horizon[k]
    BY <1>3, <1>g DEF SelectNone, PostTypes
  <2>2. horizon[h] = 0
    BY <2>1 DEF RuleInv
  <2>3. CASE horizon' = horizon
    <3>1. Seen(0, caller[h])
      BY <1>s DEF Seen
    <3>2. QED
      BY <2>1, <2>2, <2>3, <3>1 DEF RuleInv, Seen, Open, Signals, rows
  <2>4. CASE OpenOf(h) = {} /\ caller[h] # "anonymous"
    <3>1. \A n : Seen(n, caller[h])
      BY <2>4 DEF Seen, OpenOf
    <3>2. QED
      BY <2>1, <3>1 DEF RuleInv, Seen, Open, Signals, rows
  <2>5. QED
    BY <2>1, <2>3, <2>4
<1>4. ASSUME NEW h \in Holds, Insert(h) PROVE RuleInv'
  <2>1. PICK n : n = Len(owner) + 1
    OBVIOUS
  <2>2. /\ Signals' = Signals \union {n} /\ reopened' = reopened
        /\ \A s \in Signals : /\ owner'[s] = owner[s] /\ by'[s] = by[s]
                              /\ status'[s] = status[s] /\ known'[s] = known[s]
        /\ owner'[n] = caller[h] /\ by'[n] = from[h] /\ known'[n] = horizon[h]
    BY <1>4, <2>1, InsertRow DEF Insert
  <2>3. /\ hold[h] = "insert" /\ hold'[h] = "answered" /\ UNCHANGED <<caller, horizon>>
        /\ caller[h] \in {UserOf[from[h]], "anonymous"}
        /\ \A k \in Holds : k # h => hold'[k] = hold[k]
    BY <1>4, <1>g DEF Insert, PostTypes
  <2>4. \A t \in Signals : known[t] \in Nat /\ known[t] < n
    BY <1>g, <2>1, SignalFacts DEF RuleInv, RowTypes
  <2>5. \A k \in Holds : horizon[k] \in Nat /\ horizon[k] < n
    BY <1>g, <2>1, SignalFacts DEF PostTypes, SignalOrNone
  <2>6. \A m \in Nat : \A c : m < n /\ Seen(m, c) => Seen(m, c)'
    BY <2>1, <2>2, <1>g, SignalFacts DEF Seen, Open
  <2>7. QED
    BY <2>2, <2>3, <2>4, <2>5, <2>6 DEF RuleInv
<1>5. ASSUME NEW u \in Updates, UpdateRow(u) PROVE RuleInv'
  <2>1. /\ UNCHANGED <<owner, by, known, posts>> /\ Signals' = Signals
        /\ \A s \in Signals : Open(s)' => Open(s) \/ s \in reopened'
        /\ reopened \subseteq reopened'
    <3>1. target[u] \in Signals /\ value[u] \in Statuses
      <4>1. update[u] # "idle"
        BY <1>5 DEF UpdateRow
      <4>2. target[u] \in SignalOrNone /\ target[u] # 0 /\ value[u] \in Statuses
        BY <4>1 DEF TypeOK
      <4>3. QED
        BY <4>2, <1>g, SignalFacts
    <3>2. /\ \A s \in Signals : s # target[u] => status'[s] = status[s]
          /\ status'[target[u]] = value[u]
          /\ status[target[u]] \in Statuses
      BY <1>5, <1>g, <3>1 DEF UpdateRow, RowTypes
    <3>3. Open(target[u])' => Open(target[u]) \/ target[u] \in reopened'
      BY <1>5, <3>1, <3>2 DEF UpdateRow, Open, Statuses, OpenStatuses
    <3>4. QED
      BY <1>5, <3>2, <3>3 DEF UpdateRow, Open, Signals
  <2>2. \A n, c : Seen(n, c) => Seen(n, c)'
    BY <2>1 DEF Seen
  <2>3. QED
    BY <2>1, <2>2 DEF RuleInv, posts
<1>6. ASSUME NEW h \in Holds, SelectFinds(h) \/ HoldFails(h) \/ Triggered(h) PROVE RuleInv'
  <2>1. /\ UNCHANGED <<rows, caller, horizon>>
        /\ \A k \in Holds : hold'[k] = hold[k] \/ hold'[k] \in {"answered", "failed"}
    BY <1>6, <1>g DEF SelectFinds, HoldFails, Triggered, posts, PostTypes
  <2>2. QED
    BY <1>1, <2>1
<1>7. ASSUME NEW u \in Updates,
             \/ ResolveOwn(u) \/ DeskUpdates(u) \/ PublishUpdate(u)
             \/ UpdateFails(u) \/ ResolvedOwn(u) \/ DeskDone(u) \/ Retry(u)
      PROVE  RuleInv'
  <2>1. UNCHANGED <<rows, posts>>
    BY <1>7 DEF ResolveOwn, DeskUpdates, Send, PublishUpdate, UpdateFails, ResolvedOwn, DeskDone, Retry
  <2>2. QED
    BY <1>1, <2>1 DEF posts
<1>8. CASE (\E x \in Holds \union Updates : Caught(x)) \/ UNCHANGED vars
  <2>1. UNCHANGED <<rows, posts>>
    BY <1>8 DEF Caught, vars, rows, posts
  <2>2. QED
    BY <1>1, <2>1 DEF posts
<1>9. CASE Crash
  <2>1. /\ UNCHANGED <<rows, caller, horizon>>
        /\ \A k \in Holds : hold'[k] = hold[k] \/ hold'[k] = "failed"
    BY <1>9 DEF Crash
  <2>2. QED
    BY <1>1, <2>1
<1>10. ASSUME NEW p \in Phones,
              \/ ReadStatus(p) \/ ApplyLookup(p) \/ LookupFails(p)
              \/ Listen(p) \/ Reopen(p) \/ OnMessage(p) \/ Reload(p)
       PROVE  RuleInv'
  <2>1. UNCHANGED <<rows, posts>>
    BY <1>10 DEF ReadStatus, ApplyLookup, LookupFails, Listen, Reopen, OnMessage, Reload
  <2>2. QED
    BY <1>1, <2>1 DEF posts
<1>11. QED
  BY <1>2, <1>3, <1>4, <1>5, <1>6, <1>7, <1>8, <1>9, <1>10, StepCases

(***************************************************************************)
(* A citizen's second open signal exists only where the triggers           *)
(* overlapped, the query failed, or the older one was reopened.            *)
(***************************************************************************)
THEOREM OneOpenSignal == Spec => []OneOpenSos
<1>1. Init => RuleInv
  BY DEF Init, RuleInv, Signals
<1>2. TypeOK /\ RuleInv /\ [Next]_vars => RuleInv'
  BY RuleStep
<1>3. TypeOK /\ RuleInv => OneOpenSos
  <2> SUFFICES ASSUME TypeOK, RuleInv PROVE OneOpenSos
    OBVIOUS
  <2>1. \A s, t \in Signals : s \in Nat /\ known[t] \in Nat
    BY TypeGroups, SignalFacts DEF RowTypes
  <2>2. QED
    BY <2>1 DEF RuleInv, Seen, OneOpenSos
<1>4. QED
  BY <1>1, <1>2, <1>3, TypeCorrect, PTL DEF Spec
-----------------------------------------------------------------------------
(***************************************************************************)
(* A phone shows its own signal: whatever it has asked for or was answered *)
(* is a signal of the user who is signed in there.                         *)
(***************************************************************************)
OwnInv ==
    /\ ShowsOwnSos
    /\ \A p \in Phones : \A l \in lookups[p] : Mine(p, l.id)
    /\ \A h \in Holds : hold[h] = "answered" => Mine(from[h], result[h])

LEMMA OwnStep ==
    ASSUME TypeOK, OwnInv, [Next]_vars
    PROVE  OwnInv'
<1>g. RowTypes /\ PostTypes /\ PatchTypes /\ PhoneTypes
  BY TypeGroups
<1>n. \A s \in SignalOrNone : s # 0 => s \in Signals
  BY <1>g, SignalFacts
<1>1. ASSUME UNCHANGED <<owner, by>>,
             \A h \in Holds : hold'[h] = "answered" =>
                 hold[h] = "answered" /\ result'[h] = result[h] /\ from'[h] = from[h],
             \A p \in Phones : sos'[p] \in {0, sos[p]},
             \A p \in Phones : \A l \in lookups'[p] :
                 Mine(p, l.id)
      PROVE  OwnInv'
  BY <1>1 DEF OwnInv, ShowsOwnSos, Mine
<1>2. ASSUME UNCHANGED <<owner, by, phone>>,
             \A h \in Holds : hold'[h] = "answered" =>
                 hold[h] = "answered" /\ result'[h] = result[h] /\ from'[h] = from[h]
      PROVE  OwnInv'
  BY <1>2 DEF OwnInv, ShowsOwnSos, Mine, phone
<1>3. ASSUME NEW h \in Holds, (\E p \in Phones : Trigger(p, h)) \/ SelectNone(h) \/ HoldFails(h)
      PROVE  OwnInv'
  <2>1. /\ UNCHANGED <<owner, by, phone, result>>
        /\ hold'[h] # "answered"
        /\ \A k \in Holds : k # h => hold'[k] = hold[k] /\ from'[k] = from[k]
    BY <1>3, <1>g DEF Trigger, SelectNone, HoldFails, PostTypes, rows
  <2>2. QED
    BY <1>2, <2>1
<1>4. ASSUME NEW h \in Holds, SelectFinds(h) PROVE OwnInv'
  <2>1. PICK s \in OpenOf(h) : result' = [result EXCEPT ![h] = s]
    BY <1>4 DEF SelectFinds
  <2>2. Mine(from[h], s)
    BY <1>4, <1>g, <2>1 DEF SelectFinds, OpenOf, PostTypes, Mine
  <2>3. /\ UNCHANGED <<owner, by, phone, from>>
        /\ \A k \in Holds : k # h => hold'[k] = hold[k] /\ result'[k] = result[k]
        /\ result'[h] = s
    BY <1>4, <1>g, <2>1 DEF SelectFinds, PostTypes, rows
  <2>4. QED
    BY <2>2, <2>3 DEF OwnInv, ShowsOwnSos, Mine, phone
<1>5. ASSUME NEW h \in Holds, Insert(h) PROVE OwnInv'
  <2>1. PICK n : n = Len(owner) + 1
    OBVIOUS
  <2>2. /\ \A s \in Signals : owner'[s] = owner[s] /\ by'[s] = by[s]
        /\ by'[n] = from[h] /\ UNCHANGED <<phone, from>>
        /\ result'[h] = n
        /\ \A k \in Holds : k # h => hold'[k] = hold[k] /\ result'[k] = result[k]
    BY <1>5, <1>g, <2>1, InsertRow DEF Insert, PostTypes
  <2>3. /\ \A p \in Phones : sos[p] # 0 => sos[p] \in Signals
        /\ \A p \in Phones : \A l \in lookups[p] : l.id \in Signals
        /\ \A k \in Holds : hold[k] = "answered" => result[k] \in Signals
    BY <1>g, <1>n DEF PhoneTypes, PostTypes, Looks
  <2>4. QED
    BY <2>2, <2>3 DEF OwnInv, ShowsOwnSos, Mine, phone
<1>6. ASSUME NEW h \in Holds, Triggered(h) PROVE OwnInv'
  <2>1. PICK p \in Phones : p = from[h]
    BY <1>6, <1>g DEF Triggered, PostTypes
  <2>2. /\ UNCHANGED <<owner, by, posts>>
        /\ sos' = [sos EXCEPT ![p] = result[h]]
        /\ \A q \in Phones : lookups'[q] \subseteq
              IF q = p THEN lookups[q] \union {Lookup(result[h])} ELSE lookups[q]
        /\ Mine(p, result[h])
    BY <1>6, <1>g, <2>1 DEF Triggered, SetActiveSos, PhoneTypes, OwnInv, rows
  <2>3. \A q \in Phones : \A l \in lookups'[q] : Mine(q, l.id)
    BY <2>2 DEF OwnInv, Lookup
  <2>4. QED
    BY <1>g, <2>2, <2>3 DEF OwnInv, ShowsOwnSos, Mine, PhoneTypes, posts
<1>7. ASSUME NEW u \in Updates,
             \/ ResolveOwn(u) \/ DeskUpdates(u) \/ UpdateRow(u)
             \/ UpdateFails(u) \/ DeskDone(u) \/ Retry(u)
      PROVE  OwnInv'
  <2>1. UNCHANGED <<owner, by, posts, phone>>
    BY <1>7 DEF ResolveOwn, DeskUpdates, Send, UpdateRow, UpdateFails, DeskDone, Retry, rows
  <2>2. QED
    BY <1>2, <2>1 DEF posts
<1>8. ASSUME NEW u \in Updates, PublishUpdate(u) \/ ResolvedOwn(u) PROVE OwnInv'
  <2>1. /\ UNCHANGED <<owner, by, posts>>
        /\ \A p \in Phones : sos'[p] \in {0, sos[p]} /\ lookups'[p] = lookups[p]
    BY <1>8, <1>g DEF PublishUpdate, ResolvedOwn, ClearActiveSos, PhoneTypes, rows
  <2>2. QED
    BY <1>1, <2>1 DEF OwnInv, posts
<1>9. CASE (\E x \in Holds \union Updates : Caught(x)) \/ UNCHANGED vars
  <2>1. UNCHANGED <<owner, by, posts, phone>>
    BY <1>9 DEF Caught, vars, rows, posts, phone
  <2>2. QED
    BY <1>2, <2>1 DEF posts
<1>10. CASE Crash
  <2>1. /\ UNCHANGED <<owner, by, from, result, sos, lookups>>
        /\ \A k \in Holds : hold'[k] = "answered" => hold[k] = "answered"
    BY <1>10 DEF Crash, rows
  <2>2. QED
    BY <2>1 DEF OwnInv, ShowsOwnSos, Mine
<1>11. ASSUME NEW p \in Phones, ApplyLookup(p) PROVE OwnInv'
  <2>1. PICK l \in lookups[p] :
          IF l.answer = "resolved" THEN ClearActiveSos(p, lookups[p] \ {l})
          ELSE SetActiveSos(p, l.id, l.answer, lookups[p] \ {l})
    BY <1>11 DEF ApplyLookup
  <2>2. UNCHANGED <<owner, by, posts>> /\ Mine(p, l.id)
    BY <1>11 DEF ApplyLookup, rows, OwnInv
  <2>3. \A q \in Phones : \A k \in lookups'[q] :
            k \in lookups[q] \/ (q = p /\ k = Lookup(l.id))
    BY <1>g, <2>1 DEF ClearActiveSos, SetActiveSos, PhoneTypes
  <2>4. \A q \in Phones : sos'[q] \in {0, sos[q]} \/ (q = p /\ sos'[q] = l.id)
    BY <1>g, <2>1 DEF ClearActiveSos, SetActiveSos, PhoneTypes
  <2>5. QED
    BY <2>2, <2>3, <2>4 DEF OwnInv, ShowsOwnSos, Mine, Lookup, posts
<1>12. ASSUME NEW p \in Phones, ReadStatus(p) \/ LookupFails(p) PROVE OwnInv'
  <2>1. PICK l \in lookups[p] :
          \/ lookups' = [lookups EXCEPT ![p] = @ \ {l}]
          \/ lookups' = [lookups EXCEPT ![p] =
                            (@ \ {l}) \union {[id |-> l.id, answer |-> status[l.id]]}]
    BY <1>12 DEF ReadStatus, LookupFails
  <2>2. UNCHANGED <<owner, by, posts, sos>>
    BY <1>12 DEF ReadStatus, LookupFails, rows
  <2>3. \A q \in Phones : \A k \in lookups'[q] :
            k \in lookups[q] \/ (q = p /\ k.id = l.id)
    BY <1>g, <2>1 DEF PhoneTypes
  <2>4. QED
    BY <2>1, <2>2, <2>3 DEF OwnInv, ShowsOwnSos, Mine, posts
<1>13. ASSUME NEW p \in Phones, Listen(p) \/ Reopen(p) \/ OnMessage(p) PROVE OwnInv'
  <2>1. /\ UNCHANGED <<owner, by, posts>>
        /\ \A q \in Phones : sos'[q] \in {0, sos[q]} /\ lookups'[q] = lookups[q]
    BY <1>13, <1>g DEF Listen, Reopen, OnMessage, ClearActiveSos, PhoneTypes, rows
  <2>2. QED
    BY <1>1, <2>1 DEF OwnInv, posts
<1>14. ASSUME NEW p \in Phones, Reload(p) PROVE OwnInv'
  <2>1. /\ UNCHANGED <<owner, by, posts, sos>>
        /\ \A q \in Phones : \A k \in lookups'[q] :
              k \in lookups[q] \/ (q = p /\ sos[p] # 0 /\ k = Lookup(sos[p]))
    BY <1>14, <1>g DEF Reload, PhoneTypes, rows
  <2>2. QED
    BY <1>1, <2>1 DEF OwnInv, ShowsOwnSos, Mine, Lookup, posts
<1>15. QED
  BY <1>3, <1>4, <1>5, <1>6, <1>7, <1>8, <1>9, <1>10, <1>11, <1>12, <1>13, <1>14, StepCases

(***************************************************************************)
(* A phone only ever shows signals of the user who is signed in there.     *)
(***************************************************************************)
THEOREM OnlyOwnSignals == Spec => []ShowsOwnSos
<1>1. Init => OwnInv
  BY DEF Init, OwnInv, ShowsOwnSos
<1>2. TypeOK /\ OwnInv /\ [Next]_vars => OwnInv'
  BY OwnStep
<1>3. OwnInv => ShowsOwnSos
  BY DEF OwnInv
<1>4. QED
  BY <1>1, <1>2, <1>3, TypeCorrect, PTL DEF Spec
-----------------------------------------------------------------------------
(***************************************************************************)
(* An SOS disappears from a phone only when it was resolved.  What tells   *)
(* the phone so is true: events, answers of lookups and answers of updates *)
(* carry a status that the signal has had.                                 *)
(***************************************************************************)
Told == {e \in Events : e.status \in had[e.id]}

HearInv ==
    /\ inbox \in [Phones -> Seq(Told)]
    /\ \A p \in Phones : \A l \in lookups[p] : l.answer # "none" => l.answer \in had[l.id]
    /\ \A u \in Updates : update[u] \in {"updated", "answered"} => value[u] \in had[target[u]]
    /\ \A u \in Updates : ActorOf[u] \in Phones /\ update[u] # "idle" => value[u] = "resolved"

\* What has been said of a signal stays true.
LEMMA HadGrows ==
    ASSUME TypeOK, [Next]_vars
    PROVE  /\ Signals \subseteq Signals'
           /\ \A s \in Signals : had[s] \subseteq had'[s]
<1>g. RowTypes
  BY TypeGroups
<1>1. ASSUME UNCHANGED rows
      PROVE  Signals \subseteq Signals' /\ \A s \in Signals : had[s] \subseteq had'[s]
  BY <1>1 DEF rows, Signals
<1>2. ASSUME NEW h \in Holds, Insert(h)
      PROVE  Signals \subseteq Signals' /\ \A s \in Signals : had[s] \subseteq had'[s]
  BY <1>2, InsertRow
<1>3. ASSUME NEW u \in Updates, UpdateRow(u)
      PROVE  Signals \subseteq Signals' /\ \A s \in Signals : had[s] \subseteq had'[s]
  <2>1. /\ owner' = owner
        /\ \A s \in Signals : had'[s] = had[s] \/ had'[s] = had[s] \union {value[u]}
    BY <1>3, <1>g DEF UpdateRow, RowTypes
  <2>2. QED
    BY <2>1 DEF Signals
<1>4. UNCHANGED rows \/ (\E h \in Holds : Insert(h)) \/ (\E u \in Updates : UpdateRow(u))
  <2>1. ASSUME NEW h \in Holds,
               \/ \E p \in Phones : Trigger(p, h)
               \/ SelectFinds(h) \/ SelectNone(h) \/ HoldFails(h) \/ Triggered(h)
        PROVE  UNCHANGED rows
    BY <2>1 DEF Trigger, SelectFinds, SelectNone, HoldFails, Triggered
  <2>2. ASSUME NEW u \in Updates,
               \/ ResolveOwn(u) \/ DeskUpdates(u) \/ PublishUpdate(u)
               \/ UpdateFails(u) \/ ResolvedOwn(u) \/ DeskDone(u) \/ Retry(u)
        PROVE  UNCHANGED rows
    BY <2>2 DEF ResolveOwn, DeskUpdates, Send, PublishUpdate, UpdateFails, ResolvedOwn, DeskDone, Retry
  <2>3. ASSUME NEW p \in Phones,
               \/ ReadStatus(p) \/ ApplyLookup(p) \/ LookupFails(p)
               \/ Listen(p) \/ Reopen(p) \/ OnMessage(p) \/ Reload(p)
        PROVE  UNCHANGED rows
    BY <2>3 DEF ReadStatus, ApplyLookup, LookupFails, Listen, Reopen, OnMessage, Reload
  <2>4. CASE (\E x \in Holds \union Updates : Caught(x)) \/ Crash \/ UNCHANGED vars
    BY <2>4 DEF Caught, Crash, vars, rows
  <2>5. QED
    BY <2>1, <2>2, <2>3, <2>4, StepCases
<1>5. QED
  BY <1>1, <1>2, <1>3, <1>4

LEMMA ToldGrows ==
    ASSUME TypeOK, [Next]_vars
    PROVE  Told \subseteq Told' /\ \A q \in Seq(Told) : q \in Seq(Told')
<1>1. Told \subseteq Told'
  BY HadGrows DEF Told, Events
<1>2. ASSUME NEW q \in Seq(Told) PROVE q \in Seq(Told')
  <2>1. q \in [1..Len(q) -> Told] /\ Len(q) \in Nat
    BY LenProperties
  <2>2. q \in [1..Len(q) -> Told']
    BY <1>1, <2>1
  <2>3. QED
    BY <2>1, <2>2
<1>3. QED
  BY <1>1, <1>2

LEMMA HearStep ==
    ASSUME TypeOK, HearInv, [Next]_vars
    PROVE  HearInv'
<1>g. RowTypes /\ PostTypes /\ PatchTypes /\ PhoneTypes
  BY TypeGroups
<1>h. \A s \in Signals : had[s] \subseteq had'[s]
  BY HadGrows
<1>i. \A q \in Seq(Told) : q \in Seq(Told')
  BY ToldGrows
<1>e. <<>> \in Seq(Told)
  OBVIOUS
<1>l. \A p \in Phones : \A l \in lookups[p] : l.id \in Signals
  BY <1>g DEF PhoneTypes, Looks
<1>t. \A u \in Updates : update[u] # "idle" => target[u] \in Signals
  BY <1>g, SignalFacts DEF PatchTypes
<1>1. ASSUME UNCHANGED patches,
             inbox' \in [Phones -> Seq(Told')],
             \A p \in Phones : \A l \in lookups'[p] : l \in lookups[p] \/ l.answer = "none"
      PROVE  HearInv'
  <2>1. \A p \in Phones : \A l \in lookups'[p] : l.answer # "none" => l.answer \in had'[l.id]
    BY <1>1, <1>h, <1>l DEF HearInv
  <2>2. \A u \in Updates : update[u] \in {"updated", "answered"} => value[u] \in had'[target[u]]
    BY <1>h, <1>t DEF HearInv
  <2>3. QED
    BY <1>1, <2>1, <2>2 DEF HearInv, patches
<1>2. inbox \in [Phones -> Seq(Told')]
  BY <1>i DEF HearInv
<1>3. ASSUME NEW p \in Phones,
             inbox' = inbox \/ inbox' = [inbox EXCEPT ![p] = <<>>]
                            \/ (inbox[p] # <<>> /\ inbox' = [inbox EXCEPT ![p] = Tail(inbox[p])])
      PROVE  inbox' \in [Phones -> Seq(Told')]
  <2>1. <<>> \in Seq(Told')
    BY <1>e, <1>i
  <2>2. inbox[p] # <<>> => Tail(inbox[p]) \in Seq(Told')
    BY <1>2, HeadTailProperties
  <2>3. QED
    BY <1>2, <1>3, <2>1, <2>2
<1>4. CASE UNCHANGED <<patches, phone>>
  BY <1>1, <1>2, <1>4 DEF phone
<1>5. ASSUME NEW h \in Holds,
             \/ \E p \in Phones : Trigger(p, h)
             \/ SelectFinds(h) \/ SelectNone(h) \/ Insert(h) \/ HoldFails(h)
      PROVE  HearInv'
  BY <1>4, <1>5 DEF Trigger, SelectFinds, SelectNone, Insert, HoldFails
<1>6. ASSUME NEW h \in Holds, Triggered(h) PROVE HearInv'
  <2>1. PICK p \in Phones : p = from[h]
    BY <1>6, <1>g DEF Triggered, PostTypes
  <2>2. /\ UNCHANGED patches
        /\ inbox' = inbox \/ inbox' = [inbox EXCEPT ![p] = <<>>]
    BY <1>6, <2>1 DEF Triggered, SetActiveSos
  <2>3. \A q \in Phones : \A l \in lookups'[q] : l \in lookups[q] \/ l = Lookup(result[h])
    BY <1>6, <1>g, <2>1 DEF Triggered, SetActiveSos, PhoneTypes
  <2>4. QED
    BY <1>1, <1>3, <2>2, <2>3 DEF Lookup
<1>7. ASSUME NEW u \in Updates, ResolveOwn(u) \/ DeskUpdates(u) PROVE HearInv'
  <2>1. PICK s, st : Send(u, s, st) /\ (ActorOf[u] \in Phones => st = "resolved")
    BY <1>7, SosAssumption DEF ResolveOwn, DeskUpdates
  <2>2. /\ UNCHANGED <<had, phone>> /\ update[u] = "idle" /\ update'[u] = "sent"
        /\ value'[u] = st
        /\ \A w \in Updates : w # u =>
              update'[w] = update[w] /\ target'[w] = target[w] /\ value'[w] = value[w]
    BY <2>1, <1>g DEF Send, PatchTypes, rows
  <2>3. QED
    BY <1>2, <2>1, <2>2 DEF HearInv, phone
<1>8. ASSUME NEW u \in Updates, UpdateRow(u) PROVE HearInv'
  <2>1. /\ UNCHANGED <<target, value, phone>> /\ update[u] = "sent"
        /\ value[u] \in had'[target[u]]
        /\ \A w \in Updates : w # u => update'[w] = update[w]
    BY <1>8, <1>g, <1>t DEF UpdateRow, PatchTypes, RowTypes
  <2>2. \A p \in Phones : \A l \in lookups[p] : l.answer # "none" => l.answer \in had'[l.id]
    BY <1>h, <1>l DEF HearInv
  <2>3. \A w \in Updates : update'[w] \in {"updated", "answered"} => value[w] \in had'[target[w]]
    BY <2>1, <1>h, <1>t DEF HearInv
  <2>4. \A w \in Updates : ActorOf[w] \in Phones /\ update'[w] # "idle" => value[w] = "resolved"
    BY <2>1 DEF HearInv
  <2>5. QED
    BY <1>2, <2>1, <2>2, <2>3, <2>4 DEF HearInv, phone
<1>9. ASSUME NEW u \in Updates, PublishUpdate(u) PROVE HearInv'
  <2>1. [id |-> target[u], status |-> value[u]] \in Told
    BY <1>9, <1>g, <1>t DEF PublishUpdate, HearInv, PatchTypes, Told, Events
  <2>2. \A p \in Phones : Append(inbox[p], [id |-> target[u], status |-> value[u]]) \in Seq(Told)
    BY <2>1, AppendProperties DEF HearInv
  <2>3. inbox' \in [Phones -> Seq(Told)] /\ UNCHANGED <<had, target, value, lookups>>
    BY <1>9, <2>2 DEF PublishUpdate, HearInv, rows
  <2>4. inbox' \in [Phones -> Seq(Told')]
    BY <2>3, <1>i
  <2>5. \A w \in Updates : update'[w] = update[w] \/ (w = u /\ update[u] = "updated")
    BY <1>9, <1>g DEF PublishUpdate, PatchTypes
  <2>6. QED
    BY <2>3, <2>4, <2>5 DEF HearInv
<1>10. ASSUME NEW u \in Updates, UpdateFails(u) \/ Retry(u) PROVE HearInv'
  <2>1. /\ UNCHANGED <<had, target, value, phone>>
        /\ update[u] # "idle" /\ update'[u] \in {"failed", "sent"}
        /\ \A w \in Updates : w # u => update'[w] = update[w]
    BY <1>10, <1>g DEF UpdateFails, Retry, PatchTypes, rows
  <2>2. QED
    BY <1>2, <2>1 DEF HearInv, phone
<1>11. ASSUME NEW u \in Updates, ResolvedOwn(u) PROVE HearInv'
  <2>1. PICK p \in Phones : p = ActorOf[u]
    BY <1>11 DEF ResolvedOwn
  <2>2. /\ UNCHANGED patches
        /\ inbox' = inbox \/ inbox' = [inbox EXCEPT ![p] = <<>>]
        /\ \A q \in Phones : lookups'[q] = lookups[q]
    BY <1>11, <1>g, <2>1 DEF ResolvedOwn, ClearActiveSos, PhoneTypes
  <2>3. QED
    BY <1>1, <1>3, <2>2
<1>12. CASE (\E u \in Updates : DeskDone(u)) \/ (\E x \in Holds \union Updates : Caught(x)) \/ UNCHANGED vars
  BY <1>4, <1>12 DEF DeskDone, Caught, vars, patches, phone
<1>13. CASE Crash
  <2>1. /\ UNCHANGED <<had, target, value, lookups>>
        /\ inbox' = [p \in Phones |-> <<>>]
        /\ \A u \in Updates : update'[u] = update[u] \/ (update'[u] = "failed" /\ update[u] # "idle")
    BY <1>13 DEF Crash, rows
  <2>2. inbox' \in [Phones -> Seq(Told')]
    BY <2>1
  <2>3. QED
    BY <2>1, <2>2 DEF HearInv
<1>14. ASSUME NEW p \in Phones, ReadStatus(p) PROVE HearInv'
  <2>1. PICK l \in lookups[p] :
          lookups' = [lookups EXCEPT ![p] = (lookups[p] \ {l}) \union {[id |-> l.id, answer |-> status[l.id]]}]
    BY <1>14 DEF ReadStatus
  <2>2. status[l.id] \in had[l.id]
    BY <1>g, <1>l DEF RowTypes
  <2>3. \A q \in Phones : \A k \in lookups'[q] :
            k \in lookups[q] \/ (k.id = l.id /\ k.answer = status[l.id])
    BY <1>g, <2>1 DEF PhoneTypes
  <2>4. UNCHANGED <<had, update, target, value, inbox>>
    BY <1>14 DEF ReadStatus, rows, patches
  <2>5. QED
    BY <1>2, <2>2, <2>3, <2>4 DEF HearInv
<1>15. ASSUME NEW p \in Phones, ApplyLookup(p) PROVE HearInv'
  <2>1. PICK l \in lookups[p] :
          IF l.answer = "resolved" THEN ClearActiveSos(p, lookups[p] \ {l})
          ELSE SetActiveSos(p, l.id, l.answer, lookups[p] \ {l})
    BY <1>15 DEF ApplyLookup
  <2>2. \A q \in Phones : \A k \in lookups'[q] : k \in lookups[q] \/ k = Lookup(l.id)
    <3>1. \/ lookups' = [lookups EXCEPT ![p] = lookups[p] \ {l}]
          \/ lookups' = [lookups EXCEPT ![p] = (lookups[p] \ {l}) \union {Lookup(l.id)}]
      BY <2>1 DEF ClearActiveSos, SetActiveSos
    <3>2. QED
      BY <1>g, <3>1 DEF PhoneTypes
  <2>3. inbox' = inbox \/ inbox' = [inbox EXCEPT ![p] = <<>>]
    BY <2>1 DEF ClearActiveSos, SetActiveSos
  <2>4. UNCHANGED patches
    BY <1>15 DEF ApplyLookup
  <2>5. QED
    BY <1>1, <1>3, <2>2, <2>3, <2>4 DEF Lookup
<1>16. ASSUME NEW p \in Phones, LookupFails(p) \/ Listen(p) \/ Reopen(p) \/ OnMessage(p) \/ Reload(p)
       PROVE  HearInv'
  <2>1. \A q \in Phones : \A l \in lookups'[q] : l \in lookups[q] \/ l = Lookup(sos[p])
    <3>1. \/ lookups' = lookups
          \/ \E ls \in SUBSET Looks : lookups' = [lookups EXCEPT ![p] = ls] /\ ls \subseteq lookups[p]
          \/ lookups' = [lookups EXCEPT ![p] = IF sos[p] = 0 THEN {} ELSE {Lookup(sos[p])}]
      <4>1. CASE LookupFails(p)
        <5>1. PICK l \in lookups[p] : lookups' = [lookups EXCEPT ![p] = lookups[p] \ {l}]
          BY <4>1 DEF LookupFails
        <5>2. lookups[p] \ {l} \in SUBSET Looks
          BY <1>g DEF PhoneTypes
        <5>3. QED
          BY <5>1, <5>2
      <4>2. CASE Listen(p) \/ Reopen(p)
        BY <4>2 DEF Listen, Reopen
      <4>3. CASE OnMessage(p)
        <5>1. lookups[p] \in SUBSET Looks
          BY <1>g DEF PhoneTypes
        <5>2. QED
          BY <4>3, <5>1 DEF OnMessage, ClearActiveSos
      <4>4. CASE Reload(p)
        BY <4>4 DEF Reload
      <4>5. QED
        BY <1>16, <4>1, <4>2, <4>3, <4>4
    <3>2. lookups \in [Phones -> SUBSET Looks]
      BY <1>g DEF PhoneTypes
    <3>3. QED
      BY <3>1, <3>2
  <2>2. \/ inbox' = inbox \/ inbox' = [inbox EXCEPT ![p] = <<>>]
        \/ (inbox[p] # <<>> /\ inbox' = [inbox EXCEPT ![p] = Tail(inbox[p])])
    BY <1>16 DEF LookupFails, Listen, Reopen, OnMessage, Reload, ClearActiveSos
  <2>3. UNCHANGED patches
    BY <1>16 DEF LookupFails, Listen, Reopen, OnMessage, Reload
  <2>4. QED
    BY <1>1, <1>3, <2>1, <2>2, <2>3 DEF Lookup
<1>17. QED
  BY <1>5, <1>6, <1>7, <1>8, <1>9, <1>10, <1>11, <1>12, <1>13, <1>14, <1>15, <1>16, StepCases

(***************************************************************************)
(* No event of another signal, no failure, no reload and no reordering     *)
(* hides an SOS that was not resolved.                                     *)
(***************************************************************************)
THEOREM ResolvedBeforeHidden == Spec => HiddenWhenResolved
<1> DEFINE Justified ==
        \A p \in Phones : sos[p] # 0 /\ sos'[p] = 0 =>
            \E s \in {sos[p]} \union About(p) : "resolved" \in had[s]
<1>1. Init => HearInv
  <2> SUFFICES ASSUME Init PROVE HearInv
    OBVIOUS
  <2>1. inbox \in [Phones -> Seq(Told)]
    BY DEF Init
  <2>2. QED
    BY <2>1 DEF Init, HearInv
<1>2. TypeOK /\ HearInv /\ [Next]_vars => HearInv'
  BY HearStep
<1>3. TypeOK /\ HearInv /\ [Next]_vars => Justified
  <2> SUFFICES ASSUME TypeOK, HearInv, [Next]_vars,
                      NEW q \in Phones, sos[q] # 0, sos'[q] = 0
               PROVE  \E s \in {sos[q]} \union About(q) : "resolved" \in had[s]
    OBVIOUS
  <2>g. RowTypes /\ PostTypes /\ PatchTypes /\ PhoneTypes
    BY TypeGroups
  <2>1. sos' # sos
    OBVIOUS
  <2>2. ASSUME NEW h \in Holds, Triggered(h) PROVE FALSE
    BY <2>2, <2>g DEF Triggered, SetActiveSos, PostTypes, PhoneTypes
  <2>3. ASSUME NEW u \in Updates, ResolvedOwn(u)
        PROVE  \E s \in {sos[q]} \union About(q) : "resolved" \in had[s]
    <3>1. ActorOf[u] = q /\ u \in waiting
      BY <2>3, <2>g DEF ResolvedOwn, ClearActiveSos, PhoneTypes
    <3>2. target[u] \in About(q)
      BY <3>1 DEF About
    <3>3. "resolved" \in had[target[u]]
      BY <2>3, <3>1 DEF ResolvedOwn, HearInv
    <3>4. QED
      BY <3>2, <3>3
  <2>4. ASSUME NEW p \in Phones, ApplyLookup(p)
        PROVE  \E s \in {sos[q]} \union About(q) : "resolved" \in had[s]
    <3>1. PICK l \in lookups[p] :
            IF l.answer = "resolved" THEN ClearActiveSos(p, lookups[p] \ {l})
            ELSE SetActiveSos(p, l.id, l.answer, lookups[p] \ {l})
      BY <2>4 DEF ApplyLookup
    <3>2. l.id # 0
      BY <2>g, SignalFacts DEF PhoneTypes, Looks
    <3>3. p = q /\ l.answer = "resolved"
      BY <3>1, <3>2, <2>g DEF ClearActiveSos, SetActiveSos, PhoneTypes
    <3>4. l.id \in About(q) /\ "resolved" \in had[l.id]
      BY <3>3 DEF About, HearInv
    <3>5. QED
      BY <3>4
  <2>5. ASSUME NEW p \in Phones, OnMessage(p)
        PROVE  \E s \in {sos[q]} \union About(q) : "resolved" \in had[s]
    <3>1. PICK e : e = Head(inbox[p])
      OBVIOUS
    <3>2. e \in Told
      BY <2>5, <3>1, HeadTailProperties DEF OnMessage, HearInv
    <3>3. e.id = sos[p] /\ e.status = "resolved" /\ ClearActiveSos(p, lookups[p])
      BY <2>1, <2>5, <3>1 DEF OnMessage
    <3>4. p = q
      BY <3>3, <2>g DEF ClearActiveSos, PhoneTypes
    <3>5. QED
      BY <3>2, <3>3, <3>4 DEF Told
  <2>6. ASSUME NEW h \in Holds,
               \/ \E p \in Phones : Trigger(p, h)
               \/ SelectFinds(h) \/ SelectNone(h) \/ Insert(h) \/ HoldFails(h)
        PROVE  FALSE
    BY <2>1, <2>6 DEF Trigger, SelectFinds, SelectNone, Insert, HoldFails, phone
  <2>7. ASSUME NEW u \in Updates,
               \/ ResolveOwn(u) \/ DeskUpdates(u) \/ UpdateRow(u) \/ PublishUpdate(u)
               \/ UpdateFails(u) \/ DeskDone(u) \/ Retry(u)
        PROVE  FALSE
    BY <2>1, <2>7 DEF ResolveOwn, DeskUpdates, Send, UpdateRow, PublishUpdate, UpdateFails,
       DeskDone, Retry, phone
  <2>8. ASSUME NEW p \in Phones,
               ReadStatus(p) \/ LookupFails(p) \/ Listen(p) \/ Reopen(p) \/ Reload(p)
        PROVE  FALSE
    BY <2>1, <2>8 DEF ReadStatus, LookupFails, Listen, Reopen, Reload
  <2>9. CASE (\E x \in Holds \union Updates : Caught(x)) \/ Crash \/ UNCHANGED vars
    BY <2>1, <2>9 DEF Caught, Crash, vars, phone
  <2>10. QED
    BY <2>2, <2>3, <2>4, <2>5, <2>6, <2>7, <2>8, <2>9, StepCases
<1>4. TypeOK /\ HearInv /\ [Next]_vars => [Justified]_vars
  BY <1>3
<1>5. QED
  BY <1>1, <1>2, <1>4, TypeCorrect, PTL DEF Spec, HiddenWhenResolved

=============================================================================
