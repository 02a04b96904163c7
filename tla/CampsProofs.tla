---------------------------- MODULE CampsProofs ----------------------------
(***************************************************************************)
(* Proofs about Camps: types, that the pages show what the table holds and *)
(* what their editors would save, and what a save can overwrite.           *)
(***************************************************************************)
EXTENDS Camps, TLAPS

AmissTypes ==
    /\ outdated \subseteq Viewers \X Keys
    /\ short \subseteq Viewers \X {"list"} /\ failed \subseteq Viewers \X Keys

USE DEF amiss, AmissTypes

-----------------------------------------------------------------------------
(***************************************************************************)
(* Types, in groups of variables that go together.                         *)
(***************************************************************************)

Table(f) == f = [v \in Viewers |-> [k \in Keys |-> f[v][k]]]

CoreTypes ==
    /\ plan \in Plans
    /\ rows \in [Ids -> {None} \union Rows]
    /\ handler \in [Ops -> [Attempts -> {"none", "asked", "applied", "done", "failed"}]]
    /\ op \in [Ops -> {"idle", "waiting", "landing", "ok", "failed"}]
    /\ attempt \in [Ops -> Attempts]
    /\ \A e \in Ops : /\ op[e] = "idle" => handler[e][1] = "none" /\ attempt[e] = 1
                      /\ attempt[e] = 1 => handler[e][2] = "none"
                      /\ op[e] # "idle" => sent[e] \in Asks(e)
                      /\ op[e] = "landing" => KindOf[e] = "create"
                      /\ KindOf[e] = "stock" /\ op[e] # "idle" => IsList(previous[e])
    /\ sent = [e \in Ops |-> sent[e]] /\ previous = [e \in Ops |-> previous[e]]
    /\ attached \subseteq Ops

PageTypes == page \in [Viewers -> Pages]

CacheTypes ==
    /\ Table(cache)
    /\ \A v \in Viewers, k \in Keys : Has(v, k) => IsData(k, cache[v][k])
    /\ \A e \in Ops : KindOf[e] = "stock" /\ op[e] # "idle" => Has(DeskOf[e], "list")

FetchTypes ==
    /\ fetch \in [Viewers -> [Keys -> {None, "asked", "read"}]]
    /\ Table(reply)
    /\ \A v \in Viewers, k \in Keys : /\ reply[v][k] # None => IsData(k, reply[v][k])
                                      /\ reply[v][k] # None <=> fetch[v][k] = "read"
    /\ invalid \subseteq Viewers \X Keys /\ AmissTypes

EditorTypes ==
    /\ editing \subseteq {d \in Desks : OnCamp(d)} /\ dialog \subseteq {d \in Desks : OnCamp(d)}
    /\ confirm \subseteq Desks /\ reread \subseteq Desks
    /\ draft \in [Desks -> {None} \union Drafts]
    /\ marker \in [Desks -> {None} \union Writers]
    /\ \A d \in Desks : OnCamp(d) => draft[d] # None /\ marker[d] # None
    /\ base \in [Desks -> Nat]

FeedTypes == news \in [Viewers -> Nat] /\ deaf \subseteq Viewers

LEMMA TypeGroups ==
    /\ TypeOK <=> CoreTypes /\ PageTypes /\ CacheTypes /\ FetchTypes /\ EditorTypes /\ FeedTypes
    /\ TypeOK' <=> CoreTypes' /\ PageTypes' /\ CacheTypes' /\ FetchTypes' /\ EditorTypes' /\ FeedTypes'
<1>1. TypeOK <=> CoreTypes /\ PageTypes /\ CacheTypes /\ FetchTypes /\ EditorTypes /\ FeedTypes
  BY Zenon DEF TypeOK, CoreTypes, PageTypes, CacheTypes, FetchTypes, EditorTypes, FeedTypes, Table, AmissTypes
<1>2. TypeOK' <=> CoreTypes' /\ PageTypes' /\ CacheTypes' /\ FetchTypes' /\ EditorTypes' /\ FeedTypes'
  BY <1>1, PTL
<1> QED BY <1>1, <1>2

LEMMA CoreSame == CoreTypes /\ UNCHANGED <<plan, server, ops>> => CoreTypes'
<1> SUFFICES ASSUME CoreTypes, UNCHANGED <<plan, server, ops>> PROVE CoreTypes'
  OBVIOUS
<1>1. UNCHANGED <<plan, rows, handler, op, attempt, sent, previous, attached>>
  BY DEF server, ops
<1> QED BY <1>1 DEF CoreTypes

LEMMA CacheSame == CacheTypes /\ UNCHANGED <<cache, op>> => CacheTypes'
  BY DEF CacheTypes, Has, Table

LEMMA FetchSame == FetchTypes /\ UNCHANGED <<fetch, reply, invalid, amiss>> => FetchTypes'
  BY DEF FetchTypes, Table

LEMMA EditorSame == EditorTypes /\ UNCHANGED <<editor, page, cache>> => EditorTypes'
  BY DEF EditorTypes, editor, OnCamp, Displays, Watches, Has

\* One entry of a table changes.
Puts(f, g, w, j, x) ==
    /\ Table(g) /\ g[w][j] = x
    /\ \A v \in Viewers, k \in Keys : v # w \/ k # j => g[v][k] = f[v][k]

LEMMA PutAt ==
  ASSUME NEW f, Table(f), NEW w \in Viewers, NEW j \in Keys, NEW x
  PROVE  Puts(f, [f EXCEPT ![w][j] = x], w, j, x)
<1> DEFINE g == [f EXCEPT ![w][j] = x]
<1>1. f = [v \in Viewers |-> [k \in Keys |-> f[v][k]]]
  BY DEF Table
<1>2. g = [v \in Viewers |-> [k \in Keys |-> IF v = w /\ k = j THEN x ELSE f[v][k]]]
  BY <1>1
<1>3. \A v \in Viewers, k \in Keys : g[v][k] = IF v = w /\ k = j THEN x ELSE f[v][k]
  BY <1>2
<1>4. g = [v \in Viewers |-> [k \in Keys |-> g[v][k]]]
  BY <1>2, <1>3
<1> QED BY <1>3, <1>4 DEF Table, Puts

LEMMA PlanOps == TypeOK => plan.ops \subseteq Ops
  BY CampsAssumption DEF TypeOK

LEMMA ListIsKey == "list" \in Keys /\ Ids \subseteq Keys /\ "list" \notin Ids
  BY CampsAssumption DEF Keys

LEMMA DataIsNotNone ==
  ASSUME NEW k, NEW x, IsData(k, x)
  PROVE  x # None
BY NoneAssumption DEF IsData, IsList

\* What the backend answers is data.
LEMMA TruthIsData ==
  ASSUME CoreTypes, NEW k \in Keys, Truth(k) # None
  PROVE  IsData(k, Truth(k))
<1>1. CASE k = "list"
  <2>1. Exists \in SUBSET Ids /\ \A i \in Exists : rows[i] \in Rows
    BY DEF Exists, CoreTypes
  <2>2. [i \in Exists |-> rows[i]] \in [Exists -> Rows]
    BY <2>1
  <2> QED BY <1>1, <2>1, <2>2 DEF IsData, IsList, Truth
<1>2. CASE k # "list"
  BY <1>2 DEF IsData, Truth, CoreTypes, Keys
<1> QED BY <1>1, <1>2

\* What a read answers: the table, or of a list some of its rows.
Answers(k, x) ==
    \/ x = Truth(k)
    \/ k = "list" /\ \E part \in SUBSET Exists : x = [i \in part |-> rows[i]]

LEMMA AnswerIsData ==
  ASSUME CoreTypes, NEW k \in Keys, Truth(k) # None, NEW x, Answers(k, x)
  PROVE  IsData(k, x)
<1>1. CASE x = Truth(k)
  BY <1>1, TruthIsData
<1>2. CASE k = "list" /\ \E part \in SUBSET Exists : x = [i \in part |-> rows[i]]
  <2>1. PICK part \in SUBSET Exists : x = [i \in part |-> rows[i]]
    BY <1>2
  <2>2. part \in SUBSET Ids /\ \A i \in part : rows[i] \in Rows
    BY DEF Exists, CoreTypes
  <2>3. x \in [part -> Rows]
    BY <2>1, <2>2
  <2> QED BY <1>2, <2>2, <2>3 DEF IsData, IsList
<1> QED BY <1>1, <1>2 DEF Answers

LEMMA ReadAnswers ==
  ASSUME NEW v, NEW k, Read(v, k)
  PROVE  \E x : /\ reply' = [reply EXCEPT ![v][k] = x] /\ Answers(k, x)
                /\ x = Truth(k) \/ <<v, k>> \in short'
                /\ \A w, j : w # v \/ j # k => (<<w, j>> \in short' <=> <<w, j>> \in short)
<1>1. CASE UNCHANGED short /\ reply' = [reply EXCEPT ![v][k] = Truth(k)]
  <2> DEFINE x == Truth(k)
  <2>1. Answers(k, x)
    BY DEF Answers
  <2> HIDE DEF x
  <2>2. reply' = [reply EXCEPT ![v][k] = x] /\ x = Truth(k)
    BY <1>1 DEF x
  <2> QED BY <1>1, <2>1, <2>2
<1>2. CASE /\ k = "list" /\ short' = short \union {<<v, k>>}
           /\ \E part \in (SUBSET Exists) \ {Exists} : reply' = [reply EXCEPT ![v][k] = [i \in part |-> rows[i]]]
  <2>1. PICK part \in SUBSET Exists : reply' = [reply EXCEPT ![v][k] = [i \in part |-> rows[i]]]
    BY <1>2
  <2> DEFINE x == [i \in part |-> rows[i]]
  <2>2. Answers(k, x)
    BY <1>2 DEF Answers
  <2> HIDE DEF x
  <2> QED BY <1>2, <2>1, <2>2 DEF x
<1> QED BY <1>1, <1>2 DEF Read

\* The request of one query moves on.
LEMMA FetchPut ==
  ASSUME FetchTypes, NEW v \in Viewers, NEW k \in Keys, NEW st \in {None, "asked", "read"}, NEW x,
         fetch' = [fetch EXCEPT ![v][k] = st], reply' = [reply EXCEPT ![v][k] = x],
         x # None <=> st = "read", x # None => IsData(k, x),
         invalid' \subseteq Viewers \X Keys, AmissTypes'
  PROVE  FetchTypes'
<1>1. fetch' \in [Viewers -> [Keys -> {None, "asked", "read"}]] /\ fetch'[v][k] = st
      /\ \A w \in Viewers, j \in Keys : w # v \/ j # k => fetch'[w][j] = fetch[w][j]
  BY DEF FetchTypes
<1>2. Puts(reply, reply', v, k, x)
  BY PutAt DEF FetchTypes
<1>3. \A w \in Viewers, j \in Keys : /\ reply'[w][j] # None => IsData(j, reply'[w][j])
                                     /\ reply'[w][j] # None <=> fetch'[w][j] = "read"
  <2> SUFFICES ASSUME NEW w \in Viewers, NEW j \in Keys
               PROVE  /\ reply'[w][j] # None => IsData(j, reply'[w][j])
                      /\ reply'[w][j] # None <=> fetch'[w][j] = "read"
    OBVIOUS
  <2>1. CASE w = v /\ j = k
    BY <1>1, <1>2, <2>1 DEF Puts
  <2>2. CASE w # v \/ j # k
    BY <1>1, <1>2, <2>2 DEF FetchTypes, Puts
  <2> QED BY <2>1, <2>2
<1> QED BY <1>1, <1>2, <1>3 DEF FetchTypes, Puts

LEMMA AskTypes ==
  ASSUME FetchTypes, NEW v \in Viewers, NEW k \in Keys, Ask(v, k)
  PROVE  FetchTypes'
<1>1. fetch' = [fetch EXCEPT ![v][k] = "asked"] /\ reply' = [reply EXCEPT ![v][k] = None]
  BY DEF Ask
<1>2. invalid' \subseteq Viewers \X Keys /\ AmissTypes'
  BY DEF Ask, FetchTypes
<1> QED BY <1>1, <1>2, FetchPut

LEMMA InvalidateTypes ==
  ASSUME FetchTypes, NEW v \in Viewers, NEW k \in Keys, Invalidate(v, k)
  PROVE  FetchTypes'
<1>1. CASE Ask(v, k)
  BY <1>1, AskTypes
<1>2. CASE ~Ask(v, k)
  <2>1. UNCHANGED <<fetch, reply, short, failed>> /\ invalid' \subseteq invalid \union {<<v, k>>}
        /\ outdated' \subseteq outdated \union {<<v, k>>}
    BY <1>2 DEF Invalidate
  <2>2. invalid' \subseteq Viewers \X Keys /\ AmissTypes'
    BY <2>1 DEF FetchTypes
  <2> QED BY <2>1, <2>2 DEF FetchTypes, Table
<1> QED BY <1>1, <1>2

LEMMA MountTypes ==
  ASSUME FetchTypes, NEW v \in Viewers, NEW k, Mount(v, k)
  PROVE  FetchTypes'
<1>1. CASE k \in Keys /\ Ask(v, k)
  BY <1>1, AskTypes
<1>2. CASE UNCHANGED <<fetch, reply, invalid, amiss>>
  BY <1>2, FetchSame
<1> QED BY <1>1, <1>2 DEF Mount

LEMMA OutdateTypes ==
  ASSUME FetchTypes, Outdate, UNCHANGED <<fetch, reply, invalid>>
  PROVE  FetchTypes'
<1>1. AmissTypes'
  BY DEF Outdate, Loaded, FetchTypes
<1> QED BY <1>1 DEF FetchTypes, Table

\* An operation begins, or is tried again.
LEMMA BeginTypes ==
  ASSUME CoreTypes, NEW e \in Ops, NEW a \in Attempts, NEW what \in Asks(e), Begin(e, a, what),
         (op[e] = "idle" /\ a = 1) \/ (attempt[e] = 1 /\ a = 2),
         UNCHANGED <<plan, rows>>, attached' \subseteq Ops,
         previous' = [x \in Ops |-> previous'[x]], \A x \in Ops \ {e} : previous'[x] = previous[x],
         KindOf[e] = "stock" => IsList(previous'[e])
  PROVE  CoreTypes'
<1>1. /\ op' = [op EXCEPT ![e] = "waiting"] /\ attempt' = [attempt EXCEPT ![e] = a]
      /\ handler' = [handler EXCEPT ![e][a] = "asked"] /\ sent' = [sent EXCEPT ![e] = what]
  BY DEF Begin
<1>2. /\ op' \in [Ops -> {"idle", "waiting", "landing", "ok", "failed"}]
      /\ attempt' \in [Ops -> Attempts]
      /\ handler' \in [Ops -> [Attempts -> {"none", "asked", "applied", "done", "failed"}]]
  BY <1>1 DEF CoreTypes
<1>3. sent' = [x \in Ops |-> sent'[x]] /\ sent'[e] = what /\ \A x \in Ops \ {e} : sent'[x] = sent[x]
  <2>1. sent = [x \in Ops |-> sent[x]]
    BY DEF CoreTypes
  <2> QED BY <1>1, <2>1
<1>4. op'[e] = "waiting" /\ attempt'[e] = a /\ (a = 1 => handler'[e][2] = "none")
  BY <1>1 DEF CoreTypes, Attempts
<1>5. \A x \in Ops \ {e} : op'[x] = op[x] /\ attempt'[x] = attempt[x] /\ handler'[x] = handler[x]
  BY <1>1 DEF CoreTypes
<1>6. ASSUME NEW x \in Ops
      PROVE  /\ op'[x] = "idle" => handler'[x][1] = "none" /\ attempt'[x] = 1
             /\ attempt'[x] = 1 => handler'[x][2] = "none"
             /\ op'[x] # "idle" => sent'[x] \in Asks(x)
             /\ op'[x] = "landing" => KindOf[x] = "create"
             /\ KindOf[x] = "stock" /\ op'[x] # "idle" => IsList(previous'[x])
  <2>1. CASE x = e
    BY <1>3, <1>4, <2>1
  <2>2. CASE x # e
    BY <1>3, <1>5, <2>2 DEF CoreTypes
  <2> QED BY <2>1, <2>2
<1> QED
  BY <1>2, <1>3, <1>6 DEF CoreTypes, Asks

\* An operation ends.
LEMMA EndTypes ==
  ASSUME CoreTypes, NEW e \in Ops, NEW how \in {"landing", "ok", "failed"}, End(e, how), op[e] # "idle",
         how = "landing" => KindOf[e] = "create", attached' \subseteq Ops
  PROVE  CoreTypes'
<1>1. op' = [op EXCEPT ![e] = how] /\ UNCHANGED <<plan, rows, handler, attempt, sent, previous>>
  BY DEF End, server
<1>2. op' \in [Ops -> {"idle", "waiting", "landing", "ok", "failed"}] /\ op'[e] = how
      /\ \A x \in Ops \ {e} : op'[x] = op[x]
  BY <1>1 DEF CoreTypes
<1>3. ASSUME NEW x \in Ops
      PROVE  /\ op'[x] = "idle" => handler'[x][1] = "none" /\ attempt'[x] = 1
             /\ attempt'[x] = 1 => handler'[x][2] = "none"
             /\ op'[x] # "idle" => sent'[x] \in Asks(x)
             /\ op'[x] = "landing" => KindOf[x] = "create"
             /\ KindOf[x] = "stock" /\ op'[x] # "idle" => IsList(previous'[x])
  <2>1. CASE x = e
    BY <1>1, <1>2, <2>1 DEF CoreTypes
  <2>2. CASE x # e
    BY <1>1, <1>2, <2>2 DEF CoreTypes
  <2> QED BY <2>1, <2>2
<1> QED
  BY <1>1, <1>2, <1>3 DEF CoreTypes, Asks

\* The effects of the page of a camp.
LEMMA EffectsTypes ==
  ASSUME EditorTypes, NEW v \in Viewers, NEW k, NEW row \in Rows, NEW edits \in BOOLEAN,
         Effects(v, k, row, edits), edits => v \in Desks
  PROVE  /\ draft' \in [Desks -> {None} \union Drafts] /\ marker' \in [Desks -> {None} \union Writers]
         /\ reread' \subseteq Desks
         /\ v \in Desks => marker'[v] # None /\ (draft[v] # None \/ ~edits => draft'[v] # None)
         /\ \A d \in Desks : d # v => draft'[d] = draft[d] /\ marker'[d] = marker[d]
<1>1. row.entry \in Writers /\ row.place \in Writers /\ row.place # None
  BY NoneAssumption DEF Rows
<1>2. Entered(row) \in Drafts /\ Entered(row) # None
  BY <1>1, NoneAssumption DEF Entered, Drafts
<1>3. reread' \subseteq Desks
  BY DEF Effects, EditorTypes
<1>4. marker' = [marker EXCEPT ![v] = row.place]
  BY DEF Effects
<1>5. marker' \in [Desks -> {None} \union Writers] /\ (v \in Desks => marker'[v] # None)
      /\ \A d \in Desks : d # v => marker'[d] = marker[d]
  BY <1>1, <1>4 DEF EditorTypes
<1>6. CASE edits
  BY <1>3, <1>5, <1>6 DEF Effects, EditorTypes
<1>7. CASE ~edits
  <2>1. draft' = [draft EXCEPT ![v] = Entered(row)]
    BY <1>7 DEF Effects
  <2> QED BY <1>2, <1>3, <1>5, <1>7, <2>1 DEF EditorTypes
<1> QED BY <1>6, <1>7

\* A camp that its page shows.
LEMMA CampShown ==
  ASSUME CacheTypes, NEW d \in Desks, OnCamp(d)
  PROVE  page[d] \in Ids /\ cache[d][page[d]] \in Rows
BY ListIsKey DEF CacheTypes, OnCamp, Displays, IsData, Viewers

\* An answer arrives.
LEMMA ApplyTypes ==
  ASSUME TypeOK, NEW v \in Viewers, NEW k \in Keys, Apply(v, k)
  PROVE  TypeOK'
<1>1. CoreTypes /\ PageTypes /\ CacheTypes /\ FetchTypes /\ EditorTypes /\ FeedTypes
  BY TypeGroups
<1>2. UNCHANGED <<plan, server, ops, page, editing, dialog, confirm, base, feed, amiss>>
  BY DEF Apply
<1>3. reply[v][k] # None /\ IsData(k, reply[v][k])
  BY <1>1 DEF Apply, FetchTypes
<1>4. Puts(cache, cache', v, k, reply[v][k])
  <2>1. Puts(cache, [cache EXCEPT ![v][k] = reply[v][k]], v, k, reply[v][k])
    BY <1>1, PutAt DEF CacheTypes
  <2> QED BY <2>1 DEF Apply
<1>6. \A w \in Viewers, j \in Keys : Has(w, j) => Has(w, j)'
  BY <1>3, <1>4 DEF Puts, Has
<1>7. CacheTypes'
  <2>1. \A w \in Viewers, j \in Keys : Has(w, j)' => IsData(j, cache'[w][j])
    <3> SUFFICES ASSUME NEW w \in Viewers, NEW j \in Keys, Has(w, j)' PROVE IsData(j, cache'[w][j])
      OBVIOUS
    <3>1. CASE w = v /\ j = k
      BY <1>3, <1>4, <3>1 DEF Puts
    <3>2. CASE w # v \/ j # k
      BY <1>1, <1>4, <3>2 DEF Puts, Has, CacheTypes
    <3> QED BY <3>1, <3>2
  <2>2. \A e \in Ops : DeskOf[e] \in Viewers
    BY CampsAssumption DEF Viewers
  <2>3. \A e \in Ops : KindOf[e] = "stock" /\ op'[e] # "idle" => Has(DeskOf[e], "list")'
    BY <1>1, <1>2, <1>6, <2>2, ListIsKey DEF CacheTypes, ops
  <2> QED BY <1>4, <2>1, <2>3 DEF Puts, CacheTypes, IsData, IsList
<1>8. FetchTypes'
  <2>1. fetch' = [fetch EXCEPT ![v][k] = None] /\ reply' = [reply EXCEPT ![v][k] = None] /\ None # "read"
    BY NoneAssumption DEF Apply
  <2>2. invalid' \subseteq Viewers \X Keys /\ AmissTypes'
    BY <1>1, <1>2 DEF Apply, FetchTypes
  <2> QED BY <1>1, <2>1, <2>2, FetchPut
<1>9. EditorTypes'
  <2>1. \A d \in Desks : OnCamp(d) => OnCamp(d)'
    BY <1>2, <1>6, ListIsKey DEF OnCamp, Displays, Watches, Viewers
  <2>2. editing' \subseteq {d \in Desks : OnCamp(d)'} /\ dialog' \subseteq {d \in Desks : OnCamp(d)'}
        /\ confirm' \subseteq Desks /\ base' \in [Desks -> Nat]
    BY <1>1, <1>2, <2>1 DEF EditorTypes
  <2>3. CASE k \in Ids /\ Watches(v, k) /\ ~(Has(v, k) /\ Visible(cache[v][k]) = Visible(reply[v][k]))
    <3>1. Effects(v, k, reply[v][k], v \in editing) /\ reply[v][k] \in Rows
      BY <1>3, <2>3, ListIsKey DEF Apply, IsData
    <3>2. PICK edits \in BOOLEAN : Effects(v, k, reply[v][k], edits) /\ (edits <=> v \in editing)
      <4>1. CASE v \in editing
        <5>1. Effects(v, k, reply[v][k], TRUE)
          BY <3>1, <4>1 DEF Effects
        <5> QED BY <4>1, <5>1
      <4>2. CASE v \notin editing
        <5>1. Effects(v, k, reply[v][k], FALSE)
          BY <3>1, <4>2 DEF Effects
        <5> QED BY <4>2, <5>1
      <4> QED BY <4>1, <4>2
    <3>3. /\ draft' \in [Desks -> {None} \union Drafts] /\ marker' \in [Desks -> {None} \union Writers]
          /\ reread' \subseteq Desks
          /\ v \in Desks => marker'[v] # None /\ draft'[v] # None
          /\ \A d \in Desks : d # v => draft'[d] = draft[d] /\ marker'[d] = marker[d]
      <4>1. edits => v \in Desks /\ draft[v] # None
        BY <1>1, <3>2, ListIsKey DEF EditorTypes, OnCamp
      <4> QED BY <1>1, <3>1, <3>2, <4>1, EffectsTypes
    <3>4. \A d \in Desks : d # v /\ OnCamp(d)' => OnCamp(d)
      BY <1>2, <1>4, ListIsKey DEF OnCamp, Displays, Watches, Viewers, Has, Puts
    <3>5. \A d \in Desks : OnCamp(d)' => draft'[d] # None /\ marker'[d] # None
      BY <1>1, <3>3, <3>4 DEF EditorTypes
    <3> QED BY <2>2, <3>3, <3>5 DEF EditorTypes
  <2>4. CASE ~(k \in Ids /\ Watches(v, k) /\ ~(Has(v, k) /\ Visible(cache[v][k]) = Visible(reply[v][k])))
    <3>1. UNCHANGED <<draft, marker, reread>>
      BY <2>4 DEF Apply
    <3>2. \A d \in Desks : OnCamp(d)' => OnCamp(d)
      BY <1>2, <1>4, <2>4, ListIsKey DEF OnCamp, Displays, Watches, Viewers, Has, Puts
    <3> QED BY <1>1, <2>2, <3>1, <3>2 DEF EditorTypes
  <2> QED BY <2>3, <2>4
<1>10. CoreTypes' /\ PageTypes' /\ FeedTypes'
  BY <1>1, <1>2, CoreSame DEF PageTypes, FeedTypes, feed
<1> QED BY <1>7, <1>8, <1>9, <1>10, TypeGroups

\* The other steps of a query.
LEMMA QueryTypes ==
  ASSUME TypeOK, NEW v \in Viewers, NEW k \in Keys, Refetch(v, k) \/ Read(v, k) \/ LoadFails(v, k)
  PROVE  TypeOK'
<1>1. CoreTypes /\ PageTypes /\ CacheTypes /\ FetchTypes /\ EditorTypes /\ FeedTypes
  BY TypeGroups
<1>2. UNCHANGED <<plan, server, ops, page, cache, editor, feed>>
  BY DEF Refetch, Read, LoadFails
<1>3. FetchTypes'
  <2>1. CASE Refetch(v, k)
    BY <1>1, <2>1, AskTypes DEF Refetch
  <2>2. CASE Read(v, k) \/ LoadFails(v, k)
    <3> DEFINE Becomes(st, x) ==
            /\ fetch' = [fetch EXCEPT ![v][k] = st] /\ reply' = [reply EXCEPT ![v][k] = x]
            /\ x # None <=> st = "read"
            /\ x # None => IsData(k, x)
    <3>1. PICK st \in {None, "read"} : \E x : Becomes(st, x)
      <4>1. CASE Read(v, k)
        <5>1. PICK x : reply' = [reply EXCEPT ![v][k] = x] /\ Answers(k, x)
          BY <4>1, ReadAnswers
        <5>2. IsData(k, x) /\ x # None
          BY <1>1, <4>1, <5>1, AnswerIsData, DataIsNotNone DEF Read
        <5>3. fetch' = [fetch EXCEPT ![v][k] = "read"]
          BY <4>1 DEF Read
        <5> QED BY <5>1, <5>2, <5>3
      <4>2. CASE LoadFails(v, k)
        <5> QED BY <4>2, NoneAssumption DEF LoadFails
      <4> QED BY <2>2, <4>1, <4>2
    <3>2. PICK x : Becomes(st, x)
      BY <3>1
    <3>3. invalid' \subseteq Viewers \X Keys /\ AmissTypes'
      BY <1>1, <2>2 DEF Read, LoadFails, FetchTypes
    <3> QED BY <1>1, <3>3, <3>2, FetchPut
  <2> QED BY <2>1, <2>2
<1>4. CoreTypes' /\ PageTypes' /\ CacheTypes' /\ EditorTypes' /\ FeedTypes'
  BY <1>1, <1>2, CoreSame, CacheSame, EditorSame DEF PageTypes, FeedTypes, feed, ops
<1> QED BY <1>3, <1>4, TypeGroups

\* The backend works on a request.
LEMMA StatementTypes ==
  ASSUME CoreTypes, NEW e \in Ops, NEW a \in Attempts, handler[e][a] # "none", Statement(e, a)
  PROVE  rows' \in [Ids -> {None} \union Rows]
<1>1. sent[e] \in Asks(e) /\ e \in Writers /\ "given" \in Writers
  BY DEF CoreTypes, Attempts, Writers
<1>2. CASE KindOf[e] = "create"
  <2>1. <<e, a>> \in Posts
    BY <1>2 DEF Posts
  <2>2. CampOf[<<e, a>>] \in Ids
    BY <2>1, CampsAssumption
  <2>3. rows' = [rows EXCEPT ![CampOf[<<e, a>>]] =
                  [entry |-> e, place |-> e, stock |-> "given", version |-> 0]]
    BY <1>2 DEF Statement
  <2> QED BY <1>1, <2>2, <2>3 DEF CoreTypes, Rows
<1>3. CASE KindOf[e] # "create" /\ rows[sent[e].camp] = None
  <2>1. rows' = rows
    BY <1>3, CampsAssumption DEF Statement, Kinds
  <2> QED BY <2>1 DEF CoreTypes
<1>4. CASE KindOf[e] # "create" /\ rows[sent[e].camp] # None
  <2>1. sent[e].camp \in Ids /\ rows[sent[e].camp] \in Rows
    BY <1>1, <1>4, CampsAssumption DEF Asks, CoreTypes, Kinds
  <2>2. CASE KindOf[e] = "stock"
    <3>1. rows' = [rows EXCEPT ![sent[e].camp].stock = e]
      BY <1>4, <2>2 DEF Statement
    <3>2. [rows[sent[e].camp] EXCEPT !.stock = e] \in Rows
      BY <1>1, <2>1 DEF Rows
    <3> QED BY <2>1, <3>1, <3>2 DEF CoreTypes
  <2>3. CASE KindOf[e] = "delete"
    <3>1. rows' = [rows EXCEPT ![sent[e].camp] = None]
      BY <1>4, <2>3 DEF Statement
    <3> QED BY <2>1, <3>1 DEF CoreTypes
  <2>4. CASE KindOf[e] = "save"
    <3> DEFINE c == sent[e]
               r == rows[c.camp]
    <3>1. rows' = [rows EXCEPT ![c.camp] = [entry |-> c.entry, place |-> c.place, stock |-> r.stock,
                                            version |-> r.version + 1]]
      BY <1>4, <2>4 DEF Statement
    <3>2. c.entry \in Writers /\ c.place \in Writers
      BY <1>1, <2>4 DEF Asks
    <3>3. r.stock \in Writers /\ r.version + 1 \in Nat
      BY <2>1 DEF Rows
    <3>4. [entry |-> c.entry, place |-> c.place, stock |-> r.stock, version |-> r.version + 1] \in Rows
      BY <3>2, <3>3 DEF Rows
    <3> QED BY <2>1, <3>1, <3>4 DEF CoreTypes
  <2> QED BY <1>4, <2>2, <2>3, <2>4, CampsAssumption DEF Kinds
<1> QED BY <1>2, <1>3, <1>4

LEMMA BackendTypes ==
  ASSUME TypeOK, NEW e \in Ops, NEW a \in Attempts,
         Handle(e, a) \/ Publish(e, a) \/ StatementFails(e, a) \/ HandlerDies(e, a)
  PROVE  TypeOK'
<1>1. CoreTypes /\ PageTypes /\ CacheTypes /\ FetchTypes /\ EditorTypes /\ FeedTypes
  BY TypeGroups
<1>2. UNCHANGED <<plan, op, attempt, sent, previous, attached, page, cache, fetch, reply, invalid, deaf>>
      /\ UNCHANGED editor
  BY DEF Handle, Publish, StatementFails, HandlerDies, ops, views, feed
<1>3. handler[e][a] # "none" /\ \E h \in {"applied", "done", "failed"} : handler' = [handler EXCEPT ![e][a] = h]
  BY DEF Handle, Publish, StatementFails, HandlerDies
<1>4. handler' \in [Ops -> [Attempts -> {"none", "asked", "applied", "done", "failed"}]]
      /\ \A x \in Ops, b \in Attempts : handler[x][b] = "none" => handler'[x][b] = "none"
  BY <1>1, <1>3 DEF CoreTypes
<1>5. rows' \in [Ids -> {None} \union Rows]
  <2>1. CASE Handle(e, a)
    BY <1>1, <1>3, <2>1, StatementTypes DEF Handle
  <2>2. CASE rows' = rows
    BY <1>1, <2>2 DEF CoreTypes
  <2> QED BY <2>1, <2>2 DEF Handle, Publish, StatementFails, HandlerDies
<1>6. CoreTypes'
  <2>1. \A x \in Ops : /\ op'[x] = "idle" => handler'[x][1] = "none" /\ attempt'[x] = 1
                       /\ attempt'[x] = 1 => handler'[x][2] = "none"
    BY <1>1, <1>2, <1>4 DEF CoreTypes, Attempts
  <2> QED BY <1>1, <1>2, <1>4, <1>5, <2>1 DEF CoreTypes
<1>7. FetchTypes'
  BY <1>1, <1>2, OutdateTypes, FetchSame DEF Handle, Publish, StatementFails, HandlerDies
<1>8. PageTypes' /\ CacheTypes' /\ EditorTypes'
  BY <1>1, <1>2, CacheSame, EditorSame DEF PageTypes
<1>9. FeedTypes'
  <2>1. CASE news' = news
    BY <1>1, <1>2, <2>1 DEF FeedTypes
  <2>2. CASE news' = [v \in Viewers |-> IF v \in Open \ deaf THEN news[v] + 1 ELSE news[v]]
    BY <1>1, <1>2, <2>2 DEF FeedTypes
  <2> QED BY <2>1, <2>2 DEF Handle, Publish, StatementFails, HandlerDies, feed
<1> QED BY <1>6, <1>7, <1>8, <1>9, TypeGroups

\* The stream.
LEMMA StreamTypes ==
  ASSUME TypeOK, NEW v \in Viewers, OnMessage(v) \/ StreamBreaks(v) \/ Reconnect(v)
  PROVE  TypeOK'
<1>1. CoreTypes /\ PageTypes /\ CacheTypes /\ FetchTypes /\ EditorTypes /\ FeedTypes
  BY TypeGroups
<1>2. UNCHANGED <<plan, server, ops, page, cache, editor>>
  BY DEF OnMessage, StreamBreaks, Reconnect, views
<1>3. FetchTypes'
  <2>1. CASE OnMessage(v)
    BY <1>1, <2>1, InvalidateTypes, ListIsKey DEF OnMessage
  <2>2. CASE StreamBreaks(v)
    BY <1>1, <2>2, OutdateTypes DEF StreamBreaks, views
  <2>3. CASE Reconnect(v)
    BY <1>1, <2>3, FetchSame DEF Reconnect, views
  <2> QED BY <2>1, <2>2, <2>3
<1>4. FeedTypes'
  <2>1. CASE OnMessage(v)
    BY <1>1, <2>1 DEF OnMessage, FeedTypes
  <2>2. CASE StreamBreaks(v) \/ Reconnect(v)
    BY <1>1, <2>2 DEF StreamBreaks, Reconnect, FeedTypes
  <2> QED BY <2>1, <2>2
<1>5. CoreTypes' /\ PageTypes' /\ CacheTypes' /\ EditorTypes'
  BY <1>1, <1>2, CoreSame, CacheSame, EditorSame DEF PageTypes, ops
<1> QED BY <1>3, <1>4, <1>5, TypeGroups

-----------------------------------------------------------------------------

LEMMA DesksAreViewers == Desks \subseteq Viewers /\ \A e \in Ops : DeskOf[e] \in Desks /\ KindOf[e] \in Kinds
  BY CampsAssumption DEF Viewers

\* The list of a desk is written by its own stock selector.
LEMMA ListPut ==
  ASSUME CacheTypes, EditorTypes, NEW d \in Desks, NEW l, IsList(l), cache' = [cache EXCEPT ![d]["list"] = l],
         page' = page, UNCHANGED editor,
         \A e \in Ops : KindOf[e] = "stock" /\ op'[e] # "idle" => op[e] # "idle" \/ DeskOf[e] = d
  PROVE  CacheTypes' /\ EditorTypes'
<1>1. d \in Viewers /\ "list" \in Keys
  BY DesksAreViewers, ListIsKey
<1>2. Puts(cache, cache', d, "list", l)
  BY <1>1, PutAt DEF CacheTypes
<1>3. IsData("list", l) /\ l # None
  BY DataIsNotNone DEF IsData
<1>4. \A w \in Viewers, j \in Keys : Has(w, j)' => IsData(j, cache'[w][j])
  <2> SUFFICES ASSUME NEW w \in Viewers, NEW j \in Keys, Has(w, j)' PROVE IsData(j, cache'[w][j])
    OBVIOUS
  <2>1. CASE w = d /\ j = "list"
    BY <1>2, <1>3, <2>1 DEF Puts
  <2>2. CASE w # d \/ j # "list"
    BY <1>2, <2>2 DEF Puts, Has, CacheTypes
  <2> QED BY <2>1, <2>2
<1>5. \A w \in Viewers, j \in Keys : Has(w, j) => Has(w, j)'
  BY <1>2, <1>3 DEF Puts, Has
<1>6. \A e \in Ops : KindOf[e] = "stock" /\ op'[e] # "idle" => Has(DeskOf[e], "list")'
  BY <1>1, <1>2, <1>3, <1>5, DesksAreViewers DEF CacheTypes, Puts, Has
<1>7. CacheTypes'
  BY <1>2, <1>4, <1>6 DEF Puts, CacheTypes, IsData, IsList
<1>8. \A x \in Desks : OnCamp(x)' <=> OnCamp(x)
  BY <1>2, DesksAreViewers, ListIsKey DEF OnCamp, Displays, Watches, Has, Puts
<1>9. EditorTypes'
  BY <1>8 DEF EditorTypes, editor
<1> QED BY <1>7, <1>9

LEMMA UpdateStockTypes ==
  ASSUME TypeOK, NEW d \in Desks, NEW e \in Ops, NEW i \in Ids, UpdateStock(d, e, i)
  PROVE  TypeOK'
<1>1. CoreTypes /\ PageTypes /\ CacheTypes /\ FetchTypes /\ EditorTypes /\ FeedTypes
  BY TypeGroups
<1>2. /\ KindOf[e] = "stock" /\ op[e] = "idle" /\ DeskOf[e] = d /\ Has(d, "list") /\ i \in DOMAIN cache[d]["list"]
      /\ d \in Viewers /\ "list" \in Keys /\ e \in Writers
  BY DesksAreViewers, ListIsKey DEF UpdateStock, MaySelect, May, Listed, Displays, Writers
<1>3. IsList(cache[d]["list"])
  BY <1>1, <1>2 DEF CacheTypes, IsData
<1> DEFINE l == [cache[d]["list"] EXCEPT ![i].stock = e]
<1>4. IsList(l)
  <2>1. PICK S \in SUBSET Ids : cache[d]["list"] \in [S -> Rows]
    BY <1>3 DEF IsList
  <2>2. i \in S /\ [cache[d]["list"][i] EXCEPT !.stock = e] \in Rows
    BY <1>2, <2>1 DEF Rows
  <2>3. l \in [S -> Rows]
    BY <2>1, <2>2
  <2> QED BY <2>3 DEF IsList
<1>5. cache' = [cache EXCEPT ![d]["list"] = l] /\ Begin(e, 1, [camp |-> i])
      /\ previous' = [previous EXCEPT ![e] = cache[d]["list"]]
      /\ UNCHANGED <<plan, rows, attached, page, invalid, feed, amiss>> /\ UNCHANGED editor
  BY DEF UpdateStock
<1>6. \A x \in Ops : x # e => op'[x] = op[x]
  BY <1>1, <1>5 DEF Begin, CoreTypes
<1>7. CacheTypes' /\ EditorTypes'
  <2> HIDE DEF l
  <2>1. \A x \in Ops : KindOf[x] = "stock" /\ op'[x] # "idle" => op[x] # "idle" \/ DeskOf[x] = d
    BY <1>2, <1>6
  <2> QED BY <1>1, <1>4, <1>5, <2>1, ListPut
<1>8. CoreTypes'
  <2>1. [camp |-> i] \in Asks(e)
    BY <1>2 DEF Asks
  <2>2. previous = [x \in Ops |-> previous[x]] /\ attached' \subseteq Ops
    BY <1>1, <1>5 DEF CoreTypes
  <2>3. previous' = [x \in Ops |-> previous'[x]] /\ previous'[e] = cache[d]["list"]
        /\ \A x \in Ops \ {e} : previous'[x] = previous[x]
    BY <1>5, <2>2
  <2> QED BY <1>1, <1>2, <1>3, <1>5, <2>1, <2>2, <2>3, BeginTypes DEF Attempts
<1>9. FetchTypes'
  <2>1. fetch' = [fetch EXCEPT ![d]["list"] = None] /\ reply' = [reply EXCEPT ![d]["list"] = None] /\ None # "read"
    BY NoneAssumption DEF UpdateStock
  <2>2. invalid' \subseteq Viewers \X Keys /\ AmissTypes'
    BY <1>1, <1>5 DEF FetchTypes
  <2> QED BY <1>1, <1>2, <2>1, <2>2, FetchPut
<1>10. PageTypes' /\ FeedTypes'
  BY <1>1, <1>5 DEF PageTypes, FeedTypes, feed
<1> QED BY <1>7, <1>8, <1>9, <1>10, TypeGroups

\* A change of stock ends, or is tried again.
LEMMA StockTypes ==
  ASSUME TypeOK, NEW d \in Desks, NEW e \in Ops, StockRetried(e) \/ StockFails(d, e) \/ StockUpdated(d, e)
  PROVE  TypeOK'
<1>1. CoreTypes /\ PageTypes /\ CacheTypes /\ FetchTypes /\ EditorTypes /\ FeedTypes
  BY TypeGroups
<1>2. KindOf[e] = "stock" /\ op[e] = "waiting" /\ IsList(previous[e]) /\ sent[e] \in Asks(e)
      /\ d \in Viewers /\ "list" \in Keys
  BY <1>1, DesksAreViewers, ListIsKey DEF StockRetried, StockFails, StockUpdated, Refused, Answered, CoreTypes
<1>3. UNCHANGED <<plan, rows, previous, attached, page, news, deaf>> /\ UNCHANGED editor
  BY DEF StockRetried, StockFails, StockUpdated, End, views, feed, server
<1>4. CoreTypes'
  <2>1. attached' \subseteq Ops /\ previous' = [x \in Ops |-> previous'[x]] /\ previous' = previous
    BY <1>1, <1>3 DEF CoreTypes
  <2>2. CASE StockRetried(e)
    <3>1. attempt[e] = 1 /\ Begin(e, 2, sent[e])
      BY <2>2 DEF StockRetried
    <3> QED BY <1>1, <1>2, <1>3, <2>1, <3>1, BeginTypes DEF Attempts
  <2>3. CASE StockFails(d, e) \/ StockUpdated(d, e)
    BY <1>1, <1>2, <2>1, <2>3, EndTypes DEF StockFails, StockUpdated
  <2> QED BY <2>2, <2>3
<1>5. \A x \in Ops : op'[x] # "idle" => op[x] # "idle"
  <2>1. \E h \in {"waiting", "ok", "failed"} : op' = [op EXCEPT ![e] = h]
    BY DEF StockRetried, StockFails, StockUpdated, Begin, End
  <2> QED BY <1>1, <1>2, <2>1 DEF CoreTypes
<1>6. CacheTypes' /\ EditorTypes'
  <2>1. CASE StockFails(d, e)
    <3>1. cache' = [cache EXCEPT ![d]["list"] = previous[e]]
      BY <2>1 DEF StockFails
    <3> QED BY <1>1, <1>2, <1>3, <1>5, <3>1, ListPut
  <2>2. CASE StockRetried(e) \/ StockUpdated(d, e)
    <3>1. cache' = cache
      BY <2>2 DEF StockRetried, StockUpdated, views
    <3> QED BY <1>1, <1>3, <1>5, <3>1, EditorSame DEF CacheTypes, Has, Table
  <2> QED BY <2>1, <2>2
<1>7. FetchTypes'
  BY <1>1, <1>2, InvalidateTypes, FetchSame DEF StockRetried, StockFails, StockUpdated, views
<1>8. PageTypes' /\ FeedTypes'
  BY <1>1, <1>3 DEF PageTypes, FeedTypes
<1> QED BY <1>4, <1>6, <1>7, <1>8, TypeGroups

\* No operation on stock begins.
LEMMA CacheKept ==
  ASSUME CacheTypes, cache' = cache,
         \A x \in Ops : KindOf[x] = "stock" /\ op'[x] # "idle" => op[x] # "idle"
  PROVE  CacheTypes'
BY DEF CacheTypes, Has, Table

\* The other operations begin.
LEMMA BeginningTypes ==
  ASSUME TypeOK, NEW d \in Desks, NEW e \in Ops, HandleSaveEdit(d, e) \/ HandleDelete(d, e) \/ Deploy(d, e)
  PROVE  TypeOK'
<1>1. CoreTypes /\ PageTypes /\ CacheTypes /\ FetchTypes /\ EditorTypes /\ FeedTypes
  BY TypeGroups
<1>2. /\ UNCHANGED <<plan, rows, previous, page, cache, fetch, reply, invalid, news, deaf, amiss>>
      /\ UNCHANGED editor /\ attached' = attached \union {e}
  BY DEF HandleSaveEdit, HandleDelete, Deploy, views, feed
<1>3. KindOf[e] # "stock" /\ \A x \in Ops : op'[x] # op[x] => x = e
  <2>1. op' = [op EXCEPT ![e] = "waiting"]
    BY DEF HandleSaveEdit, HandleDelete, Deploy, Begin
  <2>2. \A x \in Ops : op'[x] # op[x] => x = e
    BY <1>1, <2>1 DEF CoreTypes
  <2> QED BY <2>2 DEF HandleSaveEdit, HandleDelete, Deploy, MayDeploy, May
<1>4. PICK what \in Asks(e), a \in Attempts :
        Begin(e, a, what) /\ ((op[e] = "idle" /\ a = 1) \/ (attempt[e] = 1 /\ a = 2))
  <2>1. CASE HandleSaveEdit(d, e)
    <3> DEFINE what == [entry |-> draft[d].entry, place |-> draft[d].place, typed |-> draft[d].typed,
                        camp |-> page[d], base |-> base[d]]
    <3>1. draft[d] \in Drafts /\ page[d] \in Ids /\ base[d] \in Nat /\ KindOf[e] = "save"
      BY <1>1, <2>1 DEF HandleSaveEdit, EditorTypes, OnCamp, May
    <3>2. what \in Asks(e)
      BY <3>1 DEF Asks, Drafts
    <3>3. Begin(e, 1, what) /\ op[e] = "idle" /\ 1 \in Attempts
      BY <2>1 DEF HandleSaveEdit, May, Attempts
    <3> HIDE DEF what
    <3> QED BY <3>2, <3>3
  <2>2. CASE HandleDelete(d, e)
    <3>1. page[d] \in Ids /\ KindOf[e] = "delete"
      BY <1>1, <2>2 DEF HandleDelete, EditorTypes, OnCamp, May
    <3>2. [camp |-> page[d]] \in Asks(e)
      BY <3>1 DEF Asks
    <3>3. Begin(e, 1, [camp |-> page[d]]) /\ op[e] = "idle" /\ 1 \in Attempts
      BY <2>2 DEF HandleDelete, May, Attempts
    <3> QED BY <3>2, <3>3
  <2>3. CASE Deploy(d, e)
    <3>1. None \in Asks(e)
      BY <2>3 DEF Deploy, MayDeploy, Asks
    <3>2. \/ Begin(e, 1, None) /\ op[e] = "idle"
          \/ Begin(e, 2, None) /\ attempt[e] = 1
      BY <2>3 DEF Deploy, May
    <3> QED BY <3>1, <3>2 DEF Attempts
  <2> QED BY <2>1, <2>2, <2>3
<1>5. CoreTypes'
  <2>1. attached' \subseteq Ops /\ previous' = [x \in Ops |-> previous'[x]] /\ previous' = previous
    BY <1>1, <1>2 DEF CoreTypes
  <2> QED BY <1>1, <1>2, <1>3, <1>4, <2>1, BeginTypes
<1>6. CacheTypes'
  BY <1>1, <1>2, <1>3, CacheKept
<1>7. PageTypes' /\ FetchTypes' /\ EditorTypes' /\ FeedTypes'
  BY <1>1, <1>2, FetchSame, EditorSame DEF PageTypes, FeedTypes
<1> QED BY <1>5, <1>6, <1>7, TypeGroups

\* An operation that ends leaves the cache.
LEMMA EndCache ==
  ASSUME CoreTypes, CacheTypes, NEW e \in Ops, NEW how, End(e, how), op[e] # "idle", cache' = cache
  PROVE  CacheTypes'
<1>1. \A x \in Ops : op'[x] # "idle" => op[x] # "idle"
  BY DEF End, CoreTypes
<1> QED BY <1>1, CacheKept

\* The other operations end, their page where it was.
LEMMA EndingTypes ==
  ASSUME TypeOK, NEW d \in Desks, NEW e \in Ops, EditFails(e) \/ DeployFails(e) \/ Deployed(d, e)
  PROVE  TypeOK'
<1>1. CoreTypes /\ PageTypes /\ CacheTypes /\ FetchTypes /\ EditorTypes /\ FeedTypes
  BY TypeGroups
<1>2. UNCHANGED <<attached, page, cache, news, deaf>> /\ UNCHANGED editor
  BY DEF EditFails, DeployFails, Deployed, End, views, feed
<1>3. op[e] # "idle" /\ \E how \in {"failed", "landing"} : End(e, how) /\ (how = "landing" => KindOf[e] = "create")
  BY DEF EditFails, DeployFails, Deployed, Refused, Answered
<1>4. CoreTypes' /\ CacheTypes'
  <2>1. attached' \subseteq Ops
    BY <1>1, <1>2 DEF CoreTypes
  <2> QED BY <1>1, <1>2, <1>3, <2>1, EndTypes, EndCache
<1>5. FetchTypes'
  <2>1. CASE EditFails(e)
    BY <1>1, <2>1, FetchSame DEF EditFails, views
  <2>2. CASE DeployFails(e)
    BY <1>1, <2>2, OutdateTypes DEF DeployFails, views
  <2>3. CASE Deployed(d, e)
    BY <1>1, <2>3, InvalidateTypes, DesksAreViewers, ListIsKey DEF Deployed
  <2> QED BY <2>1, <2>2, <2>3
<1>6. PageTypes' /\ EditorTypes' /\ FeedTypes'
  BY <1>1, <1>2, EditorSame DEF PageTypes, FeedTypes
<1> QED BY <1>4, <1>5, <1>6, TypeGroups

-----------------------------------------------------------------------------

LEMMA StopEditingTypes ==
  ASSUME CacheTypes, EditorTypes, NEW d \in Desks, StopEditing(d), UNCHANGED <<page, cache>>
  PROVE  EditorTypes'
<1>1. /\ editing' = editing \ {d} /\ base' = [base EXCEPT ![d] = 0] /\ UNCHANGED <<dialog, confirm>>
      /\ \A x \in Desks : OnCamp(x)' <=> OnCamp(x)
  BY DEF StopEditing, OnCamp, Displays, Watches, Has
<1>2. /\ draft' \in [Desks -> {None} \union Drafts] /\ marker' \in [Desks -> {None} \union Writers]
      /\ reread' \subseteq Desks
      /\ \A x \in Desks : OnCamp(x) => draft'[x] # None /\ marker'[x] # None
  <2>1. CASE d \in editing
    <3>1. Effects(d, page[d], cache[d][page[d]], FALSE) /\ cache[d][page[d]] \in Rows /\ d \in Viewers
      BY <2>1, CampShown, DesksAreViewers DEF StopEditing, EditorTypes
    <3>2. /\ draft' \in [Desks -> {None} \union Drafts] /\ marker' \in [Desks -> {None} \union Writers]
          /\ reread' \subseteq Desks /\ marker'[d] # None /\ draft'[d] # None
          /\ \A x \in Desks : x # d => draft'[x] = draft[x] /\ marker'[x] = marker[x]
      BY <3>1, EffectsTypes
    <3> QED BY <3>2 DEF EditorTypes
  <2>2. CASE d \notin editing
    BY <2>2 DEF StopEditing, EditorTypes
  <2> QED BY <2>1, <2>2
<1>3. editing' \subseteq {x \in Desks : OnCamp(x)'} /\ dialog' \subseteq {x \in Desks : OnCamp(x)'}
      /\ confirm' \subseteq Desks /\ base' \in [Desks -> Nat]
  BY <1>1 DEF EditorTypes
<1> QED BY <1>1, <1>2, <1>3 DEF EditorTypes

\* A save is answered.
LEMMA SavedTypes ==
  ASSUME TypeOK, NEW d \in Desks, NEW e \in Ops, Saved(d, e)
  PROVE  TypeOK'
<1>1. CoreTypes /\ PageTypes /\ CacheTypes /\ FetchTypes /\ EditorTypes /\ FeedTypes
  BY TypeGroups
<1>2. UNCHANGED <<attached, page, cache, news, deaf>> /\ End(e, "ok") /\ op[e] # "idle"
  BY DEF Saved, End, feed, Answered
<1>3. CoreTypes' /\ CacheTypes'
  <2>1. attached' \subseteq Ops
    BY <1>1, <1>2 DEF CoreTypes
  <2> QED BY <1>1, <1>2, <2>1, EndTypes, EndCache
<1>4. FetchTypes'
  <2>1. sent[e].camp \in Keys /\ Invalidate(d, sent[e].camp)
    BY <1>1, <1>2, ListIsKey DEF Saved, CoreTypes, Asks
  <2> QED BY <1>1, <2>1, InvalidateTypes, DesksAreViewers
<1>5. EditorTypes'
  <2>1. CASE StopEditing(d)
    BY <1>1, <1>2, <2>1, StopEditingTypes
  <2>2. CASE UNCHANGED editor
    BY <1>1, <1>2, <2>2, EditorSame
  <2> QED BY <2>1, <2>2 DEF Saved
<1>6. PageTypes' /\ FeedTypes'
  BY <1>1, <1>2 DEF PageTypes, FeedTypes
<1> QED BY <1>3, <1>4, <1>5, <1>6, TypeGroups

\* The editor and the dialog.
LEMMA EditorStepTypes ==
  ASSUME TypeOK, NEW d \in Desks,
         \/ Edit(d) \/ (\E e \in Ops : ChangeField(d, e)) \/ CancelEdit(d)
         \/ OpenDialog(d) \/ TypeConfirm(d) \/ CloseDialog(d)
  PROVE  TypeOK'
<1>1. CoreTypes /\ PageTypes /\ CacheTypes /\ FetchTypes /\ EditorTypes /\ FeedTypes
  BY TypeGroups
<1>2. UNCHANGED <<plan, server, ops, views, feed, amiss>>
  BY DEF Edit, ChangeField, CancelEdit, OpenDialog, TypeConfirm, CloseDialog
<1>3. \A x \in Desks : OnCamp(x)' <=> OnCamp(x)
  BY <1>2 DEF OnCamp, Displays, Watches, Has, views
<1>4. EditorTypes'
  <2>1. CASE Edit(d)
    <3>1. OnCamp(d) /\ draft[d] \in Drafts /\ cache[d][page[d]] \in Rows
      BY <1>1, <2>1, CampShown DEF Edit, EditorTypes
    <3>2. [draft[d] EXCEPT !.typed = {}] \in Drafts
      BY <3>1 DEF Drafts
    <3>3. draft' \in [Desks -> {None} \union Drafts] /\ draft'[d] \in Drafts
          /\ \A x \in Desks : x # d => draft'[x] = draft[x]
      BY <1>1, <2>1, <3>2 DEF Edit, EditorTypes
    <3>4. cache[d][page[d]].version \in Nat /\ cache[d][page[d]].place \in Writers
      BY <3>1 DEF Rows
    <3>5. base' \in [Desks -> Nat] /\ marker' \in [Desks -> {None} \union Writers]
          /\ marker'[d] \in Writers /\ \A x \in Desks : x # d => marker'[x] = marker[x]
      BY <1>1, <2>1, <3>4 DEF Edit, EditorTypes
    <3>6. \A x \in Desks : OnCamp(x)' => draft'[x] # None /\ marker'[x] # None
      BY <1>1, <1>3, <3>3, <3>5, NoneAssumption DEF EditorTypes
    <3> QED BY <1>1, <1>3, <2>1, <3>1, <3>3, <3>5, <3>6 DEF Edit, EditorTypes
  <2>2. ASSUME NEW e \in Ops, ChangeField(d, e) PROVE EditorTypes'
    <3>1. OnCamp(d) /\ draft[d] \in Drafts /\ e \in Writers
      BY <1>1, <2>2 DEF ChangeField, EditorTypes, Writers
    <3>2. \E f \in Drafts : draft' = [draft EXCEPT ![d] = f]
      <4>1. [draft[d] EXCEPT !.entry = e, !.typed = @ \union {"entry"}] \in Drafts
            /\ [draft[d] EXCEPT !.place = e, !.typed = @ \union {"place"}] \in Drafts
        BY <3>1 DEF Drafts, Fields
      <4>2. \/ draft' = [draft EXCEPT ![d] = [draft[d] EXCEPT !.entry = e, !.typed = @ \union {"entry"}]]
            \/ draft' = [draft EXCEPT ![d] = [draft[d] EXCEPT !.place = e, !.typed = @ \union {"place"}]]
        BY <2>2 DEF ChangeField
      <4> QED BY <4>1, <4>2
    <3>3. draft' \in [Desks -> {None} \union Drafts] /\ draft'[d] \in Drafts
          /\ \A x \in Desks : x # d => draft'[x] = draft[x]
      BY <1>1, <3>2 DEF EditorTypes
    <3>4. marker' \in [Desks -> {None} \union Writers] /\ marker'[d] # None
          /\ \A x \in Desks : x # d => marker'[x] = marker[x]
      <4>1. marker' = marker \/ marker' = [marker EXCEPT ![d] = e]
        BY <2>2 DEF ChangeField
      <4> QED BY <1>1, <3>1, <4>1, NoneAssumption DEF EditorTypes
    <3>5. \A x \in Desks : OnCamp(x)' => draft'[x] # None /\ marker'[x] # None
      BY <1>1, <1>3, <3>3, <3>4, NoneAssumption DEF EditorTypes
    <3> QED BY <1>1, <1>3, <2>2, <3>3, <3>4, <3>5 DEF ChangeField, EditorTypes
  <2>3. CASE CancelEdit(d)
    BY <1>1, <2>3, StopEditingTypes DEF CancelEdit, views
  <2>4. CASE OpenDialog(d) \/ TypeConfirm(d) \/ CloseDialog(d)
    <3>1. UNCHANGED <<editing, draft, marker, base, reread>>
      BY <2>4 DEF OpenDialog, TypeConfirm, CloseDialog
    <3>2. dialog' \subseteq {x \in Desks : OnCamp(x)} /\ confirm' \subseteq Desks
      BY <1>1, <2>4 DEF OpenDialog, TypeConfirm, CloseDialog, EditorTypes
    <3> QED BY <1>1, <1>3, <3>1, <3>2 DEF EditorTypes
  <2> QED BY <2>1, <2>2, <2>3, <2>4
<1>5. CoreTypes' /\ PageTypes' /\ CacheTypes' /\ FetchTypes' /\ FeedTypes'
  BY <1>1, <1>2, CoreSame, CacheSame, FetchSame DEF PageTypes, FeedTypes, feed, ops, views
<1> QED BY <1>4, <1>5, TypeGroups

-----------------------------------------------------------------------------

\* A desk goes to another page.
LEMMA GoToTypes ==
  ASSUME CacheTypes, PageTypes, FetchTypes, EditorTypes, NEW d \in Desks, NEW k \in Pages, GoTo(d, k), cache' = cache
  PROVE  PageTypes' /\ FetchTypes' /\ EditorTypes' /\ attached' \subseteq attached
<1>1. d \in Viewers /\ page' = [page EXCEPT ![d] = k] /\ Close(d) /\ Mount(d, k)
  BY DesksAreViewers DEF GoTo
<1>2. PageTypes' /\ page'[d] = k /\ \A x \in Viewers : x # d => page'[x] = page[x]
  BY <1>1 DEF PageTypes
<1>3. FetchTypes'
  BY <1>1, MountTypes
<1>4. \A x \in Desks : x # d => (OnCamp(x)' <=> OnCamp(x))
  BY <1>2, DesksAreViewers DEF OnCamp, Displays, Watches, Has
<1>5. OnCamp(d)' <=> k \in Ids /\ Has(d, k)
  BY <1>2 DEF OnCamp, Displays, Watches, Has
<1>6. /\ draft' \in [Desks -> {None} \union Drafts] /\ marker' \in [Desks -> {None} \union Writers]
      /\ reread' \subseteq Desks
      /\ OnCamp(d)' => draft'[d] # None /\ marker'[d] # None
      /\ \A x \in Desks : x # d => draft'[x] = draft[x] /\ marker'[x] = marker[x]
  <2>1. CASE k \in Ids /\ Has(d, k)
    <3>1. Effects(d, k, cache[d][k], FALSE) /\ cache[d][k] \in Rows
      BY <1>1, <2>1, ListIsKey DEF GoTo, CacheTypes, IsData
    <3> QED BY <1>1, <3>1, EffectsTypes
  <2>2. CASE ~(k \in Ids /\ Has(d, k))
    <3>1. draft' = [draft EXCEPT ![d] = None] /\ marker' = [marker EXCEPT ![d] = None]
          /\ reread' = reread \ {d}
      BY <2>2 DEF GoTo
    <3> QED BY <1>5, <2>2, <3>1 DEF EditorTypes
  <2> QED BY <2>1, <2>2
<1>7. editing' \subseteq {x \in Desks : OnCamp(x)'} /\ dialog' \subseteq {x \in Desks : OnCamp(x)'}
      /\ confirm' \subseteq Desks /\ base' \in [Desks -> Nat] /\ attached' \subseteq attached
  BY <1>1, <1>4 DEF Close, EditorTypes
<1>8. \A x \in Desks : OnCamp(x)' => draft'[x] # None /\ marker'[x] # None
  BY <1>4, <1>6 DEF EditorTypes
<1>9. EditorTypes'
  BY <1>6, <1>7, <1>8 DEF EditorTypes
<1> QED BY <1>2, <1>3, <1>7, <1>9

LEMMA LeavingTypes ==
  ASSUME TypeOK, NEW d \in Desks,
         \/ \E k \in Keys \union {"away"} : Navigate(d, k)
         \/ \E e \in Ops : Deleted(d, e) \/ Land(d, e)
  PROVE  TypeOK'
<1>1. CoreTypes /\ PageTypes /\ CacheTypes /\ FetchTypes /\ EditorTypes /\ FeedTypes
  BY TypeGroups
<1>2. UNCHANGED <<cache, news, deaf>>
  BY DEF Navigate, Deleted, Land, End, feed
<1>3. \/ \E p \in Pages : GoTo(d, p)
      \/ UNCHANGED <<attached, page, fetch, reply, invalid, amiss, editing, dialog, confirm,
                     draft, marker, base, reread>>
  BY ListIsKey DEF Navigate, Deleted, Land, Pages
<1>4. PageTypes' /\ FetchTypes' /\ EditorTypes' /\ attached' \subseteq Ops
  <2>1. CASE \E p \in Pages : GoTo(d, p)
    <3>1. attached \subseteq Ops
      BY <1>1 DEF CoreTypes
    <3> QED BY <1>1, <1>2, <2>1, <3>1, GoToTypes
  <2>2. CASE UNCHANGED <<attached, page, fetch, reply, invalid, amiss, editing, dialog, confirm,
                         draft, marker, base, reread>>
    BY <1>1, <1>2, <2>2, FetchSame, EditorSame DEF PageTypes, CoreTypes, editor
  <2> QED BY <1>3, <2>1, <2>2
<1>5. CoreTypes' /\ CacheTypes'
  <2>1. CASE \E k \in Keys \union {"away"} : Navigate(d, k)
    <3>1. UNCHANGED <<plan, rows, handler, op, attempt, sent, previous>>
      BY <2>1 DEF Navigate, server
    <3> QED BY <1>1, <1>2, <1>4, <3>1, CacheSame DEF CoreTypes
  <2>2. ASSUME NEW e \in Ops, Deleted(d, e) \/ Land(d, e) PROVE CoreTypes' /\ CacheTypes'
    <3>1. End(e, "ok") /\ op[e] # "idle"
      BY <2>2 DEF Deleted, Land, Answered
    <3> QED BY <1>1, <1>2, <1>4, <3>1, EndTypes, EndCache
  <2> QED BY <2>1, <2>2
<1>6. FeedTypes'
  BY <1>1, <1>2 DEF FeedTypes
<1> QED BY <1>4, <1>5, <1>6, TypeGroups

LEMMA InitTypes ==
  ASSUME Init
  PROVE  TypeOK
<1>1. CoreTypes
  <2>1. rows \in [Ids -> {None} \union Rows]
    <3>1. [entry |-> "given", place |-> "given", stock |-> "given", version |-> 0] \in Rows
      BY DEF Rows, Writers
    <3> QED BY <3>1 DEF Init
  <2>2. /\ plan \in Plans
        /\ handler \in [Ops -> [Attempts -> {"none", "asked", "applied", "done", "failed"}]]
        /\ op \in [Ops -> {"idle", "waiting", "landing", "ok", "failed"}]
        /\ attempt \in [Ops -> Attempts]
        /\ attached \subseteq Ops
    BY DEF Init, Attempts
  <2>3. \A e \in Ops : op[e] = "idle" /\ attempt[e] = 1 /\ handler[e][1] = "none" /\ handler[e][2] = "none"
    BY DEF Init, Attempts
  <2>4. sent = [e \in Ops |-> sent[e]] /\ previous = [e \in Ops |-> previous[e]]
    BY DEF Init
  <2> QED BY <2>1, <2>2, <2>3, <2>4 DEF CoreTypes
<1>2. PageTypes
  <2>1. \A v \in Viewers : Start[v] \in Pages
    <3>1. plan.start \in Ids \union {"list", "new"}
      BY CampsAssumption DEF Init
    <3> QED BY <3>1 DEF Start, Pages, Keys
  <2> QED BY <2>1 DEF Init, PageTypes, Start
<1>3. CacheTypes
  BY DEF Init, CacheTypes, Has, Table
<1>4. FetchTypes
  <2>1. \A v \in Viewers, k \in Keys : reply[v][k] = None /\ fetch[v][k] # "read"
    BY NoneAssumption DEF Init
  <2>2. fetch \in [Viewers -> [Keys -> {None, "asked", "read"}]] /\ Table(reply)
    BY DEF Init, Table
  <2>3. invalid \subseteq Viewers \X Keys /\ AmissTypes
    BY DEF Init
  <2> QED BY <2>1, <2>2, <2>3 DEF FetchTypes
<1>5. EditorTypes
  <2>1. \A d \in Desks : ~OnCamp(d)
    BY ListIsKey, DesksAreViewers DEF Init, OnCamp, Displays, Has
  <2> QED BY <2>1 DEF Init, EditorTypes
<1>6. FeedTypes
  BY DEF Init, FeedTypes
<1> QED BY <1>1, <1>2, <1>3, <1>4, <1>5, <1>6, TypeGroups

LEMMA NextTypes ==
  ASSUME TypeOK, [Next]_vars
  PROVE  TypeOK'
<1>1. CASE UNCHANGED vars
  <2>1. CoreTypes /\ PageTypes /\ CacheTypes /\ FetchTypes /\ EditorTypes /\ FeedTypes
    BY TypeGroups
  <2>2. UNCHANGED <<plan, server, ops, editor, page, cache, fetch, reply, invalid, news, deaf, amiss>>
    BY <1>1 DEF vars, views, feed
  <2>3. CoreTypes' /\ PageTypes' /\ CacheTypes' /\ FetchTypes' /\ EditorTypes' /\ FeedTypes'
    BY <2>1, <2>2, CoreSame, CacheSame, FetchSame, EditorSame DEF PageTypes, FeedTypes, ops
  <2> QED BY <2>3, TypeGroups
<1>2. ASSUME NEW v \in Viewers, NEW k \in Keys, Refetch(v, k) \/ Read(v, k) \/ LoadFails(v, k) \/ Apply(v, k)
      PROVE  TypeOK'
  BY <1>2, QueryTypes, ApplyTypes
<1>3. ASSUME NEW e \in Ops, NEW a \in Attempts,
             Handle(e, a) \/ Publish(e, a) \/ StatementFails(e, a) \/ HandlerDies(e, a)
      PROVE  TypeOK'
  BY <1>3, BackendTypes
<1>4. ASSUME NEW v \in Viewers, OnMessage(v) \/ StreamBreaks(v) \/ Reconnect(v)
      PROVE  TypeOK'
  BY <1>4, StreamTypes
<1>5. ASSUME NEW d \in Desks, NEW e \in Ops, NEW i \in Ids, UpdateStock(d, e, i)
      PROVE  TypeOK'
  BY <1>5, UpdateStockTypes
<1>6. ASSUME NEW e \in Ops, StockRetried(e) \/ EditFails(e) \/ DeployFails(e)
      PROVE  TypeOK'
  BY <1>6, DesksAreViewers, StockTypes, EndingTypes
<1>7. ASSUME NEW d \in Desks, NEW e \in Ops,
             \/ StockFails(d, e) \/ StockUpdated(d, e)
             \/ ChangeField(d, e) \/ HandleSaveEdit(d, e) \/ Saved(d, e)
             \/ HandleDelete(d, e) \/ Deleted(d, e)
             \/ Deploy(d, e) \/ Deployed(d, e) \/ Land(d, e)
      PROVE  TypeOK'
  <2>1. CASE StockFails(d, e) \/ StockUpdated(d, e)
    BY <2>1, StockTypes
  <2>2. CASE HandleSaveEdit(d, e) \/ HandleDelete(d, e) \/ Deploy(d, e)
    BY <2>2, BeginningTypes
  <2>3. CASE ChangeField(d, e)
    BY <2>3, EditorStepTypes
  <2>4. CASE Saved(d, e)
    BY <2>4, SavedTypes
  <2>5. CASE Deleted(d, e) \/ Land(d, e)
    BY <2>5, LeavingTypes
  <2>6. CASE Deployed(d, e)
    BY <2>6, EndingTypes
  <2> QED BY <1>7, <2>1, <2>2, <2>3, <2>4, <2>5, <2>6
<1>8. ASSUME NEW d \in Desks, NEW k \in Keys \union {"away"}, Navigate(d, k)
      PROVE  TypeOK'
  BY <1>8, LeavingTypes
<1>9. ASSUME NEW d \in Desks, Edit(d) \/ CancelEdit(d) \/ OpenDialog(d) \/ TypeConfirm(d) \/ CloseDialog(d)
      PROVE  TypeOK'
  BY <1>9, EditorStepTypes
<1> QED BY <1>1, <1>2, <1>3, <1>4, <1>5, <1>6, <1>7, <1>8, <1>9, PlanOps DEF Next

\* Every variable has its type: logistics.$id.tsx shows a camp only with its fields filled in.
THEOREM TypeCorrect == Spec => []TypeOK
<1>1. Init => TypeOK
  BY InitTypes
<1>2. TypeOK /\ [Next]_vars => TypeOK'
  BY NextTypes
<1> QED BY <1>1, <1>2, PTL DEF Spec

-----------------------------------------------------------------------------
(***************************************************************************)
(* What the pages show is what the table holds.  ViewsFollow speaks of the *)
(* data on display; that it stays so needs the answers on their way and    *)
(* the data that no page shows, which a page shows when it opens.          *)
(***************************************************************************)

Fresh(v, k) ==
    /\ fetch[v][k] = "read" => Reflects(v, k, reply[v][k])
    /\ fetch[v][k] = None /\ Has(v, k) /\ <<v, k>> \notin invalid => Reflects(v, k, cache[v][k])
    /\ fetch[v][k] = None /\ Has(v, k) /\ Watches(v, k) => <<v, k>> \notin invalid

Excused(v, k) == <<v, k>> \in outdated \/ <<v, k>> \in failed

SameMarks(v, k) ==
    /\ <<v, k>> \in outdated' <=> <<v, k>> \in outdated
    /\ <<v, k>> \in failed' <=> <<v, k>> \in failed
    /\ <<v, k>> \in short' <=> <<v, k>> \in short

USE DEF Excused, SameMarks

Follows(v, k) == ~Excused(v, k) /\ ~Owed(v, k) => Fresh(v, k)

AllFollow == \A v \in Viewers, k \in Keys : Follows(v, k)

LEMMA AllFollowSuffices ==
  ASSUME AllFollow
  PROVE  ViewsFollow
BY DEF AllFollow, Follows, Excused, Fresh, ViewsFollow, Displays

\* The same camps, and the list as whole as it was.
LEMMA ReflectsKept ==
  ASSUME FetchTypes, NEW v \in Viewers, NEW k \in Keys, Truth(k)' = Truth(k),
         <<v, k>> \in short' <=> <<v, k>> \in short
  PROVE  /\ Reflects(v, k, reply[v][k]) /\ reply'[v][k] = reply[v][k] => Reflects(v, k, reply[v][k])'
         /\ Reflects(v, k, cache[v][k]) /\ cache'[v][k] = cache[v][k] => Reflects(v, k, cache[v][k])'
         /\ Reflects(v, k, reply[v][k]) /\ cache'[v][k] = reply[v][k] => Reflects(v, k, cache[v][k])'
<1>1. CASE <<v, k>> \notin short
  BY <1>1 DEF Reflects
<1>2. CASE <<v, k>> \in short
  <2>1. k = "list"
    BY <1>2 DEF FetchTypes
  <2>2. Exists' = Exists /\ \A i \in Exists : rows'[i] = rows[i]
    <3>1. Truth(k) = [i \in Exists |-> rows[i]] /\ Truth(k)' = [i \in Exists' |-> rows'[i]]
      BY <2>1 DEF Truth
    <3> QED BY <3>1
  <2>3. \A part \in SUBSET Exists : [i \in part |-> rows'[i]] = [i \in part |-> rows[i]]
    BY <2>2
  <2> QED BY <1>2, <2>2, <2>3 DEF Reflects
<1> QED BY <1>1, <1>2

\* Nothing happens to a query, and it is not forgotten that it is going to be asked for.
LEMMA FollowsKept ==
  ASSUME FetchTypes, NEW v \in Viewers, NEW k \in Keys, Follows(v, k), rows' = rows,
         fetch'[v][k] = fetch[v][k], reply'[v][k] = reply[v][k], cache'[v][k] = cache[v][k],
         <<v, k>> \in invalid' <=> <<v, k>> \in invalid, page'[v] = page[v],
         SameMarks(v, k), Owed(v, k) => Owed(v, k)'
  PROVE  Follows(v, k)'
<1>1. Truth(k)' = Truth(k)
  BY DEF Truth, Exists
<1>2. (Has(v, k)' <=> Has(v, k)) /\ (Watches(v, k)' <=> Watches(v, k))
  BY DEF Has, Watches
<1>3. SUFFICES ASSUME ~Excused(v, k)', ~Owed(v, k)' PROVE Fresh(v, k)'
  BY DEF Follows
<1>4. Fresh(v, k)
  BY <1>3 DEF Follows
<1> QED BY <1>1, <1>2, <1>4, ReflectsKept DEF Fresh

\* A query that is asked for can only become right.
LEMMA AskedFollows ==
  ASSUME NEW v, NEW k, fetch'[v][k] = "asked"
  PROVE  Follows(v, k)'
BY NoneAssumption DEF Follows, Fresh

LEMMA AskAt ==
  ASSUME FetchTypes, NEW v \in Viewers, NEW k \in Keys, Ask(v, k)
  PROVE  /\ fetch'[v][k] = "asked"
         /\ \A w \in Viewers, j \in Keys : w # v \/ j # k =>
              /\ fetch'[w][j] = fetch[w][j] /\ reply'[w][j] = reply[w][j]
              /\ <<w, j>> \in invalid' <=> <<w, j>> \in invalid
              /\ SameMarks(w, j)
<1>1. fetch' = [fetch EXCEPT ![v][k] = "asked"] /\ reply' = [reply EXCEPT ![v][k] = None]
      /\ invalid' = invalid \ {<<v, k>>} /\ outdated' = outdated \ {<<v, k>>}
      /\ short' = short \ {<<v, k>>} /\ failed' = failed \ {<<v, k>>}
  BY DEF Ask
<1>2. Puts(reply, reply', v, k, None)
  BY <1>1, PutAt DEF FetchTypes
<1>3. fetch'[v][k] = "asked" /\ \A w \in Viewers, j \in Keys : w # v \/ j # k => fetch'[w][j] = fetch[w][j]
  BY <1>1 DEF FetchTypes
<1> QED BY <1>1, <1>2, <1>3 DEF Puts

\* A query that is invalidated follows, whatever has become of what it reads.
LEMMA InvalidateAt ==
  ASSUME FetchTypes, NEW v \in Viewers, NEW k \in Keys, Invalidate(v, k),
         page' = page, Has(v, k)' => Has(v, k)
  PROVE  /\ Follows(v, k)'
         /\ \A w \in Viewers, j \in Keys : w # v \/ j # k =>
              /\ fetch'[w][j] = fetch[w][j] /\ reply'[w][j] = reply[w][j]
              /\ <<w, j>> \in invalid' <=> <<w, j>> \in invalid
              /\ SameMarks(w, j)
<1>1. CASE Ask(v, k)
  BY <1>1, AskAt, AskedFollows
<1>2. CASE ~Ask(v, k)
  <2>1. /\ ~(Watches(v, k) /\ (Has(v, k) \/ fetch[v][k] = None))
        /\ invalid' = IF Has(v, k) THEN invalid \union {<<v, k>>} ELSE invalid
        /\ outdated' = IF fetch[v][k] = "read" THEN outdated \union {<<v, k>>} ELSE outdated
        /\ UNCHANGED <<fetch, reply, short, failed>>
    BY <1>2 DEF Invalidate
  <2>2. Follows(v, k)'
    <3>1. SUFFICES ASSUME ~Excused(v, k)' PROVE Fresh(v, k)'
      BY DEF Follows
    <3>2. fetch'[v][k] # "read"
      BY <2>1, <3>1
    <3>3. Has(v, k)' => <<v, k>> \in invalid'
      BY <2>1
    <3>4. fetch'[v][k] = None /\ Has(v, k)' => ~Watches(v, k)'
      BY <2>1 DEF Watches
    <3> QED BY <3>2, <3>3, <3>4 DEF Fresh
  <2> QED BY <2>1, <2>2
<1> QED BY <1>1, <1>2

\* A change that is not announced leaves its mark.
LEMMA OutdateFollows ==
  ASSUME FetchTypes, AllFollow, Outdate, UNCHANGED <<page, cache, fetch, reply, invalid>>
  PROVE  AllFollow'
<1> SUFFICES ASSUME NEW v \in Viewers, NEW k \in Keys, ~Excused(v, k)', ~Owed(v, k)'
             PROVE  Fresh(v, k)'
  BY DEF AllFollow, Follows
<1>1. (Has(v, k)' <=> Has(v, k)) /\ (Watches(v, k)' <=> Watches(v, k))
  BY DEF Has, Watches
<1>2. CASE <<v, k>> \notin Loaded
  <2>1. ~Has(v, k) /\ reply[v][k] = None
    BY <1>2 DEF Loaded
  <2>2. ~Has(v, k)' /\ fetch'[v][k] # "read"
    BY <1>1, <2>1 DEF FetchTypes
  <2> QED BY <2>2 DEF Fresh
<1>3. CASE fetch[v][k] = "asked"
  BY <1>3, NoneAssumption DEF Fresh
<1>4. CASE <<v, k>> \in Loaded /\ fetch[v][k] # "asked"
  <2>1. ~Excused(v, k) /\ ~Owed(v, k) /\ Truth(k)' = Truth(k)
    BY <1>4 DEF Outdate
  <2>2. Fresh(v, k)
    BY <2>1 DEF AllFollow, Follows
  <2>3. <<v, k>> \in short' <=> <<v, k>> \in short
    BY DEF Outdate
  <2> QED BY <1>1, <2>1, <2>2, <2>3, ReflectsKept DEF Fresh
<1> QED BY <1>2, <1>3, <1>4

\* A request that has not reached the backend is made.
LEMMA OwedKept ==
  ASSUME CoreTypes, NEW v, NEW k, UNCHANGED <<news, deaf>>,
         \A e \in Ops, a \in Attempts : handler[e][a] = "applied" => handler'[e][a] = "applied",
         \A e \in Ops : DeskOf[e] = v /\ KindOf[e] \in {"stock", "create"} /\ op[e] = "waiting" => op'[e] = "waiting",
         Owed(v, k)
  PROVE  Owed(v, k)'
BY DEF Owed

LEMMA BeginOwed ==
  ASSUME CoreTypes, NEW e \in Ops, NEW a \in Attempts, NEW what, Begin(e, a, what),
         (op[e] = "idle" /\ a = 1) \/ (attempt[e] = 1 /\ a = 2), UNCHANGED <<news, deaf>>
  PROVE  \A v \in Viewers, k \in Keys : Owed(v, k) => Owed(v, k)'
<1>1. handler[e][a] = "none" /\ handler' = [handler EXCEPT ![e][a] = "asked"] /\ op' = [op EXCEPT ![e] = "waiting"]
  BY DEF Begin, CoreTypes
<1>2. \A x \in Ops, b \in Attempts : handler[x][b] = "applied" => handler'[x][b] = "applied"
  BY <1>1 DEF CoreTypes
<1>3. \A x \in Ops : op[x] = "waiting" => op'[x] = "waiting"
  BY <1>1 DEF CoreTypes
<1> QED BY <1>2, <1>3, OwedKept

\* An operation ends that other viewers do not wait for.
LEMMA EndOwed ==
  ASSUME CoreTypes, NEW e \in Ops, NEW how, End(e, how), NEW v, NEW k,
         DeskOf[e] # v \/ KindOf[e] \notin {"stock", "create"} \/ op[e] # "waiting" \/ k # "list",
         Owed(v, k)
  PROVE  Owed(v, k)'
<1>1. op' = [op EXCEPT ![e] = how] /\ UNCHANGED <<handler, news, deaf>>
  BY DEF End, server, feed
<1>2. \A x \in Ops : x # e => op'[x] = op[x]
  BY <1>1 DEF CoreTypes
<1>3. k = "list"
  BY DEF Owed
<1> QED BY <1>1, <1>2, <1>3, OwedKept

-----------------------------------------------------------------------------

LEMMA QueryFollows ==
  ASSUME TypeOK, AllFollow, NEW v \in Viewers, NEW k \in Keys,
         Refetch(v, k) \/ Read(v, k) \/ LoadFails(v, k) \/ Apply(v, k)
  PROVE  AllFollow'
<1>1. CacheTypes /\ FetchTypes
  BY TypeGroups
<1>2. UNCHANGED <<rows, handler, op, page, news, deaf>>
  BY DEF Refetch, Read, LoadFails, Apply, server, ops, feed
<1>3. \A w \in Viewers, j \in Keys : Owed(w, j)' <=> Owed(w, j)
  BY <1>2 DEF Owed
<1>4. \A w \in Viewers, j \in Keys : w # v \/ j # k =>
         /\ fetch'[w][j] = fetch[w][j] /\ reply'[w][j] = reply[w][j] /\ cache'[w][j] = cache[w][j]
         /\ <<w, j>> \in invalid' <=> <<w, j>> \in invalid
         /\ SameMarks(w, j)
  <2>1. CASE Refetch(v, k)
    BY <1>1, <2>1, AskAt DEF Refetch
  <2>2. CASE Read(v, k) \/ LoadFails(v, k) \/ Apply(v, k)
    <3>1. PICK x, st : fetch' = [fetch EXCEPT ![v][k] = st] /\ reply' = [reply EXCEPT ![v][k] = x]
      BY <2>2 DEF Read, LoadFails, Apply
    <3>2. Puts(reply, reply', v, k, x) /\ Table(fetch)
      BY <1>1, <3>1, PutAt DEF FetchTypes, Table
    <3>3. Puts(fetch, fetch', v, k, st)
      BY <3>1, <3>2, PutAt
    <3>4. cache' = cache \/ Puts(cache, cache', v, k, reply[v][k])
      <4>1. Puts(cache, [cache EXCEPT ![v][k] = reply[v][k]], v, k, reply[v][k])
        BY <1>1, PutAt DEF CacheTypes
      <4> QED BY <2>2, <4>1 DEF Read, LoadFails, Apply
    <3>5. invalid' = invalid \/ invalid' = invalid \ {<<v, k>>}
      BY <2>2 DEF Read, LoadFails, Apply
    <3>6. \A w \in Viewers, j \in Keys : w # v \/ j # k => SameMarks(w, j)
      BY <2>2 DEF Read, LoadFails, Apply
    <3> QED BY <3>2, <3>3, <3>4, <3>5, <3>6 DEF Puts
  <2> QED BY <2>1, <2>2
<1>5. Follows(v, k)'
  <2>1. CASE Refetch(v, k)
    BY <1>1, <2>1, AskAt, AskedFollows DEF Refetch
  <2>2. CASE Read(v, k)
    <3>1. PICK x : /\ reply' = [reply EXCEPT ![v][k] = x] /\ Answers(k, x)
                   /\ x = Truth(k) \/ <<v, k>> \in short'
      BY <2>2, ReadAnswers
    <3>2. fetch'[v][k] = "read" /\ reply'[v][k] = x
      <4>1. Puts(reply, [reply EXCEPT ![v][k] = x], v, k, x)
        BY <1>1, PutAt DEF FetchTypes
      <4> QED BY <1>1, <2>2, <3>1, <4>1 DEF Read, FetchTypes, Puts
    <3>3. Reflects(v, k, x)'
      BY <1>1, <1>2, <2>2, <3>1 DEF Reflects, Answers, Truth, Exists, FetchTypes, Read
    <3> QED BY <3>2, <3>3, NoneAssumption DEF Follows, Fresh
  <2>3. CASE LoadFails(v, k)
    BY <2>3 DEF LoadFails, Follows
  <2>4. CASE Apply(v, k)
    <3>1. SUFFICES ASSUME ~Excused(v, k)', ~Owed(v, k)' PROVE Fresh(v, k)'
      BY DEF Follows
    <3>2. Fresh(v, k)
      BY <1>3, <2>4, <3>1 DEF Apply, AllFollow, Follows
    <3>3. Reflects(v, k, reply[v][k])
      BY <2>4, <3>2 DEF Apply, Fresh
    <3>4. cache'[v][k] = reply[v][k]
      <4>1. Puts(cache, [cache EXCEPT ![v][k] = reply[v][k]], v, k, reply[v][k])
        BY <1>1, PutAt DEF CacheTypes
      <4> QED BY <2>4, <4>1 DEF Apply, Puts
    <3>6. Reflects(v, k, cache[v][k])'
      <4>1. Truth(k)' = Truth(k) /\ UNCHANGED short
        BY <1>2, <2>4 DEF Truth, Exists, Apply
      <4> QED BY <1>1, <3>3, <3>4, <4>1, ReflectsKept
    <3>5. fetch'[v][k] = None /\ <<v, k>> \notin invalid'
      BY <1>1, <2>4 DEF Apply, FetchTypes
    <3> QED BY <3>5, <3>6, NoneAssumption DEF Fresh
  <2> QED BY <2>1, <2>2, <2>3, <2>4
<1>6. ASSUME NEW w \in Viewers, NEW j \in Keys, w # v \/ j # k PROVE Follows(w, j)'
  <2>1. Follows(w, j)
    BY DEF AllFollow
  <2> QED BY <1>1, <1>2, <1>3, <1>4, <1>6, <2>1, FollowsKept
<1> QED BY <1>5, <1>6 DEF AllFollow

\* Steps that leave the queries alone and lose no announcement.
LEMMA QuietFollows ==
  ASSUME FetchTypes, AllFollow, UNCHANGED <<rows, page, cache, fetch, reply, invalid, amiss>>,
         \A v \in Viewers, k \in Keys : Owed(v, k) => Owed(v, k)'
  PROVE  AllFollow'
<1>1. ASSUME NEW v \in Viewers, NEW k \in Keys PROVE Follows(v, k)'
  <2>1. Follows(v, k)
    BY DEF AllFollow
  <2> QED BY <2>1, FollowsKept
<1> QED BY <1>1 DEF AllFollow

LEMMA BackendFollows ==
  ASSUME TypeOK, AllFollow, NEW e \in Ops, NEW a \in Attempts,
         Handle(e, a) \/ Publish(e, a) \/ StatementFails(e, a) \/ HandlerDies(e, a)
  PROVE  AllFollow'
<1>1. CoreTypes /\ FetchTypes
  BY TypeGroups
<1>2. CASE StatementFails(e, a)
  <2>1. UNCHANGED <<rows, op, page, cache, fetch, reply, invalid, amiss, news, deaf>>
        /\ handler[e][a] = "asked" /\ handler' = [handler EXCEPT ![e][a] = "failed"]
    BY <1>2 DEF StatementFails, ops, views, feed
  <2>2. \A x \in Ops, b \in Attempts : handler[x][b] = "applied" => handler'[x][b] = "applied"
    BY <1>1, <2>1 DEF CoreTypes
  <2>3. \A v \in Viewers, k \in Keys : Owed(v, k) => Owed(v, k)'
    BY <1>1, <2>1, <2>2, OwedKept
  <2> QED BY <1>1, <2>1, <2>3, QuietFollows
<1>3. CASE Handle(e, a) \/ Publish(e, a) \/ HandlerDies(e, a)
  <2>1. Outdate /\ UNCHANGED <<page, cache, fetch, reply, invalid>>
    BY <1>3 DEF Handle, Publish, HandlerDies, views
  <2> QED BY <1>1, <2>1, OutdateFollows
<1> QED BY <1>2, <1>3

LEMMA StreamFollows ==
  ASSUME TypeOK, AllFollow, NEW v \in Viewers, OnMessage(v) \/ StreamBreaks(v) \/ Reconnect(v)
  PROVE  AllFollow'
<1>1. CoreTypes /\ FetchTypes /\ FeedTypes
  BY TypeGroups
<1>2. UNCHANGED <<rows, handler, op, page, cache>>
  BY DEF OnMessage, StreamBreaks, Reconnect, server, ops, views
<1>3. CASE OnMessage(v)
  <2>1. Invalidate(v, "list") /\ "list" \in Keys /\ UNCHANGED deaf
        /\ \A w \in Viewers : w # v => news'[w] = news[w]
    BY <1>1, <1>3, ListIsKey DEF OnMessage, FeedTypes
  <2>2. Has(v, "list")' <=> Has(v, "list")
    BY <1>2 DEF Has
  <2>3. ASSUME NEW w \in Viewers, NEW k \in Keys, w # v \/ k # "list" PROVE Owed(w, k) => Owed(w, k)'
    BY <1>2, <2>1, <2>3 DEF Owed
  <2>4. ASSUME NEW w \in Viewers, NEW k \in Keys, w # v \/ k # "list" PROVE Follows(w, k)'
    <3>1. Follows(w, k)
      BY DEF AllFollow
    <3> QED BY <1>1, <1>2, <2>1, <2>2, <2>3, <2>4, <3>1, InvalidateAt, FollowsKept
  <2>5. Follows(v, "list")'
    BY <1>1, <1>2, <2>1, <2>2, InvalidateAt
  <2> QED BY <2>4, <2>5 DEF AllFollow
<1>4. CASE StreamBreaks(v)
  BY <1>1, <1>4, OutdateFollows DEF StreamBreaks, views
<1>5. CASE Reconnect(v)
  <2>1. UNCHANGED <<fetch, reply, invalid, amiss, news>> /\ deaf' \subseteq deaf
    BY <1>5 DEF Reconnect, views
  <2>2. \A w \in Viewers, k \in Keys : Owed(w, k) => Owed(w, k)'
    BY <1>2, <2>1 DEF Owed
  <2> QED BY <1>1, <1>2, <2>1, <2>2, QuietFollows
<1> QED BY <1>3, <1>4, <1>5

LEMMA UpdateStockFollows ==
  ASSUME TypeOK, AllFollow, NEW d \in Desks, NEW e \in Ops, NEW i \in Ids, UpdateStock(d, e, i)
  PROVE  AllFollow'
<1>1. CoreTypes /\ CacheTypes /\ FetchTypes /\ d \in Viewers /\ "list" \in Keys
  BY TypeGroups, DesksAreViewers, ListIsKey
<1>2. UNCHANGED <<rows, page, invalid, news, deaf, amiss>> /\ Begin(e, 1, [camp |-> i])
      /\ KindOf[e] = "stock" /\ DeskOf[e] = d /\ op[e] = "idle" /\ 1 \in Attempts
  BY DEF UpdateStock, MaySelect, May, feed, Attempts
<1>3. \A w \in Viewers, k \in Keys : Owed(w, k) => Owed(w, k)'
  BY <1>1, <1>2, BeginOwed
<1>4. Follows(d, "list")'
  <2>1. op'[e] = "waiting"
    BY <1>1, <1>2 DEF Begin, CoreTypes
  <2> QED BY <1>2, <2>1 DEF Follows, Owed
<1>5. \A w \in Viewers, k \in Keys : w # d \/ k # "list" =>
         fetch'[w][k] = fetch[w][k] /\ reply'[w][k] = reply[w][k] /\ cache'[w][k] = cache[w][k]
  <2> DEFINE l == [cache[d]["list"] EXCEPT ![i].stock = e]
  <2>1. cache' = [cache EXCEPT ![d]["list"] = l] /\ fetch' = [fetch EXCEPT ![d]["list"] = None]
        /\ reply' = [reply EXCEPT ![d]["list"] = None]
    BY DEF UpdateStock
  <2> HIDE DEF l
  <2>2. Table(fetch) /\ Table(reply) /\ Table(cache)
    BY <1>1 DEF FetchTypes, CacheTypes, Table
  <2>3. Puts(cache, cache', d, "list", l) /\ Puts(fetch, fetch', d, "list", None)
        /\ Puts(reply, reply', d, "list", None)
    BY <1>1, <2>1, <2>2, PutAt
  <2> QED BY <2>3 DEF Puts
<1>6. ASSUME NEW w \in Viewers, NEW k \in Keys, w # d \/ k # "list" PROVE Follows(w, k)'
  <2>1. Follows(w, k)
    BY DEF AllFollow
  <2> QED BY <1>1, <1>2, <1>3, <1>5, <1>6, <2>1, FollowsKept
<1> QED BY <1>4, <1>6 DEF AllFollow

\* The operations that end with invalidating a query.
LEMMA EndFollows ==
  ASSUME TypeOK, AllFollow, NEW e \in Ops, NEW how, End(e, how), NEW k \in Keys, Invalidate(DeskOf[e], k),
         rows' = rows, page' = page, op[e] = "waiting",
         KindOf[e] \in {"stock", "create"} => k = "list",
         Table(cache'), Has(DeskOf[e], k)' => Has(DeskOf[e], k),
         \A v \in Viewers, j \in Keys : v # DeskOf[e] \/ j # k => cache'[v][j] = cache[v][j]
  PROVE  AllFollow'
<1>1. CoreTypes /\ FetchTypes /\ DeskOf[e] \in Viewers
  BY TypeGroups, DesksAreViewers
<1>2. Follows(DeskOf[e], k)'
  BY <1>1, InvalidateAt
<1>3. ASSUME NEW v \in Viewers, NEW j \in Keys, v # DeskOf[e] \/ j # k PROVE Follows(v, j)'
  <2>1. Follows(v, j)
    BY DEF AllFollow
  <2>2. Owed(v, j) => Owed(v, j)'
    BY <1>1, <1>3, EndOwed
  <2>3. /\ fetch'[v][j] = fetch[v][j] /\ reply'[v][j] = reply[v][j] /\ cache'[v][j] = cache[v][j]
        /\ <<v, j>> \in invalid' <=> <<v, j>> \in invalid
        /\ SameMarks(v, j)
    BY <1>1, <1>3, InvalidateAt
  <2> QED BY <1>1, <2>1, <2>2, <2>3, FollowsKept
<1> QED BY <1>2, <1>3 DEF AllFollow

LEMMA StockFollows ==
  ASSUME TypeOK, AllFollow, NEW d \in Desks, NEW e \in Ops, StockRetried(e) \/ StockFails(d, e) \/ StockUpdated(d, e)
  PROVE  AllFollow'
<1>1. CoreTypes /\ CacheTypes /\ FetchTypes /\ d \in Viewers /\ "list" \in Keys
  BY TypeGroups, DesksAreViewers, ListIsKey
<1>2. KindOf[e] = "stock" /\ op[e] = "waiting" /\ UNCHANGED <<rows, page, news, deaf>>
  BY DEF StockRetried, StockFails, StockUpdated, Refused, Answered, End, server, views, feed
<1>3. CASE StockRetried(e)
  <2>1. attempt[e] = 1 /\ Begin(e, 2, sent[e]) /\ 2 \in Attempts
        /\ UNCHANGED <<cache, fetch, reply, invalid, amiss>>
    BY <1>3 DEF StockRetried, Attempts, views
  <2>2. \A v \in Viewers, k \in Keys : Owed(v, k) => Owed(v, k)'
    BY <1>1, <1>2, <2>1, BeginOwed
  <2> QED BY <1>1, <1>2, <2>1, <2>2, QuietFollows
<1>4. CASE StockFails(d, e) \/ StockUpdated(d, e)
  <2>1. DeskOf[e] = d /\ Invalidate(d, "list") /\ \E how : End(e, how)
    BY <1>4 DEF StockFails, StockUpdated
  <2>2. Has(d, "list")
    BY <1>1, <1>2, <2>1 DEF CacheTypes
  <2>3. Table(cache') /\ \A v \in Viewers, j \in Keys : v # d \/ j # "list" => cache'[v][j] = cache[v][j]
    <3>1. CASE StockFails(d, e)
      <4>1. Puts(cache, [cache EXCEPT ![d]["list"] = previous[e]], d, "list", previous[e])
        BY <1>1, PutAt DEF CacheTypes
      <4> QED BY <3>1, <4>1 DEF StockFails, Puts
    <3>2. CASE StockUpdated(d, e)
      BY <1>1, <3>2 DEF StockUpdated, CacheTypes, Table
    <3> QED BY <1>4, <3>1, <3>2
  <2> QED BY <1>1, <1>2, <2>1, <2>2, <2>3, EndFollows
<1> QED BY <1>3, <1>4

LEMMA BeginningFollows ==
  ASSUME TypeOK, AllFollow, NEW d \in Desks, NEW e \in Ops,
         HandleSaveEdit(d, e) \/ HandleDelete(d, e) \/ Deploy(d, e)
  PROVE  AllFollow'
<1>1. CoreTypes /\ FetchTypes
  BY TypeGroups
<1>2. UNCHANGED <<rows, page, cache, fetch, reply, invalid, news, deaf, amiss>>
  BY DEF HandleSaveEdit, HandleDelete, Deploy, views, feed
<1>3. \E a \in Attempts : \E what : Begin(e, a, what) /\ ((op[e] = "idle" /\ a = 1) \/ (attempt[e] = 1 /\ a = 2))
  <2>1. CASE HandleSaveEdit(d, e) \/ HandleDelete(d, e)
    <3>1. \E what : Begin(e, 1, what) /\ op[e] = "idle"
      BY <2>1 DEF HandleSaveEdit, HandleDelete, May
    <3> QED BY <3>1 DEF Attempts
  <2>2. CASE Deploy(d, e)
    <3>1. \/ Begin(e, 1, None) /\ op[e] = "idle"
          \/ Begin(e, 2, None) /\ attempt[e] = 1
      BY <2>2 DEF Deploy, May
    <3> QED BY <3>1 DEF Attempts
  <2> QED BY <2>1, <2>2
<1>4. \A v \in Viewers, k \in Keys : Owed(v, k) => Owed(v, k)'
  BY <1>1, <1>2, <1>3, BeginOwed
<1> QED BY <1>1, <1>2, <1>4, QuietFollows

LEMMA EndingFollows ==
  ASSUME TypeOK, AllFollow, NEW d \in Desks, NEW e \in Ops,
         EditFails(e) \/ DeployFails(e) \/ Deployed(d, e) \/ Saved(d, e)
  PROVE  AllFollow'
<1>1. CoreTypes /\ CacheTypes /\ FetchTypes
  BY TypeGroups
<1>2. UNCHANGED <<rows, page, cache, news, deaf>> /\ op[e] = "waiting" /\ \E how : End(e, how)
  BY DEF EditFails, DeployFails, Deployed, Saved, End, Refused, Answered, server, views, feed
<1>3. CASE EditFails(e)
  <2>1. UNCHANGED <<fetch, reply, invalid, amiss>> /\ KindOf[e] \notin {"stock", "create"}
    BY <1>3 DEF EditFails, views
  <2>2. \A v \in Viewers, k \in Keys : Owed(v, k) => Owed(v, k)'
    BY <1>1, <1>2, <2>1, EndOwed
  <2> QED BY <1>1, <1>2, <2>1, <2>2, QuietFollows
<1>4. CASE DeployFails(e)
  BY <1>1, <1>4, OutdateFollows DEF DeployFails, views
<1>5. CASE Deployed(d, e) \/ Saved(d, e)
  <2>1. PICK k \in Keys : DeskOf[e] = d /\ Invalidate(d, k) /\ (KindOf[e] \in {"stock", "create"} => k = "list")
    <3>1. CASE Deployed(d, e)
      BY <3>1, ListIsKey DEF Deployed
    <3>2. CASE Saved(d, e)
      <4>1. KindOf[e] = "save" /\ sent[e].camp \in Keys
        BY <1>1, <1>2, <3>2, ListIsKey DEF Saved, CoreTypes, Asks
      <4> QED BY <3>2, <4>1 DEF Saved
    <3> QED BY <1>5, <3>1, <3>2
  <2>2. Table(cache') /\ (Has(d, k)' <=> Has(d, k))
    BY <1>1, <1>2 DEF CacheTypes, Table, Has
  <2> QED BY <1>2, <2>1, <2>2, EndFollows
<1> QED BY <1>3, <1>4, <1>5

\* A page that opens shows what has stayed right, or asks.
LEMMA LeavingFollows ==
  ASSUME TypeOK, AllFollow, NEW d \in Desks,
         \/ \E k \in Keys \union {"away"} : Navigate(d, k)
         \/ \E e \in Ops : Deleted(d, e) \/ Land(d, e)
  PROVE  AllFollow'
<1>1. CoreTypes /\ PageTypes /\ FetchTypes /\ d \in Viewers
  BY TypeGroups, DesksAreViewers
<1>2. UNCHANGED <<rows, cache>> /\ \A v \in Viewers, k \in Keys : Owed(v, k) => Owed(v, k)'
  <2>1. CASE \E k \in Keys \union {"away"} : Navigate(d, k)
    BY <2>1 DEF Navigate, server, feed, Owed
  <2>2. ASSUME NEW e \in Ops, Deleted(d, e) \/ Land(d, e)
        PROVE  UNCHANGED <<rows, cache>> /\ \A v \in Viewers, k \in Keys : Owed(v, k) => Owed(v, k)'
    <3>1. End(e, "ok") /\ (KindOf[e] = "delete" \/ op[e] # "waiting") /\ UNCHANGED <<rows, cache>>
      BY <2>2 DEF Deleted, Land, End, server
    <3> QED BY <1>1, <3>1, EndOwed
  <2> QED BY <2>1, <2>2
<1>3. \/ \E p \in Pages : GoTo(d, p)
      \/ UNCHANGED <<page, fetch, reply, invalid, amiss>>
  BY ListIsKey DEF Navigate, Deleted, Land, Pages
<1>4. ASSUME NEW p \in Pages, GoTo(d, p) PROVE AllFollow'
  <2>1. page'[d] = p /\ Mount(d, p) /\ \A v \in Viewers : v # d => page'[v] = page[v]
    BY <1>1, <1>4 DEF GoTo, PageTypes
  <2> SUFFICES ASSUME NEW v \in Viewers, NEW k \in Keys PROVE Follows(v, k)'
    BY DEF AllFollow
  <2>2. Truth(k)' = Truth(k) /\ (Has(v, k)' <=> Has(v, k)) /\ Follows(v, k)
    BY <1>2 DEF Truth, Exists, Has, AllFollow
  <2>3. CASE p \in Keys /\ Ask(d, p) /\ v = d /\ k = p
    BY <1>1, <2>3, AskAt, AskedFollows
  <2>4. CASE \/ UNCHANGED <<fetch, reply, invalid, amiss>>
             \/ p \in Keys /\ Ask(d, p) /\ (v # d \/ k # p)
    <3>1. /\ fetch'[v][k] = fetch[v][k] /\ reply'[v][k] = reply[v][k] /\ cache'[v][k] = cache[v][k]
          /\ <<v, k>> \in invalid' <=> <<v, k>> \in invalid
          /\ SameMarks(v, k)
      BY <1>1, <1>2, <2>4, AskAt
    <3>2. SUFFICES ASSUME ~Excused(v, k)', ~Owed(v, k)' PROVE Fresh(v, k)'
      BY DEF Follows
    <3>3. Fresh(v, k)
      BY <1>2, <2>2, <3>1, <3>2 DEF Follows
    <3>4. fetch[v][k] = None /\ Has(v, k) /\ Watches(v, k)' => <<v, k>> \notin invalid
      <4>1. CASE v # d
        BY <2>1, <3>3, <4>1 DEF Fresh, Watches
      <4>2. CASE v = d /\ k # p
        BY <2>1, <4>2 DEF Watches
      <4>3. CASE v = d /\ k = p
        <5>1. ~(p \in Keys /\ Ask(d, p)) \/ (fetch'[d][p] = "asked" /\ fetch[d][p] = fetch'[d][p])
          BY <1>1, <3>1, <4>3, AskAt
        <5> QED BY <2>1, <4>3, <5>1, NoneAssumption DEF Mount
      <4> QED BY <4>1, <4>2, <4>3
    <3> QED BY <1>1, <2>2, <3>1, <3>3, <3>4, ReflectsKept DEF Fresh
  <2> QED BY <2>1, <2>3, <2>4 DEF Mount
<1>5. CASE UNCHANGED <<page, fetch, reply, invalid, amiss>>
  BY <1>1, <1>2, <1>5, QuietFollows
<1> QED BY <1>3, <1>4, <1>5

LEMMA EditorStepFollows ==
  ASSUME TypeOK, AllFollow, NEW d \in Desks,
         \/ Edit(d) \/ (\E e \in Ops : ChangeField(d, e)) \/ CancelEdit(d)
         \/ OpenDialog(d) \/ TypeConfirm(d) \/ CloseDialog(d)
  PROVE  AllFollow'
<1>1. UNCHANGED <<rows, handler, op, news, deaf, page, cache, fetch, reply, invalid, amiss>>
  BY DEF Edit, ChangeField, CancelEdit, OpenDialog, TypeConfirm, CloseDialog, server, ops, views, feed
<1>2. \A v \in Viewers, k \in Keys : Owed(v, k) => Owed(v, k)'
  BY <1>1 DEF Owed
<1> QED BY <1>1, <1>2, TypeGroups, QuietFollows

LEMMA InitFollows ==
  ASSUME Init
  PROVE  AllFollow
<1>1. \A v \in Viewers, k \in Keys : ~Has(v, k) /\ fetch[v][k] # "read"
  BY NoneAssumption DEF Init, Has
<1> QED BY <1>1 DEF AllFollow, Follows, Fresh

LEMMA NextFollows ==
  ASSUME TypeOK, AllFollow, [Next]_vars
  PROVE  AllFollow'
<1>1. CASE UNCHANGED vars
  <2>1. UNCHANGED <<rows, handler, op, news, deaf, page, cache, fetch, reply, invalid, amiss>>
    BY <1>1 DEF vars, server, ops, views, feed
  <2>2. \A v \in Viewers, k \in Keys : Owed(v, k) => Owed(v, k)'
    BY <2>1 DEF Owed
  <2> QED BY <2>1, <2>2, TypeGroups, QuietFollows
<1>2. ASSUME NEW v \in Viewers, NEW k \in Keys, Refetch(v, k) \/ Read(v, k) \/ LoadFails(v, k) \/ Apply(v, k)
      PROVE  AllFollow'
  BY <1>2, QueryFollows
<1>3. ASSUME NEW e \in Ops, NEW a \in Attempts,
             Handle(e, a) \/ Publish(e, a) \/ StatementFails(e, a) \/ HandlerDies(e, a)
      PROVE  AllFollow'
  BY <1>3, BackendFollows
<1>4. ASSUME NEW v \in Viewers, OnMessage(v) \/ StreamBreaks(v) \/ Reconnect(v)
      PROVE  AllFollow'
  BY <1>4, StreamFollows
<1>5. ASSUME NEW d \in Desks, NEW e \in Ops, NEW i \in Ids, UpdateStock(d, e, i)
      PROVE  AllFollow'
  BY <1>5, UpdateStockFollows
<1>6. ASSUME NEW e \in Ops, StockRetried(e) \/ EditFails(e) \/ DeployFails(e)
      PROVE  AllFollow'
  BY <1>6, DesksAreViewers, StockFollows, EndingFollows
<1>7. ASSUME NEW d \in Desks, NEW e \in Ops,
             \/ StockFails(d, e) \/ StockUpdated(d, e)
             \/ ChangeField(d, e) \/ HandleSaveEdit(d, e) \/ Saved(d, e)
             \/ HandleDelete(d, e) \/ Deleted(d, e)
             \/ Deploy(d, e) \/ Deployed(d, e) \/ Land(d, e)
      PROVE  AllFollow'
  <2>1. CASE StockFails(d, e) \/ StockUpdated(d, e)
    BY <2>1, StockFollows
  <2>2. CASE HandleSaveEdit(d, e) \/ HandleDelete(d, e) \/ Deploy(d, e)
    BY <2>2, BeginningFollows
  <2>3. CASE ChangeField(d, e)
    BY <2>3, EditorStepFollows
  <2>4. CASE Deleted(d, e) \/ Land(d, e)
    BY <2>4, LeavingFollows
  <2>5. CASE Saved(d, e) \/ Deployed(d, e)
    BY <2>5, EndingFollows
  <2> QED BY <1>7, <2>1, <2>2, <2>3, <2>4, <2>5
<1>8. ASSUME NEW d \in Desks, NEW k \in Keys \union {"away"}, Navigate(d, k)
      PROVE  AllFollow'
  BY <1>8, LeavingFollows
<1>9. ASSUME NEW d \in Desks, Edit(d) \/ CancelEdit(d) \/ OpenDialog(d) \/ TypeConfirm(d) \/ CloseDialog(d)
      PROVE  AllFollow'
  BY <1>9, EditorStepFollows
<1> QED BY <1>1, <1>2, <1>3, <1>4, <1>5, <1>6, <1>7, <1>8, <1>9, PlanOps DEF Next

-----------------------------------------------------------------------------
(***************************************************************************)
(* What the editor of a camp shows is what it would save.                  *)
(***************************************************************************)

Settled(d) ==
    OnCamp(d) =>
        /\ Shown(d).entry = draft[d].entry /\ Shown(d).place = draft[d].place
        /\ d \in editing \intersect reread \/ marker[d] = draft[d].place

LEMMA EditorIsSettled ==
    /\ EditorIsWhatItSaves <=> \A d \in Desks : Settled(d)
    /\ EditorIsWhatItSaves' <=> \A d \in Desks : Settled(d)'
BY DEF EditorIsWhatItSaves, Settled

\* Settled without the records in between.
LEMMA SettledMeans ==
  ASSUME NEW d
  PROVE  Settled(d) <=> (OnCamp(d) =>
           /\ d \notin editing => /\ cache[d][page[d]].entry = draft[d].entry
                                  /\ cache[d][page[d]].place = draft[d].place
           /\ d \in editing \intersect reread \/ marker[d] = draft[d].place)
BY DEF Settled, Shown

LEMMA SettledMeansNext ==
  ASSUME NEW d
  PROVE  Settled(d)' <=> (OnCamp(d)' =>
           /\ d \notin editing' => /\ cache'[d][page'[d]].entry = draft'[d].entry
                                   /\ cache'[d][page'[d]].place = draft'[d].place
           /\ d \in editing' \intersect reread' \/ marker'[d] = draft'[d].place)
BY DEF Settled, Shown

\* Nothing happens to a desk's editor, nor to the camp it shows.
LEMMA SettledKept ==
  ASSUME NEW d, Settled(d), OnCamp(d)' => OnCamp(d), page'[d] = page[d],
         OnCamp(d) => cache'[d][page[d]] = cache[d][page[d]],
         draft'[d] = draft[d], marker'[d] = marker[d],
         d \in editing' <=> d \in editing, d \in reread => d \in reread'
  PROVE  Settled(d)'
BY SettledMeans, SettledMeansNext

\* The fields follow the camp.
LEMMA EffectsSettle ==
  ASSUME TypeOK, NEW d \in Desks, NEW k \in Ids, NEW row \in Rows, Effects(d, k, row, FALSE),
         page'[d] = k, cache'[d][k] = row, d \notin editing'
  PROVE  Settled(d)'
<1>1. EditorTypes
  BY TypeGroups
<1>2. draft' = [draft EXCEPT ![d] = Entered(row)] /\ marker' = [marker EXCEPT ![d] = row.place]
  BY DEF Effects
<1>3. draft'[d] = Entered(row) /\ marker'[d] = row.place
  BY <1>1, <1>2 DEF EditorTypes
<1>4. draft'[d].entry = row.entry /\ draft'[d].place = row.place
  BY <1>3 DEF Entered
<1> QED BY <1>3, <1>4, SettledMeansNext

LEMMA EffectsElsewhere ==
  ASSUME TypeOK, NEW v, NEW k, NEW row, NEW edits \in BOOLEAN, Effects(v, k, row, edits)
  PROVE  \A d \in Desks : d # v => /\ draft'[d] = draft[d] /\ marker'[d] = marker[d]
                                   /\ d \in reread' <=> d \in reread
<1>1. EditorTypes
  BY TypeGroups
<1>2. marker' = [marker EXCEPT ![v] = row.place] /\ (draft' = draft \/ draft' = [draft EXCEPT ![v] = Entered(row)])
      /\ (reread' = reread \union {v} \/ reread' = reread \ {v})
  BY DEF Effects
<1> QED BY <1>1, <1>2 DEF EditorTypes

LEMMA ApplySettled ==
  ASSUME TypeOK, EditorIsWhatItSaves, NEW v \in Viewers, NEW k \in Keys, Apply(v, k)
  PROVE  EditorIsWhatItSaves'
<1>1. CacheTypes /\ FetchTypes /\ EditorTypes
  BY TypeGroups
<1>2. UNCHANGED <<page, editing>> /\ Puts(cache, cache', v, k, reply[v][k])
  <2>1. Puts(cache, [cache EXCEPT ![v][k] = reply[v][k]], v, k, reply[v][k])
    BY <1>1, PutAt DEF CacheTypes
  <2> QED BY <2>1 DEF Apply
<1>3. reply[v][k] # None /\ IsData(k, reply[v][k])
  BY <1>1 DEF Apply, FetchTypes
<1> SUFFICES ASSUME NEW d \in Desks, Settled(d) PROVE Settled(d)'
  BY EditorIsSettled
<1>4. d \in Viewers /\ \A j \in Keys : d # v \/ j # k => (Has(d, j)' <=> Has(d, j))
  BY <1>2, DesksAreViewers DEF Puts, Has
<1>5. CASE k \in Ids /\ Watches(v, k) /\ ~(Has(v, k) /\ Visible(cache[v][k]) = Visible(reply[v][k]))
  <2>1. PICK edits \in BOOLEAN : Effects(v, k, reply[v][k], edits) /\ (edits <=> v \in editing)
    <3>1. Effects(v, k, reply[v][k], v \in editing)
      BY <1>5 DEF Apply
    <3>2. CASE v \in editing
      <4>1. Effects(v, k, reply[v][k], TRUE)
        BY <3>1, <3>2 DEF Effects
      <4> QED BY <3>2, <4>1
    <3>3. CASE v \notin editing
      <4>1. Effects(v, k, reply[v][k], FALSE)
        BY <3>1, <3>3 DEF Effects
      <4> QED BY <3>3, <4>1
    <3> QED BY <3>2, <3>3
  <2>2. CASE d = v /\ edits
    <3>1. d \in editing' /\ d \in reread'
      BY <1>2, <2>1, <2>2 DEF Effects
    <3> QED BY <3>1, SettledMeansNext
  <2>3. CASE d = v /\ ~edits
    <3>1. Effects(d, k, reply[v][k], FALSE) /\ d \notin editing'
      BY <1>2, <2>1, <2>3 DEF Effects
    <3>2. page'[d] = k /\ cache'[d][k] = reply[v][k] /\ reply[v][k] \in Rows
      BY <1>2, <1>3, <1>5, <2>3, ListIsKey DEF Watches, Puts, IsData
    <3> QED BY <1>5, <3>1, <3>2, EffectsSettle
  <2>4. CASE d # v
    <3>1. draft'[d] = draft[d] /\ marker'[d] = marker[d] /\ (d \in reread' <=> d \in reread)
      BY <2>1, <2>4, EffectsElsewhere
    <3>2. OnCamp(d)' <=> OnCamp(d)
      BY <1>2, <1>4, <2>4, ListIsKey DEF OnCamp, Displays, Watches
    <3>3. OnCamp(d) => cache'[d][page[d]] = cache[d][page[d]]
      BY <1>2, <1>4, <2>4, ListIsKey DEF OnCamp, Puts
    <3> QED BY <1>2, <3>1, <3>2, <3>3, SettledKept
  <2> QED BY <2>2, <2>3, <2>4
<1>6. CASE ~(k \in Ids /\ Watches(v, k) /\ ~(Has(v, k) /\ Visible(cache[v][k]) = Visible(reply[v][k])))
  <2>1. UNCHANGED <<draft, marker, reread>>
    BY <1>6 DEF Apply
  <2>2. CASE d = v /\ k = page[d] /\ k \in Ids
    <3>1. OnCamp(d) /\ Visible(cache[d][k]) = Visible(reply[d][k]) /\ cache'[d][k] = reply[d][k]
      BY <1>2, <1>6, <2>2 DEF OnCamp, Displays, Watches, Puts
    <3>2. cache'[d][k].entry = cache[d][k].entry /\ cache'[d][k].place = cache[d][k].place
      <4>1. Visible(cache[d][k]).entry = cache[d][k].entry /\ Visible(cache[d][k]).place = cache[d][k].place
            /\ Visible(reply[d][k]).entry = reply[d][k].entry /\ Visible(reply[d][k]).place = reply[d][k].place
        BY DEF Visible
      <4> QED BY <3>1, <4>1
    <3> QED BY <1>2, <2>1, <2>2, <3>1, <3>2, SettledMeans, SettledMeansNext
  <2>3. CASE ~(d = v /\ k = page[d] /\ k \in Ids)
    <3>1. OnCamp(d)' <=> OnCamp(d)
      BY <1>2, <1>4, <2>3, ListIsKey DEF OnCamp, Displays, Watches
    <3>2. OnCamp(d) => cache'[d][page[d]] = cache[d][page[d]]
      BY <1>2, <1>4, <2>3, ListIsKey DEF OnCamp, Puts
    <3> QED BY <1>2, <2>1, <3>1, <3>2, SettledKept
  <2> QED BY <2>2, <2>3
<1> QED BY <1>5, <1>6

\* Steps in which no editor takes part.
LEMMA OthersSettled ==
  ASSUME TypeOK, EditorIsWhatItSaves, UNCHANGED editor, page' = page,
         \A d \in Desks : OnCamp(d) => cache'[d][page[d]] = cache[d][page[d]],
         \A d \in Desks, i \in Ids : Has(d, i)' => Has(d, i)
  PROVE  EditorIsWhatItSaves'
<1> SUFFICES ASSUME NEW d \in Desks, Settled(d) PROVE Settled(d)'
  BY EditorIsSettled
<1>1. OnCamp(d)' => OnCamp(d)
  BY DEF OnCamp, Displays, Watches
<1>2. UNCHANGED <<editing, draft, marker, reread>>
  BY DEF editor
<1> QED BY <1>1, <1>2, SettledKept

LEMMA StockSettled ==
  ASSUME TypeOK, EditorIsWhatItSaves, NEW d \in Desks, NEW e \in Ops,
         (\E i \in Ids : UpdateStock(d, e, i)) \/ StockFails(d, e)
  PROVE  EditorIsWhatItSaves'
<1>1. CacheTypes /\ d \in Viewers /\ "list" \in Keys
  BY TypeGroups, DesksAreViewers, ListIsKey
<1>2. UNCHANGED editor /\ page' = page /\ \E l : cache' = [cache EXCEPT ![d]["list"] = l]
  BY DEF UpdateStock, StockFails
<1>3. \E l : Puts(cache, cache', d, "list", l)
  <2>1. PICK l : cache' = [cache EXCEPT ![d]["list"] = l]
    BY <1>2
  <2> QED BY <1>1, <2>1, PutAt DEF CacheTypes
<1>4. \A x \in Desks, j \in Ids : cache'[x][j] = cache[x][j]
  BY <1>3, ListIsKey, DesksAreViewers DEF Puts
<1> QED BY <1>2, <1>4, OthersSettled DEF OnCamp, Has

LEMMA StopEditingSettled ==
  ASSUME TypeOK, EditorIsWhatItSaves, NEW d \in Desks, StopEditing(d), UNCHANGED <<page, cache>>
  PROVE  EditorIsWhatItSaves'
<1>1. CacheTypes /\ EditorTypes
  BY TypeGroups
<1> SUFFICES ASSUME NEW x \in Desks, Settled(x) PROVE Settled(x)'
  BY EditorIsSettled
<1>2. editing' = editing \ {d} /\ (OnCamp(x)' <=> OnCamp(x))
  BY DEF StopEditing, OnCamp, Displays, Watches, Has
<1>3. CASE d \in editing
  <2>1. Effects(d, page[d], cache[d][page[d]], FALSE) /\ page[d] \in Ids /\ cache[d][page[d]] \in Rows
    BY <1>1, <1>3, CampShown DEF StopEditing, EditorTypes
  <2>2. CASE x = d
    BY <1>2, <2>1, <2>2, EffectsSettle
  <2>3. CASE x # d
    <3>1. draft'[x] = draft[x] /\ marker'[x] = marker[x] /\ (x \in reread' <=> x \in reread)
      BY <2>1, <2>3, EffectsElsewhere
    <3> QED BY <1>2, <2>3, <3>1, SettledKept
  <2> QED BY <2>2, <2>3
<1>4. CASE d \notin editing
  <2>1. UNCHANGED <<draft, marker, reread>>
    BY <1>4 DEF StopEditing
  <2> QED BY <1>2, <1>4, <2>1, SettledKept
<1> QED BY <1>3, <1>4

LEMMA EditSettled ==
  ASSUME TypeOK, EditorIsWhatItSaves, NEW d \in Desks, Edit(d) \/ (\E e \in Ops : ChangeField(d, e))
  PROVE  EditorIsWhatItSaves'
<1>1. EditorTypes
  BY TypeGroups
<1>2. UNCHANGED <<page, cache>> /\ OnCamp(d) /\ draft[d] \in Drafts
  BY <1>1 DEF Edit, ChangeField, views, EditorTypes
<1> SUFFICES ASSUME NEW x \in Desks, Settled(x) PROVE Settled(x)'
  BY EditorIsSettled
<1>3. OnCamp(x)' <=> OnCamp(x)
  BY <1>2 DEF OnCamp, Displays, Watches, Has
<1>4. CASE Edit(d)
  <2>1. d \notin editing /\ editing' = editing \union {d} /\ reread' = reread \ {d}
        /\ marker' = [marker EXCEPT ![d] = cache[d][page[d]].place] /\ draft' = [draft EXCEPT ![d].typed = {}]
    BY <1>4 DEF Edit
  <2>2. CASE x = d
    <3>1. marker'[d] = cache[d][page[d]].place /\ draft'[d].place = draft[d].place /\ d \in editing'
      BY <1>1, <1>2, <2>1 DEF EditorTypes, Drafts
    <3>2. cache[d][page[d]].place = draft[d].place
      BY <1>2, <2>1, <2>2, SettledMeans
    <3> QED BY <2>2, <3>1, <3>2, SettledMeansNext
  <2>3. CASE x # d
    <3>1. draft'[x] = draft[x] /\ marker'[x] = marker[x]
      BY <1>1, <2>1, <2>3 DEF EditorTypes
    <3> QED BY <1>2, <1>3, <2>1, <2>3, <3>1, SettledKept
  <2> QED BY <2>2, <2>3
<1>5. ASSUME NEW e \in Ops, ChangeField(d, e) PROVE Settled(x)'
  <2>1. UNCHANGED <<editing, reread>> /\ d \in editing
    BY <1>5 DEF ChangeField
  <2>2. \/ draft' = [draft EXCEPT ![d].entry = e, ![d].typed = @ \union {"entry"}] /\ marker' = marker
        \/ /\ draft' = [draft EXCEPT ![d].place = e, ![d].typed = @ \union {"place"}]
           /\ marker' = [marker EXCEPT ![d] = e]
    BY <1>5 DEF ChangeField
  <2>3. CASE x = d
    <3>1. d \in reread \/ marker[d] = draft[d].place
      BY <1>2, <2>3, SettledMeans
    <3>2. d \in reread' \/ marker'[d] = draft'[d].place
      <4>1. CASE draft' = [draft EXCEPT ![d].entry = e, ![d].typed = @ \union {"entry"}] /\ marker' = marker
        <5>1. draft'[d].place = draft[d].place
          BY <1>1, <1>2, <4>1 DEF EditorTypes, Drafts
        <5> QED BY <2>1, <3>1, <4>1, <5>1
      <4>2. CASE /\ draft' = [draft EXCEPT ![d].place = e, ![d].typed = @ \union {"place"}]
                 /\ marker' = [marker EXCEPT ![d] = e]
        <5>1. draft'[d].place = e /\ marker'[d] = e
          BY <1>1, <1>2, <4>2 DEF EditorTypes, Drafts
        <5> QED BY <5>1
      <4> QED BY <2>2, <4>1, <4>2
    <3> QED BY <2>1, <2>3, <3>2, SettledMeansNext
  <2>4. CASE x # d
    <3>1. draft'[x] = draft[x] /\ marker'[x] = marker[x]
      BY <1>1, <2>2, <2>4 DEF EditorTypes
    <3> QED BY <1>2, <1>3, <2>1, <2>4, <3>1, SettledKept
  <2> QED BY <2>3, <2>4
<1> QED BY <1>4, <1>5

LEMMA GoToSettled ==
  ASSUME TypeOK, EditorIsWhatItSaves, NEW d \in Desks, NEW k \in Pages, GoTo(d, k), cache' = cache
  PROVE  EditorIsWhatItSaves'
<1>1. CacheTypes /\ EditorTypes /\ PageTypes /\ d \in Viewers
  BY TypeGroups, DesksAreViewers
<1>2. page'[d] = k /\ editing' = editing \ {d} /\ \A x \in Viewers : x # d => page'[x] = page[x]
  BY <1>1 DEF GoTo, Close, PageTypes
<1> SUFFICES ASSUME NEW x \in Desks, Settled(x) PROVE Settled(x)'
  BY EditorIsSettled
<1>3. (x # d => (OnCamp(x)' <=> OnCamp(x))) /\ (OnCamp(d)' => k \in Ids /\ Has(d, k))
  BY <1>2, DesksAreViewers DEF OnCamp, Displays, Watches, Has
<1>4. CASE k \in Ids /\ Has(d, k)
  <2>1. Effects(d, k, cache[d][k], FALSE) /\ cache[d][k] \in Rows
    BY <1>1, <1>4, ListIsKey DEF GoTo, CacheTypes, IsData
  <2>2. CASE x = d
    BY <1>2, <1>4, <2>1, <2>2, EffectsSettle
  <2>3. CASE x # d
    BY <1>2, <1>3, <2>1, <2>3, EffectsElsewhere, SettledKept, DesksAreViewers
  <2> QED BY <2>2, <2>3
<1>5. CASE ~(k \in Ids /\ Has(d, k))
  <2>1. draft' = [draft EXCEPT ![d] = None] /\ marker' = [marker EXCEPT ![d] = None] /\ reread' = reread \ {d}
    BY <1>5 DEF GoTo
  <2>2. CASE x = d
    BY <1>3, <1>5, <2>2 DEF Settled
  <2>3. CASE x # d
    <3>1. draft'[x] = draft[x] /\ marker'[x] = marker[x]
      BY <1>1, <2>1, <2>3 DEF EditorTypes
    <3> QED BY <1>2, <1>3, <2>1, <2>3, <3>1, SettledKept, DesksAreViewers
  <2> QED BY <2>2, <2>3
<1> QED BY <1>4, <1>5

LEMMA NextSettled ==
  ASSUME TypeOK, EditorIsWhatItSaves, [Next]_vars
  PROVE  EditorIsWhatItSaves'
<1>1. CASE UNCHANGED <<editor, page, cache>>
  BY <1>1, OthersSettled DEF Has
<1>2. ASSUME NEW v \in Viewers, NEW k \in Keys, Refetch(v, k) \/ Read(v, k) \/ LoadFails(v, k) \/ Apply(v, k)
      PROVE  EditorIsWhatItSaves'
  BY <1>1, <1>2, ApplySettled DEF Refetch, Read, LoadFails
<1>3. ASSUME NEW e \in Ops, NEW a \in Attempts,
             Handle(e, a) \/ Publish(e, a) \/ StatementFails(e, a) \/ HandlerDies(e, a)
      PROVE  EditorIsWhatItSaves'
  BY <1>1, <1>3 DEF Handle, Publish, StatementFails, HandlerDies, views
<1>4. ASSUME NEW v \in Viewers, OnMessage(v) \/ StreamBreaks(v) \/ Reconnect(v)
      PROVE  EditorIsWhatItSaves'
  BY <1>1, <1>4 DEF OnMessage, StreamBreaks, Reconnect, views
<1>5. ASSUME NEW d \in Desks, NEW e \in Ops, NEW i \in Ids, UpdateStock(d, e, i)
      PROVE  EditorIsWhatItSaves'
  BY <1>5, StockSettled
<1>6. ASSUME NEW e \in Ops, StockRetried(e) \/ EditFails(e) \/ DeployFails(e)
      PROVE  EditorIsWhatItSaves'
  BY <1>1, <1>6 DEF StockRetried, EditFails, DeployFails, views
<1>7. ASSUME NEW d \in Desks, NEW e \in Ops,
             \/ StockFails(d, e) \/ StockUpdated(d, e)
             \/ ChangeField(d, e) \/ HandleSaveEdit(d, e) \/ Saved(d, e)
             \/ HandleDelete(d, e) \/ Deleted(d, e)
             \/ Deploy(d, e) \/ Deployed(d, e) \/ Land(d, e)
      PROVE  EditorIsWhatItSaves'
  <2>1. CASE StockFails(d, e)
    BY <2>1, StockSettled
  <2>2. CASE StockUpdated(d, e) \/ HandleSaveEdit(d, e) \/ HandleDelete(d, e) \/ Deploy(d, e) \/ Deployed(d, e)
    BY <1>1, <2>2 DEF StockUpdated, HandleSaveEdit, HandleDelete, Deploy, Deployed, views
  <2>3. CASE ChangeField(d, e)
    BY <2>3, EditSettled
  <2>4. CASE Saved(d, e)
    BY <1>1, <2>4, StopEditingSettled DEF Saved
  <2>5. CASE Deleted(d, e) \/ Land(d, e)
    <3>1. cache' = cache /\ (GoTo(d, "list") \/ UNCHANGED <<page, editing, dialog, confirm, draft, marker, base, reread>>)
      BY <2>5 DEF Deleted, Land
    <3> QED BY <1>1, <3>1, GoToSettled, ListIsKey DEF Pages, editor
  <2> QED BY <1>7, <2>1, <2>2, <2>3, <2>4, <2>5
<1>8. ASSUME NEW d \in Desks, NEW k \in Keys \union {"away"}, Navigate(d, k)
      PROVE  EditorIsWhatItSaves'
  BY <1>8, GoToSettled DEF Navigate, Pages
<1>9. ASSUME NEW d \in Desks, Edit(d) \/ CancelEdit(d) \/ OpenDialog(d) \/ TypeConfirm(d) \/ CloseDialog(d)
      PROVE  EditorIsWhatItSaves'
  <2>1. CASE Edit(d)
    BY <2>1, EditSettled
  <2>2. CASE CancelEdit(d)
    BY <2>2, StopEditingSettled DEF CancelEdit, views
  <2>3. CASE OpenDialog(d) \/ TypeConfirm(d) \/ CloseDialog(d)
    <3>1. UNCHANGED <<page, cache, editing, draft, marker, reread>>
      BY <2>3 DEF OpenDialog, TypeConfirm, CloseDialog, views
    <3>2. ASSUME NEW x \in Desks, Settled(x) PROVE Settled(x)'
      <4>1. OnCamp(x)' <=> OnCamp(x)
        BY <3>1 DEF OnCamp, Displays, Watches, Has
      <4> QED BY <3>1, <3>2, <4>1, SettledKept
    <3> QED BY <3>2, EditorIsSettled
  <2> QED BY <1>9, <2>1, <2>2, <2>3
<1>10. CASE UNCHANGED vars
  BY <1>1, <1>10 DEF vars, views
<1> QED BY <1>2, <1>3, <1>4, <1>5, <1>6, <1>7, <1>8, <1>9, <1>10, PlanOps DEF Next

FollowInv == TypeOK /\ AllFollow /\ EditorIsWhatItSaves

\* useAdminData.ts:40-61 and logistics.$id.tsx:61-105: with any number of desks, phones, camps
\* and operations, what the pages show is what the table holds, unless they are about to learn
\* better, never heard of the change, or their last request failed; a list that was cut short
\* has only rows that the table holds; and an editor shows what it would save.
THEOREM WhatIsShownFollows == Spec => []PagesFollow
<1>1. Init => FollowInv
  <2>1. Init => \A d \in Desks : ~OnCamp(d)
    BY ListIsKey, DesksAreViewers DEF Init, OnCamp, Displays, Has
  <2> QED BY <2>1, InitTypes, InitFollows DEF FollowInv, EditorIsWhatItSaves
<1>2. FollowInv /\ [Next]_vars => FollowInv'
  BY NextTypes, NextFollows, NextSettled DEF FollowInv
<1>3. FollowInv => PagesFollow
  BY AllFollowSuffices DEF FollowInv, PagesFollow
<1> QED BY <1>1, <1>2, <1>3, PTL DEF Spec

-----------------------------------------------------------------------------
(***************************************************************************)
(* A save overwrites what its user has not touched only if somebody has    *)
(* saved the camp since.  What a query, a request, an editor or a save     *)
(* knows of a camp agrees with the table as long as the camp's version is  *)
(* the one that they have seen; an id is not used for two camps.           *)
(***************************************************************************)

\* The camp has been created, whether or not it is still there.
Born(i) == i \in Given \/ \E x \in Posts : CampOf[x] = i /\ handler[x[1]][x[2]] \notin {"none", "asked"}

\* Version b of the camp, with what is known of some of its fields.
Agrees(i, b, fields, what) ==
    rows[i] # None => /\ b <= rows[i].version
                      /\ b = rows[i].version => \A f \in fields : what[f] = rows[i][f]

Knows(i, row) == Born(i) /\ Agrees(i, row.version, Fields, row)

RowsBorn == \A i \in Ids : rows[i] # None => Born(i)

DataSeen ==
    \A v \in Viewers, i \in Ids : /\ cache[v][i] # None => Knows(i, cache[v][i])
                                  /\ reply[v][i] # None => Knows(i, reply[v][i])

EditsSeen == \A d \in editing : Agrees(page[d], base[d], Fields \ draft[d].typed, draft[d])

SavesSeen ==
    \A e \in Ops : KindOf[e] = "save" /\ handler[e][1] = "asked" =>
        Born(sent[e].camp) /\ Agrees(sent[e].camp, sent[e].base, Fields \ sent[e].typed, sent[e])

SeenInv == RowsBorn /\ DataSeen /\ EditsSeen /\ SavesSeen

\* Handlers only go forward.
LEMMA BornStays ==
  ASSUME \A x \in Ops, a \in Attempts : handler[x][a] \notin {"none", "asked"} => handler'[x][a] \notin {"none", "asked"},
         NEW i, Born(i)
  PROVE  Born(i)'
<1>1. \A x \in Posts : x[1] \in Ops /\ x[2] \in Attempts
  BY DEF Posts
<1> QED BY <1>1 DEF Born

\* Every step but a handler's leaves the table, and no step takes a handler back.
LEMMA HandlersAdvance ==
  ASSUME TypeOK, [Next]_vars
  PROVE  \A x \in Ops, a \in Attempts :
           handler[x][a] \notin {"none", "asked"} => handler'[x][a] \notin {"none", "asked"}
<1>1. CoreTypes
  BY TypeGroups
<1>2. \/ handler' = handler
      \/ \E e \in Ops, a \in Attempts : /\ handler[e][a] = "none" \/ handler'[e][a] \notin {"none", "asked"}
                                        /\ \A x \in Ops, b \in Attempts : x # e \/ b # a => handler'[x][b] = handler[x][b]
  <2> DEFINE Moves(e, a) == /\ handler[e][a] = "none" \/ handler'[e][a] \notin {"none", "asked"}
                            /\ \A x \in Ops, b \in Attempts : x # e \/ b # a => handler'[x][b] = handler[x][b]
             Goal == handler' = handler \/ \E e \in Ops, a \in Attempts : Moves(e, a)
  <2>1. ASSUME NEW e \in Ops, NEW a \in Attempts, NEW what, Begin(e, a, what),
               (op[e] = "idle" /\ a = 1) \/ (attempt[e] = 1 /\ a = 2)
        PROVE  Goal
    <3>1. Moves(e, a)
      BY <1>1, <2>1 DEF Begin, CoreTypes
    <3> QED BY <3>1
  <2>2. ASSUME NEW e \in Ops, NEW a \in Attempts,
               Handle(e, a) \/ Publish(e, a) \/ StatementFails(e, a) \/ HandlerDies(e, a)
        PROVE  Goal
    <3>1. \E h \in {"applied", "done", "failed"} : handler' = [handler EXCEPT ![e][a] = h]
      BY <2>2 DEF Handle, Publish, StatementFails, HandlerDies
    <3>2. Moves(e, a)
      BY <1>1, <3>1 DEF CoreTypes
    <3> QED BY <3>2
  <2>3. ASSUME NEW e \in Ops, NEW how, End(e, how) PROVE Goal
    BY <2>3 DEF End, server
  <2>4. ASSUME handler' = handler PROVE Goal
    BY <2>4
  <2> HIDE DEF Goal
  <2>5. ASSUME UNCHANGED vars PROVE Goal
    BY <2>4, <2>5 DEF vars, server
  <2>6. ASSUME NEW v \in Viewers, NEW k \in Keys, Refetch(v, k) \/ Read(v, k) \/ LoadFails(v, k) \/ Apply(v, k)
        PROVE  Goal
    BY <2>4, <2>6 DEF Refetch, Read, LoadFails, Apply, server
  <2>7. ASSUME NEW v \in Viewers, OnMessage(v) \/ StreamBreaks(v) \/ Reconnect(v) PROVE Goal
    BY <2>4, <2>7 DEF OnMessage, StreamBreaks, Reconnect, server
  <2>8. ASSUME NEW d \in Desks, NEW e \in Ops, NEW i \in Ids, UpdateStock(d, e, i) PROVE Goal
    <3>1. Begin(e, 1, [camp |-> i]) /\ op[e] = "idle" /\ 1 \in Attempts
      BY <2>8 DEF UpdateStock, MaySelect, May, Attempts
    <3> QED BY <2>1, <3>1
  <2>9. ASSUME NEW e \in Ops, StockRetried(e) \/ EditFails(e) \/ DeployFails(e) PROVE Goal
    <3>1. (attempt[e] = 1 /\ Begin(e, 2, sent[e]) /\ 2 \in Attempts) \/ End(e, "failed")
      BY <2>9 DEF StockRetried, EditFails, DeployFails, Attempts
    <3> QED BY <2>1, <2>3, <3>1
  <2>10. ASSUME NEW d \in Desks, NEW e \in Ops,
                \/ StockFails(d, e) \/ StockUpdated(d, e)
                \/ ChangeField(d, e) \/ HandleSaveEdit(d, e) \/ Saved(d, e)
                \/ HandleDelete(d, e) \/ Deleted(d, e)
                \/ Deploy(d, e) \/ Deployed(d, e) \/ Land(d, e)
         PROVE  Goal
    <3>1. CASE HandleSaveEdit(d, e) \/ HandleDelete(d, e) \/ Deploy(d, e)
      <4>1. \E what : (Begin(e, 1, what) /\ op[e] = "idle") \/ (Begin(e, 2, what) /\ attempt[e] = 1)
        BY <3>1 DEF HandleSaveEdit, HandleDelete, Deploy, May
      <4> QED BY <2>1, <4>1 DEF Attempts
    <3>2. CASE \/ StockFails(d, e) \/ StockUpdated(d, e) \/ Saved(d, e) \/ Deleted(d, e)
               \/ Deployed(d, e) \/ Land(d, e)
      BY <2>3, <3>2 DEF StockFails, StockUpdated, Saved, Deleted, Deployed, Land
    <3>3. CASE ChangeField(d, e)
      BY <2>4, <3>3 DEF ChangeField, server
    <3> QED BY <2>10, <3>1, <3>2, <3>3
  <2>11. ASSUME NEW d \in Desks, NEW k \in Keys \union {"away"}, Navigate(d, k) PROVE Goal
    BY <2>4, <2>11 DEF Navigate, server
  <2>12. ASSUME NEW d \in Desks, Edit(d) \/ CancelEdit(d) \/ OpenDialog(d) \/ TypeConfirm(d) \/ CloseDialog(d)
         PROVE  Goal
    BY <2>4, <2>12 DEF Edit, CancelEdit, OpenDialog, TypeConfirm, CloseDialog, server
  <2>13. Goal
    BY <2>2, <2>5, <2>6, <2>7, <2>8, <2>9, <2>10, <2>11, <2>12, PlanOps DEF Next
  <2> QED BY <2>13 DEF Goal
<1> QED BY <1>2

-----------------------------------------------------------------------------
(***************************************************************************)
(* Where knowledge of a camp comes from, in a step.                        *)
(***************************************************************************)

RowsMove == rows' = rows \/ \E e \in Ops, a \in Attempts : Handle(e, a)

DataMove ==
    \A v \in Viewers, i \in Ids :
        /\ cache'[v][i] \in {cache[v][i], reply[v][i]}
        /\ reply'[v][i] \in {reply[v][i], rows[i], None}

EditsMove ==
    \A d \in Desks : d \in editing' =>
        \/ d \in editing /\ page'[d] = page[d] /\ base'[d] = base[d] /\ draft'[d] = draft[d]
        \/ Edit(d)
        \/ \E e \in Ops : ChangeField(d, e)

SavesMove ==
    \A e \in Ops : KindOf[e] = "save" /\ handler'[e][1] = "asked" =>
        \/ handler[e][1] = "asked" /\ sent'[e] = sent[e]
        \/ \E d \in Desks : HandleSaveEdit(d, e)

Moves == RowsMove /\ DataMove /\ EditsMove /\ SavesMove

LEMMA AskData ==
  ASSUME FetchTypes, NEW v \in Viewers, NEW k \in Keys, Ask(v, k)
  PROVE  \A w \in Viewers, i \in Ids : reply'[w][i] \in {reply[w][i], None}
<1>1. Puts(reply, reply', v, k, None)
  BY PutAt DEF Ask, FetchTypes
<1> QED BY <1>1, ListIsKey DEF Puts

LEMMA RepliesDrop ==
  ASSUME FetchTypes, NEW v \in Viewers, NEW k,
         (k \in Keys /\ Invalidate(v, k)) \/ Mount(v, k) \/ reply' = reply, cache' = cache
  PROVE  DataMove
<1>1. (k \in Keys /\ Ask(v, k)) \/ reply' = reply
  BY DEF Invalidate, Mount
<1>2. \A w \in Viewers, i \in Ids : reply'[w][i] \in {reply[w][i], None}
  BY <1>1, AskData
<1> QED BY <1>2 DEF DataMove

LEMMA DataStays == UNCHANGED <<cache, reply>> => DataMove
  BY DEF DataMove

LEMMA EditsStay == UNCHANGED <<editing, page, base, draft>> => EditsMove
  BY DEF EditsMove

LEMMA SavesStay == UNCHANGED <<handler, sent>> => SavesMove
  BY DEF SavesMove

LEMMA EndSaves ==
  ASSUME NEW e, NEW how, End(e, how)
  PROVE  SavesMove /\ RowsMove
BY DEF End, server, SavesMove, RowsMove

LEMMA BeginSaves ==
  ASSUME CoreTypes, NEW e \in Ops, NEW a \in Attempts, NEW what, Begin(e, a, what), rows' = rows,
         KindOf[e] # "save" \/ \E d \in Desks : HandleSaveEdit(d, e)
  PROVE  SavesMove /\ RowsMove
<1>1. handler' = [handler EXCEPT ![e][a] = "asked"] /\ sent' = [sent EXCEPT ![e] = what]
  BY DEF Begin
<1>2. \A x \in Ops : x # e => handler'[x] = handler[x] /\ sent'[x] = sent[x]
  BY <1>1 DEF CoreTypes
<1> QED BY <1>2 DEF SavesMove, RowsMove

LEMMA QueryMoves ==
  ASSUME TypeOK, NEW v \in Viewers, NEW k \in Keys, Refetch(v, k) \/ Read(v, k) \/ LoadFails(v, k) \/ Apply(v, k)
  PROVE  Moves
<1>1. CoreTypes /\ CacheTypes /\ FetchTypes /\ EditorTypes
  BY TypeGroups
<1>2. UNCHANGED <<rows, handler, sent, page, editing, base>>
  BY DEF Refetch, Read, LoadFails, Apply, server, ops, editor
<1>3. DataMove
  <2>1. CASE Refetch(v, k)
    BY <1>1, <2>1, RepliesDrop, AskData, DataStays DEF Refetch, DataMove
  <2>2. CASE Read(v, k)
    <3>1. PICK x : reply' = [reply EXCEPT ![v][k] = x] /\ Answers(k, x)
      BY <2>2, ReadAnswers
    <3>2. Puts(reply, reply', v, k, x) /\ cache' = cache
      BY <1>1, <2>2, <3>1, PutAt DEF Read, FetchTypes
    <3>3. k # "list" => x = rows[k]
      BY <3>1 DEF Answers, Truth
    <3> QED BY <3>2, <3>3, ListIsKey DEF DataMove, Puts
  <2>3. CASE LoadFails(v, k)
    <3>1. Puts(reply, reply', v, k, None) /\ cache' = cache
      BY <1>1, <2>3, PutAt DEF LoadFails, FetchTypes
    <3> QED BY <3>1, ListIsKey DEF DataMove, Puts
  <2>4. CASE Apply(v, k)
    <3>1. Puts(reply, reply', v, k, None)
      BY <1>1, <2>4, PutAt DEF Apply, FetchTypes
    <3>2. Puts(cache, cache', v, k, reply[v][k])
      <4>1. Puts(cache, [cache EXCEPT ![v][k] = reply[v][k]], v, k, reply[v][k])
        BY <1>1, PutAt DEF CacheTypes
      <4> QED BY <2>4, <4>1 DEF Apply
    <3> QED BY <3>1, <3>2, ListIsKey DEF DataMove, Puts
  <2> QED BY <2>1, <2>2, <2>3, <2>4
<1>4. ASSUME NEW d \in Desks, d \in editing PROVE draft'[d] = draft[d]
  <2>1. CASE draft' = draft
    BY <2>1
  <2>2. CASE draft' # draft
    <3>1. Effects(v, k, reply[v][k], v \in editing)
      BY <2>2 DEF Refetch, Read, LoadFails, Apply, editor
    <3>2. v \notin editing /\ draft' = [draft EXCEPT ![v] = Entered(reply[v][k])]
      BY <2>2, <3>1 DEF Effects
    <3> QED BY <1>1, <1>4, <3>2 DEF EditorTypes
  <2> QED BY <2>1, <2>2
<1>5. EditsMove
  BY <1>2, <1>4 DEF EditsMove
<1> QED BY <1>2, <1>3, <1>5, SavesStay DEF Moves, RowsMove

LEMMA BackendMoves ==
  ASSUME TypeOK, NEW e \in Ops, NEW a \in Attempts,
         Handle(e, a) \/ Publish(e, a) \/ StatementFails(e, a) \/ HandlerDies(e, a)
  PROVE  Moves
<1>1. CoreTypes
  BY TypeGroups
<1>2. UNCHANGED <<sent, cache, reply, page, editing, base, draft>>
  BY DEF Handle, Publish, StatementFails, HandlerDies, ops, views, editor
<1>3. \E h \in {"applied", "done", "failed"} : handler' = [handler EXCEPT ![e][a] = h]
  BY DEF Handle, Publish, StatementFails, HandlerDies
<1>4. SavesMove
  BY <1>1, <1>2, <1>3 DEF SavesMove, CoreTypes
<1>5. RowsMove
  BY DEF Publish, StatementFails, HandlerDies, RowsMove
<1> QED BY <1>2, <1>4, <1>5, DataStays, EditsStay DEF Moves

LEMMA StreamMoves ==
  ASSUME TypeOK, NEW v \in Viewers, OnMessage(v) \/ StreamBreaks(v) \/ Reconnect(v)
  PROVE  Moves
<1>1. FetchTypes /\ UNCHANGED <<rows, handler, sent, cache, page, editing, base, draft>>
  BY TypeGroups DEF OnMessage, StreamBreaks, Reconnect, server, ops, views, editor
<1>2. Invalidate(v, "list") \/ reply' = reply
  BY DEF OnMessage, StreamBreaks, Reconnect, views
<1>3. DataMove
  BY <1>1, <1>2, RepliesDrop, ListIsKey
<1> QED BY <1>1, <1>3, EditsStay, SavesStay DEF Moves, RowsMove

\* The list of a desk holds no camp's own data.
LEMMA ListMoves ==
  ASSUME CacheTypes, FetchTypes, NEW d \in Desks, NEW l, cache' = [cache EXCEPT ![d]["list"] = l],
         \A w \in Viewers, i \in Ids : reply'[w][i] \in {reply[w][i], None}
  PROVE  DataMove
<1>1. d \in Viewers /\ "list" \in Keys
  BY DesksAreViewers, ListIsKey
<1>2. Puts(cache, cache', d, "list", l)
  BY <1>1, PutAt DEF CacheTypes
<1> QED BY <1>2, ListIsKey DEF DataMove, Puts

LEMMA StockMoves ==
  ASSUME TypeOK, NEW d \in Desks, NEW e \in Ops,
         (\E i \in Ids : UpdateStock(d, e, i)) \/ StockRetried(e) \/ StockFails(d, e) \/ StockUpdated(d, e)
  PROVE  Moves
<1>1. CoreTypes /\ CacheTypes /\ FetchTypes /\ d \in Viewers /\ "list" \in Keys
  BY TypeGroups, DesksAreViewers, ListIsKey
<1>2. KindOf[e] = "stock" /\ UNCHANGED <<rows, page, editing, base, draft>>
  BY DEF UpdateStock, MaySelect, May, StockRetried, StockFails, StockUpdated, End, server, views, editor
<1>3. SavesMove /\ RowsMove
  <2>1. \/ \E a \in Attempts : \E what : Begin(e, a, what)
        \/ \E how : End(e, how)
    <3>1. ASSUME NEW i \in Ids, UpdateStock(d, e, i) PROVE Begin(e, 1, [camp |-> i])
      BY <3>1 DEF UpdateStock
    <3>2. StockRetried(e) => Begin(e, 2, sent[e])
      BY DEF StockRetried
    <3>3. StockFails(d, e) => End(e, "failed")
      BY DEF StockFails
    <3>4. StockUpdated(d, e) => End(e, "ok")
      BY DEF StockUpdated
    <3>5. 1 \in Attempts /\ 2 \in Attempts
      BY DEF Attempts
    <3>6. CASE \E i \in Ids : UpdateStock(d, e, i)
      <4>1. \E what : Begin(e, 1, what)
        BY <3>1, <3>6
      <4> QED BY <3>5, <4>1
    <3>7. CASE StockRetried(e)
      BY <3>2, <3>5, <3>7
    <3>8. CASE StockFails(d, e) \/ StockUpdated(d, e)
      BY <3>3, <3>4, <3>8
    <3> QED BY <3>6, <3>7, <3>8
  <2> QED BY <1>1, <1>2, <2>1, BeginSaves, EndSaves
<1>4. DataMove
  <2>1. ASSUME NEW i \in Ids, UpdateStock(d, e, i) PROVE DataMove
    <3>1. Puts(reply, reply', d, "list", None)
      BY <1>1, <2>1, PutAt DEF UpdateStock, FetchTypes
    <3>2. \A w \in Viewers, j \in Ids : reply'[w][j] \in {reply[w][j], None}
      BY <3>1, ListIsKey DEF Puts
    <3>3. \E l : cache' = [cache EXCEPT ![d]["list"] = l]
      BY <2>1 DEF UpdateStock
    <3> QED BY <1>1, <3>2, <3>3, ListMoves
  <2>2. CASE StockFails(d, e)
    <3>1. cache' = [cache EXCEPT ![d]["list"] = previous[e]]
      BY <2>2 DEF StockFails
    <3>2. Ask(d, "list") \/ reply' = reply
      BY <2>2 DEF StockFails, Invalidate
    <3>3. \A w \in Viewers, i \in Ids : reply'[w][i] \in {reply[w][i], None}
      BY <1>1, <3>2, AskData
    <3> QED BY <1>1, <3>1, <3>3, ListMoves
  <2>3. CASE StockRetried(e) \/ StockUpdated(d, e)
    BY <1>1, <2>3, RepliesDrop DEF StockRetried, StockUpdated, views
  <2> QED BY <2>1, <2>2, <2>3
<1> QED BY <1>2, <1>3, <1>4, EditsStay DEF Moves

LEMMA BeginningMoves ==
  ASSUME TypeOK, NEW d \in Desks, NEW e \in Ops, HandleSaveEdit(d, e) \/ HandleDelete(d, e) \/ Deploy(d, e)
  PROVE  Moves
<1>1. CoreTypes
  BY TypeGroups
<1>2. UNCHANGED <<rows, cache, reply, page, editing, base, draft>>
  BY DEF HandleSaveEdit, HandleDelete, Deploy, views, editor
<1>3. \E a \in Attempts : \E what : Begin(e, a, what)
  <2>1. 1 \in Attempts /\ 2 \in Attempts
    BY DEF Attempts
  <2>2. \E what : Begin(e, 1, what) \/ Begin(e, 2, what)
    BY DEF HandleSaveEdit, HandleDelete, Deploy
  <2> QED BY <2>1, <2>2
<1>4. KindOf[e] # "save" \/ \E x \in Desks : HandleSaveEdit(x, e)
  BY DEF HandleDelete, Deploy, MayDeploy, May
<1>5. SavesMove /\ RowsMove
  BY <1>1, <1>2, <1>3, <1>4, BeginSaves
<1> QED BY <1>2, <1>5, DataStays, EditsStay DEF Moves

LEMMA EndingMoves ==
  ASSUME TypeOK, NEW d \in Desks, NEW e \in Ops, EditFails(e) \/ DeployFails(e) \/ Deployed(d, e) \/ Saved(d, e)
  PROVE  Moves
<1>1. CoreTypes /\ FetchTypes /\ EditorTypes
  BY TypeGroups
<1>2. UNCHANGED <<cache, page>> /\ \E how : End(e, how)
  BY DEF EditFails, DeployFails, Deployed, Saved, views
<1>3. SavesMove /\ RowsMove
  BY <1>2, EndSaves
<1>4. DataMove
  <2>1. CASE reply' = reply
    BY <1>2, <2>1, DataStays
  <2>2. CASE Deployed(d, e)
    BY <1>1, <1>2, <2>2, RepliesDrop, DesksAreViewers, ListIsKey DEF Deployed
  <2>3. CASE Saved(d, e)
    <3>1. sent[e].camp \in Keys /\ Invalidate(d, sent[e].camp)
      BY <1>1, <2>3, ListIsKey DEF Saved, Answered, CoreTypes, Asks
    <3> QED BY <1>1, <1>2, <3>1, RepliesDrop, DesksAreViewers
  <2> QED BY <2>1, <2>2, <2>3 DEF EditFails, DeployFails, views
<1>5. EditsMove
  <2>1. CASE UNCHANGED editor
    BY <1>2, <2>1, EditsStay DEF editor
  <2>2. CASE StopEditing(d)
    <3>1. editing' = editing \ {d} /\ base' = [base EXCEPT ![d] = 0]
          /\ (draft' = draft \/ draft' = [draft EXCEPT ![d] = Entered(cache[d][page[d]])])
      BY <2>2 DEF StopEditing, Effects
    <3>2. \A x \in Desks : x # d => base'[x] = base[x] /\ draft'[x] = draft[x]
      BY <1>1, <3>1 DEF EditorTypes
    <3> QED BY <1>2, <3>1, <3>2 DEF EditsMove
  <2> QED BY <2>1, <2>2 DEF EditFails, DeployFails, Deployed, Saved
<1> QED BY <1>3, <1>4, <1>5 DEF Moves

LEMMA LeavingMoves ==
  ASSUME TypeOK, NEW d \in Desks,
         \/ \E k \in Keys \union {"away"} : Navigate(d, k)
         \/ \E e \in Ops : Deleted(d, e) \/ Land(d, e)
  PROVE  Moves
<1>1. CoreTypes /\ PageTypes /\ FetchTypes /\ EditorTypes /\ d \in Viewers
  BY TypeGroups, DesksAreViewers
<1>2. cache' = cache /\ (UNCHANGED <<rows, handler, sent>> \/ \E e \in Ops : End(e, "ok"))
  BY DEF Navigate, Deleted, Land, server
<1>3. SavesMove /\ RowsMove
  BY <1>2, EndSaves, SavesStay DEF RowsMove
<1>4. \/ \E p \in Pages : GoTo(d, p)
      \/ UNCHANGED <<page, reply, editing, base, draft>>
  BY ListIsKey DEF Navigate, Deleted, Land, Pages
<1>5. CASE UNCHANGED <<page, reply, editing, base, draft>>
  BY <1>2, <1>3, <1>5, DataStays, EditsStay DEF Moves
<1>6. ASSUME NEW p \in Pages, GoTo(d, p) PROVE Moves
  <2>1. DataMove
    BY <1>1, <1>2, <1>6, RepliesDrop DEF GoTo
  <2>2. page' = [page EXCEPT ![d] = p] /\ editing' = editing \ {d} /\ base' = [base EXCEPT ![d] = 0]
    BY <1>6 DEF GoTo, Close
  <2>3. draft' = [draft EXCEPT ![d] = Entered(cache[d][p])] \/ draft' = [draft EXCEPT ![d] = None]
    BY <1>6 DEF GoTo, Effects
  <2>4. \A x \in Desks : x # d => page'[x] = page[x] /\ base'[x] = base[x] /\ draft'[x] = draft[x]
    BY <1>1, <2>2, <2>3, DesksAreViewers DEF EditorTypes, PageTypes
  <2>5. EditsMove
    BY <2>2, <2>4 DEF EditsMove
  <2> QED BY <1>3, <2>1, <2>5 DEF Moves
<1> QED BY <1>4, <1>5, <1>6

LEMMA EditorStepMoves ==
  ASSUME TypeOK, NEW d \in Desks,
         \/ Edit(d) \/ (\E e \in Ops : ChangeField(d, e)) \/ CancelEdit(d)
         \/ OpenDialog(d) \/ TypeConfirm(d) \/ CloseDialog(d)
  PROVE  Moves
<1>1. EditorTypes
  BY TypeGroups
<1>2. UNCHANGED <<rows, handler, sent, cache, reply, page>>
  BY DEF Edit, ChangeField, CancelEdit, OpenDialog, TypeConfirm, CloseDialog, server, ops, views
<1>3. EditsMove
  <2>1. \A x \in Desks : x # d => base'[x] = base[x] /\ draft'[x] = draft[x] /\ (x \in editing' => x \in editing)
    <3>1. CASE Edit(d)
      BY <1>1, <3>1 DEF Edit, EditorTypes
    <3>2. CASE \E e \in Ops : ChangeField(d, e)
      BY <1>1, <3>2 DEF ChangeField, EditorTypes
    <3>3. CASE CancelEdit(d)
      BY <1>1, <3>3 DEF CancelEdit, StopEditing, Effects, EditorTypes
    <3>4. CASE OpenDialog(d) \/ TypeConfirm(d) \/ CloseDialog(d)
      BY <3>4 DEF OpenDialog, TypeConfirm, CloseDialog
    <3> QED BY <3>1, <3>2, <3>3, <3>4
  <2>2. d \in editing' => \/ d \in editing /\ base'[d] = base[d] /\ draft'[d] = draft[d]
                          \/ Edit(d) \/ \E e \in Ops : ChangeField(d, e)
    BY DEF CancelEdit, StopEditing, OpenDialog, TypeConfirm, CloseDialog
  <2>3. ASSUME NEW x \in Desks, x \in editing'
        PROVE  \/ x \in editing /\ page'[x] = page[x] /\ base'[x] = base[x] /\ draft'[x] = draft[x]
               \/ Edit(x)
               \/ \E e \in Ops : ChangeField(x, e)
    <3>1. CASE x = d
      BY <1>2, <2>2, <2>3, <3>1
    <3>2. CASE x # d
      BY <1>2, <2>1, <2>3, <3>2
    <3> QED BY <3>1, <3>2
  <2> QED BY <2>3 DEF EditsMove
<1> QED BY <1>2, <1>3, DataStays, SavesStay DEF Moves, RowsMove

LEMMA NextMoves ==
  ASSUME TypeOK, [Next]_vars
  PROVE  Moves
<1>1. CASE UNCHANGED vars
  BY <1>1, DataStays, EditsStay, SavesStay DEF vars, server, ops, views, editor, Moves, RowsMove
<1>2. ASSUME NEW v \in Viewers, NEW k \in Keys, Refetch(v, k) \/ Read(v, k) \/ LoadFails(v, k) \/ Apply(v, k)
      PROVE  Moves
  BY <1>2, QueryMoves
<1>3. ASSUME NEW e \in Ops, NEW a \in Attempts,
             Handle(e, a) \/ Publish(e, a) \/ StatementFails(e, a) \/ HandlerDies(e, a)
      PROVE  Moves
  BY <1>3, BackendMoves
<1>4. ASSUME NEW v \in Viewers, OnMessage(v) \/ StreamBreaks(v) \/ Reconnect(v)
      PROVE  Moves
  BY <1>4, StreamMoves
<1>5. ASSUME NEW d \in Desks, NEW e \in Ops, NEW i \in Ids, UpdateStock(d, e, i)
      PROVE  Moves
  BY <1>5, StockMoves
<1>6. ASSUME NEW e \in Ops, StockRetried(e) \/ EditFails(e) \/ DeployFails(e)
      PROVE  Moves
  BY <1>6, DesksAreViewers, StockMoves, EndingMoves
<1>7. ASSUME NEW d \in Desks, NEW e \in Ops,
             \/ StockFails(d, e) \/ StockUpdated(d, e)
             \/ ChangeField(d, e) \/ HandleSaveEdit(d, e) \/ Saved(d, e)
             \/ HandleDelete(d, e) \/ Deleted(d, e)
             \/ Deploy(d, e) \/ Deployed(d, e) \/ Land(d, e)
      PROVE  Moves
  <2>1. CASE StockFails(d, e) \/ StockUpdated(d, e)
    BY <2>1, StockMoves
  <2>2. CASE HandleSaveEdit(d, e) \/ HandleDelete(d, e) \/ Deploy(d, e)
    BY <2>2, BeginningMoves
  <2>3. CASE ChangeField(d, e)
    BY <2>3, EditorStepMoves
  <2>4. CASE Deleted(d, e) \/ Land(d, e)
    BY <2>4, LeavingMoves
  <2>5. CASE Saved(d, e) \/ Deployed(d, e)
    BY <2>5, EndingMoves
  <2> QED BY <1>7, <2>1, <2>2, <2>3, <2>4, <2>5
<1>8. ASSUME NEW d \in Desks, NEW k \in Keys \union {"away"}, Navigate(d, k)
      PROVE  Moves
  BY <1>8, LeavingMoves
<1>9. ASSUME NEW d \in Desks, Edit(d) \/ CancelEdit(d) \/ OpenDialog(d) \/ TypeConfirm(d) \/ CloseDialog(d)
      PROVE  Moves
  BY <1>9, EditorStepMoves
<1> QED BY <1>1, <1>2, <1>3, <1>4, <1>5, <1>6, <1>7, <1>8, <1>9, PlanOps DEF Next

-----------------------------------------------------------------------------

\* A statement takes a version, a camp, or a stock; or it makes a camp that there has not been.
LEMMA HandleRows ==
  ASSUME TypeOK, NEW e \in Ops, NEW a \in Attempts, Handle(e, a), NEW i \in Ids
  PROVE  \/ rows'[i] = rows[i]
         \/ rows'[i] = None
         \/ KindOf[e] = "create" /\ CampOf[<<e, a>>] = i
         \/ /\ rows[i] \in Rows
            /\ \/ /\ rows'[i].version = rows[i].version
                  /\ rows'[i].entry = rows[i].entry /\ rows'[i].place = rows[i].place
               \/ rows'[i].version = rows[i].version + 1
<1>1. CoreTypes /\ Statement(e, a)
  BY TypeGroups DEF Handle
<1>2. CASE KindOf[e] = "create"
  <2>1. <<e, a>> \in Posts
    BY <1>2 DEF Posts
  <2>2. CampOf[<<e, a>>] \in Ids
    BY <2>1, CampsAssumption
  <2>3. rows' = [rows EXCEPT ![CampOf[<<e, a>>]] =
                  [entry |-> e, place |-> e, stock |-> "given", version |-> 0]]
    BY <1>1, <1>2 DEF Statement
  <2> QED BY <1>1, <1>2, <2>2, <2>3 DEF CoreTypes
<1>3. CASE KindOf[e] # "create" /\ rows[sent[e].camp] = None
  <2>1. rows' = rows
    BY <1>1, <1>3, CampsAssumption DEF Statement, Kinds
  <2> QED BY <2>1
<1>4. CASE KindOf[e] # "create" /\ rows[sent[e].camp] # None
  <2>1. handler[e][a] # "none" /\ sent[e] \in Asks(e)
    BY <1>1 DEF Handle, CoreTypes, Attempts
  <2>2. sent[e].camp \in Ids /\ rows[sent[e].camp] \in Rows
    BY <1>1, <1>4, <2>1, CampsAssumption DEF Asks, CoreTypes, Kinds
  <2>3. \E x : rows' = [rows EXCEPT ![sent[e].camp] = x]
    BY <1>1, <1>4, CampsAssumption DEF Statement, Kinds
  <2>4. CASE i # sent[e].camp
    BY <1>1, <2>2, <2>3, <2>4 DEF CoreTypes
  <2>5. CASE i = sent[e].camp /\ KindOf[e] = "stock"
    <3>1. rows' = [rows EXCEPT ![i].stock = e]
      BY <1>1, <1>4, <2>5 DEF Statement
    <3>2. rows'[i] = [rows[i] EXCEPT !.stock = e]
      BY <1>1, <3>1 DEF CoreTypes
    <3> QED BY <2>2, <2>5, <3>2 DEF Rows
  <2>6. CASE i = sent[e].camp /\ KindOf[e] = "delete"
    <3>1. rows' = [rows EXCEPT ![i] = None]
      BY <1>1, <1>4, <2>6 DEF Statement
    <3> QED BY <1>1, <3>1 DEF CoreTypes
  <2>7. CASE i = sent[e].camp /\ KindOf[e] = "save"
    <3> DEFINE r == [entry |-> sent[e].entry, place |-> sent[e].place, stock |-> rows[i].stock,
                     version |-> rows[i].version + 1]
    <3>1. rows' = [rows EXCEPT ![i] = r]
      BY <1>1, <1>4, <2>7 DEF Statement
    <3>2. rows'[i] = r
      BY <1>1, <3>1 DEF CoreTypes
    <3> QED BY <2>2, <2>7, <3>2
  <2> QED BY <1>4, <2>4, <2>5, <2>6, <2>7, CampsAssumption DEF Kinds
<1> QED BY <1>2, <1>3, <1>4

\* An id that a POST is about to make has not been used.
LEMMA NewIsNotBorn ==
  ASSUME NEW e \in Ops, NEW a \in Attempts, KindOf[e] = "create", handler[e][a] \in {"none", "asked"}
  PROVE  ~Born(CampOf[<<e, a>>])
<1>1. <<e, a>> \in Posts
  BY DEF Posts
<1>2. CampOf[<<e, a>>] \notin Given
  BY <1>1, CampsAssumption
<1>3. \A x \in Posts : CampOf[x] = CampOf[<<e, a>>] => x = <<e, a>>
  BY <1>1, CampsAssumption
<1> QED BY <1>2, <1>3 DEF Born

\* What is known of a camp stays true of it.
LEMMA AgreesKept ==
  ASSUME TypeOK, [Next]_vars, NEW i \in Ids, NEW b \in Nat, NEW fields \in SUBSET Fields, NEW what,
         Born(i), Agrees(i, b, fields, what)
  PROVE  Born(i)' /\ Agrees(i, b, fields, what)'
<1>1. Born(i)'
  BY HandlersAdvance, BornStays
<1>2. Agrees(i, b, fields, what)'
  <2>1. CASE rows' = rows
    BY <2>1 DEF Agrees
  <2>2. ASSUME NEW e \in Ops, NEW a \in Attempts, Handle(e, a) PROVE Agrees(i, b, fields, what)'
    <3>1. ~(KindOf[e] = "create" /\ CampOf[<<e, a>>] = i)
      BY <2>2, NewIsNotBorn DEF Handle
    <3>2. CASE rows'[i] = rows[i] \/ rows'[i] = None
      BY <3>2 DEF Agrees
    <3>3. CASE /\ rows[i] \in Rows /\ rows'[i].version = rows[i].version
               /\ rows'[i].entry = rows[i].entry /\ rows'[i].place = rows[i].place
      <4>1. rows[i] # None /\ \A f \in fields : rows'[i][f] = rows[i][f]
        BY <3>3, NoneAssumption DEF Fields
      <4> QED BY <3>3, <4>1 DEF Agrees
    <3>4. CASE rows[i] \in Rows /\ rows'[i].version = rows[i].version + 1
      <4>1. rows[i] # None /\ rows[i].version \in Nat
        BY <3>4, NoneAssumption DEF Rows
      <4>2. b <= rows[i].version
        BY <4>1 DEF Agrees
      <4> QED BY <3>4, <4>1, <4>2 DEF Agrees
    <3> QED BY <2>2, <3>1, <3>2, <3>3, <3>4, HandleRows
  <2> QED BY <2>1, <2>2, NextMoves DEF Moves, RowsMove
<1> QED BY <1>1, <1>2

LEMMA RowsStayBorn ==
  ASSUME TypeOK, RowsBorn, [Next]_vars
  PROVE  RowsBorn'
<1> SUFFICES ASSUME NEW i \in Ids, rows'[i] # None PROVE Born(i)'
  BY DEF RowsBorn
<1>1. CASE rows[i] # None
  BY <1>1, HandlersAdvance, BornStays DEF RowsBorn
<1>2. CASE rows[i] = None
  <2>1. rows' # rows
    BY <1>2
  <2>2. PICK e \in Ops, a \in Attempts : Handle(e, a)
    BY <2>1, NextMoves DEF Moves, RowsMove
  <2>3. KindOf[e] = "create" /\ CampOf[<<e, a>>] = i
    BY <1>2, <2>2, HandleRows, NoneAssumption
  <2>4. handler'[e][a] \in {"applied", "done"}
    <3>1. CoreTypes
      BY TypeGroups
    <3> QED BY <2>2, <3>1 DEF Handle, CoreTypes
  <2>5. <<e, a>> \in Posts
    BY <2>3 DEF Posts
  <2> QED BY <2>3, <2>4, <2>5 DEF Born
<1> QED BY <1>1, <1>2

LEMMA RowKnown ==
  ASSUME TypeOK, [Next]_vars, NEW i \in Ids, NEW row \in Rows, Knows(i, row)
  PROVE  Knows(i, row)'
<1>1. row.version \in Nat /\ Fields \in SUBSET Fields
  BY DEF Rows
<1>2. Born(i) /\ Agrees(i, row.version, Fields, row)
  BY DEF Knows
<1>3. Born(i)' /\ Agrees(i, row.version, Fields, row)'
  BY <1>1, <1>2, AgreesKept
<1> QED BY <1>3 DEF Knows

LEMMA DataStaySeen ==
  ASSUME TypeOK, RowsBorn, DataSeen, [Next]_vars
  PROVE  DataSeen'
<1>1. CoreTypes /\ CacheTypes /\ FetchTypes /\ DataMove
  BY TypeGroups, NextMoves DEF Moves
<1> SUFFICES ASSUME NEW v \in Viewers, NEW i \in Ids
             PROVE  /\ cache'[v][i] # None => Knows(i, cache[v][i])'
                    /\ reply'[v][i] # None => Knows(i, reply[v][i])'
  BY DEF DataSeen
<1>2. i \in Keys /\ i # "list"
  BY ListIsKey
<1>3. ASSUME NEW x, x \in {cache[v][i], reply[v][i], rows[i]}, x # None PROVE Knows(i, x)'
  <2>1. x \in Rows
    BY <1>1, <1>2, <1>3 DEF CacheTypes, FetchTypes, CoreTypes, Has, IsData
  <2>2. Knows(i, x)
    <3>1. CASE x = rows[i]
      <4>1. x.version \in Nat
        BY <2>1 DEF Rows
      <4>2. x.version <= x.version
        BY <4>1
      <4> QED BY <1>3, <3>1, <4>2 DEF Knows, Agrees, RowsBorn
    <3>2. CASE x \in {cache[v][i], reply[v][i]}
      BY <1>3, <3>2 DEF DataSeen
    <3> QED BY <1>3, <3>1, <3>2
  <2> QED BY <2>1, <2>2, RowKnown
<1>4. cache'[v][i] # None => Knows(i, cache[v][i])'
  BY <1>1, <1>3 DEF DataMove, Knows, Agrees
<1>5. reply'[v][i] # None => Knows(i, reply[v][i])'
  BY <1>1, <1>3 DEF DataMove, Knows, Agrees
<1> QED BY <1>4, <1>5

LEMMA EditsStaySeen ==
  ASSUME TypeOK, DataSeen, EditsSeen, EditorIsWhatItSaves, [Next]_vars
  PROVE  EditsSeen'
<1>1. CacheTypes /\ EditorTypes /\ EditorTypes' /\ EditsMove
  BY TypeGroups, NextTypes, NextMoves DEF Moves
<1> SUFFICES ASSUME NEW d \in Desks, d \in editing'
             PROVE  Agrees(page[d], base[d], Fields \ draft[d].typed, draft[d])'
  BY <1>1 DEF EditsSeen, EditorTypes
<1> DEFINE i == page[d]
           row == cache[d][i]
<1>2. SUFFICES ASSUME OnCamp(d) PROVE Agrees(page[d], base[d], Fields \ draft[d].typed, draft[d])'
  BY <1>1 DEF EditsMove, EditorTypes, Edit, ChangeField
<1>3. i \in Ids /\ row \in Rows /\ row # None /\ draft[d] \in Drafts /\ base[d] \in Nat
  BY <1>1, <1>2, CampShown, NoneAssumption DEF EditorTypes
<1>4. Knows(i, row)
  BY <1>3, DesksAreViewers DEF DataSeen
<1>5. CASE d \in editing /\ page'[d] = page[d] /\ base'[d] = base[d] /\ draft'[d] = draft[d]
  <2>1. Agrees(i, base[d], Fields \ draft[d].typed, draft[d])
    BY <1>5 DEF EditsSeen
  <2>2. Agrees(i, base[d], Fields \ draft[d].typed, draft[d]) /\ Fields \ draft[d].typed \in SUBSET Fields
    BY <2>1
  <2>3. PICK j, b, fields, what : j = i /\ b = base[d] /\ fields = Fields \ draft[d].typed /\ what = draft[d]
    OBVIOUS
  <2>4. Agrees(j, b, fields, what)'
    BY <1>3, <1>4, <2>2, <2>3, AgreesKept DEF Knows
  <2> QED BY <1>5, <2>3, <2>4 DEF Agrees
<1>6. CASE Edit(d)
  <2>1. PICK j, r : j = i /\ r = row
    OBVIOUS
  <2>2. Knows(j, r)'
    BY <1>3, <1>4, <2>1, RowKnown
  <2>3. page' = page /\ base'[d] = row.version /\ draft'[d] = [draft[d] EXCEPT !.typed = {}] /\ d \notin editing
    BY <1>1, <1>6 DEF Edit, EditorTypes, views
  <2>4. row.entry = draft[d].entry /\ row.place = draft[d].place
    BY <1>2, <2>3, EditorIsSettled, SettledMeans
  <2>5. \A f \in Fields : draft'[d][f] = row[f]
    BY <1>3, <2>3, <2>4 DEF Fields, Drafts
  <2> QED BY <2>1, <2>2, <2>3, <2>5 DEF Knows, Agrees
<1>7. ASSUME NEW e \in Ops, ChangeField(d, e)
      PROVE  Agrees(page[d], base[d], Fields \ draft[d].typed, draft[d])'
  <2>1. Agrees(i, base[d], Fields \ draft[d].typed, draft[d]) /\ Fields \ draft[d].typed \in SUBSET Fields
    BY <1>7 DEF EditsSeen, ChangeField
  <2>2. PICK j, b, fields, what : j = i /\ b = base[d] /\ fields = Fields \ draft[d].typed /\ what = draft[d]
    OBVIOUS
  <2>3. Agrees(j, b, fields, what)'
    BY <1>3, <1>4, <2>1, <2>2, AgreesKept DEF Knows
  <2>4. page' = page /\ base' = base
    BY <1>7 DEF ChangeField, views
  <2>5. \A f \in Fields \ draft'[d].typed : f \in fields /\ draft'[d][f] = what[f]
    <3>1. \/ draft'[d] = [draft[d] EXCEPT !.entry = e, !.typed = @ \union {"entry"}]
          \/ draft'[d] = [draft[d] EXCEPT !.place = e, !.typed = @ \union {"place"}]
      BY <1>1, <1>7 DEF ChangeField, EditorTypes
    <3>2. \/ draft'[d].typed = draft[d].typed \union {"entry"} /\ draft'[d].place = draft[d].place
          \/ draft'[d].typed = draft[d].typed \union {"place"} /\ draft'[d].entry = draft[d].entry
      BY <1>3, <3>1 DEF Drafts
    <3> QED BY <2>2, <3>2 DEF Fields
  <2> QED BY <2>2, <2>3, <2>4, <2>5 DEF Agrees
<1> QED BY <1>1, <1>5, <1>6, <1>7 DEF EditsMove

LEMMA SavesStaySeen ==
  ASSUME TypeOK, DataSeen, EditsSeen, SavesSeen, [Next]_vars
  PROVE  SavesSeen'
<1>1. CoreTypes /\ CacheTypes /\ EditorTypes /\ SavesMove
  BY TypeGroups, NextMoves DEF Moves
<1> SUFFICES ASSUME NEW e \in Ops, KindOf[e] = "save", handler'[e][1] = "asked"
             PROVE  (Born(sent[e].camp) /\ Agrees(sent[e].camp, sent[e].base, Fields \ sent[e].typed, sent[e]))'
  BY DEF SavesSeen
<1>2. CASE handler[e][1] = "asked" /\ sent'[e] = sent[e]
  <2>1. sent[e] \in Asks(e)
    BY <1>1, <1>2 DEF CoreTypes
  <2>2. sent[e].camp \in Ids /\ sent[e].base \in Nat
    BY <2>1 DEF Asks
  <2>3. PICK j, b, fields, what :
          j = sent[e].camp /\ b = sent[e].base /\ fields = Fields \ sent[e].typed /\ what = sent[e]
    OBVIOUS
  <2>4. Born(j) /\ Agrees(j, b, fields, what) /\ fields \in SUBSET Fields
    BY <1>2, <2>3 DEF SavesSeen
  <2>5. Born(j)' /\ Agrees(j, b, fields, what)'
    BY <2>2, <2>3, <2>4, AgreesKept
  <2> QED BY <1>2, <2>3, <2>5 DEF Agrees, Born
<1>3. ASSUME NEW d \in Desks, HandleSaveEdit(d, e)
      PROVE  (Born(sent[e].camp) /\ Agrees(sent[e].camp, sent[e].base, Fields \ sent[e].typed, sent[e]))'
  <2>1. OnCamp(d) /\ d \in editing /\ draft[d] \in Drafts /\ base[d] \in Nat
    BY <1>1, <1>3 DEF HandleSaveEdit, EditorTypes
  <2>2. page[d] \in Ids /\ Born(page[d])
    <3>1. cache[d][page[d]] # None
      BY <2>1 DEF OnCamp, Displays, Has
    <3> QED BY <1>1, <2>1, <3>1, CampShown, DesksAreViewers DEF DataSeen, Knows
  <2>3. sent'[e] = [entry |-> draft[d].entry, place |-> draft[d].place, typed |-> draft[d].typed,
                    camp |-> page[d], base |-> base[d]]
    BY <1>1, <1>3 DEF HandleSaveEdit, Begin, CoreTypes
  <2>4. PICK j, b, fields, what :
          j = page[d] /\ b = base[d] /\ fields = Fields \ draft[d].typed /\ what = draft[d]
    OBVIOUS
  <2>5. Agrees(j, b, fields, what) /\ fields \in SUBSET Fields
    BY <2>1, <2>4 DEF EditsSeen
  <2>6. Born(j)' /\ Agrees(j, b, fields, what)'
    BY <2>1, <2>2, <2>4, <2>5, AgreesKept
  <2>7. sent'[e].camp = j /\ sent'[e].base = b /\ Fields \ sent'[e].typed = fields
        /\ \A f \in Fields : sent'[e][f] = what[f]
    BY <2>3, <2>4 DEF Fields
  <2>8. Born(sent[e].camp)'
    BY <2>6, <2>7 DEF Born
  <2>9. Agrees(sent[e].camp, sent[e].base, Fields \ sent[e].typed, sent[e])'
    BY <2>5, <2>6, <2>7 DEF Agrees
  <2> QED BY <2>8, <2>9
<1> QED BY <1>1, <1>2, <1>3 DEF SavesMove

LEMMA InitSeen ==
  ASSUME Init
  PROVE  SeenInv
<1>1. RowsBorn
  BY DEF Init, RowsBorn, Born
<1>2. DataSeen
  BY ListIsKey DEF Init, DataSeen
<1>3. EditsSeen /\ SavesSeen
  BY DEF Init, EditsSeen, SavesSeen, Attempts
<1> QED BY <1>1, <1>2, <1>3 DEF SeenInv

\* Only a handler answers a save.
LEMMA OnlyHandlersAnswer ==
  ASSUME TypeOK, [Next]_vars, NEW e \in Ops, handler[e][1] = "asked", handler'[e][1] = "done"
  PROVE  Handle(e, 1)
<1>1. CoreTypes
  BY TypeGroups
<1>2. ASSUME NEW x \in Ops, NEW a \in Attempts, NEW h, handler' = [handler EXCEPT ![x][a] = h]
      PROVE  h = "done" /\ x = e /\ a = 1
  BY <1>1, <1>2 DEF CoreTypes, Attempts
<1>3. ASSUME NEW x \in Ops, NEW a \in Attempts, NEW what, Begin(x, a, what) PROVE FALSE
  BY <1>2, <1>3 DEF Begin
<1>4. handler' # handler
  OBVIOUS
<1>5. ASSUME NEW x \in Ops, NEW a \in Attempts,
             Handle(x, a) \/ Publish(x, a) \/ StatementFails(x, a) \/ HandlerDies(x, a)
      PROVE  Handle(e, 1)
  <2>1. CASE Handle(x, a)
    <3>1. x = e /\ a = 1
      BY <1>2, <2>1 DEF Handle
    <3> QED BY <2>1, <3>1
  <2>2. CASE Publish(x, a)
    <3>1. x = e /\ a = 1
      BY <1>2, <2>2 DEF Publish
    <3> QED BY <2>2, <3>1 DEF Publish
  <2>3. CASE StatementFails(x, a) \/ HandlerDies(x, a)
    BY <1>2, <2>3 DEF StatementFails, HandlerDies
  <2> QED BY <1>5, <2>1, <2>2, <2>3
<1>6. ASSUME NEW v \in Viewers, NEW k \in Keys, Refetch(v, k) \/ Read(v, k) \/ LoadFails(v, k) \/ Apply(v, k)
      PROVE  FALSE
  BY <1>4, <1>6 DEF Refetch, Read, LoadFails, Apply, server
<1>7. ASSUME NEW v \in Viewers, OnMessage(v) \/ StreamBreaks(v) \/ Reconnect(v) PROVE FALSE
  BY <1>4, <1>7 DEF OnMessage, StreamBreaks, Reconnect, server
<1>8. ASSUME NEW d \in Desks, NEW x \in Ops, NEW i \in Ids, UpdateStock(d, x, i) PROVE FALSE
  BY <1>3, <1>8 DEF UpdateStock, Attempts
<1>9. ASSUME NEW x \in Ops, StockRetried(x) \/ EditFails(x) \/ DeployFails(x) PROVE FALSE
  <2>1. Begin(x, 2, sent[x]) \/ End(x, "failed")
    BY <1>9 DEF StockRetried, EditFails, DeployFails
  <2> QED BY <1>3, <1>4, <2>1 DEF End, server, Attempts
<1>10. ASSUME NEW d \in Desks, NEW x \in Ops,
             \/ StockFails(d, x) \/ StockUpdated(d, x)
             \/ ChangeField(d, x) \/ HandleSaveEdit(d, x) \/ Saved(d, x)
             \/ HandleDelete(d, x) \/ Deleted(d, x)
             \/ Deploy(d, x) \/ Deployed(d, x) \/ Land(d, x)
      PROVE  FALSE
  <2>1. CASE HandleSaveEdit(d, x) \/ HandleDelete(d, x) \/ Deploy(d, x)
    <3>1. \E what : Begin(x, 1, what) \/ Begin(x, 2, what)
      BY <2>1 DEF HandleSaveEdit, HandleDelete, Deploy
    <3> QED BY <1>3, <3>1 DEF Attempts
  <2>2. CASE \/ StockFails(d, x) \/ StockUpdated(d, x) \/ Saved(d, x) \/ Deleted(d, x)
             \/ Deployed(d, x) \/ Land(d, x)
    <3>1. \E how : End(x, how)
      BY <2>2 DEF StockFails, StockUpdated, Saved, Deleted, Deployed, Land
    <3> QED BY <1>4, <3>1 DEF End, server
  <2>3. CASE ChangeField(d, x)
    BY <1>4, <2>3 DEF ChangeField, server
  <2> QED BY <1>10, <2>1, <2>2, <2>3
<1>11. ASSUME NEW d \in Desks, NEW k \in Keys \union {"away"}, Navigate(d, k) PROVE FALSE
  BY <1>4, <1>11 DEF Navigate, server
<1>12. ASSUME NEW d \in Desks, Edit(d) \/ CancelEdit(d) \/ OpenDialog(d) \/ TypeConfirm(d) \/ CloseDialog(d)
      PROVE  FALSE
  BY <1>4, <1>12 DEF Edit, CancelEdit, OpenDialog, TypeConfirm, CloseDialog, server
<1>13. ~UNCHANGED vars
  BY <1>4 DEF vars, server
<1> QED BY <1>5, <1>6, <1>7, <1>8, <1>9, <1>10, <1>11, <1>12, <1>13, PlanOps DEF Next

\* What the save of a version writes into the fields that were not touched is what they hold.
LEMMA SaveWrites ==
  ASSUME TypeOK, SavesSeen, [Next]_vars, NEW e \in Ops, NEW i \in Ids, NEW f \in Fields,
         KindOf[e] = "save", handler[e][1] = "asked", handler'[e][1] = "done",
         sent[e].camp = i, rows[i] # None, sent[e].base = rows[i].version, f \notin sent[e].typed
  PROVE  rows'[i][f] = rows[i][f]
<1>1. CoreTypes /\ Statement(e, 1)
  BY TypeGroups, OnlyHandlersAnswer DEF Handle
<1>2. rows'[i].entry = sent[e].entry /\ rows'[i].place = sent[e].place
  <2> DEFINE r == [entry |-> sent[e].entry, place |-> sent[e].place, stock |-> rows[i].stock,
                   version |-> rows[i].version + 1]
  <2>1. rows' = [rows EXCEPT ![i] = r]
    BY <1>1 DEF Statement
  <2>2. rows'[i] = r
    BY <1>1, <2>1 DEF CoreTypes
  <2> QED BY <2>2
<1>3. sent[e][f] = rows[i][f]
  BY DEF SavesSeen, Agrees
<1> QED BY <1>2, <1>3 DEF Fields

\* logistics.$id.tsx:107-113: with any number of desks, a save that is answered leaves every
\* field that its user has not touched as it is, unless the camp was saved since the page read it.
THEOREM SavesUndoOnlyUnseen == Spec => SaveUndoesOnlyUnseen
<1> DEFINE I == TypeOK /\ EditorIsWhatItSaves /\ SeenInv
<1>1. Init => I
  <2>1. Init => \A d \in Desks : ~OnCamp(d)
    BY ListIsKey, DesksAreViewers DEF Init, OnCamp, Displays, Has
  <2> QED BY <2>1, InitTypes, InitSeen DEF EditorIsWhatItSaves
<1>2. I /\ [Next]_vars => I'
  BY NextTypes, NextSettled, RowsStayBorn, DataStaySeen, EditsStaySeen, SavesStaySeen DEF SeenInv
<1>3. I /\ [Next]_vars =>
        [\A e \in Ops, i \in Ids :
           /\ KindOf[e] = "save" /\ handler[e][1] = "asked" /\ handler'[e][1] = "done"
           /\ sent[e].camp = i /\ rows[i] # None /\ sent[e].base = rows[i].version
           => \A f \in Fields \ sent[e].typed : rows'[i][f] = rows[i][f]]_vars
  BY SaveWrites DEF SeenInv
<1> HIDE DEF I
<1> QED BY <1>1, <1>2, <1>3, PTL DEF Spec, SaveUndoesOnlyUnseen
=============================================================================
