--------------------------- MODULE DrawingProofs ---------------------------
(***************************************************************************)
(* Proofs about Drawing: types, that what is sent is an area and the one   *)
(* that the map shows, and that an answer clears what it is the answer to. *)
(***************************************************************************)
EXTENDS Drawing, WellFoundedInduction, TLAPS

LEMMA MaxIsMember ==
  ASSUME NEW n \in Nat, NEW S \in SUBSET (1..n), S # {}
  PROVE  Max(S) \in S /\ \A i \in S : Max(S) >= i
<1> DEFINE T == {n - i : i \in S}
<1>1. T \subseteq Nat /\ T # {}
  <2>1. \A i \in S : n - i \in Nat
    OBVIOUS
  <2> QED BY <2>1
<1>2. PICK m \in T : \A k \in T : ~ (<<k, m>> \in OpToRel(<, Nat))
  BY <1>1, NatLessThanWellFounded, WFMin
<1>3. \A k \in T : ~ (k < m)
  BY <1>1, <1>2 DEF OpToRel
<1>4. PICK x \in S : m = n - x
  BY <1>2
<1>5. \A i \in S : x >= i
  BY <1>3, <1>4
<1> QED
  BY <1>5 DEF Max

-----------------------------------------------------------------------------
(***************************************************************************)
(* Types, in four groups that most actions leave alone but for one.        *)
(***************************************************************************)

SendTypes ==
    /\ plan \in Plans
    /\ row \in Zones
    /\ req \in [Requests -> {None} \union Wishes]
    /\ handler \in [Requests -> {"none", "asked", "inserted", "done", "failed"}]
    /\ heard \in [Requests -> SUBSET {"notifications", "event"}]
    /\ \A q \in Requests : req[q] = None => handler[q] = "none" /\ outcome[q] = "none"
    /\ \A q \in Requests : handler[q] = "inserted" => req[q].kind = "broadcast"
    /\ \A q \in Requests : heard[q] # {} => req[q] # None /\ req[q].kind = "broadcast" /\ handler[q] = "done"
    /\ outcome \in [Requests -> {"none", "ok", "error"}]
    /\ \A q \in Requests : outcome[q] = "ok" => handler[q] = "done"
    /\ attached \subseteq {q \in Requests : req[q] # None}
    /\ overtaken \subseteq Requests

FormTypes ==
    /\ page \in Pages
    /\ points \in Areas /\ handles \in Areas
    /\ text \in Entries /\ entries \in Entries
    /\ editing \in BOOLEAN /\ (editing => Displayed)
    /\ dialog \in BOOLEAN /\ (dialog => page \in {"broadcast", "zone"})
    /\ confirm \in BOOLEAN
    /\ cleared \in BOOLEAN /\ (cleared => dialog /\ page = "broadcast" /\ points = <<>>)

MapTypes ==
    /\ map \in {"none", "loading", "loaded"} /\ (map # "none" => page \in Boards \union {"zone"})
    /\ layers \in BOOLEAN /\ (layers => map = "loaded")
    /\ drawn \in Areas
    /\ deferred \in Seq({None} \union Areas)
    /\ (deferred # <<>> => map = "loaded")
    /\ smooth \in BOOLEAN

QueryTypes ==
    /\ cache \in {None} \union Zones
    /\ fetch \in {"none", "asked", "read"}
    /\ reply \in {None} \union Zones
    /\ (reply # None <=> fetch = "read")
    /\ stale \in BOOLEAN

LEMMA TypeGroups ==
    /\ TypeOK <=> SendTypes /\ FormTypes /\ MapTypes /\ QueryTypes
    /\ TypeOK' <=> SendTypes' /\ FormTypes' /\ MapTypes' /\ QueryTypes'
  BY DEF TypeOK, SendTypes, FormTypes, MapTypes, QueryTypes

LEMMA SendSame == SendTypes /\ UNCHANGED <<plan, row, sending, attached, overtaken>> => SendTypes'
  BY DEF SendTypes, sending

LEMMA FormSame == FormTypes /\ UNCHANGED <<page, form, cache>> => FormTypes'
  BY DEF FormTypes, form, modal, Displayed

LEMMA MapSame == MapTypes /\ UNCHANGED <<canvas, page>> => MapTypes'
  BY DEF MapTypes, canvas

LEMMA QuerySame == QueryTypes /\ UNCHANGED query => QueryTypes'
  BY DEF QueryTypes, query

LEMMA EntriesGrow ==
  ASSUME plan \in Plans, entries \in Entries, entries < plan.entries, entries' = entries + 1
  PROVE  entries' \in Entries
<1>1. plan.entries \in 0..MaxEntries /\ MaxEntries \in Nat
  BY DrawingAssumption
<1> QED
  BY <1>1 DEF Entries

LEMMA PictureTypes ==
  ASSUME NEW p \in Areas
  PROVE  Picture(p) \in Areas
<1>1. <<>> \in Areas
  BY DEF Areas
<1> QED
  BY <1>1 DEF Picture

\* What a map that is called back shows.
LEMMA CallTypes ==
  ASSUME MapTypes, map' = "loaded", NEW cs \in Seq({None} \union Areas), NEW n \in 0..Len(cs), Call(cs, n)
  PROVE  /\ layers' \in BOOLEAN /\ smooth' \in BOOLEAN /\ drawn' \in Areas
         /\ (n < Len(cs) => ~smooth')
<1> DEFINE Layered(i) == layers \/ \E j \in 1..i : cs[j] = None
           put == {i \in 1..n : cs[i] # None /\ Layered(i)}
<1>1. layers' = Layered(n)
  BY DEF Call
<1>2. smooth' = (smooth /\ n = Len(cs) /\ \A i \in 1..n : cs[i] = None \/ Layered(i))
  BY DEF Call
<1>3. drawn' = IF put = {} THEN drawn ELSE Picture(cs[Max(put)])
  BY DEF Call
<1>4. layers' \in BOOLEAN /\ smooth' \in BOOLEAN /\ (n < Len(cs) => ~smooth')
  <2> HIDE DEF Layered
  <2>1. n < Len(cs) => n # Len(cs)
    OBVIOUS
  <2>2. smooth' \in BOOLEAN /\ (n < Len(cs) => ~smooth')
    BY <1>2, <2>1, Zenon
  <2>3. Layered(n) \in BOOLEAN
    BY DEF Layered, MapTypes
  <2> QED BY <1>1, <2>2, <2>3, Zenon
<1>5. drawn' \in Areas
  <2>1. CASE put = {}
    BY <1>3, <2>1 DEF MapTypes
  <2>2. CASE put # {}
    <3>1. put \in SUBSET (1..n) /\ n \in Nat
      OBVIOUS
    <3>2. Max(put) \in put
      BY <2>2, <3>1, MaxIsMember
    <3>3. cs[Max(put)] \in Areas
      BY <3>2
    <3> QED
      BY <1>3, <2>2, <3>3, PictureTypes
  <2> QED BY <2>1, <2>2
<1> QED BY <1>4, <1>5

LEMMA RedrawTypes ==
  ASSUME MapTypes, NEW p \in Areas, Redraw(p), UNCHANGED <<map, page>>
  PROVE  MapTypes'
<1>1. CASE map # "loaded"
  BY <1>1 DEF Redraw, MapTypes
<1>2. CASE map = "loaded"
  <2>1. PICK n \in Found(<<p>>) :
          Call(<<p>>, n) /\ deferred' = IF n = 1 THEN deferred ELSE Append(deferred, p)
    BY <1>2 DEF Redraw
  <2>2. <<p>> \in Seq({None} \union Areas) /\ Len(<<p>>) = 1
    OBVIOUS
  <2>3. n \in 0..1
    BY <2>1, <2>2 DEF Found
  <2>4. layers' \in BOOLEAN /\ smooth' \in BOOLEAN /\ drawn' \in Areas
    BY <1>2, <2>1, <2>2, <2>3, CallTypes
  <2>5. deferred' \in Seq({None} \union Areas)
    BY <2>1 DEF MapTypes
  <2> QED
    BY <1>2, <2>4, <2>5 DEF MapTypes
<1> QED BY <1>1, <1>2

LEMMA InitTypes == Init => TypeOK
<1> SUFFICES ASSUME Init PROVE TypeOK
  OBVIOUS
<1>1. MaxEntries \in Nat /\ 0 \in Entries
  BY DrawingAssumption DEF Entries
<1>2. plan \in Plans /\ plan.start \in Pages
  BY DrawingAssumption DEF Init
<1>3. Given \in Zones /\ <<>> \in Areas
  BY <1>1 DEF Given, Zones, Areas
<1>4. SendTypes
  BY <1>2, <1>3 DEF Init, SendTypes
<1>5. FormTypes
  BY <1>1, <1>2, <1>3 DEF Init, FormTypes, Displayed
<1>6. MapTypes
  <2>1. map \in {"none", "loading"} /\ deferred = <<>> /\ drawn = <<>> /\ ~layers /\ smooth
    BY DEF Init
  <2>2. layers \in BOOLEAN /\ smooth \in BOOLEAN
    BY DEF Init
  <2>3. map # "none" => page \in Boards \union {"zone"}
    BY DEF Init
  <2> QED BY <1>3, <2>1, <2>2, <2>3 DEF MapTypes
<1>7. QueryTypes
  BY DEF Init, QueryTypes
<1> QED
  BY <1>4, <1>5, <1>6, <1>7, TypeGroups

\* A request is sent.
LEMMA BeginTypes ==
  ASSUME TypeOK, NEW q \in Requests, NEW kind \in Kinds, Begin(q, kind, points, text),
         UNCHANGED <<plan, row, page, form, canvas, query, overtaken>>
  PROVE  TypeOK'
<1> DEFINE b == [kind |-> kind, area |-> points, text |-> text]
<1>1. SendTypes /\ FormTypes /\ MapTypes /\ QueryTypes
  BY TypeGroups
<1>2. b \in Wishes /\ b # None
  BY <1>1, NoneAssumption DEF FormTypes, Wishes
<1>3. req' = [req EXCEPT ![q] = b] /\ req[q] = None
  BY DEF Begin
<1>4. \A r \in Requests : req[r] # None => req'[r] = req[r] /\ r # q
  BY <1>1, <1>3 DEF SendTypes
<1>5. req' \in [Requests -> {None} \union Wishes] /\ req'[q] # None
  BY <1>1, <1>2, <1>3 DEF SendTypes
<1>6. handler' \in [Requests -> {"none", "asked", "inserted", "done", "failed"}]
  BY <1>1 DEF Begin, SendTypes
<1>7. handler'[q] = "asked" /\ \A r \in Requests : r # q => handler'[r] = handler[r] /\ req'[r] = req[r]
  BY <1>1 DEF Begin, SendTypes
<1>8. attached' \subseteq {r \in Requests : req'[r] # None}
  BY <1>1, <1>4, <1>5 DEF Begin, SendTypes
<1>9. heard' = heard /\ outcome' = outcome
  BY DEF Begin
<1>10. \A r \in Requests :
        /\ req'[r] = None => handler'[r] = "none" /\ outcome'[r] = "none"
        /\ handler'[r] = "inserted" => req'[r].kind = "broadcast"
        /\ heard'[r] # {} => req'[r] # None /\ req'[r].kind = "broadcast" /\ handler'[r] = "done"
        /\ outcome'[r] = "ok" => handler'[r] = "done"
  BY <1>1, <1>3, <1>5, <1>7, <1>9 DEF SendTypes
<1>11. SendTypes'
  BY <1>1, <1>5, <1>6, <1>8, <1>9, <1>10 DEF SendTypes
<1>12. FormTypes' /\ MapTypes' /\ QueryTypes'
  BY <1>1, FormSame, MapSame, QuerySame DEF query
<1> QED
  BY <1>11, <1>12, TypeGroups

\* The backend works on a request, or gives it up.
LEMMA HandlerTypes ==
  ASSUME TypeOK, NEW q \in Requests, Handle(q) \/ Spread(q) \/ HandlerFails(q)
  PROVE  TypeOK'
<1>1. SendTypes /\ FormTypes /\ MapTypes /\ QueryTypes
  BY TypeGroups
<1>2. UNCHANGED <<plan, req, outcome, attached, overtaken>> /\ UNCHANGED page
      /\ UNCHANGED form /\ UNCHANGED canvas /\ UNCHANGED query
  BY DEF Handle, Spread, HandlerFails
<1>3. req[q] \in Wishes
  BY <1>1 DEF SendTypes, Handle, Spread, HandlerFails
<1>4. row' \in Zones
  <2>1. CASE Handle(q)
    <3>1. row' = CASE req[q].kind = "save" -> [row EXCEPT !.area = req[q].area, !.text = req[q].text]
                   [] req[q].kind = "delete" -> [row EXCEPT !.active = FALSE]
                   [] OTHER -> row
      BY <2>1 DEF Handle, Statement
    <3>2. CASE req[q].kind = "save"
      BY <1>1, <1>3, <3>1, <3>2 DEF SendTypes, Wishes, Zones
    <3>3. CASE req[q].kind = "delete"
      BY <1>1, <3>1, <3>3 DEF SendTypes, Zones
    <3>4. CASE req[q].kind \notin {"save", "delete"}
      BY <1>1, <3>1, <3>4 DEF SendTypes
    <3> QED BY <3>2, <3>3, <3>4
  <2>2. CASE Spread(q) \/ HandlerFails(q)
    BY <1>1, <2>2 DEF SendTypes, Spread, HandlerFails
  <2> QED BY <2>1, <2>2
<1>5. handler' \in [Requests -> {"none", "asked", "inserted", "done", "failed"}]
      /\ \A r \in Requests : r # q => handler'[r] = handler[r]
  <2>1. PICK h \in {"inserted", "done", "failed"} : handler' = [handler EXCEPT ![q] = h]
    BY DEF Handle, Spread, HandlerFails
  <2> QED BY <1>1, <2>1 DEF SendTypes
<1>6. heard' \in [Requests -> SUBSET {"notifications", "event"}]
      /\ \A r \in Requests : r # q => heard'[r] = heard[r]
  BY <1>1 DEF Handle, Spread, HandlerFails, SendTypes
<1>7. /\ handler'[q] = "inserted" => req'[q].kind = "broadcast"
      /\ heard'[q] # {} => req'[q].kind = "broadcast" /\ handler'[q] = "done"
  <2>1. CASE Spread(q)
    <3>1. handler'[q] = "done"
      BY <1>1, <2>1 DEF SendTypes, Spread
    <3>2. req[q].kind = "broadcast"
      BY <1>1, <2>1 DEF SendTypes, Spread
    <3> QED BY <1>2, <3>1, <3>2
  <2>2. CASE Handle(q) \/ HandlerFails(q)
    BY <1>1, <2>2 DEF SendTypes, Handle, HandlerFails
  <2> QED BY <2>1, <2>2
<1>8. \A r \in Requests :
        /\ req'[r] = None => handler'[r] = "none" /\ outcome'[r] = "none"
        /\ handler'[r] = "inserted" => req'[r].kind = "broadcast"
        /\ heard'[r] # {} => req'[r] # None /\ req'[r].kind = "broadcast" /\ handler'[r] = "done"
        /\ outcome'[r] = "ok" => handler'[r] = "done"
  <2>1. handler[q] # "done"
    BY DEF Handle, Spread, HandlerFails
  <2> QED
    BY <1>1, <1>2, <1>3, <1>5, <1>6, <1>7, <2>1, NoneAssumption DEF SendTypes
<1>9. SendTypes'
  BY <1>1, <1>2, <1>4, <1>5, <1>6, <1>8 DEF SendTypes
<1>10. FormTypes' /\ MapTypes' /\ QueryTypes'
  BY <1>1, <1>2, FormSame, MapSame, QuerySame DEF query
<1> QED
  BY <1>9, <1>10, TypeGroups

\* A request ends.
LEMMA EndsTypes ==
  ASSUME SendTypes, NEW q \in Requests, NEW how \in {"ok", "error"}, Pending(q), Ends(q, how),
         how = "ok" => handler[q] = "done",
         UNCHANGED <<plan, row>>, attached' \subseteq attached, overtaken' \subseteq Requests
  PROVE  SendTypes'
<1>1. req[q] # None /\ UNCHANGED <<req, handler, heard>>
  BY DEF Pending, Ends
<1>2. outcome' \in [Requests -> {"none", "ok", "error"}] /\ \A r \in Requests : r # q => outcome'[r] = outcome[r]
  BY DEF Ends, SendTypes
<1>3. outcome'[q] = how
  BY DEF Ends, SendTypes
<1>4. \A r \in Requests : /\ req'[r] = None => handler'[r] = "none" /\ outcome'[r] = "none"
                          /\ outcome'[r] = "ok" => handler'[r] = "done"
  BY <1>1, <1>2, <1>3 DEF SendTypes
<1> QED
  BY <1>1, <1>2, <1>4 DEF SendTypes

LEMMA FailsTypes ==
  ASSUME TypeOK, NEW q \in Requests, Fails(q)
  PROVE  TypeOK'
<1>1. SendTypes /\ FormTypes /\ MapTypes /\ QueryTypes
  BY TypeGroups
<1>2. SendTypes'
  <2>1. overtaken \subseteq Requests
    BY <1>1 DEF SendTypes
  <2> QED BY <1>1, <2>1, EndsTypes DEF Fails
<1>3. UNCHANGED page /\ UNCHANGED form /\ UNCHANGED canvas /\ UNCHANGED query
  BY DEF Fails
<1>4. FormTypes' /\ MapTypes' /\ QueryTypes'
  BY <1>1, <1>3, FormSame, MapSame, QuerySame DEF query
<1> QED
  BY <1>2, <1>4, TypeGroups

LEMMA UnderWayRequests ==
  ASSUME SendTypes
  PROVE  UnderWay \subseteq Requests
BY DEF SendTypes, UnderWay

\* What is done on a board or with a dialog, but for what is sent.
LEMMA BoardTypes ==
  ASSUME TypeOK, Click \/ ClearDrawing \/ Type \/ AskToConfirm \/ TypeConfirm \/ CloseDialog
                 \/ OpenDeleteDialog
  PROVE  TypeOK'
<1>1. SendTypes /\ FormTypes /\ MapTypes /\ QueryTypes
  BY TypeGroups
<1>2. UNCHANGED <<plan, row, sending, attached, page, editing, handles>> /\ UNCHANGED query
  BY DEF Click, ClearDrawing, Type, AskToConfirm, TypeConfirm, CloseDialog, OpenDeleteDialog
<1>3. overtaken' \subseteq Requests
  <2>1. overtaken' = overtaken \/ overtaken' = overtaken \union UnderWay
    BY DEF Click, ClearDrawing, Type, AskToConfirm, TypeConfirm, CloseDialog, OpenDeleteDialog, Touch
  <2> QED BY <1>1, <2>1, UnderWayRequests DEF SendTypes
<1>4. SendTypes' /\ QueryTypes'
  <2>1. UNCHANGED <<plan, row, req, handler, heard, outcome, attached>>
    BY <1>2 DEF sending
  <2>2. SendTypes'
    BY <1>1, <1>3, <2>1 DEF SendTypes
  <2> QED BY <1>1, <1>2, <2>2, QuerySame
<1>5. MapTypes'
  <2>1. CASE Click
    <3>1. plan \in Plans /\ entries \in Entries
      BY <1>1 DEF SendTypes, FormTypes
    <3>2. entries' \in Entries
      BY <2>1, <3>1, EntriesGrow DEF Click
    <3>3. points' \in Areas
      BY <1>1, <2>1, <3>2 DEF Click, FormTypes, Areas
    <3> QED
      BY <1>1, <2>1, <3>3, RedrawTypes DEF Click
  <2>2. CASE ClearDrawing
    <3>1. <<>> \in Areas
      BY DEF Areas
    <3> QED
      BY <1>1, <2>2, <3>1, RedrawTypes DEF ClearDrawing
  <2>3. CASE Type \/ AskToConfirm \/ TypeConfirm \/ CloseDialog \/ OpenDeleteDialog
    <3>1. UNCHANGED canvas
      BY <2>3 DEF Type, AskToConfirm, TypeConfirm, CloseDialog, OpenDeleteDialog
    <3> QED BY <1>1, <1>2, <3>1, MapSame
  <2> QED BY <2>1, <2>2, <2>3
<1>6. FormTypes'
  <2>1. entries' \in Entries /\ text' \in Entries /\ points' \in Areas
    <3>1. CASE Click \/ Type
      <4>1. plan \in Plans /\ entries \in Entries
        BY <1>1 DEF SendTypes, FormTypes
      <4>2. entries' \in Entries
        BY <3>1, <4>1, EntriesGrow DEF Click, Type
      <4> QED
        BY <1>1, <3>1, <4>2 DEF Click, Type, FormTypes, Areas
    <3>2. CASE ClearDrawing
      BY <1>1, <3>2 DEF ClearDrawing, FormTypes, Areas
    <3>3. CASE AskToConfirm \/ TypeConfirm \/ CloseDialog \/ OpenDeleteDialog
      BY <1>1, <3>3 DEF AskToConfirm, TypeConfirm, CloseDialog, OpenDeleteDialog, FormTypes
    <3> QED BY <3>1, <3>2, <3>3
  <2>4. cleared' \in BOOLEAN /\ (cleared' => dialog' /\ page' = "broadcast" /\ points' = <<>>)
    <3>1. CASE Click
      <4>1. ~cleared' /\ cleared' = cleared
        BY <1>1, <3>1 DEF Click, Covered, FormTypes, modal
      <4> QED BY <1>1, <4>1 DEF FormTypes
    <3>2. CASE ClearDrawing
      <4>1. cleared' = dialog /\ UNCHANGED <<dialog, page>> /\ points' = <<>> /\ page \in Boards
        BY <3>2 DEF ClearDrawing
      <4> QED BY <1>1, <4>1 DEF FormTypes, Boards
    <3>3. CASE CloseDialog
      BY <3>3 DEF CloseDialog
    <3>4. CASE Type \/ AskToConfirm \/ TypeConfirm \/ OpenDeleteDialog
      <4>1. UNCHANGED <<cleared, page, points>> /\ (dialog => dialog')
        BY <3>4 DEF Type, AskToConfirm, TypeConfirm, OpenDeleteDialog, modal
      <4> QED BY <1>1, <4>1 DEF FormTypes
    <3> QED BY <3>1, <3>2, <3>3, <3>4
  <2>2. dialog' \in BOOLEAN /\ confirm' \in BOOLEAN /\ (dialog' => page' \in {"broadcast", "zone"})
    <3>1. CASE Click \/ ClearDrawing \/ Type
      <4>1. UNCHANGED <<dialog, confirm, page>>
        BY <3>1 DEF Click, ClearDrawing, Type, modal
      <4> QED BY <1>1, <4>1 DEF FormTypes
    <3>2. CASE AskToConfirm \/ OpenDeleteDialog
      <4>1. UNCHANGED <<confirm, page>> /\ dialog' = TRUE /\ page \in {"broadcast", "zone"}
        BY <3>2 DEF AskToConfirm, OpenDeleteDialog, Displayed
      <4> QED BY <1>1, <4>1 DEF FormTypes
    <3>3. CASE TypeConfirm
      <4>1. UNCHANGED <<dialog, cleared, page>> /\ confirm' = TRUE
        BY <3>3 DEF TypeConfirm
      <4> QED BY <1>1, <4>1 DEF FormTypes
    <3>4. CASE CloseDialog
      <4>1. UNCHANGED <<confirm, page>> /\ dialog' = FALSE
        BY <3>4 DEF CloseDialog
      <4> QED BY <1>1, <4>1 DEF FormTypes
    <3> QED BY <3>1, <3>2, <3>3, <3>4
  <2>3. UNCHANGED <<page, editing, handles, cache>>
    BY <1>2 DEF query
  <2> QED BY <1>1, <2>1, <2>2, <2>3, <2>4 DEF FormTypes, Displayed
<1> QED
  BY <1>4, <1>5, <1>6, TypeGroups

\* Another page opens.
LEMMA GoToTypes ==
  ASSUME TypeOK, NEW k \in Pages, GoTo(k), UNCHANGED <<entries, cache, reply>>
  PROVE  FormTypes' /\ MapTypes' /\ QueryTypes' /\ attached' \subseteq attached
<1>1. SendTypes /\ FormTypes /\ MapTypes /\ QueryTypes
  BY TypeGroups
<1>2. FormTypes'
  <2>1. points' \in Areas /\ text' \in Entries
    <3>1. CASE k = "zone" /\ cache # None
      BY <1>1, <3>1 DEF GoTo, QueryTypes, Zones
    <3>2. CASE ~(k = "zone" /\ cache # None)
      <4>1. <<>> \in Areas /\ 0 \in Entries
        BY DrawingAssumption DEF Areas, Entries
      <4> QED BY <3>2, <4>1 DEF GoTo
    <3> QED BY <3>1, <3>2
  <2>2. editing' = FALSE /\ dialog' = FALSE /\ confirm' = FALSE /\ cleared' = FALSE /\ handles' = <<>> /\ page' = k
    BY DEF GoTo
  <2>3. editing' \in BOOLEAN /\ (editing' => Displayed') /\ dialog' \in BOOLEAN /\ confirm' \in BOOLEAN
        /\ (dialog' => page' \in {"broadcast", "zone"})
        /\ cleared' \in BOOLEAN /\ (cleared' => dialog' /\ page' = "broadcast" /\ points' = <<>>)
    BY <2>2, Zenon
  <2>4. handles' \in Areas
    BY <2>2 DEF Areas
  <2>5. page' \in Pages /\ entries' \in Entries
    BY <1>1, <2>2 DEF FormTypes
  <2> QED BY <2>1, <2>3, <2>4, <2>5 DEF FormTypes
<1>3. MapTypes'
  <2>1. map' \in {"loading", "none"} /\ layers' = FALSE /\ drawn' = <<>> /\ deferred' = <<>> /\ smooth' = TRUE
    BY DEF GoTo
  <2>2. layers' \in BOOLEAN /\ smooth' \in BOOLEAN
    BY <2>1
  <2>3. map' # "none" => page' \in Boards \union {"zone"}
    BY DEF GoTo
  <2>4. drawn' \in Areas /\ deferred' \in Seq({None} \union Areas)
    BY <2>1 DEF Areas
  <2> QED BY <2>1, <2>2, <2>3, <2>4 DEF MapTypes
<1>4. QueryTypes'
  <2>1. CASE fetch' = "asked" /\ stale' = FALSE /\ fetch = "none"
    <3>1. reply = None
      BY <1>1, <2>1 DEF QueryTypes
    <3> QED BY <1>1, <2>1, <3>1 DEF QueryTypes
  <2>2. CASE UNCHANGED <<fetch, stale>>
    BY <1>1, <2>2 DEF QueryTypes
  <2> QED BY <2>1, <2>2 DEF GoTo
<1>5. attached' \subseteq attached
  BY DEF GoTo
<1> QED BY <1>2, <1>3, <1>4, <1>5

LEMMA LeaveTypes ==
  ASSUME TypeOK, Leave, UNCHANGED <<entries, cache, reply>>
  PROVE  FormTypes' /\ MapTypes' /\ QueryTypes' /\ attached' \subseteq attached
<1>1. CASE page # "command"
  <2>1. "command" \in Pages
    BY DEF Pages
  <2> QED BY <1>1, <2>1, GoToTypes DEF Leave
<1>2. CASE page = "command"
  <2>1. UNCHANGED <<attached, page, points, text, editing, handles, dialog, confirm, cleared, fetch, stale>> /\ UNCHANGED canvas
    BY <1>2 DEF Leave, modal
  <2>2. UNCHANGED form /\ UNCHANGED query
    BY <2>1 DEF form, modal, query
  <2> QED BY <2>1, <2>2, TypeGroups, FormSame, MapSame, QuerySame DEF query
<1> QED BY <1>1, <1>2

LEMMA LeavingTypes ==
  ASSUME TypeOK,
         \/ \E k \in Pages : Navigate(k)
         \/ SignIn
         \/ \E q \in Requests : ZoneEstablished(q) \/ ZoneDeleted(q)
  PROVE  TypeOK'
<1>1. SendTypes /\ FormTypes /\ MapTypes /\ QueryTypes
  BY TypeGroups
<1>2. CASE \E k \in Pages : Navigate(k)
  <2>1. PICK k \in Pages : Navigate(k)
    BY <1>2
  <2>2. Reached(k) \in Pages
    BY DEF Reached, Pages
  <2>3. FormTypes' /\ MapTypes' /\ QueryTypes' /\ attached' \subseteq attached
    BY <2>1, <2>2, GoToTypes DEF Navigate
  <2>4. UNCHANGED <<plan, row, overtaken, req, handler, heard, outcome>>
    BY <2>1 DEF Navigate, sending
  <2>5. SendTypes'
    BY <1>1, <2>3, <2>4 DEF SendTypes
  <2> QED BY <2>3, <2>5, TypeGroups
<1>3. CASE SignIn
  <2>1. "command" \in Pages
    BY DEF Pages
  <2>2. FormTypes' /\ MapTypes' /\ QueryTypes' /\ attached' \subseteq attached
    BY <1>3, <2>1, GoToTypes DEF SignIn
  <2>3. UNCHANGED <<plan, row, overtaken, req, handler, heard, outcome>>
    BY <1>3 DEF SignIn, sending
  <2>4. SendTypes'
    BY <1>1, <2>2, <2>3 DEF SendTypes
  <2> QED BY <2>2, <2>4, TypeGroups
<1>4. CASE \E q \in Requests : ZoneEstablished(q) \/ ZoneDeleted(q)
  <2>1. PICK q \in Requests : ZoneEstablished(q) \/ ZoneDeleted(q)
    BY <1>4
  <2>2. FormTypes' /\ MapTypes' /\ QueryTypes' /\ attached' \subseteq attached
    BY <2>1, LeaveTypes DEF ZoneEstablished, ZoneDeleted
  <2>3. Pending(q) /\ handler[q] = "done" /\ Ends(q, "ok") /\ UNCHANGED <<plan, row, overtaken>>
    BY <2>1 DEF ZoneEstablished, ZoneDeleted, Answered
  <2>4. overtaken' \subseteq Requests
    BY <1>1, <2>3 DEF SendTypes
  <2>5. SendTypes'
    BY <1>1, <2>2, <2>3, <2>4, EndsTypes
  <2> QED BY <2>2, <2>5, TypeGroups
<1> QED BY <1>2, <1>3, <1>4

\* The backend's row and the page's query for it.
LEMMA QueryStepTypes ==
  ASSUME TypeOK, Read \/ LoadFails \/ Refetch \/ OthersEdit
  PROVE  TypeOK'
<1>1. SendTypes /\ FormTypes /\ MapTypes /\ QueryTypes
  BY TypeGroups
<1>2. UNCHANGED <<plan, req, handler, heard, outcome, attached, overtaken, page, cache>> /\ UNCHANGED canvas
      /\ UNCHANGED <<points, text, editing, handles, dialog, confirm, cleared>>
  BY DEF Read, LoadFails, Refetch, OthersEdit, sending, form, modal, query
<1>3. row' \in Zones /\ entries' \in Entries
  <2>1. CASE OthersEdit
    <3>1. plan \in Plans /\ entries \in Entries /\ row \in Zones
      BY <1>1 DEF SendTypes, FormTypes
    <3>2. entries' \in Entries
      BY <2>1, <3>1, EntriesGrow DEF OthersEdit
    <3>3. row' = [row EXCEPT !.area = [i \in DOMAIN row.area |-> entries'], !.text = entries']
      BY <2>1 DEF OthersEdit
    <3>4. row.area \in Seq(Entries)
      BY <3>1 DEF Zones, Areas
    <3>5. DOMAIN row.area = 1..Len(row.area) /\ Len(row.area) \in Nat
      BY <3>4
    <3>6. [i \in DOMAIN row.area |-> entries'] \in [1..Len(row.area) -> Entries]
      BY <3>2, <3>5
    <3>7. [i \in DOMAIN row.area |-> entries'] \in Areas
      BY <3>5, <3>6 DEF Areas
    <3> QED BY <3>1, <3>2, <3>3, <3>7 DEF Zones
  <2>2. CASE Read \/ LoadFails \/ Refetch
    <3>1. row' = row /\ entries' = entries
      BY <2>2 DEF Read, LoadFails, Refetch, form, modal
    <3> QED BY <1>1, <3>1 DEF SendTypes, FormTypes
  <2> QED BY <2>1, <2>2
<1>4. QueryTypes'
  <2>1. CASE Read
    <3>1. row # None
      BY <1>1, NoneAssumption DEF SendTypes
    <3> QED BY <1>1, <2>1, <3>1 DEF Read, SendTypes, QueryTypes
  <2>2. CASE LoadFails
    BY <1>1, <2>2 DEF LoadFails, QueryTypes
  <2>3. CASE Refetch
    BY <1>1, <2>3 DEF Refetch, QueryTypes
  <2>4. CASE OthersEdit
    BY <1>1, <2>4, QuerySame DEF OthersEdit
  <2> QED BY <2>1, <2>2, <2>3, <2>4
<1>5. SendTypes'
  BY <1>1, <1>2, <1>3 DEF SendTypes
<1>6. FormTypes'
  BY <1>1, <1>2, <1>3 DEF FormTypes, Displayed
<1>7. MapTypes'
  BY <1>1, <1>2, MapSame
<1> QED
  BY <1>4, <1>5, <1>6, <1>7, TypeGroups

\* The editor of a zone.
LEMMA FollowTypes ==
  ASSUME FormTypes, MapTypes, NEW z \in Zones, NEW edits \in BOOLEAN, Follow(z, edits)
  PROVE  points' \in Areas /\ text' \in Entries /\ handles' \in Areas /\ drawn' \in Areas
<1>1. points' \in Areas /\ text' \in Entries
  <2>1. CASE edits
    BY <2>1 DEF Follow, FormTypes
  <2>2. CASE ~edits
    BY <2>2 DEF Follow, Zones
  <2> QED BY <2>1, <2>2
<1>2. handles' \in {points', <<>>} /\ drawn' \in {points', drawn}
  BY DEF Follow
<1>3. <<>> \in Areas /\ drawn \in Areas
  BY DEF Areas, MapTypes
<1> QED
  BY <1>1, <1>2, <1>3

LEMMA DragTypes ==
  ASSUME TypeOK, NEW i \in 1..3, Drag(i)
  PROVE  points' \in Areas /\ text' \in Entries /\ handles' \in Areas /\ drawn' \in Areas /\ entries' \in Entries
<1>1. SendTypes /\ FormTypes
  BY TypeGroups
<1>2. entries' \in Entries
  <2>1. plan \in Plans /\ entries \in Entries
    BY <1>1 DEF SendTypes, FormTypes
  <2> QED BY <2>1, EntriesGrow DEF Drag
<1>3. points' \in Areas /\ handles' \in Areas
  <2>1. \A a \in Areas : [a EXCEPT ![i] = entries'] \in Areas
    <3> SUFFICES ASSUME NEW a \in Seq(Entries) PROVE [a EXCEPT ![i] = entries'] \in Seq(Entries)
      BY DEF Areas
    <3>1. a \in [1..Len(a) -> Entries] /\ Len(a) \in Nat
      OBVIOUS
    <3>2. [a EXCEPT ![i] = entries'] \in [1..Len(a) -> Entries]
      BY <1>2, <3>1
    <3> QED BY <3>1, <3>2
  <2> QED BY <1>1, <2>1 DEF Drag, FormTypes
<1> QED
  BY <1>1, <1>2, <1>3 DEF Drag, FormTypes

LEMMA EditorTypes ==
  ASSUME TypeOK, \/ Apply \/ EditZone \/ CancelEdit
                 \/ \E i \in 1..3 : Drag(i)
                 \/ \E q \in Requests : ZoneSaved(q)
  PROVE  TypeOK'
<1>1. SendTypes /\ FormTypes /\ MapTypes /\ QueryTypes
  BY TypeGroups
<1>2. UNCHANGED <<plan, row, attached, overtaken, page, dialog, confirm, cleared, map, layers, deferred, smooth>>
  BY DEF Apply, EditZone, CancelEdit, Drag, ZoneSaved, modal
<1>3. SendTypes'
  <2>1. CASE Apply \/ EditZone \/ CancelEdit \/ \E i \in 1..3 : Drag(i)
    <3>1. UNCHANGED sending
      BY <2>1 DEF Apply, EditZone, CancelEdit, Drag
    <3> QED BY <1>1, <1>2, <3>1, SendSame
  <2>2. CASE \E q \in Requests : ZoneSaved(q)
    <3>1. PICK q \in Requests : Pending(q) /\ handler[q] = "done" /\ Ends(q, "ok")
      BY <2>2 DEF ZoneSaved, Answered
    <3>2. attached' \subseteq attached /\ overtaken' \subseteq Requests
      BY <1>1, <1>2 DEF SendTypes
    <3> QED BY <1>1, <1>2, <3>1, <3>2, EndsTypes
  <2> QED BY <2>1, <2>2
<1>4. points' \in Areas /\ text' \in Entries /\ handles' \in Areas /\ drawn' \in Areas /\ entries' \in Entries
  <2>1. CASE Apply
    <3>1. reply \in Zones /\ entries' = entries
      BY <1>1, <2>1 DEF Apply, QueryTypes
    <3>2. CASE Follow(reply, FALSE)
      BY <1>1, <3>1, <3>2, FollowTypes DEF FormTypes
    <3>3. CASE UNCHANGED <<points, text, handles, drawn>>
      BY <1>1, <3>1, <3>3 DEF FormTypes, MapTypes
    <3> QED BY <2>1, <3>2, <3>3 DEF Apply
  <2>2. CASE EditZone \/ CancelEdit
    <3>1. cache \in Zones /\ entries' = entries
      BY <1>1, <2>2 DEF EditZone, CancelEdit, Displayed, QueryTypes, FormTypes
    <3>2. PICK edits \in BOOLEAN : Follow(cache, edits)
      BY <2>2 DEF EditZone, CancelEdit
    <3> QED BY <1>1, <3>1, <3>2, FollowTypes DEF FormTypes
  <2>3. CASE \E i \in 1..3 : Drag(i)
    BY <2>3, DragTypes
  <2>4. CASE \E q \in Requests : ZoneSaved(q)
    <3>1. PICK q \in Requests : ZoneSaved(q)
      BY <2>4
    <3>2. entries' = entries
      BY <3>1 DEF ZoneSaved
    <3>3. CASE editing /\ Follow(cache, FALSE)
      <4>1. cache \in Zones
        BY <1>1, <3>3 DEF Displayed, QueryTypes, FormTypes
      <4> QED BY <1>1, <3>2, <3>3, <4>1, FollowTypes DEF FormTypes
    <3>4. CASE UNCHANGED <<points, text, handles, drawn>>
      BY <1>1, <3>2, <3>4 DEF FormTypes, MapTypes
    <3> QED BY <3>1, <3>3, <3>4 DEF ZoneSaved
  <2> QED BY <2>1, <2>2, <2>3, <2>4
<1>5. QueryTypes' /\ (cache # None => cache' # None)
  <2>1. CASE Apply
    BY <1>1, <2>1 DEF Apply, QueryTypes
  <2>2. CASE EditZone \/ CancelEdit \/ \E i \in 1..3 : Drag(i)
    <3>1. UNCHANGED query
      BY <2>2 DEF EditZone, CancelEdit, Drag
    <3> QED BY <1>1, <3>1, QuerySame DEF query
  <2>3. CASE \E q \in Requests : ZoneSaved(q)
    <3>1. PICK q \in Requests : ZoneSaved(q)
      BY <2>3
    <3>2. CASE page = "zone"
      BY <1>1, <3>1, <3>2 DEF ZoneSaved, QueryTypes
    <3>3. CASE page # "zone"
      BY <1>1, <3>1, <3>3 DEF ZoneSaved, QueryTypes
    <3> QED BY <3>2, <3>3
  <2> QED BY <2>1, <2>2, <2>3
<1>6. editing' \in BOOLEAN /\ (editing' => Displayed')
  <2>1. CASE EditZone
    <3>1. editing' = TRUE /\ Displayed /\ UNCHANGED <<page, cache>>
      BY <2>1 DEF EditZone, query
    <3> QED BY <3>1 DEF Displayed
  <2>2. CASE editing' = editing
    BY <1>1, <1>2, <1>5, <2>2 DEF Displayed, FormTypes
  <2>3. CASE editing' = FALSE
    BY <2>3
  <2> QED BY <2>1, <2>2, <2>3 DEF Apply, EditZone, CancelEdit, Drag, ZoneSaved
<1>7. FormTypes'
  <2>1. page = "broadcast" => points' = points
    BY <1>1 DEF Apply, EditZone, CancelEdit, Drag, ZoneSaved, Displayed, FormTypes
  <2> QED BY <1>1, <1>2, <1>4, <1>6, <2>1 DEF FormTypes
<1>8. MapTypes'
  BY <1>1, <1>2, <1>4 DEF MapTypes
<1> QED
  BY <1>3, <1>5, <1>7, <1>8, TypeGroups

\* The map of a page is loaded, or finds its style loaded.
LEMMA MapStepTypes ==
  ASSUME TypeOK, MapLoads \/ StyleData
  PROVE  TypeOK'
<1>1. SendTypes /\ FormTypes /\ MapTypes /\ QueryTypes
  BY TypeGroups
<1>2. UNCHANGED <<plan, row, sending, attached, page, points, text, entries, editing, dialog, confirm, cleared, overtaken>>
      /\ UNCHANGED query
  BY DEF MapLoads, StyleData, form, modal
<1>3. map' = "loaded"
  BY <1>1 DEF MapLoads, StyleData, MapTypes
<1>4. MapTypes' /\ handles' \in Areas
  <2>1. CASE MapLoads /\ page = "zone"
    <3>1. layers' = TRUE /\ drawn' = points /\ UNCHANGED <<deferred, smooth>> /\ handles' \in {points, <<>>}
      BY <2>1 DEF MapLoads
    <3>2. layers' \in BOOLEAN /\ <<>> \in Areas
      BY <3>1 DEF Areas
    <3>3. deferred = <<>>
      BY <1>1, <2>1 DEF MapLoads, MapTypes
    <3>4. drawn' \in Areas /\ handles' \in Areas
      BY <1>1, <3>1, <3>2 DEF FormTypes
    <3>5. deferred' = <<>> /\ deferred' \in Seq({None} \union Areas) /\ smooth' \in BOOLEAN
      BY <1>1, <3>1, <3>3 DEF MapTypes
    <3> QED BY <1>2, <1>3, <2>1, <3>2, <3>4, <3>5 DEF MapTypes
  <2>2. CASE MapLoads /\ page # "zone"
    <3> DEFINE cs == <<None, points>>
    <3>1. PICK n \in Found(cs) : Call(cs, n) /\ deferred' = SubSeq(cs, n + 1, 2)
      BY <2>2 DEF MapLoads
    <3>2. cs \in Seq({None} \union Areas) /\ Len(cs) = 2
      BY <1>1 DEF FormTypes
    <3>3. n \in 0..2
      BY <3>1, <3>2 DEF Found
    <3>4. layers' \in BOOLEAN /\ smooth' \in BOOLEAN /\ drawn' \in Areas
      BY <1>1, <1>3, <3>1, <3>2, <3>3, CallTypes
    <3>5. deferred' \in Seq({None} \union Areas)
      BY <3>1, <3>2, <3>3
    <3> QED BY <1>1, <1>2, <1>3, <2>2, <3>4, <3>5 DEF MapTypes, FormTypes, MapLoads
  <2>3. CASE StyleData
    <3>1. PICK n \in 1..Len(deferred) : Call(deferred, n) /\ deferred' = SubSeq(deferred, n + 1, Len(deferred))
      BY <2>3 DEF StyleData
    <3>2. deferred \in Seq({None} \union Areas) /\ n \in 0..Len(deferred)
      BY <1>1, <3>1 DEF MapTypes
    <3>3. layers' \in BOOLEAN /\ smooth' \in BOOLEAN /\ drawn' \in Areas
      BY <1>1, <1>3, <3>1, <3>2, CallTypes
    <3>4. deferred' \in Seq({None} \union Areas)
      BY <3>1, <3>2
    <3>5. handles' = handles
      BY <1>1, <2>3 DEF StyleData, MapTypes, form, modal
    <3> QED BY <1>1, <1>2, <1>3, <2>3, <3>3, <3>4, <3>5 DEF MapTypes, FormTypes, StyleData
  <2> QED BY <2>1, <2>2, <2>3
<1>5. SendTypes' /\ QueryTypes'
  BY <1>1, <1>2, SendSame, QuerySame
<1>6. FormTypes'
  BY <1>1, <1>2, <1>4 DEF FormTypes, Displayed, query
<1> QED
  BY <1>4, <1>5, <1>6, TypeGroups

LEMMA BroadcastSentTypes ==
  ASSUME TypeOK, NEW q \in Requests, BroadcastSent(q)
  PROVE  TypeOK'
<1>1. SendTypes /\ FormTypes /\ MapTypes /\ QueryTypes
  BY TypeGroups
<1>2. Pending(q) /\ handler[q] = "done" /\ Ends(q, "ok") /\ UNCHANGED <<plan, row, attached, page, entries, editing, handles, map>>
      /\ UNCHANGED query
  BY DEF BroadcastSent, Answered
<1>3. overtaken' \subseteq Requests
  <2>1. overtaken' \in {overtaken, overtaken \union (UnderWay \ {q})}
    BY DEF BroadcastSent
  <2> QED BY <1>1, <2>1, UnderWayRequests DEF SendTypes
<1>4. SendTypes'
  <2>1. attached' \subseteq attached
    BY <1>2
  <2> QED BY <1>1, <1>2, <1>3, <2>1, EndsTypes
<1>5. FormTypes' /\ MapTypes'
  <2>1. CASE q \in attached
    <3>1. points' = <<>> /\ text' = 0 /\ dialog' = FALSE /\ cleared' = FALSE /\ confirm' = FALSE /\ Redraw(<<>>)
      BY <2>1 DEF BroadcastSent
    <3>2. <<>> \in Areas /\ 0 \in Entries
      BY DrawingAssumption DEF Areas, Entries
    <3>3. MapTypes'
      BY <1>1, <1>2, <3>1, <3>2, RedrawTypes
    <3>4. dialog' \in BOOLEAN /\ confirm' \in BOOLEAN /\ (dialog' => page' \in {"broadcast", "zone"})
          /\ cleared' \in BOOLEAN /\ (cleared' => dialog' /\ page' = "broadcast" /\ points' = <<>>)
      BY <3>1, Zenon
    <3>5. UNCHANGED <<page, entries, editing, handles, cache>>
      BY <1>2 DEF query
    <3>6. FormTypes'
      BY <1>1, <3>1, <3>2, <3>4, <3>5 DEF FormTypes, Displayed
    <3> QED BY <3>3, <3>6
  <2>2. CASE q \notin attached
    <3>1. UNCHANGED <<points, text, dialog, confirm, cleared, layers, drawn, deferred, smooth>>
      BY <2>2 DEF BroadcastSent, modal
    <3>2. UNCHANGED form /\ UNCHANGED canvas /\ UNCHANGED <<page, cache>>
      BY <1>2, <3>1 DEF form, modal, canvas, query
    <3> QED BY <1>1, <3>2, FormSame, MapSame
  <2> QED BY <2>1, <2>2
<1>6. QueryTypes'
  BY <1>1, <1>2, QuerySame
<1> QED BY <1>4, <1>5, <1>6, TypeGroups

LEMMA NextTypes == TypeOK /\ [Next]_vars => TypeOK'
<1> SUFFICES ASSUME TypeOK, [Next]_vars PROVE TypeOK'
  OBVIOUS
<1>1. CASE UNCHANGED vars
  <2>1. UNCHANGED <<plan, row, sending, attached, overtaken, page, cache>> /\ UNCHANGED form
        /\ UNCHANGED canvas /\ UNCHANGED query
    BY <1>1 DEF vars, query
  <2> QED BY <2>1, TypeGroups, SendSame, FormSame, MapSame, QuerySame
<1>2. CASE MapLoads \/ StyleData
  BY <1>2, MapStepTypes
<1>3. CASE Click \/ ClearDrawing \/ Type \/ AskToConfirm \/ TypeConfirm \/ CloseDialog \/ OpenDeleteDialog
  BY <1>3, BoardTypes
<1>4. CASE (\E k \in Pages : Navigate(k)) \/ SignIn \/ \E q \in Requests : ZoneEstablished(q) \/ ZoneDeleted(q)
  BY <1>4, LeavingTypes
<1>5. CASE Read \/ LoadFails \/ Refetch \/ OthersEdit
  BY <1>5, QueryStepTypes
<1>6. CASE \/ Apply \/ EditZone \/ CancelEdit
           \/ \E i \in 1..3 : Drag(i)
           \/ \E q \in Requests : ZoneSaved(q)
  BY <1>6, EditorTypes
<1>7. ASSUME NEW q \in Requests, Handle(q) \/ Spread(q) \/ HandlerFails(q)
      PROVE  TypeOK'
  BY <1>7, HandlerTypes
<1>8. ASSUME NEW q \in Requests,
             EstablishZone(q) \/ HandleConfirmExecute(q) \/ HandleSaveEdit(q) \/ HandleDelete(q)
      PROVE  TypeOK'
  <2>1. PICK kind \in Kinds : Begin(q, kind, points, text)
    BY <1>8 DEF EstablishZone, HandleConfirmExecute, HandleSaveEdit, HandleDelete, Kinds
  <2>2. UNCHANGED <<plan, row, page, form, canvas, query, overtaken>>
    BY <1>8 DEF EstablishZone, HandleConfirmExecute, HandleSaveEdit, HandleDelete
  <2> QED BY <2>1, <2>2, BeginTypes
<1>9. ASSUME NEW q \in Requests, BroadcastSent(q)
      PROVE  TypeOK'
  BY <1>9, BroadcastSentTypes
<1>10. ASSUME NEW q \in Requests, Fails(q)
       PROVE  TypeOK'
  BY <1>10, FailsTypes
<1> QED
  BY <1>1, <1>2, <1>3, <1>4, <1>5, <1>6, <1>7, <1>8, <1>9, <1>10 DEF Next

\* Every variable holds what its declaration in the code allows, a page's state goes with the
\* page, and a request that has not been sent has neither a handler nor an outcome.
THEOREM TypeCorrect == Spec => []TypeOK
<1>1. Init => TypeOK
  BY InitTypes
<1>2. TypeOK /\ [Next]_vars => TypeOK'
  BY NextTypes
<1> QED BY <1>1, <1>2, PTL DEF Spec

-----------------------------------------------------------------------------
(***************************************************************************)
(* What is sent is an area, and the one that the map shows.  An area is    *)
(* what the zone has, what its query has read and holds, what its page     *)
(* shows, and what stands behind an open dialog.                           *)
(***************************************************************************)

\* The page that sends a zone or a broadcast is open for as long as the request is attached.
AttachedHere == \A q \in attached : req[q].kind \in Boards => page = req[q].kind

DataAreas ==
    /\ SentIsArea
    /\ Len(row.area) >= 3
    /\ (cache # None => Len(cache.area) >= 3)
    /\ (reply # None => Len(reply.area) >= 3)

PageAreas == Displayed \/ (dialog /\ ~cleared) => Len(points) >= 3

\* An update that waits has spoilt the history.
Shown == ShowsWhatItSends /\ (deferred # <<>> => ~smooth)

DrawnInv == TypeOK /\ AttachedHere /\ DataAreas /\ PageAreas /\ Shown

LEMMA InitDrawn == Init => DrawnInv
<1> SUFFICES ASSUME Init PROVE DrawnInv
  OBVIOUS
<1>1. TypeOK
  BY InitTypes
<1>2. AttachedHere
  BY DEF Init, AttachedHere
<1>3. DataAreas
  BY DEF Init, DataAreas, SentIsArea, Given
<1>4. PageAreas
  BY DEF Init, PageAreas, Displayed
<1>5. Shown
  BY DEF Init, Shown, ShowsWhatItSends, Displayed
<1> QED BY <1>1, <1>2, <1>3, <1>4, <1>5 DEF DrawnInv

LEMMA DataSame == DataAreas /\ UNCHANGED <<req, handler, row, cache, reply>> => DataAreas'
  BY DEF DataAreas, SentIsArea

LEMMA PageSame ==
  ASSUME PageAreas, Shown, UNCHANGED <<page, points, dialog, cleared, editing, handles, cache, map, drawn, smooth, deferred>>
  PROVE  PageAreas' /\ Shown'
BY DEF PageAreas, Shown, ShowsWhatItSends, Displayed, Picture

\* Callbacks that all find the style loaded leave the last one's picture.
LEMMA CallShows ==
  ASSUME NEW cs \in Seq({None} \union Areas), NEW n \in 0..Len(cs), Call(cs, n), smooth',
         cs # <<>>, cs[Len(cs)] # None
  PROVE  drawn' = Picture(cs[Len(cs)])
<1> DEFINE Layered(i) == layers \/ \E j \in 1..i : cs[j] = None
           put == {i \in 1..n : cs[i] # None /\ Layered(i)}
<1>1. drawn' = IF put = {} THEN drawn ELSE Picture(cs[Max(put)])
  BY DEF Call
<1>2. n = Len(cs) /\ \A i \in 1..n : cs[i] = None \/ Layered(i)
  BY DEF Call
<1>3. n \in put
  BY <1>2
<1>4. put \in SUBSET (1..n) /\ n \in Nat
  OBVIOUS
<1>5. Max(put) \in put /\ Max(put) >= n
  BY <1>3, <1>4, MaxIsMember
<1>6. Max(put) = n
  BY <1>4, <1>5
<1> QED
  BY <1>1, <1>2, <1>3, <1>6

\* An update of a board's drawing.
LEMMA RedrawShows ==
  ASSUME MapTypes, Shown, NEW p \in Areas, Redraw(p), map = "loaded"
  PROVE  /\ smooth' => drawn' = Picture(p)
         /\ deferred' # <<>> => ~smooth'
<1>1. PICK n \in Found(<<p>>) :
        Call(<<p>>, n) /\ deferred' = IF n = 1 THEN deferred ELSE Append(deferred, p)
  BY DEF Redraw
<1>2. <<p>> \in Seq({None} \union Areas) /\ Len(<<p>>) = 1 /\ <<p>> # <<>> /\ <<p>>[1] = p /\ p # None
  BY NoneAssumption
<1>3. n \in 0..1
  BY <1>1, <1>2 DEF Found
<1>4. smooth' => drawn' = Picture(p)
  BY <1>1, <1>2, <1>3, CallShows
<1>5. smooth' => smooth /\ n = 1
  BY <1>1, <1>2 DEF Call
<1> QED
  BY <1>1, <1>4, <1>5 DEF Shown

\* Clicks, clearing, and the answer to a broadcast: the drawing of a board changes.
LEMMA BoardShows ==
  ASSUME DrawnInv, points' \in Areas, page \in Boards, Redraw(points'), dialog' => cleared',
         UNCHANGED <<page, editing, handles, map, req, handler, row, cache, reply>>
  PROVE  DataAreas' /\ PageAreas' /\ Shown'
<1>1. FormTypes /\ MapTypes
  BY TypeGroups DEF DrawnInv
<1>2. DataAreas'
  BY DataSame DEF DrawnInv
<1>3. ~Displayed /\ ~Displayed' /\ ~editing'
  BY <1>1 DEF Displayed, Boards, FormTypes
<1>4. PageAreas'
  BY <1>3 DEF PageAreas
<1>5. Shown'
  <2>1. CASE map = "loaded"
    <3>1. (smooth' => drawn' = Picture(points')) /\ (deferred' # <<>> => ~smooth')
      BY <1>1, <2>1, RedrawShows DEF DrawnInv
    <3>2. Picture(points') = Picture(points)'
      BY DEF Picture
    <3> QED BY <1>3, <3>1, <3>2 DEF Shown, ShowsWhatItSends
  <2>2. CASE map # "loaded"
    <3>1. UNCHANGED <<smooth, deferred>>
      BY <2>2 DEF Redraw
    <3> QED BY <1>3, <2>2, <3>1 DEF DrawnInv, Shown, ShowsWhatItSends
  <2> QED BY <2>1, <2>2
<1> QED BY <1>2, <1>4, <1>5

\* Another page opens.
LEMMA GoToShows ==
  ASSUME DrawnInv, NEW k \in Pages, GoTo(k), UNCHANGED <<req, handler, row, cache, reply>>
  PROVE  DataAreas' /\ PageAreas' /\ Shown' /\ AttachedHere'
<1>1. DataAreas'
  BY DataSame DEF DrawnInv
<1>2. page' = k /\ attached' = {} /\ editing' = FALSE /\ dialog' = FALSE /\ deferred' = <<>>
      /\ map' # "loaded"
  BY DEF GoTo
<1>3. Displayed' => k = "zone" /\ cache # None /\ points' = cache.area
  BY DEF GoTo, Displayed
<1>4. PageAreas'
  BY <1>2, <1>3 DEF PageAreas, DrawnInv, DataAreas
<1>5. Shown'
  BY <1>2, <1>3 DEF Shown, ShowsWhatItSends
<1>6. AttachedHere'
  BY <1>2 DEF AttachedHere
<1> QED BY <1>1, <1>4, <1>5, <1>6

\* What a request may send.
Sendable(kind) == Len(points) >= 3 \/ (kind = "broadcast" /\ points = <<>>)

\* A request is sent.
LEMMA BeginShows ==
  ASSUME DrawnInv, NEW q \in Requests, NEW kind \in Kinds, Begin(q, kind, points, text),
         kind \in Boards => page = kind, Sendable(kind),
         UNCHANGED <<plan, row, page, form, canvas, query, overtaken>>
  PROVE  DataAreas' /\ PageAreas' /\ Shown' /\ AttachedHere'
<1> DEFINE b == [kind |-> kind, area |-> points, text |-> text]
<1>1. SendTypes
  BY TypeGroups DEF DrawnInv
<1>2. req' = [req EXCEPT ![q] = b] /\ req[q] = None /\ attached' = attached \union {q}
  BY DEF Begin
<1>3. req'[q] = b /\ \A r \in Requests : r # q => req'[r] = req[r]
  BY <1>1, <1>2 DEF SendTypes
<1>4. SentIsArea'
  <2>1. handler'[q] = "asked" /\ \A r \in Requests : r # q => handler'[r] = handler[r]
    BY <1>1 DEF Begin, SendTypes
  <2> QED BY <1>3, <2>1 DEF DrawnInv, DataAreas, SentIsArea, Sendable, Hollow
<1>5. DataAreas'
  BY <1>4 DEF DrawnInv, DataAreas, query
<1>6. AttachedHere'
  <2> SUFFICES ASSUME NEW r \in attached', req'[r].kind \in Boards PROVE page' = req'[r].kind
    BY DEF AttachedHere
  <2>1. CASE r = q
    BY <1>3, <2>1
  <2>2. CASE r # q
    BY <1>1, <1>2, <1>3, <2>2 DEF DrawnInv, AttachedHere, SendTypes
  <2> QED BY <2>1, <2>2
<1>7. PageAreas' /\ Shown'
  BY PageSame DEF DrawnInv, form, modal, canvas, query
<1> QED BY <1>5, <1>6, <1>7

\* The backend works on a request: an area replaces an area.
LEMMA HandlerShows ==
  ASSUME DrawnInv, NEW q \in Requests, Handle(q) \/ Spread(q) \/ HandlerFails(q)
  PROVE  DataAreas' /\ PageAreas' /\ Shown' /\ AttachedHere'
<1>1. SendTypes
  BY TypeGroups DEF DrawnInv
<1>2. UNCHANGED <<req, attached>> /\ UNCHANGED page /\ UNCHANGED form /\ UNCHANGED canvas /\ UNCHANGED query
  BY DEF Handle, Spread, HandlerFails
<1>3. req[q] \in Wishes /\ req[q] # None
  BY <1>1, NoneAssumption DEF SendTypes, Handle, Spread, HandlerFails
<1>4. Len(row'.area) >= 3
  <2>1. CASE row' = row
    BY <2>1 DEF DrawnInv, DataAreas
  <2>2. CASE row'.area = row.area
    BY <2>2 DEF DrawnInv, DataAreas
  <2>3. CASE row'.area = req[q].area /\ req[q].kind = "save"
    BY <1>3, <2>3 DEF DrawnInv, DataAreas, SentIsArea, Hollow
  <2>4. \/ row' \in {row, [row EXCEPT !.active = FALSE]}
        \/ req[q].kind = "save" /\ row' = [row EXCEPT !.area = req[q].area, !.text = req[q].text]
    BY DEF Handle, Spread, HandlerFails, Statement
  <2>5. row' = row \/ row'.area = row.area \/ (row'.area = req[q].area /\ req[q].kind = "save")
    BY <1>1, <2>4 DEF SendTypes, Zones
  <2> QED BY <2>1, <2>2, <2>3, <2>5
<1>5. DataAreas'
  <2>1. Hollow(req[q]) => Len(req[q].area) >= 3 \/ handler'[q] = "failed"
    BY <1>1, <1>3 DEF Handle, Spread, HandlerFails, SendTypes, DrawnInv, DataAreas, SentIsArea
  <2>2. \A r \in Requests : r # q => handler'[r] = handler[r]
    BY <1>1 DEF Handle, Spread, HandlerFails, SendTypes
  <2>3. SentIsArea'
    BY <1>2, <1>3, <2>1, <2>2 DEF DrawnInv, DataAreas, SentIsArea, Hollow
  <2> QED BY <1>2, <1>4, <2>3 DEF DrawnInv, DataAreas, query
<1>6. PageAreas' /\ Shown'
  BY <1>2, PageSame DEF DrawnInv, form, modal, canvas, query
<1>7. AttachedHere'
  BY <1>2 DEF DrawnInv, AttachedHere
<1> QED BY <1>5, <1>6, <1>7

\* The row and the page's query for it.
LEMMA QueryShows ==
  ASSUME DrawnInv, Read \/ LoadFails \/ Refetch \/ OthersEdit
  PROVE  DataAreas' /\ PageAreas' /\ Shown' /\ AttachedHere'
<1>1. SendTypes
  BY TypeGroups DEF DrawnInv
<1>2. UNCHANGED <<req, handler, attached, page, cache, points, text, editing, handles, dialog, cleared>> /\ UNCHANGED canvas
  BY DEF Read, LoadFails, Refetch, OthersEdit, sending, form, modal, query
<1>3. Len(row'.area) >= 3
  <2>1. CASE OthersEdit
    <3>1. row.area \in Seq(Entries)
      BY <1>1 DEF SendTypes, Zones, Areas
    <3>2. row'.area = [i \in 1..Len(row.area) |-> entries']
      BY <1>1, <2>1, <3>1 DEF OthersEdit, SendTypes, Zones
    <3>3. Len(row'.area) = Len(row.area)
      BY <3>1, <3>2
    <3> QED BY <3>3 DEF DrawnInv, DataAreas
  <2>2. CASE row' = row
    BY <2>2 DEF DrawnInv, DataAreas
  <2> QED BY <2>1, <2>2 DEF Read, LoadFails, Refetch
<1>4. reply' \in {None, reply, row}
  BY DEF Read, LoadFails, Refetch, OthersEdit, query
<1>5. DataAreas'
  BY <1>2, <1>3, <1>4 DEF DrawnInv, DataAreas, SentIsArea
<1>6. PageAreas' /\ Shown'
  BY <1>2, PageSame DEF DrawnInv, canvas
<1>7. AttachedHere'
  BY <1>2 DEF DrawnInv, AttachedHere
<1> QED BY <1>5, <1>6, <1>7

\* The map of a page is loaded, or finds its style loaded.
LEMMA MapShows ==
  ASSUME DrawnInv, MapLoads \/ StyleData
  PROVE  DataAreas' /\ PageAreas' /\ Shown' /\ AttachedHere'
<1>1. FormTypes /\ MapTypes
  BY TypeGroups DEF DrawnInv
<1>2. UNCHANGED <<row, req, handler, attached, page, points, editing, dialog, cleared, cache, reply>>
  BY DEF MapLoads, StyleData, sending, form, modal, query
<1>3. DataAreas' /\ AttachedHere'
  BY <1>2, DataSame DEF DrawnInv, AttachedHere
<1>4. PageAreas'
  BY <1>2 DEF DrawnInv, PageAreas, Displayed, modal
<1>5. Displayed' /\ ~editing' => points' = cache'.area
  BY <1>2 DEF DrawnInv, Shown, ShowsWhatItSends, Displayed
<1>6. Shown'
  <2>1. CASE MapLoads /\ page = "zone"
    <3>1. deferred' = <<>> /\ drawn' = points' /\ Picture(points)' = points'
          /\ (editing' => handles' = points')
      BY <1>1, <1>2, <2>1 DEF MapLoads, MapTypes, Picture
    <3> QED BY <1>5, <3>1 DEF Shown, ShowsWhatItSends
  <2>2. CASE MapLoads /\ page # "zone"
    <3> DEFINE cs == <<None, points>>
    <3>1. PICK n \in Found(cs) : Call(cs, n) /\ deferred' = SubSeq(cs, n + 1, 2)
      BY <2>2 DEF MapLoads
    <3>2. points \in Areas /\ points # None
      BY <1>1, NoneAssumption DEF FormTypes
    <3>3. cs \in Seq({None} \union Areas) /\ Len(cs) = 2 /\ cs # <<>> /\ cs[2] = points
      BY <3>2
    <3>4. n \in 0..2
      BY <3>1, <3>3 DEF Found
    <3>5. smooth' => drawn' = Picture(points)
      BY <3>1, <3>2, <3>3, <3>4, CallShows
    <3>6. smooth' => n = 2
      BY <3>1, <3>3 DEF Call
    <3>7. deferred' # <<>> => ~smooth'
      BY <3>1, <3>3, <3>4, <3>6
    <3>8. ~editing' /\ Picture(points)' = Picture(points)
      BY <1>1, <1>2, <2>2 DEF FormTypes, Displayed, Picture
    <3> QED BY <1>5, <3>5, <3>7, <3>8 DEF Shown, ShowsWhatItSends
  <2>3. CASE StyleData
    <3>1. ~smooth /\ map' = map /\ handles' = handles
      BY <2>3 DEF StyleData, DrawnInv, Shown, form, modal
    <3>2. ~smooth'
      BY <2>3, <3>1 DEF StyleData, Call
    <3> QED BY <1>2, <1>5, <3>1, <3>2 DEF DrawnInv, Shown, ShowsWhatItSends
  <2> QED BY <2>1, <2>2, <2>3
<1> QED BY <1>3, <1>4, <1>6

\* The effects of the zone's page.
LEMMA FollowShows ==
  ASSUME DrawnInv, NEW z \in Zones, Len(z.area) >= 3, page = "zone",
         \/ ~editing' /\ Follow(z, FALSE) /\ cache' = z
         \/ editing' /\ Follow(z, TRUE) /\ cache # None,
         UNCHANGED <<page, dialog, cleared, map, smooth, deferred>>
  PROVE  PageAreas' /\ Shown'
<1>1. drawn' = (IF map = "loaded" THEN points' ELSE drawn) /\ (editing' /\ map = "loaded" => handles' = points')
  BY DEF Follow
<1>2. Len(points') >= 3
  <2>1. CASE ~editing'
    BY <2>1 DEF Follow
  <2>2. CASE editing'
    BY <2>2 DEF Follow, DrawnInv, PageAreas, Displayed
  <2> QED BY <2>1, <2>2
<1>3. ~editing' => points' = cache'.area
  BY DEF Follow
<1>4. Picture(points)' = points'
  BY DEF Picture
<1> QED
  BY <1>1, <1>2, <1>3, <1>4 DEF DrawnInv, PageAreas, Shown, ShowsWhatItSends

LEMMA DragShows ==
  ASSUME DrawnInv, NEW i \in 1..3, Drag(i)
  PROVE  PageAreas' /\ Shown'
<1>1. FormTypes /\ MapTypes
  BY TypeGroups DEF DrawnInv
<1>2. Displayed /\ page = "zone" /\ editing' /\ UNCHANGED <<page, cache, map, smooth, deferred>>
  BY <1>1 DEF Drag, FormTypes, Displayed, query
<1>3. points \in Seq(Entries) /\ points' = [points EXCEPT ![i] = entries'] /\ drawn' = points'
  BY <1>1 DEF Drag, FormTypes, Areas
<1>4. Len(points') = Len(points)
  BY <1>3
<1>5. Len(points') >= 3
  BY <1>2, <1>4 DEF DrawnInv, PageAreas
<1>6. map = "loaded" => handles' = points'
  BY <1>2 DEF Drag, DrawnInv, Shown, ShowsWhatItSends
<1>7. Picture(points)' = points'
  BY <1>2 DEF Picture
<1> QED
  BY <1>2, <1>3, <1>5, <1>6, <1>7 DEF DrawnInv, PageAreas, Shown, ShowsWhatItSends

LEMMA EditorShows ==
  ASSUME DrawnInv, \/ Apply \/ EditZone \/ CancelEdit
                   \/ \E i \in 1..3 : Drag(i)
                   \/ \E q \in Requests : ZoneSaved(q)
  PROVE  DataAreas' /\ PageAreas' /\ Shown' /\ AttachedHere'
<1>1. FormTypes /\ MapTypes /\ QueryTypes
  BY TypeGroups DEF DrawnInv
<1>2. UNCHANGED <<row, req, handler, attached, page, dialog, cleared, map, layers, deferred, smooth>>
  BY DEF Apply, EditZone, CancelEdit, Drag, ZoneSaved, Ends, sending, modal
<1>3. AttachedHere'
  BY <1>2 DEF DrawnInv, AttachedHere
<1>4. cache' \in {cache, reply} /\ reply' \in {None, reply}
  BY DEF Apply, EditZone, CancelEdit, Drag, ZoneSaved, query
<1>5. DataAreas'
  BY <1>2, <1>4 DEF DrawnInv, DataAreas, SentIsArea
<1>6. PageAreas' /\ Shown'
  <2>1. CASE Apply
    <3>1. reply \in Zones /\ reply # None /\ cache' = reply /\ editing' = editing
      BY <1>1, <2>1 DEF Apply, QueryTypes
    <3>2. CASE page = "zone" /\ cache # reply /\ ~editing
      <4>1. Follow(reply, FALSE) /\ Len(reply.area) >= 3
        BY <2>1, <3>1, <3>2 DEF Apply, DrawnInv, DataAreas
      <4> QED BY <1>2, <3>1, <3>2, <4>1, FollowShows
    <3>3. CASE ~(page = "zone" /\ cache # reply /\ ~editing)
      <4>1. UNCHANGED <<points, text, handles, drawn>>
        BY <2>1, <3>3 DEF Apply
      <4>2. Displayed' => Displayed /\ (~editing => cache' = cache)
        BY <1>1, <1>2, <3>1, <3>3 DEF Displayed, FormTypes
      <4>3. Picture(points)' = Picture(points)
        BY <1>2, <4>1 DEF Picture
      <4> QED BY <1>2, <3>1, <4>1, <4>2, <4>3 DEF DrawnInv, PageAreas, Shown, ShowsWhatItSends
    <3> QED BY <3>2, <3>3
  <2>2. CASE EditZone
    <3>1. cache \in Zones /\ cache # None /\ page = "zone" /\ Len(cache.area) >= 3
      BY <1>1, <2>2 DEF EditZone, Displayed, QueryTypes, DrawnInv, DataAreas
    <3>2. editing' /\ Follow(cache, TRUE)
      BY <2>2 DEF EditZone
    <3> QED BY <1>2, <3>1, <3>2, FollowShows
  <2>3. CASE CancelEdit \/ \E q \in Requests : ZoneSaved(q) /\ q \in attached /\ editing
    <3>1. cache \in Zones /\ cache # None /\ page = "zone" /\ Len(cache.area) >= 3
      BY <1>1, <2>3 DEF CancelEdit, Displayed, QueryTypes, FormTypes, DrawnInv, DataAreas
    <3>2. ~editing' /\ Follow(cache, FALSE) /\ cache' = cache
      BY <2>3 DEF CancelEdit, ZoneSaved, query
    <3> QED BY <1>2, <3>1, <3>2, FollowShows
  <2>4. CASE \E i \in 1..3 : Drag(i)
    BY <2>4, DragShows
  <2>5. CASE \E q \in Requests : ZoneSaved(q) /\ ~(q \in attached /\ editing)
    <3>1. UNCHANGED <<points, editing, handles, drawn, cache>>
      BY <2>5 DEF ZoneSaved
    <3> QED BY <1>2, <3>1, PageSame DEF DrawnInv
  <2> QED BY <2>1, <2>2, <2>3, <2>4, <2>5
<1> QED BY <1>3, <1>5, <1>6

LEMMA FormShows ==
  ASSUME DrawnInv, Click \/ ClearDrawing \/ Type \/ AskToConfirm \/ TypeConfirm \/ CloseDialog
                   \/ OpenDeleteDialog
  PROVE  DataAreas' /\ PageAreas' /\ Shown' /\ AttachedHere'
<1>1. FormTypes /\ TypeOK'
  BY TypeGroups, BoardTypes DEF DrawnInv
<1>2. UNCHANGED <<row, req, handler, attached, page, editing, handles, map, cache, reply>>
  BY DEF Click, ClearDrawing, Type, AskToConfirm, TypeConfirm, CloseDialog, OpenDeleteDialog, sending,
         canvas, query
<1>3. AttachedHere'
  BY <1>2 DEF DrawnInv, AttachedHere
<1>4. CASE Click \/ ClearDrawing
  <2>1. points' \in Areas
    BY <1>1, TypeGroups DEF FormTypes
  <2>2. page \in Boards /\ Redraw(points')
    BY <1>4 DEF Click, ClearDrawing
  <2>3. dialog' => cleared'
    BY <1>1, <1>4 DEF Click, ClearDrawing, Covered, FormTypes, modal
  <2> QED BY <1>2, <1>3, <2>1, <2>2, <2>3, BoardShows
<1>5. CASE Type \/ AskToConfirm \/ TypeConfirm \/ CloseDialog \/ OpenDeleteDialog
  <2>1. points' = points /\ UNCHANGED <<drawn, smooth, deferred>>
    BY <1>5 DEF Type, AskToConfirm, TypeConfirm, CloseDialog, OpenDeleteDialog, canvas
  <2>2. dialog' /\ ~cleared' => (dialog /\ ~cleared) \/ Displayed \/ Len(points) >= 3
    BY <1>5 DEF Type, AskToConfirm, TypeConfirm, CloseDialog, OpenDeleteDialog, modal
  <2>3. PageAreas'
    BY <1>2, <2>1, <2>2 DEF DrawnInv, PageAreas, Displayed
  <2>4. Shown'
    BY <1>2, <2>1 DEF DrawnInv, Shown, ShowsWhatItSends, Displayed, Picture
  <2>5. DataAreas'
    BY <1>2, DataSame DEF DrawnInv
  <2> QED BY <1>3, <2>3, <2>4, <2>5
<1> QED BY <1>4, <1>5

LEMMA SendingShows ==
  ASSUME DrawnInv, NEW q \in Requests,
         EstablishZone(q) \/ HandleConfirmExecute(q) \/ HandleSaveEdit(q) \/ HandleDelete(q)
  PROVE  DataAreas' /\ PageAreas' /\ Shown' /\ AttachedHere'
<1>1. FormTypes
  BY TypeGroups DEF DrawnInv
<1>3. /\ EstablishZone(q) \/ HandleSaveEdit(q) \/ HandleDelete(q) => Len(points) >= 3
      /\ HandleConfirmExecute(q) => Sendable("broadcast")
  BY <1>1 DEF EstablishZone, HandleConfirmExecute, HandleSaveEdit, HandleDelete, DrawnInv, PageAreas,
              FormTypes, Sendable
<1>2. PICK kind \in Kinds :
        Begin(q, kind, points, text) /\ (kind \in Boards => page = kind) /\ Sendable(kind)
  BY <1>3 DEF EstablishZone, HandleConfirmExecute, HandleSaveEdit, HandleDelete, Kinds, Boards, Sendable
<1>4. UNCHANGED <<plan, row, page, form, canvas, query, overtaken>>
  BY DEF EstablishZone, HandleConfirmExecute, HandleSaveEdit, HandleDelete
<1> QED BY <1>2, <1>4, BeginShows

LEMMA BroadcastSentShows ==
  ASSUME DrawnInv, NEW q \in Requests, BroadcastSent(q)
  PROVE  DataAreas' /\ PageAreas' /\ Shown' /\ AttachedHere'
<1>1. UNCHANGED <<row, req, handler, attached, page, editing, handles, map, cache, reply>>
  BY DEF BroadcastSent, Ends, query
<1>2. AttachedHere'
  BY <1>1 DEF DrawnInv, AttachedHere
<1>3. CASE q \in attached
  <2>1. points' = <<>> /\ ~dialog' /\ Redraw(points')
    BY <1>3 DEF BroadcastSent
  <2>2. points' \in Areas
    BY <2>1 DEF Areas
  <2>3. page \in Boards
    BY <1>3 DEF BroadcastSent, Answered, DrawnInv, AttachedHere, Boards
  <2> QED BY <1>1, <1>2, <2>1, <2>2, <2>3, BoardShows
<1>4. CASE q \notin attached
  <2>1. UNCHANGED <<points, dialog, cleared, drawn, deferred, smooth>>
    BY <1>4 DEF BroadcastSent, modal
  <2> QED BY <1>1, <1>2, <2>1, PageSame, DataSame DEF DrawnInv
<1> QED BY <1>3, <1>4

LEMMA LeavingShows ==
  ASSUME DrawnInv,
         \/ \E k \in Pages : Navigate(k)
         \/ SignIn
         \/ \E q \in Requests : ZoneEstablished(q) \/ ZoneDeleted(q)
  PROVE  DataAreas' /\ PageAreas' /\ Shown' /\ AttachedHere'
<1>1. UNCHANGED <<req, handler, row, cache, reply>>
  BY DEF Navigate, SignIn, ZoneEstablished, ZoneDeleted, Ends, sending
<1>2. CASE \E k \in Pages : GoTo(k)
  BY <1>1, <1>2, GoToShows
<1>3. CASE ~ \E k \in Pages : GoTo(k)
  <2>1. \A k \in Pages : Reached(k) \in Pages
    BY DEF Reached, Pages
  <2>2. "command" \in Pages
    BY DEF Pages
  <2>3. UNCHANGED <<attached, page, points, editing, handles, dialog, cleared>> /\ UNCHANGED canvas
    BY <1>3, <2>1, <2>2 DEF Navigate, SignIn, ZoneEstablished, ZoneDeleted, Leave, modal
  <2>4. PageAreas' /\ Shown'
    BY <1>1, <2>3, PageSame DEF DrawnInv, canvas
  <2> QED BY <1>1, <2>3, <2>4, DataSame DEF DrawnInv, AttachedHere
<1> QED BY <1>2, <1>3

LEMMA NextDrawn == DrawnInv /\ [Next]_vars => DrawnInv'
<1> SUFFICES ASSUME DrawnInv, [Next]_vars PROVE DrawnInv'
  OBVIOUS
<1>1. TypeOK'
  BY NextTypes DEF DrawnInv
<1> DEFINE Goal == DataAreas' /\ PageAreas' /\ Shown' /\ AttachedHere'
<1> SUFFICES Goal
  BY <1>1 DEF DrawnInv
<1>2. CASE UNCHANGED vars
  <2>1. UNCHANGED <<row, req, handler, attached, page, points, dialog, cleared, editing, handles, cache, reply, map, drawn,
                    smooth, deferred>>
    BY <1>2 DEF vars, sending, form, modal, canvas, query
  <2> QED BY <2>1, DataSame, PageSame DEF DrawnInv, AttachedHere
<1>3. CASE MapLoads \/ StyleData
  BY <1>3, MapShows
<1>4. CASE Click \/ ClearDrawing \/ Type \/ AskToConfirm \/ TypeConfirm \/ CloseDialog \/ OpenDeleteDialog
  BY <1>4, FormShows
<1>5. CASE (\E k \in Pages : Navigate(k)) \/ SignIn \/ \E q \in Requests : ZoneEstablished(q) \/ ZoneDeleted(q)
  BY <1>5, LeavingShows
<1>6. CASE Read \/ LoadFails \/ Refetch \/ OthersEdit
  BY <1>6, QueryShows
<1>7. CASE \/ Apply \/ EditZone \/ CancelEdit
           \/ \E i \in 1..3 : Drag(i)
           \/ \E q \in Requests : ZoneSaved(q)
  BY <1>7, EditorShows
<1>8. ASSUME NEW q \in Requests, Handle(q) \/ Spread(q) \/ HandlerFails(q)
      PROVE  Goal
  BY <1>8, HandlerShows
<1>9. ASSUME NEW q \in Requests,
             EstablishZone(q) \/ HandleConfirmExecute(q) \/ HandleSaveEdit(q) \/ HandleDelete(q)
      PROVE  Goal
  BY <1>9, SendingShows
<1>10. ASSUME NEW q \in Requests, BroadcastSent(q)
       PROVE  Goal
  BY <1>10, BroadcastSentShows
<1>11. ASSUME NEW q \in Requests, Fails(q)
       PROVE  Goal
  <2>1. UNCHANGED <<row, req, handler, attached, page, points, dialog, cleared, editing, handles, cache, reply, map, drawn,
                    smooth, deferred>>
    BY <1>11 DEF Fails, Ends, form, modal, canvas, query
  <2> QED BY <2>1, DataSame, PageSame DEF DrawnInv, AttachedHere
<1> QED
  BY <1>2, <1>3, <1>4, <1>5, <1>6, <1>7, <1>8, <1>9, <1>10, <1>11 DEF Next

\* Whatever late answers, refetches and other desks do meanwhile, no area is sent with fewer than
\* three points, but a broadcast's that was cleared behind its dialog, which then has none and is
\* not carried out; and a map that has not been busy shows the area that will be sent.
THEOREM WhatIsSentIsShown == Spec => []AreaIsShown
<1>1. Init => DrawnInv
  BY InitDrawn
<1>2. DrawnInv /\ [Next]_vars => DrawnInv'
  BY NextDrawn
<1>3. DrawnInv => AreaIsShown
  BY TypeGroups DEF DrawnInv, DataAreas, PageAreas, Shown, AreaIsShown, SendsArea, FormTypes
<1> QED BY <1>1, <1>2, <1>3, PTL DEF Spec

-----------------------------------------------------------------------------
(***************************************************************************)
(* An answer clears what it is the answer to.  A click enters a point that *)
(* no area has yet, so an answered drawing shares none with the open one;  *)
(* and while the dialog of a broadcast is open, what was sent from it is   *)
(* still what the page holds.                                              *)
(***************************************************************************)

Corners(p) == {p[i] : i \in DOMAIN p}

\* A drawing that its page no longer waits for.
Past(q) == req[q] # None /\ req[q].kind \in Boards /\ (outcome[q] = "ok" \/ q \notin attached)

Apart ==
    /\ page \in Boards => \A e \in Corners(points) : e <= entries
    /\ page \in Boards => \A q \in Requests : Past(q) => Corners(points) \cap Corners(req[q].area) = {}
    /\ \A q \in Requests : req[q] # None /\ req[q].kind \in Boards =>
          \A e \in Corners(req[q].area) : e <= entries

Held ==
    \A q \in attached \ overtaken : req[q].kind = "broadcast" /\ outcome[q] = "none" =>
        dialog /\ points = req[q].area /\ text = req[q].text

AnswersInv == DrawnInv /\ Apart /\ Held

LEMMA InitAnswers == Init => AnswersInv
<1> SUFFICES ASSUME Init PROVE AnswersInv
  OBVIOUS
<1>1. DrawnInv
  BY InitDrawn
<1>2. points = <<>> /\ Corners(points) = {} /\ attached = {} /\ \A q \in Requests : req[q] = None
  BY DEF Init, Corners
<1> QED BY <1>1, <1>2 DEF AnswersInv, Apart, Held, Past

LEMMA CornersAreEntries ==
  ASSUME NEW p \in Areas, NEW e \in Corners(p)
  PROVE  e \in Nat
BY DrawingAssumption DEF Areas, Corners, Entries

\* Neither the drawing nor what is sent changes, and no request of a board ends well.
LEMMA ApartSame ==
  ASSUME Apart, UNCHANGED <<page, req, attached>>, page \in Boards => points' = points,
         entries' = entries \/ entries' = entries + 1, entries \in Nat, TypeOK,
         \A q \in Requests : outcome'[q] = "ok" /\ q \in attached => outcome[q] = "ok" \/ req[q].kind \notin Boards
  PROVE  Apart'
<1>1. \A q \in Requests : Past(q)' => Past(q)
  BY DEF Past
<1>2. FormTypes /\ SendTypes
  BY TypeGroups
<1>3. \A p \in Areas : \A e \in Corners(p) : e \in Nat
  BY CornersAreEntries
<1>4. page' \in Boards => \A e \in Corners(points)' : e <= entries'
  <2> SUFFICES ASSUME page \in Boards, NEW e \in Corners(points) PROVE e <= entries'
    BY DEF Corners
  <2>1. e \in Nat /\ e <= entries
    BY <1>2, <1>3 DEF FormTypes, Apart
  <2> QED BY <2>1
<1>5. \A q \in Requests : req'[q] # None /\ req'[q].kind \in Boards =>
         \A e \in Corners(req[q].area)' : e <= entries'
  <2> SUFFICES ASSUME NEW q \in Requests, req[q] # None, req[q].kind \in Boards,
                      NEW e \in Corners(req[q].area)
               PROVE  e <= entries'
    BY DEF Corners
  <2>1. req[q].area \in Areas
    BY <1>2 DEF SendTypes, Wishes
  <2>2. e \in Nat /\ e <= entries
    BY <1>3, <2>1 DEF Apart
  <2> QED BY <2>2
<1>6. page' \in Boards => \A q \in Requests : Past(q)' => Corners(points)' \cap Corners(req[q].area)' = {}
  BY <1>1 DEF Apart, Corners
<1> QED BY <1>4, <1>5, <1>6 DEF Apart

\* The drawing is cleared, or the page is none.
LEMMA ApartCleared ==
  ASSUME Apart, UNCHANGED <<req, entries>>, page' \in Boards => points' = <<>>
  PROVE  Apart'
<1>1. page' \in Boards => Corners(points)' = {}
  BY DEF Corners
<1> QED BY <1>1 DEF Apart, Corners

\* A click enters a new point.
LEMMA ApartClick ==
  ASSUME AnswersInv, Click
  PROVE  Apart'
<1>1. FormTypes /\ SendTypes
  BY TypeGroups DEF AnswersInv, DrawnInv
<1>2. UNCHANGED <<page, req, outcome, attached>> /\ page \in Boards /\ entries' = entries + 1
      /\ points' = Append(points, entries')
  BY DEF Click, sending
<1>3. points \in Seq(Entries) /\ entries \in Nat /\ Entries \subseteq Nat
  BY <1>1, DrawingAssumption DEF FormTypes, Areas, Entries
<1>4. \A e \in Corners(points') : e = entries' \/ e \in Corners(points)
  BY <1>2, <1>3 DEF Corners
<1>5. \A e \in Corners(points) : e \in Nat /\ e <= entries
  <2>1. \A e \in Corners(points) : e <= entries
    BY <1>2 DEF AnswersInv, Apart
  <2>2. \A e \in Corners(points) : e \in Nat
    BY <1>1, CornersAreEntries DEF FormTypes
  <2> QED BY <2>1, <2>2
<1>6. \A q \in Requests : req[q] # None /\ req[q].kind \in Boards =>
        \A e \in Corners(req[q].area) : e \in Nat /\ e <= entries
  <2> SUFFICES ASSUME NEW q \in Requests, req[q] # None, req[q].kind \in Boards,
                      NEW e \in Corners(req[q].area)
               PROVE  e \in Nat /\ e <= entries
    OBVIOUS
  <2>1. req[q].area \in Areas
    BY <1>1 DEF SendTypes, Wishes
  <2>2. e \in Nat
    BY <2>1, CornersAreEntries
  <2> QED BY <2>2 DEF AnswersInv, Apart
<1>7. \A e \in Corners(points') : e <= entries'
  BY <1>2, <1>3, <1>4, <1>5
<1>8. \A q \in Requests : Past(q) => Corners(points') \cap Corners(req[q].area) = {}
  <2> SUFFICES ASSUME NEW q \in Requests, Past(q), NEW e \in Corners(points'), e \in Corners(req[q].area)
               PROVE  FALSE
    OBVIOUS
  <2>1. e \in Nat /\ e <= entries
    BY <1>6 DEF Past
  <2>2. e \in Corners(points)
    BY <1>2, <1>3, <1>4, <2>1
  <2> QED BY <1>2, <2>2 DEF AnswersInv, Apart
<1>9. \A q \in Requests : req[q] # None /\ req[q].kind \in Boards =>
        \A e \in Corners(req[q].area) : e <= entries'
  <2> SUFFICES ASSUME NEW q \in Requests, req[q] # None, req[q].kind \in Boards,
                      NEW e \in Corners(req[q].area)
               PROVE  e <= entries'
    OBVIOUS
  <2>1. e \in Nat /\ e <= entries
    BY <1>6
  <2> QED BY <1>2, <1>3, <2>1
<1>10. Corners(points)' = Corners(points') /\ \A q \in Requests : Corners(req[q].area)' = Corners(req[q].area)
  BY <1>2 DEF Corners
<1>11. \A q \in Requests : Past(q)' <=> Past(q)
  BY <1>2 DEF Past
<1> QED
  BY <1>2, <1>7, <1>8, <1>9, <1>10, <1>11 DEF Apart

\* What is sent from a board is its drawing.
LEMMA ApartSends ==
  ASSUME AnswersInv, NEW q \in Requests, NEW kind \in Kinds, Begin(q, kind, points, text),
         kind \in Boards => page = kind, UNCHANGED <<page, form>>
  PROVE  Apart'
<1> DEFINE b == [kind |-> kind, area |-> points, text |-> text]
<1>1. SendTypes
  BY TypeGroups DEF AnswersInv, DrawnInv
<1>2. /\ req' = [req EXCEPT ![q] = b] /\ req[q] = None /\ attached' = attached \union {q}
      /\ outcome' = outcome /\ UNCHANGED <<points, entries>>
  BY DEF Begin, form, modal
<1>3. req'[q] = b /\ \A r \in Requests : r # q => req'[r] = req[r]
  BY <1>1, <1>2 DEF SendTypes
<1>4. outcome'[q] = "none"
  BY <1>1, <1>2 DEF SendTypes
<1>5. \A r \in Requests : Past(r)' => r # q /\ Past(r)
  BY <1>2, <1>3, <1>4 DEF Past
<1>6. page' \in Boards => \A r \in Requests : Past(r)' => Corners(points)' \cap Corners(req[r].area)' = {}
  BY <1>2, <1>3, <1>5 DEF AnswersInv, Apart, Corners
<1>7. \A r \in Requests : req'[r] # None /\ req'[r].kind \in Boards =>
        \A e \in Corners(req[r].area)' : e <= entries'
  <2> SUFFICES ASSUME NEW r \in Requests, req'[r] # None, req'[r].kind \in Boards
               PROVE  \A e \in Corners(req'[r].area) : e <= entries
    BY <1>2 DEF Corners
  <2>1. CASE r = q
    <3>1. req'[r].area = points /\ page \in Boards
      BY <1>3, <2>1
    <3> QED BY <3>1 DEF AnswersInv, Apart
  <2>2. CASE r # q
    BY <1>3, <2>2 DEF AnswersInv, Apart
  <2> QED BY <2>1, <2>2
<1> QED
  BY <1>2, <1>6, <1>7 DEF AnswersInv, Apart, Corners

\* Requests, form and what has been overtaken stay.
LEMMA HeldSame ==
  ASSUME Held, UNCHANGED <<req, points, text, dialog>>, attached' \subseteq attached,
         overtaken \subseteq overtaken',
         \A q \in attached : outcome'[q] = "none" => outcome[q] = "none"
  PROVE  Held'
BY DEF Held

\* No broadcast that waits is attached to the page.
LEMMA HeldNone ==
  ASSUME \A q \in attached' \ overtaken' : ~(req'[q].kind = "broadcast" /\ outcome'[q] = "none")
  PROVE  Held'
BY DEF Held

\* Where there is no dialog of a broadcast, there is none that waits.
LEMMA HeldElsewhere ==
  ASSUME AnswersInv, ~dialog \/ page # "broadcast", UNCHANGED <<req, attached>>,
         overtaken \subseteq overtaken',
         \A q \in attached : outcome'[q] = "none" => outcome[q] = "none"
  PROVE  Held'
<1>1. \A q \in attached \ overtaken : ~(req[q].kind = "broadcast" /\ outcome[q] = "none")
  BY DEF AnswersInv, DrawnInv, AttachedHere, Held, Boards
<1> QED BY <1>1, HeldNone

LEMMA HeldSends ==
  ASSUME AnswersInv, NEW q \in Requests, NEW kind \in Kinds, Begin(q, kind, points, text),
         kind = "broadcast" => dialog, UNCHANGED <<form, overtaken>>
  PROVE  Held'
<1> DEFINE b == [kind |-> kind, area |-> points, text |-> text]
<1>1. SendTypes
  BY TypeGroups DEF AnswersInv, DrawnInv
<1>2. /\ req' = [req EXCEPT ![q] = b] /\ req[q] = None /\ attached' = attached \union {q}
      /\ outcome' = outcome /\ UNCHANGED <<points, text, dialog>>
  BY DEF Begin, form, modal
<1>3. req'[q] = b /\ \A r \in Requests : r # q => req'[r] = req[r]
  BY <1>1, <1>2 DEF SendTypes
<1> SUFFICES ASSUME NEW r \in attached' \ overtaken', req'[r].kind = "broadcast", outcome'[r] = "none"
             PROVE  dialog' /\ points' = req'[r].area /\ text' = req'[r].text
  BY DEF Held
<1>4. CASE r = q
  BY <1>2, <1>3, <1>4
<1>5. CASE r # q
  <2>1. r \in attached \ overtaken /\ req'[r] = req[r]
    BY <1>1, <1>2, <1>3, <1>5 DEF SendTypes
  <2> QED BY <1>2, <2>1 DEF AnswersInv, Held
<1> QED BY <1>4, <1>5

LEMMA EntriesAreNat == TypeOK => entries \in Nat
  BY TypeGroups, DrawingAssumption DEF FormTypes, Entries

\* Steps of the backend, the query and the map, a request that fails, and CONFIRM.
LEMMA QuietAnswers ==
  ASSUME AnswersInv, UNCHANGED <<page, req, attached, points, text, dialog, overtaken>>,
         entries' = entries \/ entries' = entries + 1,
         \A q \in Requests : outcome'[q] \in {outcome[q], "error"}
  PROVE  Apart' /\ Held'
<1>1. entries \in Nat /\ TypeOK /\ attached \subseteq Requests
  BY EntriesAreNat, TypeGroups DEF AnswersInv, DrawnInv, SendTypes
<1>2. Apart'
  BY <1>1, ApartSame DEF AnswersInv
<1>3. Held'
  BY <1>1, HeldSame DEF AnswersInv
<1> QED BY <1>2, <1>3

LEMMA FormAnswers ==
  ASSUME AnswersInv, Click \/ ClearDrawing \/ Type \/ AskToConfirm \/ CloseDialog \/ OpenDeleteDialog
  PROVE  Apart' /\ Held'
<1>1. SendTypes /\ TypeOK /\ entries \in Nat
  BY EntriesAreNat, TypeGroups DEF AnswersInv, DrawnInv
<1>5. FormTypes
  BY TypeGroups DEF AnswersInv, DrawnInv
<1>2. UNCHANGED <<req, outcome, attached, page>> /\ overtaken \subseteq overtaken'
  BY DEF Click, ClearDrawing, Type, AskToConfirm, CloseDialog, OpenDeleteDialog, Touch, sending
<1>3. Apart'
  <2>1. CASE Click
    BY <2>1, ApartClick
  <2>2. CASE ClearDrawing
    BY <1>2, <2>2, ApartCleared DEF ClearDrawing, AnswersInv
  <2>3. CASE Type \/ AskToConfirm \/ CloseDialog \/ OpenDeleteDialog
    <3>1. points' = points /\ (entries' = entries \/ entries' = entries + 1)
      BY <2>3 DEF Type, AskToConfirm, CloseDialog, OpenDeleteDialog
    <3> QED BY <1>1, <1>2, <3>1, ApartSame DEF AnswersInv
  <2> QED BY <2>1, <2>2, <2>3
<1>4. Held'
  <2>1. CASE CloseDialog
    <3>1. \A q \in attached' \ overtaken' : req[q] # None /\ ~Pending(q)
      BY <1>1, <1>2, <2>1 DEF CloseDialog, UnderWay, SendTypes
    <3> QED BY <1>2, <3>1, HeldNone DEF Pending
  <2>2. CASE (ClearDrawing \/ Type) /\ dialog
    <3>1. overtaken' = overtaken \union UnderWay
      BY <2>2 DEF ClearDrawing, Type, Touch, Covered
    <3>2. \A q \in attached' \ overtaken' : req[q] # None /\ ~Pending(q)
      BY <1>1, <1>2, <3>1 DEF UnderWay, SendTypes
    <3> QED BY <1>2, <3>2, HeldNone DEF Pending
  <2>3. CASE AskToConfirm /\ dialog
    <3>1. UNCHANGED <<points, text>> /\ dialog' = dialog
      BY <1>5, <2>3 DEF AskToConfirm, FormTypes
    <3> QED BY <1>2, <3>1, HeldSame DEF AnswersInv
  <2>4. CASE ~dialog \/ page # "broadcast"
    BY <1>2, <2>4, HeldElsewhere
  <2>5. CASE Click \/ OpenDeleteDialog
    <3>1. ~dialog \/ page # "broadcast"
      BY <2>5 DEF Click, OpenDeleteDialog, Covered, Displayed
    <3> QED BY <2>4, <3>1
  <2> QED BY <2>1, <2>2, <2>3, <2>4, <2>5
<1> QED BY <1>3, <1>4

LEMMA LeavingAnswers ==
  ASSUME AnswersInv,
         \/ \E k \in Pages : Navigate(k)
         \/ SignIn
         \/ \E q \in Requests : ZoneEstablished(q) \/ ZoneDeleted(q)
  PROVE  Apart' /\ Held'
<1>1. UNCHANGED <<req, entries, overtaken>>
  BY DEF Navigate, SignIn, ZoneEstablished, ZoneDeleted, Ends, sending
<1>2. CASE \E k \in Pages : GoTo(k)
  <2>1. attached' = {} /\ (page' \in Boards => points' = <<>>)
    BY <1>2 DEF GoTo, Boards
  <2>2. Apart'
    BY <1>1, <2>1, ApartCleared DEF AnswersInv
  <2> QED BY <2>1, <2>2, HeldNone
<1>3. CASE ~ \E k \in Pages : GoTo(k)
  <2>1. \A k \in Pages : Reached(k) \in Pages
    BY DEF Reached, Pages
  <2>2. "command" \in Pages
    BY DEF Pages
  <2>3. PICK q \in Requests : ZoneEstablished(q) \/ ZoneDeleted(q)
    BY <1>3, <2>1, <2>2 DEF Navigate, SignIn
  <2>4. page = "command" /\ UNCHANGED <<attached, page, points, text, dialog>>
    BY <1>3, <2>2, <2>3 DEF ZoneEstablished, ZoneDeleted, Leave, modal
  <2>5. Apart'
    BY <1>1, <2>4, ApartCleared DEF AnswersInv, Boards
  <2>6. \A r \in attached : outcome'[r] = "none" => outcome[r] = "none"
    <3>1. SendTypes /\ outcome' = [outcome EXCEPT ![q] = "ok"]
      BY <2>3, TypeGroups DEF ZoneEstablished, ZoneDeleted, Ends, AnswersInv, DrawnInv
    <3> QED BY <3>1 DEF SendTypes
  <2>7. Held'
    BY <1>1, <2>4, <2>6, HeldSame DEF AnswersInv
  <2> QED BY <2>5, <2>7
<1> QED BY <1>2, <1>3

LEMMA SendingAnswers ==
  ASSUME AnswersInv, NEW q \in Requests,
         EstablishZone(q) \/ HandleConfirmExecute(q) \/ HandleSaveEdit(q) \/ HandleDelete(q)
  PROVE  Apart' /\ Held'
<1>1. PICK kind \in Kinds :
        /\ Begin(q, kind, points, text) /\ (kind \in Boards => page = kind)
        /\ kind = "broadcast" => dialog
  BY DEF EstablishZone, HandleConfirmExecute, HandleSaveEdit, HandleDelete, Kinds, Boards
<1>2. UNCHANGED <<page, form, overtaken>>
  BY DEF EstablishZone, HandleConfirmExecute, HandleSaveEdit, HandleDelete
<1> QED BY <1>1, <1>2, ApartSends, HeldSends

LEMMA EditorAnswers ==
  ASSUME AnswersInv, \/ Apply \/ EditZone \/ CancelEdit
                     \/ \E i \in 1..3 : Drag(i)
                     \/ \E q \in Requests : ZoneSaved(q)
  PROVE  Apart' /\ Held'
<1>1. TypeOK /\ entries \in Nat /\ SendTypes /\ FormTypes
  BY EntriesAreNat, TypeGroups DEF AnswersInv, DrawnInv
<1>2. UNCHANGED <<req, attached, page, dialog, overtaken>> /\ (entries' = entries \/ entries' = entries + 1)
  BY DEF Apply, EditZone, CancelEdit, Drag, ZoneSaved, Ends, sending, modal
<1>3. page = "zone" \/ UNCHANGED <<points, text>>
  BY <1>1 DEF Apply, EditZone, CancelEdit, Drag, ZoneSaved, Displayed, FormTypes
<1>4. \A q \in Requests :
        \/ outcome'[q] = outcome[q]
        \/ outcome'[q] = "ok" /\ req[q].kind = "save"
  <2>1. CASE outcome' = outcome
    BY <2>1
  <2>2. CASE \E q \in Requests : ZoneSaved(q)
    <3>1. PICK q \in Requests : req[q].kind = "save" /\ outcome' = [outcome EXCEPT ![q] = "ok"]
      BY <2>2 DEF ZoneSaved, Ends, Answered
    <3> QED BY <1>1, <3>1 DEF SendTypes
  <2> QED BY <2>1, <2>2 DEF Apply, EditZone, CancelEdit, Drag, sending
<1>5. Apart'
  <2>1. page \in Boards => points' = points
    BY <1>3 DEF Boards
  <2>2. \A q \in Requests : outcome'[q] = "ok" /\ q \in attached => outcome[q] = "ok" \/ req[q].kind \notin Boards
    BY <1>4 DEF Boards
  <2> QED BY <1>1, <1>2, <2>1, <2>2, ApartSame DEF AnswersInv
<1>6. Held'
  <2>1. \A q \in attached : outcome'[q] = "none" => outcome[q] = "none"
    BY <1>1, <1>4 DEF SendTypes
  <2>2. CASE page = "zone"
    BY <1>2, <2>1, <2>2, HeldElsewhere
  <2>3. CASE UNCHANGED <<points, text>>
    BY <1>2, <2>1, <2>3, HeldSame DEF AnswersInv
  <2> QED BY <1>3, <2>2, <2>3
<1> QED BY <1>5, <1>6

LEMMA BroadcastSentAnswers ==
  ASSUME AnswersInv, NEW q \in Requests, BroadcastSent(q)
  PROVE  Apart' /\ Held'
<1>1. TypeOK /\ entries \in Nat /\ SendTypes
  BY EntriesAreNat, TypeGroups DEF AnswersInv, DrawnInv
<1>2. UNCHANGED <<req, attached, page, entries>> /\ outcome' = [outcome EXCEPT ![q] = "ok"]
  BY DEF BroadcastSent, Ends
<1>3. outcome'[q] = "ok" /\ \A r \in Requests : r # q => outcome'[r] = outcome[r]
  BY <1>1, <1>2 DEF SendTypes
<1>4. CASE q \in attached
  <2>1. points' = <<>> /\ overtaken' = overtaken \union (UnderWay \ {q})
    BY <1>4 DEF BroadcastSent
  <2>2. Apart'
    BY <1>2, <2>1, ApartCleared DEF AnswersInv
  <2>3. \A r \in attached' \ overtaken' : outcome'[r] # "none"
    BY <1>1, <1>2, <1>3, <2>1 DEF UnderWay, Pending, SendTypes
  <2> QED BY <2>2, <2>3, HeldNone
<1>5. CASE q \notin attached
  <2>1. UNCHANGED <<points, text, dialog, overtaken>>
    BY <1>5 DEF BroadcastSent, modal
  <2>2. \A r \in Requests : r \in attached => outcome'[r] = outcome[r]
    BY <1>3, <1>5
  <2>3. Apart'
    BY <1>1, <1>2, <2>1, <2>2, ApartSame DEF AnswersInv
  <2>4. Held'
    BY <1>1, <1>2, <2>1, <2>2, HeldSame DEF AnswersInv, SendTypes
  <2> QED BY <2>3, <2>4
<1> QED BY <1>4, <1>5

LEMMA NextAnswers == AnswersInv /\ [Next]_vars => AnswersInv'
<1> SUFFICES ASSUME AnswersInv, [Next]_vars PROVE AnswersInv'
  OBVIOUS
<1>1. DrawnInv'
  BY NextDrawn DEF AnswersInv
<1> DEFINE Goal == Apart' /\ Held'
<1> SUFFICES Goal
  BY <1>1 DEF AnswersInv
<1>2. CASE UNCHANGED vars \/ MapLoads \/ StyleData \/ TypeConfirm \/ Read \/ LoadFails \/ Refetch \/ OthersEdit
  <2>1. UNCHANGED <<page, req, outcome, attached, points, text, dialog, overtaken>>
        /\ (entries' = entries \/ entries' = entries + 1)
    BY <1>2 DEF vars, MapLoads, StyleData, TypeConfirm, Read, LoadFails, Refetch, OthersEdit, sending, form, modal
  <2> QED BY <2>1, QuietAnswers
<1>3. ASSUME NEW q \in Requests, Handle(q) \/ Spread(q) \/ HandlerFails(q) \/ Fails(q)
      PROVE  Goal
  <2>1. UNCHANGED <<page, req, attached, points, text, entries, dialog, overtaken>>
    BY <1>3 DEF Handle, Spread, HandlerFails, Fails, Ends, form, modal
  <2>2. \A r \in Requests : outcome'[r] \in {outcome[r], "error"}
    <3>1. SendTypes
      BY TypeGroups DEF AnswersInv, DrawnInv
    <3>2. outcome' = outcome \/ outcome' = [outcome EXCEPT ![q] = "error"]
      BY <1>3 DEF Handle, Spread, HandlerFails, Fails, Ends
    <3> QED BY <3>1, <3>2 DEF SendTypes
  <2> QED BY <2>1, <2>2, QuietAnswers
<1>4. CASE Click \/ ClearDrawing \/ Type \/ AskToConfirm \/ CloseDialog \/ OpenDeleteDialog
  BY <1>4, FormAnswers
<1>5. CASE (\E k \in Pages : Navigate(k)) \/ SignIn \/ \E q \in Requests : ZoneEstablished(q) \/ ZoneDeleted(q)
  BY <1>5, LeavingAnswers
<1>6. CASE \/ Apply \/ EditZone \/ CancelEdit
           \/ \E i \in 1..3 : Drag(i)
           \/ \E q \in Requests : ZoneSaved(q)
  BY <1>6, EditorAnswers
<1>7. ASSUME NEW q \in Requests,
             EstablishZone(q) \/ HandleConfirmExecute(q) \/ HandleSaveEdit(q) \/ HandleDelete(q)
      PROVE  Goal
  BY <1>7, SendingAnswers
<1>8. ASSUME NEW q \in Requests, BroadcastSent(q)
      PROVE  Goal
  BY <1>8, BroadcastSentAnswers
<1> QED
  BY <1>2, <1>3, <1>4, <1>5, <1>6, <1>7, <1>8 DEF Next

LEMMA NotAgainStep ==
  ASSUME AnswersInv, [Next]_vars, NEW q \in Requests, NEW r \in Requests,
         req[q] = None, req'[q] # None, req'[q].kind \in {"new", "broadcast"},
         req[r] # None, outcome[r] = "ok"
  PROVE  req'[q] # req[r]
<1>1. SendTypes /\ FormTypes
  BY TypeGroups DEF AnswersInv, DrawnInv
<1>2. \E p \in Requests :
        EstablishZone(p) \/ HandleConfirmExecute(p) \/ HandleSaveEdit(p) \/ HandleDelete(p)
  <2> SUFFICES ASSUME req' # req
               PROVE  \E p \in Requests :
                        EstablishZone(p) \/ HandleConfirmExecute(p) \/ HandleSaveEdit(p) \/ HandleDelete(p)
    OBVIOUS
  <2>1. ~(UNCHANGED vars \/ MapLoads \/ StyleData \/ Type \/ AskToConfirm \/ TypeConfirm \/ CloseDialog
          \/ OpenDeleteDialog)
    BY DEF vars, MapLoads, StyleData, Type, AskToConfirm, TypeConfirm, CloseDialog, OpenDeleteDialog, sending
  <2>2. ~(Click \/ ClearDrawing \/ (\E k \in Pages : Navigate(k)) \/ SignIn \/ Read \/ LoadFails \/ Refetch
          \/ OthersEdit)
    BY DEF Click, ClearDrawing, Navigate, SignIn, Read, LoadFails, Refetch, OthersEdit, sending
  <2>3. ~(Apply \/ EditZone \/ CancelEdit \/ \E i \in 1..3 : Drag(i))
    BY DEF Apply, EditZone, CancelEdit, Drag, sending
  <2>4. ASSUME NEW p \in Requests PROVE ~(Handle(p) \/ Spread(p) \/ HandlerFails(p))
    BY DEF Handle, Spread, HandlerFails
  <2>5. ASSUME NEW p \in Requests
        PROVE  ~(BroadcastSent(p) \/ ZoneEstablished(p) \/ ZoneDeleted(p) \/ ZoneSaved(p) \/ Fails(p))
    BY DEF BroadcastSent, ZoneEstablished, ZoneDeleted, ZoneSaved, Fails, Ends
  <2> QED BY <2>1, <2>2, <2>3, <2>4, <2>5 DEF Next
<1>3. PICK p \in Requests, kind \in Kinds :
        Begin(p, kind, points, text) /\ (kind \in Boards => page = kind)
  BY <1>2 DEF EstablishZone, HandleConfirmExecute, HandleSaveEdit, HandleDelete, Kinds, Boards
<1> DEFINE b == [kind |-> kind, area |-> points, text |-> text]
<1>4. req' = [req EXCEPT ![p] = b]
  BY <1>3 DEF Begin
<1>5. q = p /\ req'[q] = b
  BY <1>1, <1>4 DEF SendTypes
<1>6. kind \in Boards /\ page \in Boards
  BY <1>3, <1>5 DEF Boards
<1> SUFFICES ASSUME req[r] = b PROVE FALSE
  BY <1>5
<1>7. req[r].kind = kind /\ req[r].area = points
  OBVIOUS
<1>8. Past(r)
  BY <1>6, <1>7 DEF Past
<1>9. Corners(points) = {}
  BY <1>6, <1>7, <1>8 DEF AnswersInv, Apart
<1>10. points \in Seq(Entries) /\ Len(points) >= 3
  <2>1. handler[r] = "done"
    BY <1>1 DEF SendTypes
  <2> QED BY <1>1, <1>7, <2>1 DEF AnswersInv, DrawnInv, DataAreas, SentIsArea, FormTypes, Areas
<1>11. points[1] \in Corners(points)
  BY <1>10 DEF Corners
<1> QED BY <1>9, <1>11

LEMMA ClearedStep ==
  ASSUME AnswersInv, NEW q \in Requests, Pending(q), outcome'[q] = "ok", req[q].kind = "broadcast",
         q \in attached \ overtaken
  PROVE  points = req[q].area /\ text = req[q].text
BY DEF AnswersInv, Held, Pending

\* Whatever is clicked, typed and answered in between, and on whichever page: what an answer has
\* acknowledged is not sent again, and what it clears is what it acknowledges, unless its dialog
\* has been closed since the request was sent, or something entered or cleared behind it.
THEOREM AnswersClear == Spec => AnswersClearTheirOwn
<1> DEFINE Again == \A q, r \in Requests :
             /\ req[q] = None /\ req'[q] # None
             /\ req'[q].kind \in {"new", "broadcast"}
             /\ req[r] # None /\ outcome[r] = "ok"
             => req'[q] # req[r]
           Cleared == \A q \in Requests :
             /\ Pending(q) /\ outcome'[q] = "ok"
             /\ req[q].kind = "broadcast" /\ q \in attached \ overtaken
             /\ points # <<>>
             => points = req[q].area /\ text = req[q].text
<1>1. Init => AnswersInv
  BY InitAnswers
<1>2. AnswersInv /\ [Next]_vars => AnswersInv'
  BY NextAnswers
<1>3. AnswersInv /\ [Next]_vars => Again /\ Cleared
  <2> SUFFICES ASSUME AnswersInv, [Next]_vars PROVE Again /\ Cleared
    OBVIOUS
  <2>1. Again
    BY NotAgainStep
  <2>2. Cleared
    BY ClearedStep
  <2> QED BY <2>1, <2>2
<1>4. Spec => [][Again]_vars /\ [][Cleared]_vars
  <2> HIDE DEF Again, Cleared
  <2> QED BY <1>1, <1>2, <1>3, PTL DEF Spec
<1> QED
  BY <1>4 DEF AnswersClearTheirOwn, NotSentAgain, ClearedWasSent
=============================================================================
