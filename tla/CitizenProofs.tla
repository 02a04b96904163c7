--------------------------- MODULE CitizenProofs ---------------------------
(***************************************************************************)
(* What Citizen promises of the phone's place, of a report's place, of a   *)
(* photo's score and of the list of notifications, for any number of       *)
(* places, photos, reports and notices, and whatever may happen.           *)
(***************************************************************************)
EXTENDS Citizen, TLAPS

\* The requests of the picker are counted: one that is begun can be told from none.
PlaceInv ==
    /\ locating \in Nat
    /\ Place!SourceIsChosen

\* Only a page that listens to its map has heard of it, and it then has a place for the report; a
\* map always shows some place.
MapInv ==
    /\ made \in Nat
    /\ heard => loaded /\ pin # None
    /\ centre # None
    /\ Form!PinIsReported

-----------------------------------------------------------------------------
(***************************************************************************)
(* The place of the phone.                                                 *)
(***************************************************************************)

\* The steps of the phone's place itself (useLocation.ts, LocationPickerModal.tsx, profile.tsx).
LEMMA PlaceStep == ASSUME PlaceInv, Place!Step PROVE PlaceInv'
<1> USE DEF PlaceInv, Place!SourceIsChosen
<1>1. CASE Place!WatchFix
  BY <1>1 DEF Place!WatchFix, Place!profile
<1>2. ASSUME NEW n \in Place!Places, Place!DeviceUpdated(n) \/ Place!UpdateLost(n)
      PROVE  PlaceInv'
  BY <1>2 DEF Place!DeviceUpdated, Place!UpdateLost, Place!profile
<1>3. CASE Place!OpenPicker \/ Place!ClosePicker
  BY <1>3 DEF Place!OpenPicker, Place!ClosePicker
<1>4. CASE Place!HandleMyLocation
  BY <1>4 DEF Place!HandleMyLocation
<1>5. CASE Place!MyLocation
  BY <1>5 DEF Place!MyLocation
<1>6. CASE Place!MyLocationFails
  BY <1>6 DEF Place!MyLocationFails
<1>7. CASE Place!PickPlace
  BY <1>7 DEF Place!PickPlace
<1>8. CASE Place!HandleSaveLocation
  BY <1>8 DEF Place!HandleSaveLocation
<1>9. QED
  BY <1>1, <1>2, <1>3, <1>4, <1>5, <1>6, <1>7, <1>8 DEF Place!Step

\* A page that is closed or opened has no say in it.
LEMMA PlaceKept == ASSUME PlaceInv, UNCHANGED <<locating, manual, choice>> PROVE PlaceInv'
BY DEF PlaceInv, Place!SourceIsChosen

LEMMA GoToKeepsPlace == ASSUME NEW k, GoTo(k) PROVE UNCHANGED <<locating, manual, choice>>
BY DEF GoTo, Place!PageChanges

\* SourceIsChosen: what the phone takes for its place has the source that its citizen has chosen
\* last, whatever pages he opens and however often the application is started anew.
THEOREM PlaceIsChosen == Spec => []SourceIsChosen
<1>1. Init => PlaceInv
  BY DEF Init, Place!Init, PlaceInv, Place!SourceIsChosen
<1>2. PlaceInv /\ [Next]_vars => PlaceInv'
  <2> SUFFICES ASSUME PlaceInv, [Next]_vars PROVE PlaceInv'
    OBVIOUS
  <2>1. CASE LocationStep
    BY <2>1, PlaceStep DEF LocationStep
  <2>2. CASE FormStep \/ AlertStep
    BY <2>2, PlaceKept DEF FormStep, AlertStep, place
  <2>3. ASSUME NEW k \in plan.pages, Navigate(k) PROVE PlaceInv'
    BY <2>3, GoToKeepsPlace, PlaceKept DEF Navigate
  <2>4. CASE HandleCustomLocation
    BY <2>4, GoToKeepsPlace, PlaceKept DEF HandleCustomLocation
  <2>5. ASSUME NEW p \in Posts, SaveOffline(p) \/ SubmitEnds(p) PROVE PlaceInv'
    BY <2>5, GoToKeepsPlace, PlaceKept DEF SaveOffline, SubmitEnds, place
  <2>6. CASE Reload
    BY <2>6 DEF Reload, Place!Reloads, Place!backend, PlaceInv, Place!SourceIsChosen
  <2>7. CASE UNCHANGED vars
    BY <2>7, PlaceKept DEF vars, place
  <2>8. QED
    BY <2>1, <2>2, <2>3, <2>4, <2>5, <2>6, <2>7 DEF Next
<1>3. PlaceInv => SourceIsChosen
  BY DEF PlaceInv, SourceIsChosen
<1>4. QED
  BY <1>1, <1>2, <1>3, PTL DEF Spec

-----------------------------------------------------------------------------
(***************************************************************************)
(* The place of a report.                                                  *)
(***************************************************************************)

\* Places are counted by whoever meets one.
LEMMA PlacesAreCounted == ASSUME made \in Nat, Place!Step PROVE made' \in Nat
BY DEF Place!Step, Place!WatchFix, Place!DeviceUpdated, Place!UpdateLost, Place!OpenPicker,
       Place!ClosePicker, Place!HandleMyLocation, Place!MyLocation, Place!MyLocationFails,
       Place!PickPlace, Place!HandleSaveLocation, Place!NewPlace, Place!New

\* Step2Location.tsx:27-31: a map's move moves the pin, once the page listens.
LEMMA MapMoves ==
    ASSUME MapInv, NEW where, where # None, Form!Moved(where), UNCHANGED loaded, made' \in Nat
    PROVE  MapInv'
BY DEF MapInv, Form!PinIsReported, Form!Moved

\* The map and the pin as they were.
LEMMA MapKept ==
    ASSUME MapInv, made' \in Nat, UNCHANGED <<pin, centre, loaded, heard, flight>>
    PROVE  MapInv'
BY DEF MapInv, Form!PinIsReported

\* A page that has just been opened has heard nothing.
LEMMA MapOpens == ASSUME NEW where, Form!Opens(where), made' \in Nat PROVE MapInv'
BY CitizenAssumption DEF MapInv, Form!PinIsReported, Form!Opens, Form!Default

\* The steps of the form (Step2Location.tsx, useMap.ts).
LEMMA MapStep == ASSUME MapInv, Form!Step PROVE MapInv'
<1>0. /\ made \in Nat /\ made + 1 \in Nat /\ made + 1 # None
      /\ centre # None
  BY CitizenAssumption DEF MapInv
<1>1. CASE Form!HandleNext \/ Form!HandleBack
  BY <1>0, <1>1, MapKept DEF Form!HandleNext, Form!HandleBack, Form!GoToStep
<1>2. CASE Form!Describe
  BY <1>0, <1>2, MapKept DEF Form!Describe, Form!map
<1>3. CASE Form!MapLoads
  BY <1>3 DEF Form!MapLoads, MapInv, Form!PinIsReported
<1>4. CASE Form!Drag
  BY <1>0, <1>4, MapMoves DEF Form!Drag, Form!NewPlace
<1>5. CASE Form!Resized
  BY <1>0, <1>5, MapMoves, MapKept DEF Form!Resized
<1>6. CASE Form!JumpToCurrentLocation \/ Form!JumpFails
  BY <1>0, <1>6, MapKept DEF Form!JumpToCurrentLocation, Form!JumpFails
<1>7. CASE Form!Jump
  BY <1>0, <1>7 DEF Form!Jump, Form!NewPlace, MapInv, Form!PinIsReported
<1>8. CASE Form!Fly
  BY <1>0, <1>8, MapMoves DEF Form!Fly, Form!NewPlace
<1>9. CASE Form!Land
  BY <1>0, <1>9, MapMoves DEF Form!Land
<1>10. CASE Form!ModelLoads \/ Form!ChoosePhoto \/ \E k \in Form!Photos : Form!Judged(k)
  BY <1>0, <1>10, MapKept DEF Form!ModelLoads, Form!ChoosePhoto, Form!Judged, Form!map
<1>11. ASSUME NEW p \in Posts, Form!Send(p) PROVE MapInv'
  BY <1>0, <1>11, MapKept DEF Form!Send, Form!map
<1>12. QED
  BY <1>1, <1>2, <1>3, <1>4, <1>5, <1>6, <1>7, <1>8, <1>9, <1>10, <1>11 DEF Form!Step

\* A page that is left, or opened.
LEMMA GoToMap == ASSUME MapInv, NEW k, GoTo(k) PROVE MapInv'
<1>1. made' \in Nat
  BY DEF GoTo, Place!PageChanges, MapInv
<1>2. CASE k = page
  BY <1>1, <1>2, MapKept DEF GoTo, form
<1>3. CASE k # page
  BY <1>1, <1>3, MapOpens DEF GoTo, Form!PageChanges
<1>4. QED
  BY <1>2, <1>3

\* PinIsReported: what a report says of its place is what its pin shows, whatever has moved the
\* map: a finger, the observer of its size, or a position that came late.
THEOREM PinShowsThePlace == Spec => []PinIsReported
<1>1. Init => MapInv
  <2> SUFFICES ASSUME Init PROVE MapInv
    OBVIOUS
  <2>1. made \in Nat
    <3>1. made = 1 \/ made = 0
      BY Zenon DEF Init, Place!Init
    <3>2. QED
      BY <3>1
  <2>2. centre # None /\ heard = FALSE
    <3>1. centre = (IF pin = None THEN Form!Default ELSE pin) /\ heard = FALSE
      BY DEF Init, Form!Init
    <3>2. QED
      BY <3>1, CitizenAssumption DEF Form!Default
  <2>3. QED
    BY <2>1, <2>2 DEF MapInv, Form!PinIsReported
<1>2. MapInv /\ [Next]_vars => MapInv'
  <2> SUFFICES ASSUME MapInv, [Next]_vars PROVE MapInv'
    OBVIOUS
  <2>1. CASE LocationStep
    <3>1. made' \in Nat
      BY <2>1, PlacesAreCounted DEF LocationStep, MapInv
    <3>2. CASE location' = location
      BY <2>1, <3>1, <3>2, MapKept DEF LocationStep, form
    <3>3. CASE location' # location
      <4>1. Form!FollowLocation(location')
        BY <2>1, <3>3 DEF LocationStep
      <4>2. QED
        BY <3>1, <4>1 DEF Form!FollowLocation, MapInv, Form!PinIsReported
    <3>4. QED
      BY <3>2, <3>3
  <2>2. CASE FormStep
    BY <2>2, MapStep DEF FormStep
  <2>3. CASE AlertStep
    BY <2>3, MapKept DEF AlertStep, form, MapInv
  <2>4. ASSUME NEW k \in plan.pages, Navigate(k) PROVE MapInv'
    BY <2>4, GoToMap DEF Navigate
  <2>5. CASE HandleCustomLocation
    BY <2>5, GoToMap DEF HandleCustomLocation
  <2>6. ASSUME NEW p \in Posts, SaveOffline(p) \/ SubmitEnds(p) PROVE MapInv'
    <3>1. CASE Form!SubmitFails(p)
      BY <3>1, MapKept DEF Form!SubmitFails, Form!map, MapInv
    <3>2. QED
      BY <2>6, <3>1, GoToMap DEF SaveOffline, SubmitEnds
  <2>7. CASE Reload
    BY <2>7, MapOpens DEF Reload, Place!Reloads, Form!PageChanges, MapInv
  <2>8. CASE UNCHANGED vars
    BY <2>8, MapKept DEF vars, form, MapInv
  <2>9. QED
    BY <2>1, <2>2, <2>3, <2>4, <2>5, <2>6, <2>7, <2>8 DEF Next
<1>3. MapInv => PinIsReported
  BY DEF MapInv, PinIsReported
<1>4. QED
  BY <1>1, <1>2, <1>3, PTL DEF Spec

-----------------------------------------------------------------------------
(***************************************************************************)
(* The score of a photo.                                                   *)
(***************************************************************************)

LEMMA ScoreKept ==
    ASSUME Form!ScoreIsOfPhoto, UNCHANGED <<photo, judging, score, overtaken>>
    PROVE  Form!ScoreIsOfPhoto'
BY DEF Form!ScoreIsOfPhoto

\* Step3Details.tsx:42-50, useImageClassifier.ts: the last photo to be judged is the last that was
\* chosen, or has been overtaken.
LEMMA ScoreStep == ASSUME Form!ScoreIsOfPhoto, Form!Step PROVE Form!ScoreIsOfPhoto'
<1>1. CASE Form!HandleNext \/ Form!HandleBack \/ Form!Describe \/ Form!MapLoads \/ Form!Drag
           \/ Form!Resized \/ Form!JumpToCurrentLocation \/ Form!Jump \/ Form!JumpFails
           \/ Form!Fly \/ Form!Land
  BY <1>1, ScoreKept DEF Form!HandleNext, Form!HandleBack, Form!GoToStep, Form!Describe,
     Form!MapLoads, Form!Drag, Form!Resized, Form!JumpToCurrentLocation, Form!Jump,
     Form!JumpFails, Form!Fly, Form!Land, Form!image
<1>2. CASE Form!ModelLoads
  BY <1>2, ScoreKept DEF Form!ModelLoads
<1>3. CASE Form!ChoosePhoto
  BY <1>3 DEF Form!ChoosePhoto, Form!ScoreIsOfPhoto
<1>4. ASSUME NEW k \in Form!Photos, Form!Judged(k) PROVE Form!ScoreIsOfPhoto'
  <2>1. CASE judging' = {} /\ ~overtaken'
    <3>1. photo \notin judging \/ photo = k
      BY <1>4, <2>1 DEF Form!Judged
    <3>2. k = photo
      BY <1>4, <2>1, <3>1 DEF Form!Judged
    <3>3. QED
      BY <1>4, <3>2 DEF Form!Judged, Form!ScoreIsOfPhoto
  <2>2. QED
    BY <2>1 DEF Form!ScoreIsOfPhoto
<1>5. ASSUME NEW p \in Posts, Form!Send(p) PROVE Form!ScoreIsOfPhoto'
  BY <1>5, ScoreKept DEF Form!Send, Form!image
<1>6. QED
  BY <1>1, <1>2, <1>3, <1>4, <1>5 DEF Form!Step

LEMMA GoToScore == ASSUME Form!ScoreIsOfPhoto, NEW k, GoTo(k) PROVE Form!ScoreIsOfPhoto'
<1>1. CASE k = page
  BY <1>1, ScoreKept DEF GoTo, form
<1>2. CASE k # page
  BY <1>2 DEF GoTo, Form!PageChanges, Form!Opens, Form!ScoreIsOfPhoto
<1>3. QED
  BY <1>1, <1>2

\* ScoreIsOfPhoto: when all photos have been judged the score is the last one's, or of none,
\* unless a former photo was judged after the last.
THEOREM ScoreIsItsPhotos == Spec => []ScoreIsOfPhoto
<1>1. Init => Form!ScoreIsOfPhoto
  BY DEF Init, Form!Init, Form!ScoreIsOfPhoto
<1>2. Form!ScoreIsOfPhoto /\ [Next]_vars => Form!ScoreIsOfPhoto'
  <2> SUFFICES ASSUME Form!ScoreIsOfPhoto, [Next]_vars PROVE Form!ScoreIsOfPhoto'
    OBVIOUS
  <2>1. CASE LocationStep
    BY <2>1, ScoreKept DEF LocationStep, Form!FollowLocation, form, Form!image
  <2>2. CASE FormStep
    BY <2>2, ScoreStep DEF FormStep
  <2>3. CASE AlertStep \/ UNCHANGED vars
    BY <2>3, ScoreKept DEF AlertStep, vars, form
  <2>4. ASSUME NEW k \in plan.pages, Navigate(k) PROVE Form!ScoreIsOfPhoto'
    BY <2>4, GoToScore DEF Navigate
  <2>5. CASE HandleCustomLocation
    BY <2>5, GoToScore DEF HandleCustomLocation
  <2>6. ASSUME NEW p \in Posts, SaveOffline(p) \/ SubmitEnds(p) PROVE Form!ScoreIsOfPhoto'
    <3>1. CASE Form!SubmitFails(p)
      BY <3>1, ScoreKept DEF Form!SubmitFails, Form!image
    <3>2. QED
      BY <2>6, <3>1, GoToScore DEF SaveOffline, SubmitEnds
  <2>7. CASE Reload
    BY <2>7 DEF Reload, Form!PageChanges, Form!Opens, Form!ScoreIsOfPhoto
  <2>8. QED
    BY <2>1, <2>2, <2>3, <2>4, <2>5, <2>6, <2>7 DEF Next
<1>3. Form!ScoreIsOfPhoto => ScoreIsOfPhoto
  BY DEF ScoreIsOfPhoto
<1>4. QED
  BY <1>1, <1>2, <1>3, PTL DEF Spec
-----------------------------------------------------------------------------
(***************************************************************************)
(* The notifications.                                                      *)
(***************************************************************************)

\* The connection, as EventFeed has it: it hears of events that the stream has.
StreamInv ==
    /\ log \in Seq(Notices) /\ published = Len(log)
    /\ cursor \in 0..published
    /\ subscribed \subseteq {"phone"}
    /\ since \in [{"phone"} -> Nat]
    /\ got \in [{"phone"} -> Seq(Nat)]

\* A handler that has taken all the steps of its notice takes no more.
Over == {n \in Notices : /\ plan.notices[n] \in Alerts!Kinds
                         /\ taken[n] = Len(Alerts!Steps[plan.notices[n]])}

\* The event of a notice is the last of its steps, but for that of a verified report: once a phone
\* has been told of another one, its row is there or will never be.
BackendInv ==
    /\ taken \in [Notices -> 0..2]
    /\ rows \subseteq Notices /\ read \subseteq rows /\ newer \in [Notices -> Nat]
    /\ \A i \in 1..Len(log) : plan.notices[log[i]] # "verified" => log[i] \in Over
    /\ told \subseteq Over

QueryInv ==
    /\ fetch \in {"none", "asked", "read"} /\ invalid \in BOOLEAN
    /\ cut \subseteq {"reply", "data"}
    /\ fetch = "read" <=> reply # None
    /\ {cache, reply} \subseteq Alerts!Lists \union {None}
    /\ \A data \in {cache, reply} : data # None => DOMAIN data \subseteq rows
    /\ list = cache
    /\ pushed \subseteq Notices

\* A call is of a notice with a row, or of one that was pushed; that it was, if the phone has no data.
MarkInv ==
    /\ mark \in [Alerts!Marks -> Alerts!Calls \union {None}]
    /\ mine \subseteq {m \in Alerts!Marks : Alerts!Pending(m)}
    /\ done \subseteq read
    /\ \A m \in Alerts!Marks : mark[m] # None =>
        /\ mark[m].row \in rows \union {None}
        /\ mark[m].previous # None => DOMAIN mark[m].previous \subseteq rows
        /\ mark[m].at = "arrived" => mark[m].row \in read \union {None}
        /\ cache = None /\ Alerts!Pending(m) => mark[m].row = None

\* What ListIsCurrent asks of a list, which may come from a result that was cut short.
Current(data, short) ==
    /\ short \/ (told \union done) \intersect Alerts!Recent \subseteq DOMAIN data
    /\ \A n \in done \intersect DOMAIN data : data[n] = "read"

\* An answer that has been read, and is not asked for again, is what the backend still has.
CurrentInv ==
    /\ fetch = "read" => Current(reply, "reply" \in cut)
    /\ cache # None /\ ~invalid /\ (\A m \in Alerts!Marks : ~Alerts!Pending(m))
            => Current(cache, "data" \in cut)

AlertInv == plan \in Plans /\ StreamInv /\ BackendInv /\ QueryInv /\ MarkInv /\ CurrentInv

LEMMA NoneIsNoData ==
    /\ None \notin Notices /\ None \notin Alerts!Lists /\ None \notin Alerts!Calls
    /\ \A p \in Plans : p.notices \in [Notices -> Alerts!Kinds \union {"none"}]
BY CitizenAssumption

\* A list is a function on some notices.
LEMMA ListForm ==
    ASSUME NEW ns \in SUBSET Notices, NEW f \in [ns -> {"read", "unread", "set"}]
    PROVE  f \in Alerts!Lists
BY DEF Alerts!Lists

LEMMA ListShape ==
    ASSUME NEW f \in Alerts!Lists
    PROVE  DOMAIN f \subseteq Notices /\ f \in [DOMAIN f -> {"read", "unread", "set"}]
BY DEF Alerts!Lists

LEMMA StepsTaken ==
    /\ \A k \in Alerts!Kinds : Len(Alerts!Steps[k]) \in 1..2
    /\ \A k \in Alerts!Kinds, i \in 1..2 :
        k # "verified" /\ i <= Len(Alerts!Steps[k]) /\ Alerts!Steps[k][i] = "publish"
            => i = Len(Alerts!Steps[k])
<1> USE DEF Alerts!Steps
<1>1. /\ Alerts!Steps["broadcast"] = <<"insert", "publish">> /\ Alerts!Steps["sos"] = <<"insert", "publish">>
      /\ Alerts!Steps["verified"] = <<"publish", "insert">> /\ Alerts!Steps["rejected"] = <<"insert">>
      /\ Alerts!Steps["elsewhere"] = <<"publish">>
  OBVIOUS
<1> HIDE DEF Alerts!Steps
<1>2. /\ Len(Alerts!Steps["broadcast"]) = 2 /\ Len(Alerts!Steps["sos"]) = 2
      /\ Len(Alerts!Steps["verified"]) = 2 /\ Len(Alerts!Steps["rejected"]) = 1
      /\ Len(Alerts!Steps["elsewhere"]) = 1
  BY <1>1
<1>3. /\ Alerts!Steps["broadcast"][1] = "insert" /\ Alerts!Steps["sos"][1] = "insert"
      /\ Alerts!Steps["rejected"][1] = "insert"
  BY <1>1
<1>4. QED
  BY <1>2, <1>3 DEF Alerts!Kinds

\* What another part of the application leaves alone.
LEMMA AlertsKept == ASSUME AlertInv, UNCHANGED <<plan, alerts>> PROVE AlertInv'
BY DEF AlertInv, StreamInv, BackendInv, Over, QueryInv, MarkInv, CurrentInv, Current, Alerts!Recent, alerts,
       Alerts!Pending

\* The stream is opened anew: what it has told stays told.
LEMMA RelocateKeeps ==
    ASSUME AlertInv, Alerts!Relocate,
           UNCHANGED <<plan, taken, rows, newer, read, log, cache, fetch, reply, invalid, cut, mark, mine, list,
                       pushed, told, done>>
    PROVE  AlertInv'
BY DEF AlertInv, StreamInv, BackendInv, Over, QueryInv, MarkInv, CurrentInv, Current, Alerts!Recent, Alerts!Relocate,
       Alerts!Pending

\* EventFeed: an event that is delivered is one of the stream.
LEMMA FeedStep ==
    ASSUME StreamInv, UNCHANGED log,
           Alerts!Feed!Advance \/ Alerts!Feed!Subscribe("phone") \/ Alerts!Feed!Deliver("phone")
               \/ Alerts!Feed!End
    PROVE  /\ StreamInv'
           /\ Alerts!Feed!Deliver("phone") => Alerts!Feed!Newest("phone")' \in 1..Len(log)
<1> USE DEF StreamInv
<1>1. CASE Alerts!Feed!Deliver("phone")
  <2>1. Alerts!Feed!Newest("phone") \in Nat
    BY DEF Alerts!Feed!Newest
  <2>2. PICK e \in (Alerts!Feed!Newest("phone") + 1)..cursor :
            got' = [got EXCEPT !["phone"] = Append(@, e)]
    BY <1>1 DEF Alerts!Feed!Deliver
  <2>3. e \in 1..Len(log) /\ Len(log) \in Nat
    BY <2>1
  <2>4. got' \in [{"phone"} -> Seq(Nat)] /\ Alerts!Feed!Newest("phone")' = e
    BY <2>2, <2>3 DEF Alerts!Feed!Newest
  <2>5. QED
    BY <1>1, <2>3, <2>4 DEF Alerts!Feed!Deliver
<1>2. CASE Alerts!Feed!Advance \/ Alerts!Feed!Subscribe("phone") \/ Alerts!Feed!End
  <2>1. Len(log) \in Nat
    OBVIOUS
  <2>a. ASSUME Alerts!Feed!Advance PROVE StreamInv'
    BY <2>1, <2>a DEF Alerts!Feed!Advance
  <2>b. ASSUME Alerts!Feed!Subscribe("phone") PROVE StreamInv'
    BY <2>1, <2>b DEF Alerts!Feed!Subscribe
  <2>c. ASSUME Alerts!Feed!End PROVE StreamInv'
    BY <2>1, <2>c DEF Alerts!Feed!End
  <2>2. StreamInv'
    BY <1>2, <2>a, <2>b, <2>c
  <2>3. ~Alerts!Feed!Deliver("phone") \/ Alerts!Feed!Newest("phone")' \in 1..Len(log)
    BY <1>1
  <2>4. QED
    BY <2>2, <2>3
<1>3. QED
  BY <1>1, <1>2

\* Steps of the stream that the phone does not hear.
LEMMA StreamSteps ==
    ASSUME AlertInv, UNCHANGED plan, Alerts!Connect \/ Alerts!HubAdvances \/ Alerts!StreamBreaks
    PROVE  AlertInv'
<1>1. StreamInv'
  BY FeedStep DEF AlertInv, Alerts!Connect, Alerts!HubAdvances, Alerts!StreamBreaks, Alerts!backend
<1>2. UNCHANGED <<plan, taken, rows, newer, read, log, cache, fetch, reply, invalid, cut, mark, mine, list,
                  pushed, told, done>>
  BY DEF Alerts!Connect, Alerts!HubAdvances, Alerts!StreamBreaks, Alerts!backend, Alerts!query,
         Alerts!marking, Alerts!shown
<1>3. QED
  BY <1>1, <1>2 DEF AlertInv, BackendInv, Over, QueryInv, MarkInv, CurrentInv, Current, Alerts!Recent, Alerts!Pending

\* The backend's steps: a row that comes is of a notice that nobody has been told of.
LEMMA OneMore == ASSUME NEW i \in 0..2, NEW l \in 1..2, i < l PROVE i + 1 \in 1..l /\ i + 1 \in 0..2
OBVIOUS

LEMMA BackendSteps ==
    ASSUME AlertInv, UNCHANGED plan, NEW n \in Notices,
           Alerts!Insert(n) \/ Alerts!Publish(n) \/ Alerts!StepFails(n)
    PROVE  AlertInv'
<1> DEFINE last == Len(Alerts!Steps[plan.notices[n]])
<1>1. PICK what \in {"insert", "publish"} : Alerts!Takes(n, what)
  BY DEF Alerts!Insert, Alerts!Publish, Alerts!StepFails
<1>2. /\ plan.notices[n] \in Alerts!Kinds
      /\ taken[n] \in 0..2 /\ last \in 1..2 /\ taken[n] < last
      /\ taken' = [taken EXCEPT ![n] = @ + 1]
  BY <1>1, NoneIsNoData, StepsTaken DEF Alerts!Takes, Alerts!Kind, AlertInv, BackendInv
<1>3. n \notin Over /\ n \notin told
  BY <1>2 DEF Over, AlertInv, BackendInv
<1>4. /\ UNCHANGED <<read, cache, fetch, reply, invalid, cut, mark, mine, list, pushed, told, done>>
      /\ \/ UNCHANGED <<rows, newer>>
         \/ /\ rows' = rows \union {n}
            /\ newer' = [k \in Notices |-> IF k \in rows THEN newer[k] + 1 ELSE newer[k]]
  BY <1>1 DEF Alerts!Takes, Alerts!Insert, Alerts!Publish, Alerts!StepFails, Alerts!query,
     Alerts!shown, Alerts!marking
<1>5. StreamInv' /\ (log' = log \/ (log' = Append(log, n) /\ Alerts!Takes(n, "publish")))
  <2>1. CASE log' = log /\ UNCHANGED <<published, cursor, subscribed, since, got>>
    BY <2>1 DEF AlertInv, StreamInv
  <2>2. CASE Alerts!Publish(n)
    <3>1. /\ log' = Append(log, n) /\ published' = published + 1
          /\ UNCHANGED <<cursor, subscribed, since, got>> /\ Alerts!Takes(n, "publish")
      BY <2>2 DEF Alerts!Publish, Alerts!Feed!Publish
    <3>2. log' \in Seq(Notices) /\ Len(log') = Len(log) + 1 /\ Len(log) \in Nat
      BY <3>1 DEF AlertInv, StreamInv
    <3>3. QED
      BY <3>1, <3>2 DEF AlertInv, StreamInv
  <2>3. QED
    BY <2>1, <2>2 DEF Alerts!Insert, Alerts!StepFails, Alerts!stream
<1>6. taken' \in [Notices -> 0..2] /\ Over \subseteq Over'
  <2>1. taken[n] + 1 \in 0..2
    BY <1>2, OneMore
  <2>2. taken' \in [Notices -> 0..2] /\ \A k \in Notices \ {n} : taken'[k] = taken[k]
    BY <1>2, <2>1 DEF AlertInv, BackendInv
  <2>3. QED
    BY <1>3, <2>2 DEF Over
<1>7. (\A i \in 1..Len(log) : plan.notices[log[i]] # "verified" => log[i] \in Over)'
  <2>1. \A i \in 1..Len(log) : plan.notices[log[i]] # "verified" => log[i] \in Over'
    BY <1>6 DEF AlertInv, BackendInv
  <2>2. ASSUME Alerts!Takes(n, "publish"), plan.notices[n] # "verified" PROVE n \in Over'
    <3>1. Alerts!Steps[plan.notices[n]][taken[n] + 1] = "publish"
      BY <2>2 DEF Alerts!Takes, Alerts!Kind
    <3>2. taken[n] + 1 \in 1..last
      BY <1>2, OneMore
    <3>3. taken[n] + 1 = last
      <4> HIDE DEF last
      <4>1. taken[n] + 1 \in 1..2 /\ taken[n] + 1 <= last
        BY <1>2, <3>2
      <4>2. QED
        BY <1>2, <2>2, <3>1, <4>1, StepsTaken DEF last
    <3>4. taken'[n] = taken[n] + 1
      BY <1>2 DEF AlertInv, BackendInv
    <3>5. QED
      BY <1>2, <3>3, <3>4 DEF Over
  <2>3. CASE log' = log
    BY <2>1, <2>3
  <2>4. CASE log' = Append(log, n) /\ Alerts!Takes(n, "publish")
    <3>1. ASSUME NEW i \in 1..Len(log') PROVE (i \in 1..Len(log) /\ log'[i] = log[i]) \/ log'[i] = n
      BY <2>4 DEF AlertInv, StreamInv
    <3>2. QED
      BY <2>1, <2>2, <2>4, <3>1
  <2>5. QED
    BY <1>5, <2>3, <2>4
<1>8. BackendInv'
  <2>1. newer' \in [Notices -> Nat]
    BY <1>4 DEF AlertInv, BackendInv
  <2>2. QED
    BY <1>4, <1>6, <1>7, <2>1 DEF AlertInv, BackendInv
<1>9. QueryInv' /\ MarkInv'
  BY <1>4 DEF AlertInv, QueryInv, MarkInv, Alerts!Pending
<1>10. CurrentInv'
  <2>1. (told \union done) \intersect Alerts!Recent' \subseteq (told \union done) \intersect Alerts!Recent
    <3>1. ASSUME NEW k \in (told \union done) \intersect Alerts!Recent' PROVE k \in Alerts!Recent
      <4>1. k \in rows' /\ newer'[k] < Limit /\ k \in Notices /\ newer[k] \in Nat
        BY <1>8, <3>1 DEF Alerts!Recent, AlertInv, BackendInv
      <4>2. k \in rows
        BY <1>3, <1>4, <3>1, <4>1 DEF AlertInv, BackendInv, MarkInv
      <4>3. newer[k] < Limit
        BY <1>4, <4>1, <4>2, CitizenAssumption
      <4>4. QED
        BY <4>2, <4>3 DEF Alerts!Recent
    <3>2. QED
      BY <3>1
  <2>2. QED
    BY <1>4, <2>1 DEF AlertInv, CurrentInv, Current, Alerts!Pending
<1>11. QED
  BY <1>5, <1>8, <1>9, <1>10 DEF AlertInv

\* What is set as the query's data is what the store lists.
LEMMA SetDataKeeps ==
    ASSUME list = cache, pushed \subseteq Notices, NEW data, Alerts!SetData(data)
    PROVE  cache' = data /\ list' = cache' /\ pushed' \subseteq Notices
BY DEF Alerts!SetData, Alerts!shown

\* The query's steps.  An answer that is whole has the newest rows, and any has as read what was
\* confirmed to be.
LEMMA QuerySteps ==
    ASSUME AlertInv, UNCHANGED plan,
           Alerts!Refetch \/ Alerts!Read \/ Alerts!Apply \/ Alerts!RequestFails
    PROVE  AlertInv'
<1> USE DEF AlertInv
<1>1. /\ UNCHANGED <<taken, rows, newer, read, log, published, cursor, subscribed, since, got, mark, mine, done,
                     told>>
  BY DEF Alerts!Refetch, Alerts!Read, Alerts!Apply, Alerts!RequestFails, Alerts!backend, Alerts!stream,
         Alerts!marking
<1>2. StreamInv' /\ BackendInv'
  BY <1>1 DEF StreamInv, BackendInv, Over
<1>3. CASE Alerts!Refetch \/ Alerts!RequestFails
  <2>1. /\ UNCHANGED <<cache, invalid, cut, list, pushed>>
        /\ fetch' \in {"none", "asked"} /\ reply' = None
    BY <1>3 DEF Alerts!Refetch, Alerts!RequestFails, Alerts!shown, QueryInv
  <2>2. QueryInv'
    BY <1>1, <2>1 DEF QueryInv
  <2>3. MarkInv' /\ CurrentInv'
    BY <1>1, <2>1 DEF MarkInv, CurrentInv, Current, Alerts!Recent, Alerts!Pending
  <2>4. QED
    BY <1>2, <2>2, <2>3
<1>4. CASE Alerts!Read
  <2>0. PICK scanned \in SUBSET Alerts!Recent :
            /\ reply' = [n \in scanned |-> IF n \in read THEN "read" ELSE "unread"]
            /\ cut' = IF scanned = Alerts!Recent THEN cut \ {"reply"} ELSE cut \union {"reply"}
    BY <1>4 DEF Alerts!Read
  <2> DEFINE answer == [n \in scanned |-> IF n \in read THEN "read" ELSE "unread"]
  <2>1. /\ UNCHANGED <<cache, invalid, list, pushed>>
        /\ fetch' = "read" /\ reply' = answer /\ Alerts!Recent' = Alerts!Recent
    BY <1>1, <1>4, <2>0 DEF Alerts!Read, Alerts!shown, Alerts!Recent
  <2>2. answer \in Alerts!Lists /\ DOMAIN answer = scanned /\ scanned \subseteq rows
    <3>1. scanned \in SUBSET Notices /\ scanned \subseteq rows
          /\ answer \in [scanned -> {"read", "unread", "set"}]
      BY DEF BackendInv, Alerts!Recent
    <3>2. QED
      BY <3>1, ListForm
  <2>3. \A n \in done \intersect DOMAIN answer : answer[n] = "read"
    BY DEF MarkInv, BackendInv
  <2>c. /\ cut' \subseteq {"reply", "data"} /\ ("data" \in cut' <=> "data" \in cut)
        /\ "reply" \in cut' \/ scanned = Alerts!Recent
    BY <2>0 DEF QueryInv
  <2>4. answer # None
    BY <2>2, NoneIsNoData
  <2> HIDE DEF answer
  <2>5. QueryInv'
    BY <1>1, <2>1, <2>2, <2>4, <2>c DEF QueryInv
  <2>6. MarkInv'
    BY <1>1, <2>1 DEF MarkInv, Alerts!Pending
  <2>7. CurrentInv'
    <3>1. Current(reply, "reply" \in cut)'
      BY <1>1, <2>1, <2>2, <2>3, <2>c DEF Current
    <3>2. Current(cache, "data" \in cut)' <=> Current(cache, "data" \in cut)
      BY <1>1, <2>1, <2>c DEF Current
    <3>3. QED
      BY <1>1, <2>1, <3>1, <3>2 DEF CurrentInv, Alerts!Pending
  <2>8. QED
    BY <1>2, <2>5, <2>6, <2>7
<1>5. CASE Alerts!Apply
  <2>1. /\ fetch = "read" /\ fetch' = "none" /\ reply' = None /\ invalid' = FALSE
        /\ Alerts!SetData(reply)
        /\ cut' = IF "reply" \in cut THEN {"data"} ELSE {}
    BY <1>5 DEF Alerts!Apply
  <2>2. cache' = reply /\ list' = cache' /\ pushed' \subseteq Notices
    BY <2>1, SetDataKeeps DEF QueryInv
  <2>3. cache' # None
    BY <2>1, <2>2 DEF QueryInv
  <2>4. QueryInv'
    BY <1>1, <2>1, <2>2, <2>3 DEF QueryInv
  <2>5. MarkInv'
    BY <1>1, <2>3 DEF MarkInv, Alerts!Pending
  <2>6. CurrentInv'
    BY <1>1, <2>1, <2>2 DEF CurrentInv, Current, Alerts!Recent, Alerts!Pending
  <2>7. QED
    BY <1>2, <2>4, <2>5, <2>6
<1>6. QED
  BY <1>3, <1>4, <1>5

\* An invalidation puts an end to what the query has read, but for the first time that it asks.
LEMMA InvalidateKeeps ==
    ASSUME QueryInv, Alerts!Invalidate
    PROVE  /\ invalid' = TRUE /\ fetch' \in {"none", "asked", "read"}
           /\ fetch' = "read" <=> reply' # None
           /\ reply' = None \/ (cache = None /\ reply' = reply /\ fetch' = fetch)
BY DEF QueryInv, Alerts!Invalidate

\* An event.  What the phone takes in of it, while it has data, it asks for again.
LEMMA MessageStep == ASSUME AlertInv, UNCHANGED plan, Alerts!OnMessage PROVE AlertInv'
<1> USE DEF AlertInv
<1> DEFINE n == log[Alerts!Feed!Newest("phone")']
<1>1. /\ UNCHANGED <<taken, rows, newer, read, log, cache, cut, mark, mine, done, list>>
      /\ Alerts!Feed!Deliver("phone") /\ Alerts!Invalidate
      /\ pushed' \in {pushed, pushed \union {n}}
      /\ told' = IF cache # None /\ plan.notices[n] # "verified" THEN told \union {n} ELSE told
  BY DEF Alerts!OnMessage, Alerts!backend, Alerts!marking, Alerts!Kind
<1>2. StreamInv' /\ Alerts!Feed!Newest("phone")' \in 1..Len(log)
  BY <1>1, FeedStep
<1>3. n \in Notices /\ (plan.notices[n] # "verified" => n \in Over)
  BY <1>2 DEF StreamInv, BackendInv
<1> HIDE DEF n
<1>4. Over' = Over
  BY <1>1 DEF Over
<1>5. BackendInv'
  BY <1>1, <1>3, <1>4 DEF BackendInv, Over
<1>6. QueryInv'
  BY <1>1, <1>3, InvalidateKeeps DEF QueryInv
<1>7. MarkInv'
  BY <1>1 DEF MarkInv, Alerts!Pending
<1>8. CurrentInv'
  BY <1>1, InvalidateKeeps DEF CurrentInv, Current, Alerts!Recent, QueryInv
<1>9. QED
  BY <1>2, <1>5, <1>6, <1>7, <1>8

\* A call of markRead that changes.
LEMMA MarkSet ==
    ASSUME NEW m \in Alerts!Marks, NEW c \in Alerts!Calls, mark' = [mark EXCEPT ![m] = c],
           mark \in [Alerts!Marks -> Alerts!Calls \union {None}]
    PROVE  /\ mark' \in [Alerts!Marks -> Alerts!Calls \union {None}]
           /\ mark'[m] = c /\ mark'[m] # None
           /\ \A k \in Alerts!Marks \ {m} : mark'[k] = mark[k]
BY NoneIsNoData

LEMMA CallShape ==
    ASSUME MarkInv, NEW m \in Alerts!Marks, mark[m] # None
    PROVE  /\ mark[m] \in Alerts!Calls /\ mark[m].row \in rows \union {None}
           /\ mark[m].tries \in 0..2 /\ mark[m].previous \in Alerts!Lists \union {None}
           /\ mark[m].previous # None => DOMAIN mark[m].previous \subseteq rows
BY DEF MarkInv, Alerts!Calls

LEMMA OverIsACall ==
    /\ Alerts!Over \in Alerts!Calls /\ Alerts!Over.row = None /\ Alerts!Over.previous = None
    /\ Alerts!Over.at = "over"
BY DEF Alerts!Over, Alerts!Calls

\* The button: what is shown, as read before anybody has confirmed it, is not at rest.
LEMMA MarkReadStep ==
    ASSUME AlertInv, UNCHANGED plan, NEW m \in Alerts!Marks, NEW row \in Notices \union {None},
           Alerts!MarkRead(m, row)
    PROVE  AlertInv'
<1> USE DEF AlertInv
<1> DEFINE call == [row |-> row, previous |-> cache, tries |-> 1, at |-> "asked"]
           data == [n \in DOMAIN cache |-> IF n = row THEN "set" ELSE cache[n]]
<1>1. /\ UNCHANGED <<taken, rows, newer, read, log, published, cursor, subscribed, since, got, cut, done, told>>
      /\ mark' = [mark EXCEPT ![m] = call] /\ mine' = mine \union {m}
      /\ fetch' = "none" /\ reply' = None
  BY DEF Alerts!MarkRead, Alerts!backend, Alerts!stream
<1>2. StreamInv' /\ BackendInv'
  BY <1>1 DEF StreamInv, BackendInv, Over
<1>3. row \in rows \union {None} /\ (cache = None => row = None)
  BY DEF Alerts!MarkRead, QueryInv
<1>4. call \in Alerts!Calls
  BY DEF Alerts!Calls, QueryInv
<1>5. /\ mark' \in [Alerts!Marks -> Alerts!Calls \union {None}]
      /\ mark'[m] = call /\ \A k \in Alerts!Marks \ {m} : mark'[k] = mark[k]
  <2> HIDE DEF call
  <2>1. QED
    BY <1>1, <1>4, MarkSet DEF MarkInv
<1>6. call.row = row /\ call.previous = cache /\ call.at = "asked"
  OBVIOUS
<1> HIDE DEF call
<1>7. Alerts!Pending(m)' /\ \A k \in Alerts!Marks \ {m} : Alerts!Pending(k)' = Alerts!Pending(k)
  BY <1>4, <1>5, <1>6, NoneIsNoData DEF Alerts!Pending
<1>8. /\ cache' \in Alerts!Lists \union {None} /\ (cache' = None <=> cache = None)
      /\ cache' # None => DOMAIN cache' \subseteq rows
      /\ list' = cache' /\ pushed' \subseteq Notices /\ invalid' \in BOOLEAN
  <2>1. CASE cache = None
    BY <2>1 DEF Alerts!MarkRead, Alerts!shown, QueryInv
  <2>2. CASE cache # None
    <3>1. Alerts!SetData(data) /\ invalid' = FALSE
      BY <2>2 DEF Alerts!MarkRead
    <3>2. DOMAIN cache \in SUBSET Notices /\ cache \in [DOMAIN cache -> {"read", "unread", "set"}]
      BY <2>2, ListShape DEF QueryInv
    <3>3. data \in [DOMAIN cache -> {"read", "unread", "set"}]
      BY <3>2
    <3>4. data \in Alerts!Lists /\ DOMAIN data = DOMAIN cache
      BY <3>2, <3>3, ListForm
    <3> HIDE DEF data
    <3>5. cache' = data /\ list' = cache' /\ pushed' \subseteq Notices
      BY <3>1, SetDataKeeps DEF QueryInv
    <3>6. QED
      BY <2>2, <3>1, <3>4, <3>5, NoneIsNoData DEF QueryInv
  <2>3. QED
    BY <2>1, <2>2
<1> HIDE DEF data
<1>9. QueryInv'
  BY <1>1, <1>8 DEF QueryInv
<1>10. MarkInv'
  <2>1. mine' \subseteq {k \in Alerts!Marks : Alerts!Pending(k)'}
    BY <1>1, <1>7 DEF MarkInv
  <2>2. ASSUME NEW k \in Alerts!Marks, mark'[k] # None
        PROVE  /\ mark'[k].row \in rows \union {None}
               /\ mark'[k].previous # None => DOMAIN mark'[k].previous \subseteq rows
               /\ mark'[k].at = "arrived" => mark'[k].row \in read \union {None}
               /\ cache' = None /\ Alerts!Pending(k)' => mark'[k].row = None
    <3>1. CASE k = m
      BY <1>3, <1>5, <1>6, <1>8, <3>1 DEF QueryInv
    <3>2. CASE k # m
      BY <1>5, <1>7, <1>8, <2>2, <3>2 DEF MarkInv
    <3>3. QED
      BY <3>1, <3>2
  <2>3. QED
    BY <1>1, <1>5, <2>1, <2>2 DEF MarkInv
<1>11. CurrentInv'
  BY <1>1, <1>7 DEF CurrentInv
<1>12. QED
  BY <1>2, <1>9, <1>10, <1>11

\* The call arrives: its notice is read.
LEMMA MarkArrivesStep ==
    ASSUME AlertInv, UNCHANGED plan, NEW m \in Alerts!Marks, Alerts!MarkArrives(m)
    PROVE  AlertInv'
<1> USE DEF AlertInv
<1> DEFINE call == IF mark[m].at = "orphan" THEN Alerts!Over ELSE [mark[m] EXCEPT !.at = "arrived"]
<1>1. /\ UNCHANGED <<taken, rows, newer, log, published, cursor, subscribed, since, got, cache, fetch, reply,
                     invalid, cut, mine, done, list, pushed, told>>
      /\ mark[m] # None /\ mark[m].at \in {"asked", "orphan"}
      /\ read' = read \union ({mark[m].row} \intersect rows)
      /\ mark' = [mark EXCEPT ![m] = call]
  BY DEF Alerts!MarkArrives, Alerts!stream, Alerts!query, Alerts!shown
<1>2. StreamInv' /\ BackendInv' /\ QueryInv'
  BY <1>1 DEF StreamInv, BackendInv, QueryInv, Over
<1>3. /\ call \in Alerts!Calls
      /\ call.row \in {None, mark[m].row} /\ call.previous \in {None, mark[m].previous}
      /\ call.at = IF mark[m].at = "orphan" THEN "over" ELSE "arrived"
  BY <1>1, CallShape, OverIsACall DEF Alerts!Calls
<1> HIDE DEF call
<1>4. /\ mark' \in [Alerts!Marks -> Alerts!Calls \union {None}]
      /\ mark'[m] = call /\ mark'[m] # None /\ \A k \in Alerts!Marks \ {m} : mark'[k] = mark[k]
  BY <1>1, <1>3, MarkSet DEF MarkInv
<1>5. \A k \in Alerts!Marks : Alerts!Pending(k)' = Alerts!Pending(k)
  BY <1>1, <1>3, <1>4 DEF Alerts!Pending
<1>6. MarkInv'
  <2>1. mine' \subseteq {k \in Alerts!Marks : Alerts!Pending(k)'}
    BY <1>1, <1>5 DEF MarkInv
  <2>2. ASSUME NEW k \in Alerts!Marks, mark'[k] # None
        PROVE  /\ mark'[k].row \in rows \union {None}
               /\ mark'[k].previous # None => DOMAIN mark'[k].previous \subseteq rows
               /\ mark'[k].at = "arrived" => mark'[k].row \in read' \union {None}
               /\ cache = None /\ Alerts!Pending(k)' => mark'[k].row = None
    <3>1. CASE k = m
      BY <1>1, <1>3, <1>4, <1>5, <3>1 DEF MarkInv
    <3>2. CASE k # m
      BY <1>1, <1>4, <1>5, <2>2, <3>2 DEF MarkInv
    <3>3. QED
      BY <3>1, <3>2
  <2>3. QED
    BY <1>1, <1>4, <2>1, <2>2 DEF MarkInv
<1>7. CurrentInv'
  BY <1>1, <1>5 DEF CurrentInv, Current, Alerts!Recent
<1>8. QED
  BY <1>2, <1>6, <1>7

\* Fields of a call that are set.
LEMMA CallWith ==
    ASSUME NEW c \in Alerts!Calls
    PROVE  /\ [c EXCEPT !.tries = 2, !.at = "asked"] =
                    [row |-> c.row, previous |-> c.previous, tries |-> 2, at |-> "asked"]
           /\ [c EXCEPT !.previous = None, !.tries = 0, !.at = "orphan"] =
                    [row |-> c.row, previous |-> None, tries |-> 0, at |-> "orphan"]
           /\ c.row \in Notices \union {None} /\ c.previous \in Alerts!Lists \union {None}
<1>1. /\ c = [row |-> c.row, previous |-> c.previous, tries |-> c.tries, at |-> c.at]
      /\ c.row \in Notices \union {None} /\ c.previous \in Alerts!Lists \union {None}
  BY DEF Alerts!Calls
<1>2. ASSUME NEW d, NEW r, NEW p, NEW t, NEW a, NEW b,
             d = [row |-> r, previous |-> p, tries |-> t, at |-> a]
      PROVE  /\ [d EXCEPT !.previous = b] = [row |-> r, previous |-> b, tries |-> t, at |-> a]
             /\ [d EXCEPT !.tries = b] = [row |-> r, previous |-> p, tries |-> b, at |-> a]
             /\ [d EXCEPT !.at = b] = [row |-> r, previous |-> p, tries |-> t, at |-> b]
  BY <1>2
<1>3. [[c EXCEPT !.tries = 2] EXCEPT !.at = "asked"] =
          [row |-> c.row, previous |-> c.previous, tries |-> 2, at |-> "asked"]
  <2> DEFINE d == [c EXCEPT !.tries = 2]
  <2>1. d = [row |-> c.row, previous |-> c.previous, tries |-> 2, at |-> c.at]
    BY <1>1, <1>2
  <2> HIDE DEF d
  <2>2. [d EXCEPT !.at = "asked"] =
            [row |-> c.row, previous |-> c.previous, tries |-> 2, at |-> "asked"]
    BY <1>2, <2>1
  <2>3. QED
    BY <2>2 DEF d
<1>4. [[[c EXCEPT !.previous = None] EXCEPT !.tries = 0] EXCEPT !.at = "orphan"] =
          [row |-> c.row, previous |-> None, tries |-> 0, at |-> "orphan"]
  <2> DEFINE d == [c EXCEPT !.previous = None]
             e == [d EXCEPT !.tries = 0]
  <2>1. d = [row |-> c.row, previous |-> None, tries |-> c.tries, at |-> c.at]
    BY <1>1, <1>2
  <2> HIDE DEF d
  <2>2. e = [row |-> c.row, previous |-> None, tries |-> 0, at |-> c.at]
    BY <1>2, <2>1
  <2> HIDE DEF e
  <2>3. [e EXCEPT !.at = "orphan"] =
            [row |-> c.row, previous |-> None, tries |-> 0, at |-> "orphan"]
    BY <1>2, <2>2
  <2>4. QED
    BY <2>3 DEF d, e
<1>5. QED
  BY <1>1, <1>3, <1>4

\* The end of a call: it is no more pending, and the list is asked for again.
LEMMA MarkEnds ==
    ASSUME AlertInv, NEW m \in Alerts!Marks, Alerts!Pending(m),
           mark' = [mark EXCEPT ![m] = Alerts!Over], mine' = mine \ {m},
           UNCHANGED <<rows, newer, read, cut, told>>,
           cache = None \/ cache' # None, done \subseteq done', done' \subseteq read,
           invalid' = TRUE,
           reply' = None \/ (done' = done /\ reply' = reply /\ fetch' = fetch), QueryInv'
    PROVE  MarkInv' /\ CurrentInv'
<1> USE DEF AlertInv
<1>1. /\ mark' \in [Alerts!Marks -> Alerts!Calls \union {None}]
      /\ mark'[m] = Alerts!Over /\ \A k \in Alerts!Marks \ {m} : mark'[k] = mark[k]
  BY MarkSet, OverIsACall DEF MarkInv
<1>2. ~Alerts!Pending(m)' /\ \A k \in Alerts!Marks \ {m} : Alerts!Pending(k)' = Alerts!Pending(k)
  BY <1>1, OverIsACall DEF Alerts!Pending
<1>3. mine' \subseteq {k \in Alerts!Marks : Alerts!Pending(k)'}
  BY <1>2 DEF MarkInv
<1>4. ASSUME NEW k \in Alerts!Marks, mark'[k] # None
      PROVE  /\ mark'[k].row \in rows \union {None}
             /\ mark'[k].previous # None => DOMAIN mark'[k].previous \subseteq rows
             /\ mark'[k].at = "arrived" => mark'[k].row \in read \union {None}
             /\ cache' = None /\ Alerts!Pending(k)' => mark'[k].row = None
  <2>1. CASE k = m
    BY <1>1, <2>1, OverIsACall
  <2>2. CASE k # m
    BY <1>1, <1>2, <1>4, <2>2 DEF MarkInv
  <2>3. QED
    BY <2>1, <2>2
<1>5. MarkInv'
  BY <1>1, <1>3, <1>4 DEF MarkInv
<1>6. CurrentInv'
  BY DEF CurrentInv, Current, Alerts!Recent, QueryInv
<1>7. QED
  BY <1>5, <1>6

LEMMA MarkAnsweredStep ==
    ASSUME AlertInv, UNCHANGED plan, NEW m \in Alerts!Marks, Alerts!MarkAnswered(m)
    PROVE  AlertInv'
<1> USE DEF AlertInv
<1>1. /\ UNCHANGED <<taken, rows, newer, read, log, published, cursor, subscribed, since, got, cache, cut, list,
                     pushed, told>>
      /\ mark[m] # None /\ mark[m].at = "arrived" /\ Alerts!Pending(m)
      /\ done' = done \union ({mark[m].row} \intersect rows)
      /\ mark' = [mark EXCEPT ![m] = Alerts!Over] /\ mine' = mine \ {m}
      /\ Alerts!Invalidate
  BY DEF Alerts!MarkAnswered, Alerts!backend, Alerts!stream, Alerts!shown, Alerts!Pending
<1>2. StreamInv' /\ BackendInv'
  BY <1>1 DEF StreamInv, BackendInv, Over
<1>3. QueryInv'
  BY <1>1, InvalidateKeeps DEF QueryInv
<1>4. done' \subseteq read /\ (cache = None => done' = done)
  BY <1>1, NoneIsNoData DEF MarkInv, BackendInv
<1>5. MarkInv' /\ CurrentInv'
  BY <1>1, <1>3, <1>4, InvalidateKeeps, MarkEnds
<1>6. QED
  BY <1>2, <1>3, <1>5

LEMMA MarkFailsStep ==
    ASSUME AlertInv, UNCHANGED plan, NEW m \in Alerts!Marks, Alerts!MarkFails(m)
    PROVE  AlertInv'
<1> USE DEF AlertInv
<1> DEFINE before == IF mark[m].previous = None THEN cache ELSE mark[m].previous
<1>1. /\ UNCHANGED <<taken, rows, newer, read, log, published, cursor, subscribed, since, got, cut, done, told>>
      /\ Alerts!Pending(m) /\ mark[m] # None
      /\ mark' = [mark EXCEPT ![m] = Alerts!Over] /\ mine' = mine \ {m}
      /\ Alerts!SetData(before) /\ Alerts!Invalidate
  BY DEF Alerts!MarkFails, Alerts!backend, Alerts!stream, Alerts!Pending
<1>2. StreamInv' /\ BackendInv'
  BY <1>1 DEF StreamInv, BackendInv, Over
<1>3. /\ before \in Alerts!Lists \union {None} /\ (before # None => DOMAIN before \subseteq rows)
      /\ cache = None \/ before # None
  BY <1>1, CallShape DEF QueryInv
<1> HIDE DEF before
<1>4. cache' = before /\ list' = cache' /\ pushed' \subseteq Notices
  BY <1>1, SetDataKeeps DEF QueryInv
<1>5. QueryInv'
  BY <1>1, <1>3, <1>4, InvalidateKeeps DEF QueryInv
<1>6. MarkInv' /\ CurrentInv'
  <2>1. done' \subseteq read /\ done \subseteq done'
    BY <1>1 DEF MarkInv
  <2>2. QED
    BY <1>1, <1>3, <1>4, <1>5, <2>1, InvalidateKeeps, MarkEnds
<1>7. QED
  BY <1>2, <1>5, <1>6

LEMMA MarkRetriesStep ==
    ASSUME AlertInv, UNCHANGED plan, NEW m \in Alerts!Marks, Alerts!MarkRetries(m)
    PROVE  AlertInv'
<1> USE DEF AlertInv
<1> DEFINE call == [mark[m] EXCEPT !.tries = 2, !.at = "asked"]
<1>1. /\ UNCHANGED <<taken, rows, newer, read, log, published, cursor, subscribed, since, got, cache, fetch,
                     reply, invalid, cut, mine, done, list, pushed, told>>
      /\ mark[m] # None /\ Alerts!Pending(m)
      /\ mark' = [mark EXCEPT ![m].tries = 2, ![m].at = "asked"]
  BY DEF Alerts!MarkRetries, Alerts!backend, Alerts!stream, Alerts!query, Alerts!shown,
         Alerts!Pending
<1>2. mark' = [mark EXCEPT ![m] = call]
  BY <1>1 DEF MarkInv
<1>3. StreamInv' /\ BackendInv' /\ QueryInv'
  BY <1>1 DEF StreamInv, BackendInv, QueryInv, Over
<1>4. /\ call \in Alerts!Calls /\ call.row = mark[m].row /\ call.previous = mark[m].previous
      /\ call.at = "asked"
  <2>1. mark[m] \in Alerts!Calls
    BY <1>1, CallShape
  <2>2. /\ call = [row |-> mark[m].row, previous |-> mark[m].previous, tries |-> 2, at |-> "asked"]
        /\ mark[m].row \in Notices \union {None} /\ mark[m].previous \in Alerts!Lists \union {None}
    BY <2>1, CallWith
  <2> HIDE DEF call
  <2>3. QED
    BY <2>2 DEF Alerts!Calls
<1> HIDE DEF call
<1>5. /\ mark' \in [Alerts!Marks -> Alerts!Calls \union {None}]
      /\ mark'[m] = call /\ mark'[m] # None /\ \A k \in Alerts!Marks \ {m} : mark'[k] = mark[k]
  BY <1>2, <1>4, MarkSet DEF MarkInv
<1>6. \A k \in Alerts!Marks : Alerts!Pending(k)' = Alerts!Pending(k)
  BY <1>1, <1>4, <1>5 DEF Alerts!Pending
<1>7. MarkInv'
  <2>1. mine' \subseteq {k \in Alerts!Marks : Alerts!Pending(k)'}
    BY <1>1, <1>6 DEF MarkInv
  <2>2. ASSUME NEW k \in Alerts!Marks, mark'[k] # None
        PROVE  /\ mark'[k].row \in rows \union {None}
               /\ mark'[k].previous # None => DOMAIN mark'[k].previous \subseteq rows
               /\ mark'[k].at = "arrived" => mark'[k].row \in read \union {None}
               /\ cache = None /\ Alerts!Pending(k)' => mark'[k].row = None
    <3>1. CASE k = m
      BY <1>1, <1>4, <1>5, <1>6, <3>1 DEF MarkInv
    <3>2. CASE k # m
      BY <1>5, <1>6, <2>2, <3>2 DEF MarkInv
    <3>3. QED
      BY <3>1, <3>2
  <2>3. QED
    BY <1>1, <1>5, <2>1, <2>2 DEF MarkInv
<1>8. CurrentInv'
  BY <1>1, <1>6 DEF CurrentInv, Current, Alerts!Recent
<1>9. QED
  BY <1>3, <1>7, <1>8

\* Another page: what it had to be told by itself is not heard of any more.
LEMMA PageKeeps ==
    ASSUME AlertInv, UNCHANGED plan, NEW k, Alerts!PageChanges(k)
    PROVE  AlertInv'
<1> USE DEF AlertInv
<1>1. /\ UNCHANGED <<taken, rows, newer, read, log, published, cursor, subscribed, since, got, cache, fetch,
                     reply, invalid, cut, mark, done, told>>
      /\ mine' = {} /\ list' = cache /\ pushed' \subseteq Notices
  BY DEF Alerts!PageChanges, Alerts!backend, Alerts!stream, Alerts!query, Alerts!shown, QueryInv
<1>2. QED
  BY <1>1 DEF StreamInv, BackendInv, Over, QueryInv, MarkInv, CurrentInv, Current, Alerts!Recent, Alerts!Pending

\* The application is opened anew: it has no data, and no call of its own.
LEMMA ReloadKeeps ==
    ASSUME AlertInv, UNCHANGED plan, Alerts!Reloads
    PROVE  AlertInv'
<1> USE DEF AlertInv
<1> DEFINE call(m) == IF ~Alerts!Pending(m) THEN mark[m]
                      ELSE IF mark[m].at = "arrived" THEN Alerts!Over
                      ELSE [mark[m] EXCEPT !.previous = None, !.tries = 0, !.at = "orphan"]
<1>1. /\ UNCHANGED <<taken, rows, newer, read, log, published, cursor, done, told>>
      /\ subscribed' = {} /\ since' = [c \in {"phone"} |-> 0] /\ got' = [c \in {"phone"} |-> <<>>]
      /\ cache' = None /\ fetch' = "asked" /\ reply' = None /\ invalid' = FALSE /\ cut' = {}
      /\ mark' = [m \in Alerts!Marks |-> call(m)]
      /\ mine' = {} /\ list' = None /\ pushed' = {}
  BY DEF Alerts!Reloads, Alerts!Relocate, Alerts!backend
<1>2. StreamInv' /\ BackendInv' /\ QueryInv'
  <2>1. StreamInv'
    <3>1. UNCHANGED <<log, published, cursor>> /\ subscribed' = {}
      BY <1>1
    <3>2. since' = [c \in {"phone"} |-> 0] /\ got' = [c \in {"phone"} |-> <<>>]
      BY <1>1
    <3>3. since' \in [{"phone"} -> Nat] /\ got' \in [{"phone"} -> Seq(Nat)]
      <4> HIDE DEF call
      <4>1. <<>> \in Seq(Nat)
        OBVIOUS
      <4>2. QED
        BY <3>2, <4>1
    <3>4. QED
      BY <3>1, <3>3 DEF StreamInv
  <2>2. BackendInv'
    BY <1>1 DEF BackendInv, Over
  <2>3. QueryInv'
    BY <1>1 DEF QueryInv
  <2>4. QED
    BY <2>1, <2>2, <2>3
<1>3. ASSUME NEW m \in Alerts!Marks
      PROVE  /\ call(m) \in Alerts!Calls \union {None}
             /\ call(m) # None =>
                    /\ call(m).row \in rows \union {None}
                    /\ call(m).previous # None => DOMAIN call(m).previous \subseteq rows
                    /\ call(m).at = "arrived" => call(m).row \in read \union {None}
                    /\ call(m).at \notin {"asked", "arrived"}
  <2>1. CASE ~Alerts!Pending(m)
    BY <2>1 DEF MarkInv, Alerts!Pending
  <2>2. CASE Alerts!Pending(m) /\ mark[m].at = "arrived"
    BY <2>2, OverIsACall
  <2>3. CASE Alerts!Pending(m) /\ mark[m].at # "arrived"
    <3>1. mark[m] # None
      BY <2>3 DEF Alerts!Pending
    <3>2. /\ call(m) = [row |-> mark[m].row, previous |-> None, tries |-> 0, at |-> "orphan"]
          /\ mark[m].row \in Notices \union {None}
      <4>1. call(m) = [mark[m] EXCEPT !.previous = None, !.tries = 0, !.at = "orphan"]
        BY <2>3
      <4>2. mark[m] \in Alerts!Calls
        BY <3>1, CallShape
      <4> HIDE DEF call
      <4>3. QED
        BY <4>1, <4>2, CallWith
    <3> HIDE DEF call
    <3>3. /\ call(m) \in Alerts!Calls /\ call(m).row = mark[m].row /\ call(m).previous = None
          /\ call(m).at = "orphan"
      BY <3>2 DEF Alerts!Calls
    <3>4. QED
      BY <3>1, <3>3, CallShape
  <2>4. QED
    BY <2>1, <2>2, <2>3
<1> HIDE DEF call
<1>4. \A m \in Alerts!Marks : mark'[m] = call(m) /\ ~Alerts!Pending(m)'
  BY <1>1, <1>3 DEF Alerts!Pending
<1>5. mark' \in [Alerts!Marks -> Alerts!Calls \union {None}]
  BY <1>1, <1>3
<1>6. MarkInv'
  BY <1>1, <1>3, <1>4, <1>5 DEF MarkInv
<1>7. CurrentInv'
  BY <1>1 DEF CurrentInv
<1>8. QED
  BY <1>2, <1>6, <1>7

\* A step of the notifications.
LEMMA AlertSteps == ASSUME AlertInv, UNCHANGED plan, Alerts!Step PROVE AlertInv'
BY BackendSteps, QuerySteps, StreamSteps, MessageStep, MarkReadStep, MarkArrivesStep, MarkAnsweredStep,
   MarkRetriesStep, MarkFailsStep DEF Alerts!Step

LEMMA AlertsInit == ASSUME Init PROVE AlertInv
<1>1. log = <<>> /\ published = 0 /\ cursor = 0 /\ subscribed = {}
      /\ since = [c \in {"phone"} |-> 0] /\ got = [c \in {"phone"} |-> <<>>]
  BY DEF Init, Alerts!Init, Alerts!Feed!Init
<1>2. StreamInv
  BY <1>1 DEF StreamInv
<1>3. plan \in Plans /\ BackendInv /\ QueryInv
  <2>1. /\ plan \in Plans /\ taken = [n \in Notices |-> 0] /\ rows = {} /\ read = {} /\ told = {}
        /\ newer = [n \in Notices |-> 0] /\ cut = {}
        /\ cache = None /\ fetch = "asked" /\ reply = None /\ invalid = FALSE
        /\ list = None /\ pushed = {}
    BY DEF Init, Alerts!Init
  <2>2. BackendInv
    BY <1>1, <2>1 DEF BackendInv
  <2>3. QueryInv
    BY <2>1 DEF QueryInv
  <2>4. QED
    BY <2>1, <2>2, <2>3
<1>4. MarkInv /\ CurrentInv
  BY DEF Init, Alerts!Init, MarkInv, CurrentInv, Alerts!Pending
<1>5. QED
  BY <1>2, <1>3, <1>4 DEF AlertInv

LEMMA AlertsNext == ASSUME AlertInv, [Next]_vars PROVE AlertInv'
<1>1. ASSUME NEW k, GoTo(k) PROVE AlertInv'
  BY <1>1, AlertsKept, PageKeeps DEF GoTo, alerts
<1>2. CASE LocationStep
  <2>1. CASE location' = location
    BY <1>2, <2>1, AlertsKept DEF LocationStep
  <2>2. CASE location' # location
    BY <1>2, <2>2, RelocateKeeps DEF LocationStep
  <2>3. QED
    BY <2>1, <2>2
<1>3. CASE AlertStep
  BY <1>3, AlertSteps DEF AlertStep
<1>4. CASE FormStep \/ UNCHANGED vars
  BY <1>4, AlertsKept DEF FormStep, vars
<1>5. CASE HandleCustomLocation \/ \E k \in plan.pages : Navigate(k)
  BY <1>1, <1>5 DEF HandleCustomLocation, Navigate
<1>6. ASSUME NEW p \in Posts, SaveOffline(p) \/ SubmitEnds(p) PROVE AlertInv'
  BY <1>1, <1>6, AlertsKept DEF SaveOffline, SubmitEnds
<1>7. CASE Reload
  BY <1>7, ReloadKeeps DEF Reload
<1>8. QED
  BY <1>2, <1>3, <1>4, <1>5, <1>6, <1>7 DEF Next

\* useNotifications.ts:19-48, useSSE.ts:32-60, notifications/service.go:14-43: a list that is at rest
\* has every notice that the phone was told of or has marked, if its row is among the newest ones and
\* the result that the list comes from was not cut short; it shows as read what the backend has
\* confirmed to be, and is what the store lists.
THEOREM ListStaysCurrent == Spec => []ListIsCurrent
<1>1. AlertInv => ListIsCurrent
  BY DEF AlertInv, CurrentInv, Current, Alerts!Recent, QueryInv, ListIsCurrent, Alerts!ListIsCurrent
<1>2. QED
  BY <1>1, AlertsInit, AlertsNext, PTL DEF Spec
-----------------------------------------------------------------------------
(***************************************************************************)
(* Type correctness.                                                       *)
(***************************************************************************)

\* The picker, which leads to the profile, is there only in a plan that has the page.
TypeInv ==
    /\ plan \in Plans /\ page \in plan.pages \union {"home"}
    /\ picker => "picker" \in plan.may
    /\ Place!TypeOK /\ Form!TypeOK

LEMMA PlanBounds ==
    /\ {MaxPlaces, MaxAsked, MaxPhotos} \subseteq Nat /\ None \notin Nat /\ None \notin Form!Reports
    /\ \A p \in Plans :
        /\ p.start \in p.pages /\ ("picker" \in p.may => "profile" \in p.pages)
        /\ p.known \in BOOLEAN /\ p.places \in 0..MaxPlaces /\ (p.known => p.places > 0)
        /\ p.photos \in 0..MaxPhotos
BY CitizenAssumption

\* A place that is met is one of those that there are.
LEMMA NewPlaces ==
    ASSUME plan \in Plans, made \in 0..MaxPlaces, made < plan.places
    PROVE  /\ made + 1 \in 1..MaxPlaces /\ made + 1 \in 0..MaxPlaces /\ made + 1 # None
BY PlanBounds

\* The steps of the phone's place.
LEMMA PlaceTypes ==
    ASSUME TypeInv, UNCHANGED <<plan, page>>, Place!Step
    PROVE  Place!TypeOK' /\ (picker' => "picker" \in plan.may)
<1> USE DEF TypeInv, Place!TypeOK, Place!Places
<1>a. MaxPlaces \in Nat /\ MaxAsked \in Nat /\ None \notin Nat
  BY PlanBounds
<1>b. ASSUME Place!NewPlace
      PROVE  made' \in 0..MaxPlaces /\ made' = Place!New /\ Place!New \in Place!Places /\ Place!New # None
  BY <1>b, NewPlaces DEF Place!NewPlace, Place!New
<1>1. CASE Place!WatchFix
  BY <1>a, <1>b, <1>1 DEF Place!WatchFix, Place!profile
<1>2. ASSUME NEW n \in Place!Places, Place!DeviceUpdated(n) \/ Place!UpdateLost(n)
      PROVE  Place!TypeOK' /\ (picker' => "picker" \in plan.may)
  <2>1. /\ UNCHANGED <<made, location, manual, picker, locating, picked, marker, choice>>
        /\ updates' \subseteq updates /\ device' \in {n, device}
    BY <1>2 DEF Place!DeviceUpdated, Place!UpdateLost, Place!profile
  <2>2. QED
    BY <2>1
<1>3. CASE Place!OpenPicker \/ Place!ClosePicker
  <2>1. /\ UNCHANGED <<made, location, manual, locating, picked, marker, updates, device, choice>>
        /\ (picker' = TRUE /\ "picker" \in plan.may) \/ picker' = FALSE
    BY <1>3 DEF Place!OpenPicker, Place!ClosePicker, Place!backend
  <2>2. QED
    BY <2>1
<1>4. CASE Place!HandleMyLocation
  BY <1>a, <1>4 DEF Place!HandleMyLocation, Place!backend
<1>5. CASE Place!MyLocation
  <2>1. /\ made' = Place!New /\ Place!New \in Place!Places /\ Place!New # None /\ made' \in 0..MaxPlaces
        /\ location' = Place!New /\ manual' = FALSE /\ picker' = FALSE
        /\ locating > 0 /\ locating' = locating - 1
        /\ choice' \in {"late", choice} /\ UNCHANGED <<picked, marker, updates, device>>
    BY <1>b, <1>5 DEF Place!MyLocation, Place!backend
  <2>2. locating' \in 0..MaxAsked /\ location' \in Place!Places \union {None} /\ location' # None
    BY <1>a, <2>1
  <2>3. choice' \in {"none", "gps", "pin", "late", "failed"}
    BY <2>1
  <2>4. QED
    BY <2>1, <2>2, <2>3
<1>6. CASE Place!MyLocationFails
  <2>1. /\ locating > 0 /\ locating' = locating - 1 /\ choice' \in {"failed", choice}
        /\ UNCHANGED <<made, location, manual, picker, picked, marker, updates, device>>
    BY <1>6 DEF Place!MyLocationFails, Place!backend
  <2>2. QED
    BY <1>a, <2>1
<1>7. CASE Place!PickPlace
  BY <1>a, <1>b, <1>7 DEF Place!PickPlace, Place!backend
<1>8. CASE Place!HandleSaveLocation
  BY <1>a, <1>8 DEF Place!HandleSaveLocation, Place!backend
<1>9. QED
  BY <1>1, <1>2, <1>3, <1>4, <1>5, <1>6, <1>7, <1>8 DEF Place!Step

\* The map of the form has some place in its middle, known or not.
LEMMA MapTypes ==
    ASSUME TypeInv, UNCHANGED page, page = "report",
           UNCHANGED <<step, described, photo, model, judging, score, overtaken, post, sending, attached>>,
           pin' \in Form!Places \union {Form!Default, None}, centre' \in Form!Places \union {Form!Default},
           loaded' \in BOOLEAN, resizing' \in BOOLEAN, heard' => loaded' /\ pin' # None,
           flight' \in Form!Places \union {None}, jumps' \in 0..MaxAsked
    PROVE  Form!TypeOK'
BY DEF TypeInv, Form!TypeOK

LEMMA MovedTypes ==
    ASSUME TypeInv, NEW where \in Form!Places \union {Form!Default}, Form!Moved(where), UNCHANGED loaded
    PROVE  /\ pin' \in Form!Places \union {Form!Default, None}
           /\ centre' \in Form!Places \union {Form!Default}
           /\ heard' => loaded' /\ pin' # None
BY PlanBounds DEF TypeInv, Form!TypeOK, Form!Moved, Form!Places, Form!Default

\* A report that is submitted.
LEMMA SubmitTypes ==
    ASSUME TypeInv, NEW p \in Posts, Form!HandleSubmit(p)
    PROVE  /\ post' \in [Posts -> Form!Reports \union {None}]
           /\ \A q \in sending \union {p} : post'[q] # None
<1> DEFINE sent == [pin |-> pin, photo |-> photo, score |-> score]
<1>1. Form!TypeOK /\ pin # None /\ post' = [post EXCEPT ![p] = sent] /\ MaxPhotos \in Nat
  BY PlanBounds DEF Form!HandleSubmit, TypeInv
<1>2. pin \in Form!Places \union {Form!Default} /\ photo \in 0..MaxPhotos /\ score \in 0..MaxPhotos
  BY <1>1 DEF Form!TypeOK
<1>3. sent \in Form!Reports
  BY <1>2 DEF Form!Reports
<1>4. sent # None
  BY <1>3, PlanBounds
<1> HIDE DEF sent
<1>5. QED
  BY <1>1, <1>3, <1>4 DEF Form!TypeOK

\* The steps of the form, and how many places have been met.
LEMMA FormTypes ==
    ASSUME TypeInv, UNCHANGED <<plan, page>>, Form!Step
    PROVE  Form!TypeOK' /\ made' \in 0..MaxPlaces
<1>0. /\ plan \in Plans /\ page = "report" /\ made \in 0..MaxPlaces
      /\ MaxPlaces \in Nat /\ MaxAsked \in Nat /\ MaxPhotos \in Nat /\ None \notin Nat
  BY PlanBounds DEF Form!Step, TypeInv, Place!TypeOK
<1>a. ASSUME Form!NewPlace PROVE made' \in Form!Places /\ made' \in 0..MaxPlaces /\ made' # None
  BY <1>0, <1>a, NewPlaces DEF Form!NewPlace, Form!Places
<1>b. Form!TypeOK
  BY DEF TypeInv
<1>c. ASSUME NEW where \in Form!Places \union {Form!Default}, Form!Moved(where),
             flight' \in {flight, None}, resizing' \in {resizing, FALSE},
             UNCHANGED <<step, described, loaded, jumps, photo, model, judging, score, overtaken, post,
                         sending, attached>>
      PROVE  Form!TypeOK'
  <2>1. /\ pin' \in Form!Places \union {Form!Default, None}
        /\ centre' \in Form!Places \union {Form!Default}
        /\ heard' => loaded' /\ pin' # None
    BY <1>c, MovedTypes
  <2>2. /\ loaded' \in BOOLEAN /\ resizing' \in BOOLEAN /\ jumps' \in 0..MaxAsked
        /\ flight' \in Form!Places \union {None}
    BY <1>b, <1>c DEF Form!TypeOK
  <2>3. QED
    BY <1>0, <1>c, <2>1, <2>2, MapTypes
<1>1. CASE Form!HandleNext \/ Form!HandleBack \/ Form!Describe
  <2>1. /\ step' \in 1..3 /\ described' \in BOOLEAN /\ resizing' \in BOOLEAN
        /\ UNCHANGED <<made, pin, centre, loaded, heard, flight, jumps, photo, model, judging, score,
                       overtaken, post, sending, attached>>
    <3>1. CASE Form!HandleNext
      BY <1>b, <3>1 DEF Form!HandleNext, Form!GoToStep, Form!TypeOK, Form!image, Form!report
    <3>2. CASE Form!HandleBack
      BY <1>b, <3>2 DEF Form!HandleBack, Form!GoToStep, Form!TypeOK, Form!image, Form!report
    <3>3. CASE Form!Describe
      BY <1>b, <3>3 DEF Form!Describe, Form!TypeOK, Form!map, Form!image, Form!report
    <3>4. QED
      BY <1>1, <3>1, <3>2, <3>3
  <2>2. QED
    BY <1>0, <1>b, <2>1 DEF Form!TypeOK
<1>2. CASE Form!MapLoads \/ Form!JumpToCurrentLocation \/ Form!JumpFails
  <2>1. /\ loaded' \in BOOLEAN /\ (loaded => loaded') /\ jumps' \in 0..MaxAsked
        /\ UNCHANGED <<made, step, described, pin, centre, heard, resizing, flight, photo, model, judging,
                       score, overtaken, post, sending, attached>>
    <3>1. CASE Form!MapLoads
      BY <1>b, <3>1 DEF Form!MapLoads, Form!TypeOK, Form!form, Form!image, Form!report
    <3>2. CASE Form!JumpToCurrentLocation
      BY <1>0, <1>b, <3>2 DEF Form!JumpToCurrentLocation, Form!TypeOK, Form!form, Form!image, Form!report
    <3>3. CASE Form!JumpFails
      BY <1>0, <1>b, <3>3 DEF Form!JumpFails, Form!TypeOK, Form!form, Form!image, Form!report
    <3>4. QED
      BY <1>2, <3>1, <3>2, <3>3
  <2>2. heard' => loaded' /\ pin' # None
    BY <1>b, <2>1 DEF Form!TypeOK
  <2>3. Form!TypeOK'
    BY <1>0, <1>b, <2>1, <2>2, MapTypes DEF Form!TypeOK
  <2>4. QED
    BY <1>0, <2>1, <2>3
<1>3. CASE Form!Drag \/ Form!Fly
  <2>1. /\ Form!NewPlace /\ Form!Moved(made') /\ flight' \in {flight, None}
        /\ UNCHANGED <<step, described, loaded, resizing, jumps, photo, model, judging, score, overtaken,
                       post, sending, attached>>
    BY <1>3 DEF Form!Drag, Form!Fly, Form!form, Form!image, Form!report
  <2>2. QED
    BY <1>0, <1>a, <1>c, <2>1
<1>4. CASE Form!Resized
  <2>1. /\ resizing' = FALSE /\ (Form!Moved(centre) \/ UNCHANGED <<pin, centre, heard>>)
        /\ UNCHANGED <<made, step, described, loaded, flight, jumps, photo, model, judging, score,
                       overtaken, post, sending, attached>>
    BY <1>4 DEF Form!Resized, Form!form, Form!image, Form!report
  <2>2. CASE Form!Moved(centre)
    BY <1>0, <1>b, <1>c, <2>1, <2>2 DEF Form!TypeOK
  <2>3. CASE UNCHANGED <<pin, centre, heard>>
    BY <1>0, <1>b, <2>1, <2>3 DEF Form!TypeOK
  <2>4. QED
    BY <2>1, <2>2, <2>3
<1>5. CASE Form!Jump
  <2>1. /\ Form!NewPlace /\ jumps > 0 /\ jumps' = jumps - 1 /\ pin' = made' /\ flight' = made'
        /\ UNCHANGED <<step, described, centre, loaded, heard, resizing, photo, model, judging, score,
                       overtaken, post, sending, attached>>
    BY <1>5 DEF Form!Jump, Form!form, Form!image, Form!report
  <2>2. jumps' \in 0..MaxAsked
    BY <1>0, <1>b, <2>1 DEF Form!TypeOK
  <2>3. /\ pin' \in Form!Places \union {Form!Default, None} /\ pin' # None
        /\ flight' \in Form!Places \union {None}
    BY <1>a, <2>1
  <2>4. Form!TypeOK'
    BY <1>0, <1>b, <2>1, <2>2, <2>3 DEF Form!TypeOK
  <2>5. QED
    BY <1>a, <2>1, <2>4
<1>6. CASE Form!Land
  <2>1. /\ flight # None /\ Form!Moved(flight) /\ flight' = None
        /\ UNCHANGED <<made, step, described, loaded, resizing, jumps, photo, model, judging, score,
                       overtaken, post, sending, attached>>
    BY <1>6 DEF Form!Land, Form!form, Form!image, Form!report
  <2>2. flight \in Form!Places \union {Form!Default}
    BY <1>b, <2>1 DEF Form!TypeOK
  <2>3. QED
    BY <1>0, <1>c, <2>1, <2>2
<1>7. CASE Form!ModelLoads
  BY <1>0, <1>b, <1>7 DEF Form!ModelLoads, Form!TypeOK, Form!form, Form!map, Form!report
<1>8. CASE Form!ChoosePhoto
  <2>1. /\ photo < plan.photos /\ photo' = photo + 1
        /\ judging' \subseteq judging \union {photo'} /\ score' \in {score, 0}
        /\ overtaken' => overtaken
        /\ UNCHANGED <<made, step, described, pin, centre, loaded, heard, resizing, flight, jumps, model,
                       post, sending, attached>>
    BY <1>8 DEF Form!ChoosePhoto, Form!form, Form!map, Form!report, Form!Default
  <2>2. photo \in Nat /\ plan.photos \in 0..MaxPhotos
    BY <1>0, <1>b, PlanBounds DEF Form!TypeOK
  <2>3. photo' \in 0..MaxPhotos /\ score' \in 0..photo' /\ judging' \subseteq 1..photo'
    BY <1>0, <1>b, <2>1, <2>2 DEF Form!TypeOK
  <2>4. overtaken' => score' < photo'
    BY <1>b, <2>1, <2>2 DEF Form!TypeOK
  <2>5. QED
    BY <1>0, <1>b, <2>1, <2>3, <2>4 DEF Form!TypeOK
<1>9. ASSUME NEW k \in Form!Photos, Form!Judged(k) PROVE Form!TypeOK' /\ made' \in 0..MaxPlaces
  <2>1. /\ k \in judging /\ judging' \subseteq judging /\ score' \in {k, 0} /\ (overtaken' => k # photo)
        /\ UNCHANGED <<made, step, described, pin, centre, loaded, heard, resizing, flight, jumps, photo,
                       model, post, sending, attached>>
    BY <1>9 DEF Form!Judged, Form!form, Form!map, Form!report, Form!Default
  <2>2. photo \in Nat /\ k \in 1..photo
    BY <1>b, <2>1 DEF Form!TypeOK
  <2>3. score' \in 0..photo /\ (overtaken' => score' < photo)
    BY <2>1, <2>2
  <2>4. QED
    BY <1>0, <1>b, <2>1, <2>3 DEF Form!TypeOK
<1>10. ASSUME NEW p \in Posts, Form!Send(p) PROVE Form!TypeOK' /\ made' \in 0..MaxPlaces
  <2>1. /\ UNCHANGED <<made, step, described, pin, centre, loaded, heard, resizing, flight, jumps, photo,
                       model, judging, score, overtaken>>
        /\ Form!HandleSubmit(p)
        /\ sending' = sending \union {p} /\ attached' = attached \union {p}
    BY <1>10 DEF Form!Send, Form!form, Form!map, Form!image
  <2>2. QED
    BY <1>0, <1>b, <2>1, SubmitTypes DEF Form!TypeOK
<1>11. QED
  BY <1>1, <1>2, <1>3, <1>4, <1>5, <1>6, <1>7, <1>8, <1>9, <1>10 DEF Form!Step

\* The form as it is opened.
LEMMA FormOpens ==
    ASSUME NEW where \in Form!Places \union {None}, Form!Opens(where), page' # "report" => where = None,
           sending' \subseteq Posts, post' \in [Posts -> Form!Reports \union {None}],
           \A p \in sending' : post'[p] # None
    PROVE  Form!TypeOK'
<1>1. /\ step' = 1 /\ described' = FALSE /\ pin' = where
      /\ centre' \in Form!Places \union {Form!Default}
      /\ loaded' = FALSE /\ heard' = FALSE /\ resizing' = FALSE /\ flight' = None /\ jumps' = 0
      /\ photo' = 0 /\ model' = FALSE /\ judging' = {} /\ score' = 0 /\ overtaken' = FALSE
      /\ attached' = {}
  BY DEF Form!Opens, Form!Default
<1>2. 0 \in 0..MaxPhotos /\ jumps' \in 0..MaxAsked
  BY <1>1, PlanBounds
<1>3. /\ photo' \in 0..MaxPhotos /\ score' \in 0..photo' /\ judging' \subseteq 1..photo'
  BY <1>1, <1>2
<1>4. /\ pin' \in Form!Places \union {Form!Default, None} /\ flight' \in Form!Places \union {None}
      /\ page' # "report" => step' = 1 /\ attached' = {} /\ pin' = None
  BY <1>1
<1>5. step' \in 1..3 /\ attached' \subseteq sending'
  BY <1>1
<1>6. QED
  BY <1>1, <1>2, <1>3, <1>4, <1>5 DEF Form!TypeOK

\* Another page, or the same one: what was submitted is not touched by it.
LEMMA GoToTypes ==
    ASSUME TypeInv, NEW k \in plan.pages \union {"home"}, GoTo(k),
           picker' \in BOOLEAN, picker' => picker,
           post' \in [Posts -> Form!Reports \union {None}], sending' \subseteq sending,
           \A p \in sending' : post'[p] # None,
           k = page => attached \subseteq sending'
    PROVE  TypeInv'
<1>1. plan' = plan /\ page' = k /\ UNCHANGED <<made, location, manual, locating, updates, device, choice>>
  BY DEF GoTo, Place!PageChanges, Place!backend
<1>2. Place!TypeOK'
  <2>1. CASE k = page
    BY <1>1, <2>1 DEF GoTo, TypeInv, Place!TypeOK
  <2>2. CASE k # page
    BY <1>1, <2>2 DEF GoTo, Place!PageChanges, TypeInv, Place!TypeOK
  <2>3. QED
    BY <2>1, <2>2
<1>3. Form!TypeOK'
  <2>1. CASE k = page
    <3>1. UNCHANGED <<step, described, pin, centre, loaded, heard, resizing, flight, jumps, photo, model,
                      judging, score, overtaken, attached>>
      BY <2>1 DEF GoTo, form
    <3>2. QED
      BY <1>1, <2>1, <3>1 DEF TypeInv, Form!TypeOK
  <2>2. CASE k # page
    <3> DEFINE where == IF k = "report" THEN location' ELSE None
    <3>1. Form!Opens(where)
      BY <2>2 DEF GoTo, Form!PageChanges
    <3>2. where \in Form!Places \union {None} /\ (page' # "report" => where = None)
      BY <1>1 DEF TypeInv, Place!TypeOK, Place!Places, Form!Places
    <3>3. QED
      BY <3>1, <3>2, FormOpens DEF TypeInv, Form!TypeOK
  <2>3. QED
    BY <2>1, <2>2
<1>4. QED
  BY <1>1, <1>2, <1>3 DEF TypeInv

LEMMA TypesInit == ASSUME Init PROVE TypeInv
<1>1. /\ plan \in Plans /\ page = plan.start /\ plan.start \in plan.pages /\ picker = FALSE
      /\ plan.known \in BOOLEAN /\ (plan.known => MaxPlaces > 0)
      /\ MaxPlaces \in Nat /\ MaxAsked \in Nat /\ MaxPhotos \in Nat /\ None \notin Nat
  <2>1. plan \in Plans
    BY DEF Init
  <2>2. plan.places \in 0..MaxPlaces /\ (plan.known => plan.places > 0)
    BY <2>1, PlanBounds
  <2>3. QED
    BY <2>1, <2>2, PlanBounds DEF Init, Place!Init
<1>2. made \in 0..MaxPlaces /\ location \in Place!Places \union {None} /\ (manual => location # None)
  BY <1>1 DEF Init, Place!Init, Place!Places
<1>3. Place!TypeOK
  <2>1. /\ manual \in BOOLEAN /\ picker = FALSE /\ locating = 0 /\ picked = None /\ updates = {}
        /\ device = None /\ choice = "none"
    BY DEF Init, Place!Init
  <2>2. locating \in 0..MaxAsked
    BY <1>1, <2>1
  <2>3. QED
    BY <1>2, <2>1, <2>2 DEF Place!TypeOK
<1>4. /\ pin \in Form!Places \union {Form!Default, None} /\ centre \in Form!Places \union {Form!Default}
      /\ page # "report" => pin = None
  BY <1>2 DEF Init, Form!Init, Form!Places, Place!Places
<1>5. /\ photo \in 0..MaxPhotos /\ score \in 0..photo /\ judging \subseteq 1..photo /\ jumps \in 0..MaxAsked
  BY <1>1 DEF Init, Form!Init, Form!Default
<1>6. /\ step = 1 /\ described = FALSE /\ loaded = FALSE /\ heard = FALSE /\ resizing = FALSE
      /\ flight = None /\ model = FALSE /\ overtaken = FALSE
      /\ post = [p \in Posts |-> None] /\ sending = {} /\ attached = {}
  BY DEF Init, Form!Init
<1>7. Form!TypeOK
  <2>1. post \in [Posts -> Form!Reports \union {None}] /\ sending \subseteq Posts
    BY <1>6
  <2>2. step \in 1..3 /\ flight \in Form!Places \union {None}
    BY <1>6
  <2>3. QED
    BY <1>4, <1>5, <1>6, <2>1, <2>2 DEF Form!TypeOK
<1>8. QED
  BY <1>1, <1>3, <1>7 DEF TypeInv

LEMMA TypesNext == ASSUME TypeInv, [Next]_vars PROVE TypeInv'
<1>1. CASE LocationStep
  <2>1. /\ Place!TypeOK' /\ (picker' => "picker" \in plan.may)
        /\ UNCHANGED <<plan, page, post, sending>>
    BY <1>1, PlaceTypes DEF LocationStep, reports
  <2>2. /\ UNCHANGED <<step, described, centre, loaded, heard, resizing, flight, jumps, photo, model,
                       judging, score, overtaken, attached>>
        /\ pin' = pin \/ (page = "report" /\ pin = None /\ pin' = location')
    BY <1>1 DEF LocationStep, Form!FollowLocation, form, Form!form, Form!image, Form!report
  <2>3. pin' \in Form!Places \union {Form!Default, None} /\ (heard' => loaded' /\ pin' # None)
    BY <2>1, <2>2 DEF TypeInv, Form!TypeOK, Place!TypeOK, Form!Places, Place!Places
  <2>4. Form!TypeOK'
    BY <2>1, <2>2, <2>3 DEF TypeInv, Form!TypeOK
  <2>5. QED
    BY <2>1, <2>4 DEF TypeInv
<1>2. CASE FormStep
  <2>1. /\ UNCHANGED <<plan, page, location, manual, picker, locating, picked, marker, updates, device, choice>>
        /\ Form!TypeOK' /\ made' \in 0..MaxPlaces
    BY <1>2, FormTypes DEF FormStep, place
  <2>2. QED
    BY <2>1 DEF TypeInv, Place!TypeOK
<1>3. CASE AlertStep \/ UNCHANGED vars
  <2>1. /\ UNCHANGED <<plan, page, made, location, manual, picker, locating, picked, marker, updates,
                       device, choice>>
        /\ UNCHANGED <<step, described, pin, centre, loaded, heard, resizing, flight, jumps, photo,
                       model, judging, score, overtaken, attached, post, sending>>
    BY <1>3 DEF AlertStep, vars, place, form, reports
  <2>2. Place!TypeOK'
    BY <2>1 DEF TypeInv, Place!TypeOK
  <2>3. Form!TypeOK'
    BY <2>1 DEF TypeInv, Form!TypeOK
  <2>4. QED
    BY <2>1, <2>2, <2>3 DEF TypeInv
<1>4. ASSUME NEW k \in plan.pages \union {"home"}, GoTo(k), picker' \in BOOLEAN, picker' => picker,
             UNCHANGED <<post, sending>>
      PROVE  TypeInv'
  BY <1>4, GoToTypes DEF TypeInv, Form!TypeOK
<1>5. CASE \E k \in plan.pages : Navigate(k)
  <2>1. PICK k \in plan.pages : GoTo(k) /\ UNCHANGED <<picker, post, sending>>
    BY <1>5 DEF Navigate, reports
  <2>2. QED
    BY <1>4, <2>1 DEF TypeInv, Place!TypeOK
<1>6. CASE HandleCustomLocation
  <2>1. picker /\ picker' = FALSE /\ GoTo("profile") /\ UNCHANGED <<post, sending>>
    BY <1>6 DEF HandleCustomLocation, reports
  <2>2. "profile" \in plan.pages
    BY <2>1, PlanBounds DEF TypeInv
  <2>3. QED
    BY <1>4, <2>1, <2>2
<1>7. ASSUME NEW p \in Posts, SaveOffline(p) PROVE TypeInv'
  <2>1. /\ page = "report" /\ Form!HandleSubmit(p) /\ GoTo("home") /\ UNCHANGED <<picker, sending>>
    BY <1>7 DEF SaveOffline, Form!Save
  <2>2. /\ post' \in [Posts -> Form!Reports \union {None}]
        /\ \A q \in sending' : post'[q] # None
    BY <2>1, SubmitTypes
  <2>3. picker' \in BOOLEAN /\ (picker' => picker) /\ sending' \subseteq sending
    BY <2>1 DEF TypeInv, Place!TypeOK
  <2>4. QED
    BY <2>1, <2>2, <2>3, GoToTypes
<1>8. ASSUME NEW p \in Posts, Form!Submitted(p), GoTo("home"), UNCHANGED picker PROVE TypeInv'
  <2>1. sending' = sending \ {p} /\ post' = post
    BY <1>8 DEF Form!Submitted
  <2>2. /\ post' \in [Posts -> Form!Reports \union {None}] /\ sending' \subseteq sending
        /\ \A q \in sending' : post'[q] # None
        /\ "home" = page => attached \subseteq sending'
    BY <2>1 DEF TypeInv, Form!TypeOK
  <2>3. picker' \in BOOLEAN /\ (picker' => picker)
    BY <1>8 DEF TypeInv, Place!TypeOK
  <2>4. QED
    BY <1>8, <2>2, <2>3, GoToTypes
<1>9. ASSUME NEW p \in Posts, Form!SubmitFails(p), UNCHANGED <<plan, page, location, place, alerts>>
      PROVE  TypeInv'
  <2>1. /\ sending' = sending \ {p} /\ attached' = attached \ {p}
        /\ UNCHANGED <<plan, page, made, location, manual, picker, locating, picked, marker, updates,
                       device, choice, step, described, pin, centre, loaded, heard, resizing, flight,
                       jumps, photo, model, judging, score, overtaken, post>>
    BY <1>9 DEF Form!SubmitFails, Form!form, Form!map, Form!image, place
  <2>2. Place!TypeOK'
    BY <2>1 DEF TypeInv, Place!TypeOK
  <2>3. Form!TypeOK'
    BY <2>1 DEF TypeInv, Form!TypeOK
  <2>4. QED
    BY <2>1, <2>2, <2>3 DEF TypeInv
<1>10. CASE Reload
  <2> DEFINE where == IF page = "report" THEN location' ELSE None
  <2>1. /\ UNCHANGED <<plan, page, post>> /\ sending' = {} /\ Place!Reloads /\ Form!Opens(where)
    BY <1>10 DEF Reload, Form!PageChanges
  <2>2. Place!TypeOK' /\ picker' = FALSE
    <3>1. /\ location' \in {location, None} /\ (manual => location' = location)
          /\ picker' = FALSE /\ locating' = 0 /\ picked' = None /\ choice' \in {choice, "failed"}
          /\ UNCHANGED <<made, manual, updates, device>>
      BY <2>1 DEF Place!Reloads, Place!backend
    <3>2. locating' \in 0..MaxAsked
      BY <3>1, PlanBounds
    <3>3. QED
      BY <3>1, <3>2 DEF TypeInv, Place!TypeOK
  <2>3. where \in Form!Places \union {None} /\ (page' # "report" => where = None)
    BY <2>1, <2>2 DEF Place!TypeOK, Place!Places, Form!Places
  <2>4. Form!TypeOK'
    BY <2>1, <2>3, FormOpens DEF TypeInv, Form!TypeOK
  <2>5. QED
    BY <2>1, <2>2, <2>4 DEF TypeInv
<1>11. QED
  BY <1>1, <1>2, <1>3, <1>5, <1>6, <1>7, <1>8, <1>9, <1>10 DEF Next, SubmitEnds

LEMMA AlertTypes == AlertInv => Alerts!TypeOK
BY DEF AlertInv, StreamInv, BackendInv, QueryInv, MarkInv, Over, Alerts!TypeOK

\* Type correctness of the citizen's application.
THEOREM TypeCorrect == Spec => []TypeOK
<1>1. TypeInv /\ AlertInv => TypeOK
  BY AlertTypes DEF TypeInv, TypeOK
<1>2. QED
  BY <1>1, TypesInit, TypesNext, AlertsInit, AlertsNext, PTL DEF Spec

-----------------------------------------------------------------------------
(***************************************************************************)
(* The stream, as EventFeed promises it.                                   *)
(***************************************************************************)

\* A connection that is closed, if there is one, has its subscription ended.
LEMMA RelocateEndsFeed == StreamInv /\ Alerts!Relocate => Alerts!Feed!End
<1> SUFFICES ASSUME StreamInv, Alerts!Relocate PROVE Alerts!Feed!End
  OBVIOUS
<1>1. /\ subscribed' = {} /\ since' = [c \in {"phone"} |-> 0] /\ got' = [c \in {"phone"} |-> <<>>]
      /\ UNCHANGED <<published, cursor>>
  BY DEF Alerts!Relocate
<1>2. cursor' \in cursor..published /\ subscribed' = subscribed \ {"phone"}
  BY <1>1 DEF StreamInv
<1> QED
  BY <1>1, <1>2 DEF Alerts!Feed!End

LEMMA AlertsUseFeed ==
    Alerts!Step => Alerts!Feed!Next \/ UNCHANGED Alerts!Feed!vars
<1> SUFFICES ASSUME Alerts!Step PROVE Alerts!Feed!Next \/ UNCHANGED Alerts!Feed!vars
  OBVIOUS
<1>1. ASSUME NEW n \in Notices, Alerts!Insert(n) \/ Alerts!Publish(n) \/ Alerts!StepFails(n)
      PROVE  Alerts!Feed!Next \/ UNCHANGED Alerts!Feed!vars
  BY <1>1 DEF Alerts!Insert, Alerts!Publish, Alerts!StepFails, Alerts!stream, Alerts!Feed!Next, Alerts!Feed!vars
<1>2. CASE Alerts!Refetch \/ Alerts!Read \/ Alerts!Apply \/ Alerts!RequestFails
  BY <1>2 DEF Alerts!Refetch, Alerts!Read, Alerts!Apply, Alerts!RequestFails, Alerts!stream, Alerts!Feed!vars
<1>3. CASE Alerts!Connect \/ Alerts!HubAdvances \/ Alerts!StreamBreaks \/ Alerts!OnMessage
  BY <1>3 DEF Alerts!Connect, Alerts!HubAdvances, Alerts!StreamBreaks, Alerts!OnMessage, Alerts!Feed!Next
<1>4. ASSUME NEW m \in Alerts!Marks, NEW row \in Notices \union {None},
             Alerts!MarkRead(m, row) \/ Alerts!MarkArrives(m) \/ Alerts!MarkAnswered(m)
                \/ Alerts!MarkRetries(m) \/ Alerts!MarkFails(m)
      PROVE  UNCHANGED Alerts!Feed!vars
  BY <1>4 DEF Alerts!MarkRead, Alerts!MarkArrives, Alerts!MarkAnswered, Alerts!MarkRetries,
              Alerts!MarkFails, Alerts!backend, Alerts!stream, Alerts!Feed!vars
<1> QED
  BY <1>1, <1>2, <1>3, <1>4 DEF Alerts!Step

LEMMA NextUsesFeed ==
    AlertInv /\ [Next]_vars => [Alerts!Feed!Next]_(Alerts!Feed!vars)
<1> SUFFICES ASSUME AlertInv, [Next]_vars PROVE Alerts!Feed!Next \/ UNCHANGED Alerts!Feed!vars
  OBVIOUS
<1>1. Alerts!Relocate => Alerts!Feed!Next
  BY RelocateEndsFeed DEF AlertInv, Alerts!Feed!Next
<1>2. ASSUME NEW k, GoTo(k) PROVE UNCHANGED Alerts!Feed!vars
  BY <1>2 DEF GoTo, alerts, Alerts!PageChanges, Alerts!stream, Alerts!Feed!vars
<1>3. CASE UNCHANGED vars
  BY <1>3 DEF vars, alerts, Alerts!Feed!vars
<1>4. CASE LocationStep
  BY <1>1, <1>4 DEF LocationStep, alerts, Alerts!Feed!vars
<1>5. CASE FormStep
  BY <1>5 DEF FormStep, alerts, Alerts!Feed!vars
<1>6. CASE AlertStep
  BY <1>6, AlertsUseFeed DEF AlertStep
<1>7. ASSUME NEW k \in plan.pages, Navigate(k) PROVE UNCHANGED Alerts!Feed!vars
  BY <1>2, <1>7 DEF Navigate
<1>8. CASE HandleCustomLocation
  BY <1>2, <1>8 DEF HandleCustomLocation
<1>9. ASSUME NEW p \in Posts, SaveOffline(p) \/ SubmitEnds(p) PROVE UNCHANGED Alerts!Feed!vars
  BY <1>2, <1>9 DEF SaveOffline, SubmitEnds, alerts, Alerts!Feed!vars
<1>10. CASE Reload
  BY <1>1, <1>10 DEF Reload, Alerts!Reloads
<1> QED
  BY <1>3, <1>4, <1>5, <1>6, <1>7, <1>8, <1>9, <1>10 DEF Next

\* sse.ts, useSSE.ts: what the phone's connection hears of the stream is what EventFeed promises,
\* however often its place changes; SseHub keeps that promise.
THEOREM PhoneUsesFeed == Spec => Alerts!Feed!Spec
<1>1. Init => Alerts!Feed!Init
  BY DEF Init, Alerts!Init
<1>2. QED
  BY <1>1, NextUsesFeed, AlertsInit, AlertsNext, PTL DEF Spec, Alerts!Feed!Spec
=============================================================================
