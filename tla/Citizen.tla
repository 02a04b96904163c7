------------------------------ MODULE Citizen ------------------------------
(***************************************************************************)
(* The citizen's application: the place of the phone, the form in which he *)
(* reports an incident and the notifications that he gets, on the pages    *)
(* that show them.  The three meet in the page that is open, whose state   *)
(* is made and dropped with it, and in the place of the phone, which the   *)
(* form takes over and at each change of which the stream is opened anew.  *)
(***************************************************************************)
EXTENDS Naturals, Sequences

CONSTANTS
    Plans,      \* what there may be in a behaviour
    MaxPlaces,  \* PhoneLocation, ReportWizard
    MaxAsked,   \* PhoneLocation, ReportWizard
    MaxPhotos,  \* ReportWizard
    Posts,      \* ReportWizard
    Notices,    \* Notifications
    Limit,      \* Notifications
    MaxMarks,   \* Notifications
    None

VARIABLES
    plan,       \* the pages that are visited and what can happen on them
    page,       \* the page that is open
    made, location,
    manual, picker, locating, picked, marker, updates, device, choice,  \* PhoneLocation
    step, described, pin, centre, loaded, heard, resizing, flight, jumps,
    photo, model, judging, score, overtaken, post, sending, attached,   \* ReportWizard
    taken, rows, newer, read, log, published, cursor, subscribed, since, got,
    cache, fetch, reply, invalid, cut, mark, mine, list, pushed, told, done  \* Notifications

Place  == INSTANCE PhoneLocation
Form   == INSTANCE ReportWizard
Alerts == INSTANCE Notifications

ASSUME CitizenAssumption ==
    /\ {MaxPlaces, MaxAsked, MaxPhotos, MaxMarks} \subseteq Nat /\ Limit \in Nat \ {0}
    /\ None \notin Nat \union Notices \union Form!Reports \union Alerts!Lists \union Alerts!Calls
    /\ \A p \in Plans :
        /\ p.start \in p.pages
        /\ "picker" \in p.may => "profile" \in p.pages
        /\ p.known \in BOOLEAN
        /\ p.places \in 0..MaxPlaces /\ (p.known => p.places > 0)
        /\ p.photos \in 0..MaxPhotos
        /\ p.notices \in [Notices -> Alerts!Kinds \union {"none"}]

place   == <<manual, picker, locating, picked, marker, updates, device, choice>>
form    == <<step, described, pin, centre, loaded, heard, resizing, flight, jumps, photo, model,
             judging, score, overtaken, attached>>
reports == <<post, sending>>
alerts  == <<taken, rows, newer, read, log, published, cursor, subscribed, since, got, cache, fetch,
             reply, invalid, cut, mark, mine, list, pushed, told, done>>
vars    == <<plan, page, made, location, place, form, reports, alerts>>

Init ==
    /\ plan \in Plans
    /\ page = plan.start
    /\ Place!Init
    /\ Form!Init
    /\ Alerts!Init

-----------------------------------------------------------------------------
\* What takes the phone's place from the store: the form's effect and the stream's.
LocationStep ==
    /\ Place!Step
    /\ IF location' = location THEN UNCHANGED <<form, alerts>>
       ELSE /\ Form!FollowLocation(location')
            /\ Alerts!Relocate
            /\ UNCHANGED <<taken, rows, newer, read, log, cache, fetch, reply, invalid, cut, mark,
                           mine, list, pushed, told, done>>
    /\ UNCHANGED <<plan, page, reports>>

FormStep ==
    /\ Form!Step
    /\ UNCHANGED <<plan, page, location, place, alerts>>

AlertStep ==
    /\ "alerts" \in plan.may
    /\ Alerts!Step
    /\ UNCHANGED <<plan, page, made, location, place, form, reports>>

\* Router: a page is dropped and another one made, unless it is the page that is open.
GoTo(k) ==
    /\ page' = k
    /\ IF k = page
       THEN UNCHANGED <<made, location, manual, locating, picked, marker, updates, device, choice,
                        form, alerts>>
       ELSE Place!PageChanges /\ Form!PageChanges(k) /\ Alerts!PageChanges(k)
    /\ UNCHANGED plan

\* A link of the page, the header or the bar at the bottom, or the browser's history.
Navigate(k) ==
    /\ k # page
    /\ GoTo(k)
    /\ UNCHANGED <<picker, reports>>

\* "Set Custom Location", in the picker.
HandleCustomLocation ==
    /\ picker /\ picker' = FALSE
    /\ GoTo("profile")
    /\ UNCHANGED reports

SaveOffline(p) ==
    /\ page = "report"
    /\ Form!Save(p)
    /\ GoTo("home")
    /\ UNCHANGED picker

\* The answer to a report, on whatever page.
SubmitEnds(p) ==
    \/ Form!Submitted(p) /\ GoTo("home") /\ UNCHANGED picker
    \/ Form!SubmitFails(p) /\ UNCHANGED <<plan, page, location, place, alerts>>

\* The application is closed and opened at the same page.
Reload ==
    /\ "reload" \in plan.may
    /\ Place!Reloads
    /\ Form!PageChanges(page)
    /\ sending' = {}
    /\ Alerts!Reloads
    /\ UNCHANGED <<plan, page, post>>

Next ==
    \/ LocationStep
    \/ FormStep
    \/ AlertStep
    \/ \E k \in plan.pages : Navigate(k)
    \/ HandleCustomLocation
    \/ \E p \in Posts : SaveOffline(p) \/ SubmitEnds(p)
    \/ Reload

Spec == Init /\ [][Next]_vars

-----------------------------------------------------------------------------
TypeOK ==
    /\ plan \in Plans
    /\ page \in plan.pages \union {"home"}
    /\ Place!TypeOK
    /\ Form!TypeOK
    /\ Alerts!TypeOK

\* useLocation.ts:47, LocationPickerModal.tsx:24 and profile.tsx:94-103: the phone is where its
\* citizen has last said to take it from, on whatever pages he has been since.
SourceIsChosen == Place!SourceIsChosen

\* Step2Location.tsx:23-51: a report says the place that its pin shows.
PinIsReported == Form!PinIsReported

\* Step3Details.tsx:42-50: a report's score is that of its photo.
ScoreIsOfPhoto == Form!ScoreIsOfPhoto

\* useNotifications.ts:19-48: a list of notifications that is at rest has what the phone was told of
\* and what was marked, unless newer rows have taken its place or the result was cut short, and shows
\* as read what the backend has confirmed to be.
ListIsCurrent == Alerts!ListIsCurrent
=============================================================================
