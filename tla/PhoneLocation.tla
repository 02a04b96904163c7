---------------------------- MODULE PhoneLocation ----------------------------
(***************************************************************************)
(* Where a citizen's phone says that it is.  The place comes from three    *)
(* sources: a watch that goes on as long as the application is open, a     *)
(* request for the position that the location picker makes, and a pin that *)
(* is put on the map of the profile.  A place that was set by hand stands  *)
(* until another source is chosen; the watch has no say then.              *)
(*                                                                         *)
(* A place is named by its number: each fix and each click is a new one.   *)
(* The citizen is signed in.  Header's own request for the position cannot *)
(* be reached: its button opens the picker wherever the device can locate  *)
(* itself.                                                                 *)
(***************************************************************************)
EXTENDS Naturals

CONSTANTS
    MaxPlaces,  \* how many places there are: a bound
    MaxAsked,   \* how many requests of the picker wait for a position: a bound
    None        \* no place

VARIABLES
    plan,
    page,       \* the page that is open
    made,       \* how many places have been met so far
    location,   \* currentLocation, which localStorage keeps
    manual,     \* isManualLocation, likewise
    picker,     \* showLocationPicker
    locating,   \* how many of the picker's requests for the position wait
    picked,     \* pickedLocation of the profile
    marker,     \* markerRef of the profile
    updates,    \* places on their way to the backend
    device,     \* users.last_known_location
    choice      \* history: what the citizen chose last, and whether it came true

profile == <<picker, locating, picked, marker>>
backend == <<updates, device>>

Places == 1..MaxPlaces
New == made + 1

\* What localStorage keeps.  A device that cannot locate itself forgets what was not set by hand.
Init ==
    /\ made = IF plan.known THEN 1 ELSE 0
    /\ manual \in BOOLEAN /\ (manual => plan.known)
    /\ location = IF plan.known /\ (manual \/ "gps" \in plan.may) THEN 1 ELSE None
    /\ picker = FALSE
    /\ locating = 0
    /\ picked = None
    /\ marker = None
    /\ updates = {}
    /\ device = None
    /\ choice = "none"

NewPlace ==
    /\ made < plan.places
    /\ made' = New

\* Mutant of the next action: the watch has the last word.
WatchSets ==
    /\ "gps" \in plan.may
    /\ NewPlace
    /\ location' = New /\ manual' = FALSE
    /\ updates' = updates \union {New}
    /\ UNCHANGED <<profile, device, choice>>

\* The watch's callback, which looks at the store of its time.
WatchFix ==
    /\ "gps" \in plan.may /\ ~manual
    /\ NewPlace
    /\ location' = New /\ manual' = FALSE
    /\ updates' = updates \union {New}
    /\ UNCHANGED <<profile, device, choice>>

\* UpdateDeviceService.  The updates are not awaited: they arrive in any order, if they do.
DeviceUpdated(n) ==
    /\ n \in updates
    /\ updates' = updates \ {n}
    /\ device' = n
    /\ UNCHANGED <<made, location, manual, profile, choice>>

UpdateLost(n) ==
    /\ "network" \in plan.may
    /\ n \in updates
    /\ updates' = updates \ {n}
    /\ UNCHANGED <<made, location, manual, profile, device, choice>>

\* The header's button.
OpenPicker ==
    /\ ~picker /\ "picker" \in plan.may
    /\ manual \/ (location = None /\ "gps" \in plan.may)
    /\ picker' = TRUE
    /\ UNCHANGED <<made, location, manual, locating, picked, marker, backend, choice>>

ClosePicker ==
    /\ picker
    /\ picker' = FALSE
    /\ UNCHANGED <<made, location, manual, locating, picked, marker, backend, choice>>

\* "Use GPS Location": the picker stays open until there is a position.
HandleMyLocation ==
    /\ picker /\ "gps" \in plan.may
    /\ locating < MaxAsked
    /\ locating' = locating + 1
    /\ choice' = "gps"
    /\ UNCHANGED <<made, location, manual, picker, picked, marker, backend>>

\* The position, which nothing cancels, and which the backend is not told.
MyLocation ==
    /\ locating > 0
    /\ NewPlace
    /\ locating' = locating - 1
    /\ location' = New /\ manual' = FALSE
    /\ picker' = FALSE
    /\ choice' = IF choice = "pin" THEN "late" ELSE choice
    /\ UNCHANGED <<picked, marker, backend>>

MyLocationFails ==
    /\ locating > 0
    /\ locating' = locating - 1
    /\ choice' = IF choice = "gps" /\ locating = 1 THEN "failed" ELSE choice
    /\ UNCHANGED <<made, location, manual, picker, picked, marker, backend>>

\* A click on the profile's map, which an open picker lies over.  To drag the map, which the page
\* offers too, picks nothing.
PickPlace ==
    /\ page = "profile" /\ ~picker
    /\ NewPlace
    /\ picked' = New /\ marker' = New
    /\ UNCHANGED <<location, manual, picker, locating, backend, choice>>

\* "Save Custom Location", which the keyboard reaches behind an open picker too.
HandleSaveLocation ==
    /\ page = "profile" /\ picked # None
    /\ location' = picked /\ manual' = TRUE
    /\ picked' = None
    /\ choice' = "pin"
    /\ UNCHANGED <<made, picker, locating, marker, backend>>

\* The profile's state goes with its page.
PageChanges ==
    /\ picked' = None /\ marker' = None
    /\ UNCHANGED <<made, location, manual, locating, backend, choice>>

\* The application is opened anew.
Reloads ==
    /\ location' = IF manual \/ "gps" \in plan.may THEN location ELSE None
    /\ picker' = FALSE /\ locating' = 0
    /\ picked' = None /\ marker' = None
    /\ choice' = IF choice = "gps" /\ locating > 0 THEN "failed" ELSE choice
    /\ UNCHANGED <<made, manual, backend>>

\* What happens on any page.
Step ==
    \/ WatchFix
    \/ \E n \in Places : DeviceUpdated(n) \/ UpdateLost(n)
    \/ OpenPicker \/ ClosePicker \/ HandleMyLocation \/ MyLocation \/ MyLocationFails
    \/ PickPlace \/ HandleSaveLocation

-----------------------------------------------------------------------------
TypeOK ==
    /\ made \in 0..MaxPlaces
    /\ location \in Places \union {None} /\ manual \in BOOLEAN
    /\ manual => location # None
    /\ picker \in BOOLEAN /\ locating \in 0..MaxAsked
    /\ picked \in Places \union {None}
    /\ picked # None => marker = picked /\ page = "profile"
    /\ updates \subseteq Places /\ device \in Places \union {None}
    /\ choice \in {"none", "gps", "pin", "late", "failed"}

\* useLocation.ts:47, LocationPickerModal.tsx:24 and profile.tsx:94-103, over reloads too: the
\* phone is where its citizen has last said to take it from, unless the position that was asked
\* for did not come, or came after a pin had been saved.
SourceIsChosen ==
    /\ choice = "pin" => manual
    /\ choice = "gps" /\ locating = 0 => ~manual
=============================================================================
