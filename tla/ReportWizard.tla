---------------------------- MODULE ReportWizard ----------------------------
(***************************************************************************)
(* The three steps in which a citizen reports an incident: its kind, its   *)
(* place under the pin in the middle of a map, its photo and description.  *)
(* A classifier on the phone scores the photo.  What becomes of a report   *)
(* that is sent, or saved without a network, is OfflineReports' subject.   *)
(*                                                                         *)
(* The map is made with the page, and hidden on the first and the third    *)
(* step.  A hidden map moves on, and a map that is shown or hidden is told *)
(* its new size, which it takes for a move.                                *)
(***************************************************************************)
EXTENDS Naturals

CONSTANTS
    MaxPlaces,  \* how many places there are: a bound
    MaxAsked,   \* how many requests for the position wait: a bound
    MaxPhotos,  \* how many photos are chosen: a bound
    Posts,      \* reports that are submitted: a bound
    None        \* no place, no photo, no report

Default == 0    \* the place that the map shows where none is known; the score of an unseen photo

VARIABLES
    plan,
    page,       \* the page that is open
    made,       \* how many places have been met so far
    location,   \* currentLocation of the store
    step,       \* step
    described,  \* the description is long enough
    pin,        \* reportLocation
    centre,     \* the middle of the map
    loaded,     \* isLoaded: from then on the page listens to the map's moves
    heard,      \* history: it has heard one
    resizing,   \* the map's size has changed, and its observer has not been called
    flight,     \* where the map is flying
    jumps,      \* how many requests for the position wait
    photo,      \* photoFile: the last of the photos chosen
    model,      \* the classifier's model has been loaded
    judging,    \* photos that it is judging
    score,      \* aiScore, by the photo that it belongs to
    overtaken,  \* history: the score came after that of a later photo
    post,       \* what has been submitted
    sending,    \* the reports that wait for their answer
    attached    \* those of them that are of the page that is open

form   == <<step, described>>
map    == <<pin, centre, loaded, heard, resizing, flight, jumps>>
image  == <<photo, model, judging, score, overtaken>>
report == <<post, sending, attached>>

Places == 1..MaxPlaces
Photos == 1..MaxPhotos
Reports == [pin : Places \union {Default}, photo : 0..MaxPhotos, score : 0..MaxPhotos]
Submitting == attached # {}

\* A form that is given a place when its page opens.
Opens(where) ==
    /\ step' = 1 /\ described' = FALSE
    /\ pin' = where
    /\ centre' = IF where = None THEN Default ELSE where
    /\ loaded' = FALSE /\ heard' = FALSE /\ resizing' = FALSE
    /\ flight' = None /\ jumps' = 0
    /\ photo' = 0 /\ model' = FALSE /\ judging' = {} /\ score' = Default /\ overtaken' = FALSE
    /\ attached' = {}

Init ==
    /\ step = 1 /\ described = FALSE
    /\ pin = IF page = "report" THEN location ELSE None
    /\ centre = IF pin = None THEN Default ELSE pin
    /\ loaded = FALSE /\ heard = FALSE /\ resizing = FALSE
    /\ flight = None /\ jumps = 0
    /\ photo = 0 /\ model = FALSE /\ judging = {} /\ score = Default /\ overtaken = FALSE
    /\ post = [p \in Posts |-> None]
    /\ sending = {} /\ attached = {}

NewPlace ==
    /\ made < plan.places
    /\ made' = made + 1

-----------------------------------------------------------------------------
(* The steps. *)

GoToStep(s) ==
    /\ step' = s
    /\ resizing' = (resizing \/ step = 2 \/ s = 2)
    /\ UNCHANGED <<made, described, pin, centre, loaded, heard, flight, jumps, image, report>>

HandleNext == step < 3 /\ (step = 2 => pin # None) /\ GoToStep(step + 1)
HandleBack == step > 1 /\ ~Submitting /\ GoToStep(step - 1)

Describe ==
    /\ step = 3
    /\ described' = ~described
    /\ UNCHANGED <<made, step, map, image, report>>

-----------------------------------------------------------------------------
(* The place. *)

\* The effect that takes the phone's place while the report has none.
FollowLocation(where) ==
    /\ pin' = IF page = "report" /\ pin = None THEN where ELSE pin
    /\ UNCHANGED <<form, centre, loaded, heard, resizing, flight, jumps, image, report>>

MapLoads ==
    /\ ~loaded
    /\ loaded' = TRUE
    /\ UNCHANGED <<made, form, pin, centre, heard, resizing, flight, jumps, image, report>>

\* The map has moved: onMove, once the page listens.
Moved(where) ==
    /\ centre' = where
    /\ pin' = IF loaded THEN where ELSE pin
    /\ heard' = (heard \/ loaded)

Drag ==
    /\ step = 2
    /\ NewPlace
    /\ Moved(made')
    /\ flight' = None
    /\ UNCHANGED <<form, loaded, resizing, jumps, image, report>>

\* The observer: a map that is at rest makes a move of it.
Resized ==
    /\ resizing
    /\ resizing' = FALSE
    /\ IF flight = None THEN Moved(centre) ELSE UNCHANGED <<pin, centre, heard>>
    /\ UNCHANGED <<made, form, loaded, flight, jumps, image, report>>

JumpToCurrentLocation ==
    /\ step = 2 /\ "gps" \in plan.may
    /\ jumps < MaxAsked
    /\ jumps' = jumps + 1
    /\ UNCHANGED <<made, form, pin, centre, loaded, heard, resizing, flight, image, report>>

\* Mutant of the next action: the map stays where it is.
JumpsWithoutMap ==
    /\ jumps > 0
    /\ NewPlace
    /\ jumps' = jumps - 1
    /\ pin' = made'
    /\ UNCHANGED <<form, centre, loaded, heard, resizing, flight, image, report>>

\* The position comes, on whatever step, and the map flies there.
Jump ==
    /\ jumps > 0
    /\ NewPlace
    /\ jumps' = jumps - 1
    /\ pin' = made'
    /\ flight' = made'
    /\ UNCHANGED <<form, centre, loaded, heard, resizing, image, report>>

JumpFails ==
    /\ jumps > 0
    /\ jumps' = jumps - 1
    /\ UNCHANGED <<made, form, pin, centre, loaded, heard, resizing, flight, image, report>>

\* Over some place on the way.
Fly ==
    /\ flight # None
    /\ NewPlace
    /\ Moved(made')
    /\ UNCHANGED <<form, loaded, resizing, flight, jumps, image, report>>

Land ==
    /\ flight # None
    /\ Moved(flight)
    /\ flight' = None
    /\ UNCHANGED <<made, form, loaded, resizing, jumps, image, report>>

-----------------------------------------------------------------------------
(* The photo. *)

ModelLoads ==
    /\ ~model
    /\ model' = TRUE
    /\ UNCHANGED <<made, form, map, photo, judging, score, overtaken, report>>

\* Without a model a photo has the score that there is without a photo.
ChoosePhoto ==
    /\ step = 3 /\ photo < plan.photos
    /\ photo' = photo + 1
    /\ IF model THEN judging' = judging \union {photo'} /\ UNCHANGED <<score, overtaken>>
       ELSE score' = Default /\ overtaken' = FALSE /\ UNCHANGED judging
    /\ UNCHANGED <<made, form, map, model, report>>

\* Mutant of the next action: a photo that cannot be judged leaves the score as it is.
JudgedOrLeft(k) ==
    /\ k \in judging
    /\ judging' = judging \ {k}
    /\ score' \in {k, score}
    /\ overtaken' = (k # photo /\ (overtaken \/ photo \notin judging))
    /\ UNCHANGED <<made, form, map, photo, model, report>>

\* The score of a photo, or of one that could not be judged, replaces whatever there is.
Judged(k) ==
    /\ k \in judging
    /\ judging' = judging \ {k}
    /\ score' \in {k, Default}
    /\ overtaken' = (k # photo /\ (overtaken \/ photo \notin judging))
    /\ UNCHANGED <<made, form, map, photo, model, report>>

-----------------------------------------------------------------------------
(* The report. *)

HandleSubmit(p) ==
    /\ step = 3 /\ ~Submitting
    /\ pin # None /\ described
    /\ p \in plan.posts /\ post[p] = None
    /\ post' = [post EXCEPT ![p] = [pin |-> pin, photo |-> photo, score |-> score]]

\* Over the network: the page waits.
Send(p) ==
    /\ HandleSubmit(p)
    /\ sending' = sending \union {p}
    /\ attached' = attached \union {p}
    /\ UNCHANGED <<made, form, map, image>>

\* Without one: the report is saved, its photo and its score are not; the page closes.
Save(p) ==
    /\ "offline" \in plan.may
    /\ HandleSubmit(p)
    /\ UNCHANGED sending

\* Mutant of the next action: the page goes on waiting.
SubmitHangs(p) ==
    /\ "network" \in plan.may
    /\ p \in sending
    /\ sending' = sending \ {p}
    /\ UNCHANGED <<made, form, map, image, post, attached>>

\* A photo that cannot be uploaded, or a report that is refused: the page stays as it is.
SubmitFails(p) ==
    /\ "network" \in plan.may
    /\ p \in sending
    /\ sending' = sending \ {p}
    /\ attached' = attached \ {p}
    /\ UNCHANGED <<made, form, map, image, post>>

\* navigate opens the home page, whatever page is open by then.
Submitted(p) ==
    /\ p \in sending
    /\ sending' = sending \ {p}
    /\ UNCHANGED post

Step ==
    /\ page = "report"
    /\ \/ HandleNext \/ HandleBack \/ Describe
       \/ MapLoads \/ Drag \/ Resized \/ JumpToCurrentLocation \/ Jump \/ JumpFails \/ Fly \/ Land
       \/ ModelLoads \/ ChoosePhoto
       \/ \E k \in Photos : Judged(k)
       \/ \E p \in Posts : Send(p)

\* The page of the report is opened or closed.
PageChanges(k) == Opens(IF k = "report" THEN location' ELSE None)

-----------------------------------------------------------------------------
TypeOK ==
    /\ step \in 1..3 /\ described \in BOOLEAN
    /\ pin \in Places \union {Default, None}
    /\ centre \in Places \union {Default}
    /\ loaded \in BOOLEAN /\ resizing \in BOOLEAN
    /\ heard => loaded /\ pin # None
    /\ flight \in Places \union {None} /\ jumps \in 0..MaxAsked
    /\ photo \in 0..MaxPhotos /\ score \in 0..photo
    /\ model \in BOOLEAN /\ judging \subseteq 1..photo
    /\ overtaken => score < photo
    /\ attached \subseteq sending /\ sending \subseteq Posts
    /\ post \in [Posts -> Reports \union {None}]
    /\ \A p \in sending : post[p] # None
    /\ page # "report" => step = 1 /\ attached = {} /\ pin = None

\* Step2Location.tsx:23-51: what the report says is what the pin shows, once the page has heard
\* the map move and unless it is on its way; a position that comes late moves both.
PinIsReported == heard /\ flight = None => pin = centre

\* Step3Details.tsx:42-50: the score is that of the photo that goes with it, or of none, when all
\* photos have been judged, unless a former photo took longer than the last.
ScoreIsOfPhoto == judging = {} /\ ~overtaken => score \in {photo, Default}
=============================================================================
