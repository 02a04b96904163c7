----------------------------- MODULE Incidents -----------------------------
(***************************************************************************)
(* Incident reports and danger zones (incidents/service.go): citizens file *)
(* reports, desks verify or reject them and draw, edit and retire zones.   *)
(* A verification inserts a zone around the report.  Every handler is      *)
(* several statements without a transaction, of which only the first one's *)
(* error ends it.                                                          *)
(*                                                                         *)
(* A zone is named by what inserted it: a decision or a drawing.  What is  *)
(* in its row (type, severity, boundary) is its shape.                     *)
(***************************************************************************)
EXTENDS Naturals, Sequences

CONSTANTS
    Desks,      \* pages of the portal
    Reports,
    Decisions,  \* PATCH /incidents/:id/status: a bound
    Drawings,   \* POST /danger-zones: a bound
    Shapes,
    Around,     \* the shape that a report's verification gives its zone
    Faults      \* which failures a run explores

AllFaults == {"server", "network", "stream", "load", "reload"}

ASSUME IncidentsAssumption ==
    /\ Decisions \intersect Drawings = {}
    /\ Around \in [Reports -> Shapes]
    /\ "nothing" \notin Shapes \union Reports
    /\ "nobody" \notin Desks
    /\ Faults \subseteq AllFaults

VARIABLES
    filed,      \* where the handler of each POST /incidents is
    status,     \* incident_reports.status
    drawn,      \* where the handler of each POST /danger-zones is
    shape,      \* danger_zones, but for
    active,     \* is_active
    step,       \* where each decision is
    by,         \* the desk that waits for its answer, while one does
    subject,    \* the report it is about
    verdict,    \* the status it sets
    again,      \* the decisions that are retries
    log,        \* the events of the stream that some page acts on
    notices,    \* user_notifications: what the author of each report was told
    crossed,    \* history: the reports decided again, or twice at a time
    unzoned     \* history: the reports verified without a zone

zones  == <<shape, active>>
calls  == <<filed, drawn>>
making == <<step, by, subject, verdict, again>>
server == <<filed, status, drawn, shape, active, step, by, subject, verdict, again, log,
            notices, crossed, unzoned>>

Zones == Decisions \union Drawings
Verdicts == {"verified", "rejected"}
Events == {"INCIDENT_CREATED", "INCIDENT_VERIFIED", "DANGER_ZONE_ACTIVE"}
AtWork == {"update", "zone", "publish", "notify"}
Is(d, s) == step[d] = s
Goes(d, s) == step' = [step EXCEPT ![d] = s]

ServerInit ==
    /\ filed = [r \in Reports |-> "none"]
    /\ status = [r \in Reports |-> "none"]
    /\ drawn = [w \in Drawings |-> "none"]
    /\ shape = [z \in Zones |-> "nothing"]
    /\ active = {}
    /\ step = [d \in Decisions |-> "idle"]
    /\ by = [d \in Decisions |-> "nobody"]
    /\ subject = [d \in Decisions |-> "nothing"]
    /\ verdict = [d \in Decisions |-> "none"]
    /\ again = {}
    /\ log = <<>>
    /\ notices = [r \in Reports |-> {}]
    /\ crossed = {}
    /\ unzoned = {}

-----------------------------------------------------------------------------
(***************************************************************************)
(* CreateIncidentService and CreateDangerZoneService: INSERT, then event.  *)
(***************************************************************************)

\* PublishEvent, whose error is ignored.
Publish(e) ==
    \/ log' = Append(log, e)
    \/ "server" \in Faults /\ UNCHANGED log

CreateIncident(r) ==
    /\ filed[r] = "none"
    /\ filed' = [filed EXCEPT ![r] = "publish"]
    /\ status' = [status EXCEPT ![r] = "pending"]
    /\ UNCHANGED <<drawn, zones, making, log, notices, crossed, unzoned>>

PublishCreated(r) ==
    /\ filed[r] = "publish"
    /\ filed' = [filed EXCEPT ![r] = "done"]
    /\ Publish("INCIDENT_CREATED")
    /\ UNCHANGED <<status, drawn, zones, making, notices, crossed, unzoned>>

CreateDangerZone(w, s) ==
    /\ drawn[w] = "none"
    /\ drawn' = [drawn EXCEPT ![w] = "publish"]
    /\ shape' = [shape EXCEPT ![w] = s]
    /\ active' = active \union {w}
    /\ UNCHANGED <<filed, status, making, log, notices, crossed, unzoned>>

PublishActive(w) ==
    /\ drawn[w] = "publish"
    /\ drawn' = [drawn EXCEPT ![w] = "done"]
    /\ Publish("DANGER_ZONE_ACTIVE")
    /\ UNCHANGED <<filed, status, zones, making, notices, crossed, unzoned>>

-----------------------------------------------------------------------------
(***************************************************************************)
(* UpdateDangerZoneService and DeleteDangerZoneService.  Nobody acts on    *)
(* their events.                                                           *)
(***************************************************************************)

\* Whether the zone is active or not, and leaving that as it is.
UpdateDangerZone(z, s) ==
    /\ shape[z] # "nothing"
    /\ shape' = [shape EXCEPT ![z] = s]
    /\ UNCHANGED <<calls, status, active, making, log, notices, crossed, unzoned>>

DeleteDangerZone(z) ==
    /\ z \in active
    /\ active' = active \ {z}
    /\ UNCHANGED <<calls, status, shape, making, log, notices, crossed, unzoned>>

-----------------------------------------------------------------------------
(***************************************************************************)
(* UpdateIncidentStatusService, and the mutation of the triage page that   *)
(* calls it and retries it once.                                           *)
(***************************************************************************)

Begin(d, k, r, v) ==
    /\ Is(d, "idle")
    /\ by' = [by EXCEPT ![d] = k]
    /\ subject' = [subject EXCEPT ![d] = r]
    /\ verdict' = [verdict EXCEPT ![d] = v]
    /\ crossed' = IF status[r] # "pending" \/ \E e \in Decisions : subject[e] = r /\ step[e] \in AtWork
                  THEN crossed \union {r} ELSE crossed
    /\ UNCHANGED <<calls, status, zones, log, notices, unzoned>>

\* The buttons stay enabled while a decision is made, and whatever the report has become.
Decide(d, k, r, v) ==
    /\ status[r] # "none"
    /\ Begin(d, k, r, v)
    /\ Goes(d, "update")
    /\ UNCHANGED again

\* Mutant of the next action: a retry takes the zone for inserted.
UpdateStatusRetryNoZone(d) ==
    /\ Is(d, "update")
    /\ status' = [status EXCEPT ![subject[d]] = verdict[d]]
    /\ Goes(d, IF verdict[d] # "verified" THEN "notify" ELSE IF d \in again THEN "publish" ELSE "zone")
    /\ UNCHANGED <<calls, zones, by, subject, verdict, again, log, notices, crossed, unzoned>>

\* The UPDATE has no condition on the status.
UpdateStatus(d) ==
    /\ Is(d, "update")
    /\ status' = [status EXCEPT ![subject[d]] = verdict[d]]
    /\ Goes(d, IF verdict[d] = "verified" THEN "zone" ELSE "notify")
    /\ UNCHANGED <<calls, zones, by, subject, verdict, again, log, notices, crossed, unzoned>>

InsertZone(d) ==
    /\ Is(d, "zone")
    /\ shape' = [shape EXCEPT ![d] = Around[subject[d]]]
    /\ active' = active \union {d}
    /\ Goes(d, "publish")
    /\ UNCHANGED <<calls, status, by, subject, verdict, again, log, notices, crossed, unzoned>>

\* Its error is ignored.
InsertFails(d) ==
    /\ "server" \in Faults
    /\ Is(d, "zone")
    /\ Goes(d, "publish")
    /\ unzoned' = unzoned \union {subject[d]}
    /\ UNCHANGED <<calls, status, zones, by, subject, verdict, again, log, notices, crossed>>

PublishVerified(d) ==
    /\ Is(d, "publish")
    /\ Publish("INCIDENT_VERIFIED")
    /\ Goes(d, "notify")
    /\ UNCHANGED <<calls, status, zones, by, subject, verdict, again, notices, crossed, unzoned>>

\* So is the error of this INSERT.
Notify(d) ==
    /\ Is(d, "notify")
    /\ \/ notices' = [notices EXCEPT ![subject[d]] = @ \union {verdict[d]}]
       \/ "server" \in Faults /\ UNCHANGED notices
    /\ Goes(d, "answered")
    /\ UNCHANGED <<calls, status, zones, by, subject, verdict, again, log, crossed, unzoned>>

\* The UPDATE fails and an error is answered, or the process stops, here or later.
HandlerDies(d) ==
    /\ "server" \in Faults
    /\ step[d] \in AtWork
    /\ Goes(d, "failed")
    /\ unzoned' = IF Is(d, "zone") THEN unzoned \union {subject[d]} ELSE unzoned
    /\ UNCHANGED <<calls, status, zones, by, subject, verdict, again, log, notices, crossed>>

LoseAnswer(d) ==
    /\ "network" \in Faults
    /\ Is(d, "answered")
    /\ Goes(d, "failed")
    /\ UNCHANGED <<calls, status, zones, by, subject, verdict, again, log, notices, crossed, unzoned>>

\* A mutation is retried once, unless its page is gone.
Retry(d, e) ==
    /\ Is(d, "failed") /\ by[d] # "nobody" /\ d \notin again
    /\ Begin(e, by[d], subject[d], verdict[d])
    /\ step' = [step EXCEPT ![d] = "settled", ![e] = "update"]
    /\ again' = again \union {e}

\* The page is told of the success, or of the second failure.
Settle(d) ==
    /\ \/ Is(d, "answered")
       \/ Is(d, "failed") /\ (d \in again \/ by[d] = "nobody")
    /\ Goes(d, "settled")
    /\ by' = [by EXCEPT ![d] = "nobody"]
    /\ verdict' = [verdict EXCEPT ![d] = "none"]
    /\ again' = again \ {d}
    /\ UNCHANGED <<calls, status, zones, subject, log, notices, crossed, unzoned>>

\* The page is reloaded: nobody waits for its decisions any more.
Abandon(k) ==
    /\ by' = [d \in Decisions |-> IF by[d] = k THEN "nobody" ELSE by[d]]
    /\ UNCHANGED <<calls, status, zones, step, subject, verdict, again, log, notices, crossed, unzoned>>

-----------------------------------------------------------------------------
\* The steps of the backend, and of the network.
ServerStep ==
    \/ \E r \in Reports : CreateIncident(r) \/ PublishCreated(r)
    \/ \E w \in Drawings, s \in Shapes : CreateDangerZone(w, s)
    \/ \E w \in Drawings : PublishActive(w)
    \/ \E z \in Zones, s \in Shapes : UpdateDangerZone(z, s)
    \/ \E z \in Zones : DeleteDangerZone(z)
    \/ \E d \in Decisions : UpdateStatus(d) \/ InsertZone(d) \/ InsertFails(d)
                            \/ PublishVerified(d) \/ Notify(d) \/ HandlerDies(d) \/ LoseAnswer(d)
    \/ \E d, e \in Decisions : Retry(d, e)

-----------------------------------------------------------------------------
(***************************************************************************)
(* Properties.                                                             *)
(***************************************************************************)

ServerTypeOK ==
    /\ filed \in [Reports -> {"none", "publish", "done"}]
    /\ status \in [Reports -> {"none", "pending"} \union Verdicts]
    /\ drawn \in [Drawings -> {"none", "publish", "done"}]
    /\ shape \in [Zones -> Shapes \union {"nothing"}]
    /\ active \subseteq {z \in Zones : shape[z] # "nothing"}
    /\ step \in [Decisions -> AtWork \union {"idle", "answered", "failed", "settled"}]
    /\ by \in [Decisions -> Desks \union {"nobody"}]
    /\ subject \in [Decisions -> Reports \union {"nothing"}]
    /\ \A d \in Decisions : subject[d] = "nothing" <=> Is(d, "idle")
    /\ verdict \in [Decisions -> Verdicts \union {"none"}]
    /\ \A d \in Decisions : verdict[d] = "none" => step[d] \in {"idle", "settled"}
    /\ again \subseteq Decisions
    /\ log \in Seq(Events)
    /\ notices \in [Reports -> SUBSET Verdicts]
    /\ crossed \subseteq Reports
    /\ unzoned \subseteq Reports

\* UpdateIncidentStatusService, four statements of which three may fail unnoticed: a
\* verified report has had a zone, unless the INSERT failed or was never reached, or is
\* still to come.
VerifiedHasZone ==
    \A r \in Reports : status[r] = "verified" /\ r \notin unzoned =>
        \E d \in Decisions : subject[d] = r /\ (shape[d] # "nothing" \/ Is(d, "zone"))

\* service.go:197, the UPDATE without a condition: a report that was never decided again,
\* nor twice at a time, has one zone at most, has none when it was rejected, and its author
\* was told nothing but what it is.
DecidedOnce ==
    \A r \in Reports \ crossed :
        /\ \A d, e \in Decisions : {subject[d], subject[e]} = {r}
             /\ "nothing" \notin {shape[d], shape[e]} => d = e
        /\ status[r] # "verified" =>
             \A d \in Decisions : subject[d] = r => shape[d] = "nothing"
        /\ notices[r] \subseteq {status[r]}

\* What a decision of an authority has done is what it says (UpdateIncidentStatusService):
\* zones are those of verified reports.
DecisionsTakeEffect == VerifiedHasZone /\ DecidedOnce
=============================================================================
