----------------------------- MODULE MCCitizen -----------------------------
(* A citizen's application for TLC: in each plan a part of it, over the pages that it meets. *)
EXTENDS Citizen, TLC

CONSTANTS n1, n2, n3, p1, p2

Quiet == [n \in Notices |-> "none"]

\* The places that the phone has, over pages and reloads.
Whereabouts(known) ==
    [start |-> "home", pages |-> {"home", "profile"}, known |-> known, places |-> 4,
     photos |-> 0, posts |-> {}, notices |-> Quiet, marks |-> 0,
     may |-> {"gps", "picker", "network", "reload"}]

\* The place of a report, by a phone that knows its own or comes to know it.
Placing(known) ==
    [start |-> "report", pages |-> {"home", "report"}, known |-> known, places |-> 3,
     photos |-> 0, posts |-> {p1}, notices |-> Quiet, marks |-> 0,
     may |-> {"gps", "network"}]

\* The photos of two reports, the answer to one of which may close the page of the other.
Photographing ==
    [start |-> "report", pages |-> {"home", "report"}, known |-> TRUE, places |-> 1,
     photos |-> 2, posts |-> {p1, p2}, notices |-> Quiet, marks |-> 0,
     may |-> {"offline", "network"}]

\* Notices for a phone that moves once, or whose stream breaks; three are more than the list has.
Noticing(a, b, c, marks, may) ==
    [start |-> "notifications", pages |-> {"home", "notifications"}, known |-> TRUE,
     places |-> IF "gps" \in may THEN 2 ELSE 1, photos |-> 0, posts |-> {},
     notices |-> (n1 :> a @@ n2 :> b @@ n3 :> c), marks |-> marks, may |-> may \union {"alerts"}]

MCPlans ==
    {Whereabouts(k) : k \in BOOLEAN} \union {Placing(k) : k \in BOOLEAN} \union {Photographing}
        \union {Noticing("broadcast", "sos", "none", 1, {"gps"}),
                Noticing("broadcast", "sos", "none", 1, {"backend"}),
                Noticing("verified", "rejected", "none", 2, {"network"}),
                Noticing("broadcast", "elsewhere", "none", 1, {"network", "stream"}),
                Noticing("sos", "rejected", "rejected", 1, {})}
=============================================================================
