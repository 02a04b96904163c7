-------------------------- MODULE MCCommandCentre --------------------------
(* CommandCentre for TLC: the feed alone, and the lists with their layers. *)
EXTENDS CommandCentre

CONSTANTS s1, s2, c1, r1, z1

Kind == [id \in Ids |-> CASE id \in {s1, s2} -> "sos" [] id = c1 -> "camp" [] id = r1 -> "report" [] id = z1 -> "zone"]

Plan(is, ks, fs, ms) == [ids |-> is, queries |-> ks, filters |-> fs, may |-> ms]
Scenarios == {
    Plan({s1, s2}, {"history"}, {}, {"stream", "focus", "leave"}),
    Plan({s1}, {"sos", "history"}, {"sos", "resolvedSos"}, {}),
    Plan({c1}, {"camps"}, {"camps"}, {"load", "leave"}),
    Plan({r1}, {"incidents"}, {}, {"load"}),
    Plan({r1, z1}, {"zones"}, {"hazards"}, {"stream", "load", "leave"}) }
=============================================================================
