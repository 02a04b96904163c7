------------------------------ MODULE MCCamps ------------------------------
(* Camps for TLC: who does what in which scenario. *)
EXTENDS Camps

CONSTANTS desk, other, phone, c1, c2, c3, stock1, stock2, save1, save2, theirs, remove, deploy

Kind == [e \in Ops |-> CASE e \in {stock1, stock2} -> "stock" [] e \in {save1, save2, theirs} -> "save"
                         [] e = remove -> "delete" [] e = deploy -> "create"]
AtDesk == [e \in Ops |-> IF e = theirs THEN other ELSE desk]
NewCamp == [x \in Posts |-> IF x[2] = 1 THEN c2 ELSE c3]

Plan(os, ps, k, ks, ms) == [ops |-> os, phones |-> ps, start |-> k, pages |-> ks, may |-> ms]
Scenarios == {
    Plan({stock1, stock2}, {}, "list", {}, {"network", "load"}),
    Plan({save1, theirs}, {}, c1, {}, {"focus"}),
    Plan({save1, save2}, {}, c1, {c1, "away"}, {}),
    Plan({save1, remove}, {}, c1, {"list", "away"}, {"server", "network"}),
    Plan({stock1}, {phone}, "list", {"list", "away"}, {"server", "network", "stream"}),
    Plan({stock1}, {phone}, "list", {"list", "away"}, {"server", "stream", "load"}),
    Plan({deploy}, {}, "new", {"list", "away"}, {"network", "stream", "load"}) }
=============================================================================
