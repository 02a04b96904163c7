----------------------------- MODULE MCDrawing -----------------------------
(* Drawing for TLC: a board with a map that is busy, broadcasts, a new zone, an editor, a guest. *)
EXTENDS Drawing, TLC

CONSTANTS q1, q2

Plan(who, k, ks, n, r, ms) == [role |-> who, start |-> k, pages |-> ks, entries |-> n, sends |-> r, may |-> ms]
Scenarios == {
    Plan("AUTHORITY", "new", {"command", "new"}, 4, 0, {"lag"}),
    Plan("AUTHORITY", "broadcast", {"command", "broadcast"}, 5, 2, {"server", "network"}),
    Plan("AUTHORITY", "broadcast", {}, 7, 2, {}),
    Plan("AUTHORITY", "new", {"broadcast", "new"}, 5, 2, {"network"}),
    Plan("AUTHORITY", "zone", {"zone", "command"}, 2, 1, {"load", "focus", "others"}),
    Plan("AUTHORITY", "command", {"zone", "new"}, 1, 2, {"server", "network"}),
    Plan("RESPONDER", "command", {"new", "zone"}, 1, 1, {"load"}) }

Symmetric == Permutations({q1, q2})
=============================================================================
