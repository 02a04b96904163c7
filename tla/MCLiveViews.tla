---------------------------- MODULE MCLiveViews ----------------------------
(* LiveViews for TLC: a desk's list of reports, or a phone's map of zones. *)
EXTENDS LiveViews, TLC

CONSTANTS desk, phone, slope

MapShown == {{<<phone, "zones">>}}
ViewsShown == MapShown \union {{<<desk, "queue">>}}
AroundReport == [r \in Reports |-> slope]
Symmetric == Permutations(Decisions)
=============================================================================
