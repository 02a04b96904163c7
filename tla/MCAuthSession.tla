--------------------------- MODULE MCAuthSession ---------------------------
(* AuthSession for TLC: two tabs, three calls, one of them a logout in the citizen application. *)
EXTENDS AuthSession

CONSTANTS left, right, r1, r2, r3

TwoTabs == {left, right}
Calls == {r1, r2, r3}
Tab == [r \in Calls |-> IF r = r3 THEN right ELSE left]
OnlyLogout == {r2}
NoLogout == {}
=============================================================================
