---------------------------- MODULE MCSosSignals ----------------------------
(* SosSignals for TLC: ann's phone, a phone nobody is signed in on, one desk. *)
EXTENDS SosSignals, TLC

CONSTANTS p1, p2, desk, h1, h2, u1, u2

User == [p \in Phones |-> IF p = p1 THEN "ann" ELSE "anonymous"]
UpdateBy == [u \in Updates |-> IF u = u1 THEN p1 ELSE desk]
\* The presses are made by either phone in any order: they are interchangeable.
Symmetric == Permutations(Holds)
=============================================================================
