----------------------------- MODULE MCSseHub -----------------------------
(* SseHub for TLC: a few connections. *)
EXTENDS SseHub

CONSTANTS c1, c2, c3

Conns2 == {c1, c2}
Conns3 == {c1, c2, c3}
=============================================================================
