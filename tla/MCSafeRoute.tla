---------------------------- MODULE MCSafeRoute ----------------------------
(* SafeRoute for TLC: a ridge and a valley, and zones over one of them or both. *)
EXTENDS SafeRoute, TLC

CONSTANTS ridge, valley, slope, river, storm, drive

PathsThere == [t \in Trips |-> IF t = drive THEN {{ridge}, {valley}} ELSE {{valley}}]
AroundReport == [r \in Reports |-> slope]
SeverityOf == [s \in Shapes |-> IF s = storm THEN 4 ELSE IF s = river THEN 5 ELSE 2]
CoversOf == [s \in Shapes |-> IF s = storm THEN {ridge, valley} ELSE IF s = river THEN {valley} ELSE {ridge}]
Symmetric == Permutations(Requests) \union Permutations(Drawings)
=============================================================================
