--------------------------- MODULE MCRecordLookup ---------------------------
(* Two records on pages of one, one searchable and one filtered property.               *)
EXTENDS RecordLookup

CONSTANTS p1, p2, a1

MCSearchPanel == <<p1>>
MCMeets == [<<p, a>> \in {p1, p2} \X {a1} |-> IF p = p1 THEN {1, 2} ELSE {2}]
=============================================================================
