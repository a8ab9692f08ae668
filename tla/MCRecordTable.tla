--------------------------- MODULE MCRecordTable ---------------------------
(* One table over a search panel of two properties.                         *)
EXTENDS RecordTable

CONSTANTS p1, p2, a1, a2

MCSearchPanel == <<p1, p2>>
MCMeets == [<<p, a>> \in {p1, p2} \X {a1, a2} |-> IF a = a1 THEN {1} ELSE {2}]

=============================================================================
