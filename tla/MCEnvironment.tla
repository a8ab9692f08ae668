--------------------------- MODULE MCEnvironment ---------------------------
(* One class with two rules, one task; one shared type and one depended on. *)
EXTENDS Environment

CONSTANTS m1, m2, T, U, r1, r2

MCRef == [m \in {m1, m2} |-> T]
MCDeps == [m \in {m1, m2} |-> IF m = m1 THEN {U} ELSE {T, U}]
MCRecType == [r \in {r1, r2} |-> IF r = r1 THEN T ELSE U]
=============================================================================
