---------------------------- MODULE MCGroupSharing ----------------------------
(* Small instances of GroupSharing for TLC. *)
EXTENDS GroupSharing

CONSTANTS u1, u2, g1, g2, g3, r1, w1, w2, v1

NoNesting == {}
OneLevel == {<<g1, g2>>}
TwoLevels == {<<g1, g2>>, <<g2, g3>>}
\* One group in two groups, and two in one: in place of TwoLevels they violate
\* the property of GroupSharingChain.cfg too, TwoChildren with MaxUga = 4.
TwoParents == {<<g1, g2>>, <<g1, g3>>}
TwoChildren == {<<g1, g3>>, <<g2, g3>>}

=============================================================================
