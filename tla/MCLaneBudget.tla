---------------------------- MODULE MCLaneBudget ----------------------------
(* LaneBudget on small sets. *)
EXTENDS LaneBudget, TLC

CONSTANTS s1, s2, i1, i2

OneLimit == {<<2, 1>>}
LowerToo == {<<2, 1>>, <<1, 1>>}
TwoLimits == {<<2, 2>>, <<3, 1>>}
TwoOne == <<2, 1>>
ThreeOne == <<3, 1>>

\* Sessions and items are only compared for equality.
Symmetry == Permutations(Session) \cup Permutations(Item)
=============================================================================
