------------------------- MODULE MCPluginLifecycle -------------------------
(***************************************************************************)
(* A small instance of PluginLifecycle: two versions of a plugin, of which *)
(* the second has one more type.                                           *)
(***************************************************************************)
EXTENDS PluginLifecycle, TLC

CONSTANTS o1, o2, o3, v1, v2, t1, t2

TwoOps      == {o1, o2}
ThreeOps    == {o1, o2, o3}
TwoVersions == {v1, v2}
TwoTypes    == {t1, t2}

\* Requests differ in nothing.
AnyOp == Permutations(ThreeOps)

\* The type that the second version adds comes last in its manifest, or first.
OneMoreType == [v \in TwoVersions |-> IF v = v1 THEN <<t1>> ELSE <<t1, t2>>]
NewTypeFirst == [v \in TwoVersions |-> IF v = v1 THEN <<t1>> ELSE <<t2, t1>>]

=============================================================================
