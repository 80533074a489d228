------------------------------ MODULE MCGrants ------------------------------
(* Instances of Grants for TLC. *)
EXTENDS Grants, TLC

CONSTANTS s1, a1, a2, c1, g1, k1

OneAsset == [a \in Accounts |-> s1]
Symmetry == Permutations(Conns) \cup Permutations(Creds) \cup Permutations(Specs)
              \cup Permutations(Artifacts)
=============================================================================
