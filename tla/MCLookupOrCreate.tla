-------------------------- MODULE MCLookupOrCreate --------------------------
(* Instances of LookupOrCreate for TLC.                                    *)
EXTENDS LookupOrCreate, TLC

CONSTANTS p1, p2, p3, c1, n1, n2, entity, bundle

MCCallers3 == {p1, p2, p3}
Symmetric == Permutations(MCCallers3)
=============================================================================
