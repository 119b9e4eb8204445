------------------------------- MODULE MCTenancy -------------------------------
(* Instances of Tenancy for TLC. *)
EXTENDS Tenancy, TLC

CONSTANTS t1, t2, c1, c2, d1, d2, a1, a2, b1

SomeBorrowers == b1 :> t1

SomeRoles == {"role_viewer", "role_compliance", "role_underwriter"}

Symmetry == Permutations({c1, c2}) \cup Permutations({d1, d2}) \cup Permutations({a1, a2})
=============================================================================
