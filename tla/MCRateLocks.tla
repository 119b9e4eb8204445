---------------------------- MODULE MCRateLocks ----------------------------
(* Instances of RateLocks for TLC. *)
EXTENDS RateLocks, TLC

\* Requests and locks are interchangeable, and so are tenants.
Symmetry == Permutations(Requests) \cup Permutations(LockIds)
              \cup Permutations(Tenants)
=============================================================================
