---------------------------- MODULE MCExceptions ----------------------------
(* Instances of Exceptions for TLC. *)
EXTENDS Exceptions, TLC

\* Requests, users and tenants are interchangeable.
Symmetry == Permutations(Requests) \cup Permutations(Users) \cup Permutations(Tenants)
=============================================================================
