---------------------------- MODULE MCAuditTrail ----------------------------
(* Instances of AuditTrail for TLC. *)
EXTENDS AuditTrail, TLC

\* The writers of the API are interchangeable.
Symmetry == Permutations(ApiWriters)

\* Who writes what: anything; one loan per tenant from the API and several loans
\* of another tenant from SQL; two loans of one tenant from the API.
Everything == Tenants \X Loans
OneLoan == {<<1, 1>>}
SqlLoans == {<<1, 1>>, <<2, 0>>, <<2, 1>>}
TwoLoans == {<<1, 1>>, <<1, 2>>}

\* A window that holds every row; the same, or one without the oldest rows.
Whole == {<<0, 9>>}
Nightly == Whole \cup {<<3, 9>>}
=============================================================================
