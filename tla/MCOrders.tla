------------------------------ MODULE MCOrders ------------------------------
(* Instances of Orders for TLC. *)
EXTENDS Orders

CONSTANTS t1, t2, k1, k2, n1, n2, v1, flood

Base == [op |-> "create", tenant |-> t1, key |-> k1, loans |-> <<n1>>,
         service |-> flood, vendor |-> NoVendor, target |-> 1]

\* t2 has a vendor, and t1 has none.
OneVendor == [v \in {v1} |-> t2]

\* Calls that share keys across operations, loans and tenants; t1 names the vendor of
\* t2, and the default vendor of its own that its first request may have made; the last
\* two are refused by the tables.
SomeCalls ==
  {Base,
   [Base EXCEPT !.key = k2, !.vendor = v1],
   [Base EXCEPT !.key = k2, !.vendor = 1],
   [Base EXCEPT !.tenant = t2],
   [Base EXCEPT !.op = "bulk", !.loans = <<n1, n2>>],
   [Base EXCEPT !.op = "retry", !.key = k2],
   [Base EXCEPT !.op = "replay"],
   [Base EXCEPT !.op = "retry", !.tenant = t2],
   [Base EXCEPT !.op = "replay", !.key = k2, !.target = 3]}

OneDeadLetter == <<t1>>
=============================================================================
