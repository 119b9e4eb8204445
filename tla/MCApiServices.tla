----------------------------- MODULE MCApiServices -----------------------------
(* Instances of ApiServices for TLC. *)
EXTENDS ApiServices

CONSTANTS t1, t2, k1, k2, u1, n1

SomeVendors ==
  {[tenant |-> t1, slug |-> "flood"], [tenant |-> NoTenant, slug |-> "flood"],
   [tenant |-> t2, slug |-> "title"]}

TaskTenants == <<t1, t1, t2>>

Scenario(key) == [scenarioKey |-> key]

Transition(key, t, to) ==
  [op |-> "transition", tenant |-> t1, key |-> key, target |-> t, to |-> to]

Route(tenant, key, t) ==
  [op |-> "route", tenant |-> tenant, key |-> key, target |-> t, queue |-> "credit"]

Delivery(tenant, slug, signature) ==
  [op |-> "ingest", tenant |-> tenant, key |-> k1, slug |-> slug, signature |-> signature]

Quote(a, b) == [op |-> "quote", tenant |-> t1, key |-> k2, loan |-> n1, scenarios |-> <<a, b>>]

\* Calls that share keys across operations and tenants; of the last ones each is
\* refused, or would be if the key had not been used before.
SomeCalls ==
  {Transition(k1, 1, "DONE"), Transition(k2, 1, "BLOCKED"), Transition(k2, 2, "IN_PROGRESS"),
   [op |-> "bulkUpdate", tenant |-> t1, key |-> k1, targets |-> {1, 3}, owner |-> u1],
   Route(t1, k2, 1), Route(t1, k2, 3), Route(t1, k1, 4),
   Delivery(t1, "flood", [tenant |-> NoTenant, slug |-> "flood"]),
   Delivery(t2, "flood", [tenant |-> t1, slug |-> "flood"]),
   Delivery(t1, "title", [tenant |-> t2, slug |-> "title"]),
   Delivery(t1, "flood", NoSignature),
   Quote(Scenario("a"), Scenario("b")),
   Quote(Scenario("b"), Scenario("c"))}
=============================================================================
