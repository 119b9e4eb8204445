------------------------------- MODULE Orders -------------------------------
(***************************************************************************)
(* OrdersService behind the idempotency interceptor: vendor orders of      *)
(* loans, created alone or in bulk, sent to the vendor again, and dead     *)
(* letters that are replayed.  Each process of the API remembers the keys  *)
(* of the calls it has finished for an hour (`cache`) and treats a call    *)
(* whose key it remembers as a repeat.  An action is the code from one     *)
(* await to the next; step[r] names the await a request has reached.       *)
(*                                                                         *)
(*   createOrder:  [order.findFirst] -> [vendor.findFirst [-> create]]     *)
(*                   -> order.create -> vendorRequest.create               *)
(*   bulkCreate:   vendor.findFirst [-> create] -> $transaction            *)
(*   retryOrder:   order.update -> vendorRequest.create                    *)
(*   replayDlq:    dlqEntry.findUnique, or dlqEntry.update                 *)
(*                                                                         *)
(* What an update sets is left out, but for who made it: an order is       *)
(* SUBMITTED after every one of these, a dead letter is REPLAYED after its *)
(* update, and the number of an attempt is 1.                              *)
(***************************************************************************)
EXTENDS Idempotency, Sequences

CONSTANTS
  Loans,
  Services, FLOOD,  \* kinds of orders; those made in bulk are FLOOD
  VendorTenant,  \* the tenants of the vendors that are there: id -> tenant
  NoVendor,
  NoTenant,   \* the tenant_id of a row that all tenants share is NULL
  DlqTenant,  \* the tenants of the dead letters, which are numbered
  Calls,      \* the calls that clients make
  MaxFaults   \* bound on rejected calls, expiries of keys and stops of processes

\* A default vendor has the number of the request that made it.
VendorIds == DOMAIN VendorTenant \cup Requests

\* Callers may name any vendor, of whatever tenant, and one that is not there.
Call ==
  [op : {"create", "bulk", "retry", "replay"}, tenant : Tenants, key : Keys,
   loans : Seq(Loans), service : Services, vendor : VendorIds \cup {NoVendor},
   target : Nat]  \* the number of an order or of a dead letter

ASSUME OrdersAssumption ==
  /\ Calls \subseteq Call /\ NoCall \notin Call
  /\ \A c \in Calls : c.op = "create" => Len(c.loans) = 1
  /\ FLOOD \in Services /\ NoVendor \notin VendorIds
  /\ VendorTenant \in [DOMAIN VendorTenant -> Tenants \cup {NoTenant}]
  /\ DOMAIN VendorTenant \cap Requests = {}
  /\ DlqTenant \in Seq(Tenants \cup {NoTenant})
  /\ MaxFaults \in Nat

VARIABLES
  orders,          \* the table orders; an order is known by its place
  vendorRequests,  \* the table vendor_requests, the rows with an order
  vendors,         \* the table vendors: id -> tenant
  updates,         \* the updates of rows of orders and dlq_entries, and who made them
  cache,           \* idempotencyCache of each process
  vendorId, orderId,  \* the locals of a handler
  lapsed,          \* history: the processes that have lost a key
  faults           \* how many faults there were

history == <<lapsed, faults>>

serviceVars ==
  <<orders, vendorRequests, vendors, updates, cache, step, vendorId, orderId, history>>

vars == <<interceptorVars, serviceVars>>

Init ==
  /\ RecordInit
  /\ orders = <<>> /\ vendorRequests = <<>> /\ vendors = VendorTenant /\ updates = {}
  /\ cache = [p \in Processes |-> {}]
  /\ vendorId = [r \in Requests |-> NoVendor]
  /\ orderId = [r \in Requests |-> 0]
  /\ lapsed = {} /\ faults = 0

Request(r) ==
  /\ \E p \in Processes, c \in Calls : Admit(r, p, c)
  /\ UNCHANGED serviceVars

NamesVendor(c) == c.op = "create" /\ c.vendor # NoVendor

\* Where a handler goes when it does the work.
Work(r) ==
  IF call[r].op \in {"retry", "replay"} THEN "update"
  ELSE IF NamesVendor(call[r]) THEN "order" ELSE "vendor"

hasSeenIdempotencyKey(r) ==
  /\ At(r, {"create", "bulk", "retry", "replay"}, "start")
  /\ Goto(r, IF call[r].key \in cache[process[r]] THEN "seen" ELSE Work(r))
  /\ vendorId' = [vendorId EXCEPT ![r] = call[r].vendor]
  /\ UNCHANGED <<interceptorVars, orders, vendorRequests, vendors, updates, cache,
                 orderId, history>>

-----------------------------------------------------------------------------
(* The answer to a repeat *)

\* Mutant: the tenant is missing.
ExistingMutant(r) ==
  {i \in DOMAIN orders : /\ orders[i].loan = call[r].loans[1]
                         /\ orders[i].service = call[r].service}

Existing(r) ==
  {i \in DOMAIN orders : /\ orders[i].tenant = call[r].tenant
                         /\ orders[i].loan = call[r].loans[1]
                         /\ orders[i].service = call[r].service}

\* createOrder: the newest order of the loan and service, whoever made it; if
\* there is none the call is executed after all.
findExisting(r) ==
  /\ At(r, {"create"}, "seen")
  /\ \/ /\ Existing(r) = {}
        /\ Goto(r, Work(r))
        /\ UNCHANGED <<interceptorVars, orderId>>
     \/ /\ \E i \in Existing(r) :
             /\ \A j \in Existing(r) : j <= i
             /\ orderId' = [orderId EXCEPT ![r] = i]
        /\ Answer(r)
        /\ UNCHANGED step
  /\ UNCHANGED <<orders, vendorRequests, vendors, updates, cache, vendorId, history>>

\* bulkCreate: { accepted: 0 }; retryOrder: attempt 0; replayDlq: the dead
\* letter as it is, or an error when there is none of that id.
answerRepeat(r) ==
  /\ At(r, {"bulk", "retry", "replay"}, "seen")
  /\ IF call[r].op = "replay" /\ call[r].target \notin DOMAIN DlqTenant THEN Throw(r)
     ELSE Answer(r)
  /\ UNCHANGED serviceVars

-----------------------------------------------------------------------------
(* The work *)

\* ensureDefaultVendor, in two steps when the tenant has no vendor yet.
findVendor(r) ==
  LET found == {v \in DOMAIN vendors : vendors[v] = call[r].tenant}
  IN  /\ At(r, {"create", "bulk"}, "vendor")
      /\ \/ /\ found = {}
            /\ Goto(r, "newVendor")
            /\ UNCHANGED vendorId
         \/ /\ \E v \in found : vendorId' = [vendorId EXCEPT ![r] = v]
            /\ Goto(r, "order")
      /\ UNCHANGED <<interceptorVars, orders, vendorRequests, vendors, updates, cache,
                     orderId, history>>

NewVendor(r) ==
  /\ vendors' = [v \in DOMAIN vendors \cup {r} |->
                   IF v = r THEN call[r].tenant ELSE vendors[v]]
  /\ vendorId' = [vendorId EXCEPT ![r] = r]
  /\ Goto(r, "order")

\* Mutant: no unique index on the tenant and slug of a vendor.
createVendorMutant(r) ==
  /\ At(r, {"create", "bulk"}, "newVendor")
  /\ NewVendor(r)
  /\ UNCHANGED <<interceptorVars, orders, vendorRequests, updates, cache, orderId, history>>

\* Mutant: the create is tried again and again.
createVendorLoopMutant(r) ==
  /\ At(r, {"create", "bulk"}, "newVendor")
  /\ \/ /\ \E v \in DOMAIN vendors : vendors[v] = call[r].tenant
        /\ UNCHANGED <<vendors, vendorId, step>>
     \/ /\ \A v \in DOMAIN vendors : vendors[v] # call[r].tenant
        /\ NewVendor(r)
  /\ UNCHANGED <<interceptorVars, orders, vendorRequests, updates, cache, orderId, history>>

\* The create fails when another request was faster: (tenant_id, slug) is unique.
createVendor(r) ==
  /\ At(r, {"create", "bulk"}, "newVendor")
  /\ \/ /\ \E v \in DOMAIN vendors : vendors[v] = call[r].tenant
        /\ Throw(r)
        /\ UNCHANGED <<vendors, vendorId, step>>
     \/ /\ \A v \in DOMAIN vendors : vendors[v] # call[r].tenant
        /\ NewVendor(r)
        /\ UNCHANGED interceptorVars
  /\ UNCHANGED <<orders, vendorRequests, updates, cache, orderId, history>>

OrderRow(r, loan, service) ==
  [tenant |-> call[r].tenant, loan |-> loan, service |-> service,
   vendor |-> vendorId[r], by |-> r]

\* The vendor is a foreign key, and its tenant is not looked at.
createOrder(r) ==
  /\ At(r, {"create"}, "order")
  /\ \/ /\ vendorId[r] \in DOMAIN vendors
        /\ orders' = Append(orders, OrderRow(r, call[r].loans[1], call[r].service))
        /\ orderId' = [orderId EXCEPT ![r] = Len(orders) + 1]
        /\ Goto(r, "request")
        /\ UNCHANGED interceptorVars
     \/ /\ vendorId[r] \notin DOMAIN vendors
        /\ Throw(r)
        /\ UNCHANGED <<orders, orderId, step>>
  /\ UNCHANGED <<vendorRequests, vendors, updates, cache, vendorId, history>>

\* Mutant: the orders are created one by one, and the loop stops after the first.
bulkCreateMutant(r) ==
  /\ At(r, {"bulk"}, "order")
  /\ orders' = Append(orders, OrderRow(r, call[r].loans[1], FLOOD))
  /\ Goto(r, "return")
  /\ UNCHANGED <<interceptorVars, vendorRequests, vendors, updates, cache, vendorId,
                 orderId, history>>

\* One transaction, and no vendor request.
bulkCreate(r) ==
  /\ At(r, {"bulk"}, "order")
  /\ orders' = orders \o [i \in DOMAIN call[r].loans |->
                            OrderRow(r, call[r].loans[i], FLOOD)]
  /\ Goto(r, "return")
  /\ UNCHANGED <<interceptorVars, vendorRequests, vendors, updates, cache, vendorId,
                 orderId, history>>

Update(table, r) ==
  updates' = updates \cup {[table |-> table, row |-> call[r].target, by |-> r]}

\* order.update({ where: { id, tenantId } }) fails when there is no such row.
\* Every order has a vendor, so the request goes to the vendor of the order.
retryOrder(r) ==
  LET i == call[r].target
  IN  /\ At(r, {"retry"}, "update")
      /\ \/ /\ i \in DOMAIN orders /\ orders[i].tenant = call[r].tenant
            /\ Update("orders", r)
            /\ orderId' = [orderId EXCEPT ![r] = i]
            /\ vendorId' = [vendorId EXCEPT ![r] = orders[i].vendor]
            /\ Goto(r, "request")
            /\ UNCHANGED interceptorVars
         \/ /\ ~(i \in DOMAIN orders /\ orders[i].tenant = call[r].tenant)
            /\ Throw(r)
            /\ UNCHANGED <<updates, step, vendorId, orderId>>
      /\ UNCHANGED <<orders, vendorRequests, vendors, cache, history>>

RequestRow(r) ==
  [tenant |-> call[r].tenant, order |-> orderId[r], vendor |-> vendorId[r], by |-> r]

createVendorRequest(r) ==
  /\ At(r, {"create", "retry"}, "request")
  /\ vendorRequests' = Append(vendorRequests, RequestRow(r))
  /\ Goto(r, "return")
  /\ UNCHANGED <<interceptorVars, orders, vendors, updates, cache, vendorId, orderId, history>>

\* dlqEntry.update({ where: { id, tenantId } }): replayed again if it was before.
replayDlq(r) ==
  LET d == call[r].target
  IN  /\ At(r, {"replay"}, "update")
      /\ \/ /\ d \in DOMAIN DlqTenant /\ DlqTenant[d] = call[r].tenant
            /\ Update("dlq_entries", r)
            /\ Goto(r, "return")
            /\ UNCHANGED interceptorVars
         \/ /\ ~(d \in DOMAIN DlqTenant /\ DlqTenant[d] = call[r].tenant)
            /\ Throw(r)
            /\ UNCHANGED <<updates, step>>
      /\ UNCHANGED <<orders, vendorRequests, vendors, cache, vendorId, orderId, history>>

\* Mutant: idempotencyCache.set is missing.
finishMutant(r) ==
  /\ At(r, {"create", "bulk", "retry", "replay"}, "return")
  /\ Answer(r)
  /\ UNCHANGED serviceVars

\* The code after the last await: idempotencyCache.set, and the response.
finish(r) ==
  /\ At(r, {"create", "bulk", "retry", "replay"}, "return")
  /\ cache' = [cache EXCEPT ![process[r]] = @ \cup {call[r].key}]
  /\ Answer(r)
  /\ UNCHANGED <<orders, vendorRequests, vendors, updates, step, vendorId, orderId, history>>

-----------------------------------------------------------------------------
(* Faults *)

Fault == faults < MaxFaults /\ faults' = faults + 1

\* An awaited call rejects: what is written stays.
Reject(r) ==
  /\ Fault
  /\ Throw(r)
  /\ UNCHANGED <<orders, vendorRequests, vendors, updates, cache, step, vendorId, orderId,
                 lapsed>>

\* The process loses what it remembers of some keys.
Forget(p, keys) ==
  /\ Fault
  /\ cache' = [cache EXCEPT ![p] = @ \ keys]
  /\ lapsed' = lapsed \cup {p}
  /\ UNCHANGED <<orders, vendorRequests, vendors, updates, step, vendorId, orderId>>

\* An hour after the entry was made; hasSeenIdempotencyKey deletes it.
Expire(p) ==
  /\ \E k \in cache[p] : Forget(p, {k})
  /\ UNCHANGED interceptorVars

\* The Map lives in the memory of the process, which is started again.
Crash(p) == Stop(p) /\ Forget(p, Keys)

-----------------------------------------------------------------------------
Handler(r) ==
  \/ hasSeenIdempotencyKey(r) \/ findExisting(r) \/ answerRepeat(r)
  \/ findVendor(r) \/ createVendor(r) \/ createOrder(r) \/ bulkCreate(r)
  \/ retryOrder(r) \/ createVendorRequest(r) \/ replayDlq(r) \/ finish(r)

Record(r) == Complete(r) /\ UNCHANGED serviceVars

\* All requests are answered and the API waits for more.
Quiescent ==
  /\ \A r \in Requests : stage[r] \in {"recorded", "unrecorded", "conflict", "failed"}
  /\ UNCHANGED vars

Next ==
  \/ \E r \in Requests : Request(r) \/ Handler(r) \/ Record(r) \/ Reject(r)
  \/ \E p \in Processes : Expire(p) \/ Crash(p)
  \/ Quiescent

\* The database answers every call and the event loop runs what awaits it.
\* Nothing makes clients call, keys expire or processes stop.
Fairness == \A r \in Requests : WF_vars(Handler(r)) /\ WF_vars(Record(r))

Spec == Init /\ [][Next]_vars /\ Fairness

-----------------------------------------------------------------------------
OrdersOf(r) == {i \in DOMAIN orders : orders[i].by = r}

RequestsOf(r) == {i \in DOMAIN vendorRequests : vendorRequests[i].by = r}

\* Every order of a request that was answered is on its way to its vendor: one
\* vendor request for an order made alone, none for those made in bulk, of
\* which there is one per loan or none at all.
OrdersAreWhole ==
  \A r \in Requests : OrdersOf(r) # {} =>
    IF call[r].op = "bulk"
    THEN /\ Cardinality(OrdersOf(r)) = Len(call[r].loans)
         /\ RequestsOf(r) = {}
    ELSE \/ stage[r] = "failed" \/ At(r, {"create"}, "request")
         \/ /\ Cardinality(OrdersOf(r)) = 1 /\ Cardinality(RequestsOf(r)) = 1
            /\ \A i \in RequestsOf(r) :
                 LET q == vendorRequests[i]
                 IN  q.order \in OrdersOf(r) /\ q.vendor = orders[q.order].vendor

\* First orders of a tenant that race agree on one default vendor; an order has the
\* vendor that its caller named, of whatever tenant, or else one of its own tenant; and
\* a vendor request, of the order's own call or of a retry, has the tenant and the
\* vendor of its order.
VendorIsShared ==
  /\ \A v, w \in DOMAIN vendors \cap Requests : vendors[v] = vendors[w] => v = w
  /\ \A i \in DOMAIN orders :
       LET o == orders[i]
       IN  /\ o.vendor \in DOMAIN vendors
           /\ IF NamesVendor(call[o.by]) THEN o.vendor = call[o.by].vendor
              ELSE vendors[o.vendor] = o.tenant
  /\ \A i \in DOMAIN vendorRequests :
       LET q == vendorRequests[i]
       IN  /\ q.order \in DOMAIN orders
           /\ q.tenant = orders[q.order].tenant /\ q.vendor = orders[q.order].vendor

\* A request has created an order, a vendor request or a vendor, or has updated an
\* order or a dead letter.
Wrote(r) ==
  \/ OrdersOf(r) # {} \/ RequestsOf(r) # {}
  \/ r \in DOMAIN vendors
  \/ \E u \in updates : u.by = r

\* A call made again after it was answered, with its key, writes nothing more
\* while its process remembers the key, whether or not the record was completed: a
\* repeated order makes no order, request or vendor, a repeated retry does not touch
\* its order, and a repeated replay does not touch its dead letter.
RepeatWritesNothing ==
  \A r \in Requests : \A s \in past[r].answered :
    call[r] = call[s] /\ process[r] = process[s] /\ process[r] \notin lapsed => ~Wrote(r)

\* The order a caller gets back is one of its tenant, loan and service.
AnswerIsOwn ==
  \A r \in Requests :
    stage[r] \in {"answered", "recorded"} /\ call[r].op = "create" =>
      LET o == orders[orderId[r]]
      IN  /\ o.tenant = call[r].tenant /\ o.loan = call[r].loans[1]
          /\ o.service = call[r].service

\* Every request ends, and every answer is recorded unless its process stops.
RequestsSettle ==
  \A r \in Requests :
    /\ stage[r] = "running" ~> stage[r] # "running"
    /\ stage[r] = "answered" ~> stage[r] \in {"recorded", "unrecorded"}
=============================================================================
