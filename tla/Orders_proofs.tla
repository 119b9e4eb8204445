----------------------------- MODULE Orders_proofs -----------------------------
(***************************************************************************)
(* Theorems about OrdersService, for any number of requests and processes, *)
(* any calls and any faults.                                               *)
(*                                                                         *)
(* Each property is about the rows a request has written, wherever it was  *)
(* cut short, so the invariant gives, for each place of a handler, which   *)
(* rows there are and what the handler's locals have to do with them.      *)
(* Rows are only added, and a step adds rows of its own request only:      *)
(* what is so of the other requests stays so.                              *)
(***************************************************************************)
EXTENDS Orders, FiniteSetTheorems, SequenceTheorems, TLAPS

Anyone == VendorIds \cup {NoVendor}

OrderRows ==
  [tenant : Tenants, loan : Loans, service : Services, vendor : Anyone, by : Requests]

RequestRows == [tenant : Tenants, order : Nat, vendor : Anyone, by : Requests]

Stages == {"idle", "running", "answered", "recorded", "unrecorded", "conflict", "failed"}

Steps == {"start", "seen", "vendor", "newVendor", "order", "request", "return", "update"}

Typed ==
  /\ stage \in [Requests -> Stages] /\ step \in [Requests -> Steps]
  /\ call \in [Requests -> Calls \cup {NoCall}]
  /\ \A r \in Requests : stage[r] # "idle" => call[r] \in Calls
  /\ vendorId \in [Requests -> Anyone] /\ orderId \in [Requests -> Nat]
  /\ DOMAIN vendors \subseteq VendorIds
  /\ orders \in Seq(OrderRows) /\ vendorRequests \in Seq(RequestRows)

\* The vendor that an order of r may have.
MayOrder(r, v) ==
  IF NamesVendor(call[r]) THEN v = call[r].vendor
  ELSE v \in DOMAIN vendors /\ vendors[v] = call[r].tenant

Unwritten(r) == OrdersOf(r) = {} /\ RequestsOf(r) = {}

\* The order of a request and what was sent of it.
Sent(r) ==
  \E i \in DOMAIN orders, q \in DOMAIN vendorRequests :
    /\ OrdersOf(r) = {i} /\ RequestsOf(r) = {q}
    /\ vendorRequests[q].order = i /\ vendorRequests[q].vendor = orders[i].vendor

\* What createVendorRequest needs of the order that a request holds.
MaySend(r) ==
  /\ orderId[r] \in DOMAIN orders
  /\ orders[orderId[r]].tenant = call[r].tenant
  /\ orders[orderId[r]].vendor = vendorId[r]

\* The order that a request holds is one that answers it.
HoldsOwn(r) ==
  LET o == orders[orderId[r]]
  IN  /\ orderId[r] \in DOMAIN orders
      /\ o.tenant = call[r].tenant /\ o.loan = call[r].loans[1]
      /\ o.service = call[r].service

BulkIsWhole(r) ==
  \/ OrdersOf(r) = {}
  \/ \E n \in Nat : OrdersOf(r) = (n + 1)..(n + Len(call[r].loans))

RunningIsSound(r) ==
  /\ step[r] \notin {"request", "return"} => Unwritten(r)
  /\ step[r] = "seen" => vendorId[r] = call[r].vendor
  /\ step[r] \in {"vendor", "newVendor"} => ~NamesVendor(call[r])
  /\ step[r] = "order" => MayOrder(r, vendorId[r])
  /\ step[r] = "request" => MaySend(r)
  /\ call[r].op = "create" /\ step[r] = "request" =>
       OrdersOf(r) = {orderId[r]} /\ RequestsOf(r) = {} /\ HoldsOwn(r)
  /\ call[r].op = "create" /\ step[r] = "return" => Sent(r) /\ HoldsOwn(r)

RequestIsSound(r) ==
  /\ r \in DOMAIN vendors => vendors[r] = call[r].tenant
  /\ stage[r] \in {"idle", "conflict"} => ~Wrote(r)
  /\ stage[r] = "idle" => step[r] = "start"
  /\ stage[r] = "running" => RunningIsSound(r)
  /\ stage[r] \in {"answered", "recorded", "unrecorded"} /\ call[r].op = "create" =>
       HoldsOwn(r) /\ (OrdersOf(r) = {} \/ Sent(r))
  /\ stage[r] # "idle" /\ call[r].op = "bulk" => RequestsOf(r) = {} /\ BulkIsWhole(r)
  /\ stage[r] # "idle" /\ call[r].op \in {"retry", "replay"} => OrdersOf(r) = {}

IInv == Typed /\ VendorIsShared /\ \A r \in Requests : RequestIsSound(r)

-----------------------------------------------------------------------------
LEMMA CallFacts ==
  ASSUME NEW c \in Calls
  PROVE  /\ c.op \in {"create", "bulk", "retry", "replay"}
         /\ c.tenant \in Tenants /\ c.loans \in Seq(Loans) /\ c.service \in Services
         /\ c.vendor \in Anyone /\ c.target \in Nat
         /\ Len(c.loans) \in Nat /\ \A i \in 1..Len(c.loans) : c.loans[i] \in Loans
         /\ c.op = "create" => c.loans[1] \in Loans
  <1>1. c \in Call
    BY OrdersAssumption
  <1>2. /\ c.op \in {"create", "bulk", "retry", "replay"}
        /\ c.tenant \in Tenants /\ c.loans \in Seq(Loans) /\ c.service \in Services
        /\ c.vendor \in Anyone /\ c.target \in Nat
    BY <1>1 DEF Call, Anyone
  <1>3. Len(c.loans) \in Nat /\ \A i \in 1..Len(c.loans) : c.loans[i] \in Loans
    BY <1>2, LenProperties, ElementOfSeq
  <1>4. c.op = "create" => Len(c.loans) = 1
    BY OrdersAssumption
  <1> QED
    BY <1>2, <1>3, <1>4

LEMMA RowFacts ==
  ASSUME Typed
  PROVE  /\ \A i \in DOMAIN orders :
              /\ orders[i] \in OrderRows /\ orders[i].vendor \in Anyone
              /\ orders[i].tenant \in Tenants /\ orders[i].by \in Requests
         /\ DOMAIN orders = 1..Len(orders) /\ Len(orders) \in Nat
         /\ DOMAIN vendorRequests = 1..Len(vendorRequests) /\ Len(vendorRequests) \in Nat
  <1>1. orders \in Seq(OrderRows) /\ vendorRequests \in Seq(RequestRows)
    BY DEF Typed
  <1>2. /\ DOMAIN orders = 1..Len(orders) /\ Len(orders) \in Nat
        /\ DOMAIN vendorRequests = 1..Len(vendorRequests) /\ Len(vendorRequests) \in Nat
    BY <1>1, LenProperties
  <1>3. \A i \in DOMAIN orders : orders[i] \in OrderRows
    BY <1>1, <1>2, ElementOfSeq
  <1>4. \A o \in OrderRows : o.vendor \in Anyone /\ o.tenant \in Tenants /\ o.by \in Requests
    BY DEF OrderRows
  <1> QED
    BY <1>2, <1>3, <1>4

OwnUpdates(r) == updates \subseteq updates' /\ \A u \in updates' \ updates : u.by = r

\* What a step of request r may do to what the others rely on.
Local(r) ==
  /\ \A s \in Requests \ {r} :
       /\ call'[s] = call[s] /\ stage'[s] = stage[s] /\ step'[s] = step[s]
       /\ vendorId'[s] = vendorId[s] /\ orderId'[s] = orderId[s]
  /\ \A v \in DOMAIN vendors : v \in DOMAIN vendors' /\ vendors'[v] = vendors[v]
  /\ DOMAIN vendors' \subseteq DOMAIN vendors \cup {r}
  /\ OwnUpdates(r)
  /\ DOMAIN orders \subseteq DOMAIN orders'
  /\ \A i \in DOMAIN orders : orders'[i] = orders[i]
  /\ \A i \in DOMAIN orders' \ DOMAIN orders : orders'[i].by = r
  /\ DOMAIN vendorRequests \subseteq DOMAIN vendorRequests'
  /\ \A i \in DOMAIN vendorRequests : vendorRequests'[i] = vendorRequests[i]
  /\ \A i \in DOMAIN vendorRequests' \ DOMAIN vendorRequests : vendorRequests'[i].by = r

LEMMA OthersHold ==
  ASSUME NEW r, NEW s \in Requests, s # r, RequestIsSound(s), Local(r)
  PROVE  RequestIsSound(s)'
  <1>1. /\ call'[s] = call[s] /\ stage'[s] = stage[s] /\ step'[s] = step[s]
        /\ vendorId'[s] = vendorId[s] /\ orderId'[s] = orderId[s]
    BY DEF Local
  <1>2. OrdersOf(s)' = OrdersOf(s)
    BY DEF Local, OrdersOf
  <1>3. RequestsOf(s)' = RequestsOf(s)
    BY DEF Local, RequestsOf
  <1>4. HoldsOwn(s) => HoldsOwn(s)'
    BY <1>1 DEF Local, HoldsOwn
  <1>5. Sent(s) => Sent(s)'
    <2> SUFFICES ASSUME NEW i \in DOMAIN orders, NEW q \in DOMAIN vendorRequests,
                        OrdersOf(s) = {i}, RequestsOf(s) = {q},
                        vendorRequests[q].order = i,
                        vendorRequests[q].vendor = orders[i].vendor
                 PROVE  Sent(s)'
      BY DEF Sent
    <2>1. i \in DOMAIN orders' /\ q \in DOMAIN vendorRequests'
          /\ orders'[i] = orders[i] /\ vendorRequests'[q] = vendorRequests[q]
      BY DEF Local
    <2> QED
      BY <1>2, <1>3, <2>1 DEF Sent
  <1>6. MayOrder(s, vendorId[s]) => MayOrder(s, vendorId[s])'
    BY <1>1 DEF Local, MayOrder
  <1>7. Unwritten(s)' <=> Unwritten(s)
    BY <1>2, <1>3 DEF Unwritten
  <1>8. BulkIsWhole(s)' <=> BulkIsWhole(s)
    BY <1>1, <1>2 DEF BulkIsWhole
  <1>9. MaySend(s) => MaySend(s)'
    BY <1>1 DEF Local, MaySend
  <1>10. RunningIsSound(s) => RunningIsSound(s)'
    BY <1>1, <1>2, <1>3, <1>4, <1>5, <1>6, <1>7, <1>9 DEF RunningIsSound
  <1>11. Wrote(s)' <=> Wrote(s)
    BY <1>2, <1>3 DEF Local, OwnUpdates, Wrote
  <1>12. s \in DOMAIN vendors' => s \in DOMAIN vendors /\ vendors'[s] = vendors[s]
    BY DEF Local
  <1> QED
    BY <1>1, <1>2, <1>3, <1>4, <1>5, <1>7, <1>8, <1>10, <1>11, <1>12 DEF RequestIsSound

-----------------------------------------------------------------------------
(* Steps that write no rows but of vendors *)

LEMMA LocalSuffices ==
  ASSUME IInv, NEW r \in Requests, Typed', VendorIsShared', Local(r), RequestIsSound(r)'
  PROVE  IInv'
  <1>1. ASSUME NEW s \in Requests PROVE RequestIsSound(s)'
    BY OthersHold DEF IInv
  <1> QED
    BY <1>1 DEF IInv

\* A step of r that changes where r is and what it holds.
LEMMA QuietStep ==
  ASSUME IInv, NEW r \in Requests,
         UNCHANGED <<orders, vendorRequests, vendors>>, OwnUpdates(r),
         NEW c \in Calls, call' = [call EXCEPT ![r] = c], c = call[r] \/ OrdersOf(r) = {},
         NEW s1 \in Stages, stage' = [stage EXCEPT ![r] = s1],
         NEW s2 \in Steps, step' = [step EXCEPT ![r] = s2],
         NEW v \in Anyone, vendorId' = [vendorId EXCEPT ![r] = v],
         NEW o \in Nat, orderId' = [orderId EXCEPT ![r] = o],
         RequestIsSound(r)'
  PROVE  IInv'
  <1>1. Typed'
    BY DEF IInv, Typed
  <1>2. VendorIsShared'
    <2>1. \A i \in DOMAIN orders : call'[orders[i].by] = call[orders[i].by]
      BY RowFacts DEF IInv, Typed, OrdersOf
    <2> QED
      BY <2>1 DEF IInv, VendorIsShared, NamesVendor
  <1>3. Local(r)
    BY DEF IInv, Typed, Local
  <1> QED
    BY <1>1, <1>2, <1>3, LocalSuffices

\* The same for a step in the middle of a handler.
LEMMA HandlerStep ==
  ASSUME IInv, NEW r \in Requests, stage[r] = "running",
         UNCHANGED <<orders, vendorRequests, vendors, call>>, OwnUpdates(r),
         NEW s1 \in Stages, stage' = [stage EXCEPT ![r] = s1],
         NEW s2 \in Steps, step' = [step EXCEPT ![r] = s2],
         NEW v \in Anyone, vendorId' = [vendorId EXCEPT ![r] = v],
         NEW o \in Nat, orderId' = [orderId EXCEPT ![r] = o],
         RequestIsSound(r)'
  PROVE  IInv'
  <1>1. call[r] \in Calls /\ call' = [call EXCEPT ![r] = call[r]]
    BY DEF IInv, Typed
  <1> QED
    BY <1>1, QuietStep

\* A step that moves a handler on, and changes nothing else.
LEMMA Unmoved ==
  ASSUME Typed, NEW r \in Requests
  PROVE  /\ stage[r] \in Stages /\ step[r] \in Steps
         /\ vendorId[r] \in Anyone /\ orderId[r] \in Nat
         /\ stage = [stage EXCEPT ![r] = stage[r]] /\ step = [step EXCEPT ![r] = step[r]]
         /\ vendorId = [vendorId EXCEPT ![r] = vendorId[r]]
         /\ orderId = [orderId EXCEPT ![r] = orderId[r]]
  BY DEF Typed

\* Where no row is written, what was written by a request stays.
LEMMA RowsStay ==
  ASSUME NEW r, UNCHANGED <<orders, vendorRequests>>, call'[r] = call[r]
  PROVE  /\ OrdersOf(r)' = OrdersOf(r) /\ RequestsOf(r)' = RequestsOf(r)
         /\ Unwritten(r)' <=> Unwritten(r)
         /\ Sent(r)' <=> Sent(r)
         /\ BulkIsWhole(r)' <=> BulkIsWhole(r)
         /\ UNCHANGED <<vendors, updates>> => (Wrote(r)' <=> Wrote(r))
         /\ UNCHANGED vendors /\ vendorId'[r] = vendorId[r]
              => (MayOrder(r, vendorId[r])' <=> MayOrder(r, vendorId[r]))
         /\ orderId'[r] = orderId[r] /\ vendorId'[r] = vendorId[r] => (MaySend(r)' <=> MaySend(r))
         /\ orderId'[r] = orderId[r] => (HoldsOwn(r)' <=> HoldsOwn(r))
  BY DEF OrdersOf, RequestsOf, Unwritten, Sent, BulkIsWhole, HoldsOwn, Wrote, MayOrder, MaySend

LEMMA AdmitHolds ==
  ASSUME IInv, NEW r \in Requests, Request(r)
  PROVE  IInv'
  <1>1. PICK p \in Processes, c \in Calls : Admit(r, p, c)
    BY DEF Request
  <1>2. /\ stage[r] = "idle" /\ call' = [call EXCEPT ![r] = c]
        /\ UNCHANGED <<orders, vendorRequests, vendors, updates, step, vendorId, orderId>>
    BY <1>1 DEF Admit, Arrive, Request, serviceVars
  <1>3. PICK s1 \in {"conflict", "running"} : stage' = [stage EXCEPT ![r] = s1]
    BY <1>1 DEF Admit
  <1>4. ~Wrote(r) /\ step[r] = "start"
    BY <1>2 DEF IInv, RequestIsSound
  <1>5. /\ OrdersOf(r) = {} /\ OrdersOf(r)' = {} /\ RequestsOf(r)' = {}
        /\ Unwritten(r)' /\ ~Wrote(r)' /\ r \notin DOMAIN vendors'
    BY <1>2, <1>4 DEF Wrote, Unwritten, OrdersOf, RequestsOf
  <1>6. stage'[r] = s1 /\ step'[r] = "start"
    BY <1>2, <1>3, <1>4 DEF IInv, Typed
  <1>7. RequestIsSound(r)'
    BY <1>3, <1>5, <1>6 DEF RequestIsSound, RunningIsSound, BulkIsWhole
  <1>8. s1 \in Stages
    BY DEF Stages
  <1>9. OwnUpdates(r)
    BY <1>2 DEF OwnUpdates
  <1> QED
    BY <1>2, <1>3, <1>5, <1>7, <1>8, <1>9, Unmoved, QuietStep DEF IInv

LEMMA StartHolds ==
  ASSUME IInv, NEW r \in Requests, hasSeenIdempotencyKey(r)
  PROVE  IInv'
  <1>1. /\ stage[r] = "running" /\ step[r] = "start"
        /\ UNCHANGED <<stage, call, orders, vendorRequests, vendors, updates, orderId>>
        /\ vendorId' = [vendorId EXCEPT ![r] = call[r].vendor]
    BY DEF hasSeenIdempotencyKey, At, interceptorVars
  <1>2. PICK s2 \in {"seen", Work(r)} : step' = [step EXCEPT ![r] = s2]
    BY DEF hasSeenIdempotencyKey, Goto
  <1>3. call[r] \in Calls
    BY <1>1 DEF IInv, Typed
  <1>4. call[r].vendor \in Anyone
    BY <1>3, CallFacts
  <1>5. /\ Work(r) = "order" => NamesVendor(call[r])
        /\ Work(r) = "vendor" => ~NamesVendor(call[r])
    BY DEF Work
  <1>6. Work(r) \in {"update", "order", "vendor"} /\ s2 \in Steps
    BY DEF Work, Steps
  <1>7. RequestIsSound(r)'
    <2>1. Unwritten(r)'
      BY <1>1, RowsStay DEF IInv, RequestIsSound, RunningIsSound
    <2>2. OrdersOf(r)' = {} /\ RequestsOf(r)' = {}
      BY <2>1 DEF Unwritten
    <2>3. step'[r] = s2 /\ vendorId'[r] = call[r].vendor /\ stage'[r] = "running"
          /\ call'[r] = call[r]
      BY <1>1, <1>2 DEF IInv, Typed
    <2>4. RunningIsSound(r)'
      BY <1>5, <1>6, <2>1, <2>3 DEF RunningIsSound, MayOrder
    <2>5. r \in DOMAIN vendors' => vendors'[r] = call'[r].tenant
      BY <1>1 DEF IInv, RequestIsSound
    <2> QED
      BY <2>2, <2>3, <2>4, <2>5 DEF RequestIsSound, BulkIsWhole
  <1>8. OwnUpdates(r)
    BY <1>1 DEF OwnUpdates
  <1> QED
    BY <1>8, <1>1, <1>2, <1>4, <1>6, <1>7, Unmoved, HandlerStep DEF IInv

LEMMA FindExistingHolds ==
  ASSUME IInv, NEW r \in Requests, findExisting(r)
  PROVE  IInv'
  <1>1. /\ stage[r] = "running" /\ step[r] = "seen" /\ call[r].op = "create"
        /\ UNCHANGED <<call, orders, vendorRequests, vendors, updates, vendorId>>
        /\ OwnUpdates(r)
    BY DEF findExisting, At, Answer, interceptorVars, OwnUpdates
  <1>2. /\ Unwritten(r) /\ Unwritten(r)' /\ call'[r] = call[r]
        /\ RunningIsSound(r) /\ (r \in DOMAIN vendors' => vendors'[r] = call'[r].tenant)
    BY <1>1, RowsStay DEF IInv, RequestIsSound, RunningIsSound
  <1>3. OrdersOf(r)' = {} /\ RequestsOf(r)' = {}
    BY <1>2 DEF Unwritten
  <1>4. CASE /\ Goto(r, Work(r)) /\ UNCHANGED <<interceptorVars, orderId>>
    <2>1. /\ Work(r) \in {"update", "order", "vendor"} /\ Work(r) \in Steps
          /\ Work(r) = "order" => NamesVendor(call[r])
          /\ Work(r) = "vendor" => ~NamesVendor(call[r])
      BY DEF Work, Steps
    <2>2. step' = [step EXCEPT ![r] = Work(r)] /\ UNCHANGED <<stage, orderId>>
      BY <1>4 DEF Goto, interceptorVars
    <2>3. step'[r] = Work(r) /\ stage'[r] = "running"
      BY <1>1, <2>2 DEF IInv, Typed
    <2>4. RunningIsSound(r)'
      BY <1>1, <1>2, <2>1, <2>3 DEF RunningIsSound, MayOrder
    <2>5. RequestIsSound(r)'
      BY <1>1, <1>2, <1>3, <2>3, <2>4 DEF RequestIsSound
    <2> QED
      BY <1>1, <2>1, <2>2, <2>5, Unmoved, HandlerStep DEF IInv
  <1>5. ASSUME NEW i \in Existing(r), orderId' = [orderId EXCEPT ![r] = i],
               Answer(r), UNCHANGED step
        PROVE  IInv'
    <2>1. stage' = [stage EXCEPT ![r] = "answered"]
      BY <1>5 DEF Answer
    <2>2. stage'[r] = "answered" /\ orderId'[r] = i
      BY <1>5, <2>1 DEF IInv, Typed
    <2>3. HoldsOwn(r)'
      BY <1>1, <2>2 DEF HoldsOwn, Existing
    <2>4. RequestIsSound(r)'
      BY <1>1, <1>2, <1>3, <2>2, <2>3 DEF RequestIsSound
    <2>5. i \in Nat /\ "answered" \in Stages
      BY RowFacts DEF IInv, Existing, Stages
    <2> QED
      BY <1>1, <1>5, <2>1, <2>4, <2>5, Unmoved, HandlerStep DEF IInv
  <1> QED
    BY <1>4, <1>5 DEF findExisting

\* A request that ends where it is, answered, failed or recorded.
LEMMA EndHolds ==
  ASSUME IInv, NEW r \in Requests,
         NEW s1 \in {"answered", "failed", "recorded", "unrecorded"},
         stage' = [stage EXCEPT ![r] = s1],
         UNCHANGED <<call, orders, vendorRequests, vendors, updates, step, vendorId, orderId>>,
         \/ stage[r] = "running" /\ s1 = "failed"
         \/ stage[r] = "running" /\ s1 = "answered" /\ step[r] = "return"
         \/ stage[r] = "running" /\ s1 = "answered" /\ call[r].op # "create"
         \/ stage[r] = "answered" /\ s1 \in {"recorded", "unrecorded"}
  PROVE  IInv'
  <1>1. stage'[r] = s1 /\ call'[r] = call[r] /\ orderId'[r] = orderId[r] /\ call[r] \in Calls
    BY DEF IInv, Typed
  <1>2. /\ OrdersOf(r)' = OrdersOf(r) /\ RequestsOf(r)' = RequestsOf(r)
        /\ (Sent(r)' <=> Sent(r)) /\ (BulkIsWhole(r)' <=> BulkIsWhole(r))
        /\ (HoldsOwn(r)' <=> HoldsOwn(r))
    BY <1>1, RowsStay
  <1>3. RequestIsSound(r)'
    BY <1>1, <1>2 DEF IInv, RequestIsSound, RunningIsSound
  <1>4. s1 \in Stages /\ call = [call EXCEPT ![r] = call[r]] /\ OwnUpdates(r)
    BY DEF Stages, IInv, Typed, OwnUpdates
  <1> QED
    BY <1>1, <1>3, <1>4, Unmoved, QuietStep DEF IInv

LEMMA RepeatHolds ==
  ASSUME IInv, NEW r \in Requests, answerRepeat(r)
  PROVE  IInv'
  <1>1. /\ stage[r] = "running" /\ call[r].op \in {"bulk", "retry", "replay"}
        /\ UNCHANGED <<call, orders, vendorRequests, vendors, updates, step, vendorId, orderId>>
        /\ Throw(r) \/ Answer(r)
    BY DEF answerRepeat, At, serviceVars, Throw, Answer
  <1> QED
    BY <1>1, EndHolds DEF Throw, Answer

LEMMA FindVendorHolds ==
  ASSUME IInv, NEW r \in Requests, findVendor(r)
  PROVE  IInv'
  <1> DEFINE found == {v \in DOMAIN vendors : vendors[v] = call[r].tenant}
  <1>1. /\ stage[r] = "running" /\ step[r] = "vendor"
        /\ UNCHANGED <<stage, call, orders, vendorRequests, vendors, updates, orderId>>
        /\ OwnUpdates(r)
    BY DEF findVendor, At, interceptorVars, OwnUpdates
  <1>2. PICK s2 \in {"newVendor", "order"}, v \in found \cup {vendorId[r]} :
          /\ step' = [step EXCEPT ![r] = s2]
          /\ vendorId' = [vendorId EXCEPT ![r] = v]
          /\ s2 = "order" => v \in found
    <2>1. vendorId = [vendorId EXCEPT ![r] = vendorId[r]]
      BY Unmoved DEF IInv
    <2> QED
      BY <2>1 DEF findVendor, Goto
  <1>3. /\ Unwritten(r)' /\ call'[r] = call[r] /\ stage'[r] = "running"
        /\ ~NamesVendor(call[r]) /\ (r \in DOMAIN vendors' => vendors'[r] = call'[r].tenant)
    BY <1>1, RowsStay DEF IInv, RequestIsSound, RunningIsSound
  <1>4. step'[r] = s2 /\ vendorId'[r] = v
    BY <1>2 DEF IInv, Typed
  <1>5. RunningIsSound(r)'
    BY <1>1, <1>2, <1>3, <1>4 DEF RunningIsSound, MayOrder
  <1>6. RequestIsSound(r)'
    BY <1>3, <1>5 DEF RequestIsSound, Unwritten, BulkIsWhole
  <1>7. s2 \in Steps /\ v \in Anyone
    BY DEF Steps, Anyone, IInv, Typed
  <1> QED
    BY <1>1, <1>2, <1>6, <1>7, Unmoved, HandlerStep DEF IInv

LEMMA CreateVendorHolds ==
  ASSUME IInv, NEW r \in Requests, createVendor(r)
  PROVE  IInv'
  <1>1. /\ stage[r] = "running" /\ step[r] = "newVendor"
        /\ UNCHANGED <<call, orders, vendorRequests, updates, orderId>>
    BY DEF createVendor, At, interceptorVars, Throw
  <1>2. CASE Throw(r) /\ UNCHANGED <<vendors, vendorId, step>>
    BY <1>1, <1>2, EndHolds DEF Throw
  <1>3. CASE /\ \A v \in DOMAIN vendors : vendors[v] # call[r].tenant
             /\ NewVendor(r)
             /\ UNCHANGED interceptorVars
    <2>1. /\ stage' = stage /\ step' = [step EXCEPT ![r] = "order"]
          /\ vendorId' = [vendorId EXCEPT ![r] = r]
      BY <1>3 DEF NewVendor, Goto, interceptorVars
    <2>2. r \notin DOMAIN vendors
      BY <1>3 DEF IInv, RequestIsSound
    <2>3. /\ DOMAIN vendors' = DOMAIN vendors \cup {r} /\ vendors'[r] = call[r].tenant
          /\ \A v \in DOMAIN vendors : vendors'[v] = vendors[v]
      BY <1>3, <2>2 DEF NewVendor
    <2>4. Typed'
      <3>1. r \in Anyone /\ r \in VendorIds /\ "order" \in Steps
        BY DEF Anyone, VendorIds, Steps
      <3> QED
        BY <1>1, <2>1, <2>3, <3>1 DEF IInv, Typed
    <2>5. VendorIsShared'
      <3>1. \A v, w \in DOMAIN vendors' \cap Requests : vendors'[v] = vendors'[w] => v = w
        BY <1>3, <2>3 DEF IInv, VendorIsShared
      <3> QED
        BY <1>1, <2>3, <3>1 DEF IInv, VendorIsShared, NamesVendor
    <2>6. Local(r)
      BY <1>1, <2>1, <2>3 DEF IInv, Typed, Local, OwnUpdates
    <2>7. step'[r] = "order" /\ vendorId'[r] = r /\ stage'[r] = "running"
          /\ call'[r] = call[r]
      BY <1>1, <2>1 DEF IInv, Typed
    <2>8. Unwritten(r)' /\ ~NamesVendor(call[r])
      BY <1>1, <2>7, RowsStay DEF IInv, RequestIsSound, RunningIsSound
    <2>9. MayOrder(r, vendorId[r])'
      BY <2>3, <2>7, <2>8 DEF MayOrder
    <2>10. RunningIsSound(r)'
      BY <1>1, <2>7, <2>8, <2>9 DEF RunningIsSound
    <2>11. RequestIsSound(r)'
      BY <2>3, <2>7, <2>8, <2>10 DEF RequestIsSound, Unwritten, BulkIsWhole
    <2> QED
      BY <2>4, <2>5, <2>6, <2>11, LocalSuffices
  <1> QED
    BY <1>2, <1>3 DEF createVendor

LEMMA RetryHolds ==
  ASSUME IInv, NEW r \in Requests, retryOrder(r)
  PROVE  IInv'
  <1> DEFINE i == call[r].target
  <1>1. /\ stage[r] = "running" /\ step[r] = "update" /\ call[r].op = "retry"
        /\ UNCHANGED <<call, orders, vendorRequests, vendors>>
        /\ r \in DOMAIN vendors => vendors[r] = call[r].tenant
    BY DEF retryOrder, At, interceptorVars, Throw, IInv, RequestIsSound
  <1>2. CASE Throw(r) /\ UNCHANGED <<updates, step, vendorId, orderId>>
    BY <1>1, <1>2, EndHolds DEF Throw
  <1>3. CASE /\ i \in DOMAIN orders /\ orders[i].tenant = call[r].tenant
             /\ Update("orders", r)
             /\ orderId' = [orderId EXCEPT ![r] = i]
             /\ vendorId' = [vendorId EXCEPT ![r] = orders[i].vendor]
             /\ Goto(r, "request") /\ UNCHANGED interceptorVars
    <2>1. i \in Nat /\ orders[i].vendor \in Anyone /\ "request" \in Steps
      BY <1>3, RowFacts DEF IInv, Steps
    <2>2. stage' = stage /\ step' = [step EXCEPT ![r] = "request"]
      BY <1>3 DEF Goto, interceptorVars
    <2>3. /\ stage'[r] = "running" /\ step'[r] = "request" /\ call'[r] = call[r]
          /\ orderId'[r] = i /\ vendorId'[r] = orders[i].vendor /\ OwnUpdates(r)
      BY <1>1, <1>3, <2>2 DEF IInv, Typed, Update, OwnUpdates
    <2>4. OrdersOf(r)' = {}
      BY <1>1, <2>3, RowsStay DEF IInv, RequestIsSound
    <2>5. RequestIsSound(r)'
      BY <1>1, <1>3, <2>3, <2>4 DEF RequestIsSound, RunningIsSound, MaySend
    <2> QED
      BY <1>1, <1>3, <2>1, <2>2, <2>3, <2>5, Unmoved, HandlerStep DEF IInv
  <1> QED
    BY <1>2, <1>3 DEF retryOrder

LEMMA ReplayHolds ==
  ASSUME IInv, NEW r \in Requests, replayDlq(r)
  PROVE  IInv'
  <1>1. /\ stage[r] = "running" /\ step[r] = "update" /\ call[r].op = "replay"
        /\ UNCHANGED <<call, orders, vendorRequests, vendors, vendorId, orderId>>
        /\ r \in DOMAIN vendors => vendors[r] = call[r].tenant
    BY DEF replayDlq, At, interceptorVars, Throw, IInv, RequestIsSound
  <1>2. CASE Throw(r) /\ UNCHANGED <<updates, step>>
    BY <1>1, <1>2, EndHolds DEF Throw
  <1>3. CASE Update("dlq_entries", r) /\ Goto(r, "return") /\ UNCHANGED interceptorVars
    <2>1. stage' = stage /\ step' = [step EXCEPT ![r] = "return"] /\ "return" \in Steps
      BY <1>3 DEF Goto, interceptorVars, Steps
    <2>2. stage'[r] = "running" /\ step'[r] = "return" /\ call'[r] = call[r] /\ OwnUpdates(r)
      BY <1>1, <1>3, <2>1 DEF IInv, Typed, Update, OwnUpdates
    <2>3. OrdersOf(r)' = {}
      BY <1>1, <2>2, RowsStay DEF IInv, RequestIsSound
    <2>4. RequestIsSound(r)'
      BY <1>1, <2>2, <2>3 DEF RequestIsSound, RunningIsSound
    <2> QED
      BY <1>1, <2>1, <2>2, <2>4, Unmoved, HandlerStep DEF IInv
  <1> QED
    BY <1>2, <1>3 DEF replayDlq

LEMMA FinishHolds ==
  ASSUME IInv, NEW r \in Requests, finish(r)
  PROVE  IInv'
  <1>1. /\ stage[r] = "running" /\ step[r] = "return"
        /\ stage' = [stage EXCEPT ![r] = "answered"]
        /\ UNCHANGED <<call, orders, vendorRequests, vendors, updates, step, vendorId, orderId>>
    BY DEF finish, At, Answer
  <1> QED
    BY <1>1, EndHolds

-----------------------------------------------------------------------------
(* Steps that write orders and vendor requests *)

\* A row of a request about to order is that of its call, with a vendor it may have.
LEMMA RowIsOwn ==
  ASSUME IInv, NEW r \in Requests, stage[r] = "running", step[r] = "order",
         NEW loan \in Loans, NEW service \in Services
  PROVE  LET row == OrderRow(r, loan, service)
         IN  /\ row \in OrderRows
             /\ row.tenant = call[r].tenant /\ row.loan = loan /\ row.service = service
             /\ row.vendor = vendorId[r] /\ row.by = r
             /\ MayOrder(r, row.vendor)
  <1>1. call[r] \in Calls /\ vendorId[r] \in Anyone
    BY DEF IInv, Typed
  <1>2. call[r].tenant \in Tenants
    BY <1>1, CallFacts
  <1>3. MayOrder(r, vendorId[r])
    BY DEF IInv, RequestIsSound, RunningIsSound
  <1> QED
    BY <1>1, <1>2, <1>3 DEF OrderRow, OrderRows

\* What VendorIsShared says of one order.
VendorFits(o) ==
  /\ o.vendor \in DOMAIN vendors
  /\ IF NamesVendor(call[o.by]) THEN o.vendor = call[o.by].vendor
     ELSE vendors[o.vendor] = o.tenant

LEMMA FitsSuffice ==
  ASSUME VendorIsShared, UNCHANGED <<vendors, call, vendorRequests>>,
         \A i \in DOMAIN orders : i \in DOMAIN orders' /\ orders'[i] = orders[i],
         \A i \in DOMAIN orders' : VendorFits(orders'[i])
  PROVE  VendorIsShared'
  BY DEF VendorIsShared, VendorFits

LEMMA CreateOrderHolds ==
  ASSUME IInv, NEW r \in Requests, createOrder(r)
  PROVE  IInv' /\ Local(r)
  <1>0. CASE Throw(r) /\ UNCHANGED <<orders, orderId, step>>
    <2>1. /\ stage[r] = "running" /\ stage' = [stage EXCEPT ![r] = "failed"]
          /\ UNCHANGED <<call, orders, vendorRequests, vendors, updates, step, vendorId,
                         orderId>>
      BY <1>0 DEF createOrder, At, Throw
    <2>2. Local(r)
      BY <2>1 DEF IInv, Typed, Local, OwnUpdates
    <2> QED
      BY <2>1, <2>2, EndHolds
  <1> SUFFICES ASSUME ~(Throw(r) /\ UNCHANGED <<orders, orderId, step>>)
               PROVE  IInv' /\ Local(r)
    BY <1>0
  <1> DEFINE row == OrderRow(r, call[r].loans[1], call[r].service)
             t == Append(orders, row)
             n == Len(orders)
  <1>1. /\ stage[r] = "running" /\ step[r] = "order" /\ call[r].op = "create"
        /\ orders' = t /\ orderId' = [orderId EXCEPT ![r] = n + 1]
        /\ step' = [step EXCEPT ![r] = "request"]
        /\ UNCHANGED <<stage, call, vendorRequests, vendors, updates, vendorId>>
        /\ vendorId[r] \in DOMAIN vendors
    BY DEF createOrder, At, Goto, interceptorVars
  <1>2. call[r] \in Calls /\ call[r].loans[1] \in Loans /\ call[r].service \in Services
    BY <1>1, CallFacts DEF IInv, Typed
  <1>3. /\ row \in OrderRows
        /\ row.tenant = call[r].tenant /\ row.loan = call[r].loans[1]
        /\ row.service = call[r].service
        /\ row.vendor = vendorId[r] /\ row.by = r
        /\ MayOrder(r, row.vendor)
    BY <1>1, <1>2, RowIsOwn
  <1> HIDE DEF row
  <1>4. orders \in Seq(OrderRows)
    BY DEF IInv, Typed
  <1>5. /\ t \in Seq(OrderRows) /\ n \in Nat
        /\ DOMAIN orders = 1..n /\ DOMAIN t = 1..(n + 1)
        /\ t[n + 1] = row /\ \A i \in 1..n : t[i] = orders[i]
    BY <1>3, <1>4, AppendProperties, LenProperties
  <1> HIDE DEF t, n
  <1>6. Typed'
    BY <1>1, <1>5 DEF IInv, Typed, Steps
  <1>7. VendorIsShared'
    <2>1. \A i \in 1..n : VendorFits(orders[i])
      BY <1>5 DEF IInv, VendorIsShared, VendorFits
    <2>2. VendorFits(row)
      BY <1>1, <1>3 DEF VendorFits, MayOrder
    <2>3. \A i \in DOMAIN orders' : VendorFits(orders'[i])
      BY <1>1, <1>5, <2>1, <2>2
    <2>4. \A i \in DOMAIN orders : i \in DOMAIN orders' /\ orders'[i] = orders[i]
      BY <1>1, <1>5
    <2> QED
      BY <1>1, <2>3, <2>4, FitsSuffice DEF IInv
  <1>8. Local(r)
    BY <1>1, <1>3, <1>5 DEF IInv, Typed, Local, OwnUpdates
  <1>9. stage'[r] = "running" /\ step'[r] = "request" /\ orderId'[r] = n + 1
        /\ call'[r] = call[r] /\ vendorId'[r] = vendorId[r]
    BY <1>1 DEF IInv, Typed
  <1>10. OrdersOf(r) = {} /\ RequestsOf(r) = {}
    BY <1>1 DEF IInv, RequestIsSound, RunningIsSound, Unwritten
  <1>11. OrdersOf(r)' = {n + 1} /\ RequestsOf(r)' = {}
    BY <1>1, <1>3, <1>5, <1>10 DEF OrdersOf, RequestsOf
  <1>12. HoldsOwn(r)' /\ MaySend(r)'
    BY <1>1, <1>3, <1>5, <1>9 DEF HoldsOwn, MaySend
  <1>13. RunningIsSound(r)'
    BY <1>1, <1>9, <1>11, <1>12 DEF RunningIsSound
  <1>14. RequestIsSound(r)'
    BY <1>1, <1>9, <1>13 DEF IInv, RequestIsSound
  <1> QED
    BY <1>6, <1>7, <1>8, <1>14, LocalSuffices

LEMMA BulkCreateHolds ==
  ASSUME IInv, NEW r \in Requests, bulkCreate(r)
  PROVE  IInv' /\ Local(r)
  <1> DEFINE m == Len(call[r].loans)
             n == Len(orders)
             new == [i \in DOMAIN call[r].loans |-> OrderRow(r, call[r].loans[i], FLOOD)]
             t == orders \o new
  <1>1. /\ stage[r] = "running" /\ step[r] = "order" /\ call[r].op = "bulk"
        /\ orders' = t
        /\ step' = [step EXCEPT ![r] = "return"]
        /\ UNCHANGED <<stage, call, vendorRequests, vendors, updates, vendorId, orderId>>
    BY DEF bulkCreate, At, Goto, interceptorVars
  <1>2. call[r] \in Calls
    BY <1>1 DEF IInv, Typed
  <1>3. /\ m \in Nat /\ DOMAIN call[r].loans = 1..m
        /\ \A i \in 1..m : call[r].loans[i] \in Loans
    BY <1>2, CallFacts, LenProperties
  <1>4. \A i \in 1..m : /\ new[i] \in OrderRows /\ new[i].by = r
                        /\ VendorFits(new[i])
    <2>1. \A i \in 1..m : /\ new[i] \in OrderRows /\ new[i].by = r
                          /\ new[i].tenant = call[r].tenant /\ MayOrder(r, new[i].vendor)
      BY <1>1, <1>3, RowIsOwn, OrdersAssumption
    <2> HIDE DEF new
    <2>2. ~NamesVendor(call[r])
      BY <1>1 DEF NamesVendor
    <2> QED
      BY <2>1, <2>2 DEF VendorFits, MayOrder
  <1>5. new \in Seq(OrderRows) /\ Len(new) = m
    <2>1. DOMAIN new = 1..m
      BY <1>3
    <2>2. new = [i \in 1..m |-> new[i]]
      BY <2>1
    <2> HIDE DEF new, m
    <2>3. new \in [1..m -> OrderRows]
      BY <1>4, <2>2
    <2>4. new \in Seq(OrderRows)
      BY <1>3, <2>3
    <2>5. Len(new) = m
      BY <1>3, <2>1, <2>4, LenProperties
    <2> QED
      BY <2>4, <2>5
  <1> HIDE DEF new, m
  <1>6. orders \in Seq(OrderRows)
    BY DEF IInv, Typed
  <1>7. /\ t \in Seq(OrderRows) /\ n \in Nat /\ Len(t) = n + m
        /\ DOMAIN orders = 1..n
        /\ \A i \in 1..(n + m) : t[i] = IF i <= n THEN orders[i] ELSE new[i - n]
    BY <1>5, <1>6, ConcatProperties, LenProperties
  <1>8. DOMAIN t = 1..(n + m)
    BY <1>7, LenProperties
  <1> HIDE DEF t, n
  <1>9. /\ \A i \in 1..n : i \in DOMAIN t /\ t[i] = orders[i]
        /\ \A i \in (n + 1)..(n + m) :
             t[i].by = r /\ VendorFits(t[i])
    <2>1. ASSUME NEW i \in (n + 1)..(n + m) PROVE i - n \in 1..m /\ t[i] = new[i - n]
      BY <1>3, <1>7
    <2> QED
      BY <1>3, <1>4, <1>7, <1>8, <2>1
  <1>10. \A i \in DOMAIN t : i \in 1..n \/ i \in (n + 1)..(n + m)
    BY <1>3, <1>7, <1>8
  <1>11. Typed'
    BY <1>1, <1>7 DEF IInv, Typed, Steps
  <1>12. VendorIsShared'
    <2>1. \A i \in 1..n : VendorFits(orders[i])
      BY <1>7 DEF IInv, VendorIsShared, VendorFits
    <2>2. \A i \in DOMAIN orders' : VendorFits(orders'[i])
      BY <1>1, <1>9, <1>10, <2>1
    <2>3. \A i \in DOMAIN orders : i \in DOMAIN orders' /\ orders'[i] = orders[i]
      BY <1>1, <1>7, <1>9
    <2> QED
      BY <1>1, <2>2, <2>3, FitsSuffice DEF IInv
  <1>13. Local(r)
    <2>1. \A i \in DOMAIN t \ DOMAIN orders : t[i].by = r
      BY <1>7, <1>9, <1>10
    <2> QED
      BY <1>1, <1>7, <1>9, <2>1 DEF IInv, Typed, Local, OwnUpdates
  <1>14. /\ stage'[r] = "running" /\ step'[r] = "return"
         /\ call'[r] = call[r] /\ Len(call[r].loans) = m
    BY <1>1 DEF IInv, Typed, m
  <1>15. OrdersOf(r) = {} /\ RequestsOf(r) = {}
    BY <1>1 DEF IInv, RequestIsSound, RunningIsSound, Unwritten
  <1>16. OrdersOf(r)' = (n + 1)..(n + m) /\ RequestsOf(r)' = {}
    <2>1. \A i \in 1..n : t[i].by # r
      BY <1>7, <1>9, <1>15 DEF OrdersOf
    <2>2. \A i \in (n + 1)..(n + m) : i \in DOMAIN t
      BY <1>7, <1>8
    <2>3. OrdersOf(r)' = {i \in DOMAIN t : t[i].by = r}
      BY <1>1 DEF OrdersOf
    <2> QED
      BY <1>1, <1>9, <1>10, <1>15, <2>1, <2>2, <2>3 DEF RequestsOf
  <1>17. BulkIsWhole(r)'
    BY <1>7, <1>14, <1>16 DEF BulkIsWhole
  <1>18. RequestIsSound(r)'
    BY <1>1, <1>14, <1>16, <1>17 DEF IInv, RequestIsSound, RunningIsSound
  <1> QED
    BY <1>11, <1>12, <1>13, <1>18, LocalSuffices

LEMMA CreateRequestHolds ==
  ASSUME IInv, NEW r \in Requests, createVendorRequest(r)
  PROVE  IInv' /\ Local(r)
  <1> DEFINE row == RequestRow(r)
             t == Append(vendorRequests, row)
             n == Len(vendorRequests)
  <1>1. /\ stage[r] = "running" /\ step[r] = "request" /\ call[r].op \in {"create", "retry"}
        /\ vendorRequests' = t /\ step' = [step EXCEPT ![r] = "return"]
        /\ UNCHANGED <<stage, call, orders, vendors, updates, vendorId, orderId>>
    BY DEF createVendorRequest, At, Goto, interceptorVars
  <1>2. /\ row \in RequestRows
        /\ row.order = orderId[r] /\ row.vendor = vendorId[r] /\ row.by = r
        /\ row.tenant = call[r].tenant
    <2>1. call[r] \in Calls /\ orderId[r] \in Nat /\ vendorId[r] \in Anyone
      BY <1>1 DEF IInv, Typed
    <2>2. call[r].tenant \in Tenants
      BY <2>1, CallFacts
    <2> QED
      BY <2>1, <2>2 DEF RequestRow, RequestRows
  <1> HIDE DEF row
  <1>3. vendorRequests \in Seq(RequestRows)
    BY DEF IInv, Typed
  <1>4. /\ t \in Seq(RequestRows) /\ n \in Nat
        /\ DOMAIN vendorRequests = 1..n /\ DOMAIN t = 1..(n + 1)
        /\ t[n + 1] = row /\ \A i \in 1..n : t[i] = vendorRequests[i]
    BY <1>2, <1>3, AppendProperties, LenProperties
  <1> HIDE DEF t, n
  <1>5. Typed'
    BY <1>1, <1>4 DEF IInv, Typed, Steps
  <1>6. VendorIsShared'
    <2>1. MaySend(r)
      BY <1>1 DEF IInv, RequestIsSound, RunningIsSound
    <2>2. ASSUME NEW q \in DOMAIN t
          PROVE  /\ t[q].order \in DOMAIN orders
                 /\ t[q].tenant = orders[t[q].order].tenant
                 /\ t[q].vendor = orders[t[q].order].vendor
      <3>1. CASE q \in 1..n
        BY <1>4, <3>1 DEF IInv, VendorIsShared
      <3>2. CASE q = n + 1
        BY <1>2, <1>4, <2>1, <3>2 DEF MaySend
      <3> QED
        BY <1>4, <3>1, <3>2
    <2> QED
      BY <1>1, <2>2 DEF IInv, VendorIsShared
  <1>7. Local(r)
    BY <1>1, <1>2, <1>4 DEF IInv, Typed, Local, OwnUpdates
  <1>8. /\ stage'[r] = "running" /\ step'[r] = "return" /\ orderId'[r] = orderId[r]
        /\ call'[r] = call[r] /\ OrdersOf(r)' = OrdersOf(r)
    BY <1>1 DEF IInv, Typed, OrdersOf
  <1>9. CASE call[r].op = "create"
    <2>1. /\ OrdersOf(r) = {orderId[r]} /\ RequestsOf(r) = {} /\ HoldsOwn(r)
          /\ vendorId[r] = orders[orderId[r]].vendor
      BY <1>1, <1>9 DEF IInv, RequestIsSound, RunningIsSound, MaySend
    <2>2. RequestsOf(r)' = {n + 1}
      BY <1>1, <1>2, <1>4, <2>1 DEF RequestsOf
    <2>3. HoldsOwn(r)'
      BY <1>1, <1>8, <2>1 DEF HoldsOwn
    <2>4. orderId[r] \in DOMAIN orders' /\ n + 1 \in DOMAIN vendorRequests'
      BY <1>1, <1>4, <2>1 DEF HoldsOwn
    <2>5. /\ vendorRequests'[n + 1].order = orderId[r]
          /\ vendorRequests'[n + 1].vendor = orders'[orderId[r]].vendor
      BY <1>1, <1>2, <1>4, <2>1
    <2>6. Sent(r)'
      BY <1>8, <2>1, <2>2, <2>4, <2>5 DEF Sent
    <2> QED
      BY <1>1, <1>5, <1>6, <1>7, <1>8, <1>9, <2>3, <2>6, LocalSuffices
         DEF IInv, RequestIsSound, RunningIsSound
  <1>10. CASE call[r].op = "retry"
    <2>1. OrdersOf(r)' = {}
      BY <1>1, <1>8, <1>10 DEF IInv, RequestIsSound
    <2> QED
      BY <1>1, <1>5, <1>6, <1>7, <1>8, <1>10, <2>1, LocalSuffices
         DEF IInv, RequestIsSound, RunningIsSound
  <1> QED
    BY <1>1, <1>9, <1>10

-----------------------------------------------------------------------------
(* The whole *)

LEMMA HandlerHolds ==
  ASSUME IInv, NEW r \in Requests, Handler(r)
  PROVE  IInv'
  BY StartHolds, FindExistingHolds, RepeatHolds, FindVendorHolds, CreateVendorHolds,
     CreateOrderHolds, BulkCreateHolds, RetryHolds, CreateRequestHolds, ReplayHolds,
     FinishHolds DEF Handler

LEMMA RecordHolds ==
  ASSUME IInv, NEW r \in Requests, Record(r) \/ Reject(r)
  PROVE  IInv'
  <1>1. CASE Record(r)
    BY <1>1, EndHolds DEF Record, Complete, serviceVars
  <1>2. CASE Reject(r)
    BY <1>2, EndHolds DEF Reject, Throw
  <1> QED
    BY <1>1, <1>2

LEMMA UnchangedHolds ==
  ASSUME IInv,
         UNCHANGED <<stage, call, step, orders, vendorRequests, vendors, updates, vendorId,
                     orderId>>
  PROVE  IInv'
  <1>1. Typed' /\ VendorIsShared'
    BY DEF IInv, Typed, VendorIsShared
  <1>2. ASSUME NEW r \in Requests PROVE RequestIsSound(r)'
    <2>1. RequestIsSound(r)
      BY DEF IInv
    <2> QED
      BY <2>1, RowsStay DEF RequestIsSound, RunningIsSound
  <1> QED
    BY <1>1, <1>2 DEF IInv

\* A process that stops ends all its requests where they are.
LEMMA CrashHolds ==
  ASSUME IInv, NEW p, Crash(p)
  PROVE  IInv'
  <1>1. UNCHANGED <<call, step, orders, vendorRequests, vendors, updates, vendorId, orderId>>
    BY DEF Crash, Stop, Forget
  <1>2. /\ stage' \in [Requests -> Stages]
        /\ \A r \in Requests :
             \/ stage'[r] = stage[r]
             \/ stage[r] = "running" /\ stage'[r] = "failed"
             \/ stage[r] = "answered" /\ stage'[r] = "unrecorded"
    <2> DEFINE after(r) ==
          IF process[r] # p THEN stage[r]
          ELSE CASE stage[r] = "running" -> "failed"
                 [] stage[r] = "answered" -> "unrecorded"
                 [] OTHER -> stage[r]
    <2>1. stage' = [r \in Requests |-> after(r)]
      BY DEF Crash, Stop
    <2>2. \A r \in Requests :
            \/ after(r) = stage[r]
            \/ stage[r] = "running" /\ after(r) = "failed"
            \/ stage[r] = "answered" /\ after(r) = "unrecorded"
      OBVIOUS
    <2>3. \A r \in Requests : after(r) \in Stages
      BY DEF IInv, Typed, Stages
    <2> HIDE DEF after
    <2> QED
      BY <2>1, <2>2, <2>3
  <1>3. Typed' /\ VendorIsShared'
    BY <1>1, <1>2 DEF IInv, Typed, VendorIsShared
  <1>4. ASSUME NEW r \in Requests PROVE RequestIsSound(r)'
    <2>1. RequestIsSound(r) /\ call[r] = call'[r] /\ orderId'[r] = orderId[r]
      BY <1>1 DEF IInv
    <2>2. /\ OrdersOf(r)' = OrdersOf(r) /\ RequestsOf(r)' = RequestsOf(r)
          /\ (Unwritten(r)' <=> Unwritten(r)) /\ (Sent(r)' <=> Sent(r))
          /\ (BulkIsWhole(r)' <=> BulkIsWhole(r)) /\ (HoldsOwn(r)' <=> HoldsOwn(r))
          /\ (Wrote(r)' <=> Wrote(r)) /\ (MaySend(r)' <=> MaySend(r))
          /\ (MayOrder(r, vendorId[r])' <=> MayOrder(r, vendorId[r]))
      BY <1>1, <2>1, RowsStay
    <2>3. RunningIsSound(r)' <=> RunningIsSound(r)
      BY <1>1, <2>1, <2>2 DEF RunningIsSound
    <2> QED
      BY <1>1, <1>2, <2>1, <2>2, <2>3 DEF RequestIsSound
  <1> QED
    BY <1>3, <1>4 DEF IInv

LEMMA InitHolds == Init => IInv
  <1> SUFFICES ASSUME Init PROVE IInv
    OBVIOUS
  <1>1. /\ orders = <<>> /\ vendorRequests = <<>> /\ vendors = VendorTenant
        /\ updates = {}
        /\ stage = [r \in Requests |-> "idle"] /\ step = [r \in Requests |-> "start"]
        /\ call = [r \in Requests |-> NoCall]
        /\ vendorId = [r \in Requests |-> NoVendor] /\ orderId = [r \in Requests |-> 0]
    BY DEF Init, RecordInit
  <1>2. Typed
    BY <1>1 DEF Typed, Stages, Steps, Anyone, VendorIds
  <1>3. VendorIsShared
    BY <1>1, OrdersAssumption DEF VendorIsShared
  <1>4. \A r \in Requests : RequestIsSound(r)
    BY <1>1, OrdersAssumption DEF RequestIsSound, Wrote, OrdersOf, RequestsOf
  <1> QED
    BY <1>2, <1>3, <1>4 DEF IInv

LEMMA StepHolds == IInv /\ [Next]_vars => IInv'
  <1> SUFFICES ASSUME IInv, [Next]_vars PROVE IInv'
    OBVIOUS
  <1>1. ASSUME NEW r \in Requests, Request(r) \/ Handler(r) \/ Record(r) \/ Reject(r)
        PROVE  IInv'
    BY <1>1, AdmitHolds, HandlerHolds, RecordHolds
  <1>2. ASSUME NEW p \in Processes, Expire(p)
        PROVE  IInv'
    BY <1>2, UnchangedHolds DEF Expire, Forget, interceptorVars
  <1>3. ASSUME NEW p \in Processes, Crash(p)
        PROVE  IInv'
    BY <1>3, CrashHolds
  <1>4. CASE Quiescent \/ UNCHANGED vars
    BY <1>4, UnchangedHolds DEF Quiescent, vars, interceptorVars, serviceVars
  <1> QED
    BY <1>1, <1>2, <1>3, <1>4 DEF Next

LEMMA Invariance == Spec => []IInv
  BY InitHolds, StepHolds, PTL DEF Spec

\* A tenant has one default vendor however its first orders race; an order has the
\* vendor its caller named, of whatever tenant, or else one of its own tenant; and what
\* is sent of an order has its tenant and vendor (OrdersService.ensureDefaultVendor,
\* createOrder, bulkCreate, retryOrder).
THEOREM VendorShared == Spec => []VendorIsShared
  <1>1. IInv => VendorIsShared
    BY DEF IInv
  <1> QED
    BY <1>1, Invariance, PTL

\* The order that a caller of createOrder is told is one of its tenant, loan and
\* service, whether it was made for it or found for a repeat (OrdersService.createOrder).
THEOREM AnswerOwn == Spec => []AnswerIsOwn
  <1>1. IInv => AnswerIsOwn
    BY DEF IInv, RequestIsSound, HoldsOwn, AnswerIsOwn
  <1> QED
    BY <1>1, Invariance, PTL

\* Unless a handler was cut short, an order made alone has one request to its vendor;
\* orders made in bulk are one for each loan, or none (OrdersService, bulkCreate).
THEOREM OrdersWhole == Spec => []OrdersAreWhole
  <1>1. IInv => OrdersAreWhole
    <2> SUFFICES ASSUME IInv, NEW r \in Requests, OrdersOf(r) # {}
                 PROVE  IF call[r].op = "bulk"
                        THEN /\ Cardinality(OrdersOf(r)) = Len(call[r].loans)
                             /\ RequestsOf(r) = {}
                        ELSE \/ stage[r] = "failed" \/ At(r, {"create"}, "request")
                             \/ /\ Cardinality(OrdersOf(r)) = 1
                                /\ Cardinality(RequestsOf(r)) = 1
                                /\ \A i \in RequestsOf(r) :
                                     LET q == vendorRequests[i]
                                     IN  /\ q.order \in OrdersOf(r)
                                         /\ q.vendor = orders[q.order].vendor
      BY DEF OrdersAreWhole
    <2>1. RequestIsSound(r) /\ stage[r] \in Stages
      BY DEF IInv, Typed
    <2>2. stage[r] \notin {"idle", "conflict"}
      BY <2>1 DEF RequestIsSound, Wrote
    <2>3. call[r] \in Calls
      BY <2>2 DEF IInv, Typed
    <2>4. call[r].op \in {"create", "bulk"}
      BY <2>1, <2>2, <2>3, CallFacts DEF RequestIsSound
    <2>5. CASE call[r].op = "bulk"
      <3>1. RequestsOf(r) = {} /\ BulkIsWhole(r) /\ Len(call[r].loans) \in Nat
        BY <2>1, <2>2, <2>3, <2>5, CallFacts DEF RequestIsSound
      <3>2. PICK n \in Nat : OrdersOf(r) = (n + 1)..(n + Len(call[r].loans))
        BY <3>1 DEF BulkIsWhole
      <3>3. n + 1 <= n + Len(call[r].loans)
        BY <3>1, <3>2
      <3>4. Cardinality(OrdersOf(r)) = (n + Len(call[r].loans)) - (n + 1) + 1
        BY <3>1, <3>2, <3>3, FS_Interval
      <3> QED
        BY <2>5, <3>1, <3>4
    <2>6. CASE call[r].op = "create" /\ stage[r] # "failed" /\ ~At(r, {"create"}, "request")
      <3>1. Sent(r)
        BY <2>1, <2>2, <2>6 DEF RequestIsSound, RunningIsSound, Unwritten, At, Stages
      <3>2. PICK i \in DOMAIN orders, q \in DOMAIN vendorRequests :
              /\ OrdersOf(r) = {i} /\ RequestsOf(r) = {q}
              /\ vendorRequests[q].order = i /\ vendorRequests[q].vendor = orders[i].vendor
        BY <3>1 DEF Sent
      <3>3. Cardinality(OrdersOf(r)) = 1 /\ Cardinality(RequestsOf(r)) = 1
        BY <3>2, FS_Singleton
      <3> QED
        BY <2>6, <3>2, <3>3
    <2> QED
      BY <2>4, <2>5, <2>6
  <1> QED
    BY <1>1, Invariance, PTL

-----------------------------------------------------------------------------
(* Repeats.  A process knows the keys of the requests it has answered, and *)
(* what was answered stays so; so a repeat finds its key, and the answer   *)
(* of the first call with it.                                              *)

Repeats(r) ==
  \E s \in past[r].answered :
    call[r] = call[s] /\ process[r] = process[s] /\ process[r] \notin lapsed

KnowsKey(r) == process[r] \in lapsed \/ call[r].key \in cache[process[r]]

MemoryTyped ==
  /\ process \in [Requests -> Nat] /\ cache \in [Processes -> SUBSET Keys]
  /\ past \in [Requests -> [answered : SUBSET Requests, recorded : SUBSET Requests]]

Remembers(r) ==
  /\ past[r].answered \subseteq Answered
  /\ stage[r] # "idle" => process[r] \in Processes
  /\ r \in Answered \/ (stage[r] = "running" /\ step[r] = "seen") => KnowsKey(r)
  /\ stage[r] # "idle" /\ Repeats(r) =>
       /\ ~Wrote(r)
       /\ stage[r] = "running" => step[r] \in {"start", "seen"}

Memory == MemoryTyped /\ \A r \in Requests : Remembers(r)

\* What every step keeps of the requests that were answered, and of the keys.
MemoryKept ==
  /\ \A s \in Answered : s \in Answered' /\ call'[s] = call[s] /\ process'[s] = process[s]
  /\ lapsed \subseteq lapsed'
  /\ \A p \in Processes : p \in lapsed' \/ cache[p] \subseteq cache'[p]

\* A request that a step leaves where it is, or ends without an answer.
Steady(t) ==
  /\ call'[t] = call[t] /\ process'[t] = process[t] /\ past'[t] = past[t]
  /\ Wrote(t)' <=> Wrote(t)
  /\ t \in Answered' => t \in Answered
  /\ stage'[t] # "idle" => stage[t] # "idle"
  /\ stage'[t] = "running" => stage[t] = "running" /\ step'[t] = step[t]

LEMMA SteadyRemembers ==
  ASSUME MemoryKept, NEW t \in Requests, Remembers(t), Steady(t)
  PROVE  Remembers(t)'
  <1>1. /\ call'[t] = call[t] /\ process'[t] = process[t] /\ past'[t] = past[t]
        /\ past[t].answered \subseteq Answered
    BY DEF Steady, Remembers
  <1>2. past'[t].answered \subseteq Answered'
    BY <1>1 DEF MemoryKept
  <1>3. stage[t] # "idle" /\ KnowsKey(t) => KnowsKey(t)'
    BY <1>1 DEF KnowsKey, MemoryKept, Remembers
  <1>4. Repeats(t)' => Repeats(t)
    BY <1>1 DEF Repeats, MemoryKept
  <1>5. Wrote(t)' <=> Wrote(t)
    BY DEF Steady
  <1>6. t \in Answered => stage[t] # "idle"
    BY DEF Answered
  <1>7. stage'[t] # "idle" => process'[t] \in Processes
    BY <1>1 DEF Remembers, Steady
  <1>8. t \in Answered' \/ (stage'[t] = "running" /\ step'[t] = "seen") => KnowsKey(t)'
    BY <1>3, <1>6 DEF Remembers, Steady
  <1>9. stage'[t] # "idle" /\ Repeats(t)' =>
          /\ ~Wrote(t)'
          /\ stage'[t] = "running" => step'[t] \in {"start", "seen"}
    BY <1>4, <1>5 DEF Remembers, Steady
  <1> QED
    BY <1>2, <1>7, <1>8, <1>9 DEF Remembers, Processes

\* Handlers write rows of their own request only.
LEMMA OthersRows ==
  ASSUME IInv, NEW r \in Requests, Handler(r), NEW t \in Requests, t # r
  PROVE  Wrote(t)' <=> Wrote(t)
  <1>1. /\ DOMAIN vendors \subseteq DOMAIN vendors'
        /\ DOMAIN vendors' \subseteq DOMAIN vendors \cup {r}
        /\ OwnUpdates(r)
    BY DEF Handler, hasSeenIdempotencyKey, findExisting, answerRepeat, findVendor,
         createVendor, NewVendor, createOrder, bulkCreate, retryOrder, createVendorRequest,
         replayDlq, finish, serviceVars, Update, OwnUpdates
  <1>2. OrdersOf(t)' = OrdersOf(t) /\ RequestsOf(t)' = RequestsOf(t)
    <2>1. ASSUME createOrder(r) \/ bulkCreate(r) \/ createVendorRequest(r) PROVE Local(r)
      BY <2>1, CreateOrderHolds, BulkCreateHolds, CreateRequestHolds
    <2>2. Local(r) \/ UNCHANGED <<orders, vendorRequests>>
      BY <2>1 DEF Handler, hasSeenIdempotencyKey, findExisting, answerRepeat, findVendor,
           createVendor, retryOrder, replayDlq, finish, serviceVars
    <2>3. CASE Local(r)
      BY <2>3 DEF Local, OrdersOf, RequestsOf
    <2>4. CASE UNCHANGED <<orders, vendorRequests>>
      BY <2>4 DEF OrdersOf, RequestsOf
    <2> QED
      BY <2>2, <2>3, <2>4
  <1> QED
    BY <1>1, <1>2 DEF Wrote, OwnUpdates

\* What a handler does to the history and to what its process remembers.
LEMMA HandlerKeeps ==
  ASSUME IInv, Memory, NEW r \in Requests, Handler(r)
  PROVE  /\ stage[r] = "running" /\ UNCHANGED <<call, process, past, lapsed>>
         /\ stage' \in [Requests -> Stages] /\ step' \in [Requests -> Steps]
         /\ \A t \in Requests \ {r} : stage'[t] = stage[t] /\ step'[t] = step[t]
         /\ MemoryTyped' /\ MemoryKept
  <1>1. /\ stage[r] = "running" /\ UNCHANGED <<call, process, past, lapsed>>
        /\ \/ UNCHANGED stage
           \/ \E s1 \in {"answered", "failed"} : stage' = [stage EXCEPT ![r] = s1]
        /\ \/ UNCHANGED step
           \/ \E s2 : step' = [step EXCEPT ![r] = s2]
    BY DEF Handler, hasSeenIdempotencyKey, findExisting, answerRepeat, findVendor,
         createVendor, createOrder, bulkCreate, createVendorRequest, retryOrder, replayDlq,
         finish, NewVendor, At, Goto, Answer, Throw, interceptorVars, serviceVars, history
  <1>2. \/ UNCHANGED cache
        \/ cache' = [cache EXCEPT ![process[r]] = @ \cup {call[r].key}]
    BY DEF Handler, hasSeenIdempotencyKey, findExisting, answerRepeat, findVendor,
         createVendor, createOrder, bulkCreate, createVendorRequest, retryOrder, replayDlq,
         finish, serviceVars
  <1>3. /\ stage' \in [Requests -> Stages] /\ step' \in [Requests -> Steps]
    BY HandlerHolds DEF IInv, Typed
  <1>4. \A t \in Requests \ {r} : stage'[t] = stage[t] /\ step'[t] = step[t]
    BY <1>1 DEF IInv, Typed
  <1>5. call[r] \in Calls /\ call[r].key \in Keys
    BY <1>1, OrdersAssumption DEF IInv, Typed, Call
  <1>6. MemoryTyped' /\ \A p \in Processes : cache[p] \subseteq cache'[p]
    <2>1. CASE UNCHANGED cache
      BY <1>1, <2>1 DEF Memory, MemoryTyped
    <2>2. CASE cache' = [cache EXCEPT ![process[r]] = @ \cup {call[r].key}]
      BY <1>1, <1>5, <2>2 DEF Memory, MemoryTyped
    <2> QED
      BY <1>2, <2>1, <2>2
  <1>7. Answered \subseteq Answered'
    BY <1>1, <1>4 DEF Answered
  <1> QED
    BY <1>1, <1>3, <1>4, <1>6, <1>7 DEF MemoryKept

\* The first call with the key of a repeat was answered, so its order is there.
LEMMA RepeatFinds ==
  ASSUME IInv, Memory, NEW r \in Requests, stage[r] = "running", Repeats(r)
  PROVE  /\ call[r].key \in cache[process[r]]
         /\ call[r].op = "create" => Existing(r) # {}
  <1>1. PICK s \in past[r].answered :
          call[r] = call[s] /\ process[r] = process[s] /\ process[r] \notin lapsed
    BY DEF Repeats
  <1>2. s \in Requests /\ s \in Answered
    BY <1>1 DEF Memory, Remembers, Answered
  <1>3. call[r].key \in cache[process[r]]
    BY <1>1, <1>2 DEF Memory, Remembers, KnowsKey
  <1>4. call[r].op = "create" => HoldsOwn(s)
    BY <1>1, <1>2 DEF IInv, RequestIsSound, Answered
  <1>5. HoldsOwn(s) => orderId[s] \in Existing(r)
    BY <1>1 DEF HoldsOwn, Existing
  <1> QED
    BY <1>3, <1>4, <1>5

LEMMA HandlerRemembers ==
  ASSUME IInv, Memory, NEW r \in Requests, Handler(r)
  PROVE  Memory'
  <1>1. /\ stage[r] = "running" /\ UNCHANGED <<call, process, past, lapsed>>
        /\ stage' \in [Requests -> Stages] /\ step' \in [Requests -> Steps]
        /\ \A t \in Requests \ {r} : stage'[t] = stage[t] /\ step'[t] = step[t]
        /\ MemoryTyped' /\ MemoryKept
    BY HandlerKeeps
  <1>2. ASSUME NEW t \in Requests \ {r} PROVE Remembers(t)'
    BY <1>1, OthersRows, SteadyRemembers DEF Steady, Memory, Answered
  <1>3. past'[r].answered \subseteq Answered' /\ process'[r] \in Processes
    BY <1>1 DEF Memory, Remembers, MemoryKept
  <1>4. Repeats(r)' => Repeats(r)
    <2>1. \A s \in past[r].answered : call'[s] = call[s] /\ process'[s] = process[s]
      BY <1>1
    <2> QED
      BY <1>1, <2>1 DEF Repeats
  <1>5. KnowsKey(r) => KnowsKey(r)'
    BY <1>1, <1>3 DEF KnowsKey, MemoryKept
  <1>6. step[r] = "seen" => KnowsKey(r)
    BY <1>1 DEF Memory, Remembers
  <1>7. r \in Answered' \/ (stage'[r] = "running" /\ step'[r] = "seen") => KnowsKey(r)'
    <2>1. CASE hasSeenIdempotencyKey(r)
      <3>1. UNCHANGED stage
        BY <2>1 DEF hasSeenIdempotencyKey, interceptorVars
      <3>2. step' = [step EXCEPT ![r] = IF call[r].key \in cache[process[r]] THEN "seen"
                                        ELSE Work(r)]
        BY <2>1 DEF hasSeenIdempotencyKey, Goto
      <3>3. step'[r] = "seen" => call[r].key \in cache[process[r]]
        BY <1>1, <3>2 DEF IInv, Typed, Work
      <3>4. r \notin Answered'
        BY <1>1, <3>1 DEF Answered
      <3> QED
        BY <1>5, <3>3, <3>4 DEF KnowsKey
    <2>2. CASE findExisting(r) \/ answerRepeat(r)
      <3>1. step[r] = "seen"
        BY <2>2 DEF findExisting, answerRepeat, At
      <3> QED
        BY <1>5, <1>6, <3>1
    <2>3. CASE finish(r)
      <3>1. cache' = [cache EXCEPT ![process[r]] = @ \cup {call[r].key}]
        BY <2>3 DEF finish
      <3>2. call[r].key \in cache'[process[r]]
        BY <1>1, <1>3, <3>1 DEF Memory, MemoryTyped
      <3> QED
        BY <1>1, <3>2 DEF KnowsKey
    <2>4. CASE ~(\/ hasSeenIdempotencyKey(r) \/ findExisting(r) \/ answerRepeat(r)
                 \/ finish(r))
      <3>1. \/ UNCHANGED stage
            \/ stage' = [stage EXCEPT ![r] = "failed"]
        BY <2>4 DEF Handler, findVendor, createVendor, createOrder, bulkCreate, retryOrder,
             createVendorRequest, replayDlq, Throw, interceptorVars
      <3>2. \/ UNCHANGED step
            \/ \E s2 \in Steps \ {"seen"} : step' = [step EXCEPT ![r] = s2]
        BY <2>4 DEF Handler, findVendor, createVendor, createOrder, bulkCreate, retryOrder,
             createVendorRequest, replayDlq, NewVendor, Goto, Steps
      <3>3. r \notin Answered'
        BY <1>1, <3>1 DEF Answered, IInv, Typed
      <3>4. stage'[r] = "running" /\ step'[r] = "seen" => step[r] = "seen"
        BY <3>2 DEF IInv, Typed
      <3> QED
        BY <1>5, <1>6, <3>3, <3>4
    <2> QED
      BY <2>1, <2>2, <2>3, <2>4
  <1>8. ASSUME Repeats(r)'
        PROVE  /\ ~Wrote(r)'
               /\ stage'[r] = "running" => step'[r] \in {"start", "seen"}
    <2>1. Repeats(r) /\ ~Wrote(r) /\ step[r] \in {"start", "seen"}
      BY <1>1, <1>4, <1>8 DEF Memory, Remembers
    <2>2. hasSeenIdempotencyKey(r) \/ findExisting(r) \/ answerRepeat(r)
      BY <2>1 DEF Handler, findVendor, createVendor, createOrder, bulkCreate, retryOrder,
           createVendorRequest, replayDlq, finish, At
    <2>3. UNCHANGED <<orders, vendorRequests, vendors, updates>>
      BY <2>2 DEF hasSeenIdempotencyKey, findExisting, answerRepeat, serviceVars
    <2>4. ~Wrote(r)'
      BY <2>1, <2>3 DEF Wrote, OrdersOf, RequestsOf
    <2>5. /\ call[r].key \in cache[process[r]]
          /\ call[r].op = "create" => Existing(r) # {}
      BY <1>1, <2>1, RepeatFinds
    <2>6. CASE hasSeenIdempotencyKey(r)
      <3>1. step' = [step EXCEPT ![r] = "seen"]
        BY <2>5, <2>6 DEF hasSeenIdempotencyKey, Goto
      <3> QED
        BY <2>4, <3>1 DEF IInv, Typed
    <2>7. CASE findExisting(r) \/ answerRepeat(r)
      <3>1. Answer(r) \/ Throw(r)
        BY <2>5, <2>7 DEF findExisting, answerRepeat, At
      <3>2. stage'[r] # "running"
        BY <3>1 DEF Answer, Throw, IInv, Typed
      <3> QED
        BY <2>4, <3>2
    <2> QED
      BY <2>2, <2>6, <2>7
  <1>9. Remembers(r)'
    BY <1>3, <1>7, <1>8 DEF Remembers, Processes
  <1> QED
    BY <1>1, <1>2, <1>9 DEF Memory

LEMMA AdmitRemembers ==
  ASSUME IInv, Memory, NEW r \in Requests, Request(r)
  PROVE  Memory'
  <1>1. PICK p \in Processes, c \in Calls : Admit(r, p, c)
    BY DEF Request
  <1>2. /\ stage[r] = "idle" /\ call' = [call EXCEPT ![r] = c]
        /\ process' = [process EXCEPT ![r] = p]
        /\ past' = [past EXCEPT ![r] = [answered |-> Answered, recorded |-> Recorded]]
        /\ UNCHANGED <<orders, vendorRequests, vendors, updates, cache, step, lapsed>>
    BY <1>1 DEF Admit, Arrive, Request, serviceVars, history
  <1>3. PICK s1 \in {"conflict", "running"} : stage' = [stage EXCEPT ![r] = s1]
    BY <1>1 DEF Admit
  <1>4. MemoryTyped'
    BY <1>2 DEF Memory, MemoryTyped, Answered, Recorded, Processes
  <1>5. Answered' = Answered /\ r \notin Answered
    BY <1>2, <1>3 DEF Answered, IInv, Typed
  <1>6. MemoryKept
    BY <1>2, <1>5 DEF MemoryKept, Memory, MemoryTyped, IInv, Typed, Answered
  <1>7. ASSUME NEW t \in Requests \ {r} PROVE Remembers(t)'
    <2>1. /\ call'[t] = call[t] /\ process'[t] = process[t] /\ past'[t] = past[t]
          /\ stage'[t] = stage[t] /\ step'[t] = step[t]
      BY <1>2, <1>3 DEF Memory, MemoryTyped, IInv, Typed
    <2>2. Steady(t)
      BY <1>2, <1>5, <2>1 DEF Steady, Wrote, OrdersOf, RequestsOf
    <2> QED
      BY <1>6, <2>2, SteadyRemembers DEF Memory
  <1>8. Remembers(r)'
    <2>1. past'[r].answered = Answered /\ process'[r] = p /\ step'[r] = "start"
      BY <1>2 DEF Memory, MemoryTyped, IInv, Typed, RequestIsSound
    <2>2. ~Wrote(r)'
      BY <1>2 DEF IInv, RequestIsSound, Wrote, OrdersOf, RequestsOf
    <2> QED
      BY <1>5, <2>1, <2>2 DEF Remembers, Processes
  <1> QED
    BY <1>4, <1>7, <1>8 DEF Memory

\* Steps that are of no handler, and none of a client.
LEMMA QuietRemembers ==
  ASSUME IInv, Memory, MemoryTyped', MemoryKept,
         UNCHANGED <<call, process, past, orders, vendorRequests, vendors, updates, step>>,
         \A t \in Requests :
           \/ stage'[t] = stage[t]
           \/ stage[t] = "running" /\ stage'[t] = "failed"
           \/ stage[t] = "answered" /\ stage'[t] \in {"recorded", "unrecorded"}
  PROVE  Memory'
  <1>1. ASSUME NEW t \in Requests PROVE Remembers(t)'
    <2>1. Steady(t)
      BY DEF Steady, Wrote, OrdersOf, RequestsOf, Answered
    <2> QED
      BY <2>1, SteadyRemembers DEF Memory
  <1> QED
    BY <1>1 DEF Memory

LEMMA MemoryHolds == IInv /\ Memory /\ [Next]_vars => Memory'
  <1> SUFFICES ASSUME IInv, Memory, [Next]_vars PROVE Memory'
    OBVIOUS
  <1>1. ASSUME NEW r \in Requests, Request(r) \/ Handler(r) PROVE Memory'
    BY <1>1, AdmitRemembers, HandlerRemembers
  <1>2. ASSUME NEW r \in Requests, Record(r) \/ Reject(r) PROVE Memory'
    <2>1. /\ UNCHANGED <<call, process, past, orders, vendorRequests, vendors, updates, step,
                         cache, lapsed>>
          /\ \/ stage[r] = "running" /\ stage' = [stage EXCEPT ![r] = "failed"]
             \/ stage[r] = "answered" /\ stage' = [stage EXCEPT ![r] = "recorded"]
      BY <1>2 DEF Record, Reject, Complete, Throw, serviceVars, history
    <2>2. \A t \in Requests :
            \/ stage'[t] = stage[t]
            \/ stage[t] = "running" /\ stage'[t] = "failed"
            \/ stage[t] = "answered" /\ stage'[t] \in {"recorded", "unrecorded"}
      BY <2>1 DEF IInv, Typed
    <2>3. MemoryTyped' /\ MemoryKept
      BY <2>1, <2>2 DEF Memory, MemoryTyped, MemoryKept, Answered
    <2> QED
      BY <2>1, <2>2, <2>3, QuietRemembers
  <1>3. ASSUME NEW p \in Processes, Expire(p) \/ Crash(p) PROVE Memory'
    <2>1. PICK keys : Forget(p, keys)
      BY <1>3 DEF Expire, Crash
    <2>2. /\ UNCHANGED <<call, process, past, orders, vendorRequests, vendors, updates, step>>
          /\ cache' = [cache EXCEPT ![p] = @ \ keys] /\ lapsed' = lapsed \cup {p}
      BY <1>3, <2>1 DEF Expire, Crash, Forget, Stop, interceptorVars
    <2>3. \A t \in Requests :
            \/ stage'[t] = stage[t]
            \/ stage[t] = "running" /\ stage'[t] = "failed"
            \/ stage[t] = "answered" /\ stage'[t] \in {"recorded", "unrecorded"}
      BY <1>3 DEF Expire, Crash, Stop, interceptorVars
    <2>4. MemoryTyped' /\ MemoryKept
      BY <2>2, <2>3 DEF Memory, MemoryTyped, MemoryKept, Answered
    <2> QED
      BY <2>2, <2>3, <2>4, QuietRemembers
  <1>4. CASE Quiescent \/ UNCHANGED vars
    <2>1. UNCHANGED <<call, process, past, orders, vendorRequests, vendors, updates, step,
                      cache, lapsed, stage>>
      BY <1>4 DEF Quiescent, vars, interceptorVars, serviceVars, history
    <2>2. MemoryTyped' /\ MemoryKept
      BY <2>1 DEF Memory, MemoryTyped, MemoryKept, Answered
    <2> QED
      BY <2>1, <2>2, QuietRemembers
  <1> QED
    BY <1>1, <1>2, <1>3, <1>4 DEF Next

LEMMA MemoryInit == Init => Memory
  <1> SUFFICES ASSUME Init PROVE Memory
    OBVIOUS
  <1>1. /\ stage = [r \in Requests |-> "idle"] /\ process = [r \in Requests |-> 0]
        /\ past = [r \in Requests |-> [answered |-> {}, recorded |-> {}]]
        /\ cache = [p \in Processes |-> {}]
    BY DEF Init, RecordInit
  <1>2. MemoryTyped
    BY <1>1 DEF MemoryTyped
  <1>3. ASSUME NEW r \in Requests PROVE Remembers(r)
    <2>1. past[r].answered = {} /\ stage[r] = "idle" /\ r \notin Answered
      BY <1>1 DEF Answered
    <2> QED
      BY <2>1 DEF Remembers
  <1> QED
    BY <1>2, <1>3 DEF Memory

\* A call that is made again after it was answered, with its key, to a process that has
\* lost no key, creates no order, vendor request or vendor, and updates no order and no
\* dead letter (OrdersService, idempotencyCache).
THEOREM RepeatsWriteNothing == Spec => []RepeatWritesNothing
  <1>1. IInv /\ Memory => RepeatWritesNothing
    <2> SUFFICES ASSUME IInv, Memory, NEW r \in Requests, NEW s \in past[r].answered,
                        call[r] = call[s], process[r] = process[s], process[r] \notin lapsed
                 PROVE  ~Wrote(r)
      BY DEF RepeatWritesNothing
    <2>1. Repeats(r)
      BY DEF Repeats
    <2>2. CASE stage[r] = "idle"
      BY <2>2 DEF IInv, RequestIsSound
    <2> QED
      BY <2>1, <2>2 DEF Memory, Remembers
  <1>2. Init => IInv /\ Memory
    BY InitHolds, MemoryInit
  <1>3. (IInv /\ Memory) /\ [Next]_vars => (IInv /\ Memory)'
    BY StepHolds, MemoryHolds
  <1> QED
    BY <1>1, <1>2, <1>3, PTL DEF Spec
=============================================================================
