---------------------------- MODULE Idempotency ----------------------------
(***************************************************************************)
(* IdempotencyInterceptor, which runs around every handler of the API: a   *)
(* request with an Idempotency-Key is admitted unless the record of its    *)
(* tenant and key is COMPLETED, and its record is completed after the      *)
(* response has gone out, by an update that nothing awaits.  The service   *)
(* behind it composes its own steps with these actions: it may take steps  *)
(* while stage[r] = "running", which set step[r], the last one together    *)
(* with Answer(r).                                                         *)
(*                                                                         *)
(* Requests without a key, and GET requests, pass and are left out.  The   *)
(* hash of a key stands for the key; requestHash and responseHash are      *)
(* stored and never compared, so they are left out.                        *)
(***************************************************************************)
EXTENDS Integers, FiniteSets

CONSTANTS
  MaxRequests,  \* bound on the HTTP requests, numbered as they come in
  MaxProcesses, \* bound on the instances of the API, numbered as they are used
  Tenants, Keys,
  MaxInFlight,  \* bound on the requests admitted and not finished
  NoCall

ASSUME IdempotencyAssumption ==
  MaxRequests \in Nat /\ MaxProcesses \in Nat /\ MaxInFlight \in Nat

VARIABLES
  record,   \* status of the row vendor_requests[tenant, keyHash], or "none"
  stage,    \* how far a request has come
  call,     \* what a request asks for: tenant, key and the service's own fields
  process,  \* the process that serves it
  step,     \* the await its handler has reached
  past      \* history: which requests had been answered, and which of them
            \* recorded, when it came in

interceptorVars == <<record, stage, call, process, past>>

Requests == 1..MaxRequests

Processes == 1..MaxProcesses

Answered == {r \in Requests : stage[r] \in {"answered", "recorded", "unrecorded"}}

Recorded == {r \in Requests : stage[r] = "recorded"}

RecordInit ==
  /\ record = [x \in Tenants \X Keys |-> "none"]
  /\ stage = [r \in Requests |-> "idle"]
  /\ call = [r \in Requests |-> NoCall]
  /\ process = [r \in Requests |-> 0]
  /\ step = [r \in Requests |-> "start"]
  /\ past = [r \in Requests |-> [answered |-> {}, recorded |-> {}]]

At(r, ops, s) == stage[r] = "running" /\ call[r].op \in ops /\ step[r] = s

Goto(r, s) == step' = [step EXCEPT ![r] = s]

InFlight == {r \in Requests : stage[r] \in {"running", "answered"}}

Arrive(r, p, c) ==
  /\ stage[r] = "idle" /\ \A s \in 1..(r - 1) : stage[s] # "idle"
  /\ \A q \in 1..(p - 1) : \E s \in Requests : process[s] = q
  /\ Cardinality(InFlight) < MaxInFlight
  /\ call' = [call EXCEPT ![r] = c]
  /\ process' = [process EXCEPT ![r] = p]
  /\ past' = [past EXCEPT ![r] = [answered |-> Answered, recorded |-> Recorded]]

SameKey(r, s) == call[r].tenant = call[s].tenant /\ call[r].key = call[s].key

\* Mutant: update: { status: PENDING }.
AdmitMutant(r, p, c) ==
  /\ Arrive(r, p, c)
  /\ record' = [record EXCEPT ![<<c.tenant, c.key>>] = "PENDING"]
  /\ stage' = [stage EXCEPT ![r] = "running"]

\* vendorRequest.upsert with an empty update, and the test of what it returned:
\* 409 IDEMPOTENT_REPLAY, or the handler.  A PENDING record stops nobody.
Admit(r, p, c) ==
  /\ Arrive(r, p, c)
  /\ record' = [record EXCEPT ![<<c.tenant, c.key>>] = IF @ = "none" THEN "PENDING" ELSE @]
  /\ stage' = [stage EXCEPT ![r] =
       IF record[<<c.tenant, c.key>>] = "COMPLETED" THEN "conflict" ELSE "running"]

\* The handler returns: tap starts the update, and the response goes out.
Answer(r) ==
  /\ stage[r] = "running"
  /\ stage' = [stage EXCEPT ![r] = "answered"]
  /\ UNCHANGED <<record, call, process, past>>

\* The update of the record, some time after the response.
Complete(r) ==
  /\ stage[r] = "answered"
  /\ record' = [record EXCEPT ![<<call[r].tenant, call[r].key>>] = "COMPLETED"]
  /\ stage' = [stage EXCEPT ![r] = "recorded"]
  /\ UNCHANGED <<call, process, past>>

\* The handler throws: an error response, and the record stays PENDING.
Throw(r) ==
  /\ stage[r] = "running"
  /\ stage' = [stage EXCEPT ![r] = "failed"]
  /\ UNCHANGED <<record, call, process, past>>

\* The process stops, and with it all that it was doing.  An update of a record
\* that fails rejects a promise without a handler, which stops the process too.
Stop(p) ==
  /\ stage' = [r \in Requests |->
       IF process[r] # p THEN stage[r]
       ELSE CASE stage[r] = "running" -> "failed"
              [] stage[r] = "answered" -> "unrecorded"
              [] OTHER -> stage[r]]
  /\ UNCHANGED <<record, call, process, past>>
=============================================================================
