------------------------------ MODULE ApiServices ------------------------------
(***************************************************************************)
(* Tasks, webhooks and quotes in the processes of the API, behind the one  *)
(* idempotency interceptor, whose records they share: a key of a tenant is *)
(* spent for all of them.  Each service has a cache of its own, or none.   *)
(***************************************************************************)
EXTENDS Tasks, Webhooks, Pricing

CONSTANTS
  Calls,     \* the calls that clients make
  MaxFaults  \* bound on rejected calls, expiries of keys and stops of processes

ASSUME ApiServicesAssumption ==
  /\ NoCall \notin Calls /\ MaxFaults \in Nat
  /\ \A c \in Calls : c.tenant \in Tenants /\ c.key \in Keys

VARIABLES lapsed, faults  \* history: processes that have lost a key, how many faults

vars == <<interceptorVars, step, taskVars, webhookVars, pricingVars, lapsed, faults>>

Init ==
  /\ RecordInit /\ TasksInit /\ WebhooksInit /\ PricingInit
  /\ lapsed = {} /\ faults = 0

Request(r) ==
  /\ \E p \in Processes, c \in Calls : Admit(r, p, c)
  /\ UNCHANGED <<step, taskVars, webhookVars, pricingVars, lapsed, faults>>

Handler(r) ==
  /\ \/ TaskStep(r) /\ UNCHANGED <<webhookVars, pricingVars>>
     \/ WebhookStep(r) /\ UNCHANGED <<taskVars, pricingVars>>
     \/ QuoteStep(r) /\ UNCHANGED <<taskVars, webhookVars>>
  /\ UNCHANGED <<lapsed, faults>>

Record(r) ==
  /\ Complete(r)
  /\ UNCHANGED <<step, taskVars, webhookVars, pricingVars, lapsed, faults>>

Fault == faults < MaxFaults /\ faults' = faults + 1

\* An awaited call rejects: what is written stays.
Reject(r) ==
  /\ Fault /\ Throw(r)
  /\ UNCHANGED <<step, taskVars, webhookVars, pricingVars, lapsed>>

\* A key of a task is an hour old; those of webhooks are kept.
Expire(p) ==
  /\ Fault
  /\ \E k \in taskCache[p] : taskCache' = [taskCache EXCEPT ![p] = @ \ {k}]
  /\ lapsed' = lapsed \cup {p}
  /\ UNCHANGED <<interceptorVars, step, tasks, taskEvents, existing, previous, routed,
                 webhookVars, pricingVars>>

\* The process stops and is started again: its memory is gone.
Crash(p) ==
  /\ Fault /\ Stop(p)
  /\ taskCache' = [taskCache EXCEPT ![p] = {}]
  /\ webhookCache' = [webhookCache EXCEPT ![p] = [k \in {} |-> 0]]
  /\ lapsed' = lapsed \cup {p}
  /\ UNCHANGED <<step, tasks, taskEvents, existing, previous, routed,
                 webhooks, sender, receipt, events, quotes, prevHash, offer>>

\* All requests are answered and the API waits for more.
Quiescent ==
  /\ \A r \in Requests : stage[r] \in {"recorded", "unrecorded", "conflict", "failed"}
  /\ UNCHANGED vars

Next ==
  \/ \E r \in Requests : Request(r) \/ Handler(r) \/ Record(r) \/ Reject(r)
  \/ \E p \in Processes : Expire(p) \/ Crash(p)
  \/ Quiescent

Spec == Init /\ [][Next]_vars

-----------------------------------------------------------------------------
Writers ==
  TaskWriters \cup {webhooks[i].by : i \in DOMAIN webhooks} \cup QuoteWriters
    \cup {events[i].by : i \in DOMAIN events}

\* A bulk update, a routing or a delivery made again after it was answered, with its
\* key, changes nothing while its process remembers the key: a task assigned since
\* keeps its owner, and the webhook is stored once.
RepeatChangesNothing ==
  \A r \in Requests : \A s \in past[r].answered :
    /\ call[r] = call[s] /\ call[r].op \in {"bulkUpdate", "route", "ingest"}
    /\ process[r] = process[s] /\ process[r] \notin lapsed
    => r \notin Writers

\* A key whose record was completed is spent for good, in every process and for
\* every service: no transition, routing, delivery or quote of that tenant uses it.
\* And nothing else spends it: a request is refused only after one of its tenant with
\* its key was answered, so failures and keys of other tenants block no retry.
SpentForAllServices ==
  \A r \in Requests :
    /\ (\E s \in past[r].recorded : SameKey(r, s)) => r \notin Writers
    /\ stage[r] = "conflict" => \E s \in past[r].answered : SameKey(r, s)
=============================================================================
