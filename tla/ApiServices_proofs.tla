--------------------------- MODULE ApiServices_proofs ---------------------------
(***************************************************************************)
(* Theorems about tasks, webhooks and quotes behind the idempotency        *)
(* interceptor, for any number of requests and processes, any calls and    *)
(* any faults.                                                             *)
(*                                                                         *)
(* A step is of one of three kinds: a request comes in, a handler takes a  *)
(* step, or requests end where they are (recorded, rejected or stopped).   *)
(* Each service has an invariant of its own, about the tables it writes    *)
(* and the requests it serves; steps of the first and the last kind, and   *)
(* those of the other services, keep it because all they do to a request   *)
(* of this service is to end it.                                           *)
(***************************************************************************)
EXTENDS ApiServices, FiniteSetTheorems, SequenceTheorems, TLAPS

Stages == {"idle", "running", "answered", "recorded", "unrecorded", "conflict", "failed"}

TaskOps == {"transition", "bulkUpdate", "route"}

\* A request that the interceptor has let through to its handler.
Came(r) == stage[r] \notin {"idle", "conflict"}

Typed ==
  /\ record \in [Tenants \X Keys -> {"none", "PENDING", "COMPLETED"}]
  /\ stage \in [Requests -> Stages] /\ step = [r \in Requests |-> step[r]]
  /\ call \in [Requests -> Calls \cup {NoCall}] /\ process \in [Requests -> Nat]
  /\ past \in [Requests -> [answered : SUBSET Requests, recorded : SUBSET Requests]]

\* A request with the key of one that was recorded before it came in was refused, and
\* one that was refused has the key of one that was answered before it came in.
RequestIsKnown(r) ==
  /\ stage[r] = "idle" => step[r] = "start" /\ call[r] = NoCall
  /\ stage[r] # "idle" => call[r] \in Calls /\ process[r] \in Processes
  /\ past[r].answered \subseteq Answered /\ past[r].recorded \subseteq past[r].answered
  /\ (\E s \in past[r].recorded : SameKey(r, s)) => stage[r] \in {"idle", "conflict"}
  /\ stage[r] = "conflict" => \E s \in past[r].answered : SameKey(r, s)

KeyOf(r) == <<call[r].tenant, call[r].key>>

\* The completed records are those of the keys that were recorded.
KeysAreSpent ==
  /\ \A x \in Tenants \X Keys :
       record[x] = "COMPLETED" => \E s \in Recorded : KeyOf(s) = x
  /\ \A s \in Recorded : record[KeyOf(s)] = "COMPLETED"

BaseInv == Typed /\ KeysAreSpent /\ \A r \in Requests : RequestIsKnown(r)

-----------------------------------------------------------------------------
(* The three kinds of steps *)

\* A request that a step leaves where it is, or ends.
Steady(t) ==
  /\ call'[t] = call[t] /\ process'[t] = process[t] /\ past'[t] = past[t]
  /\ step'[t] = step[t]
  /\ \/ stage'[t] = stage[t]
     \/ stage[t] = "running" /\ stage'[t] = "failed"
     \/ stage[t] = "answered" /\ stage'[t] \in {"recorded", "unrecorded"}

tables == <<tasks, taskEvents, existing, previous, routed, webhooks, sender, receipt,
            events, quotes, prevHash, offer>>

Arrives(r) ==
  /\ stage[r] = "idle" /\ stage'[r] \in {"running", "conflict"} /\ step'[r] = step[r]
  /\ call'[r] \in Calls /\ process'[r] \in Processes
  /\ past'[r] = [answered |-> Answered, recorded |-> Recorded]
  /\ \A t \in Requests \ {r} : Steady(t)
  /\ UNCHANGED <<tables, taskCache, webhookCache, lapsed>>

Handles(r) ==
  /\ stage[r] = "running" /\ stage'[r] \in {"running", "answered", "failed"}
  /\ UNCHANGED <<record, call, process, past, lapsed>>
  /\ \A t \in Requests \ {r} : Steady(t)

\* Processes that have not lost keys remember what they did.
Ends ==
  /\ \A t \in Requests : Steady(t)
  /\ UNCHANGED tables
  /\ lapsed \subseteq lapsed'
  /\ \A p \in Processes :
       /\ taskCache'[p] \subseteq taskCache[p]
       /\ DOMAIN webhookCache'[p] \subseteq DOMAIN webhookCache[p]
       /\ \A k \in DOMAIN webhookCache'[p] : webhookCache'[p][k] = webhookCache[p][k]
       /\ p \in lapsed' \/ (taskCache'[p] = taskCache[p] /\ webhookCache'[p] = webhookCache[p])

CachesTyped ==
  /\ taskCache \in [Processes -> SUBSET Keys]
  /\ webhookCache \in [Processes -> UNION {[K -> Nat] : K \in SUBSET Keys}]

\* What is known of requests that were answered stays so.
AnswersStay ==
  \A s \in Answered :
    /\ s \in Answered' /\ call'[s] = call[s] /\ process'[s] = process[s]
    /\ past'[s] = past[s]

CameStays == \A s \in Requests : Came(s) => Came(s)' /\ call'[s] = call[s]

LEMMA ArrivesHolds ==
  ASSUME BaseInv, NEW r \in Requests, Request(r)
  PROVE  Arrives(r)
  <1>1. PICK p \in Processes, c \in Calls : Admit(r, p, c)
    BY DEF Request
  <1>2. /\ stage[r] = "idle" /\ call' = [call EXCEPT ![r] = c]
        /\ process' = [process EXCEPT ![r] = p]
        /\ past' = [past EXCEPT ![r] = [answered |-> Answered, recorded |-> Recorded]]
        /\ UNCHANGED <<step, tables, taskCache, webhookCache, lapsed>>
    BY <1>1 DEF Admit, Arrive, Request, taskVars, webhookVars, pricingVars, tables
  <1>3. PICK s1 \in {"conflict", "running"} : stage' = [stage EXCEPT ![r] = s1]
    BY <1>1 DEF Admit
  <1>4. ASSUME NEW t \in Requests \ {r} PROVE Steady(t)
    BY <1>2, <1>3 DEF Steady, BaseInv, Typed
  <1> QED
    BY <1>2, <1>3, <1>4 DEF Arrives, BaseInv, Typed

LEMMA HandlesHolds ==
  ASSUME BaseInv, NEW r \in Requests, Handler(r)
  PROVE  Handles(r)
  <1>1. /\ stage[r] = "running" /\ UNCHANGED <<record, call, process, past, lapsed>>
        /\ \/ UNCHANGED stage
           \/ \E s1 \in {"answered", "failed"} : stage' = [stage EXCEPT ![r] = s1]
        /\ \/ UNCHANGED step
           \/ \E s2 : step' = [step EXCEPT ![r] = s2]
    <2>1. CASE TaskStep(r)
      BY <2>1 DEF Handler, TaskStep, findTask, updateTask, findPreviousEvent, createTaskEvent,
           hasSeenTaskKey, bulkUpdate, findRouted, routeTask, rememberTaskKey, At, Goto,
           Answer, Throw, interceptorVars
    <2>2. CASE WebhookStep(r)
      BY <2>2 DEF Handler, WebhookStep, ingest, findSender, createWebhook, rememberWebhook,
           At, Goto, Answer, Throw, interceptorVars
    <2>3. CASE QuoteStep(r)
      BY <2>3 DEF Handler, QuoteStep, LinkEvent, RecordEvent, Adapter, PersistQuotes,
           ReturnQuote, At, Goto, Answer, Throw, interceptorVars
    <2> QED
      BY <2>1, <2>2, <2>3 DEF Handler
  <1>2. ASSUME NEW t \in Requests \ {r} PROVE Steady(t)
    BY <1>1 DEF Steady, BaseInv, Typed
  <1> QED
    BY <1>1, <1>2 DEF Handles, BaseInv, Typed

LEMMA RecordEnds ==
  ASSUME BaseInv, NEW r \in Requests, Record(r) \/ Reject(r)
  PROVE  Ends
  <1>1. /\ UNCHANGED <<call, process, past, step, tables, taskCache, webhookCache, lapsed>>
        /\ \/ stage[r] = "running" /\ stage' = [stage EXCEPT ![r] = "failed"]
           \/ stage[r] = "answered" /\ stage' = [stage EXCEPT ![r] = "recorded"]
    BY DEF Record, Reject, Complete, Throw, taskVars, webhookVars, pricingVars, tables
  <1>2. \A t \in Requests : Steady(t)
    BY <1>1 DEF Steady, BaseInv, Typed
  <1> QED
    BY <1>1, <1>2 DEF Ends

LEMMA ExpireEnds ==
  ASSUME CachesTyped, NEW p \in Processes, Expire(p)
  PROVE  Ends
  <1>1. /\ UNCHANGED <<stage, call, process, past, step, tables, webhookCache>>
        /\ lapsed' = lapsed \cup {p}
    BY DEF Expire, interceptorVars, webhookVars, pricingVars, tables
  <1>2. PICK k : taskCache' = [taskCache EXCEPT ![p] = @ \ {k}]
    BY DEF Expire
  <1>3. \A t \in Requests : Steady(t)
    BY <1>1 DEF Steady
  <1>4. \A q \in Processes : /\ taskCache'[q] \subseteq taskCache[q]
                             /\ q # p => taskCache'[q] = taskCache[q]
    BY <1>2 DEF CachesTyped
  <1> QED
    BY <1>1, <1>3, <1>4 DEF Ends

LEMMA CrashEnds ==
  ASSUME BaseInv, CachesTyped, NEW p \in Processes, Crash(p)
  PROVE  Ends
  <1>1. /\ UNCHANGED <<call, process, past, step, tables>>
        /\ lapsed' = lapsed \cup {p}
        /\ taskCache' = [taskCache EXCEPT ![p] = {}]
        /\ webhookCache' = [webhookCache EXCEPT ![p] = [k \in {} |-> 0]]
    BY DEF Crash, Stop, tables
  <1>2. \A t \in Requests : Steady(t)
    BY <1>1 DEF Crash, Stop, Steady
  <1>3. ASSUME NEW q \in Processes
        PROVE  /\ taskCache'[q] \subseteq taskCache[q]
               /\ DOMAIN webhookCache'[q] \subseteq DOMAIN webhookCache[q]
               /\ \A k \in DOMAIN webhookCache'[q] : webhookCache'[q][k] = webhookCache[q][k]
               /\ \/ q \in lapsed'
                  \/ taskCache'[q] = taskCache[q] /\ webhookCache'[q] = webhookCache[q]
    <2>1. CASE q = p
      <3>1. taskCache'[q] = {} /\ DOMAIN webhookCache'[q] = {}
        BY <1>1, <2>1 DEF CachesTyped
      <3> QED
        BY <1>1, <2>1, <3>1
    <2>2. CASE q # p
      BY <1>1, <2>2 DEF CachesTyped
    <2> QED
      BY <2>1, <2>2
  <1> QED
    BY <1>1, <1>2, <1>3 DEF Ends

LEMMA Kinds ==
  ASSUME BaseInv, CachesTyped, [Next]_vars
  PROVE  \/ \E r \in Requests : Arrives(r) \/ (Handles(r) /\ Handler(r))
         \/ Ends
  <1>1. CASE Quiescent \/ UNCHANGED vars
    <2>1. UNCHANGED <<call, process, past, step, stage, tables, taskCache, webhookCache, lapsed>>
      BY <1>1 DEF Quiescent, vars, interceptorVars, taskVars, webhookVars, pricingVars, tables
    <2> QED
      BY <2>1 DEF Ends, Steady
  <1> QED
    BY <1>1, ArrivesHolds, HandlesHolds, RecordEnds, ExpireEnds, CrashEnds DEF Next

LEMMA StayLemma ==
  ASSUME BaseInv, Ends \/ \E r \in Requests : Arrives(r) \/ Handles(r)
  PROVE  AnswersStay /\ CameStays
  <1>1. CASE Ends
    BY <1>1 DEF Ends, Steady, AnswersStay, CameStays, Answered, Came
  <1>2. ASSUME NEW r \in Requests, Arrives(r) \/ Handles(r) PROVE AnswersStay /\ CameStays
    <2>1. \A t \in Requests \ {r} : Steady(t)
      BY <1>2 DEF Arrives, Handles
    <2>2. r \notin Answered
      BY <1>2 DEF Arrives, Handles, Answered
    <2>3. Came(r) => Came(r)' /\ call'[r] = call[r]
      BY <1>2 DEF Arrives, Handles, Came
    <2> QED
      BY <2>1, <2>2, <2>3 DEF Steady, AnswersStay, CameStays, Answered, Came
  <1> QED
    BY <1>1, <1>2

-----------------------------------------------------------------------------
(* The interceptor *)

LEMMA SteadyKnown ==
  ASSUME BaseInv, AnswersStay, NEW t \in Requests, Steady(t), RequestIsKnown(t)
  PROVE  RequestIsKnown(t)'
  <1>1. /\ call'[t] = call[t] /\ process'[t] = process[t] /\ past'[t] = past[t]
        /\ step'[t] = step[t] /\ (stage'[t] = "idle" <=> stage[t] = "idle")
        /\ (stage'[t] = "conflict" <=> stage[t] = "conflict")
    BY DEF Steady
  <1>2. past[t].answered \subseteq Answered /\ past[t].answered \subseteq Answered'
    BY DEF RequestIsKnown, AnswersStay
  <1>3. \A s \in Answered : SameKey(t, s)' <=> SameKey(t, s)
    BY <1>1 DEF AnswersStay, SameKey
  <1>4. past[t].recorded \subseteq Answered
    BY <1>2 DEF RequestIsKnown
  <1> QED
    BY <1>1, <1>2, <1>3, <1>4 DEF RequestIsKnown, Processes

LEMMA InterceptorInit == Init => BaseInv
  <1> SUFFICES ASSUME Init PROVE BaseInv
    OBVIOUS
  <1>1. /\ record = [x \in Tenants \X Keys |-> "none"]
        /\ stage = [r \in Requests |-> "idle"] /\ step = [r \in Requests |-> "start"]
        /\ call = [r \in Requests |-> NoCall] /\ process = [r \in Requests |-> 0]
        /\ past = [r \in Requests |-> [answered |-> {}, recorded |-> {}]]
    BY DEF Init, RecordInit
  <1>2. Typed
    BY <1>1 DEF Typed, Stages
  <1>3. KeysAreSpent
    BY <1>1 DEF KeysAreSpent, Recorded
  <1>4. ASSUME NEW r \in Requests PROVE RequestIsKnown(r)
    <2>1. past[r].answered = {} /\ past[r].recorded = {} /\ stage[r] = "idle"
      BY <1>1
    <2> QED
      BY <1>1, <2>1 DEF RequestIsKnown
  <1> QED
    BY <1>2, <1>3, <1>4 DEF BaseInv

LEMMA ArrivalKnown ==
  ASSUME BaseInv, AnswersStay, NEW r \in Requests, Request(r), Arrives(r)
  PROVE  BaseInv'
  <1>1. PICK p \in Processes, c \in Calls : Admit(r, p, c)
    BY DEF Request
  <1>2. /\ stage[r] = "idle" /\ call' = [call EXCEPT ![r] = c]
        /\ process' = [process EXCEPT ![r] = p]
        /\ past' = [past EXCEPT ![r] = [answered |-> Answered, recorded |-> Recorded]]
        /\ UNCHANGED step
    BY <1>1 DEF Admit, Arrive, Request
  <1> DEFINE x == <<c.tenant, c.key>>
             full == record[x] = "COMPLETED"
  <1>3. /\ x \in Tenants \X Keys
        /\ stage' = [stage EXCEPT ![r] = IF full THEN "conflict" ELSE "running"]
        /\ record' = [record EXCEPT ![x] = IF @ = "none" THEN "PENDING" ELSE @]
    BY <1>1, ApiServicesAssumption DEF Admit
  <1> HIDE DEF x
  <1>4. Typed'
    BY <1>2, <1>3 DEF BaseInv, Typed, Stages, Processes, Answered, Recorded
  <1>5. \A y \in Tenants \X Keys : record'[y] = "COMPLETED" <=> record[y] = "COMPLETED"
    BY <1>3 DEF BaseInv, Typed
  <1>6. Recorded' = Recorded /\ r \notin Recorded /\ r \notin Answered
        /\ \A s \in Recorded : call'[s] = call[s]
    BY <1>2, <1>3 DEF BaseInv, Typed, Recorded, Answered
  <1>7. KeysAreSpent'
    <2>1. \A s \in Recorded : KeyOf(s)' = KeyOf(s) /\ KeyOf(s) \in Tenants \X Keys
      BY <1>6, ApiServicesAssumption DEF KeyOf, Recorded, BaseInv, RequestIsKnown
    <2> QED
      BY <1>5, <1>6, <2>1 DEF BaseInv, KeysAreSpent
  <1>8. RequestIsKnown(r)'
    <2>1. /\ past'[r].answered = Answered /\ past'[r].recorded = Recorded
          /\ call'[r] = c /\ process'[r] = p
          /\ stage'[r] = IF full THEN "conflict" ELSE "running"
      BY <1>2, <1>3 DEF BaseInv, Typed
    <2>2. \A s \in Recorded : SameKey(r, s)' <=> KeyOf(s) = x
      BY <1>6, <2>1 DEF SameKey, KeyOf, x
    <2>3. full => \E s \in Recorded : SameKey(r, s)'
      BY <1>3, <2>2 DEF BaseInv, KeysAreSpent
    <2>4. (\E s \in Recorded : SameKey(r, s)') => full
      BY <2>2 DEF BaseInv, KeysAreSpent
    <2>5. Recorded \subseteq Answered /\ Answered \subseteq Answered'
      BY DEF Recorded, Answered, AnswersStay
    <2> QED
      BY <2>1, <2>3, <2>4, <2>5 DEF RequestIsKnown, Processes
  <1>9. ASSUME NEW t \in Requests \ {r} PROVE RequestIsKnown(t)'
    BY SteadyKnown DEF Arrives, BaseInv
  <1> QED
    BY <1>4, <1>7, <1>8, <1>9 DEF BaseInv

LEMMA HandlerKnown ==
  ASSUME BaseInv, AnswersStay, NEW r \in Requests, Handler(r), Handles(r)
  PROVE  BaseInv'
  <1>1. /\ \/ UNCHANGED stage
           \/ \E s1 \in {"answered", "failed"} : stage' = [stage EXCEPT ![r] = s1]
        /\ \/ UNCHANGED step
           \/ \E s2 : step' = [step EXCEPT ![r] = s2]
    <2>1. CASE TaskStep(r)
      BY <2>1 DEF Handler, TaskStep, findTask, updateTask, findPreviousEvent, createTaskEvent,
           hasSeenTaskKey, bulkUpdate, findRouted, routeTask, rememberTaskKey, Goto,
           Answer, Throw, interceptorVars
    <2>2. CASE WebhookStep(r)
      BY <2>2 DEF Handler, WebhookStep, ingest, findSender, createWebhook, rememberWebhook,
           Goto, Answer, Throw, interceptorVars
    <2>3. CASE QuoteStep(r)
      BY <2>3 DEF Handler, QuoteStep, LinkEvent, RecordEvent, Adapter, PersistQuotes,
           ReturnQuote, Goto, Answer, Throw, interceptorVars
    <2> QED
      BY <2>1, <2>2, <2>3 DEF Handler
  <1>2. /\ stage[r] = "running" /\ stage'[r] \in {"running", "answered", "failed"}
        /\ UNCHANGED <<record, call, process, past>>
    BY DEF Handles
  <1>3. Typed'
    BY <1>1, <1>2 DEF BaseInv, Typed, Stages
  <1>4. Recorded' = Recorded
    BY <1>1, <1>2 DEF BaseInv, Typed, Recorded
  <1>5. KeysAreSpent'
    BY <1>2, <1>4 DEF BaseInv, KeysAreSpent, KeyOf
  <1>6. RequestIsKnown(r)'
    <2>1. RequestIsKnown(r) /\ Answered \subseteq Answered'
      BY DEF BaseInv, AnswersStay
    <2> QED
      BY <1>2, <2>1 DEF RequestIsKnown, SameKey, Processes
  <1>7. ASSUME NEW t \in Requests \ {r} PROVE RequestIsKnown(t)'
    BY SteadyKnown DEF Handles, BaseInv
  <1> QED
    BY <1>3, <1>5, <1>6, <1>7 DEF BaseInv

LEMMA EndsKnown ==
  ASSUME BaseInv, AnswersStay, Ends, Typed', KeysAreSpent'
  PROVE  BaseInv'
  BY SteadyKnown DEF Ends, BaseInv

LEMMA RecordKnown ==
  ASSUME BaseInv, AnswersStay, Ends, NEW r \in Requests, Record(r)
  PROVE  BaseInv'
  <1>1. /\ stage[r] = "answered" /\ stage' = [stage EXCEPT ![r] = "recorded"]
        /\ record' = [record EXCEPT ![KeyOf(r)] = "COMPLETED"]
        /\ UNCHANGED <<call, process, past, step>>
    BY DEF Record, Complete, KeyOf
  <1>2. KeyOf(r) \in Tenants \X Keys
    BY <1>1, ApiServicesAssumption DEF KeyOf, BaseInv, RequestIsKnown
  <1>3. Typed'
    BY <1>1 DEF BaseInv, Typed, Stages
  <1>4. Recorded' = Recorded \cup {r} /\ \A s : KeyOf(s)' = KeyOf(s)
    BY <1>1 DEF BaseInv, Typed, Recorded, KeyOf
  <1>5. \A x \in Tenants \X Keys :
          record'[x] = IF x = KeyOf(r) THEN "COMPLETED" ELSE record[x]
    BY <1>1, <1>2 DEF BaseInv, Typed
  <1>6. \A s \in Recorded : KeyOf(s) \in Tenants \X Keys
    BY ApiServicesAssumption DEF KeyOf, Recorded, BaseInv, RequestIsKnown
  <1>7. KeysAreSpent'
    BY <1>2, <1>4, <1>5, <1>6 DEF BaseInv, KeysAreSpent
  <1> QED
    BY <1>3, <1>7, EndsKnown

\* A step that ends requests and does not touch the records.
LEMMA OtherEndsKnown ==
  ASSUME BaseInv, AnswersStay, Ends, UNCHANGED <<record, call, process, past, step>>,
         stage' \in [Requests -> Stages], Recorded' = Recorded
  PROVE  BaseInv'
  <1>1. Typed'
    BY DEF BaseInv, Typed
  <1>2. KeysAreSpent'
    BY DEF BaseInv, KeysAreSpent, KeyOf
  <1> QED
    BY <1>1, <1>2, EndsKnown

LEMMA InterceptorHolds == BaseInv /\ CachesTyped /\ [Next]_vars => BaseInv'
  <1> SUFFICES ASSUME BaseInv, CachesTyped, [Next]_vars PROVE BaseInv'
    OBVIOUS
  <1>1. ASSUME NEW r \in Requests, Request(r) PROVE BaseInv'
    BY <1>1, ArrivesHolds, StayLemma, ArrivalKnown
  <1>2. ASSUME NEW r \in Requests, Handler(r) PROVE BaseInv'
    BY <1>2, HandlesHolds, StayLemma, HandlerKnown
  <1>3. ASSUME NEW r \in Requests, Record(r) PROVE BaseInv'
    BY <1>3, RecordEnds, StayLemma, RecordKnown
  <1>4. ASSUME NEW r \in Requests, Reject(r) PROVE BaseInv'
    <2>1. /\ stage[r] = "running" /\ stage' = [stage EXCEPT ![r] = "failed"]
          /\ UNCHANGED <<record, call, process, past, step>>
      BY <1>4 DEF Reject, Throw
    <2>2. stage' \in [Requests -> Stages] /\ Recorded' = Recorded
      BY <2>1 DEF BaseInv, Typed, Stages, Recorded
    <2> QED
      BY <1>4, <2>1, <2>2, RecordEnds, StayLemma, OtherEndsKnown
  <1>5. ASSUME NEW p \in Processes, Expire(p) PROVE BaseInv'
    <2>1. UNCHANGED <<record, stage, call, process, past, step>>
      BY <1>5 DEF Expire, interceptorVars
    <2>2. stage' \in [Requests -> Stages] /\ Recorded' = Recorded
      BY <2>1 DEF BaseInv, Typed, Recorded
    <2> QED
      BY <1>5, <2>1, <2>2, ExpireEnds, StayLemma, OtherEndsKnown
  <1>6. ASSUME NEW p \in Processes, Crash(p) PROVE BaseInv'
    <2>1. UNCHANGED <<record, call, process, past, step>>
      BY <1>6 DEF Crash, Stop
    <2>2. Ends
      BY <1>6, CrashEnds
    <2>3. \A t \in Requests : stage'[t] \in Stages /\ (stage'[t] = "recorded" <=> stage[t] = "recorded")
      BY <1>6, <2>2 DEF Crash, Stop, BaseInv, Typed, Stages
    <2>4. stage' = [t \in Requests |-> stage'[t]]
      BY <1>6 DEF Crash, Stop
    <2>5. stage' \in [Requests -> Stages] /\ Recorded' = Recorded
      BY <2>3, <2>4 DEF Recorded
    <2> QED
      BY <2>1, <2>2, <2>5, StayLemma, OtherEndsKnown
  <1>7. CASE Quiescent \/ UNCHANGED vars
    <2>1. UNCHANGED <<record, stage, call, process, past, step, tables, taskCache,
                      webhookCache, lapsed>>
      BY <1>7 DEF Quiescent, vars, interceptorVars, taskVars, webhookVars, pricingVars, tables
    <2>2. Ends
      BY <2>1 DEF Ends, Steady
    <2>3. stage' \in [Requests -> Stages] /\ Recorded' = Recorded
      BY <2>1 DEF BaseInv, Typed, Recorded
    <2> QED
      BY <2>1, <2>2, <2>3, StayLemma, OtherEndsKnown
  <1> QED
    BY <1>1, <1>2, <1>3, <1>4, <1>5, <1>6, <1>7 DEF Next

-----------------------------------------------------------------------------
(* Tasks *)

TaskStates == {"NEW"} \cup {c.to : c \in Calls}

TaskRows ==
  [state : TaskStates, queue : {"default"} \cup {c.queue : c \in Calls},
   owner : {NoUser} \cup {c.owner : c \in Calls}, by : SUBSET Requests]

TaskEventRows ==
  [task : DOMAIN TaskTenant, from : TaskStates, to : TaskStates, prev : Nat, by : Requests]

TasksTyped ==
  /\ tasks \in [DOMAIN TaskTenant -> TaskRows] /\ taskEvents \in Seq(TaskEventRows)
  /\ existing \in [Requests -> TaskStates] /\ previous \in [Requests -> Nat]
  /\ routed = [r \in Requests |-> routed[r]]

HasNoEvent(r) == \A i \in DOMAIN taskEvents : taskEvents[i].by # r

HasNoTask(r) == \A t \in DOMAIN tasks : r \notin tasks[t].by

HasOneEvent(r) ==
  \E i \in DOMAIN taskEvents : \A j \in DOMAIN taskEvents : taskEvents[j].by = r <=> j = i

Repeats(r) ==
  \E s \in past[r].answered :
    call[r] = call[s] /\ process[r] = process[s] /\ process[r] \notin lapsed

KnowsTaskKey(r) == process[r] \in lapsed \/ call[r].key \in taskCache[process[r]]

Served(s, p, k) ==
  s \in Answered /\ call[s].op \in {"bulkUpdate", "route"} /\ call[s].key = k /\ process[s] = p

ServedByOther(r) == \E s \in Requests \ {r} : Served(s, process[r], call[r].key)

Routed(r) ==
  TaskFound(r) /\ r \in tasks[call[r].target].by /\ routed[r] = call[r].queue

RepeatsNoTask(r) ==
  Repeats(r) => HasNoTask(r) /\ (stage[r] = "running" => step[r] \in {"start", "seen"})

TransitionIsSound(r) ==
  /\ stage[r] = "running" =>
       /\ HasNoEvent(r)
       /\ step[r] # "start" => TaskFound(r)
       /\ step[r] \in {"start", "update"} => HasNoTask(r)
       /\ step[r] = "createEvent" => previous[r] \in EventsOf(call[r].target) \cup {0}
  /\ stage[r] = "failed" => HasNoEvent(r)
  /\ r \in Answered => HasOneEvent(r)

RouteIsSound(r) ==
  /\ HasNoEvent(r) /\ RepeatsNoTask(r)
  /\ stage[r] = "running" =>
       /\ step[r] # "return" => HasNoTask(r)
       /\ step[r] = "seen" => ServedByOther(r) /\ KnowsTaskKey(r)
       /\ step[r] = "return" => Routed(r)
  /\ r \in Answered =>
       call[r].target \in DOMAIN tasks /\ KnowsTaskKey(r) /\ (Routed(r) \/ ServedByOther(r))

BulkIsSound(r) ==
  /\ HasNoEvent(r) /\ RepeatsNoTask(r)
  /\ stage[r] = "running" /\ step[r] # "return" => HasNoTask(r)
  /\ r \in Answered => KnowsTaskKey(r)

TaskRequest(r) ==
  /\ ~Came(r) \/ call[r].op \notin TaskOps => HasNoEvent(r) /\ HasNoTask(r)
  /\ Came(r) /\ call[r].op = "transition" => TransitionIsSound(r)
  /\ Came(r) /\ call[r].op = "route" => RouteIsSound(r)
  /\ Came(r) /\ call[r].op = "bulkUpdate" => BulkIsSound(r)

TaskKeys ==
  \A p \in Processes : \A k \in taskCache[p] : \E s \in Requests : Served(s, p, k)

EventIsGenuine(i) ==
  LET e == taskEvents[i]
  IN  /\ e.by \in Answered
      /\ call[e.by].target = e.task /\ call[e.by].to = e.to
      /\ call[e.by].tenant = TaskTenant[e.task]
      /\ e.prev # 0 => /\ e.prev \in DOMAIN taskEvents /\ e.prev < i
                       /\ taskEvents[e.prev].task = e.task

StateIsAsked(t) ==
  tasks[t].state # "NEW" =>
    \E r \in Transitions(t) \cap tasks[t].by :
      call[r].to = tasks[t].state /\ call[r].tenant = TaskTenant[t]

TaskInv ==
  /\ TasksTyped /\ TaskKeys
  /\ \A i \in DOMAIN taskEvents : EventIsGenuine(i)
  /\ \A t \in DOMAIN tasks : StateIsAsked(t)
  /\ \A r \in Requests : TaskRequest(r)

-----------------------------------------------------------------------------

\* What a step of request r leaves as it is for the others.
TasksKept(r) ==
  /\ DOMAIN tasks' = DOMAIN tasks
  /\ \A t \in DOMAIN tasks :
       /\ tasks[t].by \subseteq tasks'[t].by
       /\ \A s \in Requests \ {r} : s \in tasks'[t].by => s \in tasks[t].by
  /\ DOMAIN taskEvents \subseteq DOMAIN taskEvents'
  /\ \A i \in DOMAIN taskEvents : taskEvents'[i] = taskEvents[i]
  /\ \A i \in DOMAIN taskEvents' \ DOMAIN taskEvents : taskEvents'[i].by = r
  /\ \A s \in Requests \ {r} : previous'[s] = previous[s] /\ routed'[s] = routed[s]

TaskKeysKept ==
  /\ lapsed \subseteq lapsed'
  /\ \A p \in Processes : p \in lapsed' \/ taskCache[p] \subseteq taskCache'[p]

LEMMA ServedStays ==
  ASSUME AnswersStay, NEW s, NEW p, NEW k, Served(s, p, k)
  PROVE  Served(s, p, k)'
  BY DEF AnswersStay, Served

\* What was so of a request that a step has not moved stays so.
LEMMA RepeatsStays ==
  ASSUME AnswersStay, lapsed \subseteq lapsed', NEW t \in Requests, RequestIsKnown(t),
         call'[t] = call[t], process'[t] = process[t], past'[t] = past[t],
         Repeats(t)'
  PROVE  Repeats(t)
  <1>1. \A s \in past[t].answered : call'[s] = call[s] /\ process'[s] = process[s]
    BY DEF RequestIsKnown, AnswersStay
  <1> QED
    BY <1>1 DEF Repeats

LEMMA TaskRequestStays ==
  ASSUME BaseInv, AnswersStay, TaskKeysKept, NEW r, TasksKept(r),
         NEW t \in Requests, t # r, Steady(t), TaskRequest(t)
  PROVE  TaskRequest(t)'
  <1>1. /\ call'[t] = call[t] /\ process'[t] = process[t] /\ past'[t] = past[t]
        /\ step'[t] = step[t] /\ previous'[t] = previous[t] /\ routed'[t] = routed[t]
    BY DEF Steady, TasksKept
  <1>2. /\ Came(t)' <=> Came(t)
        /\ t \in Answered' <=> t \in Answered
        /\ stage'[t] = "running" => stage[t] = "running"
        /\ stage'[t] = "failed" => stage[t] \in {"running", "failed"}
    BY DEF Steady, Came, Answered
  <1>3. HasNoEvent(t)' <=> HasNoEvent(t)
    BY DEF HasNoEvent, TasksKept
  <1>4. HasNoTask(t)' <=> HasNoTask(t)
    BY DEF HasNoTask, TasksKept
  <1>5. HasOneEvent(t) => HasOneEvent(t)'
    BY DEF HasOneEvent, TasksKept
  <1>6. TaskFound(t)' <=> TaskFound(t)
    BY <1>1 DEF TaskFound, TasksKept
  <1>7. Routed(t) => Routed(t)'
    BY <1>1, <1>6 DEF Routed, TaskFound, TasksKept
  <1>8. ServedByOther(t) => ServedByOther(t)'
    BY <1>1, ServedStays DEF ServedByOther
  <1>9. Came(t) /\ KnowsTaskKey(t) => KnowsTaskKey(t)'
    <2>1. Came(t) => process[t] \in Processes
      BY DEF BaseInv, RequestIsKnown, Came
    <2> QED
      BY <1>1, <2>1 DEF KnowsTaskKey, TaskKeysKept
  <1>10. EventsOf(call[t].target) \subseteq EventsOf(call[t].target)'
    BY <1>1 DEF EventsOf, TasksKept
  <1>11. RepeatsNoTask(t) => RepeatsNoTask(t)'
    BY <1>1, <1>2, <1>4, RepeatsStays DEF RepeatsNoTask, BaseInv, TaskKeysKept
  <1>12. TransitionIsSound(t) => TransitionIsSound(t)'
    BY <1>1, <1>2, <1>3, <1>4, <1>5, <1>6, <1>10 DEF TransitionIsSound
  <1>13. call[t].target \in DOMAIN tasks => call'[t].target \in DOMAIN tasks'
    BY <1>1 DEF TasksKept
  <1>14. Came(t) /\ RouteIsSound(t) => RouteIsSound(t)'
    BY <1>1, <1>2, <1>3, <1>4, <1>7, <1>8, <1>9, <1>11, <1>13 DEF RouteIsSound
  <1>15. Came(t) /\ BulkIsSound(t) => BulkIsSound(t)'
    BY <1>1, <1>2, <1>3, <1>4, <1>9, <1>11 DEF BulkIsSound
  <1> QED
    BY <1>1, <1>2, <1>3, <1>4, <1>12, <1>14, <1>15 DEF TaskRequest

LEMMA GenuineStays ==
  ASSUME AnswersStay, NEW r, TasksKept(r), NEW i \in DOMAIN taskEvents, EventIsGenuine(i)
  PROVE  EventIsGenuine(i)'
  BY DEF EventIsGenuine, TasksKept, AnswersStay

LEMMA AskedStays ==
  ASSUME CameStays, NEW r, TasksKept(r), NEW t \in DOMAIN tasks, StateIsAsked(t),
         tasks'[t].state = tasks[t].state
  PROVE  StateIsAsked(t)'
  <1>1. \A s \in Transitions(t) : s \in Transitions(t)' /\ call'[s] = call[s]
    BY DEF Transitions, CameStays, Came
  <1> QED
    BY <1>1 DEF StateIsAsked, TasksKept

\* The shape of every step of request r, or of none (r = 0), for the tasks.
LEMMA TaskStepHolds ==
  ASSUME BaseInv, TaskInv, AnswersStay, CameStays, TaskKeysKept, NEW r,
         \A t \in Requests \ {r} : Steady(t),
         TasksKept(r), TasksTyped', TaskKeys',
         \A i \in DOMAIN taskEvents' \ DOMAIN taskEvents : EventIsGenuine(i)',
         \A t \in DOMAIN tasks : tasks'[t].state = tasks[t].state \/ StateIsAsked(t)',
         r \in Requests => TaskRequest(r)'
  PROVE  TaskInv'
  <1>1. ASSUME NEW i \in DOMAIN taskEvents' PROVE EventIsGenuine(i)'
    BY GenuineStays DEF TaskInv
  <1>2. ASSUME NEW t \in DOMAIN tasks' PROVE StateIsAsked(t)'
    BY AskedStays DEF TaskInv, TasksKept
  <1>3. ASSUME NEW t \in Requests PROVE TaskRequest(t)'
    BY TaskRequestStays DEF TaskInv
  <1> QED
    BY <1>1, <1>2, <1>3 DEF TaskInv

\* A step that writes no task and no event of a task.
LEMMA TasksUnwritten ==
  ASSUME BaseInv, TaskInv, AnswersStay, CameStays, TaskKeysKept, NEW r,
         \A t \in Requests \ {r} : Steady(t), TaskKeys', TasksTyped',
         UNCHANGED <<tasks, taskEvents>>,
         \A t \in Requests \ {r} : previous'[t] = previous[t] /\ routed'[t] = routed[t],
         r \in Requests => TaskRequest(r)'
  PROVE  TaskInv'
  <1>1. TasksKept(r)
    BY DEF TasksKept
  <1> QED
    BY <1>1, TaskStepHolds

\* Keys are only forgotten, so each that is known was served.
LEMMA KeysStay ==
  ASSUME TaskInv, AnswersStay, \A p \in Processes : taskCache'[p] \subseteq taskCache[p]
  PROVE  TaskKeys'
  BY ServedStays DEF TaskInv, TaskKeys, Processes

\* The steps of other services, and those of the interceptor.
LEMMA TasksElsewhere ==
  ASSUME BaseInv, TaskInv, AnswersStay, CameStays, NEW r, r \in Requests => Arrives(r) \/ Handles(r),
         r \in Requests /\ Handles(r) => call[r].op \notin TaskOps,
         \A t \in Requests \ {r} : Steady(t),
         UNCHANGED <<tasks, taskEvents, existing, previous, routed>>,
         lapsed \subseteq lapsed',
         \A p \in Processes : /\ taskCache'[p] \subseteq taskCache[p]
                              /\ p \in lapsed' \/ taskCache'[p] = taskCache[p]
  PROVE  TaskInv'
  <1>1. TaskKeysKept /\ TaskKeys' /\ TasksTyped'
    BY KeysStay DEF TaskKeysKept, TaskInv, TasksTyped
  <1>2. ASSUME r \in Requests, Arrives(r) PROVE TaskRequest(r)'
    <2>1. HasNoEvent(r) /\ HasNoTask(r)
      BY <1>2 DEF TaskInv, TaskRequest, Came, Arrives
    <2>2. HasNoEvent(r)' /\ HasNoTask(r)'
      BY <2>1 DEF HasNoEvent, HasNoTask
    <2>3. step'[r] = "start" /\ stage'[r] \in {"running", "conflict"} /\ r \notin Answered'
      BY <1>2 DEF Arrives, BaseInv, RequestIsKnown, Answered
    <2> QED
      BY <2>2, <2>3 DEF TaskRequest, TransitionIsSound, RouteIsSound, BulkIsSound,
           RepeatsNoTask
  <1>3. ASSUME r \in Requests, Handles(r) PROVE TaskRequest(r)'
    <2>1. HasNoEvent(r) /\ HasNoTask(r) /\ call'[r] = call[r]
      BY <1>3 DEF TaskInv, TaskRequest, Handles
    <2>2. HasNoEvent(r)' /\ HasNoTask(r)'
      BY <2>1 DEF HasNoEvent, HasNoTask
    <2> QED
      BY <1>3, <2>1, <2>2 DEF TaskRequest, TaskOps
  <1> QED
    BY <1>1, <1>2, <1>3, TasksUnwritten

-----------------------------------------------------------------------------
(* The steps of TasksService *)

\* The handler of request r takes a step.
Serving(r) == BaseInv /\ CachesTyped /\ AnswersStay /\ CameStays /\ Handles(r)

Handling(r) == Serving(r) /\ TaskInv

LEMMA ServingFacts ==
  ASSUME NEW r \in Requests, Serving(r)
  PROVE  /\ call[r] \in Calls /\ process[r] \in Processes
         /\ call'[r] = call[r] /\ process'[r] = process[r] /\ past'[r] = past[r]
         /\ stage[r] = "running" /\ Came(r) /\ Came(r)' /\ r \notin Answered
         /\ r \in Answered' <=> stage'[r] = "answered"
         /\ stage'[r] \in {"running", "answered", "failed"}
         /\ lapsed' = lapsed
         /\ \A s : stage' = [stage EXCEPT ![r] = s] => stage'[r] = s
         /\ \A s : step' = [step EXCEPT ![r] = s] => step'[r] = s
         /\ \A t \in Requests \ {r} : Steady(t)
         /\ BaseInv /\ CachesTyped /\ AnswersStay /\ CameStays /\ Handles(r)
  BY DEF Serving, Handles, BaseInv, Typed, RequestIsKnown, Came, Answered

LEMMA ServingRepeats ==
  ASSUME NEW r \in Requests, Serving(r), Repeats(r)'
  PROVE  Repeats(r)
  <1>1. RequestIsKnown(r)
    BY DEF Serving, BaseInv
  <1> QED
    BY <1>1, ServingFacts, RepeatsStays

LEMMA HandledFacts ==
  ASSUME NEW r \in Requests, Handling(r)
  PROVE  /\ call[r] \in Calls /\ process[r] \in Processes
         /\ call'[r] = call[r] /\ process'[r] = process[r] /\ past'[r] = past[r]
         /\ stage[r] = "running" /\ Came(r) /\ Came(r)' /\ r \notin Answered
         /\ r \in Answered' <=> stage'[r] = "answered"
         /\ stage'[r] \in {"running", "answered", "failed"}
         /\ TaskRequest(r) /\ lapsed' = lapsed
         /\ \A s : stage' = [stage EXCEPT ![r] = s] => stage'[r] = s
         /\ \A s : step' = [step EXCEPT ![r] = s] => step'[r] = s
         /\ \A t \in Requests \ {r} : Steady(t)
         /\ BaseInv /\ CachesTyped /\ AnswersStay /\ CameStays /\ Handles(r)
         /\ Repeats(r)' => Repeats(r)
         /\ TasksTyped /\ TaskKeys
  BY ServingFacts, ServingRepeats DEF Handling, TaskInv

\* A step that changes no table and no cache.
LEMMA TaskMove ==
  ASSUME NEW r \in Requests, Handling(r), UNCHANGED <<tasks, taskEvents, taskCache>>,
         \A t \in Requests \ {r} : previous'[t] = previous[t] /\ routed'[t] = routed[t],
         TasksTyped', TaskRequest(r)'
  PROVE  TaskInv'
  <1>1. TaskKeysKept
    BY HandledFacts DEF TaskKeysKept
  <1>2. TaskKeys'
    BY HandledFacts, KeysStay DEF Handling
  <1> QED
    BY <1>1, <1>2, HandledFacts, TasksUnwritten DEF Handling

\* What such a step leaves of the request itself.
LEMMA TaskSame ==
  ASSUME NEW r \in Requests, Handling(r), UNCHANGED <<tasks, taskEvents>>
  PROVE  /\ HasNoEvent(r)' <=> HasNoEvent(r)
         /\ HasNoTask(r)' <=> HasNoTask(r)
         /\ TaskFound(r)' <=> TaskFound(r)
         /\ EventsOf(call[r].target)' = EventsOf(call[r].target)
         /\ ServedByOther(r) => ServedByOther(r)'
  <1>1. call'[r] = call[r] /\ process'[r] = process[r]
    BY HandledFacts
  <1>2. ServedByOther(r) => ServedByOther(r)'
    BY <1>1, HandledFacts, ServedStays DEF ServedByOther
  <1> QED
    BY <1>1, <1>2 DEF HasNoEvent, HasNoTask, TaskFound, EventsOf

LEMMA findTaskHolds ==
  ASSUME NEW r \in Requests, Handling(r), findTask(r)
  PROVE  TaskInv'
  <1>1. /\ step[r] = "start" /\ call[r].op = "transition"
        /\ UNCHANGED <<tasks, taskEvents, taskCache, previous, routed>>
    BY DEF findTask, At
  <1>2. TransitionIsSound(r) /\ HasNoEvent(r) /\ HasNoTask(r)
    BY <1>1, HandledFacts DEF TaskRequest, TransitionIsSound
  <1>3. HasNoEvent(r)' /\ HasNoTask(r)' /\ (TaskFound(r)' <=> TaskFound(r))
    BY <1>1, <1>2, TaskSame
  <1>4. CASE /\ TaskFound(r) /\ Goto(r, "update") /\ UNCHANGED interceptorVars
             /\ existing' = [existing EXCEPT ![r] = tasks[call[r].target].state]
    <2>1. step'[r] = "update" /\ stage'[r] = "running"
      BY <1>4, HandledFacts DEF Goto, interceptorVars
    <2>2. tasks[call[r].target].state \in TaskStates
      BY <1>4 DEF TaskFound, Handling, TaskInv, TasksTyped, TaskRows
    <2>3. TasksTyped'
      BY <1>1, <1>4, <2>2 DEF Handling, TaskInv, TasksTyped
    <2>4. TaskRequest(r)'
      BY <1>1, <1>3, <1>4, <2>1, HandledFacts DEF TaskRequest, TransitionIsSound, TaskOps
    <2> QED
      BY <1>1, <2>3, <2>4, TaskMove
  <1>5. CASE Throw(r) /\ UNCHANGED <<step, existing>>
    <2>1. stage'[r] = "failed"
      BY <1>5, HandledFacts DEF Throw
    <2>2. TasksTyped'
      BY <1>1, <1>5 DEF Handling, TaskInv, TasksTyped
    <2>3. TaskRequest(r)'
      BY <1>1, <1>3, <2>1, HandledFacts DEF TaskRequest, TransitionIsSound, TaskOps
    <2> QED
      BY <1>1, <2>2, <2>3, TaskMove
  <1> QED
    BY <1>4, <1>5 DEF findTask

LEMMA updateTaskHolds ==
  ASSUME NEW r \in Requests, Handling(r), updateTask(r)
  PROVE  TaskInv'
  <1>1. PICK x : x = call[r].target
    OBVIOUS
  <1> DEFINE row == [tasks[x] EXCEPT !.state = call[r].to, !.by = @ \cup {r}]
  <1>2. /\ step[r] = "update" /\ call[r].op = "transition"
        /\ tasks' = [tasks EXCEPT ![x].state = call[r].to, ![x].by = @ \cup {r}]
        /\ UNCHANGED <<taskEvents, taskCache, existing, previous, routed>>
        /\ Goto(r, "findEvent") /\ UNCHANGED interceptorVars
    BY <1>1 DEF updateTask, At
  <1>3. TransitionIsSound(r) /\ HasNoEvent(r) /\ TaskFound(r)
    BY <1>2, HandledFacts DEF TaskRequest, TransitionIsSound
  <1>4. /\ x \in DOMAIN tasks /\ tasks[x] \in TaskRows
        /\ tasks \in [DOMAIN TaskTenant -> TaskRows]
    BY <1>1, <1>3 DEF TaskFound, Handling, TaskInv, TasksTyped
  <1>5. call[r].to \in TaskStates
    BY HandledFacts DEF TaskStates
  <1>6. row \in TaskRows /\ row.state = call[r].to /\ row.by = tasks[x].by \cup {r}
    BY <1>4, <1>5 DEF TaskRows
  <1>7. tasks' = [tasks EXCEPT ![x] = row]
    BY <1>2, <1>4
  <1> HIDE DEF row
  <1>8. /\ DOMAIN tasks' = DOMAIN tasks /\ tasks'[x] = row
        /\ \A t \in DOMAIN tasks \ {x} : tasks'[t] = tasks[t]
        /\ tasks' \in [DOMAIN TaskTenant -> TaskRows]
    BY <1>4, <1>6, <1>7
  <1>9. TasksTyped'
    BY <1>2, <1>8 DEF Handling, TaskInv, TasksTyped
  <1>10. TasksKept(r)
    <2>1. \A t \in DOMAIN tasks :
            /\ tasks[t].by \subseteq tasks'[t].by
            /\ \A s \in Requests \ {r} : s \in tasks'[t].by => s \in tasks[t].by
      BY <1>6, <1>8
    <2> QED
      BY <1>2, <1>8, <2>1 DEF TasksKept
  <1>11. stage'[r] = "running" /\ step'[r] = "findEvent"
    BY <1>2, HandledFacts DEF Goto, interceptorVars
  <1>12. StateIsAsked(x)'
    <2>1. r \in Transitions(x)'
      BY <1>1, <1>2, <1>11, HandledFacts DEF Transitions
    <2>2. call'[r].to = tasks'[x].state /\ call'[r].tenant = TaskTenant[x] /\ r \in tasks'[x].by
      BY <1>1, <1>3, <1>6, <1>8, HandledFacts DEF TaskFound
    <2> QED
      BY <2>1, <2>2 DEF StateIsAsked
  <1>13. TaskRequest(r)'
    <2>1. HasNoEvent(r)' /\ TaskFound(r)'
      BY <1>2, <1>3, <1>8, HandledFacts DEF HasNoEvent, TaskFound
    <2> QED
      BY <1>2, <1>11, <2>1, HandledFacts DEF TaskRequest, TransitionIsSound, TaskOps
  <1>14. TaskKeysKept /\ TaskKeys'
    BY <1>2, HandledFacts, KeysStay DEF TaskKeysKept, Handling
  <1>15. \A t \in DOMAIN tasks : tasks'[t].state = tasks[t].state \/ StateIsAsked(t)'
    BY <1>8, <1>12
  <1> QED
    BY <1>2, <1>9, <1>10, <1>13, <1>14, <1>15, HandledFacts, TaskStepHolds DEF Handling

LEMMA findPreviousEventHolds ==
  ASSUME NEW r \in Requests, Handling(r), findPreviousEvent(r)
  PROVE  TaskInv'
  <1>1. /\ step[r] = "findEvent" /\ call[r].op = "transition"
        /\ UNCHANGED <<tasks, taskEvents, taskCache, existing, routed>>
        /\ Goto(r, "createEvent") /\ UNCHANGED interceptorVars
    BY DEF findPreviousEvent, At
  <1>2. PICK i \in EventsOf(call[r].target) \cup {0} : previous' = [previous EXCEPT ![r] = i]
    BY DEF findPreviousEvent
  <1>3. TransitionIsSound(r) /\ HasNoEvent(r) /\ TaskFound(r)
    BY <1>1, HandledFacts DEF TaskRequest, TransitionIsSound
  <1>4. stage'[r] = "running" /\ step'[r] = "createEvent"
    BY <1>1, HandledFacts DEF Goto, interceptorVars
  <1>5. i \in Nat
    BY LenProperties DEF Handling, TaskInv, TasksTyped, EventsOf
  <1>6. TasksTyped' /\ previous'[r] = i
        /\ \A t \in Requests \ {r} : previous'[t] = previous[t]
    BY <1>1, <1>2, <1>5 DEF Handling, TaskInv, TasksTyped
  <1>7. TaskRequest(r)'
    <2>1. HasNoEvent(r)' /\ TaskFound(r)'
          /\ EventsOf(call[r].target)' = EventsOf(call[r].target)
      BY <1>1, <1>3, TaskSame
    <2>2. call'[r] = call[r]
      BY HandledFacts
    <2>3. previous'[r] \in EventsOf(call[r].target)' \cup {0}
      BY <1>2, <1>6, <2>1, <2>2
    <2> QED
      BY <1>1, <1>4, <2>1, <2>2, <2>3, HandledFacts DEF TaskRequest, TransitionIsSound, TaskOps
  <1> QED
    BY <1>1, <1>6, <1>7, TaskMove

LEMMA createTaskEventHolds ==
  ASSUME NEW r \in Requests, Handling(r), createTaskEvent(r)
  PROVE  TaskInv'
  <1> DEFINE row == [task |-> call[r].target, from |-> existing[r], to |-> call[r].to,
                     prev |-> previous[r], by |-> r]
             t == Append(taskEvents, row)
  <1>1. PICK n : n = Len(taskEvents)
    OBVIOUS
  <1>2. /\ step[r] = "createEvent" /\ call[r].op = "transition"
        /\ taskEvents' = t /\ Answer(r)
        /\ UNCHANGED <<tasks, taskCache, existing, previous, routed>>
    BY DEF createTaskEvent, At
  <1>3. HasNoEvent(r) /\ TaskFound(r) /\ previous[r] \in EventsOf(call[r].target) \cup {0}
    BY <1>2, HandledFacts DEF TaskRequest, TransitionIsSound
  <1>4. /\ taskEvents \in Seq(TaskEventRows) /\ existing[r] \in TaskStates
        /\ previous[r] \in Nat /\ call[r].target \in DOMAIN TaskTenant
    BY <1>3 DEF Handling, TaskInv, TasksTyped, TaskFound
  <1>5. /\ row \in TaskEventRows /\ row.task = call[r].target /\ row.to = call[r].to
        /\ row.prev = previous[r] /\ row.by = r
    BY <1>4, HandledFacts DEF TaskEventRows, TaskStates
  <1> HIDE DEF row
  <1>6. /\ t \in Seq(TaskEventRows) /\ n \in Nat
        /\ DOMAIN taskEvents = 1..n /\ DOMAIN t = 1..(n + 1)
        /\ t[n + 1] = row /\ \A i \in 1..n : t[i] = taskEvents[i]
    BY <1>1, <1>4, <1>5, AppendProperties, LenProperties
  <1> HIDE DEF t
  <1>7. TasksTyped'
    BY <1>2, <1>6 DEF Handling, TaskInv, TasksTyped
  <1>8. TasksKept(r)
    BY <1>2, <1>5, <1>6 DEF TasksKept
  <1>9. stage'[r] = "answered"
    BY <1>2, HandledFacts DEF Answer
  <1>10. EventIsGenuine(n + 1)'
    <2>1. taskEvents'[n + 1] = row /\ row.by \in Answered' /\ call'[r] = call[r]
      BY <1>2, <1>5, <1>6, <1>9, HandledFacts
    <2>2. call'[row.by].target = row.task /\ call'[row.by].to = row.to
          /\ call'[row.by].tenant = TaskTenant[row.task]
      BY <1>3, <1>5, <2>1 DEF TaskFound
    <2>3. row.prev # 0 => /\ row.prev \in DOMAIN taskEvents' /\ row.prev < n + 1
                          /\ taskEvents'[row.prev].task = row.task
      BY <1>2, <1>3, <1>5, <1>6 DEF EventsOf
    <2> QED
      BY <2>1, <2>2, <2>3 DEF EventIsGenuine
  <1>11. TaskRequest(r)'
    <2>1. \A j \in DOMAIN taskEvents' : taskEvents'[j].by = r <=> j = n + 1
      BY <1>2, <1>3, <1>5, <1>6 DEF HasNoEvent
    <2>2. HasOneEvent(r)'
      BY <1>2, <1>6, <2>1 DEF HasOneEvent
    <2> QED
      BY <1>2, <1>9, <2>2, HandledFacts DEF TaskRequest, TransitionIsSound, TaskOps
  <1>12. TaskKeysKept /\ TaskKeys'
    BY <1>2, HandledFacts, KeysStay DEF TaskKeysKept, Handling
  <1>13. \A i \in DOMAIN taskEvents' \ DOMAIN taskEvents : EventIsGenuine(i)'
    BY <1>2, <1>6, <1>10
  <1> QED
    BY <1>2, <1>7, <1>8, <1>11, <1>12, <1>13, HandledFacts, TaskStepHolds DEF Handling

\* The first call with the key of a repeat was answered: its process knows the key,
\* and the task it was to route is there.
LEMMA TaskRepeatIsKnown ==
  ASSUME BaseInv, TaskInv, NEW r \in Requests, Repeats(r),
         call[r].op \in {"bulkUpdate", "route"}
  PROVE  /\ call[r].key \in taskCache[process[r]]
         /\ call[r].op = "route" => call[r].target \in DOMAIN tasks
  <1>1. PICK s \in past[r].answered :
          call[r] = call[s] /\ process[r] = process[s] /\ process[r] \notin lapsed
    BY DEF Repeats
  <1>2. s \in Requests /\ s \in Answered /\ Came(s)
    BY <1>1 DEF BaseInv, RequestIsKnown, Answered, Came
  <1>3. /\ KnowsTaskKey(s)
        /\ call[s].op = "route" => call[s].target \in DOMAIN tasks
    BY <1>1, <1>2 DEF TaskInv, TaskRequest, RouteIsSound, BulkIsSound
  <1> QED
    BY <1>1, <1>3 DEF KnowsTaskKey

LEMMA hasSeenTaskKeyHolds ==
  ASSUME NEW r \in Requests, Handling(r), hasSeenTaskKey(r)
  PROVE  TaskInv'
  <1> DEFINE seen == call[r].key \in taskCache[process[r]]
  <1>1. /\ step[r] = "start" /\ call[r].op \in {"bulkUpdate", "route"}
        /\ UNCHANGED <<tasks, taskEvents, taskCache, existing, previous, routed>>
    BY DEF hasSeenTaskKey, At, taskVars
  <1>2. HasNoEvent(r)' /\ HasNoTask(r)'
    <2>1. HasNoEvent(r) /\ HasNoTask(r)
      BY <1>1, HandledFacts DEF TaskRequest, RouteIsSound, BulkIsSound
    <2> QED
      BY <1>1, <2>1, TaskSame
  <1>3. TasksTyped' /\ TaskKeysKept
    BY <1>1, HandledFacts DEF Handling, TaskInv, TasksTyped, TaskKeysKept
  <1>4. /\ seen => KnowsTaskKey(r)'
        /\ Repeats(r)' => seen
    BY <1>1, <1>3, HandledFacts, TaskRepeatIsKnown DEF KnowsTaskKey, Handling
  <1>5. CASE seen /\ call[r].op = "bulkUpdate"
    <2>1. stage'[r] = "answered"
      BY <1>1, <1>5, HandledFacts DEF hasSeenTaskKey, Answer
    <2>2. TaskRequest(r)'
      BY <1>1, <1>2, <1>4, <1>5, <2>1, HandledFacts
         DEF TaskRequest, BulkIsSound, RepeatsNoTask, TaskOps
    <2> QED
      BY <1>1, <1>3, <2>2, TaskMove
  <1>6. CASE ~seen
    <2>1. stage'[r] = "running" /\ step'[r] = "update"
      BY <1>1, <1>6, HandledFacts DEF hasSeenTaskKey, Goto, interceptorVars
    <2>2. TaskRequest(r)'
      BY <1>1, <1>2, <1>4, <1>6, <2>1, HandledFacts
         DEF TaskRequest, BulkIsSound, RouteIsSound, RepeatsNoTask, TaskOps
    <2> QED
      BY <1>1, <1>3, <2>2, TaskMove
  <1>7. CASE seen /\ call[r].op = "route"
    <2>1. stage'[r] = "running" /\ step'[r] = "seen"
      BY <1>1, <1>7, HandledFacts DEF hasSeenTaskKey, Goto, interceptorVars
    <2>2. ServedByOther(r)
      BY <1>7, HandledFacts DEF ServedByOther, Handling, TaskInv, TaskKeys, Served
    <2>3. ServedByOther(r)'
      BY <1>1, <2>2, TaskSame
    <2>4. TaskRequest(r)'
      BY <1>1, <1>2, <1>4, <1>7, <2>1, <2>3, HandledFacts
         DEF TaskRequest, RouteIsSound, RepeatsNoTask, TaskOps
    <2> QED
      BY <1>1, <1>3, <2>4, TaskMove
  <1> QED
    BY <1>1, <1>5, <1>6, <1>7

LEMMA bulkUpdateHolds ==
  ASSUME NEW r \in Requests, Handling(r), bulkUpdate(r)
  PROVE  TaskInv'
  <1> DEFINE row(t) ==
        IF t \notin call[r].targets \/ TaskTenant[t] # call[r].tenant THEN tasks[t]
        ELSE [tasks[t] EXCEPT !.owner = IF call[r].owner = NoUser THEN @ ELSE call[r].owner,
                              !.by = @ \cup {r}]
  <1>1. /\ step[r] = "update" /\ call[r].op = "bulkUpdate"
        /\ tasks' = [t \in DOMAIN tasks |-> row(t)]
        /\ UNCHANGED <<taskEvents, taskCache, existing, previous, routed>>
        /\ Goto(r, "return") /\ UNCHANGED interceptorVars
    BY DEF bulkUpdate, At
  <1>2. BulkIsSound(r) /\ HasNoEvent(r) /\ ~Repeats(r)
    BY <1>1, HandledFacts DEF TaskRequest, BulkIsSound, RepeatsNoTask
  <1>3. tasks \in [DOMAIN TaskTenant -> TaskRows]
    BY DEF Handling, TaskInv, TasksTyped
  <1>4. call[r].owner \in {NoUser} \cup {c.owner : c \in Calls}
    BY HandledFacts
  <1>5. ASSUME NEW t \in DOMAIN tasks
        PROVE  /\ row(t) \in TaskRows /\ row(t).state = tasks[t].state
               /\ row(t).by \in {tasks[t].by, tasks[t].by \cup {r}}
    <2>1. tasks[t] \in TaskRows
      BY <1>3
    <2> QED
      BY <1>4, <2>1 DEF TaskRows
  <1> HIDE DEF row
  <1>6. /\ DOMAIN tasks' = DOMAIN tasks /\ tasks' \in [DOMAIN TaskTenant -> TaskRows]
        /\ \A t \in DOMAIN tasks :
             /\ tasks'[t].state = tasks[t].state
             /\ tasks'[t].by \in {tasks[t].by, tasks[t].by \cup {r}}
    BY <1>1, <1>3, <1>5
  <1>7. TasksTyped'
    BY <1>1, <1>6 DEF Handling, TaskInv, TasksTyped
  <1>8. TasksKept(r)
    <2>1. \A t \in DOMAIN tasks :
            /\ tasks[t].by \subseteq tasks'[t].by
            /\ \A s \in Requests \ {r} : s \in tasks'[t].by => s \in tasks[t].by
      BY <1>6
    <2> QED
      BY <1>1, <1>6, <2>1 DEF TasksKept
  <1>9. stage'[r] = "running" /\ step'[r] = "return"
    BY <1>1, HandledFacts DEF Goto, interceptorVars
  <1>10. TaskKeysKept /\ TaskKeys'
    BY <1>1, HandledFacts, KeysStay DEF TaskKeysKept, Handling
  <1>11. TaskRequest(r)'
    <2>1. HasNoEvent(r)' /\ ~Repeats(r)'
      BY <1>1, <1>2, <1>10, HandledFacts DEF HasNoEvent
    <2> QED
      BY <1>1, <1>9, <2>1, HandledFacts DEF TaskRequest, BulkIsSound, RepeatsNoTask, TaskOps
  <1> QED
    BY <1>1, <1>6, <1>7, <1>8, <1>10, <1>11, HandledFacts, TaskStepHolds DEF Handling

LEMMA findRoutedHolds ==
  ASSUME NEW r \in Requests, Handling(r), findRouted(r)
  PROVE  TaskInv'
  <1>1. /\ step[r] = "seen" /\ call[r].op = "route"
        /\ UNCHANGED <<tasks, taskEvents, taskCache, existing, previous>>
    BY DEF findRouted, At
  <1>2. /\ HasNoEvent(r) /\ HasNoTask(r) /\ ServedByOther(r) /\ KnowsTaskKey(r)
    BY <1>1, HandledFacts DEF TaskRequest, RouteIsSound
  <1>3. HasNoEvent(r)' /\ HasNoTask(r)' /\ ServedByOther(r)'
    BY <1>1, <1>2, TaskSame
  <1>4. TaskKeysKept
    BY <1>1, HandledFacts DEF TaskKeysKept
  <1>5. KnowsTaskKey(r)'
    BY <1>1, <1>2, HandledFacts DEF KnowsTaskKey
  <1>6. CASE call[r].target \in DOMAIN tasks
    <2>1. /\ routed' = [routed EXCEPT ![r] = tasks[call[r].target].queue] /\ Answer(r)
          /\ UNCHANGED step
      BY <1>6 DEF findRouted
    <2>2. stage'[r] = "answered"
      BY <2>1, HandledFacts DEF Answer
    <2>3. TasksTyped' /\ \A t \in Requests \ {r} : routed'[t] = routed[t]
      BY <1>1, <2>1 DEF Handling, TaskInv, TasksTyped
    <2>4. call'[r].target \in DOMAIN tasks'
      BY <1>1, <1>6, HandledFacts
    <2>5. TaskRequest(r)'
      BY <1>1, <1>3, <1>5, <2>2, <2>4, HandledFacts
         DEF TaskRequest, RouteIsSound, RepeatsNoTask, TaskOps
    <2> QED
      BY <1>1, <2>3, <2>5, TaskMove
  <1>7. CASE call[r].target \notin DOMAIN tasks
    <2>1. Goto(r, "update") /\ UNCHANGED <<stage, routed>>
      BY <1>7 DEF findRouted, interceptorVars
    <2>2. stage'[r] = "running" /\ step'[r] = "update"
      BY <2>1, HandledFacts DEF Goto
    <2>3. TasksTyped'
      BY <1>1, <2>1 DEF Handling, TaskInv, TasksTyped
    <2>4. ~Repeats(r)'
      BY <1>1, <1>4, <1>7, HandledFacts, TaskRepeatIsKnown DEF Handling
    <2>5. TaskRequest(r)'
      BY <1>1, <1>3, <2>2, <2>4, HandledFacts
         DEF TaskRequest, RouteIsSound, RepeatsNoTask, TaskOps
    <2> QED
      BY <1>1, <2>1, <2>3, <2>5, TaskMove
  <1> QED
    BY <1>6, <1>7

LEMMA routeTaskHolds ==
  ASSUME NEW r \in Requests, Handling(r), routeTask(r)
  PROVE  TaskInv'
  <1>1. /\ step[r] = "update" /\ call[r].op = "route"
        /\ UNCHANGED <<taskEvents, taskCache, existing, previous>>
    BY DEF routeTask, At
  <1>2. HasNoEvent(r) /\ HasNoTask(r) /\ ~Repeats(r)
    BY <1>1, HandledFacts DEF TaskRequest, RouteIsSound, RepeatsNoTask
  <1>3. TaskKeysKept /\ TaskKeys'
    BY <1>1, HandledFacts, KeysStay DEF TaskKeysKept, Handling
  <1>4. HasNoEvent(r)' /\ ~Repeats(r)'
    BY <1>1, <1>2, <1>3, HandledFacts DEF HasNoEvent
  <1>5. CASE ~TaskFound(r)
    <2>1. Throw(r) /\ UNCHANGED <<step, tasks, routed>>
      BY <1>5 DEF routeTask
    <2>2. stage'[r] = "failed"
      BY <2>1, HandledFacts DEF Throw
    <2>3. TasksTyped'
      BY <1>1, <2>1 DEF Handling, TaskInv, TasksTyped
    <2>4. TaskRequest(r)'
      BY <1>1, <1>4, <2>2, HandledFacts
         DEF TaskRequest, RouteIsSound, RepeatsNoTask, TaskOps
    <2> QED
      BY <1>1, <2>1, <2>3, <2>4, TaskMove
  <1>6. CASE TaskFound(r)
    <2>1. PICK x : x = call[r].target
      OBVIOUS
    <2> DEFINE row == [tasks[x] EXCEPT !.queue = call[r].queue, !.owner = NoUser,
                                       !.by = @ \cup {r}]
    <2>2. /\ tasks' = [tasks EXCEPT ![x].queue = call[r].queue, ![x].owner = NoUser,
                                    ![x].by = @ \cup {r}]
          /\ routed' = [routed EXCEPT ![r] = call[r].queue]
          /\ Goto(r, "return") /\ UNCHANGED interceptorVars
      BY <1>6, <2>1 DEF routeTask
    <2>3. /\ x \in DOMAIN tasks /\ tasks[x] \in TaskRows
          /\ tasks \in [DOMAIN TaskTenant -> TaskRows]
      BY <1>6, <2>1 DEF TaskFound, Handling, TaskInv, TasksTyped
    <2>4. call[r].queue \in {"default"} \cup {c.queue : c \in Calls}
      BY HandledFacts
    <2>5. row \in TaskRows /\ row.state = tasks[x].state /\ row.by = tasks[x].by \cup {r}
      BY <2>3, <2>4 DEF TaskRows
    <2>6. tasks' = [tasks EXCEPT ![x] = row]
      BY <2>2, <2>3
    <2> HIDE DEF row
    <2>7. /\ DOMAIN tasks' = DOMAIN tasks /\ tasks'[x] = row
          /\ \A t \in DOMAIN tasks \ {x} : tasks'[t] = tasks[t]
          /\ tasks' \in [DOMAIN TaskTenant -> TaskRows]
      BY <2>3, <2>5, <2>6
    <2>8. /\ TasksTyped' /\ routed'[r] = call[r].queue
          /\ \A t \in Requests \ {r} : routed'[t] = routed[t]
      BY <1>1, <2>2, <2>7 DEF Handling, TaskInv, TasksTyped
    <2>9. TasksKept(r)
      <3>1. \A t \in DOMAIN tasks :
              /\ tasks[t].by \subseteq tasks'[t].by
              /\ \A s \in Requests \ {r} : s \in tasks'[t].by => s \in tasks[t].by
        BY <2>5, <2>7
      <3> QED
        BY <1>1, <2>7, <2>8, <3>1 DEF TasksKept
    <2>10. stage'[r] = "running" /\ step'[r] = "return"
      BY <2>2, HandledFacts DEF Goto, interceptorVars
    <2>11. Routed(r)'
      BY <1>6, <2>1, <2>5, <2>7, <2>8, HandledFacts DEF Routed, TaskFound
    <2>12. TaskRequest(r)'
      BY <1>1, <1>4, <2>10, <2>11, HandledFacts
         DEF TaskRequest, RouteIsSound, RepeatsNoTask, TaskOps
    <2>13. \A t \in DOMAIN tasks : tasks'[t].state = tasks[t].state
      BY <2>5, <2>7
    <2> QED
      BY <1>1, <1>3, <2>8, <2>9, <2>12, <2>13, HandledFacts, TaskStepHolds DEF Handling
  <1> QED
    BY <1>5, <1>6

LEMMA rememberTaskKeyHolds ==
  ASSUME NEW r \in Requests, Handling(r), rememberTaskKey(r)
  PROVE  TaskInv'
  <1>1. /\ step[r] = "return" /\ call[r].op \in {"bulkUpdate", "route"}
        /\ taskCache' = [taskCache EXCEPT ![process[r]] = @ \cup {call[r].key}]
        /\ UNCHANGED <<step, tasks, taskEvents, existing, previous, routed>>
        /\ Answer(r)
    BY DEF rememberTaskKey, At
  <1>2. \A p \in Processes :
          taskCache'[p] = IF p = process[r] THEN taskCache[p] \cup {call[r].key}
                          ELSE taskCache[p]
    BY <1>1, HandledFacts DEF Handling, CachesTyped
  <1>3. TaskKeysKept
    BY <1>2, HandledFacts DEF TaskKeysKept
  <1>4. stage'[r] = "answered"
    BY <1>1, HandledFacts DEF Answer
  <1>5. Served(r, process[r], call[r].key)'
    BY <1>1, <1>4, HandledFacts DEF Served
  <1>6. TaskKeys'
    <2>1. ASSUME NEW p \in Processes, NEW k \in taskCache'[p]
          PROVE  \E s \in Requests : Served(s, p, k)'
      <3>1. CASE k \in taskCache[p]
        BY <3>1, HandledFacts, ServedStays DEF TaskKeys
      <3>2. CASE p = process[r] /\ k = call[r].key
        BY <1>5, <3>2, HandledFacts DEF Served
      <3> QED
        BY <1>2, <3>1, <3>2
    <2> QED
      BY <2>1 DEF TaskKeys, Processes
  <1>7. HasNoEvent(r)' /\ ~Repeats(r)'
    <2>1. HasNoEvent(r) /\ ~Repeats(r)
      BY <1>1, HandledFacts DEF TaskRequest, RouteIsSound, BulkIsSound, RepeatsNoTask
    <2> QED
      BY <1>1, <1>3, <2>1, HandledFacts, TaskSame
  <1>8. KnowsTaskKey(r)'
    BY <1>2, HandledFacts DEF KnowsTaskKey
  <1>9. call[r].op = "route" => Routed(r)'
    <2>1. call[r].op = "route" => Routed(r)
      BY <1>1, HandledFacts DEF TaskRequest, RouteIsSound
    <2> QED
      BY <1>1, <2>1, HandledFacts DEF Routed, TaskFound
  <1>10. TaskRequest(r)'
    BY <1>1, <1>4, <1>7, <1>8, <1>9, HandledFacts
       DEF TaskRequest, RouteIsSound, BulkIsSound, RepeatsNoTask, Routed, TaskFound, TaskOps
  <1>11. TasksTyped'
    BY <1>1 DEF Handling, TaskInv, TasksTyped
  <1> QED
    BY <1>1, <1>3, <1>6, <1>10, <1>11, HandledFacts, TasksUnwritten DEF Handling

LEMMA TasksHold ==
  ASSUME BaseInv, CachesTyped, TaskInv, [Next]_vars
  PROVE  TaskInv'
  <1>1. ASSUME NEW r \in Requests, Arrives(r) PROVE TaskInv'
    <2>1. ~Handles(r) /\ lapsed' = lapsed /\ UNCHANGED <<taskCache, tables>>
      BY <1>1 DEF Arrives, Handles
    <2> QED
      BY <1>1, <2>1, StayLemma, TasksElsewhere DEF Arrives, tables
  <1>2. CASE Ends
    <2>1. 0 \notin Requests
      BY DEF Requests
    <2> QED
      BY <1>2, <2>1, StayLemma, TasksElsewhere DEF Ends, tables
  <1>3. ASSUME NEW r \in Requests, Handles(r), TaskStep(r) PROVE TaskInv'
    <2>1. Handling(r)
      BY <1>3, StayLemma DEF Handling, Serving
    <2> QED
      BY <1>3, <2>1, findTaskHolds, updateTaskHolds, findPreviousEventHolds,
         createTaskEventHolds, hasSeenTaskKeyHolds, bulkUpdateHolds, findRoutedHolds,
         routeTaskHolds, rememberTaskKeyHolds DEF TaskStep
  <1>4. ASSUME NEW r \in Requests, Handles(r), WebhookStep(r) \/ QuoteStep(r),
               UNCHANGED taskVars
        PROVE  TaskInv'
    <2>1. call[r].op \in {"ingest", "quote"}
      BY <1>4 DEF WebhookStep, ingest, findSender, createWebhook, rememberWebhook,
           QuoteStep, LinkEvent, RecordEvent, Adapter, PersistQuotes, ReturnQuote, At
    <2>2. call[r].op \notin TaskOps
      BY <2>1 DEF TaskOps
    <2> QED
      BY <1>4, <2>2, StayLemma, TasksElsewhere DEF Handles, taskVars
  <1> QED
    BY <1>1, <1>2, <1>3, <1>4, Kinds DEF Handler

LEMMA TasksBegin == Init => TaskInv
  <1> SUFFICES ASSUME Init PROVE TaskInv
    OBVIOUS
  <1>1. /\ stage = [r \in Requests |-> "idle"]
        /\ tasks = [t \in DOMAIN TaskTenant |->
                      [state |-> "NEW", queue |-> "default", owner |-> NoUser, by |-> {}]]
        /\ taskEvents = <<>> /\ taskCache = [p \in Processes |-> {}]
        /\ existing = [r \in Requests |-> "NEW"] /\ previous = [r \in Requests |-> 0]
        /\ routed = [r \in Requests |-> ""]
    BY DEF Init, RecordInit, TasksInit
  <1>2. TasksTyped
    <2> DEFINE new == [state |-> "NEW", queue |-> "default", owner |-> NoUser, by |-> {}]
    <2>1. new \in TaskRows
      BY DEF TaskRows, TaskStates
    <2> HIDE DEF new
    <2>2. tasks \in [DOMAIN TaskTenant -> TaskRows]
      BY <1>1, <2>1 DEF new
    <2>3. taskEvents \in Seq(TaskEventRows)
      BY <1>1, EmptySeq
    <2>4. existing \in [Requests -> TaskStates] /\ previous \in [Requests -> Nat]
          /\ routed = [r \in Requests |-> routed[r]]
      BY <1>1 DEF TaskStates
    <2> QED
      BY <2>2, <2>3, <2>4 DEF TasksTyped
  <1>3. DOMAIN taskEvents = {}
    <2>1. taskEvents = <<>>
      BY <1>1
    <2> QED
      BY <2>1
  <1>4. ASSUME NEW r \in Requests PROVE TaskRequest(r)
    <2>1. HasNoEvent(r) /\ HasNoTask(r) /\ ~Came(r)
      BY <1>3, <1>1 DEF HasNoEvent, HasNoTask, Came
    <2> QED
      BY <2>1 DEF TaskRequest
  <1>5. \A t \in DOMAIN tasks : StateIsAsked(t)
    BY <1>1 DEF StateIsAsked
  <1>6. TaskKeys /\ \A i \in DOMAIN taskEvents : EventIsGenuine(i)
    BY <1>3, <1>1 DEF TaskKeys
  <1> QED
    BY <1>2, <1>4, <1>5, <1>6 DEF TaskInv

-----------------------------------------------------------------------------
(* Webhooks *)

WebhookRows == [tenant : Tenants, vendor : VendorRows, by : Requests, signatureValid : BOOLEAN]

WebhooksTyped ==
  /\ webhooks \in Seq(WebhookRows) /\ sender = [r \in Requests |-> sender[r]]
  /\ receipt \in [Requests -> [id : Nat, signatureValid : BOOLEAN]]

HasNoWebhook(r) == \A i \in DOMAIN webhooks : webhooks[i].by # r

WebhookIsGenuine(i) ==
  LET w == webhooks[i]
  IN  /\ Came(w.by) /\ call[w.by].op = "ingest" /\ w.vendor \in Senders(call[w.by])
      /\ w.signatureValid => call[w.by].signature = w.vendor

KnowsWebhookKey(r) ==
  process[r] \in lapsed \/ call[r].key \in DOMAIN webhookCache[process[r]]

\* What a process keeps for a key is a webhook that it has stored under that key.
Keeps(p, k, i) ==
  /\ i \in DOMAIN webhooks /\ webhooks[i].by \in Answered
  /\ call[webhooks[i].by].key = k /\ process[webhooks[i].by] = p

Told(r) ==
  LET w == webhooks[receipt[r].id]
  IN  /\ receipt[r].id \in DOMAIN webhooks /\ w.by = r
      /\ receipt[r].signatureValid = w.signatureValid

ToldAgain(r) ==
  Keeps(process[r], call[r].key, receipt[r].id) /\ webhooks[receipt[r].id].by # r

DeliveryIsSound(r) ==
  /\ stage[r] = "running" =>
       /\ step[r] # "return" => HasNoWebhook(r)
       /\ step[r] = "webhook" => sender[r] \in Senders(call[r])
       /\ step[r] = "return" => Told(r)
  /\ r \in Answered => KnowsWebhookKey(r) /\ (Told(r) \/ ToldAgain(r))
  /\ Repeats(r) => HasNoWebhook(r) /\ (stage[r] = "running" => step[r] = "start")

WebhookKeys ==
  \A p \in Processes : \A k \in DOMAIN webhookCache[p] : Keeps(p, k, webhookCache[p][k])

WebhookInv ==
  /\ WebhooksTyped /\ WebhookKeys
  /\ \A i \in DOMAIN webhooks : WebhookIsGenuine(i)
  /\ \A r \in Requests : Came(r) /\ call[r].op = "ingest" => DeliveryIsSound(r)

\* What a step of request r leaves as it is for the others.
WebhooksKept(r) ==
  /\ DOMAIN webhooks \subseteq DOMAIN webhooks'
  /\ \A i \in DOMAIN webhooks : webhooks'[i] = webhooks[i]
  /\ \A i \in DOMAIN webhooks' \ DOMAIN webhooks : webhooks'[i].by = r
  /\ \A s \in Requests \ {r} : sender'[s] = sender[s] /\ receipt'[s] = receipt[s]

WebhookKeysKept ==
  /\ lapsed \subseteq lapsed'
  /\ \A p \in Processes : p \in lapsed' \/ DOMAIN webhookCache[p] \subseteq DOMAIN webhookCache'[p]

\* Keys are forgotten, and none is kept for another webhook than before.
WebhookKeysForgotten ==
  \A p \in Processes :
    /\ DOMAIN webhookCache'[p] \subseteq DOMAIN webhookCache[p]
    /\ \A k \in DOMAIN webhookCache'[p] : webhookCache'[p][k] = webhookCache[p][k]

LEMMA KeepsStays ==
  ASSUME AnswersStay, NEW r, WebhooksKept(r), NEW p, NEW k, NEW i, Keeps(p, k, i)
  PROVE  Keeps(p, k, i)'
  BY DEF AnswersStay, WebhooksKept, Keeps

LEMMA DeliveryStays ==
  ASSUME BaseInv, AnswersStay, WebhookKeysKept, NEW r, WebhooksKept(r),
         NEW t \in Requests, t # r, Steady(t), Came(t), DeliveryIsSound(t)
  PROVE  DeliveryIsSound(t)'
  <1>1. /\ call'[t] = call[t] /\ process'[t] = process[t] /\ past'[t] = past[t]
        /\ step'[t] = step[t] /\ sender'[t] = sender[t] /\ receipt'[t] = receipt[t]
    BY DEF Steady, WebhooksKept
  <1>2. /\ t \in Answered' <=> t \in Answered
        /\ stage'[t] = "running" => stage[t] = "running"
    BY DEF Steady, Answered
  <1>3. HasNoWebhook(t)' <=> HasNoWebhook(t)
    BY DEF HasNoWebhook, WebhooksKept
  <1>4. Told(t) => Told(t)'
    BY <1>1 DEF Told, WebhooksKept
  <1>5. ASSUME ToldAgain(t) PROVE ToldAgain(t)'
    <2>1. PICK p, k, i : p = process[t] /\ k = call[t].key /\ i = receipt[t].id
      OBVIOUS
    <2>2. Keeps(p, k, i) /\ webhooks[i].by # t
      BY <1>5, <2>1 DEF ToldAgain
    <2>3. Keeps(p, k, i)'
      BY <2>2, KeepsStays
    <2>4. i \in DOMAIN webhooks /\ webhooks'[i] = webhooks[i]
      BY <2>2 DEF Keeps, WebhooksKept
    <2> QED
      BY <1>1, <2>1, <2>2, <2>3, <2>4 DEF ToldAgain, Keeps
  <1>6. KnowsWebhookKey(t) => KnowsWebhookKey(t)'
    <2>1. process[t] \in Processes
      BY DEF BaseInv, RequestIsKnown, Came
    <2> QED
      BY <1>1, <2>1 DEF KnowsWebhookKey, WebhookKeysKept
  <1>7. Repeats(t)' => Repeats(t)
    BY <1>1, RepeatsStays DEF BaseInv, WebhookKeysKept
  <1>8. Senders(call[t])' = Senders(call[t])
    BY <1>1 DEF Senders
  <1> QED
    BY <1>1, <1>2, <1>3, <1>4, <1>5, <1>6, <1>7, <1>8 DEF DeliveryIsSound

LEMMA GenuineWebhookStays ==
  ASSUME WebhookInv, CameStays, NEW r, WebhooksKept(r), NEW i \in DOMAIN webhooks
  PROVE  WebhookIsGenuine(i)'
  <1>1. webhooks[i] \in WebhookRows
    BY ElementOfSeq, LenProperties DEF WebhookInv, WebhooksTyped
  <1>2. webhooks[i].by \in Requests
    BY <1>1 DEF WebhookRows
  <1> QED
    BY <1>2 DEF WebhookInv, WebhookIsGenuine, CameStays, WebhooksKept, Senders

\* The shape of every step of request r, or of none (r = 0), for the webhooks.
LEMMA WebhookStepHolds ==
  ASSUME BaseInv, WebhookInv, AnswersStay, CameStays, WebhookKeysKept, NEW r,
         \A t \in Requests \ {r} : Steady(t),
         WebhooksKept(r), WebhooksTyped', WebhookKeys',
         \A i \in DOMAIN webhooks' \ DOMAIN webhooks : WebhookIsGenuine(i)',
         r \in Requests /\ Came(r)' /\ call'[r].op = "ingest" => DeliveryIsSound(r)'
  PROVE  WebhookInv'
  <1>1. ASSUME NEW i \in DOMAIN webhooks' PROVE WebhookIsGenuine(i)'
    BY GenuineWebhookStays
  <1>2. ASSUME NEW t \in Requests \ {r}, Came(t)', call'[t].op = "ingest"
        PROVE  DeliveryIsSound(t)'
    <2>1. Came(t) /\ call[t].op = "ingest" /\ Steady(t)
      BY <1>2 DEF Steady, Came
    <2> QED
      BY <2>1, DeliveryStays DEF WebhookInv
  <1> QED
    BY <1>1, <1>2 DEF WebhookInv, Requests

LEMMA WebhookKeysStay ==
  ASSUME WebhookInv, AnswersStay, NEW r, WebhooksKept(r), WebhookKeysForgotten
  PROVE  WebhookKeys'
  <1>1. ASSUME NEW p \in Processes, NEW k \in DOMAIN webhookCache'[p],
               NEW i, i = webhookCache'[p][k]
        PROVE  Keeps(p, k, i)'
    <2>1. Keeps(p, k, i)
      BY <1>1 DEF WebhookInv, WebhookKeys, WebhookKeysForgotten
    <2> QED
      BY <2>1, KeepsStays
  <1> QED
    BY <1>1 DEF WebhookKeys, Keeps, Processes

\* The steps of other services, and those of the interceptor.
LEMMA WebhooksElsewhere ==
  ASSUME BaseInv, WebhookInv, AnswersStay, CameStays, NEW r,
         r \in Requests => Arrives(r) \/ (Handles(r) /\ call[r].op # "ingest"),
         \A t \in Requests \ {r} : Steady(t),
         UNCHANGED <<webhooks, sender, receipt>>, WebhookKeysKept, WebhookKeysForgotten
  PROVE  WebhookInv'
  <1>1. WebhooksTyped' /\ WebhooksKept(r)
    BY DEF WebhookInv, WebhooksTyped, WebhooksKept
  <1>2. WebhookKeys'
    BY <1>1, WebhookKeysStay
  <1>3. ASSUME r \in Requests, Came(r)', call'[r].op = "ingest" PROVE DeliveryIsSound(r)'
    <2>1. Arrives(r)
      BY <1>3 DEF Handles
    <2>2. \A i \in DOMAIN webhooks : Came(webhooks[i].by)
      BY DEF WebhookInv, WebhookIsGenuine
    <2>3. ~Came(r)
      BY <2>1 DEF Arrives, Came
    <2>4. HasNoWebhook(r)
      BY <2>2, <2>3 DEF HasNoWebhook
    <2>5. HasNoWebhook(r)'
      BY <2>4 DEF HasNoWebhook
    <2>6. step'[r] = "start" /\ r \notin Answered'
      BY <1>3, <2>1 DEF Arrives, BaseInv, RequestIsKnown, Answered
    <2> QED
      BY <2>5, <2>6 DEF DeliveryIsSound
  <1>4. DOMAIN webhooks' \ DOMAIN webhooks = {}
    OBVIOUS
  <1> QED
    BY <1>1, <1>2, <1>3, <1>4, WebhookStepHolds

-----------------------------------------------------------------------------
(* The steps of WebhooksService *)

Delivering(r) == Serving(r) /\ WebhookInv /\ call[r].op = "ingest"

LEMMA DeliveringFacts ==
  ASSUME NEW r \in Requests, Delivering(r)
  PROVE  /\ call[r] \in Calls /\ process[r] \in Processes
         /\ call'[r] = call[r] /\ process'[r] = process[r]
         /\ stage[r] = "running" /\ Came(r) /\ Came(r)' /\ r \notin Answered
         /\ r \in Answered' <=> stage'[r] = "answered"
         /\ \A s : stage' = [stage EXCEPT ![r] = s] => stage'[r] = s
         /\ \A s : step' = [step EXCEPT ![r] = s] => step'[r] = s
         /\ DeliveryIsSound(r) /\ WebhooksTyped /\ WebhookKeys
         /\ Repeats(r)' => Repeats(r)
         /\ Senders(call[r])' = Senders(call[r])
         /\ BaseInv /\ CachesTyped /\ AnswersStay /\ CameStays /\ lapsed' = lapsed
  BY ServingFacts, ServingRepeats DEF Delivering, WebhookInv, Senders

\* A step that stores nothing and keeps no key.
LEMMA DeliveryMove ==
  ASSUME NEW r \in Requests, Delivering(r), UNCHANGED <<webhooks, webhookCache>>,
         \A t \in Requests \ {r} : sender'[t] = sender[t] /\ receipt'[t] = receipt[t],
         WebhooksTyped', DeliveryIsSound(r)'
  PROVE  WebhookInv'
  <1>1. WebhookKeysKept /\ WebhooksKept(r)
    BY DeliveringFacts DEF WebhookKeysKept, WebhooksKept
  <1>2. WebhookKeys'
    BY <1>1, DeliveringFacts, WebhookKeysStay DEF Delivering, WebhookKeysForgotten
  <1>3. DOMAIN webhooks' \ DOMAIN webhooks = {}
    OBVIOUS
  <1> QED
    BY <1>1, <1>2, <1>3, DeliveringFacts, ServingFacts, WebhookStepHolds DEF Delivering

LEMMA WebhookRepeatIsKnown ==
  ASSUME BaseInv, WebhookInv, NEW r \in Requests, Repeats(r), call[r].op = "ingest"
  PROVE  call[r].key \in DOMAIN webhookCache[process[r]]
  <1>1. PICK s \in past[r].answered :
          call[r] = call[s] /\ process[r] = process[s] /\ process[r] \notin lapsed
    BY DEF Repeats
  <1>2. s \in Requests /\ s \in Answered /\ Came(s)
    BY <1>1 DEF BaseInv, RequestIsKnown, Answered, Came
  <1>3. KnowsWebhookKey(s)
    BY <1>1, <1>2 DEF WebhookInv, DeliveryIsSound
  <1> QED
    BY <1>1, <1>3 DEF KnowsWebhookKey

LEMMA ingestHolds ==
  ASSUME NEW r \in Requests, Delivering(r), ingest(r)
  PROVE  WebhookInv'
  <1> DEFINE cached == webhookCache[process[r]]
             k == call[r].key
  <1>1. step[r] = "start" /\ UNCHANGED <<webhooks, webhookCache, sender>>
    BY DEF ingest, At
  <1>2. HasNoWebhook(r)'
    <2>1. HasNoWebhook(r)
      BY <1>1, DeliveringFacts DEF DeliveryIsSound
    <2> QED
      BY <1>1, <2>1 DEF HasNoWebhook
  <1>3. Repeats(r)' => k \in DOMAIN cached
    BY DeliveringFacts, WebhookRepeatIsKnown DEF Delivering
  <1>4. CASE Throw(r) /\ UNCHANGED <<step, receipt>>
    <2>1. stage'[r] = "failed"
      BY <1>4, DeliveringFacts DEF Throw
    <2>2. DeliveryIsSound(r)'
      BY <1>2, <2>1, DeliveringFacts DEF DeliveryIsSound
    <2>3. WebhooksTyped'
      BY <1>1, <1>4, DeliveringFacts DEF WebhooksTyped
    <2> QED
      BY <1>1, <1>4, <2>2, <2>3, DeliveryMove
  <1>5. CASE k \in DOMAIN cached /\ Tell(r, cached[k], TRUE) /\ Answer(r) /\ UNCHANGED step
    <2>1. stage'[r] = "answered"
      BY <1>5, DeliveringFacts DEF Answer
    <2>2. PICK i : i = cached[k]
      OBVIOUS
    <2>3. Keeps(process[r], k, i)
      BY <1>5, <2>2, DeliveringFacts DEF WebhookKeys
    <2>4. i \in Nat
      BY <2>3, DeliveringFacts, LenProperties DEF Keeps, WebhooksTyped
    <2>5. [id |-> i, signatureValid |-> TRUE] \in [id : Nat, signatureValid : BOOLEAN]
      BY <2>4
    <2>6. /\ WebhooksTyped' /\ receipt'[r].id = i
          /\ \A t \in Requests \ {r} : receipt'[t] = receipt[t]
      BY <1>1, <1>5, <2>2, <2>5, DeliveringFacts DEF WebhooksTyped, Tell
    <2>7. ToldAgain(r)'
      BY <1>1, <2>3, <2>6, DeliveringFacts DEF ToldAgain, Keeps, AnswersStay
    <2>8. KnowsWebhookKey(r)'
      BY <1>1, <1>5, DeliveringFacts DEF KnowsWebhookKey
    <2>9. DeliveryIsSound(r)'
      BY <1>2, <2>1, <2>7, <2>8, DeliveringFacts DEF DeliveryIsSound
    <2> QED
      BY <1>1, <2>6, <2>9, DeliveryMove
  <1>6. CASE k \notin DOMAIN cached /\ Goto(r, "vendor") /\ UNCHANGED <<stage, receipt>>
    <2>1. stage'[r] = "running" /\ step'[r] = "vendor"
      BY <1>6, DeliveringFacts DEF Goto
    <2>2. DeliveryIsSound(r)'
      BY <1>2, <1>3, <1>6, <2>1, DeliveringFacts DEF DeliveryIsSound
    <2>3. WebhooksTyped'
      BY <1>1, <1>6, DeliveringFacts DEF WebhooksTyped
    <2> QED
      BY <1>1, <1>6, <2>2, <2>3, DeliveryMove
  <1> QED
    BY <1>4, <1>5, <1>6 DEF ingest, interceptorVars

LEMMA findSenderHolds ==
  ASSUME NEW r \in Requests, Delivering(r), findSender(r)
  PROVE  WebhookInv'
  <1>1. step[r] = "vendor" /\ UNCHANGED <<webhooks, webhookCache, receipt>>
    BY DEF findSender, At
  <1>2. HasNoWebhook(r)' /\ ~Repeats(r)'
    <2>1. HasNoWebhook(r) /\ ~Repeats(r)
      BY <1>1, DeliveringFacts DEF DeliveryIsSound
    <2> QED
      BY <1>1, <2>1, DeliveringFacts DEF HasNoWebhook
  <1>3. CASE Throw(r) /\ UNCHANGED <<step, sender>>
    <2>1. stage'[r] = "failed"
      BY <1>3, DeliveringFacts DEF Throw
    <2>2. DeliveryIsSound(r)'
      BY <1>2, <2>1, DeliveringFacts DEF DeliveryIsSound
    <2>3. WebhooksTyped'
      BY <1>1, <1>3, DeliveringFacts DEF WebhooksTyped
    <2> QED
      BY <1>1, <1>3, <2>2, <2>3, DeliveryMove
  <1>4. ASSUME NEW v \in Senders(call[r]), sender' = [sender EXCEPT ![r] = v],
               Goto(r, "webhook"), UNCHANGED stage
        PROVE  WebhookInv'
    <2>1. stage'[r] = "running" /\ step'[r] = "webhook"
      BY <1>4, DeliveringFacts DEF Goto
    <2>2. /\ WebhooksTyped' /\ sender'[r] = v
          /\ \A t \in Requests \ {r} : sender'[t] = sender[t]
      BY <1>1, <1>4, DeliveringFacts DEF WebhooksTyped
    <2>3. sender'[r] \in Senders(call[r])'
      BY <2>2, DeliveringFacts
    <2>4. DeliveryIsSound(r)'
      BY <1>2, <2>1, <2>3, DeliveringFacts DEF DeliveryIsSound
    <2> QED
      BY <1>1, <2>2, <2>4, DeliveryMove
  <1> QED
    BY <1>3, <1>4 DEF findSender, interceptorVars

LEMMA createWebhookHolds ==
  ASSUME NEW r \in Requests, Delivering(r), createWebhook(r)
  PROVE  WebhookInv'
  <1>1. PICK n : n = Len(webhooks)
    OBVIOUS
  <1> DEFINE valid == call[r].signature = sender[r]
             row == [tenant |-> call[r].tenant, vendor |-> sender[r], by |-> r,
                     signatureValid |-> valid]
             t == Append(webhooks, row)
  <1>2. /\ step[r] = "webhook" /\ webhooks' = t /\ Tell(r, n + 1, valid)
        /\ Goto(r, "return") /\ UNCHANGED <<stage, webhookCache, sender>>
    BY <1>1 DEF createWebhook, At, interceptorVars
  <1>3. HasNoWebhook(r) /\ ~Repeats(r) /\ sender[r] \in Senders(call[r])
    BY <1>2, DeliveringFacts DEF DeliveryIsSound
  <1>4. webhooks \in Seq(WebhookRows)
    BY DeliveringFacts DEF WebhooksTyped
  <1>5. /\ row \in WebhookRows /\ row.by = r /\ row.vendor = sender[r]
        /\ row.signatureValid = valid
    <2>1. call[r].tenant \in Tenants /\ sender[r] \in VendorRows /\ valid \in BOOLEAN
      BY <1>3, DeliveringFacts, ApiServicesAssumption DEF Senders
    <2> HIDE DEF valid
    <2> QED
      BY <2>1 DEF WebhookRows
  <1>6. valid \in BOOLEAN
    OBVIOUS
  <1> HIDE DEF row
  <1>7. /\ t \in Seq(WebhookRows) /\ n \in Nat
        /\ DOMAIN webhooks = 1..n /\ DOMAIN t = 1..(n + 1)
        /\ t[n + 1] = row /\ \A i \in 1..n : t[i] = webhooks[i]
    BY <1>1, <1>4, <1>5, AppendProperties, LenProperties
  <1> HIDE DEF t, valid
  <1>8. /\ WebhooksTyped' /\ receipt'[r] = [id |-> n + 1, signatureValid |-> valid]
        /\ \A s \in Requests \ {r} : receipt'[s] = receipt[s]
    <2>1. [id |-> n + 1, signatureValid |-> valid] \in [id : Nat, signatureValid : BOOLEAN]
      BY <1>6, <1>7
    <2> QED
      BY <1>2, <1>7, <2>1, DeliveringFacts DEF WebhooksTyped, Tell
  <1>9. WebhooksKept(r) /\ WebhookKeysKept
    BY <1>2, <1>5, <1>7, <1>8, DeliveringFacts DEF WebhooksKept, WebhookKeysKept
  <1>10. WebhookKeys'
    BY <1>2, <1>9, DeliveringFacts, WebhookKeysStay DEF Delivering, WebhookKeysForgotten
  <1>11. WebhookIsGenuine(n + 1)'
    <2>1. /\ webhooks'[n + 1] = row /\ call'[r] = call[r] /\ call[r].op = "ingest"
          /\ Came(r)' /\ Senders(call[r])' = Senders(call[r])
      BY <1>2, <1>7, DeliveringFacts DEF Delivering
    <2>2. row.signatureValid => call[r].signature = sender[r]
      BY <1>5 DEF valid
    <2> QED
      BY <1>3, <1>5, <2>1, <2>2 DEF WebhookIsGenuine
  <1>12. DeliveryIsSound(r)'
    <2>1. stage'[r] = "running" /\ step'[r] = "return" /\ ~Repeats(r)' /\ r \notin Answered'
      BY <1>2, <1>3, DeliveringFacts DEF Goto
    <2>2. n + 1 \in DOMAIN webhooks' /\ webhooks'[n + 1] = row
      BY <1>2, <1>7
    <2>3. receipt'[r].id = n + 1 /\ receipt'[r].signatureValid = valid
      BY <1>8
    <2>4. Told(r)'
      BY <1>5, <2>2, <2>3 DEF Told
    <2> QED
      BY <2>1, <2>4 DEF DeliveryIsSound
  <1>13. \A i \in DOMAIN webhooks' \ DOMAIN webhooks : WebhookIsGenuine(i)'
    BY <1>2, <1>7, <1>11
  <1> QED
    BY <1>8, <1>9, <1>10, <1>12, <1>13, DeliveringFacts, ServingFacts, WebhookStepHolds
       DEF Delivering

LEMMA rememberWebhookHolds ==
  ASSUME NEW r \in Requests, Delivering(r), rememberWebhook(r)
  PROVE  WebhookInv'
  <1>1. PICK p, k, new :
          /\ p = process[r] /\ k = call[r].key
          /\ new = [x \in DOMAIN webhookCache[p] \cup {k} |->
                      IF x = k THEN receipt[r].id ELSE webhookCache[p][x]]
    OBVIOUS
  <1>2. /\ step[r] = "return" /\ webhookCache' = [webhookCache EXCEPT ![p] = new]
        /\ Answer(r) /\ UNCHANGED <<step, webhooks, sender, receipt>>
    BY <1>1 DEF rememberWebhook, At
  <1>3. p \in Processes /\ \A q \in Processes :
          webhookCache'[q] = IF q = p THEN new ELSE webhookCache[q]
    BY <1>1, <1>2, DeliveringFacts DEF CachesTyped
  <1>4. /\ DOMAIN new = DOMAIN webhookCache[p] \cup {k} /\ new[k] = receipt[r].id
        /\ \A x \in DOMAIN webhookCache[p] \ {k} : new[x] = webhookCache[p][x]
    BY <1>1
  <1>5. stage'[r] = "answered" /\ r \in Answered'
    BY <1>2, DeliveringFacts DEF Answer
  <1>6. Told(r) /\ ~Repeats(r)
    BY <1>2, DeliveringFacts DEF DeliveryIsSound
  <1>7. WebhooksKept(r) /\ WebhooksTyped'
    BY <1>2, DeliveringFacts DEF WebhooksKept, WebhooksTyped
  <1>8. WebhookKeysKept
    BY <1>3, <1>4, DeliveringFacts DEF WebhookKeysKept
  <1>9. WebhookKeys'
    <2>1. ASSUME NEW q \in Processes, NEW x \in DOMAIN webhookCache'[q],
                 NEW i, i = webhookCache'[q][x]
          PROVE  Keeps(q, x, i)'
      <3>1. CASE q = p /\ x = k
        <4>1. i = receipt[r].id
          BY <1>3, <1>4, <2>1, <3>1
        <4>2. i \in DOMAIN webhooks /\ webhooks[i].by = r
          BY <1>6, <4>1 DEF Told
        <4> QED
          BY <1>1, <1>2, <1>5, <3>1, <4>2, DeliveringFacts DEF Keeps
      <3>2. CASE ~(q = p /\ x = k)
        <4>1. x \in DOMAIN webhookCache[q] /\ i = webhookCache[q][x]
          BY <1>3, <1>4, <2>1, <3>2
        <4>2. Keeps(q, x, i)
          BY <4>1, DeliveringFacts DEF WebhookKeys
        <4> QED
          BY <1>7, <4>2, DeliveringFacts, KeepsStays
      <3> QED
        BY <3>1, <3>2
    <2> QED
      BY <2>1 DEF WebhookKeys, Keeps, Processes
  <1>10. DeliveryIsSound(r)'
    <2>1. Told(r)'
      BY <1>2, <1>6 DEF Told
    <2>2. KnowsWebhookKey(r)'
      BY <1>1, <1>3, <1>4, DeliveringFacts DEF KnowsWebhookKey
    <2> QED
      BY <1>5, <1>6, <2>1, <2>2, DeliveringFacts DEF DeliveryIsSound
  <1>11. DOMAIN webhooks' \ DOMAIN webhooks = {}
    BY <1>2
  <1> QED
    BY <1>7, <1>8, <1>9, <1>10, <1>11, DeliveringFacts, ServingFacts, WebhookStepHolds
       DEF Delivering

LEMMA WebhooksHold ==
  ASSUME BaseInv, CachesTyped, WebhookInv, [Next]_vars
  PROVE  WebhookInv'
  <1>1. ASSUME NEW r \in Requests, Arrives(r) PROVE WebhookInv'
    <2>1. UNCHANGED <<webhooks, sender, receipt, webhookCache, lapsed>>
      BY <1>1 DEF Arrives, tables
    <2>2. \A t \in Requests \ {r} : Steady(t)
      BY <1>1 DEF Arrives
    <2>3. WebhookKeysKept /\ WebhookKeysForgotten
      BY <2>1 DEF WebhookKeysKept, WebhookKeysForgotten
    <2> QED
      BY <1>1, <2>1, <2>2, <2>3, StayLemma, WebhooksElsewhere
  <1>2. CASE Ends
    <2>1. 0 \notin Requests
      BY DEF Requests
    <2>2. WebhookKeysKept /\ WebhookKeysForgotten
      BY <1>2 DEF Ends, WebhookKeysKept, WebhookKeysForgotten
    <2>3. UNCHANGED <<webhooks, sender, receipt>> /\ \A t \in Requests \ {0} : Steady(t)
      BY <1>2 DEF Ends, tables
    <2> QED
      BY <1>2, <2>1, <2>2, <2>3, StayLemma, WebhooksElsewhere
  <1>3. ASSUME NEW r \in Requests, Handles(r), WebhookStep(r) PROVE WebhookInv'
    <2>1. call[r].op = "ingest"
      BY <1>3 DEF WebhookStep, ingest, findSender, createWebhook, rememberWebhook, At
    <2>2. Delivering(r)
      BY <1>3, <2>1, StayLemma DEF Delivering, Serving
    <2> QED
      BY <1>3, <2>2, ingestHolds, findSenderHolds, createWebhookHolds, rememberWebhookHolds
         DEF WebhookStep
  <1>4. ASSUME NEW r \in Requests, Handles(r), TaskStep(r) \/ QuoteStep(r),
               UNCHANGED webhookVars
        PROVE  WebhookInv'
    <2>1. call[r].op # "ingest"
      BY <1>4 DEF TaskStep, findTask, updateTask, findPreviousEvent, createTaskEvent,
           hasSeenTaskKey, bulkUpdate, findRouted, routeTask, rememberTaskKey,
           QuoteStep, LinkEvent, RecordEvent, Adapter, PersistQuotes, ReturnQuote, At
    <2>2. UNCHANGED <<webhooks, sender, receipt, webhookCache, lapsed>>
      BY <1>4 DEF Handles, webhookVars
    <2>3. WebhookKeysKept /\ WebhookKeysForgotten
      BY <2>2 DEF WebhookKeysKept, WebhookKeysForgotten
    <2>4. \A t \in Requests \ {r} : Steady(t)
      BY <1>4 DEF Handles
    <2> QED
      BY <1>4, <2>1, <2>2, <2>3, <2>4, StayLemma, WebhooksElsewhere
  <1> QED
    BY <1>1, <1>2, <1>3, <1>4, Kinds DEF Handler

LEMMA WebhooksBegin == Init => WebhookInv
  <1> SUFFICES ASSUME Init PROVE WebhookInv
    OBVIOUS
  <1>1. /\ stage = [r \in Requests |-> "idle"] /\ webhooks = <<>>
        /\ webhookCache = [p \in Processes |-> [k \in {} |-> 0]]
        /\ sender = [r \in Requests |-> NoTenant]
        /\ receipt = [r \in Requests |-> [id |-> 0, signatureValid |-> FALSE]]
    BY DEF Init, RecordInit, WebhooksInit
  <1>2. DOMAIN webhooks = {}
    <2>1. webhooks = <<>>
      BY <1>1
    <2> QED
      BY <2>1
  <1>3. WebhooksTyped
    BY <1>1, EmptySeq DEF WebhooksTyped
  <1>4. WebhookKeys
    BY <1>1 DEF WebhookKeys
  <1> QED
    BY <1>1, <1>2, <1>3, <1>4 DEF WebhookInv, Came

-----------------------------------------------------------------------------
(* The memories of the processes *)

KeyMaps == UNION {[K -> Nat] : K \in SUBSET Keys}

LEMMA CachesHold ==
  ASSUME BaseInv, CachesTyped, WebhookInv, [Next]_vars
  PROVE  CachesTyped'
  <1>1. /\ taskCache \in [Processes -> SUBSET Keys]
        /\ webhookCache \in [Processes -> KeyMaps]
    BY DEF CachesTyped, KeyMaps
  <1>2. ASSUME /\ taskCache' \in [Processes -> SUBSET Keys]
               /\ webhookCache' \in [Processes -> KeyMaps]
        PROVE  CachesTyped'
    BY <1>2 DEF CachesTyped, KeyMaps, Processes
  <1>3. CASE UNCHANGED <<taskCache, webhookCache>>
    BY <1>1, <1>2, <1>3
  <1>4. ASSUME NEW r \in Requests, Request(r) \/ Record(r) \/ Reject(r) \/ Quiescent
        PROVE  CachesTyped'
    BY <1>3, <1>4 DEF Request, Record, Reject, Quiescent, vars, taskVars, webhookVars
  <1>5. ASSUME NEW r \in Requests, stage[r] # "idle"
        PROVE  call[r].key \in Keys /\ process[r] \in Processes
    BY <1>5, ApiServicesAssumption DEF BaseInv, RequestIsKnown
  <1>6. ASSUME NEW r \in Requests, Handler(r), TaskStep(r)
        PROVE  CachesTyped'
    <2>1. UNCHANGED webhookCache
      BY <1>6 DEF Handler, TaskStep, webhookVars, WebhookStep, ingest, findSender,
           createWebhook, rememberWebhook, QuoteStep, LinkEvent, RecordEvent, Adapter,
           PersistQuotes, ReturnQuote, findTask, updateTask, findPreviousEvent,
           createTaskEvent, hasSeenTaskKey, bulkUpdate, findRouted, routeTask,
           rememberTaskKey, At
    <2>2. CASE rememberTaskKey(r)
      <3>1. /\ taskCache' = [taskCache EXCEPT ![process[r]] = @ \cup {call[r].key}]
            /\ stage[r] = "running"
        BY <2>2 DEF rememberTaskKey, At
      <3> QED
        BY <1>1, <1>2, <1>5, <2>1, <3>1
    <2>3. CASE ~rememberTaskKey(r)
      <3>1. UNCHANGED taskCache
        BY <1>6, <2>3 DEF TaskStep, findTask, updateTask, findPreviousEvent, createTaskEvent,
             hasSeenTaskKey, bulkUpdate, findRouted, routeTask, taskVars
      <3> QED
        BY <1>3, <2>1, <3>1
    <2> QED
      BY <2>2, <2>3
  <1>7. ASSUME NEW r \in Requests, Handler(r), WebhookStep(r) \/ QuoteStep(r)
        PROVE  CachesTyped'
    <2>1. UNCHANGED taskCache
      BY <1>7 DEF Handler, TaskStep, taskVars, WebhookStep, ingest, findSender,
           createWebhook, rememberWebhook, QuoteStep, LinkEvent, RecordEvent, Adapter,
           PersistQuotes, ReturnQuote, findTask, updateTask, findPreviousEvent,
           createTaskEvent, hasSeenTaskKey, bulkUpdate, findRouted, routeTask,
           rememberTaskKey, At
    <2>2. CASE rememberWebhook(r)
      <3>1. PICK p, k, new :
              /\ p = process[r] /\ k = call[r].key
              /\ new = [x \in DOMAIN webhookCache[p] \cup {k} |->
                          IF x = k THEN receipt[r].id ELSE webhookCache[p][x]]
        OBVIOUS
      <3>2. webhookCache' = [webhookCache EXCEPT ![p] = new] /\ stage[r] = "running"
        BY <2>2, <3>1 DEF rememberWebhook, At
      <3>3. p \in Processes /\ k \in Keys /\ receipt[r].id \in Nat
        BY <1>5, <3>1, <3>2 DEF WebhookInv, WebhooksTyped
      <3>4. PICK K \in SUBSET Keys : webhookCache[p] \in [K -> Nat]
        BY <1>1, <3>3 DEF KeyMaps
      <3>5. new \in [K \cup {k} -> Nat]
        BY <3>1, <3>3, <3>4
      <3>6. new \in KeyMaps
        BY <3>3, <3>5 DEF KeyMaps
      <3> QED
        BY <1>1, <1>2, <2>1, <3>2, <3>6
    <2>3. CASE ~rememberWebhook(r)
      <3>1. UNCHANGED webhookCache
        BY <1>7, <2>3 DEF Handler, WebhookStep, ingest, findSender, createWebhook,
             webhookVars, QuoteStep, LinkEvent, RecordEvent, Adapter, PersistQuotes,
             ReturnQuote, TaskStep, findTask, updateTask, findPreviousEvent,
             createTaskEvent, hasSeenTaskKey, bulkUpdate, findRouted, routeTask,
             rememberTaskKey, At
      <3> QED
        BY <1>3, <2>1, <3>1
    <2> QED
      BY <2>2, <2>3
  <1>8. ASSUME NEW p \in Processes, Expire(p) PROVE CachesTyped'
    <2>1. /\ UNCHANGED webhookCache
          /\ \E k \in taskCache[p] : taskCache' = [taskCache EXCEPT ![p] = @ \ {k}]
      BY <1>8 DEF Expire, webhookVars
    <2> QED
      BY <1>1, <1>2, <2>1
  <1>9. ASSUME NEW p \in Processes, Crash(p) PROVE CachesTyped'
    <2>1. PICK new : new = [k \in {} |-> 0]
      OBVIOUS
    <2>2. new \in KeyMaps
      <3>1. new \in [{} -> Nat]
        BY <2>1
      <3> QED
        BY <3>1 DEF KeyMaps
    <2>3. /\ taskCache' = [taskCache EXCEPT ![p] = {}]
          /\ webhookCache' = [webhookCache EXCEPT ![p] = new]
      BY <1>9, <2>1 DEF Crash
    <2> QED
      BY <1>1, <1>2, <2>2, <2>3
  <1>10. CASE Quiescent \/ UNCHANGED vars
    BY <1>3, <1>10 DEF Quiescent, vars, taskVars, webhookVars
  <1> QED
    BY <1>4, <1>6, <1>7, <1>8, <1>9, <1>10 DEF Next, Handler

LEMMA CachesBegin == Init => CachesTyped
  <1> SUFFICES ASSUME Init PROVE CachesTyped
    OBVIOUS
  <1>1. PICK new : new = [k \in {} |-> 0]
    OBVIOUS
  <1>2. new \in KeyMaps
    <2>1. new \in [{} -> Nat]
      BY <1>1
    <2> QED
      BY <2>1 DEF KeyMaps
  <1>3. /\ taskCache = [p \in Processes |-> {}]
        /\ webhookCache = [p \in Processes |-> new]
    BY <1>1 DEF Init, TasksInit, WebhooksInit
  <1> QED
    BY <1>2, <1>3 DEF CachesTyped, KeyMaps

-----------------------------------------------------------------------------
(* Quotes *)

QuoteEventRows ==
  [tenant : {c.tenant : c \in Calls}, loan : {c.loan : c \in Calls},
   subject : {c.loan : c \in Calls}, type : {EventTypes[k] : k \in 1..3}, by : Requests,
   prev : Nat, at : Int]

QuoteRows ==
  [tenant : {c.tenant : c \in Calls}, loan : {c.loan : c \in Calls}, by : Requests,
   quote : {QuoteOf(c.scenarios[i]) : c \in Calls, i \in 1..2}]

QuotesTyped ==
  /\ events \in Seq(QuoteEventRows) /\ quotes \in Seq(QuoteRows)
  /\ prevHash \in [Requests -> Nat] /\ offer = [r \in Requests |-> offer[r]]

RowsOf(r) == {i \in DOMAIN quotes : quotes[i].by = r}

\* The events of request r are the first n of the three, in their order.
SoFar(r, n) ==
  \E f \in [1..n -> DOMAIN events] :
    /\ \A i, j \in 1..n : i < j => f[i] < f[j]
    /\ EventsBy(r) = {f[k] : k \in 1..n}
    /\ \A k \in 1..n : events[f[k]].type = EventTypes[k]

Stored(r) ==
  \E n \in Nat :
    /\ RowsOf(r) = {n + 1, n + 2}
    /\ \A i \in 1..2 : quotes[n + i].quote.scenarioKey = call[r].scenarios[i].scenarioKey

Asked(r, n) == SoFar(r, n) /\ RowsOf(r) = {}

Priced(r, n) == SoFar(r, n) /\ Stored(r)

QuoteIsSound(r) ==
  /\ stage[r] = "running" =>
       \/ step[r] \in {"start", "record"} /\ Asked(r, 0)
       \/ step[r] = "adapter" /\ Asked(r, 1)
       \/ /\ step[r] = "persist" /\ Asked(r, 1)
          /\ offer[r] = [i \in 1..2 |-> QuoteOf(call[r].scenarios[i])]
       \/ step[r] \in {"link", "record"} /\ (Priced(r, 1) \/ Priced(r, 2))
       \/ step[r] = "return" /\ Priced(r, 3)
  /\ r \in Answered => Priced(r, 3)
  /\ \/ Asked(r, 0) \/ Asked(r, 1)
     \/ Priced(r, 1) \/ Priced(r, 2) \/ Priced(r, 3)

AsksForQuote(r) == Came(r) /\ call[r].op = "quote"

QuoteInv ==
  /\ QuotesTyped
  /\ \A i \in DOMAIN events : AsksForQuote(events[i].by)
  /\ \A i \in DOMAIN quotes : AsksForQuote(quotes[i].by)
  /\ \A r \in Requests : AsksForQuote(r) => QuoteIsSound(r)

\* What a step of request r leaves as it is for the others.
QuotesKept(r) ==
  /\ DOMAIN events \subseteq DOMAIN events' /\ DOMAIN quotes \subseteq DOMAIN quotes'
  /\ \A i \in DOMAIN events : events'[i] = events[i]
  /\ \A i \in DOMAIN quotes : quotes'[i] = quotes[i]
  /\ \A i \in DOMAIN events' \ DOMAIN events : events'[i].by = r
  /\ \A i \in DOMAIN quotes' \ DOMAIN quotes : quotes'[i].by = r
  /\ \A t \in Requests \ {r} : offer'[t] = offer[t]

LEMMA SoFarStays ==
  ASSUME NEW r, QuotesKept(r), NEW t, EventsBy(t)' = EventsBy(t), NEW n, SoFar(t, n)
  PROVE  SoFar(t, n)'
  <1>1. PICK f \in [1..n -> DOMAIN events] :
          /\ \A i, j \in 1..n : i < j => f[i] < f[j]
          /\ EventsBy(t) = {f[k] : k \in 1..n}
          /\ \A k \in 1..n : events[f[k]].type = EventTypes[k]
    BY DEF SoFar
  <1>2. f \in [1..n -> DOMAIN events']
    BY DEF QuotesKept
  <1>3. \A k \in 1..n : events'[f[k]].type = EventTypes[k]
    BY <1>1 DEF QuotesKept
  <1> QED
    BY <1>1, <1>2, <1>3 DEF SoFar, EventTypes

LEMMA StoredStays ==
  ASSUME NEW r, QuotesKept(r), NEW t, RowsOf(t)' = RowsOf(t), call'[t] = call[t], Stored(t)
  PROVE  Stored(t)'
  <1>1. PICK n \in Nat :
          /\ RowsOf(t) = {n + 1, n + 2}
          /\ \A i \in 1..2 : quotes[n + i].quote.scenarioKey = call[t].scenarios[i].scenarioKey
    BY DEF Stored
  <1>2. ASSUME NEW i \in 1..2 PROVE quotes'[n + i] = quotes[n + i]
    <2>1. n + i \in RowsOf(t)
      BY <1>1
    <2> QED
      BY <2>1 DEF RowsOf, QuotesKept
  <1> QED
    BY <1>1, <1>2 DEF Stored

LEMMA QuoteStays ==
  ASSUME NEW r, QuotesKept(r), NEW t \in Requests, t # r, Steady(t), Came(t), QuoteIsSound(t)
  PROVE  QuoteIsSound(t)'
  <1>1. EventsBy(t)' = EventsBy(t) /\ RowsOf(t)' = RowsOf(t)
    BY DEF EventsBy, RowsOf, QuotesKept
  <1>2. call'[t] = call[t] /\ step'[t] = step[t] /\ offer'[t] = offer[t]
    BY DEF Steady, QuotesKept
  <1>3. \A n : SoFar(t, n) => SoFar(t, n)'
    BY <1>1, SoFarStays
  <1>4. Stored(t) => Stored(t)'
    BY <1>1, <1>2, StoredStays
  <1>5. \A n : (Asked(t, n) => Asked(t, n)') /\ (Priced(t, n) => Priced(t, n)')
    BY <1>1, <1>3, <1>4 DEF Asked, Priced
  <1>6. /\ t \in Answered' <=> t \in Answered
        /\ stage'[t] = "running" => stage[t] = "running"
    BY DEF Steady, Answered
  <1>7. \A i \in 1..2 : QuoteOf(call[t].scenarios[i])' = QuoteOf(call[t].scenarios[i])
    BY <1>2 DEF QuoteOf
  <1> QED
    BY <1>2, <1>5, <1>6, <1>7 DEF QuoteIsSound

\* The shape of every step of request r, or of none (r = 0), for the quotes.
LEMMA QuoteStepHolds ==
  ASSUME QuoteInv, CameStays, NEW r, \A t \in Requests \ {r} : Steady(t),
         QuotesKept(r), QuotesTyped',
         DOMAIN events' # DOMAIN events \/ DOMAIN quotes' # DOMAIN quotes => AsksForQuote(r)',
         r \in Requests /\ AsksForQuote(r)' => QuoteIsSound(r)'
  PROVE  QuoteInv'
  <1>1. \A t \in Requests : AsksForQuote(t) => AsksForQuote(t)'
    BY DEF CameStays, AsksForQuote
  <1>2. ASSUME NEW i \in DOMAIN events', NEW t, t = events'[i].by PROVE AsksForQuote(t)'
    <2>1. CASE i \in DOMAIN events
      <3>1. events[i] \in QuoteEventRows /\ t = events[i].by
        BY <1>2, <2>1, LenProperties DEF QuoteInv, QuotesTyped, QuotesKept
      <3>2. t \in Requests
        BY <3>1 DEF QuoteEventRows
      <3>3. AsksForQuote(t)
        BY <2>1, <3>1 DEF QuoteInv
      <3> QED
        BY <1>1, <3>2, <3>3
    <2>2. CASE i \notin DOMAIN events
      BY <1>2, <2>2 DEF QuotesKept
    <2> QED
      BY <2>1, <2>2
  <1>3. ASSUME NEW i \in DOMAIN quotes', NEW t, t = quotes'[i].by PROVE AsksForQuote(t)'
    <2>1. CASE i \in DOMAIN quotes
      <3>1. quotes[i] \in QuoteRows /\ t = quotes[i].by
        BY <1>3, <2>1, LenProperties DEF QuoteInv, QuotesTyped, QuotesKept
      <3>2. t \in Requests
        BY <3>1 DEF QuoteRows
      <3>3. AsksForQuote(t)
        BY <2>1, <3>1 DEF QuoteInv
      <3> QED
        BY <1>1, <3>2, <3>3
    <2>2. CASE i \notin DOMAIN quotes
      BY <1>3, <2>2 DEF QuotesKept
    <2> QED
      BY <2>1, <2>2
  <1>4. ASSUME NEW t \in Requests \ {r}, AsksForQuote(t)' PROVE QuoteIsSound(t)'
    <2>1. AsksForQuote(t) /\ Steady(t)
      BY <1>4 DEF Steady, AsksForQuote, Came
    <2> QED
      BY <2>1, QuoteStays DEF QuoteInv, AsksForQuote
  <1> QED
    BY <1>2, <1>3, <1>4 DEF QuoteInv, Requests, AsksForQuote, Came

-----------------------------------------------------------------------------
(* The steps of PricingService *)

Quoting(r) == Serving(r) /\ QuoteInv /\ call[r].op = "quote"

LEMMA QuotingFacts ==
  ASSUME NEW r \in Requests, Quoting(r)
  PROVE  /\ call[r] \in Calls /\ call'[r] = call[r]
         /\ stage[r] = "running" /\ AsksForQuote(r) /\ AsksForQuote(r)' /\ r \notin Answered
         /\ r \in Answered' <=> stage'[r] = "answered"
         /\ \A s : stage' = [stage EXCEPT ![r] = s] => stage'[r] = s
         /\ \A s : step' = [step EXCEPT ![r] = s] => step'[r] = s
         /\ QuoteIsSound(r) /\ QuotesTyped
         /\ \A t \in Requests \ {r} : Steady(t)
         /\ CameStays
  BY ServingFacts DEF Quoting, QuoteInv, AsksForQuote

\* A step that stores nothing.
LEMMA QuoteMove ==
  ASSUME NEW r \in Requests, Quoting(r), UNCHANGED <<events, quotes>>,
         \A t \in Requests \ {r} : offer'[t] = offer[t], QuotesTyped', QuoteIsSound(r)'
  PROVE  QuoteInv'
  <1>1. QuotesKept(r)
    BY DEF QuotesKept
  <1> QED
    BY <1>1, QuotingFacts, QuoteStepHolds DEF Quoting

LEMMA QuoteSame ==
  ASSUME NEW r \in Requests, Quoting(r), UNCHANGED <<events, quotes>>, NEW n
  PROVE  /\ SoFar(r, n) => SoFar(r, n)'
         /\ Asked(r, n) => Asked(r, n)'
         /\ Priced(r, n) => Priced(r, n)'
  <1>1. EventsBy(r)' = EventsBy(r) /\ RowsOf(r)' = RowsOf(r)
    BY DEF EventsBy, RowsOf
  <1>2. SoFar(r, n) => SoFar(r, n)'
    BY DEF SoFar, EventsBy, EventTypes
  <1>3. Stored(r) => Stored(r)'
    BY <1>1, QuotingFacts DEF Stored
  <1> QED
    BY <1>1, <1>2, <1>3 DEF Asked, Priced

LEMMA LinkEventHolds ==
  ASSUME NEW r \in Requests, Quoting(r), LinkEvent(r)
  PROVE  QuoteInv'
  <1>1. PICK h \in LatestOfTenant(events, call[r].tenant) :
          prevHash' = [prevHash EXCEPT ![r] = h]
    BY DEF LinkEvent
  <1>2. /\ step[r] \in {"start", "link"} /\ step'[r] = "record"
        /\ UNCHANGED <<stage, events, quotes, offer>>
    BY QuotingFacts DEF LinkEvent, At, Goto, interceptorVars
  <1>3. h \in DOMAIN events \cup {0}
    BY <1>1 DEF LatestOfTenant, Newest, GENESIS
  <1>4. h \in Nat
    BY <1>3, QuotingFacts, LenProperties DEF QuotesTyped
  <1>5. QuotesTyped'
    BY <1>1, <1>2, <1>4, QuotingFacts DEF QuotesTyped
  <1>6. QuoteIsSound(r)'
    BY <1>2, QuoteSame, QuotingFacts DEF QuoteIsSound
  <1> QED
    BY <1>2, <1>5, <1>6, QuoteMove

LEMMA AdapterHolds ==
  ASSUME NEW r \in Requests, Quoting(r), Adapter(r)
  PROVE  QuoteInv'
  <1>1. PICK pair : /\ pair = [i \in 1..2 |-> QuoteOf(call[r].scenarios[i])]
                    /\ offer' = [offer EXCEPT ![r] = pair]
    BY DEF Adapter
  <1>2. /\ step[r] = "adapter" /\ step'[r] = "persist"
        /\ UNCHANGED <<stage, events, quotes, prevHash>>
    BY QuotingFacts DEF Adapter, At, Goto, interceptorVars
  <1>3. QuotesTyped'
    BY <1>1, <1>2, QuotingFacts DEF QuotesTyped
  <1>4. /\ offer'[r] = pair
        /\ \A t \in Requests \ {r} : offer'[t] = offer[t]
    BY <1>1, QuotingFacts DEF QuotesTyped
  <1>5. Asked(r, 1)'
    BY <1>2, QuoteSame, QuotingFacts DEF QuoteIsSound
  <1>6. QuoteIsSound(r)'
    <2>1. \A i \in 1..2 : QuoteOf(call[r].scenarios[i])' = QuoteOf(call[r].scenarios[i])
      BY QuotingFacts DEF QuoteOf
    <2> QED
      BY <1>1, <1>2, <1>4, <1>5, <2>1, QuotingFacts DEF QuoteIsSound
  <1> QED
    BY <1>2, <1>3, <1>4, <1>6, QuoteMove

LEMMA ReturnQuoteHolds ==
  ASSUME NEW r \in Requests, Quoting(r), ReturnQuote(r)
  PROVE  QuoteInv'
  <1>1. /\ step[r] = "return" /\ stage'[r] = "answered" /\ UNCHANGED <<step, pricingVars>>
    BY QuotingFacts DEF ReturnQuote, At, Answer
  <1>2. QuotesTyped'
    BY <1>1, QuotingFacts DEF QuotesTyped, pricingVars
  <1>3. QuoteIsSound(r)'
    BY <1>1, QuoteSame, QuotingFacts DEF QuoteIsSound, pricingVars
  <1> QED
    BY <1>1, <1>2, <1>3, QuoteMove DEF pricingVars

LEMMA PersistQuotesHolds ==
  ASSUME NEW r \in Requests, Quoting(r), PersistQuotes(r)
  PROVE  QuoteInv'
  <1>1. PICK n : n = Len(quotes)
    OBVIOUS
  <1> DEFINE row(i) == [tenant |-> call[r].tenant, loan |-> call[r].loan, by |-> r,
                        quote |-> offer[r][i]]
             two == [i \in 1..2 |-> row(i)]
  <1>2. /\ step[r] = "persist" /\ step'[r] = "link" /\ quotes' = quotes \o two
        /\ UNCHANGED <<stage, events, prevHash, offer>>
    BY QuotingFacts DEF PersistQuotes, At, Goto, interceptorVars
  <1>3. /\ Asked(r, 1)
        /\ offer[r] = [i \in 1..2 |-> QuoteOf(call[r].scenarios[i])]
    BY <1>2, QuotingFacts DEF QuoteIsSound
  <1>4. quotes \in Seq(QuoteRows)
    BY QuotingFacts DEF QuotesTyped
  <1>5. ASSUME NEW i \in 1..2
        PROVE  row(i) \in QuoteRows
    <2>1. offer[r][i] = QuoteOf(call[r].scenarios[i])
      BY <1>3
    <2>2. offer[r][i] \in {QuoteOf(c.scenarios[j]) : c \in Calls, j \in 1..2}
      BY <2>1, QuotingFacts
    <2>3. /\ call[r].tenant \in {c.tenant : c \in Calls}
          /\ call[r].loan \in {c.loan : c \in Calls}
      BY QuotingFacts
    <2> QED
      BY <2>2, <2>3 DEF QuoteRows
  <1>6. \A i \in 1..2 : two[i].by = r /\ two[i].quote = offer[r][i]
    OBVIOUS
  <1>7. two \in Seq(QuoteRows) /\ Len(two) = 2
    <2>1. two \in [1..2 -> QuoteRows]
      BY <1>5
    <2>2. two \in Seq(QuoteRows)
      BY <2>1, SeqDef
    <2> HIDE DEF two
    <2> QED
      BY <2>1, <2>2, LenProperties
  <1> HIDE DEF two
  <1> DEFINE t == quotes \o two
  <1>8. /\ t \in Seq(QuoteRows) /\ n \in Nat
        /\ DOMAIN quotes = 1..n /\ DOMAIN t = 1..(n + 2)
        /\ \A i \in 1..n : t[i] = quotes[i]
        /\ t[n + 1] = two[1] /\ t[n + 2] = two[2]
    <2>1. n \in Nat /\ DOMAIN quotes = 1..n
      BY <1>1, <1>4, LenProperties
    <2>2. /\ t \in Seq(QuoteRows) /\ Len(t) = Len(quotes) + Len(two)
          /\ \A i \in 1..(Len(quotes) + Len(two)) :
               t[i] = IF i <= Len(quotes) THEN quotes[i] ELSE two[i - Len(quotes)]
      BY <1>4, <1>7, ConcatProperties
    <2>3. /\ Len(t) = n + 2
          /\ \A i \in 1..(n + 2) : t[i] = IF i <= n THEN quotes[i] ELSE two[i - n]
      BY <1>1, <1>7, <2>2
    <2> HIDE DEF t
    <2>4. DOMAIN t = 1..(n + 2)
      BY <2>2, <2>3, LenProperties
    <2>5. \A i \in 1..n : t[i] = quotes[i]
      BY <2>1, <2>3
    <2>6. t[n + 1] = two[1] /\ t[n + 2] = two[2]
      <3>1. n + 1 - n = 1 /\ n + 2 - n = 2
        BY <2>1
      <3> QED
        BY <2>1, <2>3, <3>1
    <2> QED
      BY <2>1, <2>2, <2>4, <2>5, <2>6
  <1>9. quotes' = t
    BY <1>2
  <1> HIDE DEF t
  <1>10. QuotesTyped'
    BY <1>2, <1>8, <1>9, QuotingFacts DEF QuotesTyped
  <1>11. QuotesKept(r)
    <2>1. \A i \in DOMAIN t \ DOMAIN quotes : i = n + 1 \/ i = n + 2
      BY <1>8
    <2> QED
      BY <1>2, <1>6, <1>8, <1>9, <2>1 DEF QuotesKept
  <1>12. RowsOf(r)' = {n + 1, n + 2}
    <2>1. \A i \in 1..n : quotes[i].by # r
      BY <1>3, <1>8 DEF Asked, RowsOf
    <2> QED
      BY <1>2, <1>6, <1>8, <1>9, <2>1 DEF RowsOf
  <1>13. Stored(r)'
    <2>1. \A i \in 1..2 : QuoteOf(call[r].scenarios[i]).scenarioKey = call[r].scenarios[i].scenarioKey
      BY DEF QuoteOf
    <2>2. \A i \in 1..2 : two[i].quote.scenarioKey = call[r].scenarios[i].scenarioKey
      BY <1>3, <1>6, <2>1
    <2>3. \A i \in 1..2 : quotes'[n + i].quote.scenarioKey = call'[r].scenarios[i].scenarioKey
      BY <1>2, <1>8, <1>9, <2>2, QuotingFacts
    <2> QED
      BY <1>8, <1>12, <2>3 DEF Stored
  <1>14. SoFar(r, 1)'
    BY <1>2, <1>3 DEF Asked, SoFar, EventsBy, EventTypes
  <1>15. QuoteIsSound(r)'
    BY <1>2, <1>13, <1>14, QuotingFacts DEF QuoteIsSound, Priced
  <1> QED
    BY <1>10, <1>11, <1>15, QuotingFacts, QuoteStepHolds DEF Quoting

LEMMA Numbered ==
  ASSUME NEW n \in Nat, NEW f, \A i \in 1..n : f[i] \in Int,
         \A i, j \in 1..n : i < j => f[i] < f[j]
  PROVE  /\ IsFiniteSet({f[k] : k \in 1..n})
         /\ Cardinality({f[k] : k \in 1..n}) = n
  <1> DEFINE S == {f[k] : k \in 1..n}
             g == [k \in 1..n |-> f[k]]
  <1>1. g \in [1..n -> S] /\ \A k \in 1..n : g[k] = f[k]
    OBVIOUS
  <1>2. \A i, j \in 1..n : g[i] = g[j] => i = j
    <2>1. \A i, j \in 1..n : i = j \/ i < j \/ j < i
      OBVIOUS
    <2> QED
      BY <2>1
  <1>3. \A x \in S : \E k \in 1..n : g[k] = x
    OBVIOUS
  <1>4. g \in Bijection(1..n, S)
    <2> HIDE DEF g, S
    <2> QED
      BY <1>1, <1>2, <1>3 DEF Bijection, Injection, Surjection, IsInjective
  <1>5. ExistsBijection(1..n, S)
    BY <1>4 DEF ExistsBijection
  <1>6. IsFiniteSet(1..n) /\ Cardinality(1..n) = n
    <2>1. 1 \in Int /\ n \in Int
      OBVIOUS
    <2> QED
      BY <2>1, FS_Interval
  <1> HIDE DEF S
  <1>7. IsFiniteSet(S) /\ Cardinality(S) = n
    BY <1>5, <1>6, FS_Bijection
  <1> QED
    BY <1>7 DEF S

\* The k-th event of a request is preceded by k - 1 others of it.
LEMMA Ranked ==
  ASSUME NEW n \in Nat, NEW f, \A i \in 1..n : f[i] \in Int,
         \A i, j \in 1..n : i < j => f[i] < f[j], NEW k \in 1..n
  PROVE  Cardinality({x \in {f[i] : i \in 1..n} : x <= f[k]}) = k
  <1>1. {x \in {f[i] : i \in 1..n} : x <= f[k]} = {f[i] : i \in 1..k}
    <2>1. \A i \in 1..n : f[i] <= f[k] <=> i <= k
      <3>1. \A i \in 1..n : i = k \/ i < k \/ k < i
        OBVIOUS
      <3> QED
        BY <3>1
    <2> QED
      BY <2>1
  <1>2. /\ k \in Nat /\ \A i \in 1..k : f[i] \in Int
        /\ \A i, j \in 1..k : i < j => f[i] < f[j]
    OBVIOUS
  <1> QED
    BY <1>1, <1>2, Numbered

LEMMA SoFarCounts ==
  ASSUME QuotesTyped, NEW r, NEW n \in Nat, SoFar(r, n)
  PROVE  /\ Cardinality(EventsBy(r)) = n
         /\ \A i \in EventsBy(r) :
              events[i].type = EventTypes[Cardinality({j \in EventsBy(r) : j <= i})]
  <1>1. PICK f \in [1..n -> DOMAIN events] :
          /\ \A i, j \in 1..n : i < j => f[i] < f[j]
          /\ EventsBy(r) = {f[k] : k \in 1..n}
          /\ \A k \in 1..n : events[f[k]].type = EventTypes[k]
    BY DEF SoFar
  <1>2. \A i \in 1..n : f[i] \in Int
    BY LenProperties DEF QuotesTyped
  <1>3. Cardinality(EventsBy(r)) = n
    BY <1>1, <1>2, Numbered
  <1>4. ASSUME NEW k \in 1..n
        PROVE  events[f[k]].type = EventTypes[Cardinality({j \in EventsBy(r) : j <= f[k]})]
    <2>1. Cardinality({j \in EventsBy(r) : j <= f[k]}) = k
      BY <1>1, <1>2, Ranked
    <2> QED
      BY <1>1, <2>1
  <1> QED
    BY <1>1, <1>3, <1>4

LEMMA RecordEventHolds ==
  ASSUME NEW r \in Requests, Quoting(r), RecordEvent(r)
  PROVE  QuoteInv'
  <1>1. PICK l : l = Len(events)
    OBVIOUS
  <1>2. PICK m \in 0..2 :
          \/ m = 0 /\ Asked(r, 0)
          \/ m \in 1..2 /\ Priced(r, m)
    <2>1. step[r] = "record"
      BY DEF RecordEvent, At
    <2>2. Asked(r, 0) \/ Priced(r, 1) \/ Priced(r, 2)
      BY <2>1, QuotingFacts DEF QuoteIsSound
    <2>3. /\ 0 \in 0..2 /\ 1 \in 0..2 /\ 2 \in 0..2
          /\ 1 \in 1..2 /\ 2 \in 1..2
      OBVIOUS
    <2> QED
      BY <2>2, <2>3
  <1>3. SoFar(r, m) /\ Cardinality(EventsBy(r)) + 1 = m + 1
    <2>1. SoFar(r, m)
      BY <1>2 DEF Asked, Priced
    <2> QED
      BY <2>1, QuotingFacts, SoFarCounts
  <1>4. events' \in Appended(events,
           [tenant |-> call[r].tenant, loan |-> call[r].loan, subject |-> call[r].loan,
            type |-> EventTypes[m + 1], by |-> r], prevHash[r])
    BY <1>3 DEF RecordEvent
  <1>5. PICK last : last = IF events = <<>> THEN 0 ELSE events[Len(events)].at
    OBVIOUS
  <1>6. PICK p \in TriggerPrev(events, call[r].tenant, call[r].loan, prevHash[r]),
             d \in StampSteps :
          events' = Append(events, [tenant |-> call[r].tenant, loan |-> call[r].loan,
                                    subject |-> call[r].loan, type |-> EventTypes[m + 1],
                                    by |-> r, prev |-> p, at |-> last + d])
    BY <1>4, <1>5 DEF Appended
  <1>7. Goto(r, AfterEvent[m + 1]) /\ UNCHANGED <<stage, quotes, prevHash, offer>>
    BY <1>3 DEF RecordEvent, interceptorVars
  <1>8. events \in Seq(QuoteEventRows) /\ prevHash[r] \in Nat
    BY QuotingFacts DEF QuotesTyped
  <1>9. l \in Nat /\ DOMAIN events = 1..l
    BY <1>1, <1>8, LenProperties
  <1> DEFINE row == [tenant |-> call[r].tenant, loan |-> call[r].loan,
                     subject |-> call[r].loan, type |-> EventTypes[m + 1],
                     by |-> r, prev |-> p, at |-> last + d]
             t == Append(events, row)
  <1>10. row \in QuoteEventRows /\ row.by = r /\ row.type = EventTypes[m + 1]
    <2>1. p \in Nat
      BY <1>6, <1>8, <1>9 DEF TriggerPrev, Newest, GENESIS
    <2>2. last \in Int
      <3>1. CASE events = <<>>
        BY <1>5, <3>1
      <3>2. CASE events # <<>>
        <4>1. l \in 1..l
          BY <1>1, <1>8, <1>9, <3>2, EmptySeq, LenProperties
        <4>2. events[l] \in QuoteEventRows
          BY <1>1, <1>8, <4>1, ElementOfSeq
        <4> QED
          BY <1>1, <1>5, <3>2, <4>2 DEF QuoteEventRows
      <3> QED
        BY <3>1, <3>2
    <2>3. last + d \in Int
      BY <1>6, <2>2, StampStepsAssumption
    <2>4. /\ call[r].tenant \in {c.tenant : c \in Calls}
          /\ call[r].loan \in {c.loan : c \in Calls}
          /\ EventTypes[m + 1] \in {EventTypes[k] : k \in 1..3}
      BY QuotingFacts
    <2> QED
      BY <2>1, <2>3, <2>4 DEF QuoteEventRows
  <1> HIDE DEF row
  <1>11. /\ t \in Seq(QuoteEventRows) /\ DOMAIN t = 1..(l + 1)
        /\ t[l + 1] = row /\ \A i \in 1..l : t[i] = events[i]
    BY <1>1, <1>8, <1>9, <1>10, AppendProperties, LenProperties
  <1>12. events' = t
    BY <1>6 DEF row
  <1> HIDE DEF t
  <1>13. QuotesTyped'
    BY <1>7, <1>11, <1>12, QuotingFacts DEF QuotesTyped
  <1>14. QuotesKept(r)
    BY <1>7, <1>9, <1>10, <1>11, <1>12 DEF QuotesKept
  <1>15. EventsBy(r)' = EventsBy(r) \cup {l + 1}
    BY <1>9, <1>10, <1>11, <1>12 DEF EventsBy
  <1>16. SoFar(r, m + 1)'
    <2>1. PICK f \in [1..m -> DOMAIN events] :
            /\ \A i, j \in 1..m : i < j => f[i] < f[j]
            /\ EventsBy(r) = {f[k] : k \in 1..m}
            /\ \A k \in 1..m : events[f[k]].type = EventTypes[k]
      BY <1>3 DEF SoFar
    <2>2. PICK g : g = [k \in 1..(m + 1) |-> IF k = m + 1 THEN l + 1 ELSE f[k]]
      OBVIOUS
    <2>3. g[m + 1] = l + 1 /\ \A k \in 1..m : k \in 1..(m + 1) /\ g[k] = f[k]
      BY <2>2
    <2>4. g \in [1..(m + 1) -> 1..(l + 1)]
      BY <1>9, <2>1, <2>2
    <2>5. \A i, j \in 1..(m + 1) : i < j => g[i] < g[j]
      <3>1. \A i, j \in 1..(m + 1) : i < j => i \in 1..m /\ (j \in 1..m \/ j = m + 1)
        OBVIOUS
      <3>2. \A i \in 1..m : f[i] \in 1..l
        BY <1>9, <2>1
      <3>3. \A i \in 1..m : f[i] < l + 1
        BY <1>9, <3>2
      <3> QED
        BY <2>1, <2>3, <3>1, <3>3
    <2>6. EventsBy(r)' = {g[k] : k \in 1..(m + 1)}
      <3>1. 1..(m + 1) = 1..m \cup {m + 1}
        OBVIOUS
      <3> QED
        BY <1>15, <2>1, <2>3, <3>1
    <2>7. \A k \in 1..(m + 1) : events'[g[k]].type = EventTypes[k]
      <3>1. \A k \in 1..m : f[k] \in 1..l /\ events'[f[k]] = events[f[k]]
        BY <1>9, <1>11, <1>12, <2>1
      <3>2. \A k \in 1..(m + 1) : k \in 1..m \/ k = m + 1
        OBVIOUS
      <3> QED
        BY <1>10, <1>11, <1>12, <2>1, <2>3, <3>1, <3>2
    <2> QED
      BY <1>11, <1>12, <2>4, <2>5, <2>6, <2>7 DEF SoFar, EventTypes
  <1>17. RowsOf(r)' = RowsOf(r) /\ (Stored(r) => Stored(r)')
    BY <1>7, QuotingFacts DEF RowsOf, Stored
  <1>18. QuoteIsSound(r)'
    <2>1. step'[r] = AfterEvent[m + 1] /\ stage'[r] = "running" /\ r \notin Answered'
      BY <1>7, QuotingFacts DEF Goto
    <2>2. CASE m = 0
      <3>1. Asked(r, 1)' /\ step'[r] = "adapter"
        BY <1>2, <1>16, <1>17, <2>1, <2>2 DEF Asked, AfterEvent
      <3> QED
        BY <2>1, <3>1 DEF QuoteIsSound
    <2>3. CASE m = 1
      <3>1. Priced(r, 2)' /\ step'[r] = "link"
        BY <1>2, <1>16, <1>17, <2>1, <2>3 DEF Priced, AfterEvent
      <3> QED
        BY <2>1, <3>1 DEF QuoteIsSound
    <2>4. CASE m = 2
      <3>1. Priced(r, 3)' /\ step'[r] = "return"
        BY <1>2, <1>16, <1>17, <2>1, <2>4 DEF Priced, AfterEvent
      <3> QED
        BY <2>1, <3>1 DEF QuoteIsSound
    <2> QED
      BY <2>2, <2>3, <2>4
  <1> QED
    BY <1>13, <1>14, <1>18, QuotingFacts, QuoteStepHolds DEF Quoting

\* The steps of other services, and those of the interceptor.
LEMMA QuotesElsewhere ==
  ASSUME BaseInv, QuoteInv, CameStays, NEW r,
         r \in Requests => Arrives(r) \/ (Handles(r) /\ call[r].op # "quote"),
         \A t \in Requests \ {r} : Steady(t),
         UNCHANGED <<events, quotes, prevHash, offer>>
  PROVE  QuoteInv'
  <1>1. QuotesKept(r) /\ QuotesTyped'
    BY DEF QuotesKept, QuoteInv, QuotesTyped
  <1>2. ASSUME r \in Requests, AsksForQuote(r)' PROVE QuoteIsSound(r)'
    <2>1. Arrives(r)
      BY <1>2 DEF AsksForQuote, Handles
    <2>2. ~Came(r) /\ step'[r] = "start" /\ stage'[r] \in {"running", "conflict"}
          /\ r \notin Answered'
      BY <1>2, <2>1 DEF Arrives, BaseInv, RequestIsKnown, Answered, Came
    <2>3. EventsBy(r)' = {} /\ RowsOf(r)' = {}
      <3>1. EventsBy(r) = {} /\ RowsOf(r) = {}
        BY <2>2 DEF QuoteInv, AsksForQuote, EventsBy, RowsOf
      <3> QED
        BY <3>1 DEF EventsBy, RowsOf
    <2>4. SoFar(r, 0)'
      <3>1. PICK f : f = [k \in 1..0 |-> 0]
        OBVIOUS
      <3>2. f \in [1..0 -> DOMAIN events'] /\ {f[k] : k \in 1..0} = {}
        BY <3>1
      <3>3. \A i \in 1..0 : FALSE
        OBVIOUS
      <3> QED
        BY <2>3, <3>2, <3>3 DEF SoFar
    <2> QED
      BY <2>2, <2>3, <2>4 DEF QuoteIsSound, Asked
  <1>3. DOMAIN events' = DOMAIN events /\ DOMAIN quotes' = DOMAIN quotes
    OBVIOUS
  <1> QED
    BY <1>1, <1>2, <1>3, QuoteStepHolds

LEMMA QuotesHold ==
  ASSUME BaseInv, CachesTyped, QuoteInv, [Next]_vars
  PROVE  QuoteInv'
  <1>1. ASSUME NEW r \in Requests, Arrives(r) PROVE QuoteInv'
    <2>1. UNCHANGED <<events, quotes, prevHash, offer>>
      BY <1>1 DEF Arrives, tables
    <2>2. \A t \in Requests \ {r} : Steady(t)
      BY <1>1 DEF Arrives
    <2> QED
      BY <1>1, <2>1, <2>2, StayLemma, QuotesElsewhere
  <1>2. CASE Ends
    <2>1. 0 \notin Requests
      BY DEF Requests
    <2>2. UNCHANGED <<events, quotes, prevHash, offer>> /\ \A t \in Requests \ {0} : Steady(t)
      BY <1>2 DEF Ends, tables
    <2> QED
      BY <1>2, <2>1, <2>2, StayLemma, QuotesElsewhere
  <1>3. ASSUME NEW r \in Requests, Handles(r), QuoteStep(r) PROVE QuoteInv'
    <2>1. call[r].op = "quote"
      BY <1>3 DEF QuoteStep, LinkEvent, RecordEvent, Adapter, PersistQuotes, ReturnQuote, At
    <2>2. Quoting(r)
      BY <1>3, <2>1, StayLemma DEF Quoting, Serving
    <2> QED
      BY <1>3, <2>2, LinkEventHolds, RecordEventHolds, AdapterHolds, PersistQuotesHolds,
         ReturnQuoteHolds DEF QuoteStep
  <1>4. ASSUME NEW r \in Requests, Handles(r), TaskStep(r) \/ WebhookStep(r),
               UNCHANGED pricingVars
        PROVE  QuoteInv'
    <2>1. call[r].op # "quote"
      BY <1>4 DEF TaskStep, findTask, updateTask, findPreviousEvent, createTaskEvent,
           hasSeenTaskKey, bulkUpdate, findRouted, routeTask, rememberTaskKey,
           WebhookStep, ingest, findSender, createWebhook, rememberWebhook, At
    <2>2. \A t \in Requests \ {r} : Steady(t)
      BY <1>4 DEF Handles
    <2> QED
      BY <1>4, <2>1, <2>2, StayLemma, QuotesElsewhere DEF pricingVars
  <1> QED
    BY <1>1, <1>2, <1>3, <1>4, Kinds DEF Handler

LEMMA QuotesBegin == Init => QuoteInv
  <1> SUFFICES ASSUME Init PROVE QuoteInv
    OBVIOUS
  <1>1. /\ stage = [r \in Requests |-> "idle"] /\ events = <<>> /\ quotes = <<>>
        /\ prevHash = [r \in Requests |-> GENESIS] /\ offer = [r \in Requests |-> <<>>]
    BY DEF Init, RecordInit, PricingInit
  <1>2. DOMAIN events = {} /\ DOMAIN quotes = {}
    <2>1. events = <<>> /\ quotes = <<>>
      BY <1>1
    <2> QED
      BY <2>1
  <1>3. QuotesTyped
    BY <1>1, EmptySeq DEF QuotesTyped, GENESIS
  <1> QED
    BY <1>1, <1>2, <1>3 DEF QuoteInv, AsksForQuote, Came

-----------------------------------------------------------------------------
(* The invariant of the whole, and what it says of each service *)

IInv == BaseInv /\ CachesTyped /\ TaskInv /\ WebhookInv /\ QuoteInv

LEMMA IInvInit == Init => IInv
  BY InterceptorInit, CachesBegin, TasksBegin, WebhooksBegin, QuotesBegin DEF IInv

LEMMA IInvNext == IInv /\ [Next]_vars => IInv'
  BY InterceptorHolds, CachesHold, TasksHold, WebhooksHold, QuotesHold DEF IInv

LEMMA IInvHolds == Spec => []IInv
  BY IInvInit, IInvNext, PTL DEF Spec

\* A request that never came to its handler has written nothing.
LEMMA OnlyThoseWrite ==
  ASSUME IInv, NEW r \in Writers
  PROVE  Came(r)
  <1>1. CASE r \in TaskWriters
    <2>1. r \in Requests /\ TaskRequest(r) /\ ~(HasNoEvent(r) /\ HasNoTask(r))
      BY <1>1 DEF TaskWriters, HasNoEvent, HasNoTask, IInv, TaskInv
    <2> QED
      BY <2>1 DEF TaskRequest
  <1>2. CASE r \in {webhooks[i].by : i \in DOMAIN webhooks}
    BY <1>2 DEF IInv, WebhookInv, WebhookIsGenuine
  <1>3. CASE r \in QuoteWriters \/ r \in {events[i].by : i \in DOMAIN events}
    BY <1>3 DEF QuoteWriters, IInv, QuoteInv, AsksForQuote
  <1> QED
    BY <1>1, <1>2, <1>3 DEF Writers

LEMMA SpentFollows == IInv => SpentForAllServices
  <1> SUFFICES ASSUME IInv, NEW r \in Requests
               PROVE  /\ (\E s \in past[r].recorded : SameKey(r, s)) => r \notin Writers
                      /\ stage[r] = "conflict" => \E s \in past[r].answered : SameKey(r, s)
    BY DEF SpentForAllServices
  <1>1. RequestIsKnown(r)
    BY DEF IInv, BaseInv
  <1> QED
    BY <1>1, OnlyThoseWrite DEF RequestIsKnown, Came

LEMMA RepeatFollows == IInv => RepeatChangesNothing
  <1> SUFFICES ASSUME IInv, NEW r \in Requests, NEW s \in past[r].answered,
                      call[r] = call[s], call[r].op \in {"bulkUpdate", "route", "ingest"},
                      process[r] = process[s], process[r] \notin lapsed, r \in Writers
               PROVE  FALSE
    BY DEF RepeatChangesNothing
  <1>1. Repeats(r) /\ Came(r)
    BY OnlyThoseWrite DEF Repeats
  <1>2. TaskRequest(r)
    BY DEF IInv, TaskInv
  <1>3. HasNoTask(r) /\ HasNoEvent(r)
    BY <1>1, <1>2 DEF TaskRequest, TaskOps, RouteIsSound, BulkIsSound, RepeatsNoTask
  <1>4. r \notin TaskWriters
    BY <1>3 DEF TaskWriters, HasNoTask, HasNoEvent
  <1>5. \A i \in DOMAIN webhooks : webhooks[i].by # r
    <2>1. CASE call[r].op = "ingest"
      BY <1>1, <2>1 DEF IInv, WebhookInv, DeliveryIsSound, HasNoWebhook
    <2>2. CASE call[r].op # "ingest"
      BY <2>2 DEF IInv, WebhookInv, WebhookIsGenuine
    <2> QED
      BY <2>1, <2>2
  <1>6. r \notin QuoteWriters /\ \A i \in DOMAIN events : events[i].by # r
    BY DEF QuoteWriters, IInv, QuoteInv, AsksForQuote
  <1> QED
    BY <1>4, <1>5, <1>6 DEF Writers

LEMMA ReceiptsFollow == IInv => ReceiptsAreGenuine
  <1> SUFFICES ASSUME IInv, NEW r \in Answered, call[r].op = "ingest"
               PROVE  LET w == webhooks[receipt[r].id]
                      IN  IF w.by = r
                          THEN /\ receipt[r].signatureValid = w.signatureValid
                               /\ w.signatureValid =>
                                    /\ call[r].signature.slug = call[r].slug
                                    /\ call[r].signature.tenant \in {call[r].tenant, NoTenant}
                          ELSE /\ w.by \in Answered /\ call[w.by].key = call[r].key
                               /\ process[w.by] = process[r]
    BY DEF ReceiptsAreGenuine
  <1>1. r \in Requests /\ Came(r)
    BY DEF Answered, Came
  <1>2. Told(r) \/ ToldAgain(r)
    BY <1>1 DEF IInv, WebhookInv, DeliveryIsSound
  <1>3. CASE Told(r)
    <2>1. WebhookIsGenuine(receipt[r].id)
      BY <1>3 DEF Told, IInv, WebhookInv
    <2> QED
      BY <1>3, <2>1 DEF Told, WebhookIsGenuine, Senders
  <1>4. CASE ToldAgain(r)
    BY <1>4 DEF ToldAgain, Keeps
  <1> QED
    BY <1>2, <1>3, <1>4

LEMMA RoutedFollows == IInv => RoutedAsAsked
  <1> SUFFICES ASSUME IInv, NEW r \in Answered, call[r].op = "route"
               PROVE  \/ /\ r \in tasks[call[r].target].by /\ routed[r] = call[r].queue
                         /\ TaskTenant[call[r].target] = call[r].tenant
                      \/ \E s \in Answered \ {r} :
                           /\ call[s].op \in {"bulkUpdate", "route"}
                           /\ call[s].key = call[r].key /\ process[s] = process[r]
    BY DEF RoutedAsAsked
  <1>1. r \in Requests /\ Came(r)
    BY DEF Answered, Came
  <1>2. RouteIsSound(r)
    BY <1>1 DEF IInv, TaskInv, TaskRequest
  <1> QED
    BY <1>2 DEF RouteIsSound, Routed, TaskFound, ServedByOther, Served

LEMMA TrailFollows == IInv => TrailIsGenuine
  <1> SUFFICES ASSUME IInv PROVE TrailIsGenuine
    OBVIOUS
  <1>1. ASSUME NEW r \in Answered, call[r].op = "transition"
        PROVE  Cardinality({i \in DOMAIN taskEvents : taskEvents[i].by = r}) = 1
    <2>1. r \in Requests /\ Came(r)
      BY DEF Answered, Came
    <2>2. HasOneEvent(r)
      BY <1>1, <2>1 DEF IInv, TaskInv, TaskRequest, TransitionIsSound
    <2>3. PICK i : {j \in DOMAIN taskEvents : taskEvents[j].by = r} = {i}
      BY <2>2 DEF HasOneEvent
    <2> QED
      BY <2>3, FS_Singleton
  <1> QED
    BY <1>1 DEF TrailIsGenuine, IInv, TaskInv, EventIsGenuine, StateIsAsked

LEMMA QuoteFollows == IInv => QuoteIsTold
  <1> SUFFICES ASSUME IInv, NEW r \in Requests, call[r] # NoCall, call[r].op = "quote"
               PROVE  /\ \A i \in EventsBy(r) :
                           events[i].type = EventTypes[Cardinality({j \in EventsBy(r) : j <= i})]
                      /\ Cardinality(RowsOf(r)) \in {0, 2}
                      /\ Cardinality(EventsBy(r)) >= 2 => RowsOf(r) # {}
                      /\ RowsOf(r) # {} => Cardinality(EventsBy(r)) >= 1
                      /\ r \in Answered => Cardinality(EventsBy(r)) = 3
                      /\ {quotes[i].quote.scenarioKey : i \in RowsOf(r)} \in
                           {{}, {s.scenarioKey :
                                   s \in {call[r].scenarios[1], call[r].scenarios[2]}}}
    BY DEF QuoteIsTold, RowsOf
  <1>1. QuotesTyped
    BY DEF IInv, QuoteInv
  <1>2. RowsOf(r) = {} => /\ Cardinality(RowsOf(r)) \in {0, 2}
                          /\ {quotes[i].quote.scenarioKey : i \in RowsOf(r)} = {}
    BY FS_EmptySet
  <1>3. CASE ~Came(r)
    <2>1. EventsBy(r) = {} /\ RowsOf(r) = {} /\ r \notin Answered
      BY <1>3 DEF IInv, QuoteInv, AsksForQuote, EventsBy, RowsOf, Answered, Came
    <2>2. Cardinality(EventsBy(r)) = 0
      BY <2>1, FS_EmptySet
    <2> QED
      BY <1>2, <2>1, <2>2
  <1>4. CASE Came(r)
    <2>1. QuoteIsSound(r)
      BY <1>4 DEF IInv, QuoteInv, AsksForQuote
    <2>2. PICK n \in 0..3 :
            /\ SoFar(r, n) /\ (r \in Answered => n = 3)
            /\ (RowsOf(r) = {} /\ n <= 1) \/ (Stored(r) /\ n >= 1)
      <3>1. /\ 0 \in 0..3 /\ 1 \in 0..3 /\ 2 \in 0..3 /\ 3 \in 0..3
            /\ 0 <= 1 /\ 1 <= 1 /\ 1 >= 1 /\ 2 >= 1 /\ 3 >= 1
        OBVIOUS
      <3>2. CASE r \in Answered
        BY <2>1, <3>1, <3>2 DEF QuoteIsSound, Priced
      <3>3. CASE r \notin Answered
        BY <2>1, <3>1, <3>3 DEF QuoteIsSound, Asked, Priced
      <3> QED
        BY <3>2, <3>3
    <2>3. /\ Cardinality(EventsBy(r)) = n
          /\ \A i \in EventsBy(r) :
               events[i].type = EventTypes[Cardinality({j \in EventsBy(r) : j <= i})]
      BY <1>1, <2>2, SoFarCounts
    <2>4. ASSUME Stored(r)
          PROVE  /\ Cardinality(RowsOf(r)) = 2 /\ RowsOf(r) # {}
                 /\ {quotes[i].quote.scenarioKey : i \in RowsOf(r)} =
                      {s.scenarioKey : s \in {call[r].scenarios[1], call[r].scenarios[2]}}
      <3>1. PICK k \in Nat :
              /\ RowsOf(r) = {k + 1, k + 2}
              /\ \A i \in 1..2 :
                   quotes[k + i].quote.scenarioKey = call[r].scenarios[i].scenarioKey
        BY <2>4 DEF Stored
      <3>2. /\ quotes[k + 1].quote.scenarioKey = call[r].scenarios[1].scenarioKey
            /\ quotes[k + 2].quote.scenarioKey = call[r].scenarios[2].scenarioKey
        BY <3>1
      <3>3. Cardinality({k + 1, k + 2}) = 2
        <4>1. PICK a, b : a = k + 1 /\ b = k + 2
          OBVIOUS
        <4>2. b \notin {a} /\ {k + 1, k + 2} = {a} \cup {b}
          BY <4>1
        <4>3. IsFiniteSet({a}) /\ Cardinality({a}) = 1
          BY FS_Singleton
        <4>4. Cardinality({a} \cup {b}) = Cardinality({a}) + 1
          BY <4>2, <4>3, FS_AddElement
        <4> QED
          BY <4>2, <4>3, <4>4
      <3> QED
        BY <3>1, <3>2, <3>3
    <2>5. Cardinality(RowsOf(r)) \in {0, 2}
      BY <1>2, <2>2, <2>4
    <2>6. {quotes[i].quote.scenarioKey : i \in RowsOf(r)} \in
            {{}, {s.scenarioKey : s \in {call[r].scenarios[1], call[r].scenarios[2]}}}
      BY <1>2, <2>2, <2>4
    <2>7. Cardinality(EventsBy(r)) >= 2 => RowsOf(r) # {}
      BY <2>2, <2>3, <2>4
    <2>8. RowsOf(r) # {} => Cardinality(EventsBy(r)) >= 1
      BY <2>2, <2>3
    <2>9. r \in Answered => Cardinality(EventsBy(r)) = 3
      BY <2>2, <2>3
    <2> QED
      BY <2>3, <2>5, <2>6, <2>7, <2>8, <2>9
  <1> QED
    BY <1>3, <1>4

\* A key whose record was completed is spent for every service, and nothing else
\* refuses a request: IdempotencyInterceptor.intercept.
THEOREM KeysSpent == Spec => []SpentForAllServices
  BY IInvHolds, SpentFollows, PTL

\* A repeated bulk update, routing or delivery writes nothing while its process
\* remembers the key: the caches of TasksService and WebhooksService.
THEOREM RepeatsChangeNothing == Spec => []RepeatChangesNothing
  BY IInvHolds, RepeatFollows, PTL

\* An answered delivery names its own webhook with the verdict on its signature, or
\* one that its process stored under its key: WebhooksService.ingest.
THEOREM ReceiptsGenuine == Spec => []ReceiptsAreGenuine
  BY IInvHolds, ReceiptsFollow, PTL

\* A routed task is the tenant's and in the queue asked for, or the key was served by
\* the same process: TasksService.routeTask.
THEOREM RoutedAsWasAsked == Spec => []RoutedAsAsked
  BY IInvHolds, RoutedFollows, PTL

\* Whatever races and fails, each answered transition has one event, which says what
\* it did: TasksService.transitionTask.
THEOREM TrailGenuine == Spec => []TrailIsGenuine
  BY IInvHolds, TrailFollows, PTL

\* The ledger and the table tell how far a request for a quote has come:
\* PricingService.quote.
THEOREM QuotesTold == Spec => []QuoteIsTold
  BY IInvHolds, QuoteFollows, PTL

-----------------------------------------------------------------------------
(* The trail of a task whose transitions follow one another *)

Serial(t) ==
  \A r, s \in Transitions(t) : stage[r] # "failed" /\ (r # s => Apart(r, s))

StateAt(i) == IF i = 0 THEN "NEW" ELSE taskEvents[i].to

Last(t, i) == i \in EventsOf(t) \cup {0} /\ \A j \in EventsOf(t) : j <= i

Chained(t) ==
  \A i \in EventsOf(t) : \E p \in (EventsOf(t) \cup {0}) \ {i} :
    /\ taskEvents[i].prev = p /\ taskEvents[i].from = StateAt(p)
    /\ \A j \in EventsOf(t) : j < i => j <= p

\* The task is in the state that its last event has led to.
Settled(t) == \A i \in Nat : Last(t, i) => tasks[t].state = StateAt(i)

\* A transition of t is on its way: the state it starts from is that of the last
\* event also after it has updated the task, and previous is that event.
Halfway(r, t) ==
  /\ step[r] = "start" => Settled(t)
  /\ step[r] = "update" => Settled(t) /\ existing[r] = tasks[t].state
  /\ step[r] \in {"findEvent", "createEvent"} =>
       /\ tasks[t].state = call[r].to
       /\ \A i \in Nat : Last(t, i) => existing[r] = StateAt(i)
  /\ step[r] = "createEvent" => \E i \in Nat : i = previous[r] /\ Last(t, i)

PathOf(t) ==
  /\ Chained(t)
  /\ Transitions(t) \subseteq Answered => Settled(t)
  /\ \A r \in Transitions(t) : stage[r] = "running" => Halfway(r, t)

PathInv == \A t \in DOMAIN tasks : Serial(t) => PathOf(t)

\* A step that leaves the state and the events of t as they are.
PathKept(t) ==
  /\ EventsOf(t)' = EventsOf(t) /\ \A i \in EventsOf(t) : taskEvents'[i] = taskEvents[i]
  /\ tasks'[t].state = tasks[t].state

LEMMA PathFacts ==
  ASSUME NEW t, PathKept(t), \A i \in EventsOf(t) : i # 0
  PROVE  /\ \A i : Last(t, i)' <=> Last(t, i)
         /\ \A i \in EventsOf(t) \cup {0} : StateAt(i)' = StateAt(i)
         /\ Settled(t) => Settled(t)'
         /\ Chained(t) => Chained(t)'
  <1>1. \A i : Last(t, i)' <=> Last(t, i)
    BY DEF PathKept, Last
  <1>2. \A i \in EventsOf(t) \cup {0} : StateAt(i)' = StateAt(i)
    BY DEF PathKept, StateAt
  <1>3. Settled(t) => Settled(t)'
    <2>1. \A i : Last(t, i) => i \in EventsOf(t) \cup {0}
      BY DEF Last
    <2> QED
      BY <1>1, <1>2, <2>1 DEF Settled, PathKept
  <1>4. Chained(t) => Chained(t)'
    BY <1>2 DEF Chained, PathKept
  <1> QED
    BY <1>1, <1>2, <1>3, <1>4

LEMMA EventsAreNumbered ==
  ASSUME TasksTyped, NEW t
  PROVE  \A i \in EventsOf(t) : i \in Nat /\ i # 0
  BY LenProperties DEF TasksTyped, EventsOf

\* What is still serial was so before, and who is under way is alone.
LEMMA SerialBefore ==
  ASSUME BaseInv, NEW r, \A s \in Requests \ {r} : Steady(s),
         r \in Requests => Arrives(r) \/ Handles(r), NEW t, Serial(t)'
  PROVE  /\ Serial(t)
         /\ \A s \in Transitions(t) : s \in Transitions(t)' /\ stage[s] # "failed"
         /\ \A q, s \in Transitions(t) : q # s => q \in Answered \/ s \in Answered
  <1>1. \A s \in Transitions(t) :
          /\ s \in Transitions(t)' /\ past'[s] = past[s]
          /\ stage[s] = "failed" => stage'[s] = "failed"
    BY DEF Transitions, Steady, Arrives, Handles
  <1>2. \A s \in Transitions(t) : stage[s] # "failed"
    BY <1>1 DEF Serial
  <1>3. \A q, s \in Transitions(t) : q # s => Apart(q, s)
    BY <1>1 DEF Serial, Apart
  <1>4. \A s \in Requests : past[s].answered \subseteq Answered
    BY DEF BaseInv, RequestIsKnown
  <1>5. Transitions(t) \subseteq Requests
    BY DEF Transitions
  <1> QED
    BY <1>1, <1>2, <1>3, <1>4, <1>5 DEF Serial, Apart

LEMMA PathElsewhere ==
  ASSUME BaseInv, TaskInv, AnswersStay, NEW r, NEW t, Serial(t) => PathOf(t), Serial(t)',
         \A s \in Requests \ {r} :
           Steady(s) /\ existing'[s] = existing[s] /\ previous'[s] = previous[s],
         r \in Requests => Arrives(r) \/ (Handles(r) /\ r \notin Transitions(t)),
         PathKept(t)
  PROVE  PathOf(t)'
  <1>1. /\ PathOf(t) /\ Transitions(t) \subseteq Transitions(t)'
        /\ \A s \in Transitions(t) : stage[s] # "failed"
    BY SerialBefore
  <1>2. /\ \A i : Last(t, i)' <=> Last(t, i)
        /\ \A i \in EventsOf(t) \cup {0} : StateAt(i)' = StateAt(i)
        /\ Settled(t) => Settled(t)'
        /\ Chained(t) => Chained(t)'
    BY PathFacts, EventsAreNumbered DEF TaskInv
  <1>3. ASSUME NEW s \in Transitions(t)', s \notin Transitions(t)
        PROVE  s = r /\ Arrives(r) /\ Transitions(t) \subseteq Answered
    <2>1. s \in Requests /\ s = r /\ Arrives(r)
      BY <1>3 DEF Transitions, Steady, Handles
    <2>2. \A q \in Transitions(t) : Apart(r, q)' /\ q \in Requests \ {r}
      BY <1>1, <1>3, <2>1 DEF Serial, Transitions
    <2>3. /\ \A q \in Transitions(t) : past'[q].answered \subseteq Answered
          /\ past'[r].answered = Answered /\ r \notin Answered
      BY <2>1, <2>2 DEF Steady, Arrives, BaseInv, RequestIsKnown, Answered
    <2> QED
      BY <2>1, <2>2, <2>3 DEF Apart
  <1>4. ASSUME NEW s \in Transitions(t)', stage'[s] = "running" PROVE Halfway(s, t)'
    <2>1. CASE s \in Transitions(t)
      <3>1. s \in Requests \ {r} /\ Steady(s)
        BY <2>1 DEF Transitions, Arrives
      <3>2. stage[s] = "running" /\ Halfway(s, t)
        BY <1>1, <1>4, <2>1, <3>1 DEF Steady, PathOf
      <3>3. \A i : Last(t, i) => StateAt(i)' = StateAt(i)
        BY <1>2 DEF Last
      <3>4. /\ step'[s] = step[s] /\ call'[s] = call[s] /\ existing'[s] = existing[s]
            /\ previous'[s] = previous[s] /\ tasks'[t].state = tasks[t].state
        BY <3>1 DEF Steady, PathKept
      <3> QED
        BY <1>2, <3>2, <3>3, <3>4 DEF Halfway
    <2>2. CASE s \notin Transitions(t)
      <3>1. Settled(t)
        BY <1>1, <1>3, <2>2 DEF PathOf
      <3>2. step'[s] = "start"
        BY <1>3, <2>2 DEF Arrives, BaseInv, RequestIsKnown, Transitions
      <3> QED
        BY <1>2, <3>1, <3>2 DEF Halfway
    <2> QED
      BY <2>1, <2>2
  <1>5. Transitions(t)' \subseteq Answered' => Settled(t)'
    <2>1. ASSUME NEW s \in Transitions(t), s \notin Answered PROVE s \notin Answered'
      BY <2>1 DEF Transitions, Steady, Answered, Arrives
    <2> QED
      BY <1>1, <1>2, <2>1 DEF PathOf
  <1> QED
    BY <1>1, <1>2, <1>4, <1>5 DEF PathOf

\* The handler of a transition of t takes a step, and the trail of t is still serial.
Advancing(r, t) ==
  /\ Handling(r) /\ r \in Transitions(t) /\ t \in DOMAIN tasks
  /\ PathOf(t) /\ Serial(t)'

LEMMA AdvancingFacts ==
  ASSUME NEW r \in Requests, NEW t, Advancing(r, t)
  PROVE  /\ Halfway(r, t) /\ Chained(t) /\ call[r].target = t
         /\ Transitions(t)' = Transitions(t) /\ stage'[r] # "failed"
         /\ \A s \in Transitions(t) \ {r} : s \in Answered /\ s \in Answered'
         /\ TasksTyped /\ \A i \in EventsOf(t) : i \in Nat /\ i # 0
  <1>1. /\ Handling(r) /\ r \in Transitions(t) /\ PathOf(t) /\ Serial(t)'
    BY DEF Advancing
  <1>2. BaseInv /\ AnswersStay /\ Handles(r) /\ r \notin Answered /\ stage[r] = "running"
        /\ \A s \in Requests \ {r} : Steady(s)
    BY <1>1, HandledFacts
  <1>3. \A q, s \in Transitions(t) : q # s => q \in Answered \/ s \in Answered
    BY <1>1, <1>2, SerialBefore
  <1>4. Transitions(t)' = Transitions(t)
    BY <1>2 DEF Transitions, Steady, Handles
  <1>5. stage'[r] # "failed"
    BY <1>1, <1>4 DEF Serial
  <1>6. TasksTyped /\ \A i \in EventsOf(t) : i \in Nat /\ i # 0
    BY <1>1, EventsAreNumbered DEF Handling, TaskInv
  <1>7. \A s \in Transitions(t) \ {r} : s \in Answered /\ s \in Answered'
    BY <1>1, <1>2, <1>3 DEF AnswersStay
  <1>8. Halfway(r, t) /\ Chained(t) /\ call[r].target = t
    BY <1>1, <1>2 DEF PathOf, Transitions
  <1> QED
    BY <1>4, <1>5, <1>6, <1>7, <1>8

\* A step that leaves the request on its way.
LEMMA StillOnItsWay ==
  ASSUME NEW r \in Requests, NEW t, Advancing(r, t), stage'[r] = "running",
         Chained(t)', Halfway(r, t)'
  PROVE  PathOf(t)'
  <1>1. r \in Transitions(t)' /\ r \notin Answered'
    BY AdvancingFacts DEF Advancing, Answered
  <1>2. \A s \in Transitions(t)' \ {r} : stage'[s] # "running"
    BY AdvancingFacts DEF Answered
  <1> QED
    BY <1>1, <1>2 DEF PathOf

LEMMA findTaskOnPath ==
  ASSUME NEW r \in Requests, NEW t, Advancing(r, t), findTask(r)
  PROVE  PathOf(t)'
  <1>1. Handling(r)
    BY DEF Advancing
  <1>2. /\ step[r] = "start" /\ UNCHANGED <<tasks, taskEvents, previous>>
        /\ Goto(r, "update") /\ UNCHANGED stage
        /\ existing' = [existing EXCEPT ![r] = tasks[call[r].target].state]
    <2>1. ~Throw(r)
      <3>1. \A s : stage' = [stage EXCEPT ![r] = s] => stage'[r] = s
        BY <1>1, HandledFacts
      <3> QED
        BY <3>1, AdvancingFacts DEF Throw
    <2> QED
      BY <2>1 DEF findTask, At, interceptorVars
  <1>3. step'[r] = "update" /\ stage'[r] = "running"
    BY <1>1, <1>2, HandledFacts DEF Goto
  <1>4. existing'[r] = tasks[t].state
    BY <1>2, AdvancingFacts DEF TasksTyped
  <1>5. PathKept(t)
    BY <1>2 DEF PathKept, EventsOf
  <1>6. Settled(t)' /\ Chained(t)'
    BY <1>2, <1>5, AdvancingFacts, PathFacts DEF Halfway
  <1>7. Halfway(r, t)'
    BY <1>2, <1>3, <1>4, <1>6 DEF Halfway
  <1> QED
    BY <1>3, <1>6, <1>7, StillOnItsWay

LEMMA updateTaskOnPath ==
  ASSUME NEW r \in Requests, NEW t, Advancing(r, t), updateTask(r)
  PROVE  PathOf(t)'
  <1>1. Handling(r) /\ t \in DOMAIN tasks
    BY DEF Advancing
  <1> DEFINE row == [tasks[t] EXCEPT !.state = call[r].to, !.by = @ \cup {r}]
  <1>2. /\ step[r] = "update" /\ Goto(r, "findEvent")
        /\ UNCHANGED <<stage, call, taskEvents, existing, previous>>
        /\ tasks' = [tasks EXCEPT ![t].state = call[r].to, ![t].by = @ \cup {r}]
    BY AdvancingFacts DEF updateTask, At, interceptorVars
  <1>3. tasks \in [DOMAIN TaskTenant -> TaskRows] /\ tasks[t] \in TaskRows
    BY <1>1, AdvancingFacts DEF TasksTyped
  <1>4. tasks'[t].state = call[r].to
    <2>1. tasks' = [tasks EXCEPT ![t] = row]
      BY <1>1, <1>2, <1>3 DEF TaskRows
    <2>2. row.state = call[r].to
      BY <1>3 DEF TaskRows
    <2> HIDE DEF row
    <2> QED
      BY <1>1, <1>3, <2>1, <2>2
  <1>5. step'[r] = "findEvent" /\ stage'[r] = "running"
    BY <1>1, <1>2, HandledFacts DEF Goto
  <1>6. Settled(t) /\ existing[r] = tasks[t].state
    BY <1>2, AdvancingFacts DEF Halfway
  <1>7. \A i \in Nat : Last(t, i) => existing[r] = StateAt(i)
    BY <1>6 DEF Settled
  <1>8. EventsOf(t)' = EventsOf(t) /\ \A i : (Last(t, i)' <=> Last(t, i)) /\ StateAt(i)' = StateAt(i)
    BY <1>2 DEF EventsOf, Last, StateAt
  <1>9. Chained(t)'
    BY <1>2, <1>8, AdvancingFacts DEF Chained
  <1>10. Halfway(r, t)'
    BY <1>2, <1>4, <1>5, <1>7, <1>8 DEF Halfway
  <1> QED
    BY <1>5, <1>9, <1>10, StillOnItsWay

LEMMA findPreviousEventOnPath ==
  ASSUME NEW r \in Requests, NEW t, Advancing(r, t), findPreviousEvent(r)
  PROVE  PathOf(t)'
  <1>1. Handling(r)
    BY DEF Advancing
  <1>2. PICK i \in EventsOf(t) \cup {0} :
          /\ \A j \in EventsOf(t) : j <= i
          /\ previous' = [previous EXCEPT ![r] = i]
    BY AdvancingFacts DEF findPreviousEvent
  <1>3. /\ step[r] = "findEvent" /\ Goto(r, "createEvent")
        /\ UNCHANGED <<stage, call, tasks, taskEvents, existing>>
    BY DEF findPreviousEvent, At, interceptorVars
  <1>4. step'[r] = "createEvent" /\ stage'[r] = "running"
    BY <1>1, <1>3, HandledFacts DEF Goto
  <1>5. previous'[r] = i /\ i \in Nat /\ Last(t, i)
    BY <1>2, AdvancingFacts DEF TasksTyped, Last
  <1>6. EventsOf(t)' = EventsOf(t) /\ \A j : (Last(t, j)' <=> Last(t, j)) /\ StateAt(j)' = StateAt(j)
    BY <1>3 DEF EventsOf, Last, StateAt
  <1>7. Chained(t)'
    BY <1>3, <1>6, AdvancingFacts DEF Chained
  <1>8. Halfway(r, t)'
    BY <1>3, <1>4, <1>5, <1>6, AdvancingFacts DEF Halfway
  <1> QED
    BY <1>4, <1>7, <1>8, StillOnItsWay

LEMMA createTaskEventOnPath ==
  ASSUME NEW r \in Requests, NEW t, Advancing(r, t), createTaskEvent(r)
  PROVE  PathOf(t)'
  <1>1. Handling(r) /\ t \in DOMAIN tasks
    BY DEF Advancing
  <1>2. PICK n : n = Len(taskEvents)
    OBVIOUS
  <1> DEFINE row == [task |-> t, from |-> existing[r], to |-> call[r].to,
                     prev |-> previous[r], by |-> r]
             new == Append(taskEvents, row)
  <1>3. /\ step[r] = "createEvent" /\ Answer(r) /\ UNCHANGED <<tasks, existing, previous>>
        /\ taskEvents' = new
    BY AdvancingFacts DEF createTaskEvent, At
  <1>4. PICK p \in Nat : p = previous[r] /\ Last(t, p)
    BY <1>3, AdvancingFacts DEF Halfway
  <1>5. /\ tasks[t].state = call[r].to /\ existing[r] = StateAt(p)
    BY <1>3, <1>4, AdvancingFacts DEF Halfway
  <1>6. row \in TaskEventRows
    <2>1. call[r].to \in TaskStates /\ existing[r] \in TaskStates /\ previous[r] \in Nat
      BY <1>1, AdvancingFacts, HandledFacts DEF TasksTyped, TaskStates
    <2>2. t \in DOMAIN TaskTenant
      BY <1>1, AdvancingFacts DEF TasksTyped
    <2> QED
      BY <2>1, <2>2 DEF TaskEventRows
  <1>7. row.task = t /\ row.from = StateAt(p) /\ row.to = tasks[t].state /\ row.prev = p
    BY <1>4, <1>5
  <1>8. taskEvents \in Seq(TaskEventRows)
    BY AdvancingFacts DEF TasksTyped
  <1> HIDE DEF row
  <1>9. /\ n \in Nat /\ DOMAIN taskEvents = 1..n /\ DOMAIN new = 1..(n + 1)
        /\ new[n + 1] = row /\ \A i \in 1..n : new[i] = taskEvents[i]
    BY <1>2, <1>6, <1>8, AppendProperties, LenProperties
  <1> HIDE DEF new
  <1>10. EventsOf(t)' = EventsOf(t) \cup {n + 1} /\ EventsOf(t) \subseteq 1..n
    BY <1>3, <1>7, <1>9 DEF EventsOf
  <1>11. \A i \in EventsOf(t) \cup {0} : StateAt(i)' = StateAt(i)
    BY <1>3, <1>9, <1>10 DEF StateAt
  <1>12. StateAt(n + 1)' = tasks[t].state
    BY <1>3, <1>7, <1>9 DEF StateAt
  <1>13. Chained(t)'
    <2>1. ASSUME NEW i \in EventsOf(t)
          PROVE  \E q \in (EventsOf(t)' \cup {0}) \ {i} :
                   /\ taskEvents'[i].prev = q /\ taskEvents'[i].from = StateAt(q)'
                   /\ \A j \in EventsOf(t)' : j < i => j <= q
      <3>1. PICK q \in (EventsOf(t) \cup {0}) \ {i} :
              /\ taskEvents[i].prev = q /\ taskEvents[i].from = StateAt(q)
              /\ \A j \in EventsOf(t) : j < i => j <= q
        BY AdvancingFacts DEF Chained
      <3>2. taskEvents'[i] = taskEvents[i] /\ i \in 1..n /\ StateAt(q)' = StateAt(q)
        BY <1>3, <1>9, <1>10, <1>11
      <3>3. ~(n + 1 < i)
        BY <1>9, <3>2
      <3> QED
        BY <1>10, <3>1, <3>2, <3>3
    <2>2. /\ taskEvents'[n + 1].prev = p /\ taskEvents'[n + 1].from = StateAt(p)'
          /\ p \in (EventsOf(t) \cup {0}) \ {n + 1}
          /\ \A j \in EventsOf(t)' : j < n + 1 => j <= p
      <3>1. p \in EventsOf(t) \cup {0} /\ \A j \in EventsOf(t) : j <= p
        BY <1>4 DEF Last
      <3>2. StateAt(p)' = StateAt(p) /\ taskEvents'[n + 1] = row
        BY <1>3, <1>9, <1>11, <3>1
      <3>3. p # n + 1
        BY <1>9, <1>10, <3>1
      <3>4. ~(n + 1 < n + 1)
        BY <1>9
      <3> QED
        BY <1>7, <1>10, <3>1, <3>2, <3>3, <3>4
    <2> QED
      BY <1>10, <2>1, <2>2 DEF Chained
  <1>14. Settled(t)'
    <2>1. ASSUME NEW i \in Nat, Last(t, i)' PROVE i = n + 1
      <3>1. i \in EventsOf(t) \cup {n + 1, 0} /\ n + 1 <= i
        BY <1>10, <2>1 DEF Last
      <3> QED
        BY <1>9, <1>10, <3>1
    <2>2. tasks'[t].state = StateAt(n + 1)'
      BY <1>3, <1>12
    <2> QED
      BY <2>1, <2>2 DEF Settled
  <1>15. \A s \in Transitions(t)' : stage'[s] # "running"
    <2>1. stage'[r] = "answered"
      BY <1>1, <1>3, HandledFacts DEF Answer
    <2> QED
      BY <2>1, AdvancingFacts DEF Answered
  <1> QED
    BY <1>13, <1>14, <1>15 DEF PathOf

\* What the other steps of TasksService leave of t.
LEMMA PathKeptElsewhere ==
  ASSUME NEW r \in Requests, Handling(r), TaskStep(r), NEW t \in DOMAIN tasks,
         r \notin Transitions(t)
  PROVE  /\ PathKept(t)
         /\ \A s \in Requests \ {r} : existing'[s] = existing[s] /\ previous'[s] = previous[s]
  <1>1. /\ tasks \in [DOMAIN TaskTenant -> TaskRows] /\ tasks[t] \in TaskRows
        /\ existing = [s \in Requests |-> existing[s]]
        /\ previous = [s \in Requests |-> previous[s]]
    BY DEF Handling, TaskInv, TasksTyped
  <1>2. call[r].op = "transition" => call[r].target # t
    BY HandledFacts DEF Transitions, Came
  <1>3. taskEvents \in Seq(TaskEventRows)
    BY DEF Handling, TaskInv, TasksTyped
  <1>4. CASE UNCHANGED <<tasks, taskEvents>>
             /\ \A s \in Requests \ {r} : existing'[s] = existing[s] /\ previous'[s] = previous[s]
    BY <1>4 DEF PathKept, EventsOf
  <1>5. CASE findTask(r) \/ findPreviousEvent(r) \/ hasSeenTaskKey(r) \/ findRouted(r)
             \/ rememberTaskKey(r)
    <2>1. UNCHANGED <<tasks, taskEvents>>
      BY <1>5 DEF findTask, findPreviousEvent, hasSeenTaskKey, findRouted, rememberTaskKey,
           taskVars
    <2>2. /\ UNCHANGED existing \/ \E x : existing' = [existing EXCEPT ![r] = x]
          /\ UNCHANGED previous \/ \E x : previous' = [previous EXCEPT ![r] = x]
      BY <1>5 DEF findTask, findPreviousEvent, hasSeenTaskKey, findRouted, rememberTaskKey,
           taskVars
    <2>3. \A s \in Requests \ {r} : existing'[s] = existing[s] /\ previous'[s] = previous[s]
      BY <1>1, <2>2
    <2> QED
      BY <1>4, <2>1, <2>3
  <1>6. CASE updateTask(r)
    <2>1. /\ UNCHANGED <<taskEvents, existing, previous>> /\ call[r].op = "transition"
          /\ \E x, y : tasks' = [tasks EXCEPT ![call[r].target].state = x,
                                              ![call[r].target].by = y]
      BY <1>6 DEF updateTask, At
    <2>2. tasks'[t] = tasks[t]
      BY <1>1, <1>2, <2>1
    <2> QED
      BY <2>1, <2>2 DEF PathKept, EventsOf
  <1>7. CASE bulkUpdate(r)
    <2> DEFINE row(x) ==
          IF x \notin call[r].targets \/ TaskTenant[x] # call[r].tenant THEN tasks[x]
          ELSE [tasks[x] EXCEPT !.owner = IF call[r].owner = NoUser THEN @ ELSE call[r].owner,
                                !.by = @ \cup {r}]
    <2>1. UNCHANGED <<taskEvents, existing, previous>> /\ tasks' = [x \in DOMAIN tasks |-> row(x)]
      BY <1>7 DEF bulkUpdate
    <2>2. row(t).state = tasks[t].state
      BY <1>1 DEF TaskRows
    <2> HIDE DEF row
    <2>3. tasks'[t].state = tasks[t].state
      BY <2>1, <2>2
    <2> QED
      BY <2>1, <2>3 DEF PathKept, EventsOf
  <1>8. CASE routeTask(r)
    <2>1. UNCHANGED <<taskEvents, existing, previous>>
      BY <1>8 DEF routeTask
    <2>2. CASE UNCHANGED tasks
      BY <1>4, <2>1, <2>2
    <2>3. CASE ~UNCHANGED tasks
      <3>1. PICK x : x = call[r].target
        OBVIOUS
      <3> DEFINE row == [tasks[x] EXCEPT !.queue = call[r].queue, !.owner = NoUser,
                                         !.by = @ \cup {r}]
      <3>2. /\ x \in DOMAIN tasks
            /\ tasks' = [tasks EXCEPT ![x].queue = call[r].queue, ![x].owner = NoUser,
                                      ![x].by = @ \cup {r}]
        BY <1>8, <2>3, <3>1 DEF routeTask, TaskFound
      <3>3. tasks' = [tasks EXCEPT ![x] = row] /\ row.state = tasks[x].state
        BY <1>1, <3>2 DEF TaskRows
      <3> HIDE DEF row
      <3>4. tasks'[t].state = tasks[t].state
        BY <1>1, <3>3
      <3> QED
        BY <2>1, <3>4 DEF PathKept, EventsOf
    <2> QED
      BY <2>2, <2>3
  <1>9. CASE createTaskEvent(r)
    <2>1. PICK n : n = Len(taskEvents)
      OBVIOUS
    <2> DEFINE row == [task |-> call[r].target, from |-> existing[r], to |-> call[r].to,
                       prev |-> previous[r], by |-> r]
               new == Append(taskEvents, row)
    <2>2. /\ taskEvents' = new /\ UNCHANGED <<tasks, existing, previous>>
          /\ call[r].op = "transition" /\ step[r] = "createEvent"
      BY <1>9 DEF createTaskEvent, At
    <2>3. row \in TaskEventRows /\ row.task # t
      <3>1. call[r].target \in DOMAIN TaskTenant
        BY <2>2, HandledFacts DEF TaskRequest, TransitionIsSound, TaskFound, TasksTyped
      <3>2. call[r].to \in TaskStates /\ existing[r] \in TaskStates /\ previous[r] \in Nat
        BY HandledFacts DEF TaskStates, TasksTyped
      <3> QED
        BY <1>2, <2>2, <3>1, <3>2 DEF TaskEventRows
    <2> HIDE DEF row
    <2>4. /\ n \in Nat /\ DOMAIN taskEvents = 1..n /\ DOMAIN new = 1..(n + 1)
          /\ new[n + 1] = row /\ \A i \in 1..n : new[i] = taskEvents[i]
      BY <1>3, <2>1, <2>3, AppendProperties, LenProperties
    <2> HIDE DEF new
    <2>5. EventsOf(t)' = EventsOf(t) /\ \A i \in EventsOf(t) : taskEvents'[i] = taskEvents[i]
      BY <2>2, <2>3, <2>4 DEF EventsOf
    <2> QED
      BY <2>2, <2>5 DEF PathKept
  <1> QED
    BY <1>5, <1>6, <1>7, <1>8, <1>9 DEF TaskStep

LEMMA PathHolds == IInv /\ PathInv /\ [Next]_vars => PathInv'
  <1> SUFFICES ASSUME IInv, PathInv, [Next]_vars, NEW t \in DOMAIN tasks', Serial(t)'
               PROVE  PathOf(t)'
    BY DEF PathInv
  <1>1. BaseInv /\ CachesTyped /\ TaskInv /\ t \in DOMAIN tasks /\ (Serial(t) => PathOf(t))
    <2>1. TasksTyped /\ TasksTyped'
      BY IInvNext DEF IInv, TaskInv
    <2> QED
      BY <2>1 DEF IInv, PathInv, TasksTyped
  <1>2. CASE Ends
    <2>1. 0 \notin Requests
      BY DEF Requests
    <2>2. UNCHANGED <<tasks, taskEvents, existing, previous>>
          /\ \A s \in Requests \ {0} : Steady(s)
      BY <1>2 DEF Ends, tables
    <2>3. PathKept(t)
      BY <2>2 DEF PathKept, EventsOf
    <2> QED
      BY <1>1, <1>2, <2>1, <2>2, <2>3, StayLemma, PathElsewhere
  <1>3. ASSUME NEW r \in Requests, Arrives(r) PROVE PathOf(t)'
    <2>1. UNCHANGED <<tasks, taskEvents, existing, previous>>
          /\ \A s \in Requests \ {r} : Steady(s)
      BY <1>3 DEF Arrives, tables
    <2>2. PathKept(t)
      BY <2>1 DEF PathKept, EventsOf
    <2> QED
      BY <1>1, <1>3, <2>1, <2>2, StayLemma, PathElsewhere
  <1>4. ASSUME NEW r \in Requests, Handles(r), WebhookStep(r) \/ QuoteStep(r),
               UNCHANGED taskVars
        PROVE  PathOf(t)'
    <2>1. call[r].op \in {"ingest", "quote"}
      BY <1>4 DEF WebhookStep, ingest, findSender, createWebhook, rememberWebhook,
           QuoteStep, LinkEvent, RecordEvent, Adapter, PersistQuotes, ReturnQuote, At
    <2>2. r \notin Transitions(t)
      BY <2>1 DEF Transitions
    <2>3. UNCHANGED <<tasks, taskEvents, existing, previous>>
          /\ \A s \in Requests \ {r} : Steady(s)
      BY <1>4 DEF Handles, taskVars
    <2>4. PathKept(t)
      BY <2>3 DEF PathKept, EventsOf
    <2> QED
      BY <1>1, <1>4, <2>2, <2>3, <2>4, StayLemma, PathElsewhere
  <1>5. ASSUME NEW r \in Requests, Handles(r), TaskStep(r) PROVE PathOf(t)'
    <2>1. Handling(r) /\ AnswersStay
      BY <1>1, <1>5, StayLemma DEF Handling, Serving
    <2>2. \A s \in Requests \ {r} : Steady(s)
      BY <1>5 DEF Handles
    <2>3. CASE r \in Transitions(t)
      <3>1. Serial(t)
        BY <1>1, <1>5, <2>2, SerialBefore
      <3>2. Advancing(r, t)
        BY <1>1, <2>1, <2>3, <3>1 DEF Advancing
      <3>3. call[r].op = "transition"
        BY <2>3 DEF Transitions
      <3>4. findTask(r) \/ updateTask(r) \/ findPreviousEvent(r) \/ createTaskEvent(r)
        BY <1>5, <3>3 DEF TaskStep, hasSeenTaskKey, bulkUpdate, findRouted, routeTask,
             rememberTaskKey, At
      <3> QED
        BY <3>2, <3>4, findTaskOnPath, updateTaskOnPath, findPreviousEventOnPath,
           createTaskEventOnPath
    <2>4. CASE r \notin Transitions(t)
      <3>1. /\ PathKept(t)
            /\ \A s \in Requests \ {r} :
                 Steady(s) /\ existing'[s] = existing[s] /\ previous'[s] = previous[s]
        BY <1>1, <1>5, <2>1, <2>2, <2>4, PathKeptElsewhere
      <3> QED
        BY <1>1, <1>5, <2>1, <2>4, <3>1, PathElsewhere
    <2> QED
      BY <2>3, <2>4
  <1> QED
    BY <1>1, <1>2, <1>3, <1>4, <1>5, Kinds DEF Handler

LEMMA PathBegins == Init => PathInv
  <1> SUFFICES ASSUME Init, NEW t \in DOMAIN tasks PROVE PathOf(t)
    BY DEF PathInv
  <1>1. /\ stage = [r \in Requests |-> "idle"] /\ taskEvents = <<>>
        /\ tasks = [x \in DOMAIN TaskTenant |->
                      [state |-> "NEW", queue |-> "default", owner |-> NoUser, by |-> {}]]
    BY DEF Init, RecordInit, TasksInit
  <1>2. EventsOf(t) = {}
    <2>1. taskEvents = <<>>
      BY <1>1
    <2>2. DOMAIN taskEvents = {}
      BY <2>1
    <2> QED
      BY <2>2 DEF EventsOf
  <1>3. tasks[t].state = "NEW"
    BY <1>1
  <1> QED
    BY <1>1, <1>2, <1>3 DEF PathOf, Chained, Settled, Last, StateAt, Transitions

LEMMA PathFollows == IInv /\ PathInv => TrailIsOnePath
  <1> SUFFICES ASSUME IInv, PathInv, NEW t \in DOMAIN tasks, Serial(t)
               PROVE  /\ \A i \in EventsOf(t) :
                           /\ taskEvents[i].prev \in (EventsOf(t) \cup {0}) \ {i}
                           /\ \A j \in EventsOf(t) : j < i => j <= taskEvents[i].prev
                           /\ taskEvents[i].from = StateAt(taskEvents[i].prev)
                      /\ Transitions(t) \subseteq Answered =>
                           \A i \in EventsOf(t) \cup {0} :
                             (\A j \in EventsOf(t) : j <= i) => tasks[t].state = StateAt(i)
    BY DEF TrailIsOnePath, Serial, StateAt, EventsOf
  <1>1. PathOf(t) /\ \A i \in EventsOf(t) : i \in Nat
    BY EventsAreNumbered DEF PathInv, IInv, TaskInv
  <1> QED
    BY <1>1 DEF PathOf, Chained, Settled, Last

\* Transitions of a task that follow one another and do not fail leave one chain of
\* events, from NEW to the state of the task: TasksService.transitionTask.
THEOREM TrailsAreOnePath == Spec => []TrailIsOnePath
  <1>1. Spec => []PathInv
    <2>1. IInv /\ PathInv /\ [Next]_vars => PathInv'
      BY PathHolds
    <2> QED
      BY <2>1, IInvHolds, PathBegins, PTL DEF Spec
  <1> QED
    BY <1>1, IInvHolds, PathFollows, PTL
=============================================================================
