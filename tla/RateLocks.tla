------------------------------ MODULE RateLocks ------------------------------
(***************************************************************************)
(* LocksService: rate locks of loans, created, extended, floated down and  *)
(* voided by HTTP requests that run concurrently in the API.               *)
(*                                                                         *)
(* Each handler is a sequence of awaited database calls, and other         *)
(* requests run between them; an action below is the code from one await   *)
(* to the next:                                                            *)
(*                                                                         *)
(*   create:                 rateLock.create -> event.findFirst            *)
(*                             -> event.create                             *)
(*   extend, float down,     rateLock.findFirst -> rateLock.update         *)
(*   void:                     -> event.findFirst -> event.create          *)
(*                                                                         *)
(* No two of these calls share a transaction, so a database error or a     *)
(* crash of the process ends a request between any two of them (Fail).     *)
(* Days are counted from lockedAt; a price is a number of float-downs.     *)
(***************************************************************************)
EXTENDS EventLedger, FiniteSetsExt

CONSTANTS
  Requests,     \* the HTTP requests; the bound on how many are made
  LockIds,      \* uuids of rate_locks; the bound on how many are created
  Tenants,
  Loans,
  Periods,      \* lockPeriodDays accepted by LockCreateRequestDto
  Days,         \* days accepted by LockExtendRequestDto
  MaxInFlight,  \* how many requests the API serves at a time
  NoLock, NoCall

ASSUME RateLocksAssumption ==
  /\ IsFiniteSet(Requests)
  /\ Periods \subseteq 15..180
  /\ Days \subseteq 1..30
  /\ MaxInFlight \in Nat

VARIABLES
  rateLock,  \* the table rate_locks
  phase,     \* the await a request has reached
  call,      \* what a request asks for, and on whose behalf
  snapshot,  \* the row its findFirst returned
  prevHash,  \* the predecessor its recordEvent has read
  events     \* the table events

vars == <<rateLock, phase, call, snapshot, prevHash, events>>

Ops == {"create", "extend", "float_down", "void"}

Entry == [type : Ops, by : Requests]

\* Mutants: a status the table refuses; voiding that lets the lock expire.
StatusMutant ==
  [create |-> "locked", extend |-> "extended",
   float_down |-> "float_down", void |-> "voided"]

ExpiringMutant ==
  [create |-> "locked", extend |-> "extended",
   float_down |-> "float_down_applied", void |-> "expired"]

\* The literals of the four handlers, locks.service.ts:66, 109, 149 and 186.
StatusAfter ==
  [create |-> "locked", extend |-> "extended",
   float_down |-> "float_down_applied", void |-> "voided"]

\* locks.service.ts:81, 119, 158 and 194.
EventType ==
  [create |-> "lock.created", extend |-> "lock.extended",
   float_down |-> "lock.float_down.applied", void |-> "lock.voided"]

\* check (status in (...)) of pricing_locks.rate_locks.
Statuses == {"new", "locked", "extended", "expired", "voided", "float_down_applied"}

Row ==
  [tenant : Tenants, loan : Loans, status : Statuses,
   expiresAt : Nat, lockPeriodDays : Periods, price : Nat, actions : Seq(Entry)]

\* `scoped`: the caller holds locks:float-down, or locks:void.
Call ==
  [op : Ops, tenant : Tenants, lock : LockIds, days : Days \cup {0}, scoped : BOOLEAN]

\* What the body, the path and the scopes of a request on a lock may be.
Requested ==
  {c \in Call : /\ c.op # "create"
                /\ c.op = "extend" <=> c.days # 0
                /\ c.op = "extend" => ~c.scoped}

ASSUME NullAssumption == NoLock \notin Row /\ NoCall \notin Call

InFlight == {r \in Requests : phase[r] \in {"found", "written", "linked"}}

Init ==
  /\ rateLock = [l \in LockIds |-> NoLock]
  /\ phase = [r \in Requests |-> "idle"]
  /\ call = [r \in Requests |-> NoCall]
  /\ snapshot = [r \in Requests |-> NoLock]
  /\ prevHash = [r \in Requests |-> GENESIS]
  /\ events = <<>>

\* The days that a set of extensions grants together.
DaysOf(S) == MapThenSumSet(LAMBDA r : call[r].days, S)

Arrive(r) ==
  /\ phase[r] = "idle"
  /\ Cardinality(InFlight) < MaxInFlight

\* Mutant: the history starts over with every action.
appendActionMutant(row, op, r) == <<[type |-> op, by |-> r]>>

appendAction(row, op, r) == Append(row.actions, [type |-> op, by |-> r])

-----------------------------------------------------------------------------
(* The handlers *)

createLock(r, tenant, l, loan, period) ==
  /\ Arrive(r)
  /\ rateLock[l] = NoLock
  /\ rateLock' = [rateLock EXCEPT ![l] =
       [tenant |-> tenant, loan |-> loan, status |-> "locked", expiresAt |-> period,
        lockPeriodDays |-> period, price |-> 0,
        actions |-> appendAction([actions |-> <<>>], "create", r)]]
  /\ call' = [call EXCEPT ![r] =
       [op |-> "create", tenant |-> tenant, lock |-> l, days |-> 0, scoped |-> FALSE]]
  /\ phase' = [phase EXCEPT ![r] = "written"]
  /\ UNCHANGED <<snapshot, prevHash, events>>

\* Mutant: findFirst({ where: { id: lockId } }).
VisibleMutant(c) == rateLock[c.lock] # NoLock

\* findFirst({ where: { id: lockId, tenantId } })
Visible(c) == rateLock[c.lock] # NoLock /\ rateLock[c.lock].tenant = c.tenant

Permitted(c) == c.op \in {"float_down", "void"} => c.scoped

\* The scope check and the read that open extendLock, floatDown and voidLock.
FindLock(r, c) ==
  /\ Arrive(r)
  /\ Permitted(c) /\ Visible(c)
  /\ call' = [call EXCEPT ![r] = c]
  /\ snapshot' = [snapshot EXCEPT ![r] = rateLock[c.lock]]
  /\ phase' = [phase EXCEPT ![r] = "found"]
  /\ UNCHANGED <<rateLock, prevHash, events>>

\* 403 LOCK_FLOAT_DOWN_FORBIDDEN, LOCK_VOID_FORBIDDEN, or 404 LOCK_NOT_FOUND.
Refuse(r, c) ==
  /\ Arrive(r)
  /\ ~(Permitted(c) /\ Visible(c))
  /\ call' = [call EXCEPT ![r] = c]
  /\ phase' = [phase EXCEPT ![r] = "refused"]
  /\ UNCHANGED <<rateLock, snapshot, prevHash, events>>

\* Mutants: `actions` is missing from data; recordEvent is not called.
UpdateMutant(r, op, row) ==
  /\ phase[r] = "found"
  /\ call[r].op = op
  /\ rateLock' = [rateLock EXCEPT ![call[r].lock] = [row EXCEPT !.status = StatusAfter[op]]]
  /\ phase' = [phase EXCEPT ![r] = "written"]
  /\ UNCHANGED <<call, snapshot, prevHash, events>>

UnrecordedMutant(r, op, row) ==
  /\ phase[r] = "found"
  /\ call[r].op = op
  /\ rateLock' = [rateLock EXCEPT ![call[r].lock] =
       [row EXCEPT !.status = StatusAfter[op],
                   !.actions = appendAction(snapshot[r], op, r)]]
  /\ phase' = [phase EXCEPT ![r] = "done"]
  /\ UNCHANGED <<call, snapshot, prevHash, events>>

\* rateLock.update({ where: { id: lockId }, data }): the row as it is now,
\* overwritten in the columns of `data`, whose `actions` extend the snapshot's.
Update(r, op, row) ==
  /\ phase[r] = "found"
  /\ call[r].op = op
  /\ rateLock' = [rateLock EXCEPT ![call[r].lock] =
       [row EXCEPT !.status = StatusAfter[op],
                   !.actions = appendAction(snapshot[r], op, r)]]
  /\ phase' = [phase EXCEPT ![r] = "written"]
  /\ UNCHANGED <<call, snapshot, prevHash, events>>

\* Mutant: the period is added again.
extendMutant(r) ==
  Update(r, "extend", [rateLock[call[r].lock] EXCEPT
                         !.expiresAt = snapshot[r].expiresAt + snapshot[r].lockPeriodDays])

extendLock(r) ==
  Update(r, "extend", [rateLock[call[r].lock] EXCEPT
                         !.expiresAt = snapshot[r].expiresAt + call[r].days])

floatDown(r) ==
  Update(r, "float_down", [rateLock[call[r].lock] EXCEPT
                             !.price = snapshot[r].price + 1])

voidLock(r) == Update(r, "void", rateLock[call[r].lock])

-----------------------------------------------------------------------------
(* AuditTrailService.recordEvent, awaited last by each handler *)

FindLatestEvent(r) ==
  /\ phase[r] = "written"
  /\ \E h \in LatestOfTenant(events, call[r].tenant) :
       prevHash' = [prevHash EXCEPT ![r] = h]
  /\ phase' = [phase EXCEPT ![r] = "linked"]
  /\ UNCHANGED <<rateLock, call, snapshot, events>>

EventOf(r) ==
  [tenant |-> call[r].tenant, loan |-> rateLock[call[r].lock].loan,
   subject |-> call[r].lock, type |-> EventType[call[r].op], by |-> r]

CreateEvent(r) ==
  /\ phase[r] = "linked"
  /\ events' \in Appended(events, EventOf(r), prevHash[r])
  /\ phase' = [phase EXCEPT ![r] = "done"]
  /\ UNCHANGED <<rateLock, call, snapshot, prevHash>>

\* An awaited call rejects, or the process stops: what is written stays.
Fail(r) ==
  /\ r \in InFlight
  /\ phase' = [phase EXCEPT ![r] = "failed"]
  /\ UNCHANGED <<rateLock, call, snapshot, prevHash, events>>

-----------------------------------------------------------------------------
Begin(r) ==
  \/ \E t \in Tenants, l \in LockIds, n \in Loans, p \in Periods : createLock(r, t, l, n, p)
  \/ \E c \in Requested : FindLock(r, c) \/ Refuse(r, c)

\* All requests are answered and the API waits for more.
Quiescent ==
  /\ \A r \in Requests : phase[r] \in {"done", "refused", "failed"}
  /\ UNCHANGED vars

Next ==
  \/ \E r \in Requests :
       \/ Begin(r)
       \/ extendLock(r) \/ floatDown(r) \/ voidLock(r)
       \/ FindLatestEvent(r) \/ CreateEvent(r)
       \/ Fail(r)
  \/ Quiescent

Spec == Init /\ [][Next]_vars

-----------------------------------------------------------------------------
(* Properties that hold however the requests interleave and fail *)

EventRow ==
  [tenant : Tenants, loan : Loans, subject : LockIds,
   type : {EventType[op] : op \in Ops}, by : Requests, prev : Nat, at : Nat]

\* The table and the locals of the handlers keep their types; no handler stores a
\* status that the table refuses.
TypeOK ==
  /\ rateLock \in [LockIds -> Row \cup {NoLock}]
  /\ phase \in [Requests -> {"idle", "found", "written", "linked", "done",
                             "refused", "failed"}]
  /\ call \in [Requests -> Call \cup {NoCall}]
  /\ snapshot \in [Requests -> Row \cup {NoLock}]
  /\ prevHash \in [Requests -> Nat]
  /\ events \in Seq(EventRow)

Existing == {l \in LockIds : rateLock[l] # NoLock}

Saved == {r \in Requests : phase[r] \in {"written", "linked", "done", "failed"}}

\* A lock's history starts with its creation and its status is that of its
\* last entry: of two racing updates the one that loses its entry loses its
\* status with it.
StatusFollowsHistory ==
  \A l \in Existing :
    LET h == rateLock[l].actions
    IN  /\ h # <<>> /\ h[1].type = "create"
        /\ rateLock[l].status = StatusAfter[h[Len(h)].type]

\* h is the work of requests that got as far as their update, each of which
\* asked for its operation on lock l for its tenant, with the scope it takes,
\* and no request has two entries.
Genuine(h, l, tenant) ==
  /\ \A k \in DOMAIN h :
       LET c == call[h[k].by]
       IN  /\ h[k].by \in Saved
           /\ c.op = h[k].type /\ c.lock = l /\ c.tenant = tenant
           /\ Permitted(c)
  /\ \A j, k \in DOMAIN h : h[j].by = h[k].by => j = k

\* Whatever snapshots are written back, no entry of a history is invented,
\* repeated, or left by a caller of another tenant or without the scope.
HistoryIsGenuine ==
  \A l \in Existing : Genuine(rateLock[l].actions, l, rateLock[l].tenant)

\* An entry of a history has its event in the ledger, of the same lock and
\* tenant, unless its request is still running or failed on the way; and no
\* event is there without a request that finished, nor twice.
HistoryIsAudited ==
  /\ \A l \in Existing : \A k \in DOMAIN rateLock[l].actions :
       LET a == rateLock[l].actions[k]
       IN  phase[a.by] = "done" =>
             \E i \in DOMAIN events :
               /\ events[i].by = a.by /\ events[i].subject = l
               /\ events[i].tenant = rateLock[l].tenant
               /\ events[i].type = EventType[a.type]
  /\ \A i \in DOMAIN events :
       /\ phase[events[i].by] = "done"
       /\ \A j \in DOMAIN events : events[j].by = events[i].by => i = j

\* The expiry of a lock is its period plus the days of some of the extensions
\* that were saved: stale writes may drop a grant but never invent a day, and
\* float-downs and voids never move it.
ExpiryIsGranted ==
  \A l \in Existing :
    \E granted \in SUBSET {r \in Saved : call[r].op = "extend" /\ call[r].lock = l} :
      rateLock[l].expiresAt = rateLock[l].lockPeriodDays + DaysOf(granted)

-----------------------------------------------------------------------------
(* Properties of requests served one at a time (MaxInFlight = 1) *)

Ledger == INSTANCE LockLedger WITH rateLock <- rateLock, Requests <- Requests

\* Requests that do not overlap behave like atomic operations on the lock.
ImplementsLedger == Ledger!Spec

\* Event and history tell one story: the requests behind the events of a lock
\* appear in its history, in the order in which the ledger has them.
HistoryExplainsLedger ==
  \A i, j \in DOMAIN events :
    i < j /\ events[i].subject = events[j].subject =>
      LET h == rateLock[events[i].subject].actions
      IN  \E m, n \in DOMAIN h :
            m < n /\ h[m].by = events[i].by /\ h[n].by = events[j].by

-----------------------------------------------------------------------------
(* A claim of the console that the service does not keep *)

\* LockActionsDrawer: "Voiding locks is irreversible and will be audited."
VoidIsIrreversible ==
  [][\A l \in LockIds : rateLock[l] # NoLock /\ rateLock[l].status = "voided"
                          => rateLock'[l].status = "voided"]_vars
=============================================================================
