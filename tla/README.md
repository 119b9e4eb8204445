# A TLA+ model of the Haizel loan platform

This directory holds TLA+ modules that model the API, the database functions, the
worker, the console and the libraries of this repository, TLC configurations that check
them on small instances, and proofs, checked by TLAPS, of theorems about them.
`PROJECT.json` maps each definition to the lines of the source that it stands for.

Everything here follows the code.  Where the code and a document disagree the model
does what the code does, and a run that ends in a violation shows the disagreement.

## 1. Inventory of the system

A request enters a process of the API (NestJS on Fastify), passes the guard that
decodes its token, then the idempotency interceptor, and reaches one service, which
talks to PostgreSQL through Prisma and, for some operations, appends an event to the
hash-chained table `events`.  Several processes may run side by side.  Nothing but
the database is shared between them; each keeps small in-memory maps of its own.
Inside a process handlers run one at a time *between* awaits and interleave *at*
awaits.  Almost no handler uses a transaction around its reads and writes.

| Component | State | Operations | What makes it hard | What makes it correct |
|---|---|---|---|---|
| Rate locks (`modules/locks`) | `rate_locks`: status, expiry, price, history | create, extend, float down, void, watchlist | read, then update from the row as read; event written last; no test of the status | status, history, terms and ledger agree; nothing invented; entries only of authorised callers |
| Audit trail (`common/audit-trail.service.ts`, `migrations/m1-data-fabric`, `prisma/migrations`) | `events`, `events_integrity` | record an event, SQL insert with trigger, verify a window | read newest, then insert; uncommitted rows invisible; equal timestamps; two definitions of the verification | the chain descends within a tenant; an intact table verifies clean |
| Pricing exceptions (`modules/exceptions`) | `exceptions`: status, approver, trail | create, approve, deny, list | status tested on a row read earlier | one whole, authorised decision; final once no other decider is under way |
| Idempotency interceptor (`middleware`) | one row per tenant and key, PENDING or COMPLETED | admit, refuse, complete | completion is not awaited; PENDING stops nobody; crash in between | a completed key is spent, for every operation of its tenant |
| Orders (`modules/operations/orders.*`) | `orders`, `vendor_requests`, `vendors`, `dlq_entries`; a map of keys per process | create, bulk create, retry, replay, lists | two or three writes without a transaction; key map with a lifetime, lost on restart, not shared; create-if-missing of the vendor | orders whole; repeats write nothing; one default vendor per tenant, and another tenant's vendor only where the caller named it |
| Tasks (`modules/operations/tasks.*`) | `tasks`, `task_events`; key map | transition, bulk update, route, queues | chain of task events read, then extended | one line of events per task, each from the state it tells of; the first routing with a key is told the queue it asked for (a repeat is told the queue of then) |
| Webhooks (`modules/operations/webhooks.*`) | `webhooks`; key map without lifetime | ingest | two deliveries in flight; a repeat is answered from the map | the receipt of a delivery that was stored has the true verdict (a repeat is told `valid` whatever it was); repeats store nothing |
| SLA (`modules/operations/sla.*`) | none | heat map | boundaries of hours and ranges; items without a date; order of rows | each cell counts its items |
| Pricing (`modules/pricing`) | `pricing_requests`, `pricing_quotes` | quote | adapter and transaction between three events | events tell of the quotes that are stored, and of no others |
| Lock timers (`apps/worker`, `lock-timers.workflow.ts`) | a workflow's expiry and windows | sleep, alert, expire | late wake-up; repeated activity; expiry fixed at the start | alerts in order; exact when prompt; true of an unchanged lock; the end is reached |
| Other workflows (`apps/worker`) | none | one activity each, which logs | - | - |
| Rule graph (`packages/rules-dsl`) | none | order and evaluate rules | shared and cyclic dependencies | dependencies first; cycles refused |
| Business time (`packages/lib-business-time`) | none | holidays, add, count | observed holidays, year ends, signs | agrees with counting day by day |
| Masking (`003-masking.sql`) | `access_audit` | unmask a borrower, read the masked views | audit row in the caller's transaction; the views show admin and compliance what they mask for others, without a row | committed unmaskings have their row, and only they have one |
| Tenant session, row level security (`001-tenancy.sql`, `002-rls.sql`, `LoansService`) | settings of a connection, policies | set the context, list loans | pool of connections; setting local to a transaction | not modelled |
| Disaster recovery drills (`005-pitr-scaffolding.sql`) | `dr_drills`, a flag per tenant | begin, complete, record | flag shared by drills; completion is two statements and tests nothing | flag names a drill under way, and is on while there is one |
| Lock console (`apps/web`) | fetched locks, selection, views | refresh, quote, act on a lock | acts on what it fetched last; responses out of order; a fetch that rejects | shows what its own operation has done; drawers get free |
| Guard, error filter, health, configuration, observability, infrastructure, other pages | none of their own | - | - | - |

Facts about the repository that a reader of the models should know:

* `app.module.ts` mounts the modules Auth, Health, Loans and Operations; the modules
  Pricing, Locks and Exceptions are complete but not mounted.  They are modelled as
  the services they are.
* `schema.prisma` declares `VendorRequest` three times and `Vendor` twice.  The
  interceptor is written against the last `VendorRequest` (unique tenant and
  key hash), `OrdersService` against the second one (with an order and a
  correlation id).  The models keep the two uses apart: `record` and
  `vendorRequests`.
* `events` has two definitions of its verification: `004-hash-chain.sql` of m1 and the
  Prisma migration.  Both are modelled.

Every hazard of this code that is hard to reach with a test is listed, with its line,
under `hazards` in `PROJECT.json`.

## 2. The modules

Which module builds on which (`EXTENDS` unless another word is given):

    EventLedger --- AuditTrail
        |---------- RateLocks --- implements --- LockLedger
        |---------- Exceptions
        |---------- Pricing ---+
    Idempotency ---------------+--- ApiServices
        |---------- Tasks -----+
        |---------- Webhooks --+
        |---------- Orders
    LockLedger --- instantiated by --- LockService --- LockTimer ---+
                                            |--------- LockConsole --+--- LockDesk
    DependencyOrder --- implemented by --- RuleGraph ---+
                       BusinessTime, SlaHeatMap --------+--- Libraries
    Tenancy

### EventLedger
No state; operators on the sequence `events` that every service extends: the newest
rows of a tenant (`LatestOfTenant`, the `findFirst` of `recordEvent`), the trigger
that completes a row (`TriggerPrev`), and an insert that nothing overlaps
(`Appended`).  A row is known by its place in the sequence, and the hash of a row *is*
that place: SHA-256 is taken to be free of collisions, and `prev_hash` to be a
pointer.  `StampSteps` says whether two rows may carry the same millisecond.

### AuditTrail
The chain by itself.  Writers of the API take `findLatest`, `createEvent`, `Commit`;
writers of SQL take `sqlInsert`, `Commit`; either may be abandoned.  An insert and its
commit are two steps because the trigger sees committed rows only.  `VerifyM1` and
`VerifyPrisma` are the two definitions of `fn_verify_event_chain`; `Scans` gives every
order of rows that the `ORDER BY` permits.  Nothing tampers with rows, so each
mismatch is a false alarm.

### RateLocks, LockLedger
`RateLocks` has one action per segment of a handler between awaits: `createLock`,
`FindLock` and `Refuse` (the opening of the three other handlers), `extendLock`,
`floatDown`, `voidLock` (the update), `FindLatestEvent` and `CreateEvent`
(`recordEvent`), and `Fail`, which ends a request at any await and leaves what it has
written.  `snapshot[r]` is the row a handler has read; an update writes the columns
of its `data` over the row as it is now, and `actions` from the snapshot.  Expiry is
counted in days from `lockedAt`, the price in float-downs.  Validation by the DTOs is
in the sets `Periods` and `Days`.  `LockLedger` is the abstract specification: a lock
is changed by one atomic operation at a time.

### Exceptions
The same shape for `ExceptionsService`: `create`, `Find` and `Refuse`, `approve`,
`deny`, the two steps of `recordEvent`, `Fail`.

### Idempotency, Orders
`Idempotency` has the interceptor's actions: `Admit` (the upsert and the test of what it
returned), `Answer` (the handler returns, the response goes out), `Complete` (the update
that nothing awaits), `Throw`, `Stop` (a process stops: Node ends a process whose
promise is rejected without a handler, which is what a failing update of the record
comes to).  `Orders` composes the steps of `OrdersService` with them: the test of the
key map, the lookup for a repeat, `ensureDefaultVendor` in its two steps, the inserts,
and `finish`, the code after the last await that remembers the key and answers.  A
caller may name any vendor, one of another tenant too: the code looks at nothing
(`orders.service.ts:86`), the table at its being there (a foreign key). `vendors` is the
table with the tenant of each row, `updates` the updates of orders and dead letters with
the request that made them.  Requests and processes are numbered in the order in which
they come into play, which loses nothing.  `past`, `lapsed` and `faults` are history:
they are read by properties and bounds only.

### Tasks, Webhooks, Pricing, ApiServices
Three services behind the same interceptor.  `Tasks`: a transition reads the task,
writes its state, reads the newest task event, inserts the next one; bulk updates and
routing remember their keys for an hour.  `Webhooks`: a delivery looks up its vendor,
judges the signature (a signature *is* the vendor and payload it was made for), is
stored and remembered in a map that nothing empties and that has no tenant in its
keys.  `Pricing`: the quote's three events around the adapter and the transaction; the
terms of a quote, which the mock adapter takes from a table, are left out.
`ApiServices` runs them side by side in processes that share the records of the
interceptor and nothing else, with rejected calls, expired keys and stops.

### LockService, LockTimer, LockConsole, LockDesk
`LockService` is a clock of whole days and the table of locks, whose operations are
those of `LockLedger` (which `RateLocks` implements when requests do not overlap),
and the watchlist.  `LockTimer` is `LockTimerWorkflow` as Temporal runs it: durable, a
sleep may end late but not early, an activity whose completion is lost runs again.
`LockConsole` is the page of all locks and the pricing tab of one loan: lists fetched
and answered in any order, a selection, an operation that posts and then reloads
without looking at the status of the response, a `busy` that a rejected fetch leaves
set.  `LockDesk` puts them around one lock, with other clients that operate on it.

### DependencyOrder, RuleGraph, BusinessTime, SlaHeatMap, Libraries
Computations that wait for nothing.  They are written as machines, one action per
turn of a loop or call of the recursive `visit`, because the loops are what could be
wrong; nothing is RECURSIVE.  `RuleGraph` has the stack of `sortRules`, then the
evaluation in order; `DependencyOrder` is what `sortRules` promises.  `BusinessTime`
computes holidays as the library does, and its property states the calendar anew
("the fourth Thursday is between the 22nd and the 28th").  `SlaHeatMap` takes the rows
in any order.  `Libraries` runs one of the three per behaviour.

### Tenancy
Transactions of SQL: what a transaction has written is its own until it commits, and
a row it has written waits for it.  `sp_begin_dr_drill`, `sp_complete_dr_drill`,
`sp_record_dr_access`, `sp_unmask_borrower` and a read of `borrowers_masked` are made in
them (the functions and the view for co-borrowers are alike).  A call is one step where
only its first statement reads what others write.  Completing a drill is two steps: the
update of `dr_drills` and, in `clearFlag`, that of the flag, which under READ COMMITTED
sees what was committed in between.  `sp_record_dr_access` writes a row with the text of
its caller for an action (`Actions` has "unmask"), and an empty list of fields, which is
what tells it from an unmasking.

### MC modules and proofs
`MCRateLocks`, `MCAuditTrail`, `MCExceptions`, `MCOrders`, `MCApiServices`,
`MCLibraries` and `MCTenancy` give values to constants.  `RateLocks_proofs`,
`AuditTrail_proofs`, `Exceptions_proofs`, `Orders_proofs`, `ApiServices_proofs`,
`LockDesk_proofs`, `Libraries_proofs` and `Tenancy_proofs` hold the theorems, each about
the module it is named for.

## 3. The runs

| Run | Bounds | What it shows |
|---|---|---|
| RateLocksConcurrent | 4 requests, 3 at a time, 2 locks, 2 tenants | status, history, expiry and ledger of a lock stay consistent whatever is overwritten: updates may be lost, but never half of one |
| RateLocksSerial | 4 requests, one at a time | the service implements `LockLedger`; history and ledger tell one story, failures included |
| RateLocksVoid (violation) | 3 requests, one at a time | a voided lock becomes active again; the console says voiding is irreversible |
| AuditTrailConcurrent | 3 writers, 3 rows, 2 tenants, equal instants | `prev_hash` never loops and never leaves its tenant, though the chain may fork |
| AuditTrailSerial | 2 writers, one at a time, 5 rows; a window of all rows and one without the oldest | one line per tenant and loan while the API writes for one loan of a tenant only; both verifications report at most rows that follow one older than the window |
| AuditTrailTwoLoans (violation) | 1 writer, 4 rows | the API chains by tenant, the verification walks by loan: false alarms as soon as a tenant has two loans, where a test expects none |
| ExceptionsConcurrent | 4 requests, 3 at a time | the row shows one whole, authorised decision even when decisions race; a decision is replaced only by a request that was already past its test; the ledger has the decision unless a decider failed |
| Orders | 2 requests out of 9 calls, 2 processes, 2 faults; one tenant with a vendor and one without | orders are whole unless cut short; one default vendor per tenant, another tenant's vendor only where the caller named it, vendor requests to the vendor of their order; a repeat creates nothing and updates nothing, orders and dead letters included, while its key is remembered; an answer is about an order of the caller's tenant, loan and service; every request ends |
| ApiServices | 2 requests of 13 kinds, 2 processes, 1 fault | task events form one path, each from the state it tells of, when transitions do not overlap, and are genuine always; the first routing with a key is told the queue it asked for; the receipt of a stored delivery has the true verdict; quotes are told as they were stored; a repeat changes nothing; a key is spent for all services |
| LockDesk | 1 lock, days 11 to 17 of a lock of 15, 1 repeat, 3 lists, 2 entries | the timer: alerts in order and not early, exact when prompt, true of a lock that was not changed, and the end reached; the console: shows what its operation did unless overtaken, and drawers get free unless a fetch was lost |
| Libraries | 3 rules, some 800 calendar calls, 4 rows | order and evaluation of rules, with cycles, missing and repeated codes; `sortRules` implements `DependencyOrder`; days are working days; cells count their items |
| Tenancy | 2 clients, 2 drills, 2 tenants, 1 borrower, 2 rows of the audit, 3 roles, 2 texts of an action | the drill flag names a drill under way and follows the drills of a tenant that does not misuse them; committed unmaskings and rows of the audit that list fields are one to one, and what the views mask is shown without a row only by them, to admin or compliance |

The exact conditions ("unless overtaken", "while remembered") are in the properties;
each was found by trying the statement without it.  What the code does *not* hold, so
that no one relies on it: of two decisions that both read the exception as pending the
later one stands; extensions of a lock that overlap may be lost; two transitions of a
task that overlap give two events from one state; a call repeated between its answer
and the completion of its record is executed again, except where a service has a map
of keys of its own; in another process, or after an hour, that map does not help
either; a call that names another tenant's vendor makes an order for that vendor; a
tenant that runs two drills at a time, or completes one that is not its own or is over,
may lose its flag while a drill is under way; a row of the audit that says "unmask" need
not be an unmasking; a verification window that begins inside a chain reports its first row.

Why the bounds are enough.  What goes wrong in the database code takes two requests on
one row, a third to see the result, and a row of another tenant or loan beside it:
four requests, three at a time, two tenants give every such pattern, and histories of
up to four entries.  In `AuditTrail` a fork takes two writers and a false alarm two
rows; three to five rows leave a chain before and after.  Behind the interceptor the
effects are between one call and its repeat, or between two calls that share a key
or a row; two requests range over all pairs of calls, chosen so that they share keys
across operations, loans and tenants.  In `LockDesk` the clock spans a day before the
first window to two days after the expiry, an extension moves the expiry by a day, and
one repetition, one lost response and three lists let each response be overtaken;
a tab stays open for a day (`LastTabDay`) and a timer runs where no page is open, since
timer and console meet in the lock only, where `OtherClient` stands for either.
Calendar calls begin on every day of seven months around a New Year's Day that is
kept in the old year, and run over all eleven holidays; the heat map's rows lie on and
next to each boundary.  Three rules give chains, diamonds with a repeated code, cycles
of one, two and three.  `Tenancy` has a second tenant, drill and client, so that every
completion can name a drill that is not its own, and two rows of the audit for its
one borrower: two unmaskings, or one beside a row of `sp_record_dr_access`.

Symmetry is used only where all properties are safety properties or refinements of
steps, for requests, ids and tenants that no constant tells apart.

`MaxInFlight = 1` in the runs called Serial is a condition, not a bound: their
properties say what the service does when requests do not overlap.

Fairness.  `Orders!Spec` is fair to each handler and to each completion of a record:
the database answers and the event loop runs what awaits it.  `LockDesk!Spec` is fair
to the clock, to the workflow (Temporal runs it to its end) and to answers to what the
console has sent.  `Libraries!Spec` is fair to the rules: synchronous code runs on.
Nothing is fair to clients, users, expiry, failures, lost responses or crashes.  The
other modules have safety properties only and no fairness.

Deadlock is checked except in two runs that do come to an end: `LockDesk`, whose clock
stops at its bound, and `Libraries`, whose computations return.  Elsewhere `Quiescent`
is the API waiting for requests when all that the bound allows have been served.

## 4. The theorems

Every invariant that a passing run checks is a theorem too, for any sets of requests or
clients, tenants, loans, keys and ids (finite where cardinalities are taken), any number
of requests, processes, writers, rows, drills and lists, and any bounds.  Where a run
is `Serial`, so is the theorem, as a hypothesis (`ASSUME MaxInFlight = 1 PROVE ...`).

* `RateLocks_proofs`.  `TypeCorrect`, `StatusAgrees`, `HistoryGenuine`,
  `HistoryAudited`, `ExpiryGranted`.  These are not inductive alone: an update writes
  back a snapshot that may be old, so the invariant must also say that the *snapshot* of
  a request that is about to update begins with a creation and holds only genuine
  entries, of requests that have saved and so not of its reader (`RequestsAreSound`),
  and that events and finished requests belong together one to one (`LedgerIsSound`).
  `IInv` is the conjunction.  For `ExpiryGranted` (`GInv`) the expiry of a
  snapshot, too, is the period of the lock and the days of extensions that were saved;
  what the sum over a set of them becomes when one is added is proved by the least
  counterexample in place of an induction.  With `MaxInFlight = 1`:
  `SerialImplementsLedger`, that the specification implements `LockLedger`, for which the
  snapshot of the one request in flight is still the row (`SnapshotIsCurrent`), and
  `HistoryExplains`, that a history has the requests behind the events of its lock in the
  order of the ledger; its entries are not lost then, and an event is that of the last one.
* `AuditTrail_proofs`.  `TypeCorrect` and `ChainDescending`.  The strengthening is
  that the predecessor a writer has read, or has been given by the trigger, is a
  committed row of its tenant; rows are only appended, so it stays one.  `ChainLinear` and
  `VerificationClean` assume what the run AuditTrailSerial has (`Serial`: one writer at a
  time, timestamps that grow, one loan for each tenant that the API writes for).  Then what
  the writer in flight holds stays the newest row of its tenant and loan, every row names
  the one before it, and the only order of rows that an `ORDER BY` permits is that of the
  table, so that a verification meets the predecessor of a row just before the row.
* `Exceptions_proofs`.  `TypeCorrect`, `DecisionWhole`, `DecisionAuthorised`,
  `DecisionsSettle`, `LedgerAgreeing`.  The strengthening is that a request that has
  passed the test of the status holds the scope and a snapshot that is the bare
  request of the exception; for the last one, that events of decisions and finished
  requests belong together.
* `Orders_proofs`.  `VendorShared`, `AnswerOwn`, `OrdersWhole`, `RepeatsWriteNothing`, for
  any calls, faults and processes.  The invariant `RequestIsSound` gives, for each place
  of a handler, the rows its request has written and what its locals have to do with
  them; a step adds rows of its own request only, so that it holds for the others is one
  lemma (`OthersHold`).  For the last theorem a key that was answered for stays in the map
  of its process until it lapses, so the handler of a repeat is at a place where nothing
  is written (`Memory`).  What `RepeatsWriteNothing` counts as written is every row made
  and every update: of orders, vendor requests, vendors and dead letters.
* `ApiServices_proofs`.  `KeysSpent`, `RepeatsChangeNothing`, `ReceiptsGenuine`,
  `RoutedAsWasAsked`, `TrailGenuine`, `QuotesTold`, `TrailsAreOnePath`.  A step is one of
  three kinds: a request arrives, a handler takes a step, or requests end where they are.
  `BaseInv` is about the interceptor (completed records are those of recorded requests),
  `CachesTyped` about the maps, and `TaskInv`, `WebhookInv` and `QuoteInv` say for each
  service what the tables hold of a request at each place of its handler.  That a step of
  one service keeps the invariant of another is a lemma for each, because the step does no
  more to a request of the other than to end it.  `TrailsAreOnePath` needs `PathInv` on
  top: while the transitions of a task have followed one another, its events form one
  chain, whose end is the state of the task, or the state the one at work came from.
* `Tenancy_proofs`.  `FlagNamed`, `FlagFollows`, `UnmaskingAudited`.  What a transaction
  has written but not committed must be known to fit the tables when it commits, whatever
  has been committed since.  The invariant says what each kind of pending write is, and
  that a row is pending in one transaction only, which is where the row locks come in; a
  completion between its two statements has a claim on the flag of its tenant
  (`Claims`), and no other transaction of a tenant that does not misuse its drills has
  one (`ClaimsAreExclusive`).  What was shown in a transaction and the rows that it has
  put in the audit belong together before it commits (`Told`), and two such pairs whose
  rows differ do so together.
* `LockDesk_proofs`.  Of the timer: `AlertsKeepingOrder`, `TimerTelling` and
  `PromptTimerExact`, for any expiry and any bounds on the clock and the repeats.  The
  invariant ties the place of the workflow to the clock: one that is past its sleep is
  past `wakeAt`, and `wakeAt` is the window of the turn; and it ties the lock to its
  history since the start.  For the last one, a second invariant, `PromptInv`, says on
  which day a timer that is not late is where, and that the alerts so far are those of the
  windows behind it.  Of the console: `OwnWritesRead`, for any locks and exceptions and any
  number of lists under way.  `ConsoleInv` says of each fetch under way that what it has
  been answered is no older than the operations that have ended; and of one that ends an
  operation, that it is the only one that does, and does not list the item older than the
  operation has made it.
* `Libraries_proofs`.  `CellsAreCounted`: the cells are the counts of the rows taken so
  far, whatever their order.  `SortImplementsOrder`: `sortRules` takes only steps that
  `DependencyOrder` permits; the stack is a path of dependencies, and those that a code on
  it has behind it are placed (`SortIsSound`), so a code that is met on the stack is on a
  cycle.  `EvaluationAgreeing`: after n turns the first n codes of the order have the
  results they are to keep, and the summary is that of the findings.  `DaysWorking`: each
  turn of the loop passes one day and counts it just when it is a working day, for any
  dates.  It rests on lemmas about the calendar: every day lies in one year (again by
  least numbers), and the holidays that the library computes, with their observed days at
  the ends of the year, are those that the property states in words.  The run bounds the
  years, so the theorem has the hypothesis `Years = Int`.

Assumptions are the named `ASSUME`s of the modules, which TLC evaluates in every run:
finite sets; the ranges of the DTOs; null values outside the rows; the types of what the
libraries are called with (`RuleGraphAssumption`, `BusinessTimeAssumption`,
`HeatMapAssumption`, `LibrariesAssumption`); that the id of a lock is not the id of an
exception (`LockConsoleAssumption`, both are UUIDs); that calls name tenants and keys of
the model (`ApiServicesAssumption`).

Only model-checked, because liveness and `ENABLED` are out of the prover's reach:
`RequestsSettle`, `TimerEnds`, `DrawersGetFree`, and the fairness in `ImplementsOrder`,
that `sortRules` comes to its end (`SortImplementsOrder` proves the steps).

## 5. What is not modelled

* Payloads, amounts, wording, response formats, logging, spans and metrics.  The
  contents of tokens: the tenant, the user and the scopes of a request are inputs
  (guard and error filter have no state).
* Real time: expiry of a remembered key may happen at any moment after it was made;
  the timer's clock counts days.
* Pure reads (lists, queues) change nothing and appear only where something is decided
  or shown by them.
* Of the rule graph: messages, the hash of the inputs and `includePassFindings`.  Of
  business time: the time of day and calls that throw at once.  Of the console: quotes,
  saved views and the login token.
* Row level security and the list of loans (`LoansService.listLatest`).  Its
  `set_config(..., true)` is a transaction of its own, so the setting is gone before the
  query, and what the query returns is then up to the policies and to a database role
  that the repository does not settle.  A model of it can only repeat that one read.
* Of the masked views: which columns are masked and how.  `borrowers_masked` shows
  `bank_account_number` to every role (`003-masking.sql:25`); the theorem about
  unmaskings speaks of the columns that it masks.
* A disagreement that no run shows, since it is one assignment:
  `docs/architecture/dr-pitr-drill.md:22` has the flag disabled "On success", and
  `sp_complete_dr_drill` disables it on failure too.
* Other workflows, whose activities only log; other web pages, which lay out
  demonstration data; configuration, observability and infrastructure.

## 6. Plan

Done: everything in section 2.  Left, in order of importance:

1. An abstract specification of `Exceptions`, as `LockLedger` is one of `RateLocks`, and
   the proof that decisions which do not overlap implement it.
2. Policies of row level security table by table, when a role for the API is settled.
3. Three requests in `Orders` and `ApiServices`, when more time is at hand: three
   requests with one fault satisfy the invariants of `Orders` (3.8 million states) but
   take too long to be run every time.
