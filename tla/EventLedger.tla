----------------------------- MODULE EventLedger -----------------------------
(***************************************************************************)
(* The table `events` that every business service of the API appends to:   *)
(* AuditTrailService.recordEvent reads the newest event of the tenant,     *)
(* then inserts a row that names it as its predecessor, and a BEFORE       *)
(* INSERT trigger completes the row.  The module has no state of its own;  *)
(* the services keep a variable `events` and change it with these          *)
(* operators.                                                              *)
(*                                                                         *)
(* Abstraction.  A hash stands for the row it was computed from: rows are  *)
(* identified by their position in `events`, which is insertion order, and *)
(* `prev` is the position whose hash the row carries.  SHA-256 is taken to *)
(* be free of collisions.                                                  *)
(***************************************************************************)
EXTENDS Integers, Sequences

CONSTANTS
  StampSteps  \* by how much occurred_at of a new row may exceed the last one
              \* given: 0 when two rows can fall in one millisecond, 1 later

ASSUME StampStepsAssumption == StampSteps \subseteq {0, 1}

\* prevHash = null in the API, stored as 'GENESIS' by the trigger of m1.
GENESIS == 0

\* Mutant: the oldest row, as with orderBy: { occurredAt: 'asc' }.
OldestMutant(events, rows) ==
  {i \in rows : \A j \in rows : events[i].at <= events[j].at}

Newest(events, rows) ==
  {i \in rows : \A j \in rows : events[j].at <= events[i].at}

\* Mutant: a findFirst whose `where` has lost its tenant.
LatestMutant(events, tenant) ==
  IF events = <<>> THEN {GENESIS} ELSE Newest(events, DOMAIN events)

\* What `prev?.hash ?? null` may be after findFirst(tenantId, occurredAt desc):
\* among rows of the same instant the database may return any.
LatestOfTenant(events, tenant) ==
  LET rows == {i \in DOMAIN events : events[i].tenant = tenant}
  IN  IF rows = {} THEN {GENESIS} ELSE Newest(events, rows)

\* app.event_hash_chain: a row that brings a predecessor keeps it, one that
\* brings none is linked to the newest row of its tenant and loan.
TriggerPrev(events, tenant, loan, prev) ==
  LET rows == {i \in DOMAIN events : /\ events[i].tenant = tenant
                                     /\ events[i].loan = loan}
  IN  IF prev # GENESIS THEN {prev}
      ELSE IF rows = {} THEN {GENESIS}
      ELSE Newest(events, rows)

\* The tables that prisma.event.create({...row, prevHash: prev}) may leave when
\* no other insert is under way (AuditTrail has the general case).
Appended(events, row, prev) ==
  LET last == IF events = <<>> THEN 0 ELSE events[Len(events)].at
  IN  {Append(events, [tenant |-> row.tenant, loan |-> row.loan,
                       subject |-> row.subject, type |-> row.type, by |-> row.by,
                       prev |-> p, at |-> last + d]) :
         p \in TriggerPrev(events, row.tenant, row.loan, prev), d \in StampSteps}
=============================================================================
