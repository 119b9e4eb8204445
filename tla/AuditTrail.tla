------------------------------ MODULE AuditTrail ------------------------------
(***************************************************************************)
(* The hash chain of the table `events`: concurrent writers, the trigger   *)
(* app.event_hash_chain, and fn_verify_event_chain, which walks a window   *)
(* of the table and stores the number of mismatches it found.              *)
(*                                                                         *)
(* Writers of the API (AuditTrailService.recordEvent, and the seed script) *)
(* read the newest event of their tenant, then insert.  Writers of SQL     *)
(* only insert, and the trigger links their row.  An insert is two steps:  *)
(* the statement, whose trigger sees the committed rows, and its commit.   *)
(*                                                                         *)
(* Nothing corrupts a stored row here: every mismatch is a false alarm.    *)
(***************************************************************************)
EXTENDS EventLedger, FiniteSets

CONSTANTS
  ApiWriters, SqlWriters,
  Tenants, Loans,  \* numbers, for the ORDER BY; loan 0 is loan_id = null
  ApiTargets,      \* the <<tenant, loan>> that recordEvent is called for
  SqlTargets,      \* the <<tenant, loan>> that SQL inserts rows for
  MaxInFlight,     \* how many writers may be between their first and last step
  MaxEvents,       \* bound on the rows written
  MaxStamp,        \* bound on the instants told apart
  Windows          \* pairs <<p_from, p_to>> that verification is asked for

ASSUME AuditTrailAssumption ==
  /\ ApiWriters \cap SqlWriters = {}
  /\ Tenants \subseteq Nat \ {0} /\ Loans \subseteq Nat
  /\ ApiTargets \cup SqlTargets \subseteq Tenants \X Loans
  /\ MaxInFlight \in Nat /\ MaxEvents \in Nat /\ MaxStamp \in Nat
  /\ Windows \subseteq Nat \X Nat

VARIABLES
  events,
  stage,     \* how far a writer has come
  row,       \* the row a writer is about to insert or commit
  integrity  \* the newest row of events_integrity

vars == <<events, stage, row, integrity>>

Writers == ApiWriters \cup SqlWriters

NoRow == [tenant |-> 0, loan |-> 0, prev |-> GENESIS, at |-> 0]

InFlight == {w \in Writers : stage[w] # "idle"}

Init ==
  /\ events = <<>>
  /\ stage = [w \in Writers |-> "idle"]
  /\ row = [w \in Writers |-> NoRow]
  /\ integrity = [total |-> 0, mismatches |-> 0]

Start(w) ==
  /\ stage[w] = "idle"
  /\ Cardinality(InFlight) < MaxInFlight
  /\ Len(events) + Cardinality(InFlight) < MaxEvents

-----------------------------------------------------------------------------
(* Writing *)

\* recordEvent up to its first await: the predecessor within the tenant.
findLatest(w, tenant, loan) ==
  /\ Start(w)
  /\ \E h \in LatestOfTenant(events, tenant) :
       row' = [row EXCEPT ![w] = [tenant |-> tenant, loan |-> loan, prev |-> h, at |-> 0]]
  /\ stage' = [stage EXCEPT ![w] = "linked"]
  /\ UNCHANGED <<events, integrity>>

\* The last occurred_at given, to a committed row or to one about to be.  Only
\* the order of instants matters, so those of abandoned rows are reused.
LastStamp ==
  LET given == {0} \cup {events[i].at : i \in DOMAIN events} \cup {row[w].at : w \in Writers}
  IN  {s \in given : \A other \in given : other <= s}

\* The INSERT statement and its trigger; the row is not visible yet.
Insert(w, tenant, loan, prev) ==
  /\ \E s \in LastStamp, d \in StampSteps, p \in TriggerPrev(events, tenant, loan, prev) :
       /\ s + d <= MaxStamp
       /\ row' = [row EXCEPT ![w] =
                    [tenant |-> tenant, loan |-> loan, prev |-> p, at |-> s + d]]
  /\ stage' = [stage EXCEPT ![w] = "inserted"]
  /\ UNCHANGED <<events, integrity>>

createEvent(w) ==
  /\ stage[w] = "linked"
  /\ Insert(w, row[w].tenant, row[w].loan, row[w].prev)

sqlInsert(w, tenant, loan) ==
  /\ Start(w)
  /\ Insert(w, tenant, loan, GENESIS)

Commit(w) ==
  /\ stage[w] = "inserted"
  /\ events' = Append(events, row[w])
  /\ stage' = [stage EXCEPT ![w] = "idle"]
  /\ row' = [row EXCEPT ![w] = NoRow]
  /\ UNCHANGED integrity

\* A call rejects, or its process stops, before the commit.
Abandon(w) ==
  /\ stage[w] # "idle"
  /\ stage' = [stage EXCEPT ![w] = "idle"]
  /\ row' = [row EXCEPT ![w] = NoRow]
  /\ UNCHANGED <<events, integrity>>

-----------------------------------------------------------------------------
(* Verifying *)

Key(i) == <<events[i].tenant, events[i].loan>>

\* Nulls come last.
LoanBefore(m, n) == m # 0 /\ (n = 0 \/ m < n)

\* order by tenant_id, loan_id, occurred_at.
Before(i, j) ==
  \/ events[i].tenant < events[j].tenant
  \/ events[i].tenant = events[j].tenant /\ LoanBefore(events[i].loan, events[j].loan)
  \/ Key(i) = Key(j) /\ events[i].at < events[j].at

\* The orders in which the loop may meet the rows of a window.
Scans(window) ==
  LET rows == {i \in DOMAIN events : window[1] <= events[i].at /\ events[i].at <= window[2]}
  IN  {s \in [1..Cardinality(rows) -> rows] :
         /\ \A j, k \in DOMAIN s : s[j] = s[k] => j = k
         /\ \A j, k \in DOMAIN s : j < k => ~Before(s[k], s[j])}

\* Mutant: rows without a predecessor are compared too.
MismatchesM1Mutant(s) == {k \in 2..Len(s) : events[s[k]].prev # s[k - 1]}

\* m1-data-fabric: v_prev is the row before, of whatever tenant and loan, and
\* rows without a predecessor are skipped.
MismatchesM1(s) ==
  {k \in 2..Len(s) : events[s[k]].prev # GENESIS /\ events[s[k]].prev # s[k - 1]}

\* prisma/migrations: the expected predecessor is the row before of the same
\* tenant and loan, none for the first one in the window.
MismatchesPrisma(s) ==
  {k \in 1..Len(s) :
     events[s[k]].prev # IF k > 1 /\ Key(s[k - 1]) = Key(s[k]) THEN s[k - 1] ELSE GENESIS}

\* One row of events_integrity per run.
Store(s, mismatches) ==
  /\ integrity' = [total |-> Len(s), mismatches |-> Cardinality(mismatches)]
  /\ UNCHANGED <<events, stage, row>>

\* fn_verify_event_chain as each of the two migrations defines it.
VerifyM1 == \E window \in Windows : \E s \in Scans(window) : Store(s, MismatchesM1(s))

VerifyPrisma ==
  \E window \in Windows : \E s \in Scans(window) : Store(s, MismatchesPrisma(s))

-----------------------------------------------------------------------------
Next ==
  \/ \E w \in ApiWriters :
       \/ \E target \in ApiTargets : findLatest(w, target[1], target[2])
       \/ createEvent(w)
  \/ \E w \in SqlWriters, target \in SqlTargets : sqlInsert(w, target[1], target[2])
  \/ \E w \in Writers : Commit(w) \/ Abandon(w)
  \/ VerifyM1
  \/ VerifyPrisma

Spec == Init /\ [][Next]_vars

-----------------------------------------------------------------------------
EventRow == [tenant : Tenants, loan : Loans, prev : Nat, at : Nat]

\* The tables, and the rows that writers hold, keep their types.
TypeOK ==
  /\ events \in Seq(EventRow)
  /\ stage \in [Writers -> {"idle", "linked", "inserted"}]
  /\ row \in [Writers -> EventRow \cup {NoRow}]
  /\ integrity \in [total : Nat, mismatches : Nat]

\* However writers interleave, the predecessor of a row is an older row of the
\* same tenant: following prev_hash never loops, never crosses tenants and
\* ends at a row without predecessor.
ChainDescends ==
  \A i \in DOMAIN events :
    events[i].prev # GENESIS =>
      events[i].prev < i /\ events[events[i].prev].tenant = events[i].tenant

\* Writers that do not overlap, in distinct milliseconds: the rows of a tenant
\* and loan form one line in the order in which they were written, if the API
\* writes for one loan of the tenant at most.
ChainIsLinear ==
  \A i \in DOMAIN events :
    LET earlier == {j \in 1..(i - 1) : Key(j) = Key(i)}
    IN  events[i].prev = IF earlier = {} THEN GENESIS
                         ELSE CHOOSE j \in earlier : \A k \in earlier : k <= j

\* The walk over an intact table reports no row whose predecessor it can have
\* met: at most rows that follow one older than the window are reported.
VerificationIsClean ==
  \A window \in Windows : \A s \in Scans(window) :
    \A k \in MismatchesM1(s) \cup MismatchesPrisma(s) :
      /\ events[s[k]].prev # GENESIS
      /\ events[events[s[k]].prev].at < window[1]
=============================================================================
