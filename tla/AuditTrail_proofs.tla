-------------------------- MODULE AuditTrail_proofs --------------------------
(***************************************************************************)
(* Proofs about AuditTrail for every number of writers, tenants and rows.  *)
(***************************************************************************)
EXTENDS AuditTrail, FiniteSetTheorems, TLAPS

\* p is no row, or a committed row of the tenant.
PrevOf(p, tenant) ==
  p = GENESIS \/ (p \in DOMAIN events /\ events[p].tenant = tenant)

\* The inductive invariant: what a writer holds, like what the table holds,
\* names a committed row of its own tenant.
RowsHold ==
  \A w \in Writers :
    /\ PrevOf(row[w].prev, row[w].tenant)
    /\ stage[w] # "idle" => row[w] \in EventRow

IInv == TypeOK /\ ChainDescends /\ RowsHold

USE DEF GENESIS

LEMMA InitIInv == Init => IInv
  BY DEF Init, IInv, TypeOK, ChainDescends, RowsHold, PrevOf, NoRow

\* What is read, or filled in by the trigger, is a row of the tenant.
LEMMA LatestHolds ==
  ASSUME NEW t, NEW h \in LatestOfTenant(events, t)
  PROVE  PrevOf(h, t)
  BY DEF LatestOfTenant, Newest, PrevOf

LEMMA TriggerHolds ==
  ASSUME NEW t, NEW n, NEW prev, PrevOf(prev, t), NEW p \in TriggerPrev(events, t, n, prev)
  PROVE  PrevOf(p, t)
  BY DEF TriggerPrev, Newest, PrevOf

LEMMA PrevIsNat ==
  ASSUME TypeOK, NEW t, NEW p, PrevOf(p, t)
  PROVE  p \in Nat
  BY DEF TypeOK, PrevOf

\* A step that changes only what one writer holds.
LEMMA WriterStep ==
  ASSUME IInv, NEW w \in Writers, NEW new \in EventRow \cup {NoRow}, NEW s,
         PrevOf(new.prev, new.tenant), s \in {"idle", "linked", "inserted"},
         s # "idle" => new \in EventRow,
         row' = [row EXCEPT ![w] = new], stage' = [stage EXCEPT ![w] = s],
         UNCHANGED <<events, integrity>>
  PROVE  IInv'
<1>1. TypeOK'
  BY DEF IInv, TypeOK
<1>2. ChainDescends'
  BY DEF IInv, ChainDescends
<1>3. RowsHold'
  BY DEF IInv, TypeOK, RowsHold, PrevOf
<1>4. QED
  BY <1>1, <1>2, <1>3 DEF IInv

LEMMA FindLatestKeepsIInv ==
  ASSUME IInv, NEW w \in Writers, NEW t \in Tenants, NEW n \in Loans, findLatest(w, t, n)
  PROVE  IInv'
<1>1. PICK h \in LatestOfTenant(events, t) :
        row' = [row EXCEPT ![w] = [tenant |-> t, loan |-> n, prev |-> h, at |-> 0]]
  BY DEF findLatest
<1>2. PrevOf(h, t) /\ h \in Nat
  BY LatestHolds, PrevIsNat DEF IInv
<1>3. [tenant |-> t, loan |-> n, prev |-> h, at |-> 0] \in EventRow
  BY <1>2 DEF EventRow
<1>4. QED
  BY <1>1, <1>2, <1>3, WriterStep DEF findLatest

LEMMA InsertKeepsIInv ==
  ASSUME IInv, NEW w \in Writers, NEW t \in Tenants, NEW n \in Loans, NEW prev,
         PrevOf(prev, t), Insert(w, t, n, prev)
  PROVE  IInv'
<1>1. PICK s \in LastStamp, d \in StampSteps, p \in TriggerPrev(events, t, n, prev) :
        row' = [row EXCEPT ![w] = [tenant |-> t, loan |-> n, prev |-> p, at |-> s + d]]
  BY DEF Insert
<1>2. PrevOf(p, t) /\ p \in Nat
  BY TriggerHolds, PrevIsNat DEF IInv
<1>3. s + d \in Nat
  <2>1. \A i \in DOMAIN events : events[i] \in EventRow
    BY DEF IInv, TypeOK
  <2>2. s \in Nat
    BY <2>1 DEF IInv, TypeOK, LastStamp, EventRow, NoRow
  <2>3. QED
    BY <2>2, StampStepsAssumption
<1>4. [tenant |-> t, loan |-> n, prev |-> p, at |-> s + d] \in EventRow
  BY <1>2, <1>3 DEF EventRow
<1>5. QED
  BY <1>1, <1>2, <1>4, WriterStep DEF Insert

\* The committed row comes last and what it names was there before it.
LEMMA CommitKeepsIInv ==
  ASSUME IInv, NEW w \in Writers, Commit(w)
  PROVE  IInv'
<1>1. /\ events \in Seq(EventRow)
      /\ events' = Append(events, row[w])
      /\ row' = [row EXCEPT ![w] = NoRow]
      /\ stage' = [stage EXCEPT ![w] = "idle"]
      /\ UNCHANGED integrity
  BY DEF IInv, TypeOK, Commit
<1>2. row[w] \in EventRow
  BY DEF Commit, IInv, RowsHold
<1>3. TypeOK'
  BY <1>1, <1>2 DEF IInv, TypeOK
<1>4. /\ \A i \in DOMAIN events : i \in DOMAIN events' /\ events'[i] = events[i]
      /\ \A i \in DOMAIN events' : i \in DOMAIN events \/ i = Len(events) + 1
      /\ events'[Len(events) + 1] = row[w]
      /\ \A i \in DOMAIN events : i < Len(events) + 1
  BY <1>1, <1>2
<1>5. ChainDescends'
  <2> SUFFICES ASSUME NEW i \in DOMAIN events', events'[i].prev # GENESIS
               PROVE  /\ events'[i].prev < i
                      /\ events'[events'[i].prev].tenant = events'[i].tenant
    BY DEF ChainDescends
  <2>1. CASE i \in DOMAIN events
    <3>1. events[i].prev < i /\ events[events[i].prev].tenant = events[i].tenant
      BY <1>4, <2>1 DEF IInv, ChainDescends
    <3>2. events[i].prev \in DOMAIN events
      <4>1. events[i] \in EventRow
        BY <1>1, <2>1
      <4>2. events[i].prev \in Nat
        BY <4>1 DEF EventRow
      <4>3. QED
        BY <1>1, <1>4, <2>1, <3>1, <4>2
    <3>3. QED
      BY <1>4, <2>1, <3>1, <3>2
  <2>2. CASE i = Len(events) + 1
    BY <1>4, <2>2 DEF IInv, RowsHold, PrevOf
  <2>3. QED
    BY <1>4, <2>1, <2>2
<1>6. RowsHold'
  BY <1>1, <1>4 DEF IInv, TypeOK, RowsHold, PrevOf, NoRow
<1>7. QED
  BY <1>3, <1>5, <1>6 DEF IInv

LEMMA AbandonKeepsIInv ==
  ASSUME IInv, NEW w \in Writers, Abandon(w)
  PROVE  IInv'
  BY WriterStep DEF Abandon, PrevOf, NoRow

\* A run of the verification counts some of the finitely many rows.
LEMMA VerifyKeepsIInv ==
  ASSUME IInv, VerifyM1 \/ VerifyPrisma
  PROVE  IInv'
<1>1. PICK window \in Windows :
        \E s \in Scans(window) : \E m \in SUBSET (1..Len(s)) : Store(s, m)
  <2>1. ASSUME NEW s
        PROVE  MismatchesM1(s) \subseteq 1..Len(s) /\ MismatchesPrisma(s) \subseteq 1..Len(s)
    BY DEF MismatchesM1, MismatchesPrisma
  <2>2. QED
    BY <2>1 DEF VerifyM1, VerifyPrisma
<1>2. PICK s \in Scans(window) : \E m \in SUBSET (1..Len(s)) : Store(s, m)
  BY <1>1
<1>3. PICK m \in SUBSET (1..Len(s)) : Store(s, m)
  BY <1>2
<1>4. Len(s) \in Nat
  <2> DEFINE rows == {i \in DOMAIN events : window[1] <= events[i].at /\ events[i].at <= window[2]}
  <2>1. IsFiniteSet(DOMAIN events)
    BY FS_Interval DEF IInv, TypeOK
  <2>2. Cardinality(rows) \in Nat
    BY <2>1, FS_Subset, FS_CardinalityType
  <2>3. s \in [1..Cardinality(rows) -> rows]
    BY DEF Scans
  <2> HIDE DEF rows
  <2>4. QED
    BY <2>2, <2>3
<1>5. Cardinality(m) \in Nat
  <2>1. IsFiniteSet(1..Len(s))
    BY <1>4, FS_Interval
  <2>2. QED
    BY <2>1, FS_Subset, FS_CardinalityType
<1>6. TypeOK'
  BY <1>3, <1>4, <1>5 DEF Store, IInv, TypeOK
<1>7. QED
  BY <1>3, <1>6 DEF Store, IInv, ChainDescends, RowsHold, PrevOf

LEMMA NextKeepsIInv == IInv /\ [Next]_vars => IInv'
<1> SUFFICES ASSUME IInv, [Next]_vars PROVE IInv'
  OBVIOUS
<1>1. ASSUME NEW w \in ApiWriters, createEvent(w) PROVE IInv'
  <2>1. row[w] \in EventRow /\ PrevOf(row[w].prev, row[w].tenant) /\ w \in Writers
    BY <1>1 DEF createEvent, IInv, RowsHold, Writers
  <2>2. QED
    BY <1>1, <2>1, InsertKeepsIInv DEF createEvent, EventRow
<1>2. ASSUME NEW w \in SqlWriters, NEW t \in Tenants, NEW n \in Loans, sqlInsert(w, t, n)
      PROVE  IInv'
  BY <1>2, InsertKeepsIInv DEF sqlInsert, Writers, PrevOf
<1>3. CASE UNCHANGED vars
  BY <1>3 DEF vars, IInv, TypeOK, ChainDescends, RowsHold, PrevOf
<1>4. \A target \in ApiTargets \cup SqlTargets : target[1] \in Tenants /\ target[2] \in Loans
  BY AuditTrailAssumption
<1>5. QED
  BY <1>1, <1>2, <1>3, <1>4, FindLatestKeepsIInv, CommitKeepsIInv, AbandonKeepsIInv,
     VerifyKeepsIInv
  DEF Next, Writers

-----------------------------------------------------------------------------
LEMMA Invariance == Spec => []IInv
  BY InitIInv, NextKeepsIInv, PTL DEF Spec

\* The tables and what the writers hold keep their types.
THEOREM TypeCorrect == Spec => []TypeOK
<1>1. IInv => TypeOK
  BY DEF IInv
<1>2. QED
  BY <1>1, Invariance, PTL

\* However recordEvent's reads, inserts and commits interleave, walking back
\* along prev_hash visits ever older rows of one tenant.
THEOREM ChainDescending == Spec => []ChainDescends
<1>1. IInv => ChainDescends
  BY DEF IInv
<1>2. QED
  BY <1>1, Invariance, PTL
-----------------------------------------------------------------------------
(* Writers one at a time *)

\* Writers do not overlap, no two rows fall in one millisecond, and the tenants for
\* which the API writes have rows of one loan only.
OneLoanEach ==
  \A x \in ApiTargets, y \in ApiTargets \cup SqlTargets : x[1] = y[1] => x[2] = y[2]

Serial == MaxInFlight = 1 /\ StampSteps = {1} /\ OneLoanEach

\* p is the newest row of the tenant and loan in a table, if there is one.
LastIn(table, tenant, loan, p) ==
  LET rows == {i \in DOMAIN table : table[i].tenant = tenant /\ table[i].loan = loan}
  IN  IF rows = {} THEN p = GENESIS ELSE p \in rows /\ \A j \in rows : j <= p

Target(r) == <<r.tenant, r.loan>> \in ApiTargets \cup SqlTargets

StampsIncrease ==
  \A i, j \in DOMAIN events : i < j => events[i].at < events[j].at

OneWriter == InFlight = {} \/ \E w \in Writers : InFlight = {w}

\* What the writer in flight holds stays the newest of its tenant and loan, as nobody
\* else writes.
NewestHeld ==
  \A w \in Writers :
    /\ stage[w] # "inserted" => row[w].at = 0
    /\ stage[w] # "idle" =>
         Target(row[w]) /\ LastIn(events, row[w].tenant, row[w].loan, row[w].prev)
    /\ stage[w] = "inserted" => \A i \in DOMAIN events : events[i].at < row[w].at

\* Each row names the newest one before it of its tenant and loan.
LinkedToLast ==
  \A i \in DOMAIN events :
    LET earlier == {j \in 1..(i - 1) : Key(j) = Key(i)}
    IN  IF earlier = {} THEN events[i].prev = GENESIS
        ELSE events[i].prev \in earlier /\ \A k \in earlier : k <= events[i].prev

SInv ==
  /\ StampsIncrease /\ OneWriter /\ NewestHeld /\ LinkedToLast
  /\ \A i \in DOMAIN events : Target(events[i])

LEMMA InitSerial == Init => SInv
<1> SUFFICES ASSUME Init PROVE SInv
  OBVIOUS
<1>1. DOMAIN events = {}
  BY DEF Init
<1>2. InFlight = {}
  BY DEF Init, InFlight
<1>3. NewestHeld
  BY DEF Init, NewestHeld, NoRow
<1>4. QED
  BY <1>1, <1>2, <1>3 DEF SInv, StampsIncrease, OneWriter, LinkedToLast

\* A writer starts only when no other is in flight.
LEMMA StartsAlone ==
  ASSUME Serial, OneWriter, NEW w \in Writers, Start(w)
  PROVE  InFlight = {}
<1> SUFFICES ASSUME NEW v \in Writers, InFlight = {v} PROVE FALSE
  BY DEF OneWriter
<1>1. Cardinality(InFlight) = 1
  BY FS_Singleton
<1>2. QED
  BY <1>1 DEF Start, Serial

\* Of rows with increasing stamps the newest one is the last one.
LEMMA NewestIsLast ==
  ASSUME TypeOK, StampsIncrease, NEW t, NEW n,
         NEW rows, rows = {i \in DOMAIN events : events[i].tenant = t /\ events[i].loan = n},
         rows # {}, NEW p \in Newest(events, rows)
  PROVE  LastIn(events, t, n, p)
<1>1. p \in rows /\ \A j \in rows : events[j].at <= events[p].at
  BY DEF Newest
<1>2. ASSUME NEW j \in rows PROVE j <= p
  <2>1. events[j] \in EventRow /\ events[p] \in EventRow /\ j \in Nat /\ p \in Nat
    BY <1>1 DEF TypeOK
  <2>2. ~(p < j)
    <3>1. p < j => events[p].at < events[j].at
      BY <1>1 DEF StampsIncrease
    <3>2. events[p].at \in Nat /\ events[j].at \in Nat
      BY <2>1 DEF EventRow
    <3>3. QED
      BY <1>1, <3>1, <3>2
  <2>3. QED
    BY <2>1, <2>2
<1>3. QED
  BY <1>1, <1>2 DEF LastIn

LEMMA TriggerIsLast ==
  ASSUME TypeOK, StampsIncrease, NEW t, NEW n, NEW prev,
         prev # GENESIS => LastIn(events, t, n, prev),
         NEW p \in TriggerPrev(events, t, n, prev)
  PROVE  LastIn(events, t, n, p)
<1> DEFINE rows == {i \in DOMAIN events : events[i].tenant = t /\ events[i].loan = n}
<1>1. CASE prev # GENESIS
  BY <1>1 DEF TriggerPrev
<1>2. CASE prev = GENESIS /\ rows = {}
  BY <1>2 DEF TriggerPrev, LastIn
<1>3. CASE prev = GENESIS /\ rows # {}
  <2>1. p \in Newest(events, rows)
    BY <1>3 DEF TriggerPrev
  <2> HIDE DEF rows
  <2>2. QED
    BY <1>3, <2>1, NewestIsLast DEF rows
<1>4. QED
  BY <1>1, <1>2, <1>3

LEMMA LatestIsLast ==
  ASSUME Serial, TypeOK, SInv, NEW target \in ApiTargets,
         NEW h \in LatestOfTenant(events, target[1])
  PROVE  LastIn(events, target[1], target[2], h)
<1> DEFINE t == target[1]
           n == target[2]
           rows == {i \in DOMAIN events : events[i].tenant = t /\ events[i].loan = n}
<1>1. \A i \in DOMAIN events : events[i].tenant = t => events[i].loan = n
  <2> SUFFICES ASSUME NEW i \in DOMAIN events, events[i].tenant = t PROVE events[i].loan = n
    OBVIOUS
  <2>1. PICK y \in ApiTargets \cup SqlTargets : y = <<events[i].tenant, events[i].loan>>
    BY DEF SInv, Target
  <2>2. y[1] = t /\ y[2] = events[i].loan
    BY <2>1
  <2>3. QED
    BY <2>2 DEF Serial, OneLoanEach
<1>2. rows = {i \in DOMAIN events : events[i].tenant = t}
  BY <1>1
<1>3. h \in IF rows = {} THEN {GENESIS} ELSE Newest(events, rows)
  BY <1>2 DEF LatestOfTenant
<1>4. CASE rows = {}
  BY <1>3, <1>4 DEF LastIn
<1>5. CASE rows # {}
  <2> HIDE DEF rows
  <2>1. h \in Newest(events, rows)
    BY <1>3, <1>5
  <2>2. QED
    BY <1>5, <2>1, NewestIsLast DEF rows, SInv
<1>6. QED
  BY <1>4, <1>5

\* The writer in flight does a step of its own.
LEMMA HolderStep ==
  ASSUME IInv, SInv, NEW w \in Writers, InFlight \subseteq {w}, NEW new, NEW s,
         s # "inserted" => new.at = 0,
         s # "idle" => Target(new) /\ LastIn(events, new.tenant, new.loan, new.prev),
         s = "inserted" => \A i \in DOMAIN events : events[i].at < new.at,
         row' = [row EXCEPT ![w] = new], stage' = [stage EXCEPT ![w] = s],
         UNCHANGED events
  PROVE  SInv'
<1>1. /\ \A v \in Writers \ {w} : row'[v] = row[v] /\ stage'[v] = stage[v]
      /\ row'[w] = new /\ stage'[w] = s
  BY DEF IInv, TypeOK
<1>2. InFlight' \subseteq {w}
  BY <1>1 DEF InFlight
<1>3. OneWriter'
  BY <1>2 DEF OneWriter
<1>4. NewestHeld'
  <2> SUFFICES ASSUME NEW v \in Writers
               PROVE  /\ stage'[v] # "inserted" => row'[v].at = 0
                      /\ stage'[v] # "idle" =>
                           /\ Target(row'[v])
                           /\ LastIn(events', row'[v].tenant, row'[v].loan, row'[v].prev)
                      /\ stage'[v] = "inserted" =>
                           \A i \in DOMAIN events' : events'[i].at < row'[v].at
    BY DEF NewestHeld, Target, LastIn
  <2>1. CASE v = w
    BY <1>1, <2>1
  <2>2. CASE v # w
    BY <1>1, <2>2 DEF SInv, NewestHeld
  <2>3. QED
    BY <2>1, <2>2
<1>5. StampsIncrease' /\ LinkedToLast' /\ \A i \in DOMAIN events' : Target(events'[i])
  BY DEF SInv, StampsIncrease, LinkedToLast, Key
<1>6. QED
  BY <1>3, <1>4, <1>5 DEF SInv, Target

\* What is in flight is the writer that takes a step.
LEMMA FlightIsOwn ==
  ASSUME Serial, SInv, NEW w \in Writers, Start(w) \/ stage[w] # "idle"
  PROVE  InFlight \subseteq {w}
  BY StartsAlone DEF SInv, OneWriter, InFlight

LEMMA FindLatestSerial ==
  ASSUME Serial, IInv, SInv, NEW w \in Writers, NEW target \in ApiTargets,
         findLatest(w, target[1], target[2])
  PROVE  SInv'
<1>1. PICK h \in LatestOfTenant(events, target[1]) :
        row' = [row EXCEPT ![w] =
                  [tenant |-> target[1], loan |-> target[2], prev |-> h, at |-> 0]]
  BY DEF findLatest
<1> DEFINE new == [tenant |-> target[1], loan |-> target[2], prev |-> h, at |-> 0]
<1>2. LastIn(events, new.tenant, new.loan, new.prev)
  BY LatestIsLast DEF IInv
<1>3. target = <<target[1], target[2]>>
  BY AuditTrailAssumption
<1>4. Target(new) /\ new.at = 0
  BY <1>3 DEF Target
<1>5. InFlight \subseteq {w}
  BY FlightIsOwn DEF findLatest
<1>6. row' = [row EXCEPT ![w] = new] /\ stage' = [stage EXCEPT ![w] = "linked"] /\ events' = events
  BY <1>1 DEF findLatest
<1> HIDE DEF new
<1>7. QED
  BY <1>2, <1>4, <1>5, <1>6, HolderStep

LEMMA InsertSerial ==
  ASSUME Serial, IInv, SInv, NEW w \in Writers, InFlight \subseteq {w}, NEW t, NEW n, NEW prev,
         <<t, n>> \in ApiTargets \cup SqlTargets,
         prev # GENESIS => LastIn(events, t, n, prev),
         Insert(w, t, n, prev)
  PROVE  SInv'
<1>1. PICK s \in LastStamp, d \in StampSteps, p \in TriggerPrev(events, t, n, prev) :
        row' = [row EXCEPT ![w] = [tenant |-> t, loan |-> n, prev |-> p, at |-> s + d]]
  BY DEF Insert
<1> DEFINE new == [tenant |-> t, loan |-> n, prev |-> p, at |-> s + d]
<1>2. LastIn(events, new.tenant, new.loan, new.prev)
  BY TriggerIsLast DEF IInv, SInv
<1>3. Target(new)
  BY DEF Target
<1>4. \A i \in DOMAIN events : events[i].at < new.at
  <2>1. \A i \in DOMAIN events : events[i] \in EventRow
    BY DEF IInv, TypeOK
  <2>2. \A i \in DOMAIN events : events[i].at \in Nat
    BY <2>1 DEF EventRow
  <2>3. s \in Nat
    BY <2>2 DEF IInv, TypeOK, LastStamp, EventRow, NoRow
  <2>4. \A i \in DOMAIN events : events[i].at <= s
    BY DEF LastStamp
  <2>5. d = 1
    BY DEF Serial
  <2>6. QED
    BY <2>2, <2>3, <2>4, <2>5
<1>5. row' = [row EXCEPT ![w] = new] /\ stage' = [stage EXCEPT ![w] = "inserted"]
      /\ events' = events
  BY <1>1 DEF Insert
<1> HIDE DEF new
<1>6. QED
  BY <1>2, <1>3, <1>4, <1>5, HolderStep

LEMMA CommitSerial ==
  ASSUME Serial, IInv, SInv, NEW w \in Writers, Commit(w)
  PROVE  SInv'
<1>1. /\ events \in Seq(EventRow) /\ row[w] \in EventRow
      /\ events' = Append(events, row[w])
      /\ row' = [row EXCEPT ![w] = NoRow]
      /\ stage' = [stage EXCEPT ![w] = "idle"] /\ stage[w] = "inserted"
  BY DEF IInv, TypeOK, Commit, RowsHold
<1> DEFINE new == Len(events) + 1
<1>2. /\ DOMAIN events = 1..Len(events) /\ Len(events) \in Nat
      /\ DOMAIN events' = 1..new
      /\ \A i \in 1..Len(events) : events'[i] = events[i]
      /\ events'[new] = row[w]
  BY <1>1
<1>3. /\ Target(row[w]) /\ LastIn(events, row[w].tenant, row[w].loan, row[w].prev)
      /\ \A i \in DOMAIN events : events[i].at < row[w].at
  BY <1>1 DEF SInv, NewestHeld
<1>4. \A v \in Writers : stage'[v] = "idle" /\ row'[v].at = 0
  <2>1. InFlight \subseteq {w}
    BY <1>1, FlightIsOwn
  <2>2. \A v \in Writers \ {w} : stage[v] = "idle"
    BY <2>1 DEF InFlight
  <2>3. QED
    BY <1>1, <2>2 DEF SInv, NewestHeld, IInv, TypeOK, NoRow
<1>5. OneWriter' /\ NewestHeld'
  BY <1>4 DEF OneWriter, NewestHeld, InFlight
<1>6. StampsIncrease'
  <2> SUFFICES ASSUME NEW i \in 1..new, NEW j \in 1..new, i < j
               PROVE  events'[i].at < events'[j].at
    BY <1>2 DEF StampsIncrease
  <2>1. i \in 1..Len(events) /\ (j = new \/ j \in 1..Len(events))
    BY <1>2
  <2>2. QED
    BY <1>2, <1>3, <2>1 DEF SInv, StampsIncrease
<1>7. ASSUME NEW i \in 1..new PROVE Target(events'[i])
  <2>1. i = new \/ i \in 1..Len(events)
    BY <1>2
  <2>2. QED
    BY <1>2, <1>3, <2>1 DEF SInv
<1>8. ASSUME NEW i \in 1..new
      PROVE  LET earlier == {j \in 1..(i - 1) : Key(j)' = Key(i)'}
             IN  IF earlier = {} THEN events'[i].prev = GENESIS
                 ELSE events'[i].prev \in earlier /\ \A k \in earlier : k <= events'[i].prev
  <2>1. CASE i = new
    <3>1. {j \in 1..(i - 1) : Key(j)' = Key(i)'} =
            {j \in DOMAIN events : events[j].tenant = row[w].tenant /\ events[j].loan = row[w].loan}
      BY <1>2, <2>1 DEF Key
    <3>2. QED
      BY <1>2, <1>3, <2>1, <3>1 DEF LastIn
  <2>2. CASE i \in 1..Len(events)
    <3>1. \A j \in 1..(i - 1) : j \in 1..Len(events)
      BY <1>2, <2>2
    <3>2. {j \in 1..(i - 1) : Key(j)' = Key(i)'} = {j \in 1..(i - 1) : Key(j) = Key(i)}
      BY <1>2, <2>2, <3>1 DEF Key
    <3>3. events'[i].prev = events[i].prev
      BY <1>2, <2>2
    <3>4. QED
      BY <1>2, <2>2, <3>2, <3>3 DEF SInv, LinkedToLast
  <2>3. QED
    BY <1>2, <2>1, <2>2
<1>9. LinkedToLast'
  BY <1>2, <1>8 DEF LinkedToLast
<1>10. QED
  BY <1>2, <1>5, <1>6, <1>7, <1>9 DEF SInv

LEMMA StepSerial == Serial /\ IInv /\ SInv /\ [Next]_vars => SInv'
<1> SUFFICES ASSUME Serial, IInv, SInv, [Next]_vars PROVE SInv'
  OBVIOUS
<1>1. ASSUME NEW w \in ApiWriters, NEW target \in ApiTargets, findLatest(w, target[1], target[2])
      PROVE  SInv'
  BY <1>1, FindLatestSerial DEF Writers
<1>2. ASSUME NEW w \in ApiWriters, createEvent(w) PROVE SInv'
  <2>1. /\ w \in Writers /\ stage[w] = "linked"
        /\ Insert(w, row[w].tenant, row[w].loan, row[w].prev)
    BY <1>2 DEF createEvent, Writers
  <2>2. /\ <<row[w].tenant, row[w].loan>> \in ApiTargets \cup SqlTargets
        /\ LastIn(events, row[w].tenant, row[w].loan, row[w].prev)
    BY <2>1 DEF SInv, NewestHeld, Target
  <2>3. InFlight \subseteq {w}
    BY <2>1, FlightIsOwn
  <2>4. QED
    BY <2>1, <2>2, <2>3, InsertSerial
<1>3. ASSUME NEW w \in SqlWriters, NEW target \in SqlTargets, sqlInsert(w, target[1], target[2])
      PROVE  SInv'
  <2>1. /\ w \in Writers /\ Start(w) /\ Insert(w, target[1], target[2], GENESIS)
    BY <1>3 DEF sqlInsert, Writers
  <2>2. <<target[1], target[2]>> \in ApiTargets \cup SqlTargets
    <3>1. target = <<target[1], target[2]>>
      BY AuditTrailAssumption
    <3>2. QED
      BY <3>1
  <2>3. InFlight \subseteq {w}
    BY <2>1, FlightIsOwn
  <2>4. QED
    BY <2>1, <2>2, <2>3, InsertSerial
<1>4. ASSUME NEW w \in Writers, Abandon(w) PROVE SInv'
  <2>1. InFlight \subseteq {w}
    BY <1>4, FlightIsOwn DEF Abandon
  <2>2. NoRow.at = 0
    BY DEF NoRow
  <2>3. QED
    BY <1>4, <2>1, <2>2, HolderStep DEF Abandon
<1>5. ASSUME UNCHANGED <<events, stage, row>> PROVE SInv'
  BY <1>5 DEF SInv, StampsIncrease, OneWriter, InFlight, NewestHeld, Target, LastIn,
              LinkedToLast, Key
<1>6. VerifyM1 \/ VerifyPrisma => UNCHANGED <<events, stage, row>>
  BY DEF VerifyM1, VerifyPrisma, Store
<1>7. UNCHANGED vars => UNCHANGED <<events, stage, row>>
  BY DEF vars
<1>8. QED
  BY <1>1, <1>2, <1>3, <1>4, <1>5, <1>6, <1>7, CommitSerial DEF Next

LEMMA SerialInvariance ==
  ASSUME Serial
  PROVE  Spec => [](IInv /\ SInv)
<1>1. Init => IInv /\ SInv
  BY InitIInv, InitSerial
<1>2. IInv /\ SInv /\ [Next]_vars => (IInv /\ SInv)'
  BY NextKeepsIInv, StepSerial
<1>3. QED
  BY <1>1, <1>2, PTL DEF Spec

LEMMA LineIsLinear == TypeOK /\ LinkedToLast => ChainIsLinear
<1> SUFFICES ASSUME TypeOK, LinkedToLast, NEW i \in DOMAIN events
             PROVE  LET earlier == {j \in 1..(i - 1) : Key(j) = Key(i)}
                    IN  events[i].prev = IF earlier = {} THEN GENESIS
                          ELSE CHOOSE j \in earlier : \A k \in earlier : k <= j
  BY DEF ChainIsLinear
<1> DEFINE earlier == {j \in 1..(i - 1) : Key(j) = Key(i)}
<1>1. IF earlier = {} THEN events[i].prev = GENESIS
      ELSE events[i].prev \in earlier /\ \A k \in earlier : k <= events[i].prev
  BY DEF LinkedToLast
<1>2. earlier \subseteq Int
  OBVIOUS
<1> HIDE DEF earlier
<1>3. ASSUME earlier # {}
      PROVE  events[i].prev = CHOOSE j \in earlier : \A k \in earlier : k <= j
  <2> DEFINE last == CHOOSE j \in earlier : \A k \in earlier : k <= j
  <2>1. last \in earlier /\ \A k \in earlier : k <= last
    BY <1>1, <1>3
  <2> HIDE DEF last
  <2>2. events[i].prev \in earlier /\ \A k \in earlier : k <= events[i].prev
    BY <1>1, <1>3
  <2>3. events[i].prev <= last /\ last <= events[i].prev
    BY <2>1, <2>2
  <2>4. events[i].prev \in Int /\ last \in Int
    BY <1>2, <2>1, <2>2
  <2>5. events[i].prev = last
    BY <2>3, <2>4
  <2>6. QED
    BY <2>5 DEF last
<1>4. QED
  BY <1>1, <1>3 DEF earlier

\* Writers that do not overlap, in distinct milliseconds, leave the rows of a tenant and
\* loan in one line, if the API writes for one loan of a tenant (recordEvent and the
\* trigger app.event_hash_chain).
THEOREM ChainLinear ==
  ASSUME Serial
  PROVE  Spec => []ChainIsLinear
<1>1. IInv /\ SInv => ChainIsLinear
  BY LineIsLinear DEF IInv, SInv
<1>2. QED
  BY <1>1, SerialInvariance, PTL
-----------------------------------------------------------------------------
(* Verifying what writers one at a time have left *)

LEMMA RowsTyped ==
  ASSUME TypeOK, NEW i \in DOMAIN events
  PROVE  /\ i \in Nat /\ events[i].tenant \in Nat /\ events[i].loan \in Nat
         /\ events[i].at \in Nat
<1>1. events[i] \in EventRow /\ i \in Nat
  BY DEF TypeOK
<1>2. QED
  BY <1>1, AuditTrailAssumption DEF EventRow

LEMMA WindowIsFinite ==
  ASSUME TypeOK, NEW window
  PROVE  LET rows == {j \in DOMAIN events : window[1] <= events[j].at /\ events[j].at <= window[2]}
         IN  IsFiniteSet(rows) /\ Cardinality(rows) \in Nat
<1>1. IsFiniteSet(DOMAIN events)
  BY FS_Interval DEF TypeOK
<1>2. QED
  BY <1>1, FS_Subset, FS_CardinalityType

\* A scan meets every row of its window.
LEMMA ScanMeetsAll ==
  ASSUME TypeOK, NEW window, NEW s \in Scans(window), NEW i \in DOMAIN events,
         window[1] <= events[i].at, events[i].at <= window[2]
  PROVE  \E m \in DOMAIN s : s[m] = i
<1> DEFINE rows == {j \in DOMAIN events : window[1] <= events[j].at /\ events[j].at <= window[2]}
           n == Cardinality(rows)
<1>1. IsFiniteSet(rows)
  BY WindowIsFinite
<1>2. n \in Nat
  BY WindowIsFinite
<1>3. s \in [1..n -> rows] /\ \A j, k \in DOMAIN s : s[j] = s[k] => j = k
  BY DEF Scans
<1>4. i \in rows
  OBVIOUS
<1>5. Cardinality(1..n) = n
  BY <1>2, FS_Interval
<1>6. Cardinality(rows) = n
  OBVIOUS
<1> HIDE DEF rows, n
<1>7. s \in Injection(1..n, rows)
  BY <1>3 DEF Injection, IsInjective
<1>8. s \in Surjection(1..n, rows)
  BY <1>1, <1>5, <1>6, <1>7, FS_Injection
<1>9. QED
  BY <1>3, <1>4, <1>8 DEF Surjection

\* If rows are met between two of one key, they are of that key and of a time between.
LEMMA KeysAreContiguous ==
  ASSUME TypeOK, NEW p \in DOMAIN events, NEW q \in DOMAIN events, NEW r \in DOMAIN events,
         Key(p) = Key(r), ~Before(q, p), ~Before(r, q)
  PROVE  Key(q) = Key(r) /\ events[p].at <= events[q].at /\ events[q].at <= events[r].at
<1>1. /\ events[p].tenant = events[r].tenant /\ events[p].loan = events[r].loan
      /\ ~(events[q].tenant < events[p].tenant) /\ ~(events[r].tenant < events[q].tenant)
  BY DEF Key, Before
<1>2. /\ events[p].tenant \in Nat /\ events[q].tenant \in Nat
      /\ events[p].loan \in Nat /\ events[q].loan \in Nat
      /\ events[p].at \in Nat /\ events[q].at \in Nat /\ events[r].at \in Nat
  BY RowsTyped
<1>3. events[q].tenant = events[r].tenant
  BY <1>1, <1>2
<1>4. ~LoanBefore(events[q].loan, events[p].loan) /\ ~LoanBefore(events[p].loan, events[q].loan)
  BY <1>1, <1>3 DEF Before
<1>5. events[q].loan = events[r].loan
  BY <1>1, <1>2, <1>4 DEF LoanBefore
<1>6. Key(q) = Key(r) /\ Key(q) = Key(p)
  BY <1>1, <1>3, <1>5 DEF Key
<1>7. ~(events[q].at < events[p].at) /\ ~(events[r].at < events[q].at)
  BY <1>6 DEF Before
<1>8. QED
  BY <1>2, <1>6, <1>7

\* In a table of lines a scan meets the predecessor of a row just before the row, unless
\* it is older than the window.
LEMMA PredecessorIsNext ==
  ASSUME TypeOK, StampsIncrease, LinkedToLast, NEW window \in Nat \X Nat,
         NEW s \in Scans(window), NEW k \in DOMAIN s,
         events[s[k]].prev # GENESIS, ~(events[events[s[k]].prev].at < window[1])
  PROVE  k > 1 /\ k - 1 \in DOMAIN s /\ s[k - 1] = events[s[k]].prev
                /\ Key(s[k - 1]) = Key(s[k])
<1> DEFINE r == s[k]
           p == events[r].prev
           rows == {j \in DOMAIN events : window[1] <= events[j].at /\ events[j].at <= window[2]}
<1>1. /\ s \in [1..Cardinality(rows) -> rows] /\ DOMAIN s = 1..Cardinality(rows)
      /\ \A j, m \in DOMAIN s : s[j] = s[m] => j = m
      /\ \A j, m \in DOMAIN s : j < m => ~Before(s[m], s[j])
  BY DEF Scans
<1>2. r \in DOMAIN events /\ window[1] <= events[r].at /\ events[r].at <= window[2]
  BY <1>1
<1>3. /\ p \in 1..(r - 1) /\ Key(p) = Key(r)
      /\ \A j \in 1..(r - 1) : Key(j) = Key(r) => j <= p
  BY <1>2 DEF LinkedToLast
<1>4. DOMAIN events = 1..Len(events) /\ Len(events) \in Nat
  BY DEF TypeOK
<1>5. p \in DOMAIN events /\ p < r /\ r \in Nat /\ p \in Nat
  BY <1>2, <1>3, <1>4
<1>6. events[p].at < events[r].at
  BY <1>2, <1>5 DEF StampsIncrease
<1>7. events[p].at \in Nat /\ events[r].at \in Nat
  BY <1>2, <1>5, RowsTyped
<1>8. window[1] \in Nat /\ window[2] \in Nat
  OBVIOUS
<1>9. window[1] <= events[p].at /\ events[p].at <= window[2]
  BY <1>2, <1>6, <1>7, <1>8
<1>10. PICK m \in DOMAIN s : s[m] = p
  BY <1>5, <1>9, ScanMeetsAll
<1>11. Before(p, r)
  BY <1>3, <1>6 DEF Before
<1>12. m \in Int /\ k \in Int
  BY <1>1
<1>13. m < k
  <2>1. ~(k < m)
    BY <1>1, <1>10, <1>11
  <2>2. m # k
    BY <1>5, <1>10
  <2>3. QED
    BY <1>12, <2>1, <2>2
<1>14. k > 1 /\ k - 1 \in DOMAIN s
  <2> DEFINE n == Cardinality(rows)
  <2>1. n \in Nat
    BY WindowIsFinite
  <2>2. m \in 1..n /\ k \in 1..n /\ DOMAIN s = 1..n
    BY <1>1
  <2> HIDE DEF n
  <2>3. QED
    BY <1>13, <2>1, <2>2
<1>15. m = k - 1
  <2> SUFFICES ASSUME m < k - 1 PROVE FALSE
    BY <1>12, <1>13
  <2> DEFINE q == s[k - 1]
  <2>1. q \in DOMAIN events /\ q # p /\ q # r
    BY <1>1, <1>10, <1>12, <1>14
  <2>2. ~Before(q, p)
    BY <1>1, <1>10, <1>14
  <2>3. k - 1 < k
    BY <1>12
  <2>4. ~Before(r, q)
    BY <1>1, <1>14, <2>3
  <2> HIDE DEF q, r, p
  <2>5. Key(q) = Key(r) /\ events[p].at <= events[q].at /\ events[q].at <= events[r].at
    BY <1>2, <1>3, <1>5, <2>1, <2>2, <2>4, KeysAreContiguous
  <2>6. q \in Nat /\ events[q].at \in Nat
    BY <2>1, RowsTyped
  <2>7. ~(q < p)
    <3>1. q < p => events[q].at < events[p].at
      BY <1>5, <2>1 DEF StampsIncrease
    <3>2. QED
      BY <1>7, <2>5, <2>6, <3>1
  <2>8. ~(r < q)
    <3>1. r < q => events[r].at < events[q].at
      BY <1>2, <2>1 DEF StampsIncrease
    <3>2. QED
      BY <1>7, <2>5, <2>6, <3>1
  <2>9. p < q /\ q < r
    BY <1>5, <2>1, <2>6, <2>7, <2>8
  <2>10. q \in 1..(r - 1)
    BY <1>5, <2>6, <2>9
  <2>11. q <= p
    BY <1>3, <2>5, <2>10
  <2>12. QED
    BY <1>5, <2>6, <2>9, <2>11
<1>16. QED
  BY <1>3, <1>10, <1>14, <1>15

LEMMA CleanIfLinear ==
  ASSUME TypeOK, StampsIncrease, LinkedToLast
  PROVE  VerificationIsClean
<1> SUFFICES ASSUME NEW window \in Windows, NEW s \in Scans(window),
                    NEW k \in MismatchesM1(s) \cup MismatchesPrisma(s)
             PROVE  /\ events[s[k]].prev # GENESIS
                    /\ events[events[s[k]].prev].at < window[1]
  BY DEF VerificationIsClean
<1> DEFINE rows == {j \in DOMAIN events : window[1] <= events[j].at /\ events[j].at <= window[2]}
           n == Cardinality(rows)
<1>1. window \in Nat \X Nat
  BY AuditTrailAssumption
<1>2. /\ s \in [1..n -> rows] /\ rows \subseteq DOMAIN events
      /\ \A j, m \in DOMAIN s : s[j] = s[m] => j = m
      /\ \A j, m \in DOMAIN s : j < m => ~Before(s[m], s[j])
  BY DEF Scans
<1>3. n \in Nat
  BY WindowIsFinite
<1> HIDE DEF n, rows
<1>4. Len(s) = n /\ DOMAIN s = 1..n
  BY <1>2, <1>3
<1>5. k \in 1..n
  BY <1>3, <1>4 DEF MismatchesM1, MismatchesPrisma
<1>6. s[k] \in DOMAIN events
  BY <1>2, <1>5
\* A row that is met just after one of its key has a predecessor.
<1>7. ASSUME k > 1, Key(s[k - 1]) = Key(s[k]) PROVE events[s[k]].prev # GENESIS
  <2>1. k - 1 \in 1..n /\ k - 1 < k
    BY <1>3, <1>5, <1>7
  <2>2. s[k - 1] \in DOMAIN events /\ s[k - 1] # s[k] /\ ~Before(s[k], s[k - 1])
    BY <1>2, <1>4, <1>5, <2>1
  <2>3. /\ s[k] \in Nat /\ s[k - 1] \in Nat
        /\ events[s[k]].at \in Nat /\ events[s[k - 1]].at \in Nat
    BY <1>6, <2>2, RowsTyped
  <2>4. ~(events[s[k]].at < events[s[k - 1]].at)
    BY <1>7, <2>2 DEF Before
  <2>5. ~(s[k] < s[k - 1])
    BY <1>6, <2>2, <2>3, <2>4 DEF StampsIncrease
  <2>6. s[k - 1] \in 1..(s[k] - 1)
    <3>1. s[k - 1] >= 1
      BY <2>2 DEF TypeOK
    <3>2. QED
      BY <2>2, <2>3, <2>5, <3>1
  <2>7. events[s[k]].prev \in 1..(s[k] - 1)
    BY <1>6, <1>7, <2>6 DEF LinkedToLast
  <2>8. QED
    BY <2>3, <2>7
<1>8. events[s[k]].prev # GENESIS
  <2>1. CASE k \in MismatchesM1(s)
    BY <2>1 DEF MismatchesM1
  <2>2. CASE k \in MismatchesPrisma(s)
    BY <1>7, <2>2 DEF MismatchesPrisma
  <2>3. QED
    BY <2>1, <2>2
<1>9. ASSUME ~(events[events[s[k]].prev].at < window[1]) PROVE FALSE
  <2>1. k > 1 /\ s[k - 1] = events[s[k]].prev /\ Key(s[k - 1]) = Key(s[k])
    BY <1>1, <1>4, <1>5, <1>8, <1>9, PredecessorIsNext
  <2>2. k \notin MismatchesM1(s)
    BY <2>1 DEF MismatchesM1
  <2>3. k \notin MismatchesPrisma(s)
    BY <2>1 DEF MismatchesPrisma
  <2>4. QED
    BY <2>2, <2>3
<1>10. QED
  BY <1>8, <1>9

\* The walk of fn_verify_event_chain, as either migration defines it, over what such
\* writers have left: it reports only rows that follow one older than the window.
THEOREM VerificationClean ==
  ASSUME Serial
  PROVE  Spec => []VerificationIsClean
<1>1. IInv /\ SInv => VerificationIsClean
  BY CleanIfLinear DEF IInv, SInv
<1>2. QED
  BY <1>1, SerialInvariance, PTL
=============================================================================
