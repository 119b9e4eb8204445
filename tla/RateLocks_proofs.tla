-------------------------- MODULE RateLocks_proofs --------------------------
(***************************************************************************)
(* Proofs about RateLocks for every number of requests, locks and tenants. *)
(***************************************************************************)
EXTENDS RateLocks, FiniteSetTheorems, TLAPS

\* What recordEvent reads and what the trigger stores are positions.
LEMMA LatestType ==
  ASSUME NEW evs, DOMAIN evs \subseteq Nat, NEW t
  PROVE  LatestOfTenant(evs, t) \subseteq Nat
  BY DEF LatestOfTenant, Newest, GENESIS

LEMMA TriggerPrevType ==
  ASSUME NEW evs, DOMAIN evs \subseteq Nat, NEW t, NEW n, NEW prev \in Nat
  PROVE  TriggerPrev(evs, t, n, prev) \subseteq Nat
  BY DEF TriggerPrev, Newest, GENESIS

\* An insert appends one row of the given content and changes no other row.
LEMMA AppendedRow ==
  ASSUME NEW evs \in Seq(EventRow), NEW prev \in Nat,
         NEW row \in [tenant : Tenants, loan : Loans, subject : LockIds,
                      type : {EventType[op] : op \in Ops}, by : Requests],
         NEW evs2 \in Appended(evs, row, prev)
  PROVE  \E e \in EventRow :
           /\ evs2 = Append(evs, e)
           /\ e.tenant = row.tenant /\ e.loan = row.loan /\ e.subject = row.subject
           /\ e.type = row.type /\ e.by = row.by
<1>1. PICK p \in TriggerPrev(evs, row.tenant, row.loan, prev), d \in StampSteps :
        evs2 = Append(evs, [tenant |-> row.tenant, loan |-> row.loan,
                 subject |-> row.subject, type |-> row.type, by |-> row.by, prev |-> p,
                 at |-> (IF evs = <<>> THEN 0 ELSE evs[Len(evs)].at) + d])
  BY DEF Appended
<1>2. p \in Nat
  BY TriggerPrevType
<1>3. (IF evs = <<>> THEN 0 ELSE evs[Len(evs)].at) \in Nat
  <2>1. CASE evs = <<>>
    BY <2>1
  <2>2. CASE evs # <<>>
    <3>1. Len(evs) \in DOMAIN evs
      BY <2>2
    <3>2. evs[Len(evs)] \in EventRow
      BY <3>1
    <3>3. QED
      BY <2>2, <3>2 DEF EventRow
  <2>3. QED
    BY <2>1, <2>2
<1>4. d \in Nat
  BY StampStepsAssumption
<1>5. QED
  BY <1>1, <1>2, <1>3, <1>4 DEF EventRow

-----------------------------------------------------------------------------
(* The inductive invariant *)

StartsWithCreate(h) == h # <<>> /\ h[1].type = "create"

\* What a request under way relies on: the lock it works on exists and belongs
\* to its tenant, and its snapshot is an older state of that lock whose history
\* was genuine.
RequestsAreSound ==
  \A r \in Requests :
    /\ phase[r] # "idle" => call[r] \in Call
    /\ phase[r] \in {"found", "written", "linked", "done"} =>
         /\ rateLock[call[r].lock] \in Row
         /\ rateLock[call[r].lock].tenant = call[r].tenant
    /\ phase[r] = "found" =>
         /\ call[r].op # "create" /\ Permitted(call[r])
         /\ snapshot[r] \in Row
         /\ StartsWithCreate(snapshot[r].actions)
         /\ Genuine(snapshot[r].actions, call[r].lock, call[r].tenant)

\* Exactly the finished requests have an event, one each.
LedgerIsSound ==
  /\ \A r \in Requests : phase[r] = "done" =>
       \E i \in DOMAIN events :
         /\ events[i].by = r /\ events[i].subject = call[r].lock
         /\ events[i].tenant = call[r].tenant
         /\ events[i].type = EventType[call[r].op]
  /\ \A i \in DOMAIN events :
       /\ phase[events[i].by] = "done"
       /\ \A j \in DOMAIN events : events[j].by = events[i].by => i = j

IInv ==
  /\ TypeOK
  /\ RequestsAreSound
  /\ StatusFollowsHistory
  /\ HistoryIsGenuine
  /\ LedgerIsSound

LEMMA InitIInv == Init => IInv
<1> SUFFICES ASSUME Init PROVE IInv
  OBVIOUS
<1>1. TypeOK
  BY DEF Init, TypeOK, GENESIS
<1>2. RequestsAreSound /\ LedgerIsSound
  BY DEF Init, RequestsAreSound, LedgerIsSound
<1>3. StatusFollowsHistory /\ HistoryIsGenuine
  BY DEF Init, StatusFollowsHistory, HistoryIsGenuine, Existing
<1>4. QED
  BY <1>1, <1>2, <1>3 DEF IInv

\* A genuine history stays genuine while the requests behind it keep what they
\* asked for and stay saved.
LEMMA GenuineStable ==
  ASSUME NEW h, NEW l, NEW t, Genuine(h, l, t),
         Saved \subseteq Saved', \A q \in Saved : call'[q] = call[q]
  PROVE  Genuine(h, l, t)'
  BY DEF Genuine, Permitted

\* Steps that finish no request leave the ledger sound.
LEMMA LedgerStable ==
  ASSUME TypeOK, LedgerIsSound, UNCHANGED events,
         \A q \in Requests : phase'[q] = "done" <=> phase[q] = "done",
         \A q \in Requests : phase[q] = "done" => call'[q] = call[q]
  PROVE  LedgerIsSound'
<1>1. \A i \in DOMAIN events : events[i].by \in Requests
  <2>1. \A i \in DOMAIN events : events[i] \in EventRow
    BY DEF TypeOK
  <2>2. QED
    BY <2>1 DEF EventRow
<1>2. \A q \in Requests : phase'[q] = "done" =>
        \E i \in DOMAIN events :
          /\ events[i].by = q /\ events[i].subject = call'[q].lock
          /\ events[i].tenant = call'[q].tenant
          /\ events[i].type = EventType[call'[q].op]
  BY DEF LedgerIsSound
<1>3. \A i \in DOMAIN events :
        /\ phase'[events[i].by] = "done"
        /\ \A j \in DOMAIN events : events[j].by = events[i].by => i = j
  BY <1>1 DEF LedgerIsSound
<1>4. QED
  BY <1>2, <1>3 DEF LedgerIsSound, EventType

\* Creation puts a new row under an unused id; no other request works on it.
LEMMA CreateKeepsIInv ==
  ASSUME IInv, NEW r \in Requests, NEW t \in Tenants, NEW l \in LockIds,
         NEW n \in Loans, NEW p \in Periods, createLock(r, t, l, n, p)
  PROVE  IInv'
<1> DEFINE c == [op |-> "create", tenant |-> t, lock |-> l, days |-> 0, scoped |-> FALSE]
           h == <<[type |-> "create", by |-> r]>>
           new == [tenant |-> t, loan |-> n, status |-> "locked", expiresAt |-> p,
                   lockPeriodDays |-> p, price |-> 0, actions |-> h]
<1>1. /\ phase[r] = "idle" /\ rateLock[l] = NoLock
      /\ rateLock' = [rateLock EXCEPT ![l] = new]
      /\ call' = [call EXCEPT ![r] = c]
      /\ phase' = [phase EXCEPT ![r] = "written"]
      /\ UNCHANGED <<snapshot, prevHash, events>>
  BY DEF createLock, Arrive, appendAction
<1>2. c \in Call
  BY DEF Call, Ops
<1>3. new \in Row /\ new # NoLock
  <2>1. h \in Seq(Entry)
    BY DEF Entry, Ops
  <2>2. p \in Nat
    BY RateLocksAssumption
  <2>3. new \in Row
    BY <2>1, <2>2 DEF Row, Statuses
  <2>4. QED
    BY <2>3, NullAssumption
<1>4. Saved \subseteq Saved' /\ \A q \in Saved : call'[q] = call[q]
  BY <1>1 DEF Saved, IInv, TypeOK
<1>5. TypeOK'
  BY <1>1, <1>2, <1>3 DEF IInv, TypeOK
<1>6. RequestsAreSound'
  <2>1. ASSUME NEW q \in Requests, q # r, phase[q] = "found"
        PROVE  Genuine(snapshot[q].actions, call[q].lock, call[q].tenant)'
    BY <1>1, <1>4, <2>1, GenuineStable DEF IInv, RequestsAreSound, TypeOK
  <2>2. \A q \in Requests : phase[q] \in {"found", "written", "linked", "done"}
                            => rateLock[call[q].lock] # NoLock
    BY NullAssumption DEF IInv, RequestsAreSound
  <2>3. QED
    BY <1>1, <1>2, <1>3, <2>1, <2>2
    DEF IInv, RequestsAreSound, TypeOK, StartsWithCreate, Permitted, Call
<1>7. StatusFollowsHistory'
  BY <1>1, <1>3 DEF IInv, TypeOK, StatusFollowsHistory, Existing, StatusAfter, Ops
<1>8. HistoryIsGenuine'
  <2>1. Genuine(h, l, t)'
    BY <1>1 DEF Genuine, Saved, IInv, TypeOK, Permitted
  <2>2. ASSUME NEW k \in LockIds, k # l, rateLock[k] # NoLock
        PROVE  Genuine(rateLock[k].actions, k, rateLock[k].tenant)'
    BY <1>1, <1>4, <2>2, GenuineStable DEF IInv, HistoryIsGenuine, Existing, TypeOK
  <2>3. QED
    BY <1>1, <2>1, <2>2 DEF IInv, TypeOK, HistoryIsGenuine, Existing
<1>9. LedgerIsSound'
  BY <1>1, LedgerStable DEF IInv, TypeOK
<1>10. QED
  BY <1>5, <1>6, <1>7, <1>8, <1>9 DEF IInv

\* The read that opens a request takes its snapshot from a genuine row.
LEMMA FindKeepsIInv ==
  ASSUME IInv, NEW r \in Requests, NEW c \in Requested, FindLock(r, c) \/ Refuse(r, c)
  PROVE  IInv'
<1>1. /\ phase[r] = "idle"
      /\ call' = [call EXCEPT ![r] = c]
      /\ UNCHANGED <<rateLock, prevHash, events>>
      /\ \/ /\ Permitted(c) /\ rateLock[c.lock] # NoLock
            /\ rateLock[c.lock].tenant = c.tenant
            /\ snapshot' = [snapshot EXCEPT ![r] = rateLock[c.lock]]
            /\ phase' = [phase EXCEPT ![r] = "found"]
         \/ /\ UNCHANGED snapshot
            /\ phase' = [phase EXCEPT ![r] = "refused"]
  BY DEF FindLock, Refuse, Arrive, Visible
<1>2. c \in Call /\ c.op # "create" /\ c.lock \in LockIds
  BY DEF Requested, Call
<1>3. Saved \subseteq Saved' /\ \A q \in Saved : call'[q] = call[q]
  BY <1>1 DEF Saved, IInv, TypeOK
<1>4. TypeOK'
  BY <1>1, <1>2 DEF IInv, TypeOK
<1>5. RequestsAreSound'
  <2>1. ASSUME NEW q \in Requests, q # r, phase[q] = "found"
        PROVE  Genuine(snapshot[q].actions, call[q].lock, call[q].tenant)'
    BY <1>1, <1>3, <2>1, GenuineStable DEF IInv, RequestsAreSound, TypeOK
  <2>2. ASSUME rateLock[c.lock] # NoLock
        PROVE  /\ StartsWithCreate(rateLock[c.lock].actions)
               /\ Genuine(rateLock[c.lock].actions, c.lock, rateLock[c.lock].tenant)'
    <3>1. Genuine(rateLock[c.lock].actions, c.lock, rateLock[c.lock].tenant)
      BY <1>2, <2>2 DEF IInv, HistoryIsGenuine, Existing
    <3>2. QED
      BY <1>1, <1>2, <1>3, <2>2, <3>1, GenuineStable
      DEF IInv, StatusFollowsHistory, Existing, StartsWithCreate
  <2>3. rateLock[c.lock] # NoLock => rateLock[c.lock] \in Row
    BY <1>2 DEF IInv, TypeOK
  <2>4. QED
    BY <1>1, <1>2, <2>1, <2>2, <2>3
    DEF IInv, RequestsAreSound, TypeOK, Permitted, StartsWithCreate
<1>6. StatusFollowsHistory'
  BY <1>1 DEF IInv, StatusFollowsHistory, Existing
<1>7. HistoryIsGenuine'
  BY <1>1, <1>3, GenuineStable DEF IInv, HistoryIsGenuine, Existing
<1>8. LedgerIsSound'
  BY <1>1, LedgerStable DEF IInv, TypeOK
<1>9. QED
  BY <1>4, <1>5, <1>6, <1>7, <1>8 DEF IInv

\* A save writes a genuine history back: the snapshot's and its own entry.
LEMMA UpdateKeepsIInv ==
  ASSUME IInv, NEW r \in Requests, NEW op \in Ops \ {"create"}, NEW row,
         Update(r, op, row),
         phase[r] = "found" =>
           row \in Row /\ row.tenant = rateLock[call[r].lock].tenant
  PROVE  IInv'
<1> DEFINE l == call[r].lock
           e == [type |-> op, by |-> r]
           h == Append(snapshot[r].actions, e)
           new == [row EXCEPT !.status = StatusAfter[op], !.actions = h]
<1>1. /\ phase[r] = "found" /\ call[r].op = op
      /\ rateLock' = [rateLock EXCEPT ![l] = new]
      /\ phase' = [phase EXCEPT ![r] = "written"]
      /\ UNCHANGED <<call, snapshot, prevHash, events>>
  BY DEF Update, appendAction
<1>2. /\ call[r] \in Call /\ l \in LockIds
      /\ rateLock[l] \in Row /\ rateLock[l].tenant = call[r].tenant
      /\ Permitted(call[r])
      /\ snapshot[r] \in Row
      /\ StartsWithCreate(snapshot[r].actions)
      /\ Genuine(snapshot[r].actions, l, call[r].tenant)
  BY <1>1 DEF IInv, RequestsAreSound, Call
<1>3. snapshot[r].actions \in Seq(Entry) /\ e \in Entry /\ h \in Seq(Entry)
  BY <1>2 DEF Row, Entry
<1>4. /\ new \in Row /\ new # NoLock
      /\ new.tenant = call[r].tenant /\ new.status = StatusAfter[op] /\ new.actions = h
  <2>1. row \in Row
    BY <1>1
  <2>2. StatusAfter[op] \in Statuses
    BY DEF StatusAfter, Ops, Statuses
  <2>3. new \in Row /\ new.tenant = row.tenant
          /\ new.status = StatusAfter[op] /\ new.actions = h
    BY <1>3, <2>1, <2>2 DEF Row
  <2>4. QED
    BY <1>1, <1>2, <2>3, NullAssumption
<1>5. Saved \subseteq Saved' /\ \A q \in Saved : call'[q] = call[q]
  BY <1>1 DEF Saved, IInv, TypeOK
<1>6. StartsWithCreate(h) /\ h[Len(h)].type = op
  BY <1>2, <1>3 DEF StartsWithCreate
<1>7. Genuine(h, l, call[r].tenant)'
  <2>1. r \notin Saved /\ r \in Saved'
    BY <1>1 DEF Saved, IInv, TypeOK
  <2>2. Genuine(snapshot[r].actions, l, call[r].tenant)'
    BY <1>1, <1>2, <1>5, GenuineStable
  <2>3. \A k \in DOMAIN h :
          \/ k \in DOMAIN snapshot[r].actions /\ h[k] = snapshot[r].actions[k]
          \/ k = Len(h) /\ h[k] = e
    BY <1>3
  <2>4. \A k \in DOMAIN snapshot[r].actions : snapshot[r].actions[k].by \in Saved
    BY <1>2 DEF Genuine
  <2>5. \A k \in DOMAIN h :
          /\ h[k].by \in Saved'
          /\ call'[h[k].by].op = h[k].type /\ call'[h[k].by].lock = l
          /\ call'[h[k].by].tenant = call[r].tenant
          /\ Permitted(call'[h[k].by])
    <3>1. ASSUME NEW k \in DOMAIN snapshot[r].actions
          PROVE  LET a == snapshot[r].actions[k]
                 IN  /\ a.by \in Saved'
                     /\ call'[a.by].op = a.type /\ call'[a.by].lock = l
                     /\ call'[a.by].tenant = call[r].tenant
                     /\ Permitted(call'[a.by])
      BY <1>1, <2>2 DEF Genuine, Permitted
    <3>2. /\ e.by \in Saved'
          /\ call'[e.by].op = e.type /\ call'[e.by].lock = l
          /\ call'[e.by].tenant = call[r].tenant
          /\ Permitted(call'[e.by])
      BY <1>1, <1>2, <2>1 DEF Permitted
    <3>3. QED
      BY <2>3, <3>1, <3>2
  <2>6. \A j, k \in DOMAIN h : h[j].by = h[k].by => j = k
    BY <1>2, <2>1, <2>3, <2>4 DEF Genuine
  <2>7. QED
    BY <1>1, <2>5, <2>6 DEF Genuine, Permitted
<1>8. TypeOK'
  BY <1>1, <1>2, <1>4 DEF IInv, TypeOK
<1>9. RequestsAreSound'
  <2>1. ASSUME NEW q \in Requests, q # r, phase[q] = "found"
        PROVE  Genuine(snapshot[q].actions, call[q].lock, call[q].tenant)'
    BY <1>1, <1>5, <2>1, GenuineStable DEF IInv, RequestsAreSound, TypeOK
  <2>2. QED
    BY <1>1, <1>2, <1>4, <2>1
    DEF IInv, RequestsAreSound, TypeOK, StartsWithCreate, Permitted, Call
<1>10. StatusFollowsHistory'
  BY <1>1, <1>2, <1>4, <1>6
  DEF IInv, TypeOK, StatusFollowsHistory, StartsWithCreate, Existing
<1>11. HistoryIsGenuine'
  <2>1. ASSUME NEW k \in LockIds, k # l, rateLock[k] # NoLock
        PROVE  Genuine(rateLock[k].actions, k, rateLock[k].tenant)'
    BY <1>1, <1>5, <2>1, GenuineStable DEF IInv, HistoryIsGenuine, Existing, TypeOK
  <2>2. QED
    BY <1>1, <1>2, <1>4, <1>7, <2>1 DEF IInv, TypeOK, HistoryIsGenuine, Existing
<1>12. LedgerIsSound'
  BY <1>1, LedgerStable DEF IInv, TypeOK
<1>13. QED
  BY <1>8, <1>9, <1>10, <1>11, <1>12 DEF IInv

\* Steps of recordEvent, and failures, leave the locks alone.
LEMMA RequestOnlyKeepsRest ==
  ASSUME IInv, NEW r \in Requests, NEW p, r \in InFlight,
         p \in {"linked", "done", "failed"},
         p # "failed" => phase[r] # "found",
         phase' = [phase EXCEPT ![r] = p], UNCHANGED <<rateLock, call, snapshot>>
  PROVE  RequestsAreSound' /\ StatusFollowsHistory' /\ HistoryIsGenuine'
<1>1. Saved \subseteq Saved' /\ \A q \in Saved : call'[q] = call[q]
  BY DEF Saved, IInv, TypeOK
<1>2. RequestsAreSound'
  <2>1. ASSUME NEW q \in Requests, q # r, phase[q] = "found"
        PROVE  Genuine(snapshot[q].actions, call[q].lock, call[q].tenant)'
    BY <1>1, <2>1, GenuineStable DEF IInv, RequestsAreSound, TypeOK
  <2>2. QED
    BY <2>1 DEF IInv, RequestsAreSound, TypeOK, StartsWithCreate, Permitted, InFlight
<1>3. StatusFollowsHistory'
  BY DEF IInv, StatusFollowsHistory, Existing
<1>4. HistoryIsGenuine'
  BY <1>1, GenuineStable DEF IInv, HistoryIsGenuine, Existing
<1>5. QED
  BY <1>2, <1>3, <1>4

LEMMA FindLatestKeepsIInv ==
  ASSUME IInv, NEW r \in Requests, FindLatestEvent(r)
  PROVE  IInv'
<1>1. /\ phase[r] = "written"
      /\ phase' = [phase EXCEPT ![r] = "linked"]
      /\ UNCHANGED <<rateLock, call, snapshot, events>>
      /\ \E h \in LatestOfTenant(events, call[r].tenant) :
           prevHash' = [prevHash EXCEPT ![r] = h]
  BY DEF FindLatestEvent
<1>2. LatestOfTenant(events, call[r].tenant) \subseteq Nat
  <2>1. DOMAIN events \subseteq Nat
    BY DEF IInv, TypeOK
  <2>2. QED
    BY <2>1, LatestType
<1>3. TypeOK'
  BY <1>1, <1>2 DEF IInv, TypeOK
<1>4. RequestsAreSound' /\ StatusFollowsHistory' /\ HistoryIsGenuine'
  BY <1>1, RequestOnlyKeepsRest DEF InFlight
<1>5. LedgerIsSound'
  BY <1>1, LedgerStable DEF IInv, TypeOK
<1>6. QED
  BY <1>3, <1>4, <1>5 DEF IInv

LEMMA FailKeepsIInv ==
  ASSUME IInv, NEW r \in Requests, Fail(r)
  PROVE  IInv'
<1>1. /\ r \in InFlight
      /\ phase' = [phase EXCEPT ![r] = "failed"]
      /\ UNCHANGED <<rateLock, call, snapshot, prevHash, events>>
  BY DEF Fail
<1>2. TypeOK'
  BY <1>1 DEF IInv, TypeOK
<1>3. RequestsAreSound' /\ StatusFollowsHistory' /\ HistoryIsGenuine'
  BY <1>1, RequestOnlyKeepsRest
<1>4. LedgerIsSound'
  BY <1>1, LedgerStable DEF IInv, TypeOK, InFlight
<1>5. QED
  BY <1>2, <1>3, <1>4 DEF IInv

\* The insert that finishes a request adds its one event.
LEMMA CreateEventKeepsIInv ==
  ASSUME IInv, NEW r \in Requests, CreateEvent(r)
  PROVE  IInv'
<1>1. /\ phase[r] = "linked"
      /\ events' \in Appended(events, EventOf(r), prevHash[r])
      /\ phase' = [phase EXCEPT ![r] = "done"]
      /\ UNCHANGED <<rateLock, call, snapshot, prevHash>>
  BY DEF CreateEvent
<1>2. call[r] \in Call /\ rateLock[call[r].lock] \in Row
  BY <1>1 DEF IInv, RequestsAreSound
<1>3. EventOf(r) \in [tenant : Tenants, loan : Loans, subject : LockIds,
                      type : {EventType[op] : op \in Ops}, by : Requests]
  BY <1>2 DEF EventOf, Call, Row
<1>4. events \in Seq(EventRow) /\ prevHash[r] \in Nat
  BY DEF IInv, TypeOK
<1>5. PICK e \in EventRow :
        /\ events' = Append(events, e)
        /\ e.tenant = call[r].tenant /\ e.subject = call[r].lock
        /\ e.type = EventType[call[r].op] /\ e.by = r
  BY <1>1, <1>3, <1>4, AppendedRow DEF EventOf
<1>6. TypeOK'
  BY <1>1, <1>4, <1>5 DEF IInv, TypeOK
<1>7. RequestsAreSound' /\ StatusFollowsHistory' /\ HistoryIsGenuine'
  BY <1>1, RequestOnlyKeepsRest DEF InFlight
<1>8. LedgerIsSound'
  <2>1. \A i \in DOMAIN events' :
          \/ i \in DOMAIN events /\ events'[i] = events[i]
          \/ i = Len(events) + 1 /\ events'[i] = e
    BY <1>4, <1>5
  <2>2. /\ \A i \in DOMAIN events : i \in DOMAIN events' /\ events'[i] = events[i]
        /\ Len(events) + 1 \in DOMAIN events' /\ events'[Len(events) + 1] = e
        /\ Len(events) + 1 \notin DOMAIN events
    BY <1>4, <1>5
  <2>3. \A i \in DOMAIN events : events[i].by # r
    BY <1>1 DEF IInv, LedgerIsSound
  <2>4. \A i \in DOMAIN events : events[i].by \in Requests /\ phase'[events[i].by] = "done"
    <3>1. \A i \in DOMAIN events : events[i] \in EventRow
      BY <1>4
    <3>2. QED
      BY <1>1, <2>3, <3>1 DEF IInv, LedgerIsSound, TypeOK, EventRow
  <2>5. phase'[r] = "done"
    BY <1>1 DEF IInv, TypeOK
  <2>6. ASSUME NEW q \in Requests, phase'[q] = "done"
        PROVE  \E i \in DOMAIN events' :
                 /\ events'[i].by = q /\ events'[i].subject = call'[q].lock
                 /\ events'[i].tenant = call'[q].tenant
                 /\ events'[i].type = EventType[call'[q].op]
    <3>1. CASE q = r
      BY <1>1, <1>5, <2>2, <3>1
    <3>2. CASE q # r
      <4>1. phase[q] = "done"
        BY <1>1, <2>6, <3>2 DEF IInv, TypeOK
      <4>2. PICK i \in DOMAIN events :
              /\ events[i].by = q /\ events[i].subject = call[q].lock
              /\ events[i].tenant = call[q].tenant
              /\ events[i].type = EventType[call[q].op]
        BY <4>1 DEF IInv, LedgerIsSound
      <4>3. QED
        BY <1>1, <2>2, <4>2
    <3>3. QED
      BY <3>1, <3>2
  <2>7. \A i \in DOMAIN events' :
          /\ phase'[events'[i].by] = "done"
          /\ \A j \in DOMAIN events' : events'[j].by = events'[i].by => i = j
    BY <1>5, <2>1, <2>3, <2>4, <2>5 DEF IInv, LedgerIsSound
  <2>8. QED
    BY <2>6, <2>7 DEF LedgerIsSound, EventType
<1>9. QED
  BY <1>6, <1>7, <1>8 DEF IInv

LEMMA NextKeepsIInv == IInv /\ [Next]_vars => IInv'
<1> SUFFICES ASSUME IInv, [Next]_vars PROVE IInv'
  OBVIOUS
<1>1. ASSUME NEW r \in Requests, Begin(r) PROVE IInv'
  BY <1>1, CreateKeepsIInv, FindKeepsIInv DEF Begin
<1>2. ASSUME NEW r \in Requests, extendLock(r) PROVE IInv'
  <2> DEFINE row == [rateLock[call[r].lock] EXCEPT
                       !.expiresAt = snapshot[r].expiresAt + call[r].days]
  <2>1. Update(r, "extend", row)
    BY <1>2 DEF extendLock
  <2>2. phase[r] = "found" => row \in Row /\ row.tenant = rateLock[call[r].lock].tenant
    <3>1. \A d \in Days \cup {0} : d \in Nat
      BY RateLocksAssumption
    <3>2. ASSUME phase[r] = "found"
          PROVE  /\ rateLock[call[r].lock] \in Row
                 /\ snapshot[r].expiresAt \in Nat /\ call[r].days \in Nat
      <4>1. /\ call[r] \in Call
            /\ rateLock[call[r].lock] \in Row /\ snapshot[r] \in Row
        BY <3>2 DEF IInv, RequestsAreSound
      <4>2. call[r].days \in Nat
        <5>1. call[r].days \in Days \cup {0}
          BY <4>1 DEF Call
        <5>2. QED
          BY <3>1, <5>1
      <4>3. snapshot[r].expiresAt \in Nat
        BY <4>1 DEF Row
      <4>4. QED
        BY <4>1, <4>2, <4>3
    <3>3. QED
      BY <3>2 DEF Row
  <2> HIDE DEF row
  <2>3. QED
    BY <2>1, <2>2, UpdateKeepsIInv DEF Ops
<1>3. ASSUME NEW r \in Requests, floatDown(r) PROVE IInv'
  <2> DEFINE row == [rateLock[call[r].lock] EXCEPT !.price = snapshot[r].price + 1]
  <2>1. Update(r, "float_down", row)
    BY <1>3 DEF floatDown
  <2>2. phase[r] = "found" => row \in Row /\ row.tenant = rateLock[call[r].lock].tenant
    <3>1. ASSUME phase[r] = "found"
          PROVE  rateLock[call[r].lock] \in Row /\ snapshot[r].price \in Nat
      BY <3>1 DEF IInv, RequestsAreSound, Row
    <3>2. QED
      BY <3>1 DEF Row
  <2> HIDE DEF row
  <2>3. QED
    BY <2>1, <2>2, UpdateKeepsIInv DEF Ops
<1>4. ASSUME NEW r \in Requests, voidLock(r) PROVE IInv'
  <2>1. Update(r, "void", rateLock[call[r].lock])
    BY <1>4 DEF voidLock
  <2>2. phase[r] = "found" => rateLock[call[r].lock] \in Row
    BY DEF IInv, RequestsAreSound
  <2>3. QED
    BY <2>1, <2>2, UpdateKeepsIInv DEF Ops
<1>5. CASE UNCHANGED vars
  BY <1>5 DEF vars, IInv, TypeOK, RequestsAreSound, StatusFollowsHistory, HistoryIsGenuine,
              LedgerIsSound, Genuine, Saved, Existing, Permitted, StartsWithCreate
<1>6. QED
  BY <1>1, <1>2, <1>3, <1>4, <1>5, FindLatestKeepsIInv, CreateEventKeepsIInv, FailKeepsIInv
  DEF Next, Quiescent

-----------------------------------------------------------------------------
(* The invariants *)

LEMMA Invariance == Spec => []IInv
<1>1. QED
  BY InitIInv, NextKeepsIInv, PTL DEF Spec

\* The tables keep their types: in particular no handler gives a lock a status
\* that the check constraint of rate_locks refuses.
THEOREM TypeCorrect == Spec => []TypeOK
<1>1. IInv => TypeOK
  BY DEF IInv
<1>2. QED
  BY <1>1, Invariance, PTL

\* However LocksService's requests interleave and fail, the status of a lock is
\* the one its last history entry stands for.
THEOREM StatusAgrees == Spec => []StatusFollowsHistory
<1>1. IInv => StatusFollowsHistory
  BY DEF IInv
<1>2. QED
  BY <1>1, Invariance, PTL

\* No history of a lock holds an entry that its tenant's authorised requests
\* did not make, nor one entry twice.
THEOREM HistoryGenuine == Spec => []HistoryIsGenuine
<1>1. IInv => HistoryIsGenuine
  BY DEF IInv
<1>2. QED
  BY <1>1, Invariance, PTL

\* Every entry of a history whose request has finished has its event, and the
\* ledger holds nothing else about locks.
THEOREM HistoryAudited == Spec => []HistoryIsAudited
<1>1. IInv => HistoryIsAudited
  <2> SUFFICES ASSUME IInv PROVE HistoryIsAudited
    OBVIOUS
  <2>1. ASSUME NEW l \in Existing, NEW k \in DOMAIN rateLock[l].actions,
               phase[rateLock[l].actions[k].by] = "done"
        PROVE  \E i \in DOMAIN events :
                 /\ events[i].by = rateLock[l].actions[k].by /\ events[i].subject = l
                 /\ events[i].tenant = rateLock[l].tenant
                 /\ events[i].type = EventType[rateLock[l].actions[k].type]
    <3> DEFINE a == rateLock[l].actions[k]
    <3>1. /\ a.by \in Requests
          /\ call[a.by].op = a.type /\ call[a.by].lock = l
          /\ call[a.by].tenant = rateLock[l].tenant
      BY DEF IInv, HistoryIsGenuine, Genuine, Saved
    <3>2. PICK i \in DOMAIN events :
            /\ events[i].by = a.by /\ events[i].subject = call[a.by].lock
            /\ events[i].tenant = call[a.by].tenant
            /\ events[i].type = EventType[call[a.by].op]
      BY <2>1, <3>1 DEF IInv, LedgerIsSound
    <3>3. QED
      BY <3>1, <3>2
  <2>2. QED
    BY <2>1 DEF IInv, LedgerIsSound, HistoryIsAudited
<1>2. QED
  BY <1>1, Invariance, PTL

-----------------------------------------------------------------------------
(* Requests served one at a time implement the ledger *)

\* One request is under way at most, and the row it read is still the row.
SnapshotIsCurrent ==
  /\ \A q, r \in InFlight : q = r
  /\ \A r \in Requests : phase[r] = "found" =>
       /\ snapshot[r] = rateLock[call[r].lock]
       /\ call[r].op = "extend" => call[r].days \in Days

\* With room for one request, none is under way when another arrives.
LEMMA ArrivesAlone ==
  ASSUME MaxInFlight = 1, NEW r \in Requests, Arrive(r)
  PROVE  InFlight = {}
<1>1. IsFiniteSet(InFlight)
  BY RateLocksAssumption, FS_Subset DEF InFlight
<1>2. Cardinality(InFlight) \in Nat /\ Cardinality(InFlight) < 1
  BY <1>1, FS_CardinalityType DEF Arrive
<1>3. QED
  BY <1>1, <1>2, FS_EmptySet

LEMMA SnapshotStaysCurrent ==
  ASSUME MaxInFlight = 1, IInv, SnapshotIsCurrent, [Next]_vars
  PROVE  SnapshotIsCurrent'
<1>1. ASSUME NEW r \in Requests, Begin(r) PROVE SnapshotIsCurrent'
  <2>1. Arrive(r)
    BY <1>1 DEF Begin, createLock, FindLock, Refuse
  <2>2. InFlight = {}
    BY <2>1, ArrivesAlone
  <2>3. \A q \in Requests : q # r => phase'[q] \notin {"found", "written", "linked"}
    BY <1>1, <2>2 DEF Begin, createLock, FindLock, Refuse, InFlight, IInv, TypeOK
  <2>4. phase'[r] = "found" =>
          /\ snapshot'[r] = rateLock'[call'[r].lock]
          /\ call'[r].op = "extend" => call'[r].days \in Days
    <3>1. CASE \E t \in Tenants, l \in LockIds, n \in Loans, p \in Periods :
                 createLock(r, t, l, n, p)
      BY <3>1 DEF createLock, IInv, TypeOK
    <3>2. CASE \E c \in Requested : Refuse(r, c)
      BY <3>2 DEF Refuse, IInv, TypeOK
    <3>3. ASSUME NEW c \in Requested, FindLock(r, c)
          PROVE  /\ snapshot'[r] = rateLock'[call'[r].lock]
                 /\ call'[r].op = "extend" => call'[r].days \in Days
      <4>1. c.op = "extend" => c.days \in Days
        BY DEF Requested, Call
      <4>2. call'[r] = c /\ snapshot'[r] = rateLock[c.lock] /\ rateLock' = rateLock
        BY <3>3 DEF FindLock, IInv, TypeOK
      <4>3. QED
        BY <4>1, <4>2
    <3>4. QED
      BY <1>1, <3>1, <3>2, <3>3 DEF Begin
  <2>5. QED
    BY <2>3, <2>4 DEF SnapshotIsCurrent, InFlight
<1>2. ASSUME NEW r \in Requests, extendLock(r) \/ floatDown(r) \/ voidLock(r)
      PROVE  SnapshotIsCurrent'
  <2>1. /\ phase[r] = "found" /\ phase' = [phase EXCEPT ![r] = "written"]
        /\ UNCHANGED <<call, snapshot>>
    BY <1>2 DEF extendLock, floatDown, voidLock, Update
  <2>2. \A q \in Requests : q # r => phase'[q] \notin {"found", "written", "linked"}
    BY <2>1 DEF SnapshotIsCurrent, InFlight, IInv, TypeOK
  <2>3. phase'[r] = "written"
    BY <2>1 DEF IInv, TypeOK
  <2>4. QED
    BY <2>2, <2>3 DEF SnapshotIsCurrent, InFlight
<1>3. ASSUME NEW r \in Requests, FindLatestEvent(r) \/ CreateEvent(r) \/ Fail(r)
      PROVE  SnapshotIsCurrent'
  <2>1. /\ r \in InFlight
        /\ \E p \in {"linked", "done", "failed"} : phase' = [phase EXCEPT ![r] = p]
        /\ UNCHANGED <<rateLock, call, snapshot>>
    BY <1>3 DEF FindLatestEvent, CreateEvent, Fail, InFlight
  <2>2. QED
    BY <2>1 DEF SnapshotIsCurrent, InFlight, IInv, TypeOK
<1>4. CASE UNCHANGED vars
  BY <1>4 DEF vars, SnapshotIsCurrent, InFlight
<1>5. QED
  BY <1>1, <1>2, <1>3, <1>4 DEF Next, Quiescent

\* A save whose snapshot is current is an operation of the ledger.
LEMMA UpdateOperates ==
  ASSUME IInv, NEW r \in Requests, NEW op \in Ops, NEW row \in Row, Update(r, op, row),
         snapshot[r] = rateLock[call[r].lock],
         row.tenant = snapshot[r].tenant, row.loan = snapshot[r].loan,
         row.lockPeriodDays = snapshot[r].lockPeriodDays
  PROVE  Ledger!Operate(call[r].lock, op, StatusAfter[op], row.expiresAt, row.price)
<1> DEFINE l == call[r].lock
           h == Append(rateLock[l].actions, [type |-> op, by |-> r])
<1>1. rateLock' = [rateLock EXCEPT ![l] =
                     [row EXCEPT !.status = StatusAfter[op], !.actions = h]]
  BY DEF Update, appendAction
<1>2. rateLock[l] \in Row /\ l \in LockIds
  BY DEF Update, IInv, RequestsAreSound, Call
<1>3. [row EXCEPT !.status = StatusAfter[op], !.actions = h]
        = [rateLock[l] EXCEPT !.status = StatusAfter[op], !.expiresAt = row.expiresAt,
                              !.price = row.price, !.actions = h]
  BY <1>2 DEF Row
<1>4. QED
  BY <1>1, <1>2, <1>3 DEF Ledger!Operate, IInv, TypeOK

LEMMA SerialStep ==
  ASSUME IInv, SnapshotIsCurrent, [Next]_vars
  PROVE  [Ledger!Next]_rateLock
<1> DEFINE Op(r) == LET l == call[r].lock
                    IN  /\ l \in LockIds /\ rateLock[l] # NoLock
                        /\ (\E d \in Days : Ledger!Extend(l, d)) \/ Ledger!FloatDown(l)
                             \/ Ledger!Void(l)
<1>1. ASSUME NEW r \in Requests, NEW t \in Tenants, NEW l \in LockIds, NEW n \in Loans,
             NEW p \in Periods, createLock(r, t, l, n, p)
      PROVE  Ledger!Create(l)
  <2>1. appendAction([actions |-> <<>>], "create", r) = <<[type |-> "create", by |-> r]>>
    BY DEF appendAction
  <2>2. /\ rateLock[l] = NoLock
        /\ rateLock' = [rateLock EXCEPT ![l] =
             [tenant |-> t, loan |-> n, status |-> "locked", expiresAt |-> p,
              lockPeriodDays |-> p, price |-> 0,
              actions |-> <<[type |-> "create", by |-> r]>>]]
    BY <1>1, <2>1 DEF createLock
  <2>3. QED
    BY <2>2 DEF Ledger!Create
<1>2. ASSUME NEW r \in Requests, phase[r] = "found"
      PROVE  /\ call[r].lock \in LockIds
             /\ rateLock[call[r].lock] \in Row /\ rateLock[call[r].lock] # NoLock
             /\ snapshot[r] = rateLock[call[r].lock]
             /\ call[r] \in Call
  BY <1>2, NullAssumption DEF IInv, RequestsAreSound, SnapshotIsCurrent, Call
<1>3. ASSUME NEW r \in Requests, extendLock(r) PROVE Op(r)
  <2> DEFINE l == call[r].lock
             row == [rateLock[l] EXCEPT !.expiresAt = snapshot[r].expiresAt + call[r].days]
  <2>1. phase[r] = "found" /\ call[r].op = "extend" /\ Update(r, "extend", row)
    BY <1>3 DEF extendLock, Update
  <2>2. call[r].days \in Days /\ call[r].days \in Nat
    <3>1. \A d \in Days : d \in Nat
      BY RateLocksAssumption
    <3>2. QED
      BY <2>1, <3>1 DEF SnapshotIsCurrent
  <2>3. rateLock[l].expiresAt \in Nat /\ rateLock[l].price \in Nat
    BY <1>2, <2>1 DEF Row
  <2>4. row \in Row /\ row.expiresAt = rateLock[l].expiresAt + call[r].days
          /\ row.price = rateLock[l].price
          /\ row.tenant = snapshot[r].tenant /\ row.loan = snapshot[r].loan
          /\ row.lockPeriodDays = snapshot[r].lockPeriodDays
    BY <1>2, <2>1, <2>2, <2>3 DEF Row
  <2>5. Ledger!Operate(l, "extend", StatusAfter["extend"], row.expiresAt, row.price)
    <3> HIDE DEF row
    <3>1. QED
      BY <1>2, <2>1, <2>4, UpdateOperates DEF Ops
  <2>6. QED
    BY <1>2, <2>1, <2>2, <2>4, <2>5 DEF Ledger!Extend, StatusAfter, Ops
<1>4. ASSUME NEW r \in Requests, floatDown(r) PROVE Op(r)
  <2> DEFINE l == call[r].lock
             row == [rateLock[l] EXCEPT !.price = snapshot[r].price + 1]
  <2>1. phase[r] = "found" /\ Update(r, "float_down", row)
    BY <1>4 DEF floatDown, Update
  <2>2. rateLock[l].expiresAt \in Nat /\ rateLock[l].price \in Nat
    BY <1>2, <2>1 DEF Row
  <2>3. row \in Row /\ row.expiresAt = rateLock[l].expiresAt
          /\ row.price = rateLock[l].price + 1
          /\ row.tenant = snapshot[r].tenant /\ row.loan = snapshot[r].loan
          /\ row.lockPeriodDays = snapshot[r].lockPeriodDays
    BY <1>2, <2>1, <2>2 DEF Row
  <2>4. Ledger!Operate(l, "float_down", StatusAfter["float_down"], row.expiresAt, row.price)
    <3> HIDE DEF row
    <3>1. QED
      BY <1>2, <2>1, <2>3, UpdateOperates DEF Ops
  <2>5. QED
    BY <1>2, <2>1, <2>3, <2>4 DEF Ledger!FloatDown, StatusAfter, Ops
<1>5. ASSUME NEW r \in Requests, voidLock(r) PROVE Op(r)
  <2> DEFINE row == rateLock[call[r].lock]
  <2>1. phase[r] = "found" /\ Update(r, "void", row)
    BY <1>5 DEF voidLock, Update
  <2>2. row \in Row /\ snapshot[r] = row
    BY <1>2, <2>1
  <2>3. Ledger!Operate(call[r].lock, "void", StatusAfter["void"], row.expiresAt, row.price)
    BY <2>1, <2>2, UpdateOperates DEF Ops
  <2>4. QED
    BY <1>2, <2>1, <2>3 DEF Ledger!Void, StatusAfter, Ops
<1>6. ASSUME NEW r \in Requests, Op(r) PROVE Ledger!Next
  BY <1>6 DEF Ledger!Next
<1> HIDE DEF Op
<1>7. QED
  <2>1. ASSUME NEW r \in Requests,
               \/ \E c \in Requested : FindLock(r, c) \/ Refuse(r, c)
               \/ FindLatestEvent(r) \/ CreateEvent(r) \/ Fail(r)
        PROVE  UNCHANGED rateLock
    BY <2>1 DEF FindLock, Refuse, FindLatestEvent, CreateEvent, Fail
  <2>2. UNCHANGED vars \/ Quiescent => UNCHANGED rateLock
    BY DEF vars, Quiescent
  <2>3. ASSUME NEW l \in LockIds, Ledger!Create(l) PROVE Ledger!Next
    BY <2>3 DEF Ledger!Next
  <2>4. QED
    BY <1>1, <1>3, <1>4, <1>5, <1>6, <2>1, <2>2, <2>3 DEF Next, Begin

\* LocksService answering one request at a time is the atomic ledger: what its
\* clients see go wrong beyond that comes from requests that overlap.
THEOREM SerialImplementsLedger ==
  ASSUME MaxInFlight = 1
  PROVE  Spec => ImplementsLedger
<1>1. Init => Ledger!Init /\ SnapshotIsCurrent
  BY DEF Init, Ledger!Init, SnapshotIsCurrent, InFlight
<1>2. IInv /\ SnapshotIsCurrent /\ [Next]_vars => SnapshotIsCurrent'
  BY SnapshotStaysCurrent
<1>3. IInv /\ SnapshotIsCurrent /\ [Next]_vars => [Ledger!Next]_rateLock
  BY SerialStep
<1>4. QED
  BY <1>1, <1>2, <1>3, Invariance, PTL DEF Spec, ImplementsLedger, Ledger!Spec
-----------------------------------------------------------------------------
(* Sums of days.  DaysOf is a fold; what it adds up to is proved by looking at a least  *)
(* counterexample, which takes the place of an induction.                             *)

LEMMA LeastNumber ==
  ASSUME NEW T, T \subseteq Nat, T # {}
  PROVE  \E n \in T : \A m \in T : n <= m
<1> DEFINE Below(n) == 0 .. n
           W == {Below(n) : n \in T}
<1>1. ASSUME NEW n \in Nat PROVE Below(n) \in FiniteSubsetsOf(Nat)
  <2>1. IsFiniteSet(Below(n))
    BY FS_Interval
  <2>2. QED
    BY <2>1 DEF FiniteSubsetsOf
<1>2. W \subseteq FiniteSubsetsOf(Nat) /\ W # {}
  BY <1>1
<1>3. PICK x \in W : \A y \in W : <<y, x>> \notin StrictSubsetOrdering(Nat)
  <2> HIDE DEF W
  <2>1. IsWellFoundedOn(StrictSubsetOrdering(Nat), FiniteSubsetsOf(Nat))
    BY FS_StrictSubsetOrderingWellFounded
  <2>2. QED
    BY <1>2, <2>1, WFMin
<1>4. PICK n \in T : x = Below(n)
  OBVIOUS
<1>5. ASSUME NEW m \in T, m < n PROVE FALSE
  <2>1. Below(m) \in SUBSET Nat /\ Below(n) \in SUBSET Nat /\ Below(m) \subseteq Below(n)
    BY <1>5
  <2>2. n \in Below(n) /\ n \notin Below(m)
    BY <1>5
  <2>3. Below(m) \in W
    OBVIOUS
  <2> HIDE DEF W, Below
  <2>4. <<Below(m), x>> \in StrictSubsetOrdering(Nat)
    BY <1>4, <2>1, <2>2 DEF StrictSubsetOrdering
  <2>5. QED
    BY <1>3, <2>3, <2>4
<1>6. QED
  BY <1>5

Pick(s) == CHOOSE x \in s : TRUE

Rest(s) == s \ {Pick(s)}

\* The days that the calls of S ask for.
Sum(c, S) == MapThenSumSet(LAMBDA r : c[r].days, S)

\* g sums up the subsets of S as the fold does.
IsSum(c, S, g) ==
  g = [s \in SUBSET S |-> IF s = {} THEN 0 ELSE c[Pick(s)].days + g[Rest(s)]]

AreCalls(c, S) == IsFiniteSet(S) /\ \A x \in S : c[x].days \in Nat

LEMMA SumIsChosen ==
  ASSUME NEW c, NEW S
  PROVE  Sum(c, S) = (CHOOSE g : IsSum(c, S, g))[S]
BY DEF Sum, IsSum, Pick, Rest, MapThenSumSet, MapThenFoldSet

LEMMA DaysAreSummed == \A S : DaysOf(S) = Sum(call, S)
BY DEF DaysOf, Sum

\* A set without one of its elements is smaller by one.
LEMMA RestIsSmaller ==
  ASSUME NEW S, IsFiniteSet(S), NEW s \in SUBSET S, NEW x \in s
  PROVE  /\ s \ {x} \in SUBSET S
         /\ Cardinality(s) \in Nat /\ Cardinality(s \ {x}) \in Nat
         /\ Cardinality(s \ {x}) = Cardinality(s) - 1
<1>1. IsFiniteSet(s)
  BY FS_Subset
<1>2. QED
  BY <1>1, FS_RemoveElement, FS_CardinalityType

LEMMA PickFacts ==
  ASSUME NEW S, IsFiniteSet(S), NEW s \in SUBSET S, s # {}
  PROVE  /\ Pick(s) \in s /\ Rest(s) \in SUBSET S
         /\ Cardinality(s) \in Nat /\ Cardinality(Rest(s)) \in Nat
         /\ Cardinality(Rest(s)) = Cardinality(s) - 1
<1>1. Pick(s) \in s
  BY DEF Pick
<1>2. QED
  BY <1>1, RestIsSmaller DEF Rest

\* The recursion of the fold has a solution.
LEMMA SumExists ==
  ASSUME NEW c, NEW S, AreCalls(c, S)
  PROVE  \E g : g \in [SUBSET S -> Nat] /\ IsSum(c, S, g)
<1> DEFINE Upto(n, g) ==
             /\ g \in [SUBSET S -> Nat]
             /\ \A s \in SUBSET S : Cardinality(s) <= n =>
                  g[s] = IF s = {} THEN 0 ELSE c[Pick(s)].days + g[Rest(s)]
           T == {n \in Nat : ~\E g : Upto(n, g)}
<1>1. IsFiniteSet(S) /\ \A x \in S : c[x].days \in Nat
  BY DEF AreCalls
<1>2. \A s \in SUBSET S : /\ Cardinality(s) \in Nat /\ Cardinality(s) <= Cardinality(S)
                          /\ (Cardinality(s) = 0 <=> s = {})
  <2> SUFFICES ASSUME NEW s \in SUBSET S
               PROVE  /\ Cardinality(s) \in Nat /\ Cardinality(s) <= Cardinality(S)
                      /\ (Cardinality(s) = 0 <=> s = {})
    OBVIOUS
  <2>1. IsFiniteSet(s) /\ Cardinality(s) <= Cardinality(S)
    BY <1>1, FS_Subset
  <2>2. QED
    BY <2>1, FS_CardinalityType, FS_EmptySet
<1>3. T = {}
  <2> SUFFICES ASSUME T # {} PROVE FALSE
    OBVIOUS
  <2>1. PICK n \in T : \A m \in T : n <= m
    BY LeastNumber
  <2>2. /\ n \in Nat /\ ~\E g : Upto(n, g)
        /\ \A m \in Nat : m \notin T => \E g : Upto(m, g)
    BY <2>1
  <2>3. \E g : Upto(0, g)
    <3> DEFINE zero == [s \in SUBSET S |-> 0]
    <3>1. Upto(0, zero)
      BY <1>2
    <3> HIDE DEF Upto
    <3>2. QED
      BY <3>1
  <2>4. n - 1 \in Nat /\ n - 1 \notin T
    <3> HIDE DEF Upto, T
    <3>1. n # 0
      BY <2>2, <2>3
    <3>2. n - 1 \in Nat /\ n - 1 < n
      BY <2>2, <3>1
    <3>3. n - 1 \in T => n <= n - 1
      BY <2>1
    <3>4. QED
      BY <2>2, <3>2, <3>3
  <2>5. PICK g : Upto(n - 1, g)
    BY <2>2, <2>4
  <2> DEFINE h == [s \in SUBSET S |->
                     IF Cardinality(s) <= n - 1 THEN g[s] ELSE c[Pick(s)].days + g[Rest(s)]]
  <2>6. ASSUME NEW s \in SUBSET S, s # {}
        PROVE  /\ Pick(s) \in S /\ Rest(s) \in SUBSET S
               /\ Cardinality(Rest(s)) = Cardinality(s) - 1 /\ Cardinality(s) \in Nat
    BY <1>1, <2>6, PickFacts
  <2>7. h \in [SUBSET S -> Nat]
    <3> SUFFICES ASSUME NEW s \in SUBSET S
                 PROVE  (IF Cardinality(s) <= n - 1 THEN g[s]
                         ELSE c[Pick(s)].days + g[Rest(s)]) \in Nat
      OBVIOUS
    <3>1. g[s] \in Nat
      BY <2>5
    <3>2. ~(Cardinality(s) <= n - 1) => s # {}
      BY <1>2, <2>4
    <3>3. s # {} => c[Pick(s)].days \in Nat /\ g[Rest(s)] \in Nat
      BY <1>1, <2>5, <2>6
    <3>4. QED
      BY <3>1, <3>2, <3>3
  <2>8. ASSUME NEW s \in SUBSET S, Cardinality(s) <= n
        PROVE  h[s] = IF s = {} THEN 0 ELSE c[Pick(s)].days + h[Rest(s)]
    <3>1. CASE s = {}
      <4>1. Cardinality(s) <= n - 1
        BY <1>2, <2>4, <3>1
      <4>2. QED
        BY <2>5, <3>1, <4>1
    <3>2. CASE s # {}
      <4>1. Cardinality(Rest(s)) <= n - 1 /\ Rest(s) \in SUBSET S
        BY <2>6, <2>8, <3>2
      <4>2. h[Rest(s)] = g[Rest(s)]
        BY <4>1
      <4>3. Cardinality(s) <= n - 1 => g[s] = c[Pick(s)].days + g[Rest(s)]
        BY <2>5, <3>2
      <4>4. QED
        BY <3>2, <4>2, <4>3
    <3>3. QED
      BY <3>1, <3>2
  <2> HIDE DEF h
  <2>9. Upto(n, h)
    BY <2>7, <2>8
  <2>10. QED
    BY <2>9
<1>4. Cardinality(S) \in Nat
  BY <1>2
<1>5. PICK g : Upto(Cardinality(S), g)
  BY <1>3, <1>4
<1>6. g \in [SUBSET S -> Nat]
  BY <1>5
<1>7. \A s \in SUBSET S : g[s] = IF s = {} THEN 0 ELSE c[Pick(s)].days + g[Rest(s)]
  BY <1>2, <1>5
<1>8. IsSum(c, S, g)
  BY <1>6, <1>7 DEF IsSum
<1>9. QED
  BY <1>6, <1>8

\* Where two sums are of the same calls they agree.
LEMMA SumsAgree ==
  ASSUME NEW c, NEW S, IsFiniteSet(S), NEW g, IsSum(c, S, g),
         NEW e, NEW U, U \subseteq S, \A x \in U : c[x].days = e[x].days,
         NEW h, IsSum(e, U, h)
  PROVE  \A s \in SUBSET U : g[s] = h[s]
<1> DEFINE T == {n \in Nat : \E s \in SUBSET U : Cardinality(s) = n /\ g[s] # h[s]}
<1>1. IsFiniteSet(U)
  BY FS_Subset
<1>2. \A s \in SUBSET U : /\ g[s] = IF s = {} THEN 0 ELSE c[Pick(s)].days + g[Rest(s)]
                          /\ h[s] = IF s = {} THEN 0 ELSE e[Pick(s)].days + h[Rest(s)]
  BY DEF IsSum
<1>3. T = {}
  <2> SUFFICES ASSUME T # {} PROVE FALSE
    OBVIOUS
  <2>1. PICK n \in T : \A m \in T : n <= m
    BY LeastNumber
  <2>2. PICK s \in SUBSET U : Cardinality(s) = n /\ g[s] # h[s]
    OBVIOUS
  <2>3. s # {}
    BY <1>2, <2>2
  <2>4. /\ Pick(s) \in s /\ Rest(s) \in SUBSET U
        /\ Cardinality(Rest(s)) \in Nat /\ Cardinality(Rest(s)) < n
    BY <1>1, <2>2, <2>3, PickFacts
  <2>5. g[Rest(s)] = h[Rest(s)]
    <3>1. Cardinality(Rest(s)) \notin T
      BY <2>1, <2>4
    <3>2. QED
      BY <2>4, <3>1
  <2>6. c[Pick(s)].days = e[Pick(s)].days
    BY <2>4
  <2>7. QED
    BY <1>2, <2>2, <2>3, <2>5, <2>6
<1>4. \A s \in SUBSET U : Cardinality(s) \in Nat
  <2>1. \A s \in SUBSET U : IsFiniteSet(s)
    BY <1>1, FS_Subset
  <2>2. QED
    BY <2>1, FS_CardinalityType
<1>5. QED
  BY <1>3, <1>4

\* The order in which elements are picked does not matter.
TakesAny(c, S, g) ==
  \A s \in SUBSET S : \A y \in s : g[s] = c[y].days + g[s \ {y}]

LEMMA SumTakesAny ==
  ASSUME NEW c, NEW S, AreCalls(c, S), NEW g \in [SUBSET S -> Nat], IsSum(c, S, g)
  PROVE  TakesAny(c, S, g)
<1> DEFINE T == {n \in Nat : \E s \in SUBSET S : Cardinality(s) = n /\
                               \E y \in s : g[s] # c[y].days + g[s \ {y}]}
<1>1. IsFiniteSet(S) /\ \A x \in S : c[x].days \in Nat
  BY DEF AreCalls
<1>2. \A s \in SUBSET S : g[s] = IF s = {} THEN 0 ELSE c[Pick(s)].days + g[Rest(s)]
  BY DEF IsSum
<1>3. T = {}
  <2> SUFFICES ASSUME T # {} PROVE FALSE
    OBVIOUS
  <2>1. PICK n \in T : \A m \in T : n <= m
    BY LeastNumber
  <2>2. PICK s \in SUBSET S : Cardinality(s) = n /\ \E y \in s : g[s] # c[y].days + g[s \ {y}]
    OBVIOUS
  <2>3. PICK y \in s : g[s] # c[y].days + g[s \ {y}]
    BY <2>2
  <2> DEFINE x == Pick(s)
             rest == s \ {x}
             less == s \ {y}
             both == less \ {x}
  <2>4. /\ x \in s /\ rest \in SUBSET S
        /\ Cardinality(rest) \in Nat /\ Cardinality(rest) < n
        /\ g[s] = c[x].days + g[rest]
    BY <1>1, <1>2, <2>2, PickFacts DEF Rest
  <2>5. x # y
    BY <2>3, <2>4
  <2>6. less \in SUBSET S /\ Cardinality(less) \in Nat /\ Cardinality(less) < n
    BY <1>1, <2>2, RestIsSmaller
  <2>7. ASSUME NEW t \in SUBSET S, Cardinality(t) \in Nat, Cardinality(t) < n, NEW z \in t
        PROVE  g[t] = c[z].days + g[t \ {z}]
    <3>1. Cardinality(t) \notin T
      BY <2>1, <2>7
    <3>2. QED
      BY <2>7, <3>1
  <2>8. y \in rest /\ x \in less /\ rest \ {y} = both
    BY <2>4, <2>5
  <2>9. g[rest] = c[y].days + g[both] /\ g[less] = c[x].days + g[both]
    BY <2>4, <2>6, <2>7, <2>8
  <2>10. c[x].days \in Nat /\ c[y].days \in Nat /\ g[both] \in Nat
    BY <1>1, <2>4, <2>6
  <2> HIDE DEF x, rest, both
  <2>11. g[s] = c[y].days + g[less]
    BY <2>4, <2>9, <2>10
  <2>12. QED
    BY <2>3, <2>11
<1>4. \A s \in SUBSET S : Cardinality(s) \in Nat
  <2>1. \A s \in SUBSET S : IsFiniteSet(s)
    BY <1>1, FS_Subset
  <2>2. QED
    BY <2>1, FS_CardinalityType
<1>5. QED
  BY <1>3, <1>4 DEF TakesAny

LEMMA SumIsFold ==
  ASSUME NEW c, NEW S, AreCalls(c, S)
  PROVE  \E g \in [SUBSET S -> Nat] : IsSum(c, S, g) /\ Sum(c, S) = g[S]
<1> DEFINE g == CHOOSE h : IsSum(c, S, h)
<1>1. IsSum(c, S, g)
  BY SumExists
<1>2. PICK h : h \in [SUBSET S -> Nat] /\ IsSum(c, S, h)
  BY SumExists
<1>3. Sum(c, S) = g[S]
  BY SumIsChosen
<1> HIDE DEF g
<1>4. \A s \in SUBSET S : g[s] = h[s]
  BY <1>1, <1>2, SumsAgree DEF AreCalls
<1>5. QED
  BY <1>2, <1>3, <1>4

LEMMA SumOfNone ==
  ASSUME NEW c
  PROVE  Sum(c, {}) = 0
<1>1. AreCalls(c, {})
  BY FS_EmptySet DEF AreCalls
<1>2. PICK g \in [SUBSET {} -> Nat] : IsSum(c, {}, g) /\ Sum(c, {}) = g[{}]
  BY <1>1, SumIsFold
<1>3. QED
  BY <1>2 DEF IsSum

\* Calls that keep their days keep their sum.
LEMMA SumStays ==
  ASSUME NEW c, NEW e, NEW S, AreCalls(c, S), \A x \in S : c[x].days = e[x].days
  PROVE  Sum(c, S) = Sum(e, S)
<1>1. PICK g \in [SUBSET S -> Nat] : IsSum(c, S, g) /\ Sum(c, S) = g[S]
  BY SumIsFold
<1>2. AreCalls(e, S)
  BY DEF AreCalls
<1>3. PICK h \in [SUBSET S -> Nat] : IsSum(e, S, h) /\ Sum(e, S) = h[S]
  BY <1>2, SumIsFold
<1>4. \A s \in SUBSET S : g[s] = h[s]
  BY <1>1, <1>3, SumsAgree DEF AreCalls
<1>5. QED
  BY <1>1, <1>3, <1>4

\* One more call adds its days.
LEMMA SumAdds ==
  ASSUME NEW c, NEW S, NEW x, x \notin S, AreCalls(c, S \cup {x})
  PROVE  /\ Sum(c, S) \in Nat
         /\ Sum(c, S \cup {x}) = c[x].days + Sum(c, S)
<1> DEFINE U == S \cup {x}
<1>1. IsFiniteSet(U) /\ (\A y \in U : c[y].days \in Nat) /\ AreCalls(c, U)
  BY DEF AreCalls
<1>2. PICK g \in [SUBSET U -> Nat] : IsSum(c, U, g) /\ Sum(c, U) = g[U]
  BY SumIsFold
<1>3. AreCalls(c, S)
  BY <1>1, FS_Subset DEF AreCalls
<1>4. PICK h \in [SUBSET S -> Nat] : IsSum(c, S, h) /\ Sum(c, S) = h[S]
  BY <1>3, SumIsFold
<1>5. g[S] = h[S]
  <2>1. S \subseteq U
    OBVIOUS
  <2> HIDE DEF U
  <2>2. \A s \in SUBSET S : g[s] = h[s]
    BY <1>1, <1>2, <1>4, <2>1, SumsAgree
  <2>3. QED
    BY <2>2
<1>6. g[U] = c[x].days + g[U \ {x}]
  <2>1. x \in U
    OBVIOUS
  <2>2. AreCalls(c, U) /\ g \in [SUBSET U -> Nat] /\ IsSum(c, U, g)
    BY <1>1, <1>2
  <2> HIDE DEF U
  <2>3. TakesAny(c, U, g)
    BY <2>2, SumTakesAny
  <2>4. U \in SUBSET U
    OBVIOUS
  <2>5. QED
    BY <2>1, <2>3, <2>4 DEF TakesAny
<1>7. U \ {x} = S /\ h[S] \in Nat
  OBVIOUS
<1>8. QED
  BY <1>2, <1>4, <1>5, <1>6, <1>7

-----------------------------------------------------------------------------
(* The days of an expiry *)

\* The expiry of a row is its period and the days of some extensions of lock l, out of
\* the saved requests.
Grants(saved, c, l, row) ==
  \E granted \in SUBSET {r \in saved : c[r].op = "extend" /\ c[r].lock = l} :
    row.expiresAt = row.lockPeriodDays + Sum(c, granted)

\* What a request has read may be overtaken, but was granted, and the period of a lock
\* never changes.
GInv ==
  /\ \A l \in Existing : Grants(Saved, call, l, rateLock[l])
  /\ \A r \in Requests : phase[r] = "found" =>
       /\ Grants(Saved, call, call[r].lock, snapshot[r])
       /\ snapshot[r].lockPeriodDays = rateLock[call[r].lock].lockPeriodDays

LEMMA DaysAreNat == \A c \in Call : c.days \in Nat
<1>1. \A d \in Days \cup {0} : d \in Nat
  BY RateLocksAssumption
<1>2. QED
  BY <1>1 DEF Call

LEMMA SavedAreCalls ==
  ASSUME IInv
  PROVE  AreCalls(call, Saved)
<1>1. \A r \in Saved : call[r] \in Call
  BY DEF Saved, IInv, RequestsAreSound
<1>2. IsFiniteSet(Saved)
  BY RateLocksAssumption, FS_Subset DEF Saved
<1>3. QED
  BY <1>1, <1>2, DaysAreNat DEF AreCalls

LEMMA CallsOfSome ==
  ASSUME NEW c, NEW S, AreCalls(c, S), NEW U \in SUBSET S
  PROVE  AreCalls(c, U)
BY FS_Subset DEF AreCalls

\* What was granted stays so while the requests behind it stay saved.
LEMMA GrantsStay ==
  ASSUME NEW S, NEW T, S \subseteq T, NEW c, NEW e, \A q \in S : c[q] = e[q],
         AreCalls(c, S), NEW l, NEW row, Grants(S, c, l, row)
  PROVE  Grants(T, e, l, row)
<1>1. PICK granted \in SUBSET {r \in S : c[r].op = "extend" /\ c[r].lock = l} :
        row.expiresAt = row.lockPeriodDays + Sum(c, granted)
  BY DEF Grants
<1>2. granted \in SUBSET S /\ \A q \in granted : c[q].days = e[q].days
  OBVIOUS
<1>3. AreCalls(c, granted)
  BY <1>2, CallsOfSome
<1>4. Sum(c, granted) = Sum(e, granted)
  BY <1>2, <1>3, SumStays
<1>5. granted \in SUBSET {r \in T : e[r].op = "extend" /\ e[r].lock = l}
  OBVIOUS
<1>6. QED
  BY <1>1, <1>4, <1>5 DEF Grants

LEMMA InitGrants == Init => GInv
  BY DEF Init, GInv, Existing

\* A step that saves one row, or none: the rows that it leaves alone stay granted.
LEMMA GrantStep ==
  ASSUME IInv, GInv, Saved \subseteq Saved', \A q \in Saved : call'[q] = call[q],
         NEW r \in Requests,
         \A q \in Requests \ {r} :
           phase'[q] = phase[q] /\ call'[q] = call[q] /\ snapshot'[q] = snapshot[q],
         phase'[r] = "found" =>
           /\ Grants(Saved', call', call'[r].lock, snapshot'[r])
           /\ snapshot'[r].lockPeriodDays = rateLock'[call'[r].lock].lockPeriodDays,
         \A k \in LockIds : rateLock'[k] # rateLock[k] =>
           /\ rateLock[k] # NoLock => rateLock'[k].lockPeriodDays = rateLock[k].lockPeriodDays
           /\ Grants(Saved', call', k, rateLock'[k])
  PROVE  GInv'
<1>1. AreCalls(call, Saved)
  BY SavedAreCalls
<1>2. ASSUME NEW k \in LockIds, rateLock'[k] # NoLock
      PROVE  Grants(Saved', call', k, rateLock'[k])
  <2>1. CASE rateLock'[k] = rateLock[k]
    <3>1. Grants(Saved, call, k, rateLock[k])
      BY <1>2, <2>1 DEF GInv, Existing
    <3>2. Grants(Saved', call', k, rateLock[k])
      BY <1>1, <3>1, GrantsStay
    <3>3. QED
      BY <2>1, <3>2
  <2>2. QED
    BY <2>1
<1>3. ASSUME NEW q \in Requests, phase'[q] = "found"
      PROVE  /\ Grants(Saved', call', call'[q].lock, snapshot'[q])
             /\ snapshot'[q].lockPeriodDays = rateLock'[call'[q].lock].lockPeriodDays
  <2>1. CASE q = r
    BY <1>3, <2>1
  <2>2. CASE q # r
    <3>1. phase[q] = "found" /\ call'[q] = call[q] /\ snapshot'[q] = snapshot[q]
      BY <1>3, <2>2
    <3>2. /\ Grants(Saved, call, call[q].lock, snapshot[q])
          /\ snapshot[q].lockPeriodDays = rateLock[call[q].lock].lockPeriodDays
      BY <3>1 DEF GInv
    <3>3. Grants(Saved', call', call[q].lock, snapshot[q])
      BY <1>1, <3>2, GrantsStay
    <3>4. call[q].lock \in LockIds /\ rateLock[call[q].lock] # NoLock
      BY <3>1, NullAssumption DEF IInv, RequestsAreSound, Call
    <3>5. rateLock'[call[q].lock].lockPeriodDays = rateLock[call[q].lock].lockPeriodDays
      BY <3>4
    <3>6. QED
      BY <3>1, <3>2, <3>3, <3>5
  <2>3. QED
    BY <2>1, <2>2
<1>4. QED
  BY <1>2, <1>3 DEF GInv, Existing

LEMMA CreateGrants ==
  ASSUME IInv, GInv, NEW r \in Requests, NEW t \in Tenants, NEW l \in LockIds,
         NEW n \in Loans, NEW p \in Periods, createLock(r, t, l, n, p)
  PROVE  GInv'
<1> DEFINE h == appendAction([actions |-> <<>>], "create", r)
           new == [tenant |-> t, loan |-> n, status |-> "locked", expiresAt |-> p,
                   lockPeriodDays |-> p, price |-> 0, actions |-> h]
<1>1. /\ phase[r] = "idle" /\ rateLock[l] = NoLock
      /\ rateLock' = [rateLock EXCEPT ![l] = new]
      /\ \E c : call' = [call EXCEPT ![r] = c]
      /\ phase' = [phase EXCEPT ![r] = "written"]
      /\ UNCHANGED <<snapshot, prevHash, events>>
  BY DEF createLock, Arrive
<1>2. Saved \subseteq Saved' /\ \A q \in Saved : call'[q] = call[q]
  BY <1>1 DEF Saved, IInv, TypeOK
<1>3. p \in Nat /\ new.expiresAt = p /\ new.lockPeriodDays = p
  BY RateLocksAssumption
<1>4. Grants(Saved', call', l, new)
  <2>1. {} \in SUBSET {q \in Saved' : call'[q].op = "extend" /\ call'[q].lock = l}
    OBVIOUS
  <2>2. Sum(call', {}) = 0
    BY SumOfNone
  <2> HIDE DEF new
  <2>3. new.expiresAt = new.lockPeriodDays + Sum(call', {})
    BY <1>3, <2>2
  <2>4. QED
    BY <2>1, <2>3 DEF Grants
<1>5. rateLock'[l] = new /\ \A k \in LockIds \ {l} : rateLock'[k] = rateLock[k]
  BY <1>1 DEF IInv, TypeOK
<1>6. /\ phase'[r] = "written"
      /\ \A q \in Requests \ {r} :
           phase'[q] = phase[q] /\ call'[q] = call[q] /\ snapshot'[q] = snapshot[q]
  BY <1>1 DEF IInv, TypeOK
<1> HIDE DEF new
<1>7. QED
  BY <1>1, <1>2, <1>4, <1>5, <1>6, GrantStep

LEMMA FindGrants ==
  ASSUME IInv, GInv, NEW r \in Requests, NEW c \in Requested, FindLock(r, c) \/ Refuse(r, c)
  PROVE  GInv'
<1>1. /\ phase[r] = "idle"
      /\ call' = [call EXCEPT ![r] = c]
      /\ UNCHANGED rateLock
      /\ \/ /\ rateLock[c.lock] # NoLock
            /\ snapshot' = [snapshot EXCEPT ![r] = rateLock[c.lock]]
            /\ phase' = [phase EXCEPT ![r] = "found"]
         \/ /\ UNCHANGED snapshot
            /\ phase' = [phase EXCEPT ![r] = "refused"]
  BY DEF FindLock, Refuse, Arrive, Visible
<1>2. c.lock \in LockIds
  BY DEF Requested, Call
<1>3. Saved \subseteq Saved' /\ \A q \in Saved : call'[q] = call[q]
  BY <1>1 DEF Saved, IInv, TypeOK
<1>4. \A q \in Requests \ {r} :
        phase'[q] = phase[q] /\ call'[q] = call[q] /\ snapshot'[q] = snapshot[q]
  BY <1>1 DEF IInv, TypeOK
<1>5. ASSUME phase'[r] = "found"
      PROVE  /\ Grants(Saved', call', call'[r].lock, snapshot'[r])
             /\ snapshot'[r].lockPeriodDays = rateLock'[call'[r].lock].lockPeriodDays
  <2>1. /\ rateLock[c.lock] # NoLock /\ snapshot'[r] = rateLock[c.lock] /\ call'[r] = c
        /\ rateLock' = rateLock
    BY <1>1, <1>5 DEF IInv, TypeOK
  <2>2. Grants(Saved, call, c.lock, rateLock[c.lock])
    BY <1>2, <2>1 DEF GInv, Existing
  <2>3. Grants(Saved', call', c.lock, rateLock[c.lock])
    BY <1>3, <2>2, SavedAreCalls, GrantsStay
  <2>4. QED
    BY <2>1, <2>3
<1>6. \A k \in LockIds : rateLock'[k] = rateLock[k]
  BY <1>1
<1>7. QED
  BY <1>3, <1>4, <1>5, <1>6, GrantStep

\* A save: the expiry is that of the row, or of the snapshot and the request's own days.
LEMMA UpdateGrants ==
  ASSUME IInv, GInv, NEW r \in Requests, NEW op \in Ops, NEW row, Update(r, op, row),
         phase[r] = "found" => row \in Row,
         row.lockPeriodDays = rateLock[call[r].lock].lockPeriodDays,
         \/ row.expiresAt = rateLock[call[r].lock].expiresAt
         \/ op = "extend" /\ row.expiresAt = snapshot[r].expiresAt + call[r].days
  PROVE  GInv'
<1> DEFINE l == call[r].lock
           new == [row EXCEPT !.status = StatusAfter[op],
                              !.actions = appendAction(snapshot[r], op, r)]
<1>1. /\ phase[r] = "found" /\ call[r].op = op
      /\ rateLock' = [rateLock EXCEPT ![l] = new]
      /\ phase' = [phase EXCEPT ![r] = "written"]
      /\ UNCHANGED <<call, snapshot>>
  BY DEF Update
<1>2. /\ call[r] \in Call /\ l \in LockIds /\ rateLock[l] \in Row /\ rateLock[l] # NoLock
      /\ snapshot[r] \in Row
  BY <1>1, NullAssumption DEF IInv, RequestsAreSound, Call
<1>3. Saved \subseteq Saved' /\ r \in Saved' /\ r \notin Saved
  BY <1>1 DEF Saved, IInv, TypeOK
<1>4. new.expiresAt = row.expiresAt /\ new.lockPeriodDays = row.lockPeriodDays
  BY <1>1 DEF Row
<1> HIDE DEF new
<1>5. /\ Grants(Saved, call, l, rateLock[l]) /\ Grants(Saved, call, l, snapshot[r])
      /\ snapshot[r].lockPeriodDays = rateLock[l].lockPeriodDays
  BY <1>1, <1>2 DEF GInv, Existing
<1>6. Grants(Saved', call, l, new)
  <2>1. CASE row.expiresAt = rateLock[l].expiresAt
    <3>1. Grants(Saved, call, l, new)
      BY <1>4, <1>5, <2>1 DEF Grants
    <3>2. QED
      BY <1>3, <3>1, SavedAreCalls, GrantsStay
  <2>2. CASE op = "extend" /\ row.expiresAt = snapshot[r].expiresAt + call[r].days
    <3>1. PICK granted \in SUBSET {q \in Saved : call[q].op = "extend" /\ call[q].lock = l} :
            snapshot[r].expiresAt = snapshot[r].lockPeriodDays + Sum(call, granted)
      BY <1>5 DEF Grants
    <3> DEFINE more == granted \cup {r}
    <3>2. r \notin granted /\ granted \in SUBSET Saved
      BY <1>3
    <3>3. AreCalls(call, more)
      <4>1. AreCalls(call, granted)
        BY <3>2, SavedAreCalls, CallsOfSome
      <4>2. call[r].days \in Nat
        BY <1>2, DaysAreNat
      <4>3. IsFiniteSet(more)
        BY <4>1, FS_AddElement DEF AreCalls
      <4>4. QED
        BY <4>1, <4>2, <4>3 DEF AreCalls
    <3>4. Sum(call, granted) \in Nat /\ Sum(call, more) = call[r].days + Sum(call, granted)
      BY <3>2, <3>3, SumAdds
    <3>5. more \in SUBSET {q \in Saved' : call[q].op = "extend" /\ call[q].lock = l}
      BY <1>1, <1>3, <2>2
    <3>6. call[r].days \in Nat /\ snapshot[r].lockPeriodDays \in Nat
      <4>1. snapshot[r].lockPeriodDays \in Periods
        BY <1>2 DEF Row
      <4>2. \A p \in 15..180 : p \in Nat
        OBVIOUS
      <4>3. Periods \subseteq 15..180
        BY RateLocksAssumption
      <4>4. snapshot[r].lockPeriodDays \in Nat
        BY <4>1, <4>2, <4>3
      <4>5. QED
        BY <1>2, <4>4, DaysAreNat
    <3> HIDE DEF more
    <3>7. new.expiresAt = new.lockPeriodDays + Sum(call, more)
      BY <1>4, <1>5, <2>2, <3>1, <3>4, <3>6
    <3>8. QED
      BY <3>5, <3>7 DEF Grants
  <2>3. QED
    BY <2>1, <2>2
<1>7. rateLock'[l] = new /\ \A k \in LockIds \ {l} : rateLock'[k] = rateLock[k]
  BY <1>1, <1>2 DEF IInv, TypeOK
<1>8. /\ phase'[r] = "written" /\ call' = call
      /\ \A q \in Requests \ {r} :
           phase'[q] = phase[q] /\ call'[q] = call[q] /\ snapshot'[q] = snapshot[q]
  BY <1>1 DEF IInv, TypeOK
<1>9. QED
  BY <1>3, <1>4, <1>6, <1>7, <1>8, GrantStep

LEMMA NextGrants == IInv /\ GInv /\ [Next]_vars => GInv'
<1> SUFFICES ASSUME IInv, GInv, [Next]_vars PROVE GInv'
  OBVIOUS
<1>1. ASSUME NEW r \in Requests, phase[r] = "found"
      PROVE  rateLock[call[r].lock] \in Row
  BY <1>1 DEF IInv, RequestsAreSound
<1>2. ASSUME NEW r \in Requests, extendLock(r) PROVE GInv'
  <2> DEFINE row == [rateLock[call[r].lock] EXCEPT
                       !.expiresAt = snapshot[r].expiresAt + call[r].days]
  <2>1. Update(r, "extend", row) /\ phase[r] = "found"
    BY <1>2 DEF extendLock, Update
  <2>2. row \in Row
    <3>1. call[r].days \in Nat
      BY <2>1, DaysAreNat DEF IInv, RequestsAreSound
    <3>2. snapshot[r].expiresAt \in Nat
      BY <2>1 DEF IInv, RequestsAreSound, Row
    <3>3. QED
      BY <1>1, <2>1, <3>1, <3>2 DEF Row
  <2>3. /\ row.expiresAt = snapshot[r].expiresAt + call[r].days
        /\ row.lockPeriodDays = rateLock[call[r].lock].lockPeriodDays
    BY <1>1, <2>1 DEF Row
  <2> HIDE DEF row
  <2>4. QED
    BY <2>1, <2>2, <2>3, UpdateGrants DEF Ops
<1>3. ASSUME NEW r \in Requests, floatDown(r) PROVE GInv'
  <2> DEFINE row == [rateLock[call[r].lock] EXCEPT !.price = snapshot[r].price + 1]
  <2>1. Update(r, "float_down", row) /\ phase[r] = "found"
    BY <1>3 DEF floatDown, Update
  <2>2. row \in Row
    <3>1. snapshot[r].price \in Nat
      BY <2>1 DEF IInv, RequestsAreSound, Row
    <3>2. QED
      BY <1>1, <2>1, <3>1 DEF Row
  <2>3. /\ row.expiresAt = rateLock[call[r].lock].expiresAt
        /\ row.lockPeriodDays = rateLock[call[r].lock].lockPeriodDays
    BY <1>1, <2>1 DEF Row
  <2> HIDE DEF row
  <2>4. QED
    BY <2>1, <2>2, <2>3, UpdateGrants DEF Ops
<1>4. ASSUME NEW r \in Requests, voidLock(r) PROVE GInv'
  <2>1. Update(r, "void", rateLock[call[r].lock])
    BY <1>4 DEF voidLock
  <2>2. QED
    BY <1>1, <2>1, UpdateGrants DEF Ops
\* What only moves a request on.
<1>5. ASSUME NEW r \in Requests, NEW p, r \in InFlight, p \in {"linked", "done", "failed"},
             phase' = [phase EXCEPT ![r] = p], UNCHANGED <<rateLock, call, snapshot>>
      PROVE  GInv'
  <2>1. Saved \subseteq Saved'
    BY <1>5 DEF Saved, IInv, TypeOK
  <2>2. /\ \A q \in Requests \ {r} : phase'[q] = phase[q]
        /\ phase'[r] # "found"
    BY <1>5 DEF IInv, TypeOK
  <2>3. rateLock' = rateLock /\ call' = call /\ snapshot' = snapshot
    BY <1>5
  <2>4. QED
    BY <2>1, <2>2, <2>3, GrantStep
<1>6. ASSUME NEW r \in Requests, FindLatestEvent(r) \/ CreateEvent(r) \/ Fail(r) PROVE GInv'
  BY <1>5, <1>6 DEF FindLatestEvent, CreateEvent, Fail, InFlight
<1>7. CASE UNCHANGED vars
  BY <1>7 DEF vars, GInv, Existing, Saved
<1>8. QED
  BY <1>2, <1>3, <1>4, <1>6, <1>7, CreateGrants, FindGrants DEF Next, Quiescent, Begin

\* Saves of stale snapshots may drop an extension but never invent a day: the expiry of a
\* lock is its period and the days of extensions that were saved, whatever requests
\* LocksService serves at a time.
THEOREM ExpiryGranted == Spec => []ExpiryIsGranted
<1>1. GInv => ExpiryIsGranted
  BY DaysAreSummed DEF GInv, Grants, ExpiryIsGranted
<1>2. Init => GInv
  BY InitGrants
<1>3. QED
  BY <1>1, <1>2, NextGrants, Invariance, PTL DEF Spec

-----------------------------------------------------------------------------
(* Requests served one at a time: history and ledger tell one story *)

HasEntry(h, q) == \E m \in DOMAIN h : h[m].by = q

EndsWith(h, q) == h # <<>> /\ h[Len(h)].by = q

\* Every event has its entry in the history of its lock, and a request that has saved but
\* not finished has the last entry.
HInv ==
  /\ \A i \in DOMAIN events :
       LET l == events[i].subject
       IN  rateLock[l] # NoLock /\ HasEntry(rateLock[l].actions, events[i].by)
  /\ \A r \in Requests : phase[r] \in {"written", "linked"} =>
       EndsWith(rateLock[call[r].lock].actions, r)
  /\ HistoryExplainsLedger

\* A save, in a request that is alone: its lock is new, or its history grows.
LEMMA SaveExplains ==
  ASSUME IInv, HInv, NEW r \in Requests, NEW l \in LockIds, NEW new, new # NoLock,
         rateLock' = [rateLock EXCEPT ![l] = new], UNCHANGED events,
         call'[r].lock = l, EndsWith(new.actions, r),
         \A q \in Requests \ {r} : phase'[q] \notin {"written", "linked"},
         \/ rateLock[l] = NoLock
         \/ \A m \in DOMAIN rateLock[l].actions :
              m \in DOMAIN new.actions /\ new.actions[m] = rateLock[l].actions[m]
  PROVE  HInv'
<1>1. rateLock'[l] = new /\ \A k \in LockIds \ {l} : rateLock'[k] = rateLock[k]
  BY DEF IInv, TypeOK
<1>2. ASSUME NEW i \in DOMAIN events PROVE events[i].subject \in LockIds
  <2>1. events[i] \in EventRow
    BY DEF IInv, TypeOK
  <2>2. QED
    BY <2>1 DEF EventRow
<1>3. ASSUME NEW k \in LockIds, rateLock[k] # NoLock
      PROVE  /\ rateLock'[k] # NoLock
             /\ \A m \in DOMAIN rateLock[k].actions :
                  /\ m \in DOMAIN rateLock'[k].actions
                  /\ rateLock'[k].actions[m] = rateLock[k].actions[m]
  BY <1>1, <1>3
<1>4. ASSUME NEW i \in DOMAIN events
      PROVE  /\ rateLock'[events[i].subject] # NoLock
             /\ HasEntry(rateLock'[events[i].subject].actions, events[i].by)
  <2>1. rateLock[events[i].subject] # NoLock
        /\ HasEntry(rateLock[events[i].subject].actions, events[i].by)
    BY DEF HInv
  <2>2. QED
    BY <1>2, <1>3, <2>1 DEF HasEntry
<1>5. ASSUME NEW q \in Requests, phase'[q] \in {"written", "linked"}
      PROVE  EndsWith(rateLock'[call'[q].lock].actions, q)
  BY <1>1, <1>5
<1>6. ASSUME NEW i \in DOMAIN events, NEW j \in DOMAIN events, i < j,
             events[i].subject = events[j].subject
      PROVE  LET h == rateLock'[events[i].subject].actions
             IN  \E m, n \in DOMAIN h :
                   m < n /\ h[m].by = events[i].by /\ h[n].by = events[j].by
  <2>1. PICK m \in DOMAIN rateLock[events[i].subject].actions,
             n \in DOMAIN rateLock[events[i].subject].actions :
          /\ m < n /\ rateLock[events[i].subject].actions[m].by = events[i].by
          /\ rateLock[events[i].subject].actions[n].by = events[j].by
    BY <1>6 DEF HInv, HistoryExplainsLedger
  <2>2. rateLock[events[i].subject] # NoLock
    BY DEF HInv
  <2>3. QED
    BY <1>2, <1>3, <2>1, <2>2
<1>7. HistoryExplainsLedger'
  BY <1>6 DEF HistoryExplainsLedger
<1>8. QED
  BY <1>4, <1>5, <1>7 DEF HInv, HasEntry, EndsWith

\* Steps that save nothing and finish nothing.
LEMMA RestExplains ==
  ASSUME HInv, UNCHANGED <<rateLock, events>>,
         \A q \in Requests : phase'[q] \in {"written", "linked"} =>
           phase[q] \in {"written", "linked"} /\ call'[q] = call[q]
  PROVE  HInv'
BY DEF HInv, HasEntry, EndsWith, HistoryExplainsLedger

LEMMA FinishExplains ==
  ASSUME IInv, HInv, NEW r \in Requests, CreateEvent(r)
  PROVE  HInv'
<1>1. /\ phase[r] = "linked"
      /\ events' \in Appended(events, EventOf(r), prevHash[r])
      /\ phase' = [phase EXCEPT ![r] = "done"]
      /\ UNCHANGED <<rateLock, call, snapshot, prevHash>>
  BY DEF CreateEvent
<1>2. call[r] \in Call /\ rateLock[call[r].lock] \in Row
  BY <1>1 DEF IInv, RequestsAreSound
<1>3. EventOf(r) \in [tenant : Tenants, loan : Loans, subject : LockIds,
                      type : {EventType[op] : op \in Ops}, by : Requests]
  BY <1>2 DEF EventOf, Call, Row
<1>4. events \in Seq(EventRow) /\ prevHash[r] \in Nat
  BY DEF IInv, TypeOK
<1>5. PICK e \in EventRow :
        /\ events' = Append(events, e)
        /\ e.subject = call[r].lock /\ e.by = r
  BY <1>1, <1>3, <1>4, AppendedRow DEF EventOf
<1> DEFINE new == Len(events) + 1
           l == call[r].lock
           h == rateLock[l].actions
<1>6. /\ DOMAIN events = 1..Len(events) /\ Len(events) \in Nat
      /\ DOMAIN events' = 1..new
      /\ \A i \in 1..Len(events) : events'[i] = events[i]
      /\ events'[new] = e
  BY <1>4, <1>5
<1>7. EndsWith(h, r) /\ h \in Seq(Entry) /\ rateLock[l] # NoLock
  BY <1>1, <1>2, NullAssumption DEF HInv, Row
<1>8. Len(h) \in DOMAIN h /\ h[Len(h)].by = r /\ DOMAIN h = 1..Len(h) /\ Len(h) \in Nat
  BY <1>7 DEF EndsWith
\* Of the lock's events this one has the last entry.
<1>9. ASSUME NEW i \in 1..Len(events), events[i].subject = l
      PROVE  \E m \in DOMAIN h : m < Len(h) /\ h[m].by = events[i].by
  <2>1. PICK m \in DOMAIN h : h[m].by = events[i].by
    BY <1>6, <1>9 DEF HInv, HasEntry
  <2>2. events[i].by # r
    BY <1>1, <1>6 DEF IInv, LedgerIsSound
  <2>3. m # Len(h)
    BY <1>8, <2>1, <2>2
  <2>4. QED
    BY <1>8, <2>1, <2>3
<1>10. ASSUME NEW i \in 1..new
       PROVE  /\ rateLock[events'[i].subject] # NoLock
              /\ HasEntry(rateLock[events'[i].subject].actions, events'[i].by)
  <2>1. CASE i = new
    BY <1>5, <1>6, <1>7, <1>8, <2>1 DEF HasEntry
  <2>2. CASE i \in 1..Len(events)
    BY <1>6, <2>2 DEF HInv
  <2>3. QED
    BY <1>6, <2>1, <2>2
<1>11. ASSUME NEW i \in 1..new, NEW j \in 1..new, i < j,
              events'[i].subject = events'[j].subject
       PROVE  LET a == rateLock[events'[i].subject].actions
              IN  \E m, n \in DOMAIN a :
                    m < n /\ a[m].by = events'[i].by /\ a[n].by = events'[j].by
  <2>1. i \in 1..Len(events) /\ (j = new \/ j \in 1..Len(events))
    BY <1>6, <1>11
  <2>2. CASE j = new
    <3>1. events'[i] = events[i] /\ events[i].subject = l /\ events'[j].by = r
      BY <1>5, <1>6, <1>11, <2>1, <2>2
    <3>2. PICK m \in DOMAIN h : m < Len(h) /\ h[m].by = events[i].by
      BY <1>9, <2>1, <3>1
    <3>3. QED
      BY <1>8, <3>1, <3>2
  <2>3. CASE j \in 1..Len(events)
    <3>1. events'[i] = events[i] /\ events'[j] = events[j]
      BY <1>6, <2>1, <2>3
    <3>2. QED
      BY <1>6, <1>11, <2>1, <2>3, <3>1 DEF HInv, HistoryExplainsLedger
  <2>4. QED
    BY <2>1, <2>2, <2>3
<1>12. ASSUME NEW q \in Requests, phase'[q] \in {"written", "linked"}
       PROVE  EndsWith(rateLock[call[q].lock].actions, q)
  <2>1. phase[q] \in {"written", "linked"}
    BY <1>1, <1>12 DEF IInv, TypeOK
  <2>2. QED
    BY <2>1 DEF HInv
<1>13. HistoryExplainsLedger'
  BY <1>1, <1>6, <1>11 DEF HistoryExplainsLedger
<1>14. QED
  BY <1>1, <1>6, <1>10, <1>12, <1>13 DEF HInv, HasEntry, EndsWith

\* What appending an element does to a sequence.
LEMMA AppendFacts ==
  ASSUME NEW E, NEW g \in Seq(E), NEW e \in E, NEW h, h = Append(g, e)
  PROVE  /\ h \in Seq(E) /\ Len(h) = Len(g) + 1
         /\ h[Len(h)] = e
         /\ \A m \in 1..Len(g) : m \in 1..Len(h) /\ h[m] = g[m]
<1>1. h \in Seq(E) /\ Len(h) = Len(g) + 1
  OBVIOUS
<1>2. h[Len(h)] = e
  OBVIOUS
<1>3. ASSUME NEW m \in 1..Len(g) PROVE m \in 1..Len(h) /\ h[m] = g[m]
  BY <1>3
<1>4. QED
  BY <1>1, <1>2, <1>3

LEMMA NextExplains ==
  ASSUME MaxInFlight = 1, IInv, SnapshotIsCurrent, HInv, [Next]_vars
  PROVE  HInv'
<1>1. ASSUME NEW r \in Requests, NEW t \in Tenants, NEW l \in LockIds, NEW n \in Loans,
             NEW p \in Periods, createLock(r, t, l, n, p)
      PROVE  HInv'
  <2> DEFINE h == appendAction([actions |-> <<>>], "create", r)
             new == [tenant |-> t, loan |-> n, status |-> "locked", expiresAt |-> p,
                     lockPeriodDays |-> p, price |-> 0, actions |-> h]
  <2>1. /\ rateLock[l] = NoLock /\ rateLock' = [rateLock EXCEPT ![l] = new]
        /\ phase' = [phase EXCEPT ![r] = "written"] /\ events' = events
        /\ call' = [call EXCEPT ![r] = [op |-> "create", tenant |-> t, lock |-> l,
                                        days |-> 0, scoped |-> FALSE]]
    BY <1>1 DEF createLock
  <2>2. h = <<[type |-> "create", by |-> r]>>
    BY DEF appendAction
  <2>3. EndsWith(new.actions, r)
    BY <2>2 DEF EndsWith
  <2>4. new # NoLock
    <3>1. h \in Seq(Entry)
      <4>1. [type |-> "create", by |-> r] \in Entry
        BY DEF Entry, Ops
      <4> HIDE DEF h
      <4>2. QED
        BY <2>2, <4>1
    <3>2. p \in Nat
      BY RateLocksAssumption
    <3>3. new \in Row
      <4> HIDE DEF h
      <4>1. QED
        BY <3>1, <3>2 DEF Row, Statuses
    <3>4. QED
      BY <3>3, NullAssumption
  <2>5. call'[r].lock = l
    BY <2>1 DEF IInv, TypeOK
  <2>6. InFlight = {}
    BY <1>1, ArrivesAlone DEF createLock
  <2>7. \A q \in Requests \ {r} : phase'[q] \notin {"written", "linked"}
    BY <2>1, <2>6 DEF InFlight, IInv, TypeOK
  <2> HIDE DEF new
  <2>8. QED
    BY <2>1, <2>3, <2>4, <2>5, <2>7, SaveExplains
<1>2. ASSUME NEW r \in Requests, NEW op \in Ops, NEW row, Update(r, op, row),
             row \in Row
      PROVE  HInv'
  <2> DEFINE l == call[r].lock
             h == appendAction(snapshot[r], op, r)
             new == [row EXCEPT !.status = StatusAfter[op], !.actions = h]
  <2>1. /\ phase[r] = "found"
        /\ rateLock' = [rateLock EXCEPT ![l] = new]
        /\ phase' = [phase EXCEPT ![r] = "written"]
        /\ UNCHANGED <<call, events>>
    BY <1>2 DEF Update
  <2>2. /\ l \in LockIds /\ snapshot[r] \in Row /\ snapshot[r] = rateLock[l]
    BY <2>1 DEF IInv, RequestsAreSound, Call, SnapshotIsCurrent
  <2>3. rateLock[l].actions \in Seq(Entry)
    BY <2>2 DEF Row
  <2>4. [type |-> op, by |-> r] \in Entry
    BY DEF Entry
  <2>5. /\ h \in Seq(Entry) /\ EndsWith(h, r)
        /\ \A m \in DOMAIN rateLock[l].actions :
             m \in DOMAIN h /\ h[m] = rateLock[l].actions[m]
    <3>1. h = Append(rateLock[l].actions, [type |-> op, by |-> r])
      BY <2>2 DEF appendAction
    <3> HIDE DEF h
    <3>2. /\ h \in Seq(Entry) /\ Len(h) = Len(rateLock[l].actions) + 1
          /\ h[Len(h)] = [type |-> op, by |-> r]
          /\ \A m \in 1..Len(rateLock[l].actions) :
               m \in 1..Len(h) /\ h[m] = rateLock[l].actions[m]
      <4>1. PICK g, e, k : /\ g = rateLock[l].actions /\ e = [type |-> op, by |-> r]
                          /\ k = h
        OBVIOUS
      <4>2. g \in Seq(Entry) /\ e \in Entry /\ k = Append(g, e)
        BY <2>3, <2>4, <3>1, <4>1
      <4>3. /\ k \in Seq(Entry) /\ Len(k) = Len(g) + 1 /\ k[Len(k)] = e
            /\ \A m \in 1..Len(g) : m \in 1..Len(k) /\ k[m] = g[m]
        BY <4>2, AppendFacts
      <4>4. QED
        BY <4>1, <4>3
    <3>3. /\ DOMAIN h = 1..Len(h)
          /\ DOMAIN rateLock[l].actions = 1..Len(rateLock[l].actions)
      BY <2>3, <3>2
    <3>4. EndsWith(h, r)
      BY <2>3, <3>2, <3>3 DEF EndsWith
    <3>5. QED
      BY <3>2, <3>3, <3>4
  <2> HIDE DEF h
  <2>6. new.actions = h /\ new # NoLock
    <3>1. StatusAfter[op] \in Statuses
      BY DEF StatusAfter, Ops, Statuses
    <3>2. new \in Row /\ new.actions = h
      BY <1>2, <2>5, <3>1 DEF Row
    <3>3. QED
      BY <3>2, NullAssumption
  <2>7. \A q \in Requests \ {r} : phase'[q] \notin {"written", "linked"}
    BY <2>1 DEF SnapshotIsCurrent, InFlight, IInv, TypeOK
  <2>8. call'[r].lock = l
    BY <2>1
  <2> HIDE DEF new
  <2>9. EndsWith(new.actions, r)
    BY <2>5, <2>6
  <2>10. \A m \in DOMAIN rateLock[l].actions :
           m \in DOMAIN new.actions /\ new.actions[m] = rateLock[l].actions[m]
    BY <2>5, <2>6
  <2> HIDE DEF l
  <2>11. QED
    BY <2>1, <2>2, <2>6, <2>7, <2>8, <2>9, <2>10, SaveExplains
<1>3. ASSUME NEW r \in Requests, phase[r] = "found"
      PROVE  /\ rateLock[call[r].lock] \in Row /\ snapshot[r] \in Row
             /\ call[r].days \in Nat
  BY <1>3, DaysAreNat DEF IInv, RequestsAreSound
<1>4. ASSUME NEW r \in Requests, extendLock(r) PROVE HInv'
  <2> DEFINE row == [rateLock[call[r].lock] EXCEPT
                       !.expiresAt = snapshot[r].expiresAt + call[r].days]
  <2>1. Update(r, "extend", row) /\ phase[r] = "found"
    BY <1>4 DEF extendLock, Update
  <2>2. row \in Row
    <3>1. snapshot[r].expiresAt \in Nat /\ call[r].days \in Nat
      BY <1>3, <2>1 DEF Row
    <3>2. snapshot[r].expiresAt + call[r].days \in Nat
      BY <3>1
    <3>3. QED
      BY <1>3, <2>1, <3>2 DEF Row
  <2> HIDE DEF row
  <2>3. QED
    BY <1>2, <2>1, <2>2 DEF Ops
<1>5. ASSUME NEW r \in Requests, floatDown(r) PROVE HInv'
  <2> DEFINE row == [rateLock[call[r].lock] EXCEPT !.price = snapshot[r].price + 1]
  <2>1. Update(r, "float_down", row) /\ phase[r] = "found"
    BY <1>5 DEF floatDown, Update
  <2>2. row \in Row
    <3>1. snapshot[r].price \in Nat
      BY <1>3, <2>1 DEF Row
    <3>2. snapshot[r].price + 1 \in Nat
      BY <3>1
    <3>3. QED
      BY <1>3, <2>1, <3>2 DEF Row
  <2> HIDE DEF row
  <2>3. QED
    BY <1>2, <2>1, <2>2 DEF Ops
<1>6. ASSUME NEW r \in Requests, voidLock(r) PROVE HInv'
  <2>1. Update(r, "void", rateLock[call[r].lock]) /\ phase[r] = "found"
    BY <1>6 DEF voidLock, Update
  <2>2. QED
    BY <1>2, <1>3, <2>1 DEF Ops
<1>7. ASSUME NEW r \in Requests, NEW c, FindLock(r, c) \/ Refuse(r, c) PROVE HInv'
  <2>1. /\ UNCHANGED <<rateLock, events>>
        /\ call' = [call EXCEPT ![r] = c]
        /\ \E p \in {"found", "refused"} : phase' = [phase EXCEPT ![r] = p]
    BY <1>7 DEF FindLock, Refuse
  <2>2. \A q \in Requests : phase'[q] \in {"written", "linked"} =>
          phase[q] \in {"written", "linked"} /\ call'[q] = call[q]
    BY <2>1 DEF IInv, TypeOK
  <2>3. QED
    BY <2>1, <2>2, RestExplains
<1>8. ASSUME NEW r \in Requests, FindLatestEvent(r) \/ Fail(r) PROVE HInv'
  <2>1. /\ UNCHANGED <<rateLock, events, call>>
        /\ \/ phase' = [phase EXCEPT ![r] = "failed"]
           \/ phase[r] = "written" /\ phase' = [phase EXCEPT ![r] = "linked"]
    BY <1>8 DEF FindLatestEvent, Fail
  <2>2. \A q \in Requests : phase'[q] \in {"written", "linked"} =>
          phase[q] \in {"written", "linked"} /\ call'[q] = call[q]
    BY <2>1 DEF IInv, TypeOK
  <2>3. QED
    BY <2>1, <2>2, RestExplains
<1>9. CASE UNCHANGED vars
  BY <1>9, RestExplains DEF vars
<1>10. QED
  BY <1>1, <1>4, <1>5, <1>6, <1>7, <1>8, <1>9, FinishExplains DEF Next, Quiescent, Begin

\* With one request at a time the history of a lock holds the requests behind its events,
\* in the order of the ledger: LocksService writes the row before recordEvent, and so a
\* failure between the two leaves an entry without event, never the reverse.
THEOREM HistoryExplains ==
  ASSUME MaxInFlight = 1
  PROVE  Spec => []HistoryExplainsLedger
<1>1. Init => SnapshotIsCurrent /\ HInv
  BY DEF Init, SnapshotIsCurrent, InFlight, HInv, HistoryExplainsLedger
<1>2. IInv /\ SnapshotIsCurrent /\ HInv /\ [Next]_vars => SnapshotIsCurrent' /\ HInv'
  BY SnapshotStaysCurrent, NextExplains
<1>3. HInv => HistoryExplainsLedger
  BY DEF HInv
<1>4. QED
  BY <1>1, <1>2, <1>3, Invariance, PTL DEF Spec
=============================================================================
