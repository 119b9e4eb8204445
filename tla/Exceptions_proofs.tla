-------------------------- MODULE Exceptions_proofs --------------------------
(***************************************************************************)
(* Proofs about Exceptions for every number of requests, exceptions, users *)
(* and tenants.                                                            *)
(***************************************************************************)
EXTENDS Exceptions, SequenceTheorems, TLAPS

\* What recordEvent reads is a position.
LEMMA LatestType ==
  ASSUME NEW evs, DOMAIN evs \subseteq Nat, NEW t
  PROVE  LatestOfTenant(evs, t) \subseteq Nat
  BY DEF LatestOfTenant, Newest, GENESIS

\* An insert appends a well-formed row.
LEMMA AppendedType ==
  ASSUME NEW evs \in Seq(EventRow), NEW prev \in Nat,
         NEW row \in [tenant : Tenants, loan : Loans, subject : ExceptionIds,
                      type : {EventType[op] : op \in Ops}, by : Requests]
  PROVE  Appended(evs, row, prev) \subseteq Seq(EventRow)
<1> SUFFICES ASSUME NEW evs2 \in Appended(evs, row, prev) PROVE evs2 \in Seq(EventRow)
  OBVIOUS
<1>1. PICK p \in TriggerPrev(evs, row.tenant, row.loan, prev), d \in StampSteps :
        evs2 = Append(evs, [tenant |-> row.tenant, loan |-> row.loan,
                 subject |-> row.subject, type |-> row.type, by |-> row.by, prev |-> p,
                 at |-> (IF evs = <<>> THEN 0 ELSE evs[Len(evs)].at) + d])
  BY DEF Appended
<1>2. p \in Nat
  BY DEF TriggerPrev, Newest, GENESIS
<1>3. (IF evs = <<>> THEN 0 ELSE evs[Len(evs)].at) \in Nat
  <2>1. CASE evs # <<>>
    <3>1. evs[Len(evs)] \in EventRow
      BY <2>1
    <3>2. QED
      BY <2>1, <3>1 DEF EventRow
  <2>2. QED
    BY <2>1
<1>4. d \in Nat
  BY StampStepsAssumption
<1>5. QED
  BY <1>1, <1>2, <1>3, <1>4 DEF EventRow

LEMMA AppendOne ==
  ASSUME NEW S, NEW a \in S, NEW b \in S
  PROVE  Append(<<a>>, b) = <<a, b>> /\ <<a, b>> \in Seq(S)
<1>1. <<a, b>> \in Seq(S)
  OBVIOUS
<1>2. Append(<<a>>, b) = <<a, b>>
  <2> DEFINE t == Append(<<a>>, b)
  <2>1. <<a>> \in Seq(S) /\ Len(<<a>>) = 1
    OBVIOUS
  <2>2. t \in Seq(S) /\ Len(t) = 2 /\ t[1] = a /\ t[2] = b
    BY <2>1
  <2> HIDE DEF t
  <2>3. t = <<a, b>>
    BY <2>2, <1>1
  <2>4. QED
    BY <2>3 DEF t
<1>3. QED
  BY <1>1, <1>2

-----------------------------------------------------------------------------
(* The inductive invariant *)

Asked(e) == [action |-> "requested", actor |-> e.requestedBy]

\* What a request under way relies on: its exception exists and belongs to its
\* tenant, and a snapshot it will decide on is that of the pending exception,
\* whatever the exception has become since.
RequestsAreSound ==
  \A r \in Requests :
    /\ phase[r] # "idle" => call[r] \in Call
    /\ phase[r] \in {"found", "written", "linked"} =>
         /\ exception[call[r].id] \in Row
         /\ exception[call[r].id].tenant = call[r].tenant
    /\ phase[r] = "found" =>
         /\ call[r].scoped
         /\ snapshot[r].auditTrail = <<Asked(exception[call[r].id])>>

IInv ==
  /\ TypeOK
  /\ RequestsAreSound
  /\ DecisionIsWhole
  /\ DecisionIsAuthorised

LEMMA InitIInv == Init => IInv
<1> SUFFICES ASSUME Init PROVE IInv
  OBVIOUS
<1>1. TypeOK
  BY DEF Init, TypeOK, GENESIS
<1>2. RequestsAreSound
  BY DEF Init, RequestsAreSound
<1>3. DecisionIsWhole /\ DecisionIsAuthorised
  BY DEF Init, DecisionIsWhole, DecisionIsAuthorised, Existing
<1>4. QED
  BY <1>1, <1>2, <1>3 DEF IInv

\* A request that has decided is the witness of the decision from then on.
Witness(r, x) ==
  /\ phase[r] \in {"written", "linked", "done", "failed"}
  /\ call[r].id = x /\ call[r].tenant = exception[x].tenant
  /\ call[r].user = exception[x].approverUserId
  /\ call[r].scoped /\ ActionOf[call[r].op] = exception[x].status

\* Decisions stay authorised while the exceptions stay as they are and the
\* requests that decided keep their call and do not go back.
LEMMA AuthorisedStable ==
  ASSUME DecisionIsAuthorised, UNCHANGED exception,
         \A q \in Requests : phase[q] \in {"written", "linked", "done", "failed"} =>
           call'[q] = call[q] /\ phase'[q] \in {"written", "linked", "done", "failed"}
  PROVE  DecisionIsAuthorised'
  BY DEF DecisionIsAuthorised, Existing, ActionOf

\* A new exception is pending, and no request under way works on its id.
LEMMA CreateKeepsIInv ==
  ASSUME IInv, NEW r \in Requests, NEW c \in Call \ Decision, NEW n \in Loans,
         create(r, c, n)
  PROVE  IInv'
<1> DEFINE x == c.id
           trail == <<[action |-> "requested", actor |-> c.user]>>
           new == [tenant |-> c.tenant, loan |-> n, status |-> "pending",
                   requestedBy |-> c.user, approverUserId |-> NoUser, auditTrail |-> trail]
<1>1. /\ phase[r] = "idle" /\ exception[x] = NoException
      /\ exception' = [exception EXCEPT ![x] = new]
      /\ call' = [call EXCEPT ![r] = c]
      /\ phase' = [phase EXCEPT ![r] = "written"]
      /\ UNCHANGED <<snapshot, prevHash, events>>
  BY DEF create, Arrive
<1>2. c \in Call /\ x \in ExceptionIds /\ c.tenant \in Tenants /\ c.user \in Users
  BY DEF Call
<1>3. new \in Row /\ new # NoException
  <2>1. [action |-> "requested", actor |-> c.user] \in Entry
    BY <1>2 DEF Entry, ActionOf, Ops
  <2>2. trail \in Seq(Entry)
    BY <2>1
  <2>3. new \in Row
    BY <1>2, <2>2 DEF Row, Statuses
  <2>4. QED
    BY <2>3, NullAssumption
<1>4. TypeOK'
  BY <1>1, <1>2, <1>3 DEF IInv, TypeOK
<1>5. RequestsAreSound'
  <2>1. \A q \in Requests : phase[q] \in {"found", "written", "linked"} =>
          q # r /\ call[q].id # x
    BY <1>1, NullAssumption DEF IInv, RequestsAreSound
  <2>2. ASSUME NEW q \in Requests, q # r, phase[q] \in {"found", "written", "linked"}
        PROVE  /\ call[q].id \in ExceptionIds
               /\ exception'[call[q].id] = exception[call[q].id]
    BY <1>1, <2>1, <2>2 DEF IInv, RequestsAreSound, TypeOK, Call
  <2>3. exception'[x] = new /\ call'[r] = c /\ phase'[r] = "written"
    BY <1>1, <1>2 DEF IInv, TypeOK
  <2>4. \A q \in Requests : q # r => call'[q] = call[q] /\ phase'[q] = phase[q]
    BY <1>1 DEF IInv, TypeOK
  <2>5. ASSUME NEW q \in Requests, q # r
        PROVE  /\ phase'[q] # "idle" => call'[q] \in Call
               /\ phase'[q] \in {"found", "written", "linked"} =>
                    /\ exception'[call'[q].id] \in Row
                    /\ exception'[call'[q].id].tenant = call'[q].tenant
               /\ phase'[q] = "found" =>
                    /\ call'[q].scoped
                    /\ snapshot'[q].auditTrail = <<Asked(exception'[call'[q].id])>>
    BY <1>1, <2>2, <2>4, <2>5 DEF IInv, RequestsAreSound
  <2>6. /\ call'[r] \in Call /\ phase'[r] # "found"
        /\ exception'[call'[r].id] \in Row
        /\ exception'[call'[r].id].tenant = call'[r].tenant
    BY <1>2, <1>3, <2>3
  <2>7. QED
    BY <2>5, <2>6 DEF RequestsAreSound, Asked
<1>6. DecisionIsWhole'
  BY <1>1, <1>2 DEF IInv, TypeOK, DecisionIsWhole, Existing
<1>7. DecisionIsAuthorised'
  <2>1. ASSUME NEW y \in ExceptionIds, y # x, exception[y] # NoException,
               exception[y].status # "pending"
        PROVE  \E q \in Requests : Witness(q, y)'
    <3>1. PICK q \in Requests : Witness(q, y)
      BY <2>1 DEF IInv, DecisionIsAuthorised, Existing, Witness
    <3>2. QED
      BY <1>1, <1>2, <2>1, <3>1 DEF Witness, IInv, TypeOK, ActionOf
  <2>2. QED
    BY <1>1, <1>2, <2>1 DEF IInv, TypeOK, DecisionIsAuthorised, Existing, Witness
<1>8. QED
  BY <1>4, <1>5, <1>6, <1>7 DEF IInv

\* The read lets a request through to its decision only on a pending row.
LEMMA FindKeepsIInv ==
  ASSUME IInv, NEW r \in Requests, NEW c \in Decision, Find(r, c) \/ Refuse(r, c)
  PROVE  IInv'
<1>1. /\ phase[r] = "idle"
      /\ call' = [call EXCEPT ![r] = c]
      /\ UNCHANGED <<exception, prevHash, events>>
      /\ \/ /\ c.scoped /\ exception[c.id] # NoException
            /\ exception[c.id].tenant = c.tenant
            /\ snapshot' = [snapshot EXCEPT ![r] = exception[c.id]]
            /\ phase' = [phase EXCEPT ![r] =
                 IF exception[c.id].status = "pending" THEN "found" ELSE "returned"]
         \/ /\ UNCHANGED snapshot
            /\ phase' = [phase EXCEPT ![r] = "refused"]
  BY DEF Find, Refuse, Arrive, Visible
<1>2. c \in Call /\ c.id \in ExceptionIds
  BY DEF Decision, Call
<1>3. TypeOK'
  BY <1>1, <1>2 DEF IInv, TypeOK
<1>4. RequestsAreSound'
  <2>1. exception[c.id] # NoException =>
          /\ exception[c.id] \in Row
          /\ exception[c.id].status = "pending" =>
               exception[c.id].auditTrail = <<Asked(exception[c.id])>>
    BY <1>2 DEF IInv, TypeOK, DecisionIsWhole, Existing, Asked
  <2>2. QED
    BY <1>1, <1>2, <2>1 DEF IInv, RequestsAreSound, TypeOK, Asked
<1>5. DecisionIsWhole'
  BY <1>1 DEF IInv, DecisionIsWhole, Existing
<1>6. DecisionIsAuthorised'
  BY <1>1, AuthorisedStable DEF IInv, TypeOK
<1>7. QED
  BY <1>3, <1>4, <1>5, <1>6 DEF IInv

\* A decision replaces the status, the approver and the trail together, and
\* the trail it writes holds the request and itself, even over another one.
LEMMA DecideKeepsIInv ==
  ASSUME IInv, NEW r \in Requests, NEW op \in {"approve", "deny"},
         Decide(r, op, ActionOf[op])
  PROVE  IInv'
<1> DEFINE x == call[r].id
           old == exception[x]
           e == [action |-> ActionOf[op], actor |-> call[r].user]
           new == [old EXCEPT !.status = ActionOf[op], !.approverUserId = call[r].user,
                              !.auditTrail = Append(snapshot[r].auditTrail, e)]
<1>1. /\ phase[r] = "found" /\ call[r].op = op
      /\ exception' = [exception EXCEPT ![x] = new]
      /\ phase' = [phase EXCEPT ![r] = "written"]
      /\ UNCHANGED <<call, snapshot, prevHash, events>>
  BY DEF Decide
<1>2. /\ call[r] \in Call /\ old \in Row /\ old.tenant = call[r].tenant /\ call[r].scoped
      /\ snapshot[r].auditTrail = <<Asked(old)>>
  BY <1>1 DEF IInv, RequestsAreSound
<1>3. x \in ExceptionIds /\ call[r].user \in Users /\ old.requestedBy \in Users
  BY <1>2 DEF Call, Row
<1>4. Asked(old) \in Entry /\ e \in Entry
  BY <1>3 DEF Asked, Entry, ActionOf, Ops
<1>5. /\ Append(snapshot[r].auditTrail, e) = <<Asked(old), e>>
      /\ <<Asked(old), e>> \in Seq(Entry)
  <2> HIDE DEF e
  <2>1. QED
    BY <1>2, <1>4, AppendOne
<1>6. ActionOf[op] \in {"approved", "denied"} /\ ActionOf[op] \in Statuses
  BY DEF ActionOf, Ops, Statuses
<1>7. /\ new \in Row /\ new # NoException
      /\ new.tenant = old.tenant /\ new.requestedBy = old.requestedBy
      /\ new.status = ActionOf[op] /\ new.approverUserId = call[r].user
      /\ new.auditTrail = <<Asked(old), e>>
  <2>1. /\ new \in Row
        /\ new.tenant = old.tenant /\ new.requestedBy = old.requestedBy
        /\ new.status = ActionOf[op] /\ new.approverUserId = call[r].user
        /\ new.auditTrail = <<Asked(old), e>>
    BY <1>2, <1>3, <1>5, <1>6 DEF Row
  <2>2. QED
    BY <2>1, NullAssumption
<1> HIDE DEF new
<1>8. TypeOK'
  BY <1>1, <1>3, <1>7 DEF IInv, TypeOK
<1>9. RequestsAreSound'
  BY <1>1, <1>2, <1>3, <1>7 DEF IInv, RequestsAreSound, TypeOK, Asked
<1>10. DecisionIsWhole'
  <2>1. \A y \in ExceptionIds : y # x => exception'[y] = exception[y]
    BY <1>1 DEF IInv, TypeOK
  <2>2. exception'[x] = new
    BY <1>1, <1>3 DEF IInv, TypeOK
  <2>3. QED
    BY <1>3, <1>6, <1>7, <2>1, <2>2 DEF IInv, DecisionIsWhole, Existing, Asked
<1>11. DecisionIsAuthorised'
  <2>1. ASSUME NEW y \in ExceptionIds, y # x, exception[y] # NoException,
               exception[y].status # "pending"
        PROVE  \E q \in Requests : Witness(q, y)'
    <3>1. PICK q \in Requests : Witness(q, y)
      BY <2>1 DEF IInv, DecisionIsAuthorised, Existing, Witness
    <3>2. QED
      BY <1>1, <1>3, <2>1, <3>1 DEF Witness, IInv, TypeOK, ActionOf
  <2>2. Witness(r, x)'
    BY <1>1, <1>2, <1>3, <1>7 DEF Witness, IInv, TypeOK, ActionOf
  <2>3. QED
    BY <1>1, <1>3, <2>1, <2>2 DEF IInv, TypeOK, DecisionIsAuthorised, Existing, Witness
<1>12. QED
  BY <1>8, <1>9, <1>10, <1>11 DEF IInv

\* recordEvent, and failures, leave the exceptions alone.
LEMMA RequestOnlyKeepsRest ==
  ASSUME IInv, NEW r \in Requests, NEW p, r \in InFlight,
         p \in {"linked", "done", "failed"},
         p # "failed" => phase[r] # "found",
         phase' = [phase EXCEPT ![r] = p], UNCHANGED <<exception, call, snapshot>>
  PROVE  RequestsAreSound' /\ DecisionIsWhole' /\ DecisionIsAuthorised'
<1>1. RequestsAreSound'
  BY DEF IInv, RequestsAreSound, TypeOK, InFlight, Asked
<1>2. DecisionIsWhole'
  BY DEF IInv, DecisionIsWhole, Existing
<1>3. DecisionIsAuthorised'
  BY AuthorisedStable DEF IInv, TypeOK
<1>4. QED
  BY <1>1, <1>2, <1>3

LEMMA FindLatestKeepsIInv ==
  ASSUME IInv, NEW r \in Requests, FindLatestEvent(r)
  PROVE  IInv'
<1>1. /\ phase[r] = "written"
      /\ phase' = [phase EXCEPT ![r] = "linked"]
      /\ UNCHANGED <<exception, call, snapshot, events>>
      /\ \E h \in LatestOfTenant(events, call[r].tenant) :
           prevHash' = [prevHash EXCEPT ![r] = h]
  BY DEF FindLatestEvent
<1>2. LatestOfTenant(events, call[r].tenant) \subseteq Nat
  <2>1. DOMAIN events \subseteq Nat
    BY DEF IInv, TypeOK
  <2>2. QED
    BY <2>1, LatestType
<1>3. TypeOK'
  BY <1>1, <1>2 DEF IInv, TypeOK
<1>4. QED
  BY <1>1, <1>3, RequestOnlyKeepsRest DEF IInv, InFlight

LEMMA CreateEventKeepsIInv ==
  ASSUME IInv, NEW r \in Requests, CreateEvent(r)
  PROVE  IInv'
<1>1. /\ phase[r] = "linked"
      /\ events' \in Appended(events, EventOf(r), prevHash[r])
      /\ phase' = [phase EXCEPT ![r] = "done"]
      /\ UNCHANGED <<exception, call, snapshot, prevHash>>
  BY DEF CreateEvent
<1>2. call[r] \in Call /\ exception[call[r].id] \in Row
  BY <1>1 DEF IInv, RequestsAreSound
<1>3. EventOf(r) \in [tenant : Tenants, loan : Loans, subject : ExceptionIds,
                      type : {EventType[op] : op \in Ops}, by : Requests]
  BY <1>2 DEF EventOf, Call, Row
<1>4. events' \in Seq(EventRow)
  <2>1. events \in Seq(EventRow) /\ prevHash[r] \in Nat
    BY DEF IInv, TypeOK
  <2>2. QED
    BY <1>1, <1>3, <2>1, AppendedType
<1>5. TypeOK'
  BY <1>1, <1>4 DEF IInv, TypeOK
<1>6. QED
  BY <1>1, <1>5, RequestOnlyKeepsRest DEF IInv, InFlight

LEMMA FailKeepsIInv ==
  ASSUME IInv, NEW r \in Requests, Fail(r)
  PROVE  IInv'
<1>1. /\ r \in InFlight
      /\ phase' = [phase EXCEPT ![r] = "failed"]
      /\ UNCHANGED <<exception, call, snapshot, prevHash, events>>
  BY DEF Fail
<1>2. TypeOK'
  BY <1>1 DEF IInv, TypeOK
<1>3. QED
  BY <1>1, <1>2, RequestOnlyKeepsRest DEF IInv

LEMMA NextKeepsIInv == IInv /\ [Next]_vars => IInv'
<1> SUFFICES ASSUME IInv, [Next]_vars PROVE IInv'
  OBVIOUS
<1>1. ASSUME NEW r \in Requests, Begin(r) PROVE IInv'
  BY <1>1, CreateKeepsIInv, FindKeepsIInv DEF Begin
<1>2. ASSUME NEW r \in Requests, approve(r) PROVE IInv'
  <2>1. Decide(r, "approve", ActionOf["approve"])
    BY <1>2 DEF approve, ActionOf
  <2>2. QED
    BY <2>1, DecideKeepsIInv
<1>3. ASSUME NEW r \in Requests, deny(r) PROVE IInv'
  <2>1. Decide(r, "deny", ActionOf["deny"])
    BY <1>3 DEF deny, ActionOf
  <2>2. QED
    BY <2>1, DecideKeepsIInv
<1>4. CASE UNCHANGED vars
  BY <1>4 DEF vars, IInv, TypeOK, RequestsAreSound, DecisionIsWhole, DecisionIsAuthorised,
              Existing, Asked
<1>5. QED
  BY <1>1, <1>2, <1>3, <1>4, FindLatestKeepsIInv, CreateEventKeepsIInv, FailKeepsIInv
  DEF Next, Quiescent

-----------------------------------------------------------------------------
(* The invariants *)

LEMMA Invariance == Spec => []IInv
<1>1. QED
  BY InitIInv, NextKeepsIInv, PTL DEF Spec

\* The tables keep their types, the check constraint on status included.
THEOREM TypeCorrect == Spec => []TypeOK
<1>1. IInv => TypeOK
  BY DEF IInv
<1>2. QED
  BY <1>1, Invariance, PTL

\* However ExceptionsService's decisions race and fail, an exception shows its
\* request alone, or its request and exactly one decision in all three columns.
THEOREM DecisionWhole == Spec => []DecisionIsWhole
<1>1. IInv => DecisionIsWhole
  BY DEF IInv
<1>2. QED
  BY <1>1, Invariance, PTL

\* The decision on record is that of a request by a holder of the scope in the
\* tenant of the exception.
THEOREM DecisionAuthorised == Spec => []DecisionIsAuthorised
<1>1. IInv => DecisionIsAuthorised
  BY DEF IInv
<1>2. QED
  BY <1>1, Invariance, PTL

-----------------------------------------------------------------------------
(* Decisions settle *)

\* A request lets itself through on a pending exception only, so a decided one gets
\* no new decider; and an exception that is not decided upon keeps its row.
LEMMA SettledStays ==
  ASSUME IInv, [Next]_vars, NEW x \in ExceptionIds, Settled(x)
  PROVE  exception'[x] = exception[x] /\ Settled(x)'
<1>1. /\ exception[x] # NoException /\ exception[x].status # "pending"
      /\ \A q \in Requests : phase[q] = "found" => call[q].id # x
  BY DEF Settled, Existing
<1>2. SUFFICES /\ exception'[x] = exception[x]
               /\ \A q \in Requests : phase'[q] = "found" => call'[q].id # x
  BY <1>1, <1>2 DEF Settled, Existing
<1>3. ASSUME NEW r \in Requests, NEW c \in Call \ Decision, NEW n \in Loans, create(r, c, n)
      PROVE  /\ exception'[x] = exception[x]
             /\ \A q \in Requests : phase'[q] = "found" => call'[q].id # x
  <2>1. c.id # x /\ c.id \in ExceptionIds
    BY <1>1, <1>3 DEF create, Call
  <2>2. exception'[x] = exception[x]
    BY <1>3, <2>1 DEF create, IInv, TypeOK
  <2>3. \A q \in Requests : phase'[q] = "found" =>
          phase[q] = "found" /\ call'[q] = call[q]
    BY <1>3 DEF create, IInv, TypeOK
  <2>4. QED
    BY <1>1, <2>2, <2>3
<1>4. ASSUME NEW r \in Requests, NEW c \in Decision, Find(r, c) \/ Refuse(r, c)
      PROVE  /\ exception'[x] = exception[x]
             /\ \A q \in Requests : phase'[q] = "found" => call'[q].id # x
  <2>1. UNCHANGED exception /\ call' = [call EXCEPT ![r] = c]
    BY <1>4 DEF Find, Refuse
  <2>2. \A q \in Requests : q # r => phase'[q] = phase[q] /\ call'[q] = call[q]
    BY <1>4 DEF Find, Refuse, IInv, TypeOK
  <2>3. call'[r] = c
    BY <2>1 DEF IInv, TypeOK
  <2>4. phase'[r] = "found" => exception[c.id].status = "pending"
    BY <1>4 DEF Find, Refuse, IInv, TypeOK
  <2>5. QED
    BY <1>1, <2>1, <2>2, <2>3, <2>4
<1>5. ASSUME NEW r \in Requests, approve(r) \/ deny(r)
      PROVE  /\ exception'[x] = exception[x]
             /\ \A q \in Requests : phase'[q] = "found" => call'[q].id # x
  <2>1. /\ phase[r] = "found" /\ UNCHANGED call
        /\ phase' = [phase EXCEPT ![r] = "written"]
        /\ \A y \in ExceptionIds : y # call[r].id => exception'[y] = exception[y]
    BY <1>5 DEF approve, deny, Decide, IInv, TypeOK
  <2>2. QED
    BY <1>1, <2>1 DEF IInv, TypeOK
<1>6. ASSUME NEW r \in Requests, FindLatestEvent(r) \/ CreateEvent(r) \/ Fail(r)
      PROVE  /\ exception'[x] = exception[x]
             /\ \A q \in Requests : phase'[q] = "found" => call'[q].id # x
  <2>1. /\ UNCHANGED <<exception, call>>
        /\ \E p \in {"linked", "done", "failed"} : phase' = [phase EXCEPT ![r] = p]
    BY <1>6 DEF FindLatestEvent, CreateEvent, Fail
  <2>2. QED
    BY <1>1, <2>1 DEF IInv, TypeOK
<1>7. CASE UNCHANGED vars
  BY <1>1, <1>7 DEF vars
<1>8. QED
  BY <1>3, <1>4, <1>5, <1>6, <1>7 DEF Next, Begin, Quiescent

\* For any number of requests at a time: a decision is final once no other one that
\* was let through before it is under way.
THEOREM DecisionsSettle == Spec => DecisionSettles
<1>1. IInv /\ [Next]_vars =>
        [\A x \in ExceptionIds : Settled(x) => exception'[x] = exception[x] /\ Settled(x)']_vars
  BY SettledStays
<1>2. QED
  BY <1>1, Invariance, PTL DEF Spec, DecisionSettles

-----------------------------------------------------------------------------
(* The ledger *)

\* A finished request has its event, and events are of finished requests, one each.
LedgerInv ==
  /\ \A i \in DOMAIN events :
       /\ events[i].by \in Requests /\ phase[events[i].by] = "done"
       /\ events[i].subject = call[events[i].by].id
       /\ events[i].type = EventType[call[events[i].by].op]
  /\ \A i, j \in DOMAIN events : events[i].by = events[j].by => i = j
  /\ \A r \in Requests : phase[r] = "done" => \E i \in DOMAIN events : events[i].by = r

LEMMA LedgerStable ==
  ASSUME LedgerInv, UNCHANGED events,
         \A q \in Requests : (phase'[q] = "done") <=> (phase[q] = "done"),
         \A q \in Requests : phase[q] = "done" => call'[q] = call[q]
  PROVE  LedgerInv'
  BY DEF LedgerInv

LEMMA AppendPlaces ==
  ASSUME NEW S, NEW s \in Seq(S), NEW e
  PROVE  /\ DOMAIN Append(s, e) = DOMAIN s \cup {Len(s) + 1} /\ Len(s) + 1 \notin DOMAIN s
         /\ Append(s, e)[Len(s) + 1] = e
         /\ \A i \in DOMAIN s : Append(s, e)[i] = s[i]
<1>1. s \in Seq(S \cup {e}) /\ e \in S \cup {e}
  OBVIOUS
<1>2. Len(s) \in Nat /\ DOMAIN s = 1..Len(s)
  OBVIOUS
<1> DEFINE t == Append(s, e)
<1>3. /\ t \in Seq(S \cup {e}) /\ Len(t) = Len(s) + 1
      /\ \A i \in 1..Len(s) : t[i] = s[i]
      /\ t[Len(s) + 1] = e
  BY <1>1, AppendProperties
<1> HIDE DEF t
<1>4. DOMAIN t = 1..(Len(s) + 1)
  <2>1. t \in Seq(S \cup {e}) /\ Len(t) = Len(s) + 1
    BY <1>3
  <2>2. DOMAIN t = 1..Len(t)
    BY <2>1, LenProperties
  <2>3. QED
    BY <2>1, <2>2
<1>5. /\ DOMAIN t = DOMAIN s \cup {Len(s) + 1} /\ Len(s) + 1 \notin DOMAIN s
      /\ \A i \in DOMAIN s : t[i] = s[i]
  BY <1>2, <1>3, <1>4
<1>6. QED
  BY <1>3, <1>5 DEF t

LEMMA CreateEventKeepsLedger ==
  ASSUME IInv, LedgerInv, NEW r \in Requests, CreateEvent(r)
  PROVE  LedgerInv'
<1>1. /\ phase[r] = "linked" /\ phase' = [phase EXCEPT ![r] = "done"] /\ UNCHANGED call
      /\ events' \in Appended(events, EventOf(r), prevHash[r])
  BY DEF CreateEvent
<1>2. PICK e : /\ events' = Append(events, e)
               /\ e.by = r /\ e.subject = call[r].id /\ e.type = EventType[call[r].op]
  <2>1. PICK p \in TriggerPrev(events, EventOf(r).tenant, EventOf(r).loan, prevHash[r]),
             d \in StampSteps :
          events' = Append(events, [tenant |-> EventOf(r).tenant, loan |-> EventOf(r).loan,
            subject |-> EventOf(r).subject, type |-> EventOf(r).type, by |-> EventOf(r).by,
            prev |-> p, at |-> (IF events = <<>> THEN 0 ELSE events[Len(events)].at) + d])
    BY <1>1 DEF Appended
  <2>2. QED
    BY <2>1 DEF EventOf
<1>3. /\ DOMAIN events' = DOMAIN events \cup {Len(events) + 1}
      /\ events'[Len(events) + 1] = e
      /\ \A i \in DOMAIN events : events'[i] = events[i]
  BY <1>2, AppendPlaces DEF IInv, TypeOK
<1>4. /\ phase'[r] = "done"
      /\ \A q \in Requests : q # r => phase'[q] = phase[q]
  BY <1>1 DEF IInv, TypeOK
<1>5. \A i \in DOMAIN events : events[i].by # r
  BY <1>1 DEF LedgerInv
<1>6. \A i \in DOMAIN events' :
        /\ events'[i].by \in Requests /\ phase'[events'[i].by] = "done"
        /\ events'[i].subject = call'[events'[i].by].id
        /\ events'[i].type = EventType[call'[events'[i].by].op]
  BY <1>1, <1>2, <1>3, <1>4, <1>5 DEF LedgerInv
<1>7. \A i, j \in DOMAIN events' : events'[i].by = events'[j].by => i = j
  BY <1>2, <1>3, <1>5 DEF LedgerInv
<1>8. \A q \in Requests : phase'[q] = "done" => \E i \in DOMAIN events' : events'[i].by = q
  BY <1>2, <1>3, <1>4 DEF LedgerInv
<1>9. QED
  BY <1>6, <1>7, <1>8 DEF LedgerInv

LEMMA NextKeepsLedger ==
  ASSUME IInv, LedgerInv, [Next]_vars
  PROVE  LedgerInv'
<1>1. ASSUME NEW r \in Requests, NEW p \in {"written", "linked", "failed", "found",
                                         "returned", "refused"},
             phase[r] # "done", phase' = [phase EXCEPT ![r] = p], UNCHANGED events,
             \A q \in Requests : q # r => call'[q] = call[q]
      PROVE  LedgerInv'
  BY <1>1, LedgerStable DEF IInv, TypeOK
<1>2. ASSUME NEW r \in Requests, NEW c, \/ \E n \in Loans : create(r, c, n)
                                       \/ Find(r, c) \/ Refuse(r, c)
      PROVE  LedgerInv'
  <2>1. /\ phase[r] # "done" /\ UNCHANGED events
        /\ call' = [call EXCEPT ![r] = c]
        /\ \E p \in {"written", "found", "returned", "refused"} :
             phase' = [phase EXCEPT ![r] = p]
    BY <1>2 DEF create, Find, Refuse, Arrive
  <2>2. \A q \in Requests : q # r => call'[q] = call[q]
    BY <2>1 DEF IInv, TypeOK
  <2>3. QED
    BY <1>1, <2>1, <2>2
<1>3. ASSUME NEW r \in Requests, approve(r) \/ deny(r) \/ FindLatestEvent(r) \/ Fail(r)
      PROVE  LedgerInv'
  <2>1. /\ phase[r] # "done" /\ UNCHANGED <<events, call>>
        /\ \E p \in {"written", "linked", "failed"} : phase' = [phase EXCEPT ![r] = p]
    BY <1>3 DEF approve, deny, Decide, FindLatestEvent, Fail, InFlight
  <2>2. QED
    BY <1>1, <2>1
<1>4. CASE UNCHANGED vars
  BY <1>4 DEF vars, LedgerInv
<1>5. QED
  BY <1>2, <1>3, <1>4, CreateEventKeepsLedger DEF Next, Begin, Quiescent

\* Each event of the ledger of decisions is of a request that took the decision it
\* tells; the decision on record is among them once all have been told.
THEOREM LedgerAgreeing == Spec => []LedgerAgrees
<1>1. Init => LedgerInv
  BY DEF Init, LedgerInv
<1>2. IInv /\ LedgerInv /\ [Next]_vars => LedgerInv'
  BY NextKeepsLedger
<1>3. IInv /\ LedgerInv => LedgerAgrees
  <2> SUFFICES ASSUME IInv, LedgerInv PROVE LedgerAgrees
    OBVIOUS
  <2> DEFINE deciders(x) ==
               {r \in Requests :
                  /\ phase[r] \in {"found", "written", "linked", "done", "failed"}
                  /\ call[r].id = x /\ call[r].op # "create"}
             ruled(x) == {i \in DOMAIN events :
                            events[i].subject = x /\ events[i].type # "exception.requested"}
             told(r) == IF call[r].op = "approve" THEN "exception.approved"
                        ELSE "exception.denied"
  <2>1. ASSUME NEW r \in Requests, phase[r] = "done"
        PROVE  /\ call[r].op \in Ops
               /\ EventType[call[r].op] = IF call[r].op = "create" THEN "exception.requested"
                                          ELSE told(r)
    <3>1. call[r].op \in Ops
      BY <2>1 DEF IInv, RequestsAreSound, Call
    <3>2. QED
      BY <3>1 DEF Ops, EventType
  <2>2. ASSUME NEW x \in Existing, NEW i \in ruled(x)
        PROVE  /\ events[i].by \in deciders(x) /\ phase[events[i].by] = "done"
               /\ events[i].type = told(events[i].by)
               /\ \A j \in ruled(x) : events[j].by = events[i].by => i = j
    BY <2>1, <2>2 DEF LedgerInv
  <2>3. ASSUME NEW x \in Existing, exception[x].status # "pending",
               \A r \in deciders(x) : phase[r] = "done"
        PROVE  \E i \in ruled(x) :
                 /\ ActionOf[call[events[i].by].op] = exception[x].status
                 /\ call[events[i].by].user = exception[x].approverUserId
    <3>1. PICK r \in Requests : Witness(r, x)
      BY <2>3 DEF IInv, DecisionIsAuthorised, Witness
    <3>2. call[r].op \in Ops /\ exception[x].status \in {"approved", "denied"}
      BY <2>3, <3>1 DEF IInv, RequestsAreSound, DecisionIsWhole, Call, Witness
    <3>3. r \in deciders(x)
      BY <3>1, <3>2 DEF Witness, Ops, ActionOf
    <3>4. phase[r] = "done" /\ call[r].op # "create"
      BY <2>3, <3>3
    <3>5. PICK i \in DOMAIN events : events[i].by = r
      BY <3>4 DEF LedgerInv
    <3>6. events[i].type # "exception.requested" /\ events[i].subject = x
      BY <2>1, <3>1, <3>4, <3>5 DEF LedgerInv, Witness
    <3>7. QED
      BY <3>1, <3>5, <3>6 DEF Witness
  <2>4. QED
    BY <2>2, <2>3 DEF LedgerAgrees
<1>4. QED
  BY <1>1, <1>2, <1>3, Invariance, PTL DEF Spec
=============================================================================
