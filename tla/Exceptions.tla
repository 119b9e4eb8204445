------------------------------ MODULE Exceptions ------------------------------
(***************************************************************************)
(* ExceptionsService: pricing exceptions, requested for a loan and then    *)
(* approved or denied once, by HTTP requests that run concurrently.  As in *)
(* RateLocks an action is the code from one await to the next, and no two  *)
(* awaited calls share a transaction:                                      *)
(*                                                                         *)
(*   create:         exception.create -> event.findFirst -> event.create   *)
(*   approve, deny:  exception.findFirst -> exception.update               *)
(*                     -> event.findFirst -> event.create                  *)
(***************************************************************************)
EXTENDS EventLedger, FiniteSets

CONSTANTS
  Requests,      \* the HTTP requests; the bound on how many are made
  ExceptionIds,  \* uuids of exceptions; the bound on how many are created
  Tenants, Loans,
  Users,         \* who asks: actor of the entries, approver of the decision
  MaxInFlight,   \* how many requests the API serves at a time
  NoException, NoCall, NoUser

ASSUME ExceptionsAssumption ==
  /\ IsFiniteSet(Requests)
  /\ MaxInFlight \in Nat
  /\ NoUser \notin Users

VARIABLES
  exception,  \* the table exceptions
  phase,      \* the await a request has reached
  call,       \* what a request asks for, and on whose behalf
  snapshot,   \* the row its findFirst returned
  prevHash,   \* the predecessor its recordEvent has read
  events      \* the table events

vars == <<exception, phase, call, snapshot, prevHash, events>>

Ops == {"create", "approve", "deny"}

ActionOf == [create |-> "requested", approve |-> "approved", deny |-> "denied"]

\* Mutant: deny records the event it was copied from.
EventTypeMutant ==
  [create |-> "exception.requested", approve |-> "exception.approved",
   deny |-> "exception.approved"]

EventType ==
  [create |-> "exception.requested", approve |-> "exception.approved",
   deny |-> "exception.denied"]

Entry == [action : {ActionOf[op] : op \in Ops}, actor : Users]

\* check (status in (...)) of exceptions; nothing sets "expired".
Statuses == {"pending", "approved", "denied", "expired"}

Row ==
  [tenant : Tenants, loan : Loans, status : Statuses, requestedBy : Users,
   approverUserId : Users \cup {NoUser}, auditTrail : Seq(Entry)]

\* `scoped`: the caller holds exceptions:approve.
Call ==
  [op : Ops, tenant : Tenants, user : Users, id : ExceptionIds, scoped : BOOLEAN]

Decision == {c \in Call : c.op # "create"}

ASSUME NullAssumption == NoException \notin Row /\ NoCall \notin Call

InFlight == {r \in Requests : phase[r] \in {"found", "written", "linked"}}

Init ==
  /\ exception = [x \in ExceptionIds |-> NoException]
  /\ phase = [r \in Requests |-> "idle"]
  /\ call = [r \in Requests |-> NoCall]
  /\ snapshot = [r \in Requests |-> NoException]
  /\ prevHash = [r \in Requests |-> GENESIS]
  /\ events = <<>>

Arrive(r) ==
  /\ phase[r] = "idle"
  /\ Cardinality(InFlight) < MaxInFlight

-----------------------------------------------------------------------------
(* The handlers *)

create(r, c, loan) ==
  /\ Arrive(r)
  /\ exception[c.id] = NoException
  /\ exception' = [exception EXCEPT ![c.id] =
       [tenant |-> c.tenant, loan |-> loan, status |-> "pending",
        requestedBy |-> c.user, approverUserId |-> NoUser,
        auditTrail |-> <<[action |-> "requested", actor |-> c.user]>>]]
  /\ call' = [call EXCEPT ![r] = c]
  /\ phase' = [phase EXCEPT ![r] = "written"]
  /\ UNCHANGED <<snapshot, prevHash, events>>

\* Mutant: findFirst({ where: { id } }).
VisibleMutant(c) == exception[c.id] # NoException

Visible(c) == exception[c.id] # NoException /\ exception[c.id].tenant = c.tenant

\* Mutant: the status is not looked at.
FindMutant(r, c) ==
  /\ Arrive(r)
  /\ c.scoped /\ Visible(c)
  /\ call' = [call EXCEPT ![r] = c]
  /\ snapshot' = [snapshot EXCEPT ![r] = exception[c.id]]
  /\ phase' = [phase EXCEPT ![r] = "found"]
  /\ UNCHANGED <<exception, prevHash, events>>

\* What opens approve and deny: scope, findFirst, and the status as it was read.
\* A decided exception is returned as it is.
Find(r, c) ==
  /\ Arrive(r)
  /\ c.scoped /\ Visible(c)
  /\ call' = [call EXCEPT ![r] = c]
  /\ snapshot' = [snapshot EXCEPT ![r] = exception[c.id]]
  /\ phase' = [phase EXCEPT ![r] =
       IF exception[c.id].status = "pending" THEN "found" ELSE "returned"]
  /\ UNCHANGED <<exception, prevHash, events>>

\* 403 EXCEPTION_*_FORBIDDEN, or 404 EXCEPTION_NOT_FOUND.
Refuse(r, c) ==
  /\ Arrive(r)
  /\ ~(c.scoped /\ Visible(c))
  /\ call' = [call EXCEPT ![r] = c]
  /\ phase' = [phase EXCEPT ![r] = "refused"]
  /\ UNCHANGED <<exception, snapshot, prevHash, events>>

\* exception.update({ where: { id }, data }): whatever the row has become.
Decide(r, op, status) ==
  /\ phase[r] = "found"
  /\ call[r].op = op
  /\ exception' = [exception EXCEPT ![call[r].id] =
       [@ EXCEPT !.status = status, !.approverUserId = call[r].user,
                 !.auditTrail = Append(snapshot[r].auditTrail,
                                  [action |-> ActionOf[op], actor |-> call[r].user])]]
  /\ phase' = [phase EXCEPT ![r] = "written"]
  /\ UNCHANGED <<call, snapshot, prevHash, events>>

approve(r) == Decide(r, "approve", "approved")

deny(r) == Decide(r, "deny", "denied")

-----------------------------------------------------------------------------
(* AuditTrailService.recordEvent, awaited last by each handler *)

FindLatestEvent(r) ==
  /\ phase[r] = "written"
  /\ \E h \in LatestOfTenant(events, call[r].tenant) :
       prevHash' = [prevHash EXCEPT ![r] = h]
  /\ phase' = [phase EXCEPT ![r] = "linked"]
  /\ UNCHANGED <<exception, call, snapshot, events>>

EventOf(r) ==
  [tenant |-> call[r].tenant, loan |-> exception[call[r].id].loan,
   subject |-> call[r].id, type |-> EventType[call[r].op], by |-> r]

CreateEvent(r) ==
  /\ phase[r] = "linked"
  /\ events' \in Appended(events, EventOf(r), prevHash[r])
  /\ phase' = [phase EXCEPT ![r] = "done"]
  /\ UNCHANGED <<exception, call, snapshot, prevHash>>

\* An awaited call rejects, or the process stops: what is written stays.
Fail(r) ==
  /\ r \in InFlight
  /\ phase' = [phase EXCEPT ![r] = "failed"]
  /\ UNCHANGED <<exception, call, snapshot, prevHash, events>>

-----------------------------------------------------------------------------
Begin(r) ==
  \/ \E c \in Call \ Decision, n \in Loans : ~c.scoped /\ create(r, c, n)
  \/ \E c \in Decision : Find(r, c) \/ Refuse(r, c)

\* All requests are answered and the API waits for more.
Quiescent ==
  /\ \A r \in Requests : phase[r] \in {"done", "returned", "refused", "failed"}
  /\ UNCHANGED vars

Next ==
  \/ \E r \in Requests :
       \/ Begin(r)
       \/ approve(r) \/ deny(r)
       \/ FindLatestEvent(r) \/ CreateEvent(r)
       \/ Fail(r)
  \/ Quiescent

Spec == Init /\ [][Next]_vars

-----------------------------------------------------------------------------
EventRow ==
  [tenant : Tenants, loan : Loans, subject : ExceptionIds,
   type : {EventType[op] : op \in Ops}, by : Requests, prev : Nat, at : Nat]

\* The table and the locals of the handlers keep their types; no handler stores a
\* status that the table refuses.
TypeOK ==
  /\ exception \in [ExceptionIds -> Row \cup {NoException}]
  /\ phase \in [Requests -> {"idle", "found", "written", "linked", "done",
                             "returned", "refused", "failed"}]
  /\ call \in [Requests -> Call \cup {NoCall}]
  /\ snapshot \in [Requests -> Row \cup {NoException}]
  /\ prevHash \in [Requests -> Nat]
  /\ events \in Seq(EventRow)

Existing == {x \in ExceptionIds : exception[x] # NoException}

\* An exception is its request alone while it is pending, and its request and
\* one decision afterwards: the last entry, the status and the approver are of
\* one decision even when several raced, and no other decision is on record.
DecisionIsWhole ==
  \A x \in Existing :
    LET e == exception[x]
        asked == [action |-> "requested", actor |-> e.requestedBy]
    IN  \/ /\ e.status = "pending" /\ e.approverUserId = NoUser
           /\ e.auditTrail = <<asked>>
        \/ /\ e.status \in {"approved", "denied"} /\ e.approverUserId \in Users
           /\ e.auditTrail =
                <<asked, [action |-> e.status, actor |-> e.approverUserId]>>

\* The decision on record was taken by a user of the exception's tenant who
\* holds the scope, in a request of its own.
DecisionIsAuthorised ==
  \A x \in Existing :
    exception[x].status # "pending" =>
      \E r \in Requests :
        /\ phase[r] \in {"written", "linked", "done", "failed"}
        /\ call[r].id = x /\ call[r].tenant = exception[x].tenant
        /\ call[r].user = exception[x].approverUserId
        /\ call[r].scoped /\ ActionOf[call[r].op] = exception[x].status

\* x is decided, and no request that has read it as pending is still to decide.
Settled(x) ==
  /\ x \in Existing /\ exception[x].status # "pending"
  /\ \A r \in Requests : phase[r] = "found" => call[r].id # x

\* A decision is final, for good, as soon as no other one is under way that was let
\* through before it was taken.  (Until then it may be replaced: the update looks at
\* the id alone.)
DecisionSettles ==
  [][\A x \in ExceptionIds : Settled(x) => exception'[x] = exception[x] /\ Settled(x)']_vars

\* However decisions race, each event is that of a request of its own, which is done
\* and took that decision; and once the requests that decided on an exception are
\* done and none of them has failed, the decision on record is in the ledger.
LedgerAgrees ==
  \A x \in Existing :
    LET deciders == {r \in Requests :
                       /\ phase[r] \in {"found", "written", "linked", "done", "failed"}
                       /\ call[r].id = x /\ call[r].op # "create"}
        ruled == {i \in DOMAIN events :
                    events[i].subject = x /\ events[i].type # "exception.requested"}
        told(r) == IF call[r].op = "approve" THEN "exception.approved" ELSE "exception.denied"
    IN  /\ \A i \in ruled :
             /\ events[i].by \in deciders /\ phase[events[i].by] = "done"
             /\ events[i].type = told(events[i].by)
             /\ \A j \in ruled : events[j].by = events[i].by => i = j
        /\ exception[x].status # "pending" /\ (\A r \in deciders : phase[r] = "done")
             => \E i \in ruled :
                  /\ ActionOf[call[events[i].by].op] = exception[x].status
                  /\ call[events[i].by].user = exception[x].approverUserId
=============================================================================
