------------------------------ MODULE LockLedger ------------------------------
(***************************************************************************)
(* What LocksService promises of a rate lock: every operation takes the    *)
(* lock as it is and, in one step, changes its terms and adds an entry to  *)
(* its history.                                                            *)
(***************************************************************************)
EXTENDS Integers, Sequences

CONSTANTS Requests, LockIds, Tenants, Loans, Periods, Days, NoLock

VARIABLE rateLock

Init == rateLock = [l \in LockIds |-> NoLock]

Create(l) ==
  /\ rateLock[l] = NoLock
  /\ \E t \in Tenants, n \in Loans, p \in Periods, r \in Requests :
       rateLock' = [rateLock EXCEPT ![l] =
         [tenant |-> t, loan |-> n, status |-> "locked", expiresAt |-> p,
          lockPeriodDays |-> p, price |-> 0,
          actions |-> <<[type |-> "create", by |-> r]>>]]

\* One operation: new terms, a new status and one more entry, nothing else.
Operate(l, type, status, expiresAt, price) ==
  \E r \in Requests :
    rateLock' = [rateLock EXCEPT
                   ![l].status = status, ![l].expiresAt = expiresAt, ![l].price = price,
                   ![l].actions = Append(rateLock[l].actions, [type |-> type, by |-> r])]

Extend(l, d) ==
  Operate(l, "extend", "extended", rateLock[l].expiresAt + d, rateLock[l].price)

FloatDown(l) ==
  Operate(l, "float_down", "float_down_applied", rateLock[l].expiresAt,
          rateLock[l].price + 1)

Void(l) == Operate(l, "void", "voided", rateLock[l].expiresAt, rateLock[l].price)

Next ==
  \E l \in LockIds :
    \/ Create(l)
    \/ /\ rateLock[l] # NoLock
       /\ (\E d \in Days : Extend(l, d)) \/ FloatDown(l) \/ Void(l)

Spec == Init /\ [][Next]_rateLock

=============================================================================
