------------------------------ MODULE LockService ------------------------------
(***************************************************************************)
(* The rate locks as the timers and the console meet them: a clock, the    *)
(* table that LocksService keeps, which is taken from LockLedger since     *)
(* RateLocks implements it when requests do not overlap, and the watchlist.*)
(* Days are counted from the day on which all the locks were made.         *)
(***************************************************************************)
EXTENDS Integers, Sequences, FiniteSets

CONSTANTS
  LockIds, Periods, Days, NoLock,
  FirstDay, LastDay,  \* bounds on the clock
  MaxEntries          \* bound on the history of a lock

ASSUME LockServiceAssumption ==
  /\ FirstDay \in Nat /\ LastDay \in Nat /\ MaxEntries \in Nat
  /\ Periods \subseteq 15..180 /\ Days \subseteq 1..30

VARIABLES now, rateLock

serviceVars == <<now, rateLock>>

Ledger == INSTANCE LockLedger WITH
  Requests <- {0}, Tenants <- {0}, Loans <- {0}, rateLock <- rateLock

ServiceInit ==
  /\ now = FirstDay
  /\ rateLock \in [LockIds -> {[tenant |-> 0, loan |-> 0, status |-> "locked",
                                expiresAt |-> p, lockPeriodDays |-> p, price |-> 0,
                                actions |-> <<[type |-> "create", by |-> 0]>>] : p \in Periods}]

Tick ==
  /\ now < LastDay
  /\ now' = now + 1
  /\ UNCHANGED rateLock

\* An operation on a lock, in one step.
OperateOn(l) ==
  /\ Len(rateLock[l].actions) < MaxEntries
  /\ (\E d \in Days : Ledger!Extend(l, d)) \/ Ledger!FloatDown(l) \/ Ledger!Void(l)
  /\ UNCHANGED now

\* watchlist(hours): a lock whose price was floated down is on it no more.
watchlist(days) ==
  {l \in LockIds : /\ rateLock[l].status \in {"locked", "extended"}
                   /\ rateLock[l].expiresAt <= now + days}
=============================================================================
