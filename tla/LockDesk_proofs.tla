---------------------------- MODULE LockDesk_proofs ----------------------------
(***************************************************************************)
(* Theorems about the timer and the console of LockDesk, for any locks and *)
(* exceptions, any periods and any bounds on the clock, the retries and    *)
(* the loads.                                                              *)
(*                                                                         *)
(* The timer never looks at its lock again, so what it says is true only   *)
(* because of where it is: the invariant gives, for each place, how far    *)
(* the clock must have gone, and how the lock may differ from what the     *)
(* timer was given.                                                        *)
(***************************************************************************)
EXTENDS LockDesk, SequenceTheorems, TLAPS

Entries == [type : {"create", "extend", "float_down", "void"}, by : {0}]

LockRow ==
  [tenant : {0}, loan : {0},
   status : {"locked", "extended", "float_down_applied", "voided"},
   expiresAt : Int, lockPeriodDays : Int, price : Int, actions : Seq(Entries)]

LocksAreTyped == now \in Int /\ rateLock \in [LockIds -> LockRow]

TimerIsTyped ==
  /\ timer \in {"none", "scheduling", "deciding", "asleep", "alerting", "marking", "done"}
  /\ lockId \in LockIds /\ expiry \in Int /\ window \in 1..4
  /\ wakeAt \in Int /\ markedOn \in Int /\ entries \in Nat
  /\ alerts \in Seq([window : 1..3, at : Int])

\* Where the timer is, and what the clock has to do with it.
ClockIsPast ==
  /\ timer = "none" => alerts = <<>>
  /\ timer = "asleep" => wakeAt = IF window <= 3 THEN expiry - HOURS[window] ELSE expiry
  /\ timer = "alerting" => window <= 3 /\ now >= expiry - HOURS[window]
  /\ timer = "marking" => now >= expiry
  /\ timer = "done" => markedOn >= expiry

AlertsAreSound ==
  \A k \in DOMAIN alerts :
    /\ alerts[k].at >= expiry - alerts[k].window
    /\ window <= 3 => alerts[k].window >= HOURS[window]
    /\ \A j \in 1..k : alerts[j].window >= alerts[k].window

\* The lock expires when the timer was told, unless it was extended afterwards.
ExpiryIsKnown ==
  timer # "none" =>
    /\ Len(rateLock[lockId].actions) >= entries
    /\ \/ rateLock[lockId].expiresAt = expiry
       \/ \E k \in (entries + 1)..Len(rateLock[lockId].actions) :
            rateLock[lockId].actions[k].type = "extend"

IInv == LocksAreTyped /\ TimerIsTyped /\ ClockIsPast /\ AlertsAreSound /\ ExpiryIsKnown

-----------------------------------------------------------------------------
LEMMA HoursFacts ==
  Len(HOURS) = 3 /\ HOURS[1] = 3 /\ HOURS[2] = 2 /\ HOURS[3] = 1
  BY DEF HOURS

LEMMA InitHolds == Init => IInv
  <1> SUFFICES ASSUME Init PROVE IInv
    OBVIOUS
  <1>1. rateLock \in [LockIds -> LockRow]
    <2>1. PICK f \in [LockIds -> {[tenant |-> 0, loan |-> 0, status |-> "locked",
                                   expiresAt |-> p, lockPeriodDays |-> p, price |-> 0,
                                   actions |-> <<[type |-> "create", by |-> 0]>>] : p \in Periods}] :
            rateLock = f
      BY DEF Init, ServiceInit
    <2>2. <<[type |-> "create", by |-> 0]>> \in Seq(Entries)
      BY DEF Entries
    <2>3. Periods \subseteq Int
      BY LockServiceAssumption
    <2>4. \A p \in Periods :
            [tenant |-> 0, loan |-> 0, status |-> "locked",
             expiresAt |-> p, lockPeriodDays |-> p, price |-> 0,
             actions |-> <<[type |-> "create", by |-> 0]>>] \in LockRow
      BY <2>2, <2>3 DEF LockRow
    <2> QED
      BY <2>1, <2>4
  <1>2. LocksAreTyped
    BY <1>1, LockServiceAssumption DEF Init, ServiceInit, LocksAreTyped
  <1>3. TimerIsTyped
    BY DEF Init, TimerInit, TimerIsTyped
  <1>4. ClockIsPast /\ AlertsAreSound /\ ExpiryIsKnown
    BY DEF Init, TimerInit, ClockIsPast, AlertsAreSound, ExpiryIsKnown
  <1> QED
    BY <1>2, <1>3, <1>4 DEF IInv

-----------------------------------------------------------------------------
(* Operations on locks *)

\* A lock as an operation leaves it: with one more entry, and the expiry it had unless
\* it was extended.
Changed(old, new) ==
  \E e \in Entries :
    /\ new.actions = Append(old.actions, e)
    /\ new.expiresAt = old.expiresAt \/ e.type = "extend"

LEMMA OperateFacts ==
  ASSUME LocksAreTyped, NEW l, OperateOn(l)
  PROVE  /\ LocksAreTyped'
         /\ \A i \in LockIds : rateLock'[i] = rateLock[i] \/ Changed(rateLock[i], rateLock'[i])
  <1>1. ASSUME NEW type \in {"extend", "float_down", "void"},
               NEW status \in {"extended", "float_down_applied", "voided"},
               NEW expiresAt, NEW price, l \in LockIds => expiresAt \in Int /\ price \in Int,
               expiresAt = rateLock[l].expiresAt \/ type = "extend",
               Ledger!Operate(l, type, status, expiresAt, price)
        PROVE  /\ rateLock' \in [LockIds -> LockRow]
               /\ \A i \in LockIds :
                    rateLock'[i] = rateLock[i] \/ Changed(rateLock[i], rateLock'[i])
    <2> DEFINE e == [type |-> type, by |-> 0]
    <2>1. rateLock' = [rateLock EXCEPT
                   ![l].status = status, ![l].expiresAt = expiresAt, ![l].price = price,
                   ![l].actions = Append(rateLock[l].actions, e)]
      BY <1>1 DEF Ledger!Operate
    <2>2. CASE l \notin LockIds
      BY <2>1, <2>2 DEF LocksAreTyped
    <2>3. CASE l \in LockIds
      <3>1. e \in Entries
        BY DEF Entries
      <3> DEFINE old == rateLock[l]
                 h == Append(old.actions, e)
                 new == [old EXCEPT !.status = status, !.expiresAt = expiresAt,
                                    !.price = price, !.actions = h]
      <3>2. old \in LockRow
        BY <2>3 DEF LocksAreTyped
      <3>3. h \in Seq(Entries)
        BY <3>1, <3>2 DEF LockRow
      <3>5. rateLock' = [rateLock EXCEPT ![l] = new]
        BY <2>1, <2>3 DEF LocksAreTyped
      <3>4. expiresAt \in Int /\ price \in Int
        BY <1>1, <2>3
      <3>6. new \in LockRow /\ new.actions = h /\ new.expiresAt = expiresAt
        <4>1. status \in {"locked", "extended", "float_down_applied", "voided"}
          OBVIOUS
        <4>2. new = [old EXCEPT !.status = status, !.expiresAt = expiresAt,
                                !.price = price, !.actions = h]
          OBVIOUS
        <4> HIDE DEF new, old, h
        <4> QED
          BY <3>2, <3>3, <3>4, <4>1, <4>2 DEF LockRow
      <3>7. Changed(old, new)
        <4>1. new.expiresAt = old.expiresAt \/ e.type = "extend"
          BY <1>1
        <4> QED
          BY <3>1, <3>6, <4>1 DEF Changed
      <3> HIDE DEF new
      <3>8. rateLock' \in [LockIds -> LockRow]
        BY <3>5, <3>6 DEF LocksAreTyped
      <3>9. rateLock'[l] = new /\ \A i \in LockIds \ {l} : rateLock'[i] = rateLock[i]
        BY <2>3, <3>5 DEF LocksAreTyped
      <3> QED
        BY <3>7, <3>8, <3>9
    <2> QED
      BY <2>2, <2>3
  <1>2. l \in LockIds => rateLock[l].expiresAt \in Int /\ rateLock[l].price \in Int
    BY DEF LocksAreTyped, LockRow
  <1>3. now' = now
    BY DEF OperateOn
  <1>4. ASSUME NEW d \in Days, Ledger!Extend(l, d)
        PROVE  /\ rateLock' \in [LockIds -> LockRow]
               /\ \A i \in LockIds :
                    rateLock'[i] = rateLock[i] \/ Changed(rateLock[i], rateLock'[i])
    <2>1. l \in LockIds => rateLock[l].expiresAt + d \in Int
      BY <1>2, LockServiceAssumption
    <2> QED
      BY <1>1, <1>2, <1>4, <2>1 DEF Ledger!Extend
  <1>5. ASSUME Ledger!FloatDown(l)
        PROVE  /\ rateLock' \in [LockIds -> LockRow]
               /\ \A i \in LockIds :
                    rateLock'[i] = rateLock[i] \/ Changed(rateLock[i], rateLock'[i])
    <2>1. l \in LockIds => rateLock[l].price + 1 \in Int
      BY <1>2
    <2> QED
      BY <1>1, <1>2, <1>5, <2>1 DEF Ledger!FloatDown
  <1>6. ASSUME Ledger!Void(l)
        PROVE  /\ rateLock' \in [LockIds -> LockRow]
               /\ \A i \in LockIds :
                    rateLock'[i] = rateLock[i] \/ Changed(rateLock[i], rateLock'[i])
    BY <1>1, <1>2, <1>6 DEF Ledger!Void
  <1>7. /\ rateLock' \in [LockIds -> LockRow]
        /\ \A i \in LockIds :
             rateLock'[i] = rateLock[i] \/ Changed(rateLock[i], rateLock'[i])
    BY <1>4, <1>5, <1>6 DEF OperateOn
  <1> QED
    BY <1>3, <1>7 DEF LocksAreTyped

\* A changed lock keeps the entries it had, and its expiry unless it was extended.
LEMMA ChangedFacts ==
  ASSUME NEW old \in LockRow, NEW new \in LockRow, Changed(old, new),
         NEW n \in Nat, Len(old.actions) >= n, NEW x \in Int,
         \/ old.expiresAt = x
         \/ \E k \in (n + 1)..Len(old.actions) : old.actions[k].type = "extend"
  PROVE  /\ Len(new.actions) >= n
         /\ \/ new.expiresAt = x
            \/ \E k \in (n + 1)..Len(new.actions) : new.actions[k].type = "extend"
  <1> DEFINE h == old.actions
  <1>1. PICK e \in Entries : /\ new.actions = Append(h, e)
                             /\ new.expiresAt = old.expiresAt \/ e.type = "extend"
    BY DEF Changed
  <1>2. h \in Seq(Entries)
    BY DEF LockRow
  <1> DEFINE t == Append(h, e)
  <1>3. /\ Len(h) \in Nat /\ Len(t) = Len(h) + 1 /\ t[Len(h) + 1] = e
        /\ \A k \in 1..Len(h) : t[k] = h[k]
    BY <1>2, AppendProperties, LenProperties
  <1>4. new.actions = t
    BY <1>1
  <1> HIDE DEF t
  <1>5. CASE e.type = "extend"
    <2>1. Len(h) + 1 \in (n + 1)..Len(t) /\ t[Len(h) + 1].type = "extend"
      BY <1>3, <1>5
    <2> QED
      BY <1>3, <1>4, <2>1
  <1>6. CASE e.type # "extend"
    <2>1. new.expiresAt = old.expiresAt
      BY <1>1, <1>6
    <2>2. ASSUME NEW k \in (n + 1)..Len(h), h[k].type = "extend"
          PROVE  k \in (n + 1)..Len(t) /\ t[k].type = "extend"
      BY <1>3, <2>2
    <2> QED
      BY <1>3, <1>4, <2>1, <2>2
  <1> QED
    BY <1>5, <1>6

LEMMA OperateHolds ==
  ASSUME IInv, NEW l, OperateOn(l), UNCHANGED timerVars
  PROVE  IInv'
  <1>1. /\ LocksAreTyped'
        /\ \A i \in LockIds : rateLock'[i] = rateLock[i] \/ Changed(rateLock[i], rateLock'[i])
    BY OperateFacts DEF IInv
  <1>2. now' = now
    BY DEF OperateOn
  <1>3. TimerIsTyped' /\ ClockIsPast' /\ AlertsAreSound'
    BY <1>2 DEF IInv, TimerIsTyped, ClockIsPast, AlertsAreSound, timerVars
  <1>4. ExpiryIsKnown'
    <2> SUFFICES ASSUME timer # "none"
                 PROVE  /\ Len(rateLock'[lockId].actions) >= entries
                        /\ \/ rateLock'[lockId].expiresAt = expiry
                           \/ \E k \in (entries + 1)..Len(rateLock'[lockId].actions) :
                                rateLock'[lockId].actions[k].type = "extend"
      BY DEF ExpiryIsKnown, timerVars
    <2>1. lockId \in LockIds /\ entries \in Nat /\ expiry \in Int
      BY DEF IInv, TimerIsTyped
    <2>2. rateLock[lockId] \in LockRow /\ rateLock'[lockId] \in LockRow
      BY <1>1, <2>1 DEF IInv, LocksAreTyped
    <2>3. CASE rateLock'[lockId] = rateLock[lockId]
      BY <2>3 DEF IInv, ExpiryIsKnown
    <2>4. CASE Changed(rateLock[lockId], rateLock'[lockId])
      <3>1. /\ Len(rateLock[lockId].actions) >= entries
            /\ \/ rateLock[lockId].expiresAt = expiry
               \/ \E k \in (entries + 1)..Len(rateLock[lockId].actions) :
                    rateLock[lockId].actions[k].type = "extend"
        BY DEF IInv, ExpiryIsKnown
      <3> QED
        BY <2>1, <2>2, <2>4, <3>1, ChangedFacts
    <2> QED
      BY <1>1, <2>1, <2>3, <2>4
  <1> QED
    BY <1>1, <1>3, <1>4 DEF IInv

-----------------------------------------------------------------------------
(* The clock, and the timer *)

LEMMA AlertIsTyped ==
  ASSUME TimerIsTyped, NEW k \in DOMAIN alerts
  PROVE  alerts[k].window \in 1..3 /\ alerts[k].at \in Int
  <1> DEFINE S == [window : 1..3, at : Int]
  <1>1. alerts \in Seq(S)
    BY DEF TimerIsTyped
  <1>2. \A a \in S : a.window \in 1..3 /\ a.at \in Int
    OBVIOUS
  <1> HIDE DEF S
  <1>3. alerts[k] \in S
    BY <1>1
  <1> QED
    BY <1>2, <1>3

LEMMA ClockHolds ==
  ASSUME IInv, Clock
  PROVE  IInv'
  <1>1. /\ now' = now + 1
        /\ UNCHANGED <<rateLock, timer, lockId, expiry, window, wakeAt, alerts, markedOn,
                       startedOn, entries, retries>>
    BY DEF Clock, TimerTick, Tick
  <1>2. LocksAreTyped' /\ TimerIsTyped'
    BY <1>1 DEF IInv, LocksAreTyped, TimerIsTyped
  <1>3. window <= 3 => HOURS[window] \in Int
    BY HoursFacts DEF IInv, TimerIsTyped
  <1>4. ClockIsPast'
    BY <1>1, <1>3 DEF IInv, LocksAreTyped, TimerIsTyped, ClockIsPast
  <1>5. AlertsAreSound' /\ ExpiryIsKnown'
    BY <1>1 DEF IInv, AlertsAreSound, ExpiryIsKnown
  <1> QED
    BY <1>2, <1>4, <1>5 DEF IInv

LEMMA StartHolds ==
  ASSUME IInv, Start
  PROVE  IInv'
  <1>1. /\ timer = "none" /\ timer' = "scheduling"
        /\ expiry' = rateLock[lockId].expiresAt
        /\ startedOn' = now /\ entries' = Len(rateLock[lockId].actions)
        /\ UNCHANGED <<now, rateLock, lockId, window, wakeAt, alerts, markedOn>>
    BY DEF Start, StartTimer, serviceVars
  <1>2. rateLock[lockId] \in LockRow
    BY DEF IInv, LocksAreTyped, TimerIsTyped
  <1>3. expiry' \in Int /\ entries' \in Nat
    BY <1>1, <1>2, LenProperties DEF LockRow
  <1>4. alerts' = <<>>
    BY <1>1 DEF IInv, ClockIsPast
  <1>5. LocksAreTyped' /\ TimerIsTyped'
    BY <1>1, <1>3 DEF IInv, LocksAreTyped, TimerIsTyped
  <1>6. ClockIsPast' /\ AlertsAreSound'
    BY <1>1, <1>4 DEF ClockIsPast, AlertsAreSound
  <1>7. ExpiryIsKnown'
    BY <1>1, <1>3 DEF ExpiryIsKnown
  <1> QED
    BY <1>5, <1>6, <1>7 DEF IInv

\* A step that neither alerts nor marks: what is left to show is where it leads.
LEMMA MoveHolds ==
  ASSUME IInv, timer # "none",
         UNCHANGED <<now, rateLock, lockId, expiry, alerts, entries>>,
         timer' \in {"deciding", "asleep", "alerting", "marking", "done"},
         wakeAt' \in Int, markedOn' \in Int, window' \in window..4,
         ClockIsPast'
  PROVE  IInv'
  <1>1. window \in 1..4 /\ window' \in 1..4
    BY DEF IInv, TimerIsTyped
  <1>2. LocksAreTyped' /\ TimerIsTyped'
    BY <1>1 DEF IInv, LocksAreTyped, TimerIsTyped
  <1>3. ExpiryIsKnown'
    BY DEF IInv, ExpiryIsKnown
  <1>4. AlertsAreSound'
    <2> SUFFICES ASSUME NEW k \in DOMAIN alerts
                 PROVE  /\ alerts[k].at >= expiry - alerts[k].window
                        /\ window' <= 3 => alerts[k].window >= HOURS[window']
                        /\ \A j \in 1..k : alerts[j].window >= alerts[k].window
      BY DEF AlertsAreSound
    <2>1. alerts[k].window \in 1..3
      BY AlertIsTyped DEF IInv
    <2>2. window' <= 3 => alerts[k].window >= HOURS[window']
      BY <1>1, <2>1, HoursFacts DEF IInv, AlertsAreSound
    <2> QED
      BY <2>2 DEF IInv, AlertsAreSound
  <1> QED
    BY <1>2, <1>3, <1>4 DEF IInv

LEMMA AlertHolds ==
  ASSUME IInv, emitLockAlert, UNCHANGED serviceVars
  PROVE  IInv'
  <1> DEFINE a == [window |-> HOURS[window], at |-> now]
             t == Append(alerts, a)
  <1>1. /\ timer = "alerting" /\ alerts' = t
        /\ \/ timer' = "deciding" /\ window' = window + 1
           \/ timer' = "alerting" /\ window' = window
        /\ UNCHANGED <<now, rateLock, lockId, expiry, wakeAt, markedOn, entries>>
    BY DEF emitLockAlert, Lose, serviceVars
  <1>2. window \in 1..3 /\ now >= expiry - HOURS[window] /\ now \in Int /\ expiry \in Int
    BY <1>1 DEF IInv, ClockIsPast, TimerIsTyped, LocksAreTyped
  <1>3. a \in [window : 1..3, at : Int] /\ a.window = HOURS[window] /\ a.at = now
    BY <1>2, HoursFacts
  <1>4. alerts \in Seq([window : 1..3, at : Int])
    BY DEF IInv, TimerIsTyped
  <1> HIDE DEF a
  <1>5. /\ t \in Seq([window : 1..3, at : Int])
        /\ Len(alerts) \in Nat /\ DOMAIN t = 1..(Len(alerts) + 1)
        /\ DOMAIN alerts = 1..Len(alerts)
        /\ t[Len(alerts) + 1] = a /\ \A k \in 1..Len(alerts) : t[k] = alerts[k]
    BY <1>3, <1>4, AppendProperties, LenProperties
  <1> HIDE DEF t
  <1>6. LocksAreTyped' /\ TimerIsTyped'
    BY <1>1, <1>2, <1>5 DEF IInv, LocksAreTyped, TimerIsTyped
  <1>7. ClockIsPast'
    BY <1>1, <1>2 DEF ClockIsPast
  <1>8. ExpiryIsKnown'
    BY <1>1 DEF IInv, ExpiryIsKnown
  <1>9. AlertsAreSound'
    <2> SUFFICES ASSUME NEW k \in DOMAIN t
                 PROVE  /\ t[k].at >= expiry - t[k].window
                        /\ window' <= 3 => t[k].window >= HOURS[window']
                        /\ \A j \in 1..k : t[j].window >= t[k].window
      BY <1>1 DEF AlertsAreSound
    <2>1. \A j \in DOMAIN alerts : /\ alerts[j].window \in 1..3
                                   /\ alerts[j].at >= expiry - alerts[j].window
                                   /\ alerts[j].window >= HOURS[window]
                                   /\ \A i \in 1..j : alerts[i].window >= alerts[j].window
      BY <1>2, AlertIsTyped DEF IInv, AlertsAreSound
    <2>2. window' <= 3 => HOURS[window] >= HOURS[window']
      BY <1>1, <1>2, HoursFacts
    <2>3. HOURS[window] \in 1..3 /\ (window' <= 3 => HOURS[window'] \in 1..3)
      BY <1>1, <1>2, HoursFacts
    <2>4. CASE k \in 1..Len(alerts)
      <3>1. t[k] = alerts[k] /\ \A j \in 1..k : j \in DOMAIN alerts /\ t[j] = alerts[j]
        BY <1>5, <2>4
      <3>2. k \in DOMAIN alerts /\ 1..k \subseteq DOMAIN alerts
        BY <1>5, <2>4
      <3>3. window' <= 3 => t[k].window >= HOURS[window']
        BY <2>1, <2>2, <2>3, <3>1, <3>2
      <3> QED
        BY <2>1, <3>1, <3>2, <3>3
    <2>5. CASE k = Len(alerts) + 1
      <3>1. t[k].window = HOURS[window] /\ t[k].at = now
        BY <1>3, <1>5, <2>5
      <3>2. ASSUME NEW j \in 1..k PROVE t[j].window >= t[k].window
        <4>1. CASE j \in 1..Len(alerts)
          BY <1>5, <2>1, <3>1, <4>1
        <4>2. CASE j = k
          BY <2>3, <3>1, <4>2
        <4> QED
          BY <1>5, <2>5, <4>1, <4>2
      <3> QED
        BY <1>2, <2>2, <2>3, <3>1, <3>2
    <2> QED
      BY <1>5, <2>4, <2>5
  <1> QED
    BY <1>6, <1>7, <1>8, <1>9 DEF IInv

LEMMA TimerHolds ==
  ASSUME IInv, Timer
  PROVE  IInv'
  <1> USE DEF serviceVars
  <1>1. /\ window \in 1..4 /\ wakeAt \in Int /\ markedOn \in Int /\ expiry \in Int /\ now \in Int
        /\ window <= 3 => HOURS[window] \in 1..3
    BY HoursFacts DEF IInv, TimerIsTyped, LocksAreTyped
  <1>2. UNCHANGED <<now, rateLock>>
    BY DEF Timer
  <1>3. CASE scheduleLockExpiry
    <2>1. ClockIsPast'
      BY <1>3 DEF scheduleLockExpiry, ClockIsPast
    <2> QED
      BY <1>1, <1>2, <1>3, <2>1, MoveHolds DEF scheduleLockExpiry
  <1>4. CASE NextWindow
    <2>1. ClockIsPast' /\ wakeAt' \in Int /\ window' \in window..4
      BY <1>1, <1>4, HoursFacts DEF NextWindow, Sleep, Skip, WindowStart, ClockIsPast
    <2> QED
      BY <1>1, <1>2, <1>4, <2>1, MoveHolds DEF NextWindow, Sleep
  <1>5. CASE SleepToExpiry
    <2>1. ClockIsPast' /\ wakeAt' \in Int
      BY <1>1, <1>2, <1>5, HoursFacts DEF SleepToExpiry, Sleep, ClockIsPast
    <2> QED
      BY <1>1, <1>2, <1>5, <2>1, MoveHolds DEF SleepToExpiry, Sleep
  <1>6. CASE Wake
    <2>1. ClockIsPast'
      BY <1>1, <1>2, <1>6, HoursFacts DEF Wake, IInv, ClockIsPast
    <2> QED
      BY <1>1, <1>2, <1>6, <2>1, MoveHolds, HoursFacts DEF Wake
  <1>7. CASE emitLockAlert
    BY <1>2, <1>7, AlertHolds
  <1>8. CASE markLockExpired
    <2>1. ClockIsPast'
      BY <1>1, <1>2, <1>8 DEF markLockExpired, IInv, ClockIsPast
    <2> QED
      BY <1>1, <1>2, <1>8, <2>1, MoveHolds DEF markLockExpired
  <1> QED
    BY <1>3, <1>4, <1>5, <1>6, <1>7, <1>8 DEF Timer, TimerStep

-----------------------------------------------------------------------------
LEMMA StillHolds ==
  ASSUME IInv, UNCHANGED <<serviceVars, timerVars>>
  PROVE  IInv'
  BY DEF IInv, LocksAreTyped, TimerIsTyped, ClockIsPast, AlertsAreSound, ExpiryIsKnown,
         serviceVars, timerVars

\* The console changes locks only where the service does what it was asked.
LEMMA ConsoleFacts ==
  ASSUME Answering \/ User \/ Network
  PROVE  UNCHANGED serviceVars \/ \E l : OperateOn(l)
  <1>1. ASSUME NEW p \in Panels, Serve(p) PROVE UNCHANGED serviceVars \/ \E l : OperateOn(l)
    BY <1>1 DEF Serve
  <1>2. ASSUME NEW p \in Panels, Reload(p) \/ RejectJob(p) PROVE UNCHANGED serviceVars
    BY <1>2 DEF Reload, RejectJob
  <1>3. ASSUME NEW n \in DOMAIN loads, AnswerLoad(n) \/ ReceiveLoad(n) \/ RejectLoad(n)
        PROVE  UNCHANGED serviceVars
    BY <1>3 DEF AnswerLoad, ReceiveLoad, RejectLoad
  <1>4. Refresh => UNCHANGED serviceVars
    BY DEF Refresh
  <1>5. ASSUME NEW p \in Panels, Select(p) \/ Close(p) \/ Click(p) PROVE UNCHANGED serviceVars
    BY <1>5 DEF Select, Close, Click
  <1> QED
    BY <1>1, <1>2, <1>3, <1>4, <1>5 DEF Answering, User, Network

LEMMA StepHolds == IInv /\ [Next]_vars => IInv'
  <1> SUFFICES ASSUME IInv, [Next]_vars PROVE IInv'
    OBVIOUS
  <1>1. CASE Clock
    BY <1>1, ClockHolds
  <1>2. CASE OtherClient
    BY <1>2, OperateHolds DEF OtherClient
  <1>3. CASE Start
    BY <1>3, StartHolds
  <1>4. CASE Timer
    BY <1>4, TimerHolds
  <1>5. CASE Console \/ ((User \/ Network) /\ UNCHANGED timerVars)
    <2>1. (Answering \/ User \/ Network) /\ UNCHANGED timerVars
      BY <1>5 DEF Console
    <2>2. UNCHANGED serviceVars \/ \E l : OperateOn(l)
      BY <2>1, ConsoleFacts
    <2>3. CASE UNCHANGED serviceVars
      BY <2>1, <2>3, StillHolds
    <2>4. CASE \E l : OperateOn(l)
      BY <2>1, <2>4, OperateHolds
    <2> QED
      BY <2>2, <2>3, <2>4
  <1>6. CASE UNCHANGED vars
    BY <1>6, StillHolds DEF vars
  <1> QED
    BY <1>1, <1>2, <1>3, <1>4, <1>5, <1>6 DEF Next

LEMMA Invariance == Spec => []IInv
  BY InitHolds, StepHolds, PTL DEF Spec

\* Alerts come in the order of their windows and never early, and the lock is not
\* marked before the expiry the workflow was given, however late the worker is and
\* whatever Temporal repeats (lock-timers.workflow.ts).
THEOREM AlertsKeepingOrder == Spec => []AlertsKeepOrder
  <1>1. IInv => AlertsKeepOrder
    BY DEF IInv, ClockIsPast, AlertsAreSound, AlertsKeepOrder
  <1> QED
    BY <1>1, Invariance, PTL

\* What an alert and the mark say of the lock is so, unless the lock was changed after
\* the timer was started (lock-timers.workflow.ts, LocksService.watchlist).
THEOREM TimerTelling == Spec => []TimerTellsTrue
  <1>1. IInv => TimerTellsTrue
    <2> SUFFICES ASSUME IInv PROVE TimerTellsTrue
      OBVIOUS
    <2>1. lockId \in LockIds /\ rateLock[lockId] \in LockRow /\ expiry \in Int
          /\ markedOn \in Int /\ now \in Int /\ window \in 1..4 /\ entries \in Nat
      BY DEF IInv, LocksAreTyped, TimerIsTyped
    <2>2. ASSUME timer = "alerting", Len(rateLock[lockId].actions) = entries
          PROVE  \/ lockId \in watchlist(3)
                 \/ rateLock[lockId].status \in {"float_down_applied", "voided"}
      <3>1. window <= 3 /\ now >= expiry - HOURS[window]
        BY <2>2 DEF IInv, ClockIsPast
      <3>2. expiry <= now + 3
        BY <2>1, <3>1, HoursFacts
      <3>3. rateLock[lockId].expiresAt = expiry
        BY <2>1, <2>2 DEF IInv, ExpiryIsKnown
      <3>4. rateLock[lockId].status \in {"locked", "extended", "float_down_applied", "voided"}
        BY <2>1 DEF LockRow
      <3> QED
        BY <2>1, <3>2, <3>3, <3>4 DEF watchlist
    <2>3. ASSUME timer = "done"
          PROVE  \/ rateLock[lockId].expiresAt <= markedOn
                 \/ \E k \in (entries + 1)..Len(rateLock[lockId].actions) :
                      rateLock[lockId].actions[k].type = "extend"
      BY <2>1, <2>3 DEF IInv, ClockIsPast, ExpiryIsKnown
    <2> QED
      BY <2>2, <2>3 DEF TimerTellsTrue
  <1> QED
    BY <1>1, Invariance, PTL

-----------------------------------------------------------------------------
(* A timer that is not late *)

\* Where a timer that is not late is on which day.
DayIsKnown ==
  /\ timer = "scheduling" => now = startedOn
  /\ timer = "deciding" =>
       now = startedOn \/ (startedOn < now /\ window > 1 /\ now = expiry - HOURS[window - 1])
  /\ timer = "asleep" => now <= wakeAt /\ startedOn < wakeAt
  /\ timer = "alerting" => now = expiry - HOURS[window] /\ startedOn < now
  /\ timer = "marking" => now = IF expiry > startedOn THEN expiry ELSE startedOn
  /\ timer = "done" => markedOn = IF expiry > startedOn THEN expiry ELSE startedOn

\* The alert of a window on its day, and the windows that had it still ahead at the start.
AlertOn(i) == [window |-> HOURS[i], at |-> expiry - HOURS[i]]

Ahead(i) == expiry - HOURS[i] > startedOn

\* The alerts are those of windows that were ahead, and all of those behind now.
AlertsAreExact ==
  /\ \A k \in DOMAIN alerts : \E i \in 1..3 : Ahead(i) /\ alerts[k] = AlertOn(i)
  /\ \A i \in 1..3 : i < window /\ Ahead(i) => \E k \in DOMAIN alerts : alerts[k] = AlertOn(i)

PromptInv ==
  /\ startedOn \in Int /\ late \in BOOLEAN
  /\ timer \in {"none", "scheduling"} => window = 1 /\ alerts = <<>>
  /\ timer \in {"marking", "done"} => window = 4
  /\ timer # "none" /\ ~late => DayIsKnown /\ AlertsAreExact

LEMMA PromptInit == Init => PromptInv
  <1> SUFFICES ASSUME Init PROVE PromptInv
    OBVIOUS
  <1>1. timer = "none" /\ window = 1 /\ alerts = <<>> /\ startedOn = 0 /\ late = FALSE
    BY DEF Init, TimerInit
  <1>2. startedOn \in Int
    BY <1>1
  <1>3. late \in BOOLEAN
    BY <1>1
  <1>4. timer \notin {"marking", "done"}
    BY <1>1
  <1> QED
    BY <1>1, <1>2, <1>3, <1>4, Zenon DEF PromptInv

\* The clock goes on without making the timer late only while it sleeps.
LEMMA PromptClock ==
  ASSUME IInv, PromptInv, Clock
  PROVE  PromptInv'
  <1>1. /\ now' = now + 1 /\ late' = (late \/ Due)
        /\ UNCHANGED <<timer, expiry, window, wakeAt, alerts, markedOn, startedOn>>
    BY DEF Clock, TimerTick, Tick
  <1>2. late' \in BOOLEAN
    BY <1>1
  <1>3. ASSUME timer # "none", ~late' PROVE DayIsKnown' /\ AlertsAreExact'
    <2>1. ~late /\ ~Due
      BY <1>1, <1>3
    <2>2. timer = "done" \/ (timer = "asleep" /\ ~(now >= wakeAt))
      BY <1>3, <2>1 DEF Due
    <2>3. now \in Int /\ wakeAt \in Int
      BY DEF IInv, LocksAreTyped, TimerIsTyped
    <2>4. DayIsKnown'
      BY <1>1, <1>3, <2>1, <2>2, <2>3 DEF PromptInv, DayIsKnown
    <2>5. AlertsAreExact'
      BY <1>1, <1>3, <2>1 DEF PromptInv, AlertsAreExact, AlertOn, Ahead
    <2> QED
      BY <2>4, <2>5
  <1> QED
    BY <1>1, <1>2, <1>3 DEF PromptInv

LEMMA PromptStart ==
  ASSUME IInv, PromptInv, Start
  PROVE  PromptInv'
  <1>1. /\ timer = "none" /\ timer' = "scheduling" /\ startedOn' = now
        /\ UNCHANGED <<now, window, alerts, late>>
    BY DEF Start, StartTimer, serviceVars
  <1>2. window' = 1 /\ alerts' = <<>> /\ startedOn' \in Int
    BY <1>1 DEF PromptInv, IInv, LocksAreTyped
  <1>3. DayIsKnown' /\ AlertsAreExact'
    BY <1>1, <1>2 DEF DayIsKnown, AlertsAreExact
  <1> QED
    BY <1>1, <1>2, <1>3 DEF PromptInv

\* A window is skipped only if its day was over at the start.
LEMMA PromptMove ==
  ASSUME IInv, PromptInv, UNCHANGED serviceVars,
         scheduleLockExpiry \/ NextWindow \/ SleepToExpiry \/ Wake \/ markLockExpired
  PROVE  PromptInv'
  <1>1. /\ timer # "none" /\ timer' \notin {"none", "scheduling"}
        /\ UNCHANGED <<now, expiry, alerts, startedOn, late>>
    BY DEF scheduleLockExpiry, NextWindow, SleepToExpiry, Wake, markLockExpired, Sleep,
           serviceVars, IInv, TimerIsTyped
  <1>2. /\ now \in Int /\ expiry \in Int /\ startedOn \in Int /\ wakeAt \in Int
        /\ window \in 1..4
        /\ timer = "asleep" =>
             wakeAt = IF window <= 3 THEN expiry - HOURS[window] ELSE expiry
    BY DEF IInv, PromptInv, LocksAreTyped, TimerIsTyped, ClockIsPast
  <1>3. timer' \in {"marking", "done"} => window' = 4
    BY <1>2, HoursFacts DEF scheduleLockExpiry, NextWindow, SleepToExpiry, Wake,
       markLockExpired, Sleep, PromptInv
  <1>4. ASSUME ~late' PROVE DayIsKnown' /\ AlertsAreExact'
    <2>1. DayIsKnown /\ AlertsAreExact
      BY <1>1, <1>4 DEF PromptInv
    <2>2. CASE scheduleLockExpiry
      <3>1. DayIsKnown'
        BY <1>1, <2>1, <2>2 DEF scheduleLockExpiry, DayIsKnown
      <3>2. AlertsAreExact'
        BY <1>1, <2>1, <2>2 DEF scheduleLockExpiry, AlertsAreExact, AlertOn, Ahead
      <3> QED
        BY <3>1, <3>2
    <2>3. CASE NextWindow
      <3>1. timer = "deciding" /\ window \in 1..3 /\ HOURS[window] \in 1..3
        BY <1>2, <2>3, HoursFacts DEF NextWindow
      <3>2. CASE expiry - HOURS[window] - now > 0
        <4>1. /\ timer' = "asleep" /\ wakeAt' = expiry - HOURS[window] /\ window' = window
          BY <2>3, <3>2 DEF NextWindow, Sleep, WindowStart
        <4>2. startedOn <= now
          BY <1>2, <2>1, <3>1 DEF DayIsKnown
        <4> QED
          BY <1>1, <1>2, <2>1, <3>1, <3>2, <4>1, <4>2
             DEF DayIsKnown, AlertsAreExact, AlertOn, Ahead
      <3>3. CASE ~(expiry - HOURS[window] - now > 0)
        <4>1. timer' = "deciding" /\ window' = window + 1
          BY <2>3, <3>1, <3>3 DEF NextWindow, Skip, WindowStart
        <4>2. now = startedOn
          BY <1>2, <2>1, <3>1, <3>3, HoursFacts DEF DayIsKnown
        <4>3. ~Ahead(window)
          BY <1>2, <3>1, <3>3, <4>2 DEF Ahead
        <4>4. DayIsKnown'
          BY <1>1, <4>1, <4>2 DEF DayIsKnown
        <4>5. AlertsAreExact'
          BY <1>1, <1>2, <2>1, <4>1, <4>3 DEF AlertsAreExact, AlertOn, Ahead
        <4> QED
          BY <4>4, <4>5
      <3> QED
        BY <3>2, <3>3
    <2>4. CASE SleepToExpiry
      <3>1. timer = "deciding" /\ window = 4 /\ window' = 4
        BY <1>2, <2>4, HoursFacts DEF SleepToExpiry
      <3>2. now = startedOn \/ (now = expiry - 1 /\ startedOn < now)
        <4>1. window - 1 = 3
          BY <3>1
        <4> QED
          BY <2>1, <3>1, <4>1, HoursFacts DEF DayIsKnown
      <3>3. DayIsKnown'
        BY <1>1, <1>2, <2>4, <3>1, <3>2 DEF SleepToExpiry, Sleep, DayIsKnown
      <3>4. AlertsAreExact'
        BY <1>1, <2>1, <3>1 DEF AlertsAreExact, AlertOn, Ahead
      <3> QED
        BY <3>3, <3>4
    <2>5. CASE Wake
      <3>1. /\ timer = "asleep" /\ now >= wakeAt /\ UNCHANGED <<window, wakeAt>>
            /\ timer' = IF window <= 3 THEN "alerting" ELSE "marking"
        BY <2>5, HoursFacts DEF Wake
      <3>2. now = wakeAt /\ startedOn < now
        BY <1>2, <2>1, <3>1 DEF DayIsKnown
      <3>3. DayIsKnown'
        BY <1>1, <1>2, <3>1, <3>2, HoursFacts DEF DayIsKnown
      <3>4. AlertsAreExact'
        BY <1>1, <2>1, <3>1 DEF AlertsAreExact, AlertOn, Ahead
      <3> QED
        BY <3>3, <3>4
    <2>6. CASE markLockExpired
      <3>1. timer = "marking" /\ timer' = "done" /\ markedOn' = now /\ window' = window
        BY <2>6 DEF markLockExpired
      <3>2. DayIsKnown'
        BY <1>1, <2>1, <3>1 DEF DayIsKnown
      <3>3. AlertsAreExact'
        BY <1>1, <2>1, <3>1 DEF AlertsAreExact, AlertOn, Ahead
      <3> QED
        BY <3>2, <3>3
    <2> QED
      BY <2>2, <2>3, <2>4, <2>5, <2>6
  <1> QED
    BY <1>1, <1>2, <1>3, <1>4 DEF PromptInv

LEMMA PromptAlert ==
  ASSUME IInv, PromptInv, UNCHANGED serviceVars, emitLockAlert
  PROVE  PromptInv'
  <1> DEFINE a == [window |-> HOURS[window], at |-> now]
             t == Append(alerts, a)
  <1>1. /\ timer = "alerting" /\ alerts' = t
        /\ \/ timer' = "deciding" /\ window' = window + 1
           \/ timer' = "alerting" /\ window' = window
        /\ UNCHANGED <<now, expiry, startedOn, late>>
    BY DEF emitLockAlert, Lose, serviceVars
  <1>2. /\ window \in 1..3 /\ HOURS[window] \in 1..3
        /\ now \in Int /\ expiry \in Int /\ startedOn \in Int
    BY <1>1, HoursFacts DEF IInv, PromptInv, ClockIsPast, TimerIsTyped, LocksAreTyped
  <1>3. ASSUME ~late' PROVE DayIsKnown' /\ AlertsAreExact'
    <2>1. DayIsKnown /\ AlertsAreExact
      BY <1>1, <1>3 DEF PromptInv
    <2>2. now = expiry - HOURS[window] /\ startedOn < now
      BY <1>1, <2>1 DEF DayIsKnown
    <2>3. a = AlertOn(window) /\ Ahead(window)
      BY <1>2, <2>2 DEF AlertOn, Ahead
    <2>4. a \in [window : 1..3, at : Int]
      BY <1>2
    <2> HIDE DEF a
    <2>5. alerts \in Seq([window : 1..3, at : Int])
      BY DEF IInv, TimerIsTyped
    <2>6. /\ Len(alerts) \in Nat /\ DOMAIN alerts = 1..Len(alerts)
          /\ DOMAIN t = 1..(Len(alerts) + 1)
          /\ t[Len(alerts) + 1] = a /\ \A k \in 1..Len(alerts) : t[k] = alerts[k]
      BY <2>4, <2>5, AppendProperties, LenProperties
    <2> HIDE DEF t
    <2>7. DayIsKnown'
      BY <1>1, <1>2, <2>2 DEF DayIsKnown
    <2>8. \A k \in DOMAIN t : \E i \in 1..3 : Ahead(i) /\ t[k] = AlertOn(i)
      <3> SUFFICES ASSUME NEW k \in DOMAIN t
                   PROVE  \E i \in 1..3 : Ahead(i) /\ t[k] = AlertOn(i)
        OBVIOUS
      <3>1. CASE k \in 1..Len(alerts)
        BY <2>1, <2>6, <3>1 DEF AlertsAreExact
      <3>2. CASE k = Len(alerts) + 1
        BY <1>2, <2>3, <2>6, <3>2
      <3> QED
        BY <2>6, <3>1, <3>2
    <2>9. \A i \in 1..3 : i < window' /\ Ahead(i) => \E k \in DOMAIN t : t[k] = AlertOn(i)
      <3> SUFFICES ASSUME NEW i \in 1..3, i < window', Ahead(i)
                   PROVE  \E k \in DOMAIN t : t[k] = AlertOn(i)
        OBVIOUS
      <3>1. CASE i < window
        <4>1. PICK k \in DOMAIN alerts : alerts[k] = AlertOn(i)
          BY <2>1, <3>1 DEF AlertsAreExact
        <4>2. k \in DOMAIN t /\ t[k] = AlertOn(i)
          BY <2>6, <4>1
        <4> QED
          BY <4>2
      <3>2. CASE i = window
        <4>1. Len(alerts) + 1 \in DOMAIN t /\ t[Len(alerts) + 1] = AlertOn(i)
          BY <2>3, <2>6, <3>2
        <4> QED
          BY <4>1
      <3> QED
        BY <1>1, <1>2, <3>1, <3>2
    <2>10. AlertsAreExact'
      BY <1>1, <2>8, <2>9 DEF AlertsAreExact, AlertOn, Ahead
    <2> QED
      BY <2>7, <2>10
  <1> QED
    BY <1>1, <1>2, <1>3 DEF PromptInv

LEMMA PromptStill ==
  ASSUME PromptInv, now' = now, UNCHANGED timerVars
  PROVE  PromptInv'
  BY DEF PromptInv, DayIsKnown, AlertsAreExact, AlertOn, Ahead, timerVars

LEMMA PromptStep == IInv /\ PromptInv /\ [Next]_vars => PromptInv'
  <1> SUFFICES ASSUME IInv, PromptInv, [Next]_vars PROVE PromptInv'
    OBVIOUS
  <1>1. CASE Clock
    BY <1>1, PromptClock
  <1>2. CASE OtherClient
    BY <1>2, PromptStill DEF OtherClient, OperateOn
  <1>3. CASE Start
    BY <1>3, PromptStart
  <1>4. CASE Timer
    BY <1>4, PromptMove, PromptAlert DEF Timer, TimerStep
  <1>5. CASE Console \/ ((User \/ Network) /\ UNCHANGED timerVars)
    <2>1. (Answering \/ User \/ Network) /\ UNCHANGED timerVars
      BY <1>5 DEF Console
    <2>2. now' = now
      BY <2>1, ConsoleFacts DEF serviceVars, OperateOn
    <2> QED
      BY <2>1, <2>2, PromptStill
  <1>6. CASE UNCHANGED vars
    BY <1>6, PromptStill DEF vars, serviceVars
  <1> QED
    BY <1>1, <1>2, <1>3, <1>4, <1>5, <1>6 DEF Next

\* A workflow that is not late alerts on the day of each window that was ahead when it
\* was started, and of no other, and marks the lock on the day of its expiry, or at
\* once (lock-timers.workflow.ts, msUntil and msToExpiry).
THEOREM PromptTimerExact == Spec => []PromptTimerIsExact
  <1>1. IInv /\ PromptInv => PromptTimerIsExact
    <2> SUFFICES ASSUME IInv, PromptInv, timer = "done", ~late
                 PROVE  /\ {[window |-> w, at |-> expiry - w] :
                              w \in {w \in Windows : expiry - w > startedOn}}
                             = {alerts[k] : k \in DOMAIN alerts}
                        /\ markedOn = IF expiry > startedOn THEN expiry ELSE startedOn
      BY DEF PromptTimerIsExact
    <2>1. DayIsKnown /\ AlertsAreExact /\ window = 4
      BY DEF PromptInv
    <2>2. Windows = {HOURS[i] : i \in 1..3}
      BY DEF Windows, HOURS
    <2>3. ASSUME NEW w \in Windows, expiry - w > startedOn
          PROVE  \E k \in DOMAIN alerts : alerts[k] = [window |-> w, at |-> expiry - w]
      <3>1. PICK i \in 1..3 : w = HOURS[i]
        BY <2>2
      <3>2. Ahead(i) /\ i < window
        BY <2>1, <2>3, <3>1 DEF Ahead
      <3> QED
        BY <2>1, <3>1, <3>2 DEF AlertsAreExact, AlertOn
    <2>4. ASSUME NEW k \in DOMAIN alerts
          PROVE  \E w \in {w \in Windows : expiry - w > startedOn} :
                   alerts[k] = [window |-> w, at |-> expiry - w]
      <3>1. PICK i \in 1..3 : Ahead(i) /\ alerts[k] = AlertOn(i)
        BY <2>1 DEF AlertsAreExact
      <3> QED
        BY <2>2, <3>1 DEF Ahead, AlertOn
    <2> QED
      BY <2>1, <2>3, <2>4 DEF DayIsKnown
  <1>2. Spec => []PromptInv
    BY PromptInit, PromptStep, Invariance, PTL DEF Spec
  <1> QED
    BY <1>1, <1>2, Invariance, PTL

-----------------------------------------------------------------------------
(***************************************************************************)
(* The console.  Lists overtake one another, so what a panel shows is no   *)
(* older than the operations that have ended only because of what is under *)
(* way: a fetch that ends an operation is the only one that does, and all  *)
(* that it and the others have been answered is no older than what the     *)
(* operations before have made.                                            *)
(***************************************************************************)
Ids == LockIds \cup ExceptionIds

IdsOf(p) == IF p = "locks" THEN LockIds ELSE ExceptionIds

Items == [id : Ids, version : Nat]

ItemsOf(p) == {x \in Items : x.id \in IdsOf(p)}

Job ==
  [stage : {"idle", "sent", "served", "reloading", "stuck"}, item : Items \cup {NoItem}]

AnswerSets == UNION {[Q -> SUBSET Items] : Q \in SUBSET Panels}

LoadRow ==
  [panels : SUBSET Panels, ends : SUBSET Panels, asked : SUBSET Panels,
   answer : AnswerSets, over : BOOLEAN]

TablesAreTyped ==
  /\ exception \in [ExceptionIds -> {"pending", "approved", "denied"}]
  /\ settled \in [Ids -> Nat]

\* A panel has items of its own kind only, listed, in the drawer and operated on.
PanelsAreTyped ==
  /\ shown \in [Panels -> SUBSET Items] /\ selected \in [Panels -> Items \cup {NoItem}]
  /\ \A p \in Panels :
       /\ shown[p] \subseteq ItemsOf(p)
       /\ selected[p] # NoItem => selected[p] \in ItemsOf(p)

JobsAreTyped ==
  /\ job \in [Panels -> Job]
  /\ \A p \in Panels : job[p].stage # "idle" => job[p].item \in ItemsOf(p)

\* What a fetch has been answered is of the panels that it is for.
LoadIsSound(f) ==
  /\ f.asked \subseteq f.panels /\ DOMAIN f.answer \subseteq f.panels
  /\ \A p \in DOMAIN f.answer : f.answer[p] \subseteq ItemsOf(p)

\* A fetch that ends the operation of a panel is for that panel, and does not list the
\* item older than the operation has made it.
EndIsSound(f, p) ==
  /\ f.ends = {p} /\ p \in f.panels /\ job[p].stage = "reloading"
  /\ p \in DOMAIN f.answer =>
       \A x \in f.answer[p] : x.id = job[p].item.id => x.version >= job[p].item.version

Open == {n \in DOMAIN loads : ~loads[n].over}

LoadsAreSound ==
  /\ loads \in Seq(LoadRow)
  /\ \A n \in Open :
       /\ LoadIsSound(loads[n])
       /\ \A p \in loads[n].ends : EndIsSound(loads[n], p)
       /\ \A m \in Open : n # m => loads[n].ends \cap loads[m].ends = {}

\* What an operation has made of its item is not ahead of the tables.
VersionsArePast ==
  /\ \A i \in Ids : settled[i] <= Version(i)
  /\ \A p \in Panels : job[p].stage \in {"served", "reloading"} =>
       job[p].item.version <= Version(job[p].item.id)

IsFresh(items) == \A x \in items : x.version >= settled[x.id]

\* No list is older than the operations that have ended, be it shown or on its way.
ListsAreFresh ==
  ~overtaken =>
    /\ \A p \in Panels : IsFresh(shown[p])
    /\ \A n \in Open : \A p \in DOMAIN loads[n].answer : IsFresh(loads[n].answer[p])

ConsoleInv ==
  /\ TablesAreTyped /\ PanelsAreTyped /\ JobsAreTyped /\ LoadsAreSound
  /\ VersionsArePast /\ ListsAreFresh

-----------------------------------------------------------------------------
(* Items and their versions *)

LEMMA IdFacts ==
  ASSUME NEW p \in Panels, NEW i \in IdsOf(p)
  PROVE  i \in Ids /\ PanelOf(i) = p
  BY LockConsoleAssumption DEF Panels, IdsOf, Ids, PanelOf

LEMMA VersionIsTyped ==
  ASSUME LocksAreTyped, TablesAreTyped, NEW i \in Ids
  PROVE  Version(i) \in Nat
  <1>1. CASE i \in LockIds
    <2>1. rateLock[i] \in LockRow
      BY <1>1 DEF LocksAreTyped
    <2>2. rateLock[i].actions \in Seq(Entries)
      BY <2>1 DEF LockRow
    <2> QED
      BY <1>1, <2>2, LenProperties DEF Version
  <1>2. CASE i \notin LockIds
    BY <1>2 DEF Version
  <1> QED
    BY <1>1, <1>2

\* No version falls.
VersionsRise ==
  \A i \in Ids : Version(i) \in Nat /\ Version(i)' \in Nat /\ Version(i) <= Version(i)'

LEMMA VersionsStay ==
  ASSUME LocksAreTyped, TablesAreTyped, rateLock' = rateLock, exception' = exception
  PROVE  VersionsRise
  <1> SUFFICES ASSUME NEW i \in Ids
               PROVE  Version(i) \in Nat /\ Version(i)' \in Nat /\ Version(i) <= Version(i)'
    BY DEF VersionsRise
  <1>1. Version(i) \in Nat
    BY VersionIsTyped
  <1>2. Version(i)' = Version(i)
    BY DEF Version
  <1> QED
    BY <1>1, <1>2

\* An operation on a lock changes no version but that of the lock, which grows.
LEMMA VersionsGrow ==
  ASSUME LocksAreTyped, TablesAreTyped, NEW l, OperateOn(l), exception' = exception
  PROVE  VersionsRise
  <1> SUFFICES ASSUME NEW i \in Ids
               PROVE  Version(i) \in Nat /\ Version(i)' \in Nat /\ Version(i) <= Version(i)'
    BY DEF VersionsRise
  <1>1. Version(i) \in Nat
    BY VersionIsTyped
  <1>2. CASE i \in LockIds
    <2>1. rateLock[i] \in LockRow
      BY <1>2 DEF LocksAreTyped
    <2>2. rateLock[i].actions \in Seq(Entries)
      BY <2>1 DEF LockRow
    <2>3. rateLock'[i] = rateLock[i] \/ Changed(rateLock[i], rateLock'[i])
      BY <1>2, OperateFacts
    <2>4. CASE rateLock'[i] = rateLock[i]
      BY <1>2, <2>2, <2>4, LenProperties DEF Version
    <2>5. CASE Changed(rateLock[i], rateLock'[i])
      <3>1. PICK e \in Entries : rateLock'[i].actions = Append(rateLock[i].actions, e)
        BY <2>5 DEF Changed
      <3>2. Len(rateLock'[i].actions) = Len(rateLock[i].actions) + 1
        BY <2>2, <3>1, AppendProperties
      <3> QED
        BY <1>2, <2>2, <3>2, LenProperties DEF Version
    <2> QED
      BY <2>3, <2>4, <2>5
  <1>3. CASE i \notin LockIds
    BY <1>1, <1>3 DEF Version
  <1> QED
    BY <1>2, <1>3

\* What is past stays past: a step may only make an item what it was, or what it is now.
LEMMA PastHolds ==
  ASSUME TablesAreTyped, JobsAreTyped, VersionsArePast, VersionsRise,
         \A i \in Ids : settled'[i] = settled[i]
                       \/ (settled'[i] \in Nat /\ settled'[i] <= Version(i)),
         \A p \in Panels : job'[p].stage \in {"served", "reloading"} =>
           \/ job'[p].item = job[p].item /\ job[p].stage \in {"served", "reloading"}
           \/ \E i \in Ids : job'[p].item = [id |-> i, version |-> Version(i)']
  PROVE  VersionsArePast'
  <1>1. ASSUME NEW i \in Ids PROVE settled'[i] <= Version(i)'
    <2>1. settled[i] \in Nat /\ settled[i] <= Version(i)
      BY DEF TablesAreTyped, VersionsArePast
    <2> QED
      BY <2>1 DEF VersionsRise
  <1>2. ASSUME NEW p \in Panels, job'[p].stage \in {"served", "reloading"}
        PROVE  job'[p].item.version <= Version(job[p].item.id)'
    <2>1. CASE job'[p].item = job[p].item /\ job[p].stage \in {"served", "reloading"}
      <3>1. job[p].item \in ItemsOf(p) /\ job[p].item.version <= Version(job[p].item.id)
        BY <2>1 DEF JobsAreTyped, VersionsArePast
      <3>2. job[p].item.id \in Ids /\ job[p].item.version \in Nat
        BY <3>1 DEF ItemsOf, Items
      <3>3. PICK i \in Ids : i = job[p].item.id
        BY <3>2
      <3>4. Version(i) \in Nat /\ Version(i)' \in Nat /\ Version(i) <= Version(i)'
        BY DEF VersionsRise
      <3>5. Version(job[p].item.id)' = Version(i)'
        BY <2>1, <3>3 DEF Version
      <3> QED
        BY <2>1, <3>1, <3>2, <3>3, <3>4, <3>5
    <2>2. CASE \E i \in Ids : job'[p].item = [id |-> i, version |-> Version(i)']
      <3>1. PICK i \in Ids : job'[p].item = [id |-> i, version |-> Version(i)']
        BY <2>2
      <3>2. Version(job[p].item.id)' = Version(i)'
        BY <3>1 DEF Version
      <3>3. Version(i)' \in Nat
        BY DEF VersionsRise
      <3> QED
        BY <3>1, <3>2, <3>3
    <2> QED
      BY <1>2, <2>1, <2>2
  <1> QED
    BY <1>1, <1>2 DEF VersionsArePast

LEMMA PastStays ==
  ASSUME TablesAreTyped, JobsAreTyped, VersionsArePast, VersionsRise,
         \A i \in Ids : settled'[i] = settled[i],
         \A p \in Panels : job'[p].stage \in {"served", "reloading"} =>
           job'[p].item = job[p].item /\ job[p].stage \in {"served", "reloading"}
  PROVE  VersionsArePast'
  <1>1. \A i \in Ids : settled'[i] = settled[i]
                     \/ (settled'[i] \in Nat /\ settled'[i] <= Version(i))
    OBVIOUS
  <1>2. \A p \in Panels : job'[p].stage \in {"served", "reloading"} =>
           \/ job'[p].item = job[p].item /\ job[p].stage \in {"served", "reloading"}
           \/ \E i \in Ids : job'[p].item = [id |-> i, version |-> Version(i)']
    OBVIOUS
  <1> QED
    BY <1>1, <1>2, PastHolds

\* What the service answers is of the panel that asks, and as the tables are.
LEMMA AnswersAreCurrent ==
  ASSUME LocksAreTyped, TablesAreTyped, NEW p \in Panels, NEW a \in Answers(p)
  PROVE  a \subseteq ItemsOf(p) /\ \A x \in a : x.version = Version(x.id)
  <1>1. \A i \in Listed(p) : i \in IdsOf(p)
    BY DEF Listed, watchlist, IdsOf, Panels
  <1>2. \A x \in First(p) : x \in Listed(p)
    BY DEF First
  <1>3. \A x \in a : \E i \in Listed(p) : x = Item(i)
    BY <1>2 DEF Answers
  <1>4. ASSUME NEW i \in Listed(p)
        PROVE  Item(i) \in ItemsOf(p) /\ Item(i).version = Version(Item(i).id)
    <2>1. i \in Ids /\ Version(i) \in Nat
      BY <1>1, IdFacts, VersionIsTyped
    <2> QED
      BY <1>1, <2>1 DEF Item, ItemsOf, Items
  <1> QED
    BY <1>3, <1>4

-----------------------------------------------------------------------------
(* Fetches *)

LEMMA LoadIsRow ==
  ASSUME NEW Q \in SUBSET Panels, NEW E \in SUBSET Panels
  PROVE  /\ Load(Q, E) \in LoadRow /\ Load(Q, E).over = FALSE
         /\ Load(Q, E).ends = E /\ Load(Q, E).panels = Q /\ Load(Q, E).asked = Q
         /\ DOMAIN Load(Q, E).answer = {}
         /\ Over \in LoadRow /\ Over.over = TRUE
  <1>1. DOMAIN <<>> = {}
    OBVIOUS
  <1>2. <<>> \in [{} -> SUBSET Items]
    OBVIOUS
  <1>3. <<>> \in AnswerSets
    BY <1>2 DEF AnswerSets
  <1> QED
    BY <1>1, <1>3 DEF Load, Over, LoadRow

\* A row of a fetch, field by field.
LEMMA RowFacts ==
  ASSUME NEW f \in LoadRow
  PROVE  /\ f.panels \in SUBSET Panels /\ f.ends \in SUBSET Panels
         /\ f.asked \in SUBSET Panels /\ f.over \in BOOLEAN
         /\ DOMAIN f.answer \in SUBSET Panels
         /\ f.answer \in [DOMAIN f.answer -> SUBSET Items]
         /\ \A p \in DOMAIN f.answer : f.answer[p] \in SUBSET Items
  <1>1. /\ f.panels \in SUBSET Panels /\ f.ends \in SUBSET Panels
        /\ f.asked \in SUBSET Panels /\ f.over \in BOOLEAN /\ f.answer \in AnswerSets
    BY DEF LoadRow
  <1>2. PICK Q \in SUBSET Panels : f.answer \in [Q -> SUBSET Items]
    BY <1>1 DEF AnswerSets
  <1>3. DOMAIN f.answer = Q
    BY <1>2
  <1> QED
    BY <1>1, <1>2, <1>3

LEMMA AnsweredFacts ==
  ASSUME NEW f \in LoadRow, NEW p \in Panels, NEW a \in SUBSET Items
  PROVE  /\ Answered(f, p, a) \in LoadRow
         /\ Answered(f, p, a).over = f.over /\ Answered(f, p, a).ends = f.ends
         /\ Answered(f, p, a).panels = f.panels /\ Answered(f, p, a).asked = f.asked \ {p}
         /\ DOMAIN Answered(f, p, a).answer = DOMAIN f.answer \cup {p}
         /\ Answered(f, p, a).answer[p] = a
         /\ \A q \in DOMAIN f.answer \ {p} : Answered(f, p, a).answer[q] = f.answer[q]
  <1> DEFINE Q == DOMAIN f.answer \cup {p}
             A == [q \in Q |-> IF q = p THEN a ELSE f.answer[q]]
             g == Answered(f, p, a)
  <1>1. Q \in SUBSET Panels /\ \A q \in DOMAIN f.answer : f.answer[q] \in SUBSET Items
    BY RowFacts
  <1>2. A \in [Q -> SUBSET Items]
    BY <1>1
  <1>3. /\ DOMAIN A = Q /\ A[p] = a
        /\ \A q \in DOMAIN f.answer \ {p} : A[q] = f.answer[q]
    OBVIOUS
  <1>4. g = [f EXCEPT !.asked = f.asked \ {p}, !.answer = A]
    BY DEF Answered
  <1> HIDE DEF A
  <1>5. A \in AnswerSets
    BY <1>1, <1>2 DEF AnswerSets
  <1> HIDE DEF Q
  <1>6. f.asked \ {p} \in SUBSET Panels
    BY RowFacts
  <1> HIDE DEF g
  <1>7. /\ g \in LoadRow /\ g.over = f.over /\ g.ends = f.ends /\ g.panels = f.panels
        /\ g.asked = f.asked \ {p} /\ g.answer = A
    BY <1>4, <1>5, <1>6 DEF LoadRow
  <1> USE DEF g
  <1> QED
    BY <1>3, <1>7 DEF Q

\* The fetches after a step: those that it leaves as they were, with their operations,
\* stay sound, and what is left to show is about the others, whose places are K.
LEMMA LoadsHold ==
  ASSUME LoadsAreSound, loads' \in Seq(LoadRow), NEW K,
         \A n \in Open' \ K : /\ n \in Open /\ loads'[n] = loads[n]
                              /\ \A p \in loads[n].ends : job'[p] = job[p],
         \A n \in Open' \cap K :
           /\ LoadIsSound(loads[n])'
           /\ \A p \in loads'[n].ends : EndIsSound(loads[n], p)'
           /\ \A m \in Open' : n # m => loads'[n].ends \cap loads'[m].ends = {}
  PROVE  LoadsAreSound'
  <1>1. ASSUME NEW n \in Open', n \notin K
        PROVE  /\ LoadIsSound(loads[n])'
               /\ \A p \in loads'[n].ends : EndIsSound(loads[n], p)'
               /\ \A m \in Open' : n # m => loads'[n].ends \cap loads'[m].ends = {}
    <2>1. /\ n \in Open /\ loads'[n] = loads[n]
          /\ \A p \in loads[n].ends : job'[p] = job[p]
      BY <1>1
    <2>2. LoadIsSound(loads[n])'
      BY <2>1 DEF LoadsAreSound, LoadIsSound, ItemsOf
    <2>3. \A p \in loads'[n].ends : EndIsSound(loads[n], p)'
      BY <2>1 DEF LoadsAreSound, EndIsSound
    <2>4. ASSUME NEW m \in Open', n # m PROVE loads'[n].ends \cap loads'[m].ends = {}
      <3>1. CASE m \in K
        BY <1>1, <2>4, <3>1
      <3>2. CASE m \notin K
        BY <1>1, <2>1, <2>4, <3>2 DEF LoadsAreSound
      <3> QED
        BY <3>1, <3>2
    <2> QED
      BY <2>2, <2>3, <2>4
  <1> QED
    BY <1>1 DEF LoadsAreSound

\* A list that is over.
LEMMA OverFacts ==
  ASSUME loads \in Seq(LoadRow), NEW n \in DOMAIN loads, loads' = [loads EXCEPT ![n] = Over]
  PROVE  /\ loads' \in Seq(LoadRow)
         /\ \A m \in Open' : m \in Open /\ m # n /\ loads'[m] = loads[m]
  <1>1. Over \in LoadRow /\ Over.over = TRUE
    BY LoadIsRow
  <1>2. /\ loads' \in Seq(LoadRow) /\ DOMAIN loads' = DOMAIN loads
        /\ loads'[n] = Over /\ \A m \in DOMAIN loads \ {n} : loads'[m] = loads[m]
    BY <1>1
  <1> QED
    BY <1>1, <1>2 DEF Open

-----------------------------------------------------------------------------
(* Steps *)

LEMMA ConsoleInvInit == Init => ConsoleInv
  <1> SUFFICES ASSUME Init PROVE ConsoleInv
    OBVIOUS
  <1>1. /\ exception = [x \in ExceptionIds |-> "pending"]
        /\ shown = [p \in Panels |-> {}] /\ selected = [p \in Panels |-> NoItem]
        /\ job = [p \in Panels |-> Idle] /\ loads = <<>>
        /\ settled = [i \in Ids |-> 0] /\ overtaken = FALSE
    BY DEF Init, ConsoleInit, Ids
  <1>2. TablesAreTyped
    BY <1>1 DEF TablesAreTyped
  <1>3. PanelsAreTyped
    BY <1>1 DEF PanelsAreTyped
  <1>4. JobsAreTyped /\ \A p \in Panels : job[p].stage = "idle"
    BY <1>1 DEF JobsAreTyped, Job, Idle
  <1>5. Open = {} /\ loads \in Seq(LoadRow)
    BY <1>1 DEF Open
  <1>6. LoadsAreSound
    BY <1>5 DEF LoadsAreSound
  <1>7. LocksAreTyped
    BY InitHolds DEF IInv
  <1>8. \A i \in Ids : settled[i] <= Version(i)
    BY <1>1, <1>2, <1>7, VersionIsTyped
  <1>9. VersionsArePast
    BY <1>4, <1>8 DEF VersionsArePast
  <1>10. ListsAreFresh
    BY <1>1, <1>5 DEF ListsAreFresh, IsFresh
  <1> QED
    BY <1>2, <1>3, <1>4, <1>6, <1>9, <1>10 DEF ConsoleInv

\* The console does nothing, and versions do not fall.
LEMMA OthersHold ==
  ASSUME ConsoleInv, UNCHANGED consoleVars, VersionsRise
  PROVE  ConsoleInv'
  <1>1. /\ exception' = exception /\ shown' = shown /\ selected' = selected /\ job' = job
        /\ loads' = loads /\ settled' = settled /\ overtaken' = overtaken
    BY DEF consoleVars
  <1>2. TablesAreTyped' /\ PanelsAreTyped' /\ JobsAreTyped'
    BY <1>1 DEF ConsoleInv, TablesAreTyped, PanelsAreTyped, JobsAreTyped, ItemsOf
  <1>3. Open' = Open
    BY <1>1 DEF Open
  <1>4. LoadsAreSound'
    BY <1>1, <1>3 DEF ConsoleInv, LoadsAreSound, LoadIsSound, EndIsSound, ItemsOf
  <1>5. ListsAreFresh'
    BY <1>1, <1>3 DEF ConsoleInv, ListsAreFresh, IsFresh
  <1>6. VersionsArePast'
    <2>1. \A i \in Ids : settled'[i] = settled[i]
      BY <1>1
    <2>2. \A p \in Panels : job'[p].stage \in {"served", "reloading"} =>
            job'[p].item = job[p].item /\ job[p].stage \in {"served", "reloading"}
      BY <1>1
    <2> QED
      BY <2>1, <2>2, PastStays DEF ConsoleInv
  <1> QED
    BY <1>2, <1>4, <1>5, <1>6 DEF ConsoleInv

\* Fetches that a step leaves, with the operations that they end, and new ones that have
\* no answer yet.
LEMMA RefreshHolds ==
  ASSUME LocksAreTyped, ConsoleInv, Refresh
  PROVE  ConsoleInv'
  <1>1. /\ exception' = exception /\ shown' = shown /\ selected' = selected /\ job' = job
        /\ settled' = settled /\ overtaken' = overtaken /\ rateLock' = rateLock
        /\ loads' = loads \o IF page = "loan" THEN <<Load(Panels, {})>>
                             ELSE <<Load({"locks"}, {}), Load({"exceptions"}, {})>>
    BY DEF Refresh, serviceVars
  <1>2. PICK t : /\ loads' = loads \o t
                 /\ \/ t = <<Load(Panels, {})>>
                    \/ t = <<Load({"locks"}, {}), Load({"exceptions"}, {})>>
    BY <1>1
  <1>3. /\ t \in Seq(LoadRow)
        /\ \A k \in DOMAIN t : /\ t[k].ends = {} /\ DOMAIN t[k].answer = {}
                              /\ t[k].asked = t[k].panels
    <2> DEFINE a == Load(Panels, {})  b == Load({"locks"}, {})  c == Load({"exceptions"}, {})
    <2>1. /\ a \in LoadRow /\ a.ends = {} /\ DOMAIN a.answer = {} /\ a.asked = a.panels
          /\ b \in LoadRow /\ b.ends = {} /\ DOMAIN b.answer = {} /\ b.asked = b.panels
          /\ c \in LoadRow /\ c.ends = {} /\ DOMAIN c.answer = {} /\ c.asked = c.panels
      <3>1. \A E \in {Panels, {"locks"}, {"exceptions"}, {}} : E \in SUBSET Panels
        BY DEF Panels
      <3>2. ASSUME NEW E \in {Panels, {"locks"}, {"exceptions"}}
            PROVE  /\ Load(E, {}) \in LoadRow /\ Load(E, {}).ends = {}
                   /\ DOMAIN Load(E, {}).answer = {} /\ Load(E, {}).asked = Load(E, {}).panels
        <4>1. E \in SUBSET Panels
          BY <3>1, <3>2
        <4>2. PICK none \in SUBSET Panels : none = {}
          OBVIOUS
        <4>3. /\ Load(E, none) \in LoadRow /\ Load(E, none).ends = none
              /\ Load(E, none).panels = E /\ Load(E, none).asked = E
              /\ DOMAIN Load(E, none).answer = {}
          BY <4>1, LoadIsRow
        <4> QED
          BY <4>2, <4>3
      <3> QED
        BY <3>2
    <2>2. t = <<a>> \/ t = <<b, c>>
      BY <1>2
    <2> HIDE DEF a, b, c
    <2>3. CASE t = <<a>>
      BY <2>1, <2>3
    <2>4. CASE t = <<b, c>>
      <3>1. t \in Seq(LoadRow) /\ DOMAIN t = 1..2 /\ t[1] = b /\ t[2] = c
        BY <2>1, <2>4
      <3>2. ASSUME NEW k \in DOMAIN t
            PROVE  t[k].ends = {} /\ DOMAIN t[k].answer = {} /\ t[k].asked = t[k].panels
        <4>1. k = 1 \/ k = 2
          BY <3>1
        <4> QED
          BY <2>1, <3>1, <4>1
      <3> QED
        BY <3>1, <3>2
    <2> QED
      BY <2>2, <2>3, <2>4
  <1>4. loads \in Seq(LoadRow)
    BY DEF ConsoleInv, LoadsAreSound
  <1>5. /\ loads' \in Seq(LoadRow)
        /\ DOMAIN loads' = 1..(Len(loads) + Len(t)) /\ DOMAIN loads = 1..Len(loads)
        /\ DOMAIN t = 1..Len(t) /\ Len(loads) \in Nat /\ Len(t) \in Nat
        /\ \A n \in 1..Len(loads) : loads'[n] = loads[n]
        /\ \A n \in (Len(loads) + 1)..(Len(loads) + Len(t)) : loads'[n] = t[n - Len(loads)]
    BY <1>2, <1>3, <1>4, ConcatProperties, LenProperties
  <1> DEFINE K == (Len(loads) + 1)..(Len(loads) + Len(t))
  <1>6. ASSUME NEW n \in Open', n \notin K
        PROVE  n \in Open /\ loads'[n] = loads[n]
    BY <1>5, <1>6 DEF Open
  <1>7. ASSUME NEW n \in K
        PROVE  /\ loads'[n].ends = {} /\ DOMAIN loads'[n].answer = {}
               /\ loads'[n].asked = loads'[n].panels
    <2>1. n - Len(loads) \in DOMAIN t /\ loads'[n] = t[n - Len(loads)]
      BY <1>5, <1>7
    <2> QED
      BY <1>3, <2>1
  <1>8. LoadsAreSound'
    <2>1. \A n \in Open' \ K : /\ n \in Open /\ loads'[n] = loads[n]
                                /\ \A p \in loads[n].ends : job'[p] = job[p]
      BY <1>1, <1>6
    <2>2. \A n \in Open' \cap K :
            /\ LoadIsSound(loads[n])'
            /\ \A p \in loads'[n].ends : EndIsSound(loads[n], p)'
            /\ \A m \in Open' : n # m => loads'[n].ends \cap loads'[m].ends = {}
      BY <1>7 DEF LoadIsSound
    <2> HIDE DEF K
    <2> QED
      BY <1>5, <2>1, <2>2, LoadsHold DEF ConsoleInv
  <1>9. ListsAreFresh'
    BY <1>1, <1>6, <1>7 DEF ConsoleInv, ListsAreFresh, IsFresh
  <1>10. VersionsArePast'
    <2>1. VersionsRise
      BY <1>1, VersionsStay DEF ConsoleInv
    <2>2. \A i \in Ids : settled'[i] = settled[i]
      BY <1>1
    <2>3. \A p \in Panels : job'[p].stage \in {"served", "reloading"} =>
            job'[p].item = job[p].item /\ job[p].stage \in {"served", "reloading"}
      BY <1>1
    <2> QED
      BY <2>1, <2>2, <2>3, PastStays DEF ConsoleInv
  <1>11. TablesAreTyped' /\ PanelsAreTyped' /\ JobsAreTyped'
    BY <1>1 DEF ConsoleInv, TablesAreTyped, PanelsAreTyped, JobsAreTyped, ItemsOf
  <1> QED
    BY <1>8, <1>9, <1>10, <1>11 DEF ConsoleInv

\* A step of the user or the network that leaves the tables, the fetches and what has
\* ended: no item comes to a panel from elsewhere, and no operation goes on or back.
LEMMA PanelStepHolds ==
  ASSUME LocksAreTyped, ConsoleInv,
         UNCHANGED <<serviceVars, exception, loads, settled, overtaken>>,
         PanelsAreTyped', JobsAreTyped',
         \A p \in Panels : shown'[p] \subseteq shown[p],
         \A p \in Panels : job[p].stage = "reloading" => job'[p] = job[p],
         \A p \in Panels : job'[p].stage \in {"served", "reloading"} => job'[p] = job[p]
  PROVE  ConsoleInv'
  <1>1. /\ exception' = exception /\ loads' = loads /\ settled' = settled
        /\ overtaken' = overtaken /\ rateLock' = rateLock
    BY DEF serviceVars
  <1>2. TablesAreTyped'
    BY <1>1 DEF ConsoleInv, TablesAreTyped
  <1>3. Open' = Open
    BY <1>1 DEF Open
  <1>4. LoadsAreSound'
    <2>1. \A n \in Open' \ {} : /\ n \in Open /\ loads'[n] = loads[n]
                                /\ \A p \in loads[n].ends : job'[p] = job[p]
      <3> SUFFICES ASSUME NEW n \in Open, NEW p \in loads[n].ends PROVE job'[p] = job[p]
        BY <1>1, <1>3
      <3>1. n \in DOMAIN loads /\ loads \in Seq(LoadRow)
        BY DEF Open, ConsoleInv, LoadsAreSound
      <3>2. p \in Panels
        BY <3>1, RowFacts
      <3>3. job[p].stage = "reloading"
        BY DEF ConsoleInv, LoadsAreSound, EndIsSound
      <3> QED
        BY <3>2, <3>3
    <2>2. \A n \in Open' \cap {} :
            /\ LoadIsSound(loads[n])'
            /\ \A p \in loads'[n].ends : EndIsSound(loads[n], p)'
            /\ \A m \in Open' : n # m => loads'[n].ends \cap loads'[m].ends = {}
      OBVIOUS
    <2>3. loads' \in Seq(LoadRow)
      BY <1>1 DEF ConsoleInv, LoadsAreSound
    <2>4. PICK K : K = {}
      OBVIOUS
    <2> QED
      BY <2>1, <2>2, <2>3, <2>4, LoadsHold DEF ConsoleInv
  <1>5. ListsAreFresh'
    BY <1>1, <1>3 DEF ConsoleInv, ListsAreFresh, IsFresh
  <1>6. VersionsArePast'
    <2>1. VersionsRise
      BY <1>1, VersionsStay DEF ConsoleInv
    <2>2. \A i \in Ids : settled'[i] = settled[i]
      BY <1>1
    <2>3. \A p \in Panels : job'[p].stage \in {"served", "reloading"} =>
            job'[p].item = job[p].item /\ job[p].stage \in {"served", "reloading"}
      OBVIOUS
    <2> QED
      BY <2>1, <2>2, <2>3, PastStays DEF ConsoleInv
  <1> QED
    BY <1>2, <1>4, <1>5, <1>6 DEF ConsoleInv

LEMMA UserHolds ==
  ASSUME LocksAreTyped, ConsoleInv, NEW p \in Panels, Select(p) \/ Close(p) \/ Click(p)
  PROVE  ConsoleInv'
  <1>1. /\ shown \in [Panels -> SUBSET Items] /\ selected \in [Panels -> Items \cup {NoItem}]
        /\ \A q \in Panels : /\ shown[q] \subseteq ItemsOf(q)
                             /\ selected[q] # NoItem => selected[q] \in ItemsOf(q)
    BY DEF ConsoleInv, PanelsAreTyped
  <1>2. /\ job \in [Panels -> Job]
        /\ \A q \in Panels : job[q].stage # "idle" => job[q].item \in ItemsOf(q)
    BY DEF ConsoleInv, JobsAreTyped
  <1>3. CASE Select(p)
    <2>1. PICK x \in shown[p] : selected' = [selected EXCEPT ![p] = x]
      BY <1>3 DEF Select
    <2>2. UNCHANGED <<serviceVars, exception, shown, job, loads, settled, overtaken>>
      BY <1>3 DEF Select
    <2>3. x \in ItemsOf(p) /\ x \in Items
      BY <1>1 DEF ItemsOf
    <2>4. PanelsAreTyped'
      BY <1>1, <2>1, <2>2, <2>3 DEF PanelsAreTyped, ItemsOf
    <2>5. JobsAreTyped'
      BY <2>2 DEF ConsoleInv, JobsAreTyped, ItemsOf
    <2> QED
      BY <2>2, <2>4, <2>5, PanelStepHolds
  <1>4. CASE Close(p)
    <2>1. /\ selected' = [selected EXCEPT ![p] = NoItem]
          /\ shown' = [shown EXCEPT ![p] = {}] \/ shown' = shown
      BY <1>4 DEF Close
    <2>2. UNCHANGED <<serviceVars, exception, job, loads, settled, overtaken>>
      BY <1>4 DEF Close
    <2>3. \A q \in Panels : shown'[q] = {} \/ shown'[q] = shown[q]
      BY <1>1, <2>1
    <2>4. shown' \in [Panels -> SUBSET Items] /\ selected' \in [Panels -> Items \cup {NoItem}]
      BY <1>1, <2>1
    <2>5. \A q \in Panels : selected'[q] = NoItem \/ selected'[q] = selected[q]
      BY <1>1, <2>1
    <2>6. PanelsAreTyped'
      BY <1>1, <2>3, <2>4, <2>5 DEF PanelsAreTyped, ItemsOf
    <2>7. JobsAreTyped'
      BY <2>2 DEF ConsoleInv, JobsAreTyped, ItemsOf
    <2>8. \A q \in Panels : shown'[q] \subseteq shown[q]
      BY <2>3
    <2> QED
      BY <2>2, <2>6, <2>7, <2>8, PanelStepHolds
  <1>5. CASE Click(p)
    <2> DEFINE new == [stage |-> "sent", item |-> selected[p]]
    <2>1. selected[p] # NoItem /\ job[p].stage = "idle" /\ job' = [job EXCEPT ![p] = new]
      BY <1>5 DEF Click
    <2>2. UNCHANGED <<serviceVars, exception, shown, selected, loads, settled, overtaken>>
      BY <1>5 DEF Click
    <2>3. new \in Job /\ new.item \in ItemsOf(p) /\ new.stage = "sent"
      BY <1>1, <2>1 DEF Job, ItemsOf
    <2> HIDE DEF new
    <2>4. job' \in [Panels -> Job] /\ job'[p] = new /\ \A q \in Panels \ {p} : job'[q] = job[q]
      BY <1>2, <2>1, <2>3
    <2>5. JobsAreTyped'
      BY <1>2, <2>3, <2>4 DEF JobsAreTyped, ItemsOf
    <2>6. PanelsAreTyped'
      BY <2>2 DEF ConsoleInv, PanelsAreTyped, ItemsOf
    <2>7. /\ \A q \in Panels : job[q].stage = "reloading" => job'[q] = job[q]
          /\ \A q \in Panels : job'[q].stage \in {"served", "reloading"} => job'[q] = job[q]
      BY <2>1, <2>3, <2>4
    <2> QED
      BY <2>2, <2>5, <2>6, <2>7, PanelStepHolds
  <1> QED
    BY <1>3, <1>4, <1>5

LEMMA RejectJobHolds ==
  ASSUME LocksAreTyped, ConsoleInv, NEW p \in Panels, RejectJob(p)
  PROVE  ConsoleInv'
  <1> DEFINE new == [stage |-> "stuck", item |-> job[p].item]
  <1>1. /\ job \in [Panels -> Job]
        /\ \A q \in Panels : job[q].stage # "idle" => job[q].item \in ItemsOf(q)
    BY DEF ConsoleInv, JobsAreTyped
  <1>2. /\ job[p].stage \in {"sent", "served"} /\ job' = [job EXCEPT ![p].stage = "stuck"]
        /\ UNCHANGED <<serviceVars, exception, shown, selected, loads, settled, overtaken>>
    BY DEF RejectJob
  <1>3. job[p] \in Job
    BY <1>1
  <1>4. new \in Job /\ new.item = job[p].item /\ new.stage = "stuck"
        /\ [job[p] EXCEPT !.stage = "stuck"] = new
    BY <1>3 DEF Job
  <1>5. job' = [job EXCEPT ![p] = new]
    BY <1>1, <1>2, <1>4
  <1> HIDE DEF new
  <1>6. job' \in [Panels -> Job] /\ job'[p] = new /\ \A q \in Panels \ {p} : job'[q] = job[q]
    BY <1>1, <1>4, <1>5
  <1>7. JobsAreTyped'
    BY <1>1, <1>2, <1>4, <1>6 DEF JobsAreTyped, ItemsOf
  <1>8. PanelsAreTyped'
    BY <1>2 DEF ConsoleInv, PanelsAreTyped, ItemsOf
  <1>9. /\ \A q \in Panels : job[q].stage = "reloading" => job'[q] = job[q]
        /\ \A q \in Panels : job'[q].stage \in {"served", "reloading"} => job'[q] = job[q]
    BY <1>2, <1>4, <1>6
  <1>10. \A q \in Panels : shown'[q] \subseteq shown[q]
    BY <1>2
  <1> QED
    BY <1>2, <1>7, <1>8, <1>9, <1>10, PanelStepHolds

\* The operation that a fetch ends waits for it.
LEMMA EndFacts ==
  ASSUME LoadsAreSound, NEW n \in Open, NEW p \in loads[n].ends
  PROVE  p \in Panels /\ loads[n].ends = {p} /\ job[p].stage = "reloading"
  <1>1. loads[n] \in LoadRow
    BY DEF Open, LoadsAreSound
  <1>2. p \in Panels
    BY <1>1, RowFacts
  <1> QED
    BY <1>2 DEF LoadsAreSound, EndIsSound

LEMMA ServeHolds ==
  ASSUME LocksAreTyped, ConsoleInv, NEW p \in Panels, Serve(p)
  PROVE  ConsoleInv'
  <1> DEFINE id == job[p].item.id
             v == IF p = "locks" THEN Len(rateLock'[id].actions)
                  ELSE IF exception'[id] = "pending" THEN 0 ELSE 1
             new == [stage |-> "served", item |-> [id |-> id, version |-> v]]
  <1>1. /\ job[p].stage = "sent" /\ job' = [job EXCEPT ![p] = new]
        /\ UNCHANGED <<page, shown, selected, loads, settled, overtaken>>
    BY DEF Serve
  <1>2. /\ job \in [Panels -> Job]
        /\ \A q \in Panels : job[q].stage # "idle" => job[q].item \in ItemsOf(q)
    BY DEF ConsoleInv, JobsAreTyped
  <1>3. id \in IdsOf(p) /\ id \in Ids /\ (id \in LockIds <=> p = "locks")
    <2>1. id \in IdsOf(p)
      BY <1>1, <1>2 DEF ItemsOf
    <2> QED
      BY <2>1, LockConsoleAssumption DEF IdsOf, Ids
  <1>4. VersionsRise /\ TablesAreTyped'
    <2>1. CASE OperateOn(id) /\ UNCHANGED exception
      BY <1>1, <2>1, VersionsGrow DEF ConsoleInv, TablesAreTyped
    <2>2. CASE UNCHANGED <<serviceVars, exception>>
      BY <1>1, <2>2, VersionsStay DEF ConsoleInv, TablesAreTyped, serviceVars
    <2>3. CASE /\ p = "exceptions" /\ exception[id] = "pending"
               /\ \E d \in {"approved", "denied"} : exception' = [exception EXCEPT ![id] = d]
               /\ UNCHANGED serviceVars
      <3>1. PICK d \in {"approved", "denied"} : exception' = [exception EXCEPT ![id] = d]
        BY <2>3
      <3>2. exception \in [ExceptionIds -> {"pending", "approved", "denied"}] /\ rateLock' = rateLock
        BY <2>3 DEF ConsoleInv, TablesAreTyped, serviceVars
      <3>3. id \in ExceptionIds
        BY <1>3, <2>3 DEF IdsOf
      <3>4. TablesAreTyped'
        BY <1>1, <3>1, <3>2 DEF ConsoleInv, TablesAreTyped
      <3>5. ASSUME NEW i \in Ids
            PROVE  Version(i) \in Nat /\ Version(i)' \in Nat /\ Version(i) <= Version(i)'
        <4>1. Version(i) \in Nat
          BY VersionIsTyped DEF ConsoleInv
        <4>2. CASE i \in LockIds
          <5>1. Version(i)' = Version(i)
            BY <3>2, <4>2 DEF Version
          <5> QED
            BY <4>1, <5>1
        <4>3. CASE i \notin LockIds
          <5>1. i \in ExceptionIds /\ (i = id => Version(i) = 0 /\ Version(i)' = 1)
                /\ (i # id => Version(i)' = Version(i))
            BY <2>3, <3>1, <3>2, <3>3, <4>3 DEF Version, Ids
          <5> QED
            BY <4>1, <5>1
        <4> QED
          BY <4>2, <4>3
      <3> QED
        BY <3>4, <3>5 DEF VersionsRise
    <2> QED
      BY <2>1, <2>2, <2>3 DEF Serve
  <1>5. v = Version(id)'
    BY <1>1, <1>3 DEF Version
  <1>6. new.stage = "served" /\ new.item = [id |-> id, version |-> v]
    OBVIOUS
  <1>7. v \in Nat
    <2>1. PICK i \in Ids : i = id
      BY <1>3
    <2>2. Version(i)' \in Nat
      BY <1>4 DEF VersionsRise
    <2>3. v = Version(i)'
      BY <1>3, <2>1 DEF Version
    <2> QED
      BY <2>2, <2>3
  <1>8. \E i \in Ids : new.item = [id |-> i, version |-> Version(i)']
    <2>1. PICK i \in Ids : i = id
      BY <1>3
    <2>2. v = Version(i)'
      BY <1>3, <2>1 DEF Version
    <2> QED
      BY <2>1, <2>2
  <1> HIDE DEF v
  <1>9. new \in Job /\ new.item \in ItemsOf(p)
    BY <1>3, <1>7 DEF Job, Items, ItemsOf
  <1> HIDE DEF new
  <1>10. job' \in [Panels -> Job] /\ job'[p] = new /\ \A q \in Panels \ {p} : job'[q] = job[q]
    BY <1>1, <1>2, <1>9
  <1>11. JobsAreTyped'
    BY <1>2, <1>9, <1>10 DEF JobsAreTyped, ItemsOf
  <1>12. PanelsAreTyped'
    BY <1>1 DEF ConsoleInv, PanelsAreTyped, ItemsOf
  <1>13. Open' = Open
    BY <1>1 DEF Open
  <1>14. LoadsAreSound'
    <2>1. \A n \in Open' \ {} : /\ n \in Open /\ loads'[n] = loads[n]
                                /\ \A q \in loads[n].ends : job'[q] = job[q]
      BY <1>1, <1>10, <1>13, EndFacts DEF ConsoleInv
    <2>2. PICK K : K = {}
      OBVIOUS
    <2>3. \A n \in Open' \cap K :
            /\ LoadIsSound(loads[n])'
            /\ \A q \in loads'[n].ends : EndIsSound(loads[n], q)'
            /\ \A m \in Open' : n # m => loads'[n].ends \cap loads'[m].ends = {}
      BY <2>2
    <2>4. loads' \in Seq(LoadRow)
      BY <1>1 DEF ConsoleInv, LoadsAreSound
    <2> QED
      BY <2>1, <2>2, <2>3, <2>4, LoadsHold DEF ConsoleInv
  <1>15. ListsAreFresh'
    BY <1>1, <1>13 DEF ConsoleInv, ListsAreFresh, IsFresh
  <1>16. VersionsArePast'
    <2>1. \A i \in Ids : settled'[i] = settled[i]
                         \/ (settled'[i] \in Nat /\ settled'[i] <= Version(i))
      BY <1>1
    <2>2. \A q \in Panels : job'[q].stage \in {"served", "reloading"} =>
            \/ job'[q].item = job[q].item /\ job[q].stage \in {"served", "reloading"}
            \/ \E i \in Ids : job'[q].item = [id |-> i, version |-> Version(i)']
      BY <1>8, <1>10
    <2> QED
      BY <1>4, <2>1, <2>2, PastHolds DEF ConsoleInv
  <1> QED
    BY <1>4, <1>11, <1>12, <1>14, <1>15, <1>16 DEF ConsoleInv

LEMMA ReloadHolds ==
  ASSUME LocksAreTyped, ConsoleInv, NEW p \in Panels, Reload(p)
  PROVE  ConsoleInv'
  <1> DEFINE new == [stage |-> "reloading", item |-> job[p].item]
  <1>1. PICK Q \in SUBSET Panels :
          /\ p \in Q /\ job[p].stage = "served" /\ job' = [job EXCEPT ![p].stage = "reloading"]
          /\ loads' = Append(loads, Load(Q, {p}))
          /\ UNCHANGED <<serviceVars, exception, page, shown, selected, settled, overtaken>>
    <2>1. {p} \in SUBSET Panels /\ Panels \in SUBSET Panels
      OBVIOUS
    <2> QED
      BY <2>1 DEF Reload
  <1>2. /\ job \in [Panels -> Job]
        /\ \A q \in Panels : job[q].stage # "idle" => job[q].item \in ItemsOf(q)
    BY DEF ConsoleInv, JobsAreTyped
  <1>3. new \in Job /\ new.item = job[p].item /\ new.stage = "reloading"
        /\ [job[p] EXCEPT !.stage = "reloading"] = new
    <2>1. job[p] \in Job
      BY <1>2
    <2> QED
      BY <2>1 DEF Job
  <1>4. job' = [job EXCEPT ![p] = new]
    BY <1>1, <1>2, <1>3
  <1> HIDE DEF new
  <1>5. job' \in [Panels -> Job] /\ job'[p] = new /\ \A q \in Panels \ {p} : job'[q] = job[q]
    BY <1>2, <1>3, <1>4
  <1>6. JobsAreTyped'
    BY <1>1, <1>2, <1>3, <1>5 DEF JobsAreTyped, ItemsOf
  <1>7. PanelsAreTyped' /\ TablesAreTyped'
    BY <1>1 DEF ConsoleInv, PanelsAreTyped, TablesAreTyped, ItemsOf
  <1> DEFINE f == Load(Q, {p})
             K == {Len(loads) + 1}
  <1>8. /\ f \in LoadRow /\ f.over = FALSE /\ f.ends = {p} /\ f.panels = Q /\ f.asked = Q
        /\ DOMAIN f.answer = {}
    <2>1. PICK E \in SUBSET Panels : E = {p}
      OBVIOUS
    <2>2. /\ Load(Q, E) \in LoadRow /\ Load(Q, E).over = FALSE
          /\ Load(Q, E).ends = E /\ Load(Q, E).panels = Q /\ Load(Q, E).asked = Q
          /\ DOMAIN Load(Q, E).answer = {}
      BY LoadIsRow
    <2> QED
      BY <2>1, <2>2
  <1> HIDE DEF f
  <1>9. loads \in Seq(LoadRow) /\ loads' = Append(loads, f)
    BY <1>1 DEF ConsoleInv, LoadsAreSound, f
  <1>10. /\ loads' \in Seq(LoadRow) /\ Len(loads) \in Nat /\ DOMAIN loads = 1..Len(loads)
         /\ DOMAIN loads' = 1..(Len(loads) + 1) /\ loads'[Len(loads) + 1] = f
         /\ \A n \in 1..Len(loads) : loads'[n] = loads[n]
    BY <1>8, <1>9, AppendProperties, LenProperties
  <1>11. \A n \in Open' \ K : n \in Open /\ loads'[n] = loads[n]
    BY <1>10 DEF Open
  <1>12. \A n \in K : loads'[n] = f
    BY <1>10
  <1> HIDE DEF K
  <1>13. \A n \in Open : p \notin loads[n].ends
    <2> SUFFICES ASSUME NEW n \in Open, NEW q \in loads[n].ends PROVE q # p
      OBVIOUS
    <2> QED
      BY <1>1, EndFacts DEF ConsoleInv
  <1>14. LoadsAreSound'
    <2>1. \A n \in Open' \ K : /\ n \in Open /\ loads'[n] = loads[n]
                               /\ \A q \in loads[n].ends : job'[q] = job[q]
      <3> SUFFICES ASSUME NEW n \in Open' \ K, NEW q \in loads[n].ends PROVE job'[q] = job[q]
        BY <1>11
      <3>1. q \in Panels /\ q # p
        BY <1>11, <1>13, EndFacts DEF ConsoleInv
      <3> QED
        BY <1>5, <3>1
    <2>2. ASSUME NEW n \in Open' \cap K
          PROVE  /\ LoadIsSound(loads[n])'
                 /\ \A q \in loads'[n].ends : EndIsSound(loads[n], q)'
                 /\ \A m \in Open' : n # m => loads'[n].ends \cap loads'[m].ends = {}
      <3>1. loads'[n] = f
        BY <1>12
      <3>2. LoadIsSound(loads[n])'
        BY <1>8, <3>1 DEF LoadIsSound
      <3>3. \A q \in loads'[n].ends : EndIsSound(loads[n], q)'
        BY <1>1, <1>3, <1>5, <1>8, <3>1 DEF EndIsSound
      <3>4. ASSUME NEW m \in Open', n # m PROVE loads'[n].ends \cap loads'[m].ends = {}
        <4>1. m \in Open /\ loads'[m] = loads[m]
          BY <1>10, <1>11, <3>4 DEF K
        <4> QED
          BY <1>8, <1>13, <3>1, <4>1
      <3> QED
        BY <3>2, <3>3, <3>4
    <2> QED
      BY <1>10, <2>1, <2>2, LoadsHold DEF ConsoleInv
  <1>15. ListsAreFresh'
    BY <1>1, <1>8, <1>11, <1>12 DEF ConsoleInv, ListsAreFresh, IsFresh
  <1>16. VersionsArePast'
    <2>1. VersionsRise
      BY <1>1, VersionsStay DEF ConsoleInv, serviceVars
    <2>2. \A i \in Ids : settled'[i] = settled[i]
      BY <1>1
    <2>3. \A q \in Panels : job'[q].stage \in {"served", "reloading"} =>
            job'[q].item = job[q].item /\ job[q].stage \in {"served", "reloading"}
      BY <1>1, <1>3, <1>5
    <2> QED
      BY <2>1, <2>2, <2>3, PastStays DEF ConsoleInv
  <1> QED
    BY <1>6, <1>7, <1>14, <1>15, <1>16 DEF ConsoleInv

\* A fetch that is over takes along the operation that it ends, and no other fetch waits
\* for that one.
LEMMA OverHolds ==
  ASSUME LoadsAreSound, NEW n \in Open, loads' = [loads EXCEPT ![n] = Over],
         \A p \in Panels \ loads[n].ends : job'[p] = job[p]
  PROVE  /\ LoadsAreSound'
         /\ \A m \in Open' : m \in Open /\ m # n /\ loads'[m] = loads[m]
  <1>1. /\ loads' \in Seq(LoadRow)
        /\ \A m \in Open' : m \in Open /\ m # n /\ loads'[m] = loads[m]
    BY OverFacts DEF LoadsAreSound, Open
  <1>2. PICK K : K = {}
    OBVIOUS
  <1>3. \A m \in Open' \ K : /\ m \in Open /\ loads'[m] = loads[m]
                             /\ \A p \in loads[m].ends : job'[p] = job[p]
    <2> SUFFICES ASSUME NEW m \in Open', NEW p \in loads[m].ends PROVE job'[p] = job[p]
      BY <1>1
    <2>1. m \in Open /\ m # n
      BY <1>1
    <2>2. p \in Panels /\ p \notin loads[n].ends
      BY <2>1, EndFacts DEF LoadsAreSound
    <2> QED
      BY <2>2
  <1>4. \A m \in Open' \cap K :
          /\ LoadIsSound(loads[m])'
          /\ \A q \in loads'[m].ends : EndIsSound(loads[m], q)'
          /\ \A k \in Open' : m # k => loads'[m].ends \cap loads'[k].ends = {}
    BY <1>2
  <1>5. LoadsAreSound'
    BY <1>1, <1>3, <1>4, LoadsHold
  <1> QED
    BY <1>1, <1>5

LEMMA RejectLoadHolds ==
  ASSUME LocksAreTyped, ConsoleInv, NEW n \in DOMAIN loads, RejectLoad(n)
  PROVE  ConsoleInv'
  <1>1. /\ n \in Open /\ loads' = [loads EXCEPT ![n] = Over]
        /\ job' = [p \in Panels |->
             IF p \in loads[n].ends THEN [job[p] EXCEPT !.stage = "stuck"] ELSE job[p]]
        /\ UNCHANGED <<serviceVars, exception, page, shown, selected, settled, overtaken>>
    BY DEF RejectLoad, Open
  <1>2. /\ job \in [Panels -> Job]
        /\ \A q \in Panels : job[q].stage # "idle" => job[q].item \in ItemsOf(q)
    BY DEF ConsoleInv, JobsAreTyped
  <1>3. ASSUME NEW p \in loads[n].ends
        PROVE  /\ job'[p] \in Job /\ job'[p].stage = "stuck" /\ job'[p].item = job[p].item
               /\ p \in Panels /\ job[p].stage = "reloading"
    <2>1. p \in Panels /\ job[p].stage = "reloading"
      BY <1>1, EndFacts DEF ConsoleInv
    <2>2. job[p] \in Job /\ job'[p] = [job[p] EXCEPT !.stage = "stuck"]
      BY <1>1, <1>2, <2>1
    <2> QED
      BY <2>1, <2>2 DEF Job
  <1>4. \A p \in Panels \ loads[n].ends : job'[p] = job[p]
    BY <1>1
  <1>5. JobsAreTyped'
    <2>1. \A p \in Panels : job'[p] \in Job
      BY <1>2, <1>3, <1>4
    <2>2. job' \in [Panels -> Job]
      BY <1>1, <2>1
    <2> QED
      BY <1>2, <1>3, <1>4, <2>2 DEF JobsAreTyped, ItemsOf
  <1>6. PanelsAreTyped' /\ TablesAreTyped'
    BY <1>1 DEF ConsoleInv, PanelsAreTyped, TablesAreTyped, ItemsOf
  <1>7. /\ LoadsAreSound'
        /\ \A m \in Open' : m \in Open /\ m # n /\ loads'[m] = loads[m]
    BY <1>1, <1>4, OverHolds DEF ConsoleInv
  <1>8. ListsAreFresh'
    BY <1>1, <1>7 DEF ConsoleInv, ListsAreFresh, IsFresh
  <1>9. VersionsArePast'
    <2>1. VersionsRise
      BY <1>1, VersionsStay DEF ConsoleInv, serviceVars
    <2>2. \A i \in Ids : settled'[i] = settled[i]
      BY <1>1
    <2>3. \A q \in Panels : job'[q].stage \in {"served", "reloading"} =>
            job'[q].item = job[q].item /\ job[q].stage \in {"served", "reloading"}
      BY <1>3, <1>4
    <2> QED
      BY <2>1, <2>2, <2>3, PastStays DEF ConsoleInv
  <1> QED
    BY <1>5, <1>6, <1>7, <1>8, <1>9 DEF ConsoleInv

\* The answer for a panel, if it is one, is as the tables are now: no older than what
\* has ended, nor than what the operation has done that waits for it.
LEMMA AnswerLoadHolds ==
  ASSUME LocksAreTyped, ConsoleInv, NEW n \in DOMAIN loads, AnswerLoad(n)
  PROVE  ConsoleInv'
  <1> DEFINE f == loads[n]
  <1>1. /\ n \in Open
        /\ UNCHANGED <<serviceVars, exception, page, shown, selected, job, settled, overtaken>>
    BY DEF AnswerLoad, Open
  <1>2. loads \in Seq(LoadRow) /\ f \in LoadRow
    BY DEF ConsoleInv, LoadsAreSound
  <1>3. LoadIsSound(f) /\ \A p \in f.ends : EndIsSound(f, p)
    BY <1>1 DEF ConsoleInv, LoadsAreSound
  <1>4. PICK p \in f.asked :
          \/ \E a \in Answers(p) : loads' = [loads EXCEPT ![n] = Answered(f, p, a)]
          \/ loads' = [loads EXCEPT ![n].asked = f.asked \ {p}]
    BY DEF AnswerLoad
  <1>5. p \in Panels /\ f.panels \in SUBSET Panels /\ f.asked \in SUBSET Panels
    BY <1>2, RowFacts
  <1>6. PICK g \in LoadRow :
          /\ loads' = [loads EXCEPT ![n] = g]
          /\ g.over = f.over /\ g.ends = f.ends /\ g.panels = f.panels /\ g.asked = f.asked \ {p}
          /\ \/ g.answer = f.answer
             \/ \E a \in Answers(p) :
                  /\ DOMAIN g.answer = DOMAIN f.answer \cup {p} /\ g.answer[p] = a
                  /\ \A q \in DOMAIN f.answer \ {p} : g.answer[q] = f.answer[q]
    <2>1. CASE \E a \in Answers(p) : loads' = [loads EXCEPT ![n] = Answered(f, p, a)]
      <3>1. PICK a \in Answers(p) : loads' = [loads EXCEPT ![n] = Answered(f, p, a)]
        BY <2>1
      <3>2. a \in SUBSET Items
        BY <1>5, AnswersAreCurrent DEF ConsoleInv, ItemsOf
      <3> HIDE DEF f
      <3>3. /\ Answered(f, p, a) \in LoadRow
            /\ Answered(f, p, a).over = f.over /\ Answered(f, p, a).ends = f.ends
            /\ Answered(f, p, a).panels = f.panels /\ Answered(f, p, a).asked = f.asked \ {p}
            /\ DOMAIN Answered(f, p, a).answer = DOMAIN f.answer \cup {p}
            /\ Answered(f, p, a).answer[p] = a
            /\ \A q \in DOMAIN f.answer \ {p} : Answered(f, p, a).answer[q] = f.answer[q]
        BY <1>2, <1>5, <3>2, AnsweredFacts
      <3> QED
        BY <3>1, <3>3
    <2>2. CASE loads' = [loads EXCEPT ![n].asked = f.asked \ {p}]
      <3> DEFINE g == [f EXCEPT !.asked = f.asked \ {p}]
      <3>1. loads' = [loads EXCEPT ![n] = g]
        BY <1>2, <2>2
      <3>2. f.asked \ {p} \in SUBSET Panels
        BY <1>5
      <3> HIDE DEF f
      <3>3. /\ g \in LoadRow /\ g.over = f.over /\ g.ends = f.ends /\ g.panels = f.panels
            /\ g.asked = f.asked \ {p} /\ g.answer = f.answer
        BY <1>2, <3>2 DEF LoadRow
      <3> QED
        BY <3>1, <3>3
    <2> QED
      BY <1>4, <2>1, <2>2
  <1>7. /\ loads' \in Seq(LoadRow) /\ DOMAIN loads' = DOMAIN loads /\ loads'[n] = g
        /\ \A m \in DOMAIN loads \ {n} : loads'[m] = loads[m]
    BY <1>2, <1>6
  <1>8. Open' = Open
    BY <1>6, <1>7 DEF Open
  <1> HIDE DEF f
  \* Each list of g is one of f, or one that is current.
  <1>9. ASSUME NEW q \in DOMAIN g.answer
        PROVE  /\ q \in f.panels
               /\ \/ q \in DOMAIN f.answer /\ g.answer[q] = f.answer[q]
                  \/ /\ g.answer[q] \subseteq ItemsOf(q)
                     /\ \A x \in g.answer[q] : x.version = Version(x.id)
    <2>1. CASE q \in DOMAIN f.answer /\ g.answer[q] = f.answer[q]
      BY <1>3, <2>1 DEF LoadIsSound
    <2>2. CASE q = p /\ \E a \in Answers(p) : g.answer[p] = a
      BY <1>3, <1>5, <2>2, AnswersAreCurrent DEF ConsoleInv, LoadIsSound
    <2> QED
      BY <1>6, <1>9, <2>1, <2>2
  <1>10. LoadsAreSound'
    <2>1. PICK K : K = {n}
      OBVIOUS
    <2>2. \A m \in Open' \ K : /\ m \in Open /\ loads'[m] = loads[m]
                               /\ \A q \in loads[m].ends : job'[q] = job[q]
      BY <1>1, <1>7, <1>8, <2>1 DEF Open
    <2>3. ASSUME NEW m \in Open' \cap K
          PROVE  /\ LoadIsSound(loads[m])'
                 /\ \A q \in loads'[m].ends : EndIsSound(loads[m], q)'
                 /\ \A k \in Open' : m # k => loads'[m].ends \cap loads'[k].ends = {}
      <3>1. m = n /\ loads'[m] = g
        BY <1>7, <2>1
      <3>2. LoadIsSound(loads[m])'
        <4>1. \A q \in DOMAIN g.answer : q \in g.panels /\ g.answer[q] \subseteq ItemsOf(q)
          BY <1>3, <1>6, <1>9 DEF LoadIsSound
        <4> QED
          BY <1>3, <1>6, <3>1, <4>1 DEF LoadIsSound, ItemsOf
      <3>3. ASSUME NEW q \in loads'[m].ends PROVE EndIsSound(loads[m], q)'
        <4>1. q \in f.ends /\ EndIsSound(f, q)
          BY <1>3, <1>6, <3>1
        <4>2. ASSUME q \in DOMAIN g.answer, NEW x \in g.answer[q], x.id = job[q].item.id
              PROVE  x.version >= job[q].item.version
          <5>1. CASE q \in DOMAIN f.answer /\ g.answer[q] = f.answer[q]
            BY <4>1, <4>2, <5>1 DEF EndIsSound
          <5>2. CASE x \in ItemsOf(q) /\ x.version = Version(x.id)
            <6>1. q \in Panels /\ job[q].stage = "reloading"
              BY <1>1, <4>1, EndFacts DEF ConsoleInv, f
            <6>2. job[q].item \in ItemsOf(q) /\ job[q].item.version <= Version(job[q].item.id)
              BY <6>1 DEF ConsoleInv, JobsAreTyped, VersionsArePast
            <6>3. x.version \in Nat /\ job[q].item.version \in Nat
              BY <5>2, <6>2 DEF ItemsOf, Items
            <6> QED
              BY <4>2, <5>2, <6>2, <6>3
          <5> QED
            BY <1>9, <4>2, <5>1, <5>2
        <4> QED
          BY <1>1, <1>6, <3>1, <4>1, <4>2 DEF EndIsSound
      <3>4. \A k \in Open' : m # k => loads'[m].ends \cap loads'[k].ends = {}
        BY <1>1, <1>6, <1>7, <1>8, <3>1 DEF ConsoleInv, LoadsAreSound, Open, f
      <3> QED
        BY <3>2, <3>3, <3>4
    <2> QED
      BY <1>7, <2>2, <2>3, LoadsHold DEF ConsoleInv
  <1>11. ListsAreFresh'
    <2> SUFFICES ASSUME ~overtaken'
                 PROVE  /\ \A q \in Panels : IsFresh(shown[q])'
                        /\ \A m \in Open' : \A q \in DOMAIN loads'[m].answer :
                             IsFresh(loads[m].answer[q])'
      BY DEF ListsAreFresh
    <2>1. /\ ~overtaken /\ settled' = settled /\ shown' = shown
      BY <1>1
    <2>2. \A q \in Panels : IsFresh(shown[q])'
      BY <2>1 DEF ConsoleInv, ListsAreFresh, IsFresh
    <2>3. ASSUME NEW m \in Open', NEW q \in DOMAIN loads'[m].answer
          PROVE  IsFresh(loads[m].answer[q])'
      <3>1. CASE m # n
        BY <1>7, <1>8, <2>1, <3>1 DEF ConsoleInv, ListsAreFresh, IsFresh, Open
      <3>2. CASE m = n
        <4>1. loads'[m] = g /\ q \in DOMAIN g.answer
          BY <1>7, <3>2
        <4>2. CASE q \in DOMAIN f.answer /\ g.answer[q] = f.answer[q]
          BY <1>1, <2>1, <4>1, <4>2 DEF ConsoleInv, ListsAreFresh, IsFresh, f
        <4>3. CASE /\ g.answer[q] \subseteq ItemsOf(q)
                   /\ \A x \in g.answer[q] : x.version = Version(x.id)
          <5>1. ASSUME NEW x \in g.answer[q] PROVE x.version >= settled[x.id]
            <6>1. x.id \in Ids /\ x.version \in Nat /\ x.version = Version(x.id)
              BY <4>3 DEF ItemsOf, Items
            <6>2. settled[x.id] \in Nat /\ settled[x.id] <= Version(x.id)
              BY <6>1 DEF ConsoleInv, TablesAreTyped, VersionsArePast
            <6> QED
              BY <6>1, <6>2
          <5> QED
            BY <2>1, <4>1, <5>1 DEF IsFresh
        <4> QED
          BY <1>9, <4>1, <4>2, <4>3
      <3> QED
        BY <3>1, <3>2
    <2> QED
      BY <2>2, <2>3
  <1>12. VersionsArePast'
    <2>1. VersionsRise
      BY <1>1, VersionsStay DEF ConsoleInv, serviceVars
    <2>2. \A i \in Ids : settled'[i] = settled[i]
      BY <1>1
    <2>3. \A q \in Panels : job'[q].stage \in {"served", "reloading"} =>
            job'[q].item = job[q].item /\ job[q].stage \in {"served", "reloading"}
      BY <1>1
    <2> QED
      BY <2>1, <2>2, <2>3, PastStays DEF ConsoleInv
  <1>13. TablesAreTyped' /\ PanelsAreTyped' /\ JobsAreTyped'
    BY <1>1 DEF ConsoleInv, TablesAreTyped, PanelsAreTyped, JobsAreTyped, ItemsOf
  <1> QED
    BY <1>10, <1>11, <1>12, <1>13 DEF ConsoleInv

\* The panels take the lists of a fetch.  The operation that it ends is settled from now
\* on; unless a list of the panel is still under way, nothing older is left to come.
LEMMA ReceiveLoadHolds ==
  ASSUME LocksAreTyped, ConsoleInv, NEW n \in DOMAIN loads, ReceiveLoad(n)
  PROVE  ConsoleInv'
  <1> DEFINE f == loads[n]
  <1>1. /\ n \in Open /\ loads' = [loads EXCEPT ![n] = Over]
        /\ shown' = [p \in Panels |->
             IF page = "loan" /\ p \in f.ends THEN {}
             ELSE IF p \in DOMAIN f.answer THEN f.answer[p] ELSE shown[p]]
        /\ selected' = [p \in Panels |->
             IF p \in f.ends THEN NoItem
             ELSE IF page = "loan" /\ p \in DOMAIN f.answer
                  THEN IF f.answer[p] = {} THEN NoItem ELSE CHOOSE x \in f.answer[p] : TRUE
             ELSE selected[p]]
        /\ job' = [p \in Panels |-> JobAfter(f, p)]
        /\ settled' = [i \in DOMAIN settled |->
             IF PanelOf(i) \in f.ends /\ job[PanelOf(i)].item.id = i
             THEN job[PanelOf(i)].item.version ELSE settled[i]]
        /\ overtaken' = (overtaken
                         \/ (f.ends # {} /\ (Racing(n) \/ ~(f.ends \subseteq DOMAIN f.answer))))
        /\ UNCHANGED <<serviceVars, exception, page>>
    BY DEF ReceiveLoad, Open
  <1>2. f \in LoadRow /\ LoadIsSound(f) /\ \A p \in f.ends : EndIsSound(f, p)
    BY <1>1 DEF ConsoleInv, LoadsAreSound
  <1>3. \A p \in f.ends : p \in Panels /\ f.ends = {p} /\ job[p].stage = "reloading"
    BY <1>1, EndFacts DEF ConsoleInv
  <1>4. \A p \in DOMAIN f.answer : p \in Panels /\ f.answer[p] \in SUBSET Items
    BY <1>2, RowFacts
  <1> DEFINE new(i) == PanelOf(i) \in f.ends /\ job[PanelOf(i)].item.id = i
  <1>5. /\ job \in [Panels -> Job] /\ settled \in [Ids -> Nat]
        /\ \A q \in Panels : job[q].stage # "idle" => job[q].item \in ItemsOf(q)
    BY DEF ConsoleInv, JobsAreTyped, TablesAreTyped
  <1>6. /\ shown \in [Panels -> SUBSET Items] /\ selected \in [Panels -> Items \cup {NoItem}]
        /\ \A p \in Panels :
             /\ shown[p] \subseteq ItemsOf(p)
             /\ selected[p] # NoItem => selected[p] \in ItemsOf(p)
    BY DEF ConsoleInv, PanelsAreTyped
  <1>7. ASSUME NEW i \in Ids
        PROVE  \/ settled'[i] = settled[i] /\ ~new(i)
               \/ /\ new(i) /\ settled'[i] = job[PanelOf(i)].item.version
                  /\ settled'[i] \in Nat /\ settled'[i] <= Version(i)
    <2>1. CASE ~new(i)
      BY <1>1, <1>5, <2>1
    <2>2. CASE new(i)
      <3>1. PICK p : p = PanelOf(i)
        OBVIOUS
      <3>2. p \in Panels /\ job[p].stage = "reloading" /\ job[p].item.id = i
        BY <1>3, <2>2, <3>1
      <3>3. job[p].item \in ItemsOf(p) /\ job[p].item.version <= Version(job[p].item.id)
        BY <1>5, <3>2 DEF ConsoleInv, VersionsArePast
      <3>4. job[p].item.version \in Nat
        BY <3>3 DEF ItemsOf, Items
      <3> QED
        BY <1>1, <1>5, <2>2, <3>1, <3>2, <3>3, <3>4
    <2> QED
      BY <2>1, <2>2
  <1>8. \A p \in Panels : \/ p \in f.ends /\ job'[p] = Idle
                          \/ p \notin f.ends /\ job'[p] = job[p]
    BY <1>1 DEF JobAfter
  <1>9. JobsAreTyped'
    <2>1. Idle \in Job /\ Idle.stage = "idle"
      BY DEF Idle, Job
    <2>2. \A p \in Panels : job'[p] \in Job
      BY <1>5, <1>8, <2>1
    <2>3. job' \in [Panels -> Job]
      BY <1>1, <2>2
    <2> QED
      BY <1>5, <1>8, <2>1, <2>3 DEF JobsAreTyped, ItemsOf
  <1>10. ASSUME NEW p \in Panels
         PROVE  \/ shown'[p] = {} \/ (p \notin f.ends /\ shown'[p] = shown[p])
                \/ (p \in f.ends /\ p \notin DOMAIN f.answer)
                \/ (p \in DOMAIN f.answer /\ shown'[p] = f.answer[p])
    BY <1>1
  <1>11. PanelsAreTyped'
    <2>1. ASSUME NEW p \in Panels
          PROVE  /\ shown'[p] \subseteq ItemsOf(p) /\ shown'[p] \in SUBSET Items
                 /\ selected'[p] \in Items \cup {NoItem}
                 /\ selected'[p] # NoItem => selected'[p] \in ItemsOf(p)
      <3>1. p \in DOMAIN f.answer => f.answer[p] \subseteq ItemsOf(p)
        BY <1>2 DEF LoadIsSound
      <3>2. shown'[p] = {} \/ shown'[p] = shown[p]
            \/ (p \in DOMAIN f.answer /\ shown'[p] = f.answer[p])
        BY <1>1
      <3>3. shown'[p] \subseteq ItemsOf(p)
        BY <1>6, <3>1, <3>2
      <3>4. selected'[p] = NoItem \/ selected'[p] = selected[p]
            \/ (p \in DOMAIN f.answer /\ selected'[p] \in f.answer[p])
        <4>1. f.answer[p] # {} => (CHOOSE x \in f.answer[p] : TRUE) \in f.answer[p]
          OBVIOUS
        <4> QED
          BY <1>1, <4>1
      <3> QED
        BY <1>6, <3>1, <3>3, <3>4 DEF ItemsOf
    <2>2. shown' \in [Panels -> SUBSET Items] /\ selected' \in [Panels -> Items \cup {NoItem}]
      BY <1>1, <2>1
    <2> QED
      BY <2>1, <2>2 DEF PanelsAreTyped, ItemsOf
  <1>12. TablesAreTyped'
    <2>1. \A i \in Ids : settled'[i] \in Nat
      BY <1>5, <1>7
    <2>2. settled' \in [Ids -> Nat]
      BY <1>1, <1>5, <2>1
    <2> QED
      BY <1>1, <2>2 DEF ConsoleInv, TablesAreTyped
  <1>13. /\ LoadsAreSound'
         /\ \A m \in Open' : m \in Open /\ m # n /\ loads'[m] = loads[m]
    <2>1. \A p \in Panels \ loads[n].ends : job'[p] = job[p]
      BY <1>8
    <2> QED
      BY <1>1, <2>1, OverHolds DEF ConsoleInv
  <1>14. VersionsArePast'
    <2>1. VersionsRise
      BY <1>1, VersionsStay DEF ConsoleInv, serviceVars
    <2>2. \A i \in Ids : settled'[i] = settled[i]
                         \/ (settled'[i] \in Nat /\ settled'[i] <= Version(i))
      BY <1>7
    <2>3. \A q \in Panels : job'[q].stage \in {"served", "reloading"} =>
            \/ job'[q].item = job[q].item /\ job[q].stage \in {"served", "reloading"}
            \/ \E i \in Ids : job'[q].item = [id |-> i, version |-> Version(i)']
      BY <1>8 DEF Idle
    <2> QED
      BY <2>1, <2>2, <2>3, PastHolds DEF ConsoleInv
  <1>15. ListsAreFresh'
    <2> SUFFICES ASSUME ~overtaken'
                 PROVE  /\ \A q \in Panels : IsFresh(shown[q])'
                        /\ \A m \in Open' : \A q \in DOMAIN loads'[m].answer :
                             IsFresh(loads[m].answer[q])'
      BY DEF ListsAreFresh
    <2>1. /\ ~overtaken
          /\ f.ends # {} => ~Racing(n) /\ f.ends \subseteq DOMAIN f.answer
      BY <1>1
    <2>2. /\ \A p \in Panels : IsFresh(shown[p])
          /\ \A m \in Open : \A p \in DOMAIN loads[m].answer : IsFresh(loads[m].answer[p])
      BY <2>1 DEF ConsoleInv, ListsAreFresh
    \* Another panel's list, or one that has been fetched for the operation.
    <2>3. ASSUME NEW p \in Panels, NEW S, S \subseteq ItemsOf(p), IsFresh(S),
                 p \in f.ends => \A x \in S : x.id = job[p].item.id => x.version >= job[p].item.version
          PROVE  \A x \in S : x.version >= settled'[x.id]
      <3> SUFFICES ASSUME NEW x \in S PROVE x.version >= settled'[x.id]
        OBVIOUS
      <3>1. x.id \in Ids /\ PanelOf(x.id) = p /\ x.version >= settled[x.id]
        BY <2>3, IdFacts DEF IsFresh, ItemsOf
      <3>2. CASE settled'[x.id] = settled[x.id]
        BY <3>1, <3>2
      <3>3. CASE new(x.id) /\ settled'[x.id] = job[PanelOf(x.id)].item.version
        BY <2>3, <3>1, <3>3
      <3> QED
        BY <1>7, <3>1, <3>2, <3>3
    <2>4. ASSUME NEW q \in Panels PROVE IsFresh(shown[q])'
      <3>1. shown'[q] \subseteq ItemsOf(q)
        BY <1>11 DEF PanelsAreTyped, ItemsOf
      <3>2. IsFresh(shown'[q])
        BY <1>1, <1>10, <2>1, <2>2 DEF IsFresh
      <3>3. ASSUME q \in f.ends
            PROVE  \A x \in shown'[q] : x.id = job[q].item.id => x.version >= job[q].item.version
        <4>1. shown'[q] = {} \/ (q \in DOMAIN f.answer /\ shown'[q] = f.answer[q])
          BY <1>10, <2>1, <3>3
        <4> QED
          BY <1>2, <3>3, <4>1 DEF EndIsSound
      <3>4. PICK S : S = shown'[q]
        OBVIOUS
      <3> QED
        BY <2>3, <3>1, <3>2, <3>3, <3>4 DEF IsFresh
    <2>5. ASSUME NEW m \in Open', NEW q \in DOMAIN loads'[m].answer
          PROVE  IsFresh(loads[m].answer[q])'
      <3>1. m \in Open /\ m # n /\ loads'[m] = loads[m]
        BY <1>13
      <3>2. loads[m] \in LoadRow /\ LoadIsSound(loads[m])
        BY <3>1 DEF ConsoleInv, LoadsAreSound, Open
      <3>3. q \in Panels
        BY <3>1, <3>2, RowFacts
      <3>4. q \notin f.ends
        <4> SUFFICES ASSUME q \in f.ends PROVE FALSE
          OBVIOUS
        <4>1. q \in loads[m].panels
          BY <3>1, <3>2 DEF LoadIsSound
        <4>2. Racing(n)
          BY <3>1, <4>1 DEF Racing, Open
        <4> QED
          BY <2>1, <4>2
      <3>5. loads[m].answer[q] \subseteq ItemsOf(q) /\ IsFresh(loads[m].answer[q])
        BY <2>2, <3>1, <3>2 DEF LoadIsSound
      <3>6. PICK S : S = loads[m].answer[q]
        OBVIOUS
      <3> QED
        BY <2>3, <3>1, <3>3, <3>4, <3>5, <3>6 DEF IsFresh
    <2> QED
      BY <2>4, <2>5
  <1> QED
    BY <1>9, <1>11, <1>12, <1>13, <1>14, <1>15 DEF ConsoleInv

LEMMA ConsoleStep == IInv /\ ConsoleInv /\ [Next]_vars => ConsoleInv'
  <1> SUFFICES ASSUME IInv, ConsoleInv, [Next]_vars PROVE ConsoleInv'
    OBVIOUS
  <1>1. LocksAreTyped /\ TablesAreTyped
    BY DEF IInv, ConsoleInv
  <1>2. CASE OtherClient
    <2>1. PICK l \in LockIds : OperateOn(l)
      BY <1>2 DEF OtherClient
    <2>2. UNCHANGED consoleVars /\ exception' = exception
      BY <1>2 DEF OtherClient, consoleVars
    <2> QED
      BY <1>1, <2>1, <2>2, VersionsGrow, OthersHold
  <1>3. CASE Clock \/ Start \/ Timer \/ UNCHANGED vars
    <2>1. rateLock' = rateLock /\ UNCHANGED consoleVars
      BY <1>3 DEF Clock, TimerTick, Tick, Start, Timer, vars, serviceVars
    <2>2. exception' = exception
      BY <2>1 DEF consoleVars
    <2> QED
      BY <1>1, <2>1, <2>2, VersionsStay, OthersHold
  <1>4. CASE Answering
    BY <1>1, <1>4, ServeHolds, ReloadHolds, AnswerLoadHolds, ReceiveLoadHolds DEF Answering
  <1>5. CASE User
    BY <1>1, <1>5, RefreshHolds, UserHolds DEF User
  <1>6. CASE Network
    BY <1>1, <1>6, RejectJobHolds, RejectLoadHolds DEF Network
  <1> QED
    BY <1>2, <1>3, <1>4, <1>5, <1>6 DEF Next, Console

\* A panel of the console shows each item with the changes of the operations that have
\* ended in it, unless one ended without its list or while an earlier list was under way
\* (PricingLocksPage.tsx and the pricing tab, loans/[loanId]/pricing-lock).
THEOREM OwnWritesRead == Spec => []ReadsOwnWrites
  <1>1. ConsoleInv => ReadsOwnWrites
    BY DEF ConsoleInv, ListsAreFresh, IsFresh, ReadsOwnWrites
  <1>2. Spec => []ConsoleInv
    BY ConsoleInvInit, ConsoleStep, Invariance, PTL DEF Spec
  <1> QED
    BY <1>1, <1>2, PTL
=============================================================================
