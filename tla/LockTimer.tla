------------------------------- MODULE LockTimer -------------------------------
(***************************************************************************)
(* LockTimerWorkflow: alerts three, two and one days before a lock expires *)
(* and a mark at the end, by a durable workflow that takes the expiry from *)
(* its input.  Temporal runs it on: a sleep never ends early but may end   *)
(* late, when the worker was down, and an activity whose completion is     *)
(* lost is run again.  The activities only log; nothing in the repository  *)
(* starts the workflow, which is started here at any time, once.           *)
(***************************************************************************)
EXTENDS LockService

CONSTANT MaxRetries  \* bound on the completions that are lost

VARIABLES
  timer,   \* where the workflow is
  lockId, expiry,  \* its input
  window,  \* the turn of the loop; after the last one, the sleep to the expiry
  wakeAt,
  alerts,  \* history: the runs of emitLockAlert, with their days
  markedOn,   \* history: the day on which markLockExpired ran
  startedOn,  \* history: the day of the start, and how often the lock had been
  entries,    \* changed then
  late,    \* history: the clock went on while there was something to do
  retries

timerVars == <<timer, lockId, expiry, window, wakeAt, alerts, markedOn, startedOn,
               entries, late, retries>>

\* HOURS, in days, of T-72, T-48 and T-24.
HOURS == <<3, 2, 1>>

TimerInit ==
  /\ timer = "none" /\ lockId \in LockIds /\ expiry = 0 /\ window = 1 /\ wakeAt = 0
  /\ alerts = <<>> /\ markedOn = 0 /\ startedOn = 0 /\ entries = 0 /\ retries = 0
  /\ late = FALSE

StartTimer ==
  /\ timer = "none"
  /\ timer' = "scheduling"
  /\ expiry' = rateLock[lockId].expiresAt
  /\ startedOn' = now /\ entries' = Len(rateLock[lockId].actions)
  /\ UNCHANGED <<lockId, window, wakeAt, alerts, markedOn, late, retries>>

\* The completion of the activity that has just run is lost.
Lose == retries < MaxRetries /\ retries' = retries + 1

scheduleLockExpiry ==
  /\ timer = "scheduling"
  /\ timer' = "deciding"
  /\ UNCHANGED <<lockId, expiry, window, wakeAt, alerts, markedOn, startedOn, entries, late, retries>>

Sleep(until) == timer' = "asleep" /\ wakeAt' = until

\* Mutant: counted from the window before.
WindowStartMutant == expiry - HOURS[window] - 1

WindowStart == expiry - HOURS[window]

\* Mutants: the first window missed ends the loop; the loop goes on for ever.
SkipMutant == window' = Len(HOURS) + 1

SkipNoneMutant == UNCHANGED window

Skip == window' = window + 1

\* msUntil: a window whose time is over, or is now, is skipped.
NextWindow ==
  /\ timer = "deciding" /\ window <= Len(HOURS)
  /\ IF WindowStart - now > 0 THEN Sleep(WindowStart) /\ UNCHANGED window
     ELSE Skip /\ UNCHANGED <<timer, wakeAt>>
  /\ UNCHANGED <<lockId, expiry, alerts, markedOn, startedOn, entries, late, retries>>

\* Mutant: the lock is marked after the last alert.
SleepToExpiryMutant ==
  /\ timer = "deciding" /\ window > Len(HOURS)
  /\ timer' = "marking"
  /\ UNCHANGED <<wakeAt, lockId, expiry, window, alerts, markedOn, startedOn, entries, late,
                 retries>>

\* msToExpiry
SleepToExpiry ==
  /\ timer = "deciding" /\ window > Len(HOURS)
  /\ IF expiry - now > 0 THEN Sleep(expiry) ELSE timer' = "marking" /\ UNCHANGED wakeAt
  /\ UNCHANGED <<lockId, expiry, window, alerts, markedOn, startedOn, entries, late, retries>>

Wake ==
  /\ timer = "asleep" /\ now >= wakeAt
  /\ timer' = IF window <= Len(HOURS) THEN "alerting" ELSE "marking"
  /\ UNCHANGED <<lockId, expiry, window, wakeAt, alerts, markedOn, startedOn, entries, late, retries>>

emitLockAlert ==
  /\ timer = "alerting"
  /\ alerts' = Append(alerts, [window |-> HOURS[window], at |-> now])
  /\ \/ timer' = "deciding" /\ window' = window + 1 /\ UNCHANGED retries
     \/ Lose /\ UNCHANGED <<timer, window>>
  /\ UNCHANGED <<lockId, expiry, wakeAt, markedOn, startedOn, entries, late>>

\* The status of the lock is left as it is.
markLockExpired ==
  /\ timer = "marking"
  /\ timer' = "done" /\ markedOn' = now
  /\ UNCHANGED <<lockId, expiry, window, wakeAt, alerts, startedOn, entries, late, retries>>

TimerStep ==
  \/ scheduleLockExpiry \/ NextWindow \/ SleepToExpiry \/ Wake
  \/ emitLockAlert \/ markLockExpired

Due == timer \notin {"none", "done"} /\ (timer = "asleep" => now >= wakeAt)

\* A day passes: the worker is late when it has left something undone.
TimerTick ==
  /\ Tick
  /\ late' = (late \/ Due)
  /\ UNCHANGED <<timer, lockId, expiry, window, wakeAt, alerts, markedOn, startedOn, entries,
                 retries>>

-----------------------------------------------------------------------------
Windows == {HOURS[i] : i \in DOMAIN HOURS}

\* However late the worker is: no alert comes before its window and no mark before
\* the expiry that the timer was given, and alerts come in the order of their windows,
\* whatever is repeated.
AlertsKeepOrder ==
  /\ \A k \in DOMAIN alerts :
       /\ alerts[k].at >= expiry - alerts[k].window
       /\ \A j \in 1..k : alerts[j].window >= alerts[k].window
  /\ timer = "done" => markedOn >= expiry

\* A worker that is not late misses nothing: every window still ahead at the start
\* has its alert on its day and no other has one, and the lock is marked on the day
\* of its expiry, or at once if that is over.
PromptTimerIsExact ==
  timer = "done" /\ ~late =>
    /\ {[window |-> w, at |-> expiry - w] : w \in {w \in Windows : expiry - w > startedOn}}
         = {alerts[k] : k \in DOMAIN alerts}
    /\ markedOn = IF expiry > startedOn THEN expiry ELSE startedOn

\* A timer that was started comes to its end: it waits for nothing but the clock.
TimerEnds == timer = "scheduling" ~> timer = "done"
=============================================================================
