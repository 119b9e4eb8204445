------------------------------- MODULE LockDesk -------------------------------
(***************************************************************************)
(* Rate locks over time: the timer of one of them, a console that operates *)
(* on them and other clients that do so too.  Timer and console meet in    *)
(* the locks and nowhere else, so a timer starts only where no page is     *)
(* open: what a page does to a lock then, the other clients do.            *)
(***************************************************************************)
EXTENDS LockTimer, LockConsole

CONSTANT LastTabDay  \* bound on the clock while the tab of a loan is open

ASSUME LockDeskAssumption == LastTabDay \in Nat

vars == <<serviceVars, timerVars, consoleVars>>

Init == ServiceInit /\ TimerInit /\ ConsoleInit

OtherClient ==
  /\ \E l \in LockIds : OperateOn(l)
  /\ UNCHANGED <<timerVars, consoleVars>>

Clock ==
  /\ page = "loan" => now < LastTabDay
  /\ TimerTick /\ UNCHANGED consoleVars

Timer == TimerStep /\ UNCHANGED <<serviceVars, consoleVars>>

Start == page = "none" /\ StartTimer /\ UNCHANGED <<serviceVars, consoleVars>>

Console == Answering /\ UNCHANGED timerVars

Next ==
  \/ Clock \/ OtherClient \/ Start \/ Timer \/ Console
  \/ (User \/ Network) /\ UNCHANGED timerVars

\* Time goes on, Temporal runs a workflow to its end, and the service and the browser
\* answer.  Nobody has to start a timer, click or lose a request.
Fairness == WF_vars(Clock) /\ WF_vars(Timer) /\ WF_vars(Console)

Spec == Init /\ [][Next]_vars /\ Fairness

-----------------------------------------------------------------------------
\* What the timer says of its lock is so, unless the lock was changed after the timer
\* had taken its expiry: an alert is about a lock that the dashboard lists within 72
\* hours of its expiry, unless its price was floated down or it was voided; and a lock
\* that is marked has expired, unless it was extended meanwhile.
TimerTellsTrue ==
  /\ timer = "alerting" /\ Len(rateLock[lockId].actions) = entries
       => \/ lockId \in watchlist(3)
          \/ rateLock[lockId].status \in {"float_down_applied", "voided"}
  /\ timer = "done" =>
       \/ rateLock[lockId].expiresAt <= markedOn
       \/ \E k \in (entries + 1)..Len(rateLock[lockId].actions) :
            rateLock[lockId].actions[k].type = "extend"
=============================================================================
