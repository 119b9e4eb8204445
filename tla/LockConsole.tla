------------------------------ MODULE LockConsole ------------------------------
(***************************************************************************)
(* The web console for locks and exceptions: PricingLocksPage ("desk"),    *)
(* which lists them and opens a drawer for the one that is selected, and   *)
(* the pricing tab of a loan ("loan"), whose drawers are open as long as   *)
(* it has a lock or an exception.  An operation is a POST, then a new list *)
(* is fetched, then the drawer is closed; the status of the response is    *)
(* not looked at.  `busy` of a drawer is job[p].stage # "idle": when an    *)
(* awaited fetch rejects, nothing resets it ("stuck").                     *)
(*                                                                         *)
(* Quotes and saved views are left out.  The locks are those of one loan.  *)
(***************************************************************************)
EXTENDS LockService

CONSTANTS
  ExceptionIds,
  NoItem,
  MaxLoads   \* bound on the lists that are fetched

ASSUME LockConsoleAssumption == LockIds \cap ExceptionIds = {}

VARIABLES
  exception,  \* the status of each exception
  page,       \* the page that is open, or "none"
  shown,      \* the list of each panel
  selected,   \* the item of the open drawer
  job,        \* the operation of each drawer
  loads,      \* the fetches of lists
  settled,    \* history: the version that the last finished operation has made
  overtaken   \* history: a list may have come from before a finished operation

consoleVars == <<exception, page, shown, selected, job, loads, settled, overtaken>>

Panels == {"locks", "exceptions"}

Idle == [stage |-> "idle", item |-> NoItem]

ConsoleInit ==
  /\ exception = [x \in ExceptionIds |-> "pending"]
  /\ page \in {"none", "desk", "loan"}
  /\ shown = [p \in Panels |-> {}]
  /\ selected = [p \in Panels |-> NoItem]
  /\ job = [p \in Panels |-> Idle]
  /\ loads = <<>>
  /\ settled = [i \in LockIds \cup ExceptionIds |-> 0]
  /\ overtaken = FALSE

Jobs == Cardinality({p \in Panels : job[p].stage # "idle"})

\* How often an item has been changed, which stands for its content.
Version(id) ==
  IF id \in LockIds THEN Len(rateLock[id].actions)
  ELSE IF exception[id] = "pending" THEN 0 ELSE 1

PanelOf(id) == IF id \in LockIds THEN "locks" ELSE "exceptions"

Item(id) == [id |-> id, version |-> Version(id)]

\* GET /locks/watchlist of 72 hours, or 168 on the tab; GET /exceptions?status=pending.
Listed(p) ==
  IF p = "locks" THEN watchlist(IF page = "desk" THEN 3 ELSE 7)
  ELSE {x \in ExceptionIds : exception[x] = "pending"}

\* find: the first one, in the order of expiry for locks.
First(p) ==
  {x \in Listed(p) : p = "locks" =>
     \A y \in Listed(p) : rateLock[x].expiresAt <= rateLock[y].expiresAt}

\* What an answer of the service makes a panel show.
Answers(p) ==
  IF page = "desk" THEN {{Item(i) : i \in Listed(p)}}
  ELSE IF Listed(p) = {} THEN {{}} ELSE {{Item(x)} : x \in First(p)}

-----------------------------------------------------------------------------
(* Fetching lists *)

Load(panels, ends) ==
  [panels |-> panels, ends |-> ends, asked |-> panels, answer |-> <<>>, over |-> FALSE]

Over == [Load({}, {}) EXCEPT !.over = TRUE]

\* The mount of a page, and the login button of the desk: refreshData fetches the
\* two lists apart, loadLoanSnapshot waits for both.
Refresh ==
  /\ page # "none" /\ (page = "loan" => loads = <<>>)
  /\ Len(loads) + 2 + Jobs <= MaxLoads
  /\ loads' = loads \o IF page = "loan" THEN <<Load(Panels, {})>>
                       ELSE <<Load({"locks"}, {}), Load({"exceptions"}, {})>>
  /\ UNCHANGED <<serviceVars, exception, page, shown, selected, job, settled, overtaken>>

Select(p) ==
  /\ page = "desk"
  /\ \E x \in shown[p] : selected' = [selected EXCEPT ![p] = x]
  /\ UNCHANGED <<serviceVars, exception, page, shown, job, loads, settled, overtaken>>

Close(p) ==
  /\ selected[p] # NoItem
  /\ selected' = [selected EXCEPT ![p] = NoItem]
  /\ shown' = IF page = "loan" THEN [shown EXCEPT ![p] = {}] ELSE shown
  /\ UNCHANGED <<serviceVars, exception, page, job, loads, settled, overtaken>>

\* A fetch that has its answer for one more panel.
Answered(f, p, a) ==
  [f EXCEPT !.asked = f.asked \ {p},
            !.answer = [q \in DOMAIN f.answer \cup {p} |-> IF q = p THEN a ELSE f.answer[q]]]

\* The response for one of the panels: a list, or an error status.
AnswerLoad(n) ==
  /\ n \in DOMAIN loads /\ ~loads[n].over
  /\ \E p \in loads[n].asked :
       \/ \E a \in Answers(p) : loads' = [loads EXCEPT ![n] = Answered(loads[n], p, a)]
       \/ loads' = [loads EXCEPT ![n].asked = @ \ {p}]
  /\ UNCHANGED <<serviceVars, exception, page, shown, selected, job, settled, overtaken>>

\* Another list of the panel is under way, so that its answer may be older.
Racing(n) ==
  \E m \in DOMAIN loads \ {n} : ~loads[m].over /\ loads[m].panels \cap loads[n].ends # {}

\* Mutant: setBusy(false) only when the list came.
JobAfterMutant(f, p) == IF p \in f.ends \cap DOMAIN f.answer THEN Idle ELSE job[p]

JobAfter(f, p) == IF p \in f.ends THEN Idle ELSE job[p]

\* The panels take the lists whose response is ok.  A fetch at the end of an
\* operation then closes the drawer, whichever item it shows by now, and on the tab
\* of a loan the drawer's item is the one that the panel shows.
ReceiveLoad(n) ==
  LET f == loads[n]
  IN  /\ f.asked = {} /\ ~f.over
      /\ loads' = [loads EXCEPT ![n] = Over]
      /\ shown' = [p \in Panels |->
           IF page = "loan" /\ p \in f.ends THEN {}
           ELSE IF p \in DOMAIN f.answer THEN f.answer[p] ELSE shown[p]]
      /\ selected' = [p \in Panels |->
           IF p \in f.ends THEN NoItem
           ELSE IF page = "loan" /\ p \in DOMAIN f.answer
                THEN IF f.answer[p] = {} THEN NoItem ELSE CHOOSE x \in f.answer[p] : TRUE
           ELSE selected[p]]
      /\ job' = [p \in Panels |-> JobAfter(f, p)]
      /\ settled' = [i \in DOMAIN settled |->
           LET p == PanelOf(i)
           IN  IF p \in f.ends /\ job[p].item.id = i THEN job[p].item.version ELSE settled[i]]
      /\ overtaken' = (overtaken \/ (f.ends # {} /\ (Racing(n) \/ ~(f.ends \subseteq DOMAIN f.answer))))
      /\ UNCHANGED <<serviceVars, exception, page>>

\* The fetch rejects: an operation that waits for it is never over.
RejectLoad(n) ==
  /\ ~loads[n].over
  /\ loads' = [loads EXCEPT ![n] = Over]
  /\ job' = [p \in Panels |->
       IF p \in loads[n].ends THEN [job[p] EXCEPT !.stage = "stuck"] ELSE job[p]]
  /\ UNCHANGED <<serviceVars, exception, page, shown, selected, settled, overtaken>>

-----------------------------------------------------------------------------
(* Operations *)

\* A button of the drawer, which is disabled while the drawer is busy.
Click(p) ==
  /\ selected[p] # NoItem /\ job[p].stage = "idle"
  /\ Len(loads) + Jobs < MaxLoads
  /\ job' = [job EXCEPT ![p] = [stage |-> "sent", item |-> selected[p]]]
  /\ UNCHANGED <<serviceVars, exception, page, shown, selected, loads, settled, overtaken>>

\* The service does what was asked, or refuses.
Serve(p) ==
  LET id == job[p].item.id
  IN  /\ job[p].stage = "sent"
      /\ \/ p = "locks" /\ OperateOn(id) /\ UNCHANGED exception
         \/ /\ p = "exceptions" /\ exception[id] = "pending"
            /\ \E d \in {"approved", "denied"} : exception' = [exception EXCEPT ![id] = d]
            /\ UNCHANGED serviceVars
         \/ UNCHANGED <<serviceVars, exception>>
      /\ job' = [job EXCEPT ![p] =
           [stage |-> "served", item |-> [id |-> id, version |->
              IF p = "locks" THEN Len(rateLock'[id].actions)
              ELSE IF exception'[id] = "pending" THEN 0 ELSE 1]]]
      /\ UNCHANGED <<page, shown, selected, loads, settled, overtaken>>

\* The POST rejects, before or after the service has done its work.
RejectJob(p) ==
  /\ job[p].stage \in {"sent", "served"}
  /\ job' = [job EXCEPT ![p].stage = "stuck"]
  /\ UNCHANGED <<serviceVars, exception, page, shown, selected, loads, settled, overtaken>>

\* Mutant: the list is fetched without waiting for the POST.
ReloadMutant(p) ==
  /\ job[p].stage \in {"sent", "served"}
  /\ \A n \in DOMAIN loads : loads[n].ends # {p}
  /\ job' = [job EXCEPT ![p].stage = IF @ = "served" THEN "reloading" ELSE @]
  /\ loads' = Append(loads, Load(IF page = "desk" THEN {p} ELSE Panels, {p}))
  /\ UNCHANGED <<serviceVars, exception, page, shown, selected, settled, overtaken>>

\* fetchLocks, fetchExceptions or loadLoanSnapshot, at the end of every handler.
Reload(p) ==
  /\ job[p].stage = "served"
  /\ job' = [job EXCEPT ![p].stage = "reloading"]
  /\ loads' = Append(loads, Load(IF page = "desk" THEN {p} ELSE Panels, {p}))
  /\ UNCHANGED <<serviceVars, exception, page, shown, selected, settled, overtaken>>

Answering ==
  \/ \E p \in Panels : Serve(p) \/ Reload(p)
  \/ \E n \in DOMAIN loads : AnswerLoad(n) \/ ReceiveLoad(n)

User == Refresh \/ \E p \in Panels : Select(p) \/ Close(p) \/ Click(p)

Network == (\E p \in Panels : RejectJob(p)) \/ (\E n \in DOMAIN loads : RejectLoad(n))

-----------------------------------------------------------------------------
\* What a panel shows is not older than the operations made in it: a lock is listed
\* with the changes of every operation that has ended, and a decided exception is
\* not listed, unless an operation ended with an error in place of a list or while
\* an earlier list was still on its way.
ReadsOwnWrites ==
  ~overtaken => \A p \in Panels : \A x \in shown[p] : x.version >= settled[x.id]

\* A drawer that is busy becomes free again unless a fetch was rejected: whatever
\* the service answers, and whatever the user opens and closes meanwhile.
DrawersGetFree ==
  \A p \in Panels : job[p].stage # "idle" ~> job[p].stage \in {"idle", "stuck"}
=============================================================================
