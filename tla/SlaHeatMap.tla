------------------------------ MODULE SlaHeatMap ------------------------------
(***************************************************************************)
(* SlaService.getHeatmap: the tasks or orders of a tenant that are due     *)
(* since the start of the range, put into cells by the hour they are due.  *)
(* The database returns the rows in an order of its own, and the loop      *)
(* takes them one by one.  Times are minutes; the clock is read once.      *)
(* The hours are those of the process, whose time zone is taken to be      *)
(* whole hours from UTC.                                                   *)
(***************************************************************************)
EXTENDS Integers, FiniteSets

CONSTANTS
  Now,
  HeatMapCalls  \* a scope, a range and the rows of the table

Hour == 60  \* minutes
Day == 24 * Hour

Item == [id : Nat, mine : BOOLEAN, slaDueAt : Nat, done : BOOLEAN]

NoDate == 0  \* slaDueAt of an item without one

\* A table has finitely many rows.
IsHeatMapCall(c) ==
  /\ c \in [scope : {"tasks", "orders"}, range : {"week", "month"}, items : SUBSET Item]
  /\ IsFiniteSet(c.items)

ASSUME HeatMapAssumption ==
  /\ Now \in Nat /\ Now > 31 * Day
  /\ \A c \in HeatMapCalls : IsHeatMapCall(c)

VARIABLES
  request,
  left,    \* the rows that the loop has not taken yet
  buckets, \* the counts of each hour
  atRisk   \* the hours reported as at risk, once the answer is made

heatMapVars == <<request, left, buckets, atRisk>>

start == Now - (IF request.range = "month" THEN 30 ELSE 7) * Day

\* where: tenantId, slaDueAt at or after the start (which no null is), and for
\* tasks, not DONE.
findMany ==
  {i \in request.items : /\ i.mine /\ i.slaDueAt >= start
                         /\ request.scope = "tasks" => ~i.done}

HeatMapInit(calls) ==
  /\ request \in calls
  /\ left = findMany
  /\ buckets = <<>>
  /\ atRisk = {NoDate}

toBucket(t) == t - (t % Hour)

\* Mutant: what is late already counts as due within a day, too.
CountMutant(due, old) ==
  [total |-> old.total + 1,
   overdue |-> old.overdue + (IF due < Now THEN 1 ELSE 0),
   warning |-> old.warning + (IF due - Now < Day THEN 1 ELSE 0)]

Count(due, old) ==
  [total |-> old.total + 1,
   overdue |-> old.overdue + (IF due < Now THEN 1 ELSE 0),
   warning |-> old.warning + (IF due >= Now /\ due - Now < Day THEN 1 ELSE 0)]

TakeRow(i) ==
  LET b == toBucket(i.slaDueAt)
      old == IF b \in DOMAIN buckets THEN buckets[b]
             ELSE [total |-> 0, warning |-> 0, overdue |-> 0]
  IN  /\ i \in left
      /\ left' = left \ {i}
      /\ buckets' = [x \in DOMAIN buckets \cup {b} |->
                       IF x = b THEN Count(i.slaDueAt, old) ELSE buckets[x]]
      /\ UNCHANGED <<request, atRisk>>

ReturnCells ==
  /\ left = {} /\ atRisk = {NoDate}
  /\ atRisk' = {b \in DOMAIN buckets : buckets[b].overdue > 0}
  /\ UNCHANGED <<request, left, buckets>>

HeatMapNext == (\E i \in left : TakeRow(i)) \/ ReturnCells

-----------------------------------------------------------------------------
\* In whatever order the rows come, every cell counts the open tasks, or the
\* orders whether open or not, that fall due in its hour since the start of the
\* range: those that are late, those due within a day, and all of them; and the
\* hours at risk are those of the late ones.
CellsCountItems ==
  atRisk # {NoDate} =>
    LET counted == {i \in request.items :
          /\ i.mine /\ i.slaDueAt # NoDate /\ i.slaDueAt >= start
          /\ ~(request.scope = "tasks" /\ i.done)}
        In(h) == {i \in counted : i.slaDueAt \div Hour = h \div Hour}
        late == {i \in counted : i.slaDueAt < Now}
        soon == {i \in counted \ late : i.slaDueAt < Now + Day}
    IN  /\ \A i \in counted : \E b \in DOMAIN buckets : i \in In(b)
        /\ \A b \in DOMAIN buckets :
             buckets[b] = [total |-> Cardinality(In(b)),
                           overdue |-> Cardinality(In(b) \cap late),
                           warning |-> Cardinality(In(b) \cap soon)]
        /\ {b \div Hour : b \in atRisk} = {i.slaDueAt \div Hour : i \in late}
=============================================================================
