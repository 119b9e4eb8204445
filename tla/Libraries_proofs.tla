---------------------------- MODULE Libraries_proofs ----------------------------
(***************************************************************************)
(* Theorems about the computations of Libraries, for any rules, any calls  *)
(* and any rows.                                                           *)
(*                                                                         *)
(* Each of them is a loop, and its invariant says what the turns that are  *)
(* over have done: which rows are in the cells, which dependencies of the  *)
(* codes on the stack have been visited, how many working days have been   *)
(* passed.                                                                 *)
(***************************************************************************)
EXTENDS Libraries, FiniteSetTheorems, SequenceTheorems,
        WellFoundedInduction, TLAPS

-----------------------------------------------------------------------------
(* The heat map *)

taken == findMany \ left

\* The rows of T that fall into the cell b.
InCell(T, b) == {i \in T : toBucket(i.slaDueAt) = b}

Late(T) == {i \in T : i.slaDueAt < Now}

Soon(T) == {i \in T : i.slaDueAt >= Now /\ i.slaDueAt - Now < Day}

Cell(T) ==
  [total |-> Cardinality(T), overdue |-> Cardinality(Late(T)),
   warning |-> Cardinality(Soon(T))]

\* The cells hold the rows that were taken.
CellsAreSound ==
  /\ IsHeatMapCall(request)
  /\ left \subseteq findMany
  /\ buckets = [b \in {toBucket(i.slaDueAt) : i \in taken} |-> Cell(InCell(taken, b))]
  /\ atRisk # {NoDate} =>
       left = {} /\ atRisk = {b \in DOMAIN buckets : buckets[b].overdue > 0}

LEMMA CellsInit == Init => CellsAreSound
<1> SUFFICES ASSUME Init PROVE CellsAreSound
  OBVIOUS
<1>1. /\ request \in HeatMapCalls \cup {NoItems}
      /\ left = findMany /\ buckets = <<>> /\ atRisk = {NoDate}
  BY DEF Init, HeatMapInit
<1>2. IsHeatMapCall(request)
  BY <1>1, HeatMapAssumption, LibrariesAssumption
<1>3. taken = {}
  BY <1>1 DEF taken
<1>4. buckets = [b \in {toBucket(i.slaDueAt) : i \in taken} |-> Cell(InCell(taken, b))]
  BY <1>1, <1>3
<1>5. QED
  BY <1>1, <1>2, <1>4 DEF CellsAreSound

\* The counts of a cell that gets another row.
LEMMA CountsOneMore ==
  ASSUME NEW T, IsFiniteSet(T), NEW i, i \notin T, i.slaDueAt \in Nat
  PROVE  Cell(T \cup {i}) = Count(i.slaDueAt, Cell(T))
<1> DEFINE U == T \cup {i}
<1>1. /\ IsFiniteSet(Late(T)) /\ IsFiniteSet(Soon(T))
      /\ i \notin Late(T) /\ i \notin Soon(T)
  BY FS_Subset DEF Late, Soon
<1>2. Now \in Nat /\ Day \in Nat
  BY HeatMapAssumption DEF Day, Hour
<1>3. Late(U) = IF i.slaDueAt < Now THEN Late(T) \cup {i} ELSE Late(T)
  BY DEF Late
<1>4. Soon(U) = IF i.slaDueAt >= Now /\ i.slaDueAt - Now < Day
                THEN Soon(T) \cup {i} ELSE Soon(T)
  BY DEF Soon
<1>5. Cardinality(U) = Cardinality(T) + 1
  BY FS_AddElement
<1>6. /\ Cardinality(Late(T) \cup {i}) = Cardinality(Late(T)) + 1
      /\ Cardinality(Soon(T) \cup {i}) = Cardinality(Soon(T)) + 1
  BY <1>1, FS_AddElement
<1>7. Cardinality(Late(T)) \in Nat /\ Cardinality(Soon(T)) \in Nat /\ Cardinality(T) \in Nat
  BY <1>1, FS_CardinalityType
<1>8. Cardinality(Late(U)) = Cardinality(Late(T)) + IF i.slaDueAt < Now THEN 1 ELSE 0
  BY <1>3, <1>6, <1>7
<1>9. Cardinality(Soon(U)) = Cardinality(Soon(T)) +
        IF i.slaDueAt >= Now /\ i.slaDueAt - Now < Day THEN 1 ELSE 0
  BY <1>4, <1>6, <1>7
<1> HIDE DEF U
<1>10. QED
  BY <1>5, <1>8, <1>9 DEF Cell, Count, U

LEMMA NoRowNoCount ==
  Cell({}) = [total |-> 0, warning |-> 0, overdue |-> 0]
<1>1. Late({}) = {} /\ Soon({}) = {}
  BY DEF Late, Soon
<1>2. QED
  BY <1>1, FS_EmptySet DEF Cell

LEMMA CellsTake ==
  ASSUME CellsAreSound, NEW i \in left, TakeRow(i)
  PROVE  CellsAreSound'
<1> DEFINE T == taken
           U == T \cup {i}
           b == toBucket(i.slaDueAt)
           old == IF b \in DOMAIN buckets THEN buckets[b]
                  ELSE [total |-> 0, warning |-> 0, overdue |-> 0]
<1>1. /\ left' = left \ {i} /\ UNCHANGED <<request, atRisk>>
      /\ buckets' = [x \in DOMAIN buckets \cup {b} |->
                       IF x = b THEN Count(i.slaDueAt, old) ELSE buckets[x]]
  BY DEF TakeRow
<1>2. findMany' = findMany /\ start' = start
  BY <1>1 DEF findMany, start
<1>3. i \in findMany /\ i \notin T /\ taken' = U /\ left' \subseteq findMany'
  BY <1>1, <1>2 DEF CellsAreSound, taken
<1>4. i.slaDueAt \in Nat /\ IsFiniteSet(T)
  <2>1. findMany \subseteq request.items /\ request.items \subseteq Item
        /\ IsFiniteSet(request.items)
    BY DEF findMany, CellsAreSound, IsHeatMapCall
  <2>2. T \subseteq request.items
    BY <2>1 DEF taken
  <2>3. QED
    BY <1>3, <2>1, <2>2, FS_Subset DEF Item
<1>5. /\ DOMAIN buckets = {toBucket(j.slaDueAt) : j \in T}
      /\ \A x \in DOMAIN buckets : buckets[x] = Cell(InCell(T, x))
  BY DEF CellsAreSound
<1> HIDE DEF T, U
<1>6. DOMAIN buckets \cup {b} = {toBucket(j.slaDueAt) : j \in U}
  BY <1>5 DEF U
<1>7. old = Cell(InCell(T, b))
  <2>1. CASE b \in DOMAIN buckets
    BY <1>5, <2>1
  <2>2. CASE b \notin DOMAIN buckets
    <3>1. InCell(T, b) = {}
      BY <1>5, <2>2 DEF InCell
    <3>2. QED
      BY <2>2, <3>1, NoRowNoCount
  <2>3. QED
    BY <2>1, <2>2
<1>8. IsFiniteSet(InCell(T, b)) /\ i \notin InCell(T, b)
  BY <1>3, <1>4, FS_Subset DEF InCell
<1>9. InCell(U, b) = InCell(T, b) \cup {i}
  BY DEF InCell, U
<1>10. Count(i.slaDueAt, old) = Cell(InCell(U, b))
  BY <1>4, <1>7, <1>8, <1>9, CountsOneMore
<1>11. ASSUME NEW x \in DOMAIN buckets, x # b PROVE buckets[x] = Cell(InCell(U, x))
  <2>1. InCell(U, x) = InCell(T, x)
    BY <1>11 DEF InCell, U
  <2>2. QED
    BY <1>5, <2>1
<1> HIDE DEF b, old
<1>12. buckets' = [x \in {toBucket(j.slaDueAt) : j \in U} |-> Cell(InCell(U, x))]
  <2>1. buckets' = [x \in DOMAIN buckets \cup {b} |-> Cell(InCell(U, x))]
    BY <1>1, <1>10, <1>11
  <2>2. QED
    BY <1>6, <2>1
<1>13. buckets' = [x \in {toBucket(j.slaDueAt) : j \in taken'} |-> Cell(InCell(taken', x))]
  BY <1>3, <1>12
<1>14. atRisk = {NoDate}
  BY DEF CellsAreSound
<1>15. IsHeatMapCall(request')
  BY <1>1 DEF CellsAreSound
<1>16. QED
  BY <1>1, <1>3, <1>13, <1>14, <1>15 DEF CellsAreSound

LEMMA CellsReturn == ASSUME CellsAreSound, ReturnCells PROVE CellsAreSound'
<1>1. /\ left = {} /\ UNCHANGED <<request, left, buckets>>
      /\ atRisk' = {b \in DOMAIN buckets : buckets[b].overdue > 0}
  BY DEF ReturnCells
<1>2. taken' = taken /\ findMany' = findMany
  BY <1>1 DEF taken, findMany, start
<1>3. QED
  BY <1>1, <1>2 DEF CellsAreSound

LEMMA CellsStep == CellsAreSound /\ [Next]_vars => CellsAreSound'
<1> SUFFICES ASSUME CellsAreSound, [Next]_vars PROVE CellsAreSound'
  OBVIOUS
<1>1. CASE UNCHANGED heatMapVars
  <2>1. taken' = taken /\ findMany' = findMany
    BY <1>1 DEF taken, findMany, start, heatMapVars
  <2>2. QED
    BY <1>1, <2>1 DEF CellsAreSound, heatMapVars
<1>2. ASSUME NEW i \in left, TakeRow(i) PROVE CellsAreSound'
  BY <1>2, CellsTake
<1>3. CASE ReturnCells
  BY <1>3, CellsReturn
<1>4. QED
  BY <1>1, <1>2, <1>3 DEF Next, Rules, Dates, HeatMap, HeatMapNext, vars

\* Cells of an hour and their counts in the words of the property.
LEMMA CellsCount == CellsAreSound => CellsCountItems
<1> SUFFICES ASSUME CellsAreSound, atRisk # {NoDate} PROVE CellsCountItems
  BY DEF CellsCountItems
<1> DEFINE counted == {i \in request.items :
                         /\ i.mine /\ i.slaDueAt # NoDate /\ i.slaDueAt >= start
                         /\ ~(request.scope = "tasks" /\ i.done)}
           In(h) == {i \in counted : i.slaDueAt \div Hour = h \div Hour}
           late == {i \in counted : i.slaDueAt < Now}
           soon == {i \in counted \ late : i.slaDueAt < Now + Day}
<1>1. /\ left = {} /\ atRisk = {b \in DOMAIN buckets : buckets[b].overdue > 0}
      /\ request.items \subseteq Item /\ IsFiniteSet(request.items)
  BY DEF CellsAreSound, IsHeatMapCall
<1>2. Now \in Nat /\ start \in Nat /\ start > 0
  BY HeatMapAssumption DEF start, Day, Hour
<1>3. counted = findMany
  BY <1>2 DEF findMany, NoDate
<1>4. taken = counted /\ IsFiniteSet(counted)
  BY <1>1, <1>3, FS_Subset DEF taken
<1>5. \A i \in counted : i.slaDueAt \in Nat
  BY <1>1 DEF Item
<1>6. /\ DOMAIN buckets = {toBucket(i.slaDueAt) : i \in counted}
      /\ \A b \in DOMAIN buckets : buckets[b] = Cell(InCell(counted, b))
  BY <1>4 DEF CellsAreSound
<1>7. ASSUME NEW t \in Nat PROVE /\ toBucket(t) \in Nat
                                 /\ toBucket(t) \div Hour = t \div Hour
                                 /\ toBucket(t) = 60 * (t \div 60)
  BY DEF toBucket, Hour
<1> HIDE DEF counted
<1>8. ASSUME NEW i \in counted, NEW j \in counted
      PROVE toBucket(i.slaDueAt) = toBucket(j.slaDueAt)
              <=> i.slaDueAt \div Hour = toBucket(j.slaDueAt) \div Hour
  BY <1>5, <1>7 DEF Hour
<1>9. ASSUME NEW b \in DOMAIN buckets PROVE InCell(counted, b) = In(b)
  BY <1>6, <1>8 DEF InCell
<1>10. ASSUME NEW b \in DOMAIN buckets
       PROVE Late(In(b)) = In(b) \cap late /\ Soon(In(b)) = In(b) \cap soon
  <2>1. Day \in Nat
    BY DEF Day, Hour
  <2>2. \A i \in counted : (~(i.slaDueAt < Now) /\ i.slaDueAt < Now + Day)
                             <=> (i.slaDueAt >= Now /\ i.slaDueAt - Now < Day)
    BY <1>2, <1>5, <2>1
  <2>3. QED
    BY <2>2 DEF Late, Soon
<1>11. ASSUME NEW b \in DOMAIN buckets
       PROVE buckets[b] = [total |-> Cardinality(In(b)),
                           overdue |-> Cardinality(In(b) \cap late),
                           warning |-> Cardinality(In(b) \cap soon)]
  BY <1>6, <1>9, <1>10 DEF Cell
<1>12. ASSUME NEW i \in counted PROVE toBucket(i.slaDueAt) \in DOMAIN buckets
                                       /\ i \in In(toBucket(i.slaDueAt))
  BY <1>5, <1>6, <1>7
<1>13. ASSUME NEW b \in DOMAIN buckets
       PROVE buckets[b].overdue > 0 <=> In(b) \cap late # {}
  <2>1. IsFiniteSet(In(b) \cap late)
    BY <1>4, FS_Subset
  <2>2. Cardinality(In(b) \cap late) \in Nat
        /\ (Cardinality(In(b) \cap late) = 0 <=> In(b) \cap late = {})
    BY <2>1, FS_CardinalityType, FS_EmptySet
  <2>3. buckets[b].overdue = Cardinality(In(b) \cap late)
    <3>1. buckets[b] = Cell(InCell(counted, b))
      BY <1>6
    <3>2. Cell(InCell(counted, b)).overdue = Cardinality(Late(InCell(counted, b)))
      BY DEF Cell
    <3>3. Late(InCell(counted, b)) = In(b) \cap late
      BY <1>9, <1>10
    <3>4. QED
      BY <3>1, <3>2, <3>3
  <2>4. QED
    BY <2>2, <2>3
<1>14. {b \div Hour : b \in atRisk} = {i.slaDueAt \div Hour : i \in late}
  <2>1. ASSUME NEW b \in atRisk PROVE \E i \in late : b \div Hour = i.slaDueAt \div Hour
    BY <1>1, <1>13, <2>1
  <2>2. ASSUME NEW i \in late PROVE \E b \in atRisk : i.slaDueAt \div Hour = b \div Hour
    <3>1. i \in counted
      OBVIOUS
    <3>2. toBucket(i.slaDueAt) \in DOMAIN buckets /\ i \in In(toBucket(i.slaDueAt)) \cap late
      BY <1>12, <3>1
    <3>3. toBucket(i.slaDueAt) \in atRisk
      BY <1>1, <1>13, <3>2
    <3>4. QED
      BY <3>2, <3>3
  <2>3. QED
    BY <2>1, <2>2
<1>15. QED
  BY <1>11, <1>12, <1>14 DEF CellsCountItems, counted

\* In whatever order the rows come, and however many, each cell of the heat map
\* counts the items of its hour, and the hours at risk are those of the late ones.
THEOREM CellsAreCounted == Spec => []CellsCountItems
<1>1. Spec => []CellsAreSound
  BY CellsInit, CellsStep, PTL DEF Spec
<1>2. QED
  BY <1>1, CellsCount, PTL

-----------------------------------------------------------------------------
(* The stack of sortRules: D gives the dependencies of the codes C, V the codes that *)
(* have been visited.                                                              *)

Frames(C) == [code : C, deps : Nat]

NewFrame(c) == [code |-> c, deps |-> 0]

\* Everything c waits for is in V.
Ready(c, V, D) == \A k \in 1..Len(D[c]) : D[c][k] \in V

\* c is the next dependency of the code on top.
Wants(st, D, c) ==
  /\ st[Len(st)].deps < Len(D[st[Len(st)].code])
  /\ c = D[st[Len(st)].code][st[Len(st)].deps + 1]

Plus(V, c) == V \cup {c}

Pushes(s, c, t) == t = Append(s, NewFrame(c))

Pops(st, c, s) == c = st[Len(st)].code /\ s = Front(st)

Places(o, c, p) == p = Append(o, c)

\* The stack is a path of dependencies, and those before it have been visited.
SoundStack(st, V, D) ==
  \A k \in 1..Len(st) :
    /\ st[k].deps <= Len(D[st[k].code])
    /\ st[k].code \notin V
    /\ \A j \in 1..(k - 1) : st[j].code # st[k].code
    /\ \A i \in 1..(st[k].deps - 1) : D[st[k].code][i] \in V
    /\ k < Len(st) => st[k].deps >= 1 /\ D[st[k].code][st[k].deps] = st[k + 1].code
    /\ k = Len(st) /\ st[k].deps >= 1 => D[st[k].code][st[k].deps] \in V

\* The top frame of st has taken its next dependency.
Advanced(st, s) ==
  /\ Len(s) = Len(st)
  /\ \A k \in 1..(Len(st) - 1) : s[k] = st[k]
  /\ s[Len(st)].code = st[Len(st)].code
  /\ s[Len(st)].deps = st[Len(st)].deps + 1

\* A stack with something on it.
Standing(C, D, st) ==
  D \in [C -> Seq(STRING)] /\ st \in Seq(Frames(C)) /\ st # <<>>

LEMMA FrameFacts ==
  ASSUME NEW C, NEW st \in Seq(Frames(C)), NEW k \in 1..Len(st)
  PROVE  st[k] \in Frames(C) /\ st[k].code \in C /\ st[k].deps \in Nat
<1>1. st[k] \in Frames(C)
  OBVIOUS
<1>2. PICK f \in Frames(C) : f = st[k]
  BY <1>1
<1>3. f.code \in C /\ f.deps \in Nat
  BY DEF Frames
<1>4. QED
  BY <1>2, <1>3

LEMMA AdvanceFacts ==
  ASSUME NEW C, NEW st \in Seq(Frames(C)), st # <<>>, NEW s,
         s = [st EXCEPT ![Len(st)].deps = @ + 1]
  PROVE  s \in Seq(Frames(C)) /\ Advanced(st, s)
<1>1. Len(st) \in 1..Len(st) /\ DOMAIN st = 1..Len(st)
  OBVIOUS
<1>2. PICK f \in Frames(C) : f = st[Len(st)]
  BY <1>1
<1>3. PICK g \in Frames(C) : g = [f EXCEPT !.deps = @ + 1]
  <2>1. f.deps + 1 \in Nat
    BY DEF Frames
  <2>2. QED
    BY <2>1 DEF Frames
<1>4. s = [st EXCEPT ![Len(st)] = g]
  BY <1>1, <1>2, <1>3
<1>5. s \in Seq(Frames(C)) /\ Len(s) = Len(st)
  BY <1>1, <1>4
<1>6. s[Len(st)] = g /\ \A k \in 1..(Len(st) - 1) : s[k] = st[k]
  BY <1>1, <1>4
<1>7. g.code = f.code /\ g.deps = f.deps + 1
  BY <1>3 DEF Frames
<1>8. QED
  BY <1>2, <1>5, <1>6, <1>7 DEF Advanced

\* The dependencies that the top code has taken have been visited.
LEMMA TopIsReady ==
  ASSUME NEW C, NEW D, NEW V, NEW st, Standing(C, D, st), SoundStack(st, V, D),
         NEW i \in 1..st[Len(st)].deps
  PROVE  D[st[Len(st)].code][i] \in V
<1>1. Len(st) \in 1..Len(st)
  BY DEF Standing
<1>2. PICK n, m \in Nat : n = Len(st) /\ m = st[n].deps
  BY <1>1, FrameFacts DEF Standing
<1>3. /\ \A k \in 1..(m - 1) : D[st[n].code][k] \in V
      /\ m >= 1 => D[st[n].code][m] \in V
  BY <1>1, <1>2 DEF SoundStack
<1>4. i \in 1..(m - 1) \/ (i = m /\ m >= 1)
  BY <1>2
<1>5. QED
  BY <1>2, <1>3, <1>4

\* A dependency that has been visited.
LEMMA SkipIsSound ==
  ASSUME NEW C, NEW D, NEW V, NEW st, Standing(C, D, st), SoundStack(st, V, D),
         NEW s \in Seq(Frames(C)), Advanced(st, s),
         NEW c \in V, Wants(st, D, c)
  PROVE  SoundStack(s, V, D)
<1>1. D \in [C -> Seq(STRING)] /\ st \in Seq(Frames(C)) /\ st # <<>>
  BY DEF Standing
<1> USE <1>1 DEF Wants
<1> DEFINE n == Len(st)
<1>2. n \in Nat /\ n >= 1 /\ n \in 1..n
  OBVIOUS
<1>3. /\ Len(s) = n /\ \A k \in 1..(n - 1) : s[k] = st[k]
      /\ s[n].code = st[n].code /\ s[n].deps = st[n].deps + 1
  BY DEF Advanced
<1>4. \A k \in 1..n : st[k].deps \in Nat /\ st[k].code \in C
  BY FrameFacts
<1> HIDE DEF n
<1>5. \A k \in 1..n : st[k].deps \in Nat /\ st[k].code \in C /\ s[k].code = st[k].code
  <2>1. ASSUME NEW k \in 1..n PROVE s[k].code = st[k].code
    <3>1. k \in 1..(n - 1) \/ k = n
      BY <1>2
    <3>2. QED
      BY <1>3, <3>1
  <2>2. QED
    BY <1>4, <2>1
<1>6. ASSUME NEW k \in 1..n, k < n
      PROVE  /\ s[k].deps <= Len(D[s[k].code]) /\ s[k].code \notin V
             /\ \A j \in 1..(k - 1) : s[j].code # s[k].code
             /\ \A i \in 1..(s[k].deps - 1) : D[s[k].code][i] \in V
             /\ s[k].deps >= 1 /\ D[s[k].code][s[k].deps] = s[k + 1].code
  <2>1. s[k] = st[k] /\ s[k + 1].code = st[k + 1].code /\ k + 1 \in 1..n
    BY <1>2, <1>3, <1>5, <1>6
  <2>2. \A j \in 1..(k - 1) : s[j].code = st[j].code
    BY <1>2, <1>5
  <2>3. QED
    BY <1>6, <2>1, <2>2 DEF SoundStack, n
<1>7. /\ s[n].deps <= Len(D[s[n].code]) /\ s[n].code \notin V
      /\ \A j \in 1..(n - 1) : s[j].code # s[n].code
      /\ \A i \in 1..s[n].deps : D[s[n].code][i] \in V
  <2>1. \A i \in 1..st[n].deps : D[st[n].code][i] \in V
    BY <1>2, TopIsReady DEF n
  <2>2. D[st[n].code][st[n].deps + 1] \in V /\ st[n].deps < Len(D[st[n].code])
    BY DEF n
  <2>3. \A i \in 1..s[n].deps : D[s[n].code][i] \in V
    BY <1>2, <1>3, <1>5, <2>1, <2>2
  <2>4. \A j \in 1..(n - 1) : s[j].code = st[j].code
    BY <1>3
  <2>5. /\ st[n].code \notin V /\ \A j \in 1..(n - 1) : st[j].code # st[n].code
    BY <1>2 DEF SoundStack, n
  <2>6. st[n].deps + 1 <= Len(D[st[n].code])
    <3>1. D[st[n].code] \in Seq(STRING)
      BY <1>2, <1>5
    <3>2. QED
      BY <1>2, <1>5, <2>2, <3>1
  <2>7. QED
    BY <1>3, <2>3, <2>4, <2>5, <2>6
<1>8. \A k \in 1..n : s[k].deps \in Nat
  BY <1>2, <1>3, <1>5
<1>9. ASSUME NEW k \in 1..Len(s)
      PROVE  /\ s[k].deps <= Len(D[s[k].code])
             /\ s[k].code \notin V
             /\ \A j \in 1..(k - 1) : s[j].code # s[k].code
             /\ \A i \in 1..(s[k].deps - 1) : D[s[k].code][i] \in V
             /\ k < Len(s) => s[k].deps >= 1 /\ D[s[k].code][s[k].deps] = s[k + 1].code
             /\ k = Len(s) /\ s[k].deps >= 1 => D[s[k].code][s[k].deps] \in V
  <2>1. CASE k < n
    <3>1. k \in 1..n /\ k # Len(s)
      BY <1>2, <1>3, <2>1
    <3>2. QED
      BY <1>6, <2>1, <3>1
  <2>2. CASE k = n
    <3>1. PICK m \in Nat : m = s[n].deps
      BY <1>2, <1>8
    <3>2. \A i \in 1..(m - 1) : i \in 1..m
      BY <3>1
    <3>3. m >= 1 => m \in 1..m
      BY <3>1
    <3>4. ~(k < Len(s))
      BY <1>2, <1>3, <2>2
    <3>5. QED
      BY <1>7, <2>2, <3>1, <3>2, <3>3, <3>4
  <2>3. QED
    BY <1>2, <1>3, <2>1, <2>2
<1>10. QED
  BY <1>9 DEF SoundStack

\* A new code on top; `old` is the stack with the dependency taken.
LEMMA PushIsSound ==
  ASSUME NEW C, NEW D, NEW V, NEW st, Standing(C, D, st), SoundStack(st, V, D),
         NEW s \in Seq(Frames(C)), Advanced(st, s),
         NEW c \in C, Wants(st, D, c), c \notin V, \A k \in 1..Len(st) : st[k].code # c,
         NEW t, Pushes(s, c, t)
  PROVE  t \in Seq(Frames(C)) /\ SoundStack(t, V, D)
<1>1. D \in [C -> Seq(STRING)] /\ st \in Seq(Frames(C)) /\ st # <<>>
  BY DEF Standing
<1> USE <1>1 DEF Wants, Pushes
<1> DEFINE n == Len(st)
<1>2. n \in Nat /\ n >= 1 /\ n \in 1..n
  OBVIOUS
<1>3. /\ Len(s) = n /\ \A k \in 1..(n - 1) : s[k] = st[k]
      /\ s[n].code = st[n].code /\ s[n].deps = st[n].deps + 1
  BY DEF Advanced
<1>4. PICK f \in Frames(C) : f = NewFrame(c) /\ f = [code |-> c, deps |-> 0]
  BY DEF Frames, NewFrame
<1>5. /\ t \in Seq(Frames(C)) /\ Len(t) = n + 1
      /\ \A k \in 1..n : t[k] = s[k]
      /\ t[n + 1] = f
  BY <1>3, <1>4
<1>6. f.code = c /\ f.deps = 0
  BY <1>4
<1>7. \A k \in 1..n : st[k].deps \in Nat /\ st[k].code \in C
  BY FrameFacts
<1> HIDE DEF n
<1>8. \A k \in 1..n : /\ st[k].deps \in Nat /\ st[k].code \in C
                      /\ t[k].code = st[k].code
                      /\ k < n => t[k] = st[k]
  <2>1. ASSUME NEW k \in 1..n PROVE t[k].code = st[k].code /\ (k < n => t[k] = st[k])
    <3>1. (k \in 1..(n - 1) \/ k = n) /\ (k < n => k \in 1..(n - 1)) /\ t[k] = s[k]
      BY <1>2, <1>5
    <3>2. QED
      BY <1>3, <3>1
  <2>2. QED
    BY <1>7, <2>1
<1>9. t[n].deps = st[n].deps + 1
  BY <1>2, <1>3, <1>5
<1>10. ASSUME NEW k \in 1..n, k < n
       PROVE  /\ t[k].deps <= Len(D[t[k].code]) /\ t[k].code \notin V
              /\ \A j \in 1..(k - 1) : t[j].code # t[k].code
              /\ \A i \in 1..(t[k].deps - 1) : D[t[k].code][i] \in V
              /\ t[k].deps >= 1 /\ D[t[k].code][t[k].deps] = t[k + 1].code
  <2>1. k + 1 \in 1..n /\ k \in 1..Len(st)
    BY <1>2, <1>10 DEF n
  <2>2. t[k] = st[k] /\ t[k + 1].code = st[k + 1].code
    BY <1>8, <1>10, <2>1
  <2>3. ASSUME NEW j \in 1..(k - 1) PROVE t[j].code = st[j].code
    <3>1. j \in 1..n
      BY <1>2
    <3>2. QED
      BY <1>8, <3>1
  <2>4. /\ st[k].deps <= Len(D[st[k].code]) /\ st[k].code \notin V
        /\ \A j \in 1..(k - 1) : st[j].code # st[k].code
        /\ \A i \in 1..(st[k].deps - 1) : D[st[k].code][i] \in V
        /\ st[k].deps >= 1 /\ D[st[k].code][st[k].deps] = st[k + 1].code
    BY <1>10, <2>1 DEF SoundStack, n
  <2>5. QED
    BY <2>2, <2>3, <2>4
<1>11. /\ t[n].deps <= Len(D[t[n].code]) /\ t[n].code \notin V
       /\ \A j \in 1..(n - 1) : t[j].code # t[n].code
       /\ \A i \in 1..(t[n].deps - 1) : D[t[n].code][i] \in V
       /\ t[n].deps >= 1 /\ D[t[n].code][t[n].deps] = t[n + 1].code
  <2>1. \A i \in 1..st[n].deps : D[st[n].code][i] \in V
    BY <1>2, TopIsReady DEF n
  <2>2. D[st[n].code][st[n].deps + 1] = c /\ st[n].deps < Len(D[st[n].code])
    BY DEF n
  <2>3. t[n].code = st[n].code /\ st[n].deps \in Nat
    BY <1>2, <1>8
  <2>4. PICK d \in Nat : st[n].deps = d
    BY <2>3
  <2>5. t[n].deps >= 1 /\ t[n].deps - 1 = d
    <3>1. t[n].deps = d + 1
      BY <1>9, <2>4
    <3>2. PICK e : e = t[n].deps
      OBVIOUS
    <3>3. e >= 1 /\ e - 1 = d
      BY <3>1, <3>2
    <3>4. QED
      BY <3>2, <3>3
  <2>6. \A i \in 1..(t[n].deps - 1) : D[t[n].code][i] \in V
    BY <2>3, <2>1, <2>5, <2>4
  <2>7. ASSUME NEW j \in 1..(n - 1) PROVE t[j].code = st[j].code
    <3>1. j \in 1..n
      BY <1>2
    <3>2. QED
      BY <1>8, <3>1
  <2>8. /\ st[n].code \notin V /\ \A j \in 1..(n - 1) : st[j].code # st[n].code
    BY <1>2 DEF SoundStack, n
  <2>9. st[n].deps + 1 <= Len(D[st[n].code])
    <3>1. D[st[n].code] \in Seq(STRING)
      BY <1>2, <1>8
    <3>2. QED
      BY <1>2, <1>8, <2>2, <3>1
  <2>10. t[n].code = st[n].code /\ st[n].deps \in Nat
    BY <1>2, <1>8
  <2>11. t[n + 1].code = c
    BY <1>5, <1>6
  <2>12. QED
    BY <1>9, <2>2, <2>6, <2>7, <2>8, <2>9, <2>10, <2>11, <2>5
<1>12. /\ t[n + 1].deps <= Len(D[t[n + 1].code]) /\ t[n + 1].code \notin V
       /\ \A j \in 1..n : t[j].code # t[n + 1].code
       /\ t[n + 1].deps = 0
  <2>1. D[c] \in Seq(STRING)
    OBVIOUS
  <2>2. \A j \in 1..n : st[j].code # c
    BY DEF n
  <2>3. t[n + 1].code = c /\ t[n + 1].deps = 0
    BY <1>5, <1>6
  <2>4. \A j \in 1..n : t[j].code = st[j].code
    BY <1>8
  <2>5. Len(D[c]) >= 0
    BY <2>1
  <2>6. QED
    BY <2>2, <2>3, <2>4, <2>5
<1>13. ASSUME NEW k \in 1..Len(t)
       PROVE  /\ t[k].deps <= Len(D[t[k].code])
              /\ t[k].code \notin V
              /\ \A j \in 1..(k - 1) : t[j].code # t[k].code
              /\ \A i \in 1..(t[k].deps - 1) : D[t[k].code][i] \in V
              /\ k < Len(t) => t[k].deps >= 1 /\ D[t[k].code][t[k].deps] = t[k + 1].code
              /\ k = Len(t) /\ t[k].deps >= 1 => D[t[k].code][t[k].deps] \in V
  <2>1. k < n \/ k = n \/ k = n + 1
    BY <1>2, <1>5
  <2>2. CASE k < n
    <3>1. k \in 1..n /\ k # Len(t)
      BY <1>2, <1>5, <2>2
    <3>2. QED
      BY <1>10, <2>2, <3>1
  <2>3. CASE k = n
    <3>1. k # Len(t)
      BY <1>2, <1>5, <2>3
    <3>2. QED
      BY <1>11, <2>3, <3>1
  <2>4. CASE k = n + 1
    <3>1. k - 1 = n /\ ~(k < Len(t)) /\ ~(0 >= 1) /\ 1..(0 - 1) = {}
      BY <1>2, <1>5, <2>4
    <3>2. QED
      BY <1>12, <2>4, <3>1
  <2>5. QED
    BY <2>1, <2>2, <2>3, <2>4
<1>14. QED
  BY <1>5, <1>13 DEF SoundStack

\* visit returns.
LEMMA PopIsSound ==
  ASSUME NEW C, NEW D, NEW V, NEW st, Standing(C, D, st), SoundStack(st, V, D),
         NEW s, NEW c, Pops(st, c, s)
  PROVE  /\ s \in Seq(Frames(C)) /\ SoundStack(s, Plus(V, c), D)
         /\ Len(s) = Len(st) - 1 /\ \A k \in 1..Len(s) : s[k] = st[k]
<1>1. D \in [C -> Seq(STRING)] /\ st \in Seq(Frames(C)) /\ st # <<>>
  BY DEF Standing
<1> USE <1>1 DEF Plus, Pops
<1> DEFINE n == Len(st)
           W == Plus(V, c)
<1>2. n \in Nat /\ n >= 1 /\ n \in 1..n
  OBVIOUS
<1>3. s \in Seq(Frames(C)) /\ Len(s) = n - 1 /\ \A k \in 1..(n - 1) : s[k] = st[k]
  <2>1. 1 \in 1..(n + 1) /\ n - 1 \in 0..n
    BY <1>2
  <2>2. /\ SubSeq(st, 1, n - 1) \in Seq(Frames(C))
        /\ Len(SubSeq(st, 1, n - 1)) = IF 1 <= n - 1 THEN n - 1 - 1 + 1 ELSE 0
        /\ \A i \in 1..(n - 1 - 1 + 1) : SubSeq(st, 1, n - 1)[i] = st[1 + i - 1]
    BY <1>2, <2>1, SubSeqProperties
  <2>3. s = SubSeq(st, 1, n - 1)
    BY DEF Front
  <2> HIDE DEF n
  <2>4. \A i \in 1..(n - 1) : i \in 1..(n - 1 - 1 + 1) /\ 1 + i - 1 = i
    BY <1>2
  <2>5. (IF 1 <= n - 1 THEN n - 1 - 1 + 1 ELSE 0) = n - 1
    BY <1>2
  <2>6. QED
    BY <2>2, <2>3, <2>4, <2>5
<1>4. \A k \in 1..n : st[k].deps \in Nat /\ st[k].code \in C
  BY FrameFacts
<1> HIDE DEF n
<1>5. ASSUME NEW k \in 1..(n - 1)
      PROVE  /\ st[k].deps <= Len(D[st[k].code])
             /\ st[k].code \notin V /\ st[k].code # st[n].code
             /\ \A j \in 1..(k - 1) : st[j].code # st[k].code
             /\ \A i \in 1..(st[k].deps - 1) : D[st[k].code][i] \in V
             /\ st[k].deps >= 1 /\ D[st[k].code][st[k].deps] = st[k + 1].code
  <2>1. k \in 1..n /\ k < n
    BY <1>2
  <2>2. \A j \in 1..(n - 1) : st[j].code # st[n].code
    BY <1>2 DEF SoundStack, n
  <2>3. QED
    BY <1>5, <2>1, <2>2 DEF SoundStack, n
<1>6. ASSUME NEW k \in 1..Len(s)
      PROVE  /\ s[k].deps <= Len(D[s[k].code])
             /\ s[k].code \notin W
             /\ \A j \in 1..(k - 1) : s[j].code # s[k].code
             /\ \A i \in 1..(s[k].deps - 1) : D[s[k].code][i] \in W
             /\ k < Len(s) => s[k].deps >= 1 /\ D[s[k].code][s[k].deps] = s[k + 1].code
             /\ k = Len(s) /\ s[k].deps >= 1
                  => D[s[k].code][s[k].deps] \in W
  <2>1. k \in 1..(n - 1) /\ s[k] = st[k] /\ (k < Len(s) => s[k + 1] = st[k + 1])
        /\ \A j \in 1..(k - 1) : s[j] = st[j]
    BY <1>2, <1>3
  <2>2. k = Len(s) => k + 1 = n
    BY <1>2, <1>3
  <2>3. /\ st[k].deps <= Len(D[st[k].code])
        /\ st[k].code \notin V /\ st[k].code # st[n].code
        /\ \A j \in 1..(k - 1) : st[j].code # st[k].code
        /\ \A i \in 1..(st[k].deps - 1) : D[st[k].code][i] \in V
        /\ st[k].deps >= 1 /\ D[st[k].code][st[k].deps] = st[k + 1].code
    BY <1>5, <2>1
  <2>4. QED
    BY <2>1, <2>2, <2>3 DEF n
<1>7. QED
  BY <1>3, <1>6 DEF SoundStack, n

\* Codes that wait for each other.
Circle(C, D) == \E S \in SUBSET C : S # {} /\ \A c \in S : ToSet(D[c]) \cap S # {}

\* A dependency that is on the stack closes a circle of codes that wait for each other.
LEMMA CircleWaits ==
  ASSUME NEW C, NEW D, NEW V, NEW st, Standing(C, D, st), SoundStack(st, V, D),
         NEW c, Wants(st, D, c), NEW j \in 1..Len(st), st[j].code = c
  PROVE  Circle(C, D)
<1>1. D \in [C -> Seq(STRING)] /\ st \in Seq(Frames(C)) /\ st # <<>>
  BY DEF Standing
<1> USE <1>1 DEF Wants
<1> DEFINE n == Len(st)
           S == {st[m].code : m \in j..n}
<1>2. n \in Nat /\ n >= 1 /\ n \in j..n /\ j..n \subseteq 1..n
  OBVIOUS
<1>3. \A k \in 1..n : st[k].deps \in Nat /\ st[k].code \in C
  BY FrameFacts
<1>4. S \in SUBSET C /\ S # {}
  BY <1>2, <1>3
<1>5. ASSUME NEW m \in j..n PROVE ToSet(D[st[m].code]) \cap S # {}
  <2>1. m \in 1..n /\ D[st[m].code] \in Seq(STRING)
    BY <1>2, <1>3
  <2>2. CASE m = n
    <3>1. st[n].deps + 1 \in 1..Len(D[st[n].code]) /\ st[j].code = D[st[n].code][st[n].deps + 1]
      BY <1>3, <2>1, <2>2
    <3>2. st[j].code \in S /\ j \in j..n
      BY <1>2
    <3>3. D[st[n].code] \in Seq(STRING)
      BY <2>1, <2>2
    <3> HIDE DEF n, S
    <3>4. st[j].code \in ToSet(D[st[n].code])
      BY <3>1, <3>3 DEF ToSet
    <3>5. QED
      BY <2>2, <3>2, <3>4
  <2>3. CASE m < n
    <3>1. /\ st[m].deps >= 1 /\ D[st[m].code][st[m].deps] = st[m + 1].code
          /\ st[m].deps <= Len(D[st[m].code])
      BY <2>1, <2>3 DEF SoundStack
    <3>2. st[m].deps \in 1..Len(D[st[m].code])
      BY <1>3, <2>1, <3>1
    <3>3. m + 1 \in j..n
      BY <1>2, <2>3
    <3>4. st[m + 1].code \in S
      BY <3>3
    <3> HIDE DEF n, S
    <3>5. st[m + 1].code \in ToSet(D[st[m].code])
      BY <2>1, <3>1, <3>2 DEF ToSet
    <3>6. QED
      BY <3>4, <3>5
  <2>4. QED
    BY <1>2, <2>2, <2>3
<1>6. \A e \in S : ToSet(D[e]) \cap S # {}
  BY <1>5
<1> HIDE DEF S
<1>7. QED
  BY <1>4, <1>6 DEF Circle

-----------------------------------------------------------------------------
(* sortRules *)

LEMMA LeastNumber ==
  ASSUME NEW T, T \subseteq Nat, T # {}
  PROVE  \E n \in T : \A m \in T : n <= m
<1> DEFINE Below(n) == 0 .. n
           W == {Below(n) : n \in T}
<1>1. ASSUME NEW n \in Nat PROVE Below(n) \in FiniteSubsetsOf(Nat)
  <2>1. IsFiniteSet(Below(n))
    BY FS_Interval
  <2>2. QED
    BY <2>1 DEF FiniteSubsetsOf
<1>2. W \subseteq FiniteSubsetsOf(Nat) /\ W # {}
  BY <1>1
<1>3. PICK x \in W : \A y \in W : <<y, x>> \notin StrictSubsetOrdering(Nat)
  <2> HIDE DEF W
  <2>1. IsWellFoundedOn(StrictSubsetOrdering(Nat), FiniteSubsetsOf(Nat))
    BY FS_StrictSubsetOrderingWellFounded
  <2>2. QED
    BY <1>2, <2>1, WFMin
<1>4. PICK n \in T : x = Below(n)
  OBVIOUS
<1>5. ASSUME NEW m \in T, m < n PROVE FALSE
  <2>1. Below(m) \in SUBSET Nat /\ Below(n) \in SUBSET Nat /\ Below(m) \subseteq Below(n)
    BY <1>5
  <2>2. n \in Below(n) /\ n \notin Below(m)
    BY <1>5
  <2>3. Below(m) \in W
    OBVIOUS
  <2> HIDE DEF W, Below
  <2>4. <<Below(m), x>> \in StrictSubsetOrdering(Nat)
    BY <1>4, <2>1, <2>2 DEF StrictSubsetOrdering
  <2>5. QED
    BY <1>3, <2>3, <2>4
<1>6. QED
  BY <1>5

IsLast(i) == \A j \in (i + 1)..Len(rules) : rules[j].code # rules[i].code

\* The definition that counts is the last one of its code.
LEMMA LastIsKept ==
  ASSUME rules \in Seq(Definition), NEW i \in DOMAIN rules, IsLast(i)
  PROVE  definitionMap[rules[i].code] = rules[i]
<1> DEFINE c == rules[i].code
           P(k) == rules[k].code = c /\ \A j \in (k + 1)..Len(rules) : rules[j].code # c
<1>1. DOMAIN rules = 1..Len(rules) /\ Len(rules) \in Nat
  OBVIOUS
<1>2. P(i)
  BY DEF IsLast
<1>3. ASSUME NEW k \in DOMAIN rules, P(k) PROVE k = i
  <2>1. ~(k < i)
    BY <1>1, <1>3
  <2>2. ~(i < k)
    BY <1>1, <1>2, <1>3
  <2>3. QED
    BY <1>1, <2>1, <2>2
<1>4. (CHOOSE k \in DOMAIN rules : P(k)) = i
  <2> HIDE DEF P
  <2>1. QED
    BY <1>2, <1>3
<1>5. c \in Codes
  BY DEF Codes
<1>6. definitionMap[c] = rules[CHOOSE k \in DOMAIN rules : P(k)]
  BY <1>5 DEF definitionMap
<1> HIDE DEF P, c
<1>7. QED
  BY <1>4, <1>6 DEF c

LEMMA LastExists ==
  ASSUME rules \in Seq(Definition), NEW c \in Codes
  PROVE  \E i \in DOMAIN rules : rules[i].code = c /\ IsLast(i)
<1> DEFINE n == Len(rules)
           T == {k \in 0..n : n - k \in DOMAIN rules /\ rules[n - k].code = c}
<1>1. DOMAIN rules = 1..n /\ n \in Nat
  OBVIOUS
<1>2. PICK i \in DOMAIN rules : rules[i].code = c
  BY DEF Codes
<1> HIDE DEF n
<1>3. n - i \in T
  <2>1. n - (n - i) = i /\ n - i \in 0..n
    BY <1>1
  <2>2. QED
    BY <1>2, <2>1
<1>4. PICK k \in T : \A m \in T : k <= m
  <2>1. T \subseteq Nat /\ T # {}
    BY <1>1, <1>3
  <2> HIDE DEF T
  <2>2. QED
    BY <2>1, LeastNumber
<1>5. n - k \in DOMAIN rules /\ rules[n - k].code = c /\ k \in Nat
  BY <1>1
<1>6. ASSUME NEW j \in (n - k + 1)..n PROVE rules[j].code # c
  <2>1. n - j \in 0..n /\ n - (n - j) = j /\ j \in DOMAIN rules /\ n - j < k /\ n - j \in Int
    BY <1>1, <1>5
  <2>2. rules[j].code = c => n - j \in T
    BY <2>1
  <2>3. n - j \in T => k <= n - j
    BY <1>4
  <2>4. QED
    BY <1>5, <2>1, <2>2, <2>3
<1>7. QED
  BY <1>5, <1>6 DEF IsLast, n

\* The dependencies of each code.
DepsOf == [c \in Codes |-> definitionMap[c].dependencies]

LEMMA MapIsTyped ==
  ASSUME rules \in Seq(Definition)
  PROVE  /\ definitionMap \in [Codes -> Definition]
         /\ \A c \in Codes : definitionMap[c].code = c
         /\ DepsOf \in [Codes -> Seq(STRING)]
         /\ \A c \in Codes : DepsOf[c] = Deps(c)
<1>1. ASSUME NEW c \in Codes
      PROVE definitionMap[c] \in Definition /\ definitionMap[c].code = c
  <2>1. PICK i \in DOMAIN rules : rules[i].code = c /\ IsLast(i)
    BY LastExists
  <2>2. definitionMap[c] = rules[i] /\ rules[i] \in Definition
    BY <2>1, LastIsKept
  <2>3. QED
    BY <2>1, <2>2
<1>2. definitionMap \in [Codes -> Definition]
  <2>1. definitionMap = [c \in Codes |-> definitionMap[c]]
    BY DEF definitionMap
  <2>2. QED
    BY <1>1, <2>1
<1>3. ASSUME NEW c \in Codes PROVE definitionMap[c].dependencies \in Seq(STRING)
  BY <1>1 DEF Definition
<1>4. QED
  BY <1>1, <1>2, <1>3 DEF DepsOf, Deps

RulesAreTyped ==
  /\ rules \in Seq(Definition) /\ next \in 0..Len(rules)
  /\ stack \in Seq(Frames(Codes)) /\ ordered \in Seq(Codes)
  /\ at \in {"sort", "evaluate", "cycle", "missing", "threw", "done"}

\* The turns of the loop that are over have placed their codes.
LoopIsSound ==
  \A i \in 1..next : \/ rules[i].code \in visited
                     \/ stack # <<>> /\ i = next /\ rules[i].code = stack[1].code

\* No code is placed twice, and none before its dependencies.
SoundOrder(o, D) ==
  \A i \in 1..Len(o) :
    /\ \A j \in 1..(i - 1) : o[j] # o[i]
    /\ \A k \in 1..Len(D[o[i]]) : \E j \in 1..(i - 1) : o[j] = D[o[i]][k]

SortIsSound ==
  /\ RulesAreTyped
  /\ at = "sort" => SoundStack(stack, visited, DepsOf) /\ LoopIsSound
  /\ SoundOrder(ordered, DepsOf)
  /\ at \in {"evaluate", "threw", "done"} => visited = Codes

LEMMA SortInit == Init => SortIsSound
<1> SUFFICES ASSUME Init PROVE SortIsSound
  OBVIOUS
<1>1. rules \in Seq(Definition)
  BY RuleGraphAssumption, LibrariesAssumption DEF Init, RulesInit
<1>2. at = "sort" /\ next = 0 /\ stack = <<>> /\ ordered = <<>>
  BY DEF Init, RulesInit
<1>3. RulesAreTyped
  BY <1>1, <1>2 DEF RulesAreTyped
<1>4. SoundStack(stack, visited, DepsOf) /\ LoopIsSound /\ SoundOrder(ordered, DepsOf)
  BY <1>2 DEF SoundStack, LoopIsSound, SoundOrder
<1>5. QED
  BY <1>2, <1>3, <1>4 DEF SortIsSound

LEMMA SameRules ==
  ASSUME rules' = rules
  PROVE  /\ Codes' = Codes /\ definitionMap' = definitionMap /\ DepsOf' = DepsOf
<1>1. Codes' = Codes
  BY DEF Codes
<1>2. definitionMap' = definitionMap
  BY <1>1 DEF definitionMap, Codes
<1>3. QED
  BY <1>1, <1>2 DEF DepsOf

LEMMA SortDefinition == ASSUME SortIsSound, VisitDefinition PROVE SortIsSound'
<1> DEFINE c == rules[next + 1].code
<1>1. /\ at = "sort" /\ stack = <<>> /\ next < Len(rules) /\ next' = next + 1
      /\ Visit(c, stack)
      /\ UNCHANGED <<rules, ordered, outcomes, aggregate, findings>>
  BY DEF VisitDefinition
<1>2. RulesAreTyped /\ SoundStack(stack, visited, DepsOf) /\ LoopIsSound
      /\ SoundOrder(ordered, DepsOf)
  BY <1>1 DEF SortIsSound
<1>3. /\ Codes' = Codes /\ DepsOf' = DepsOf /\ visited' = visited
  BY <1>1, SameRules DEF visited
<1>4. next + 1 \in 1..Len(rules) /\ next \in Nat /\ next' \in 0..Len(rules) /\ c \in Codes
  BY <1>1, <1>2 DEF RulesAreTyped, Codes
<1>5. \A i \in 1..next : rules[i].code \in visited
  BY <1>1, <1>2 DEF LoopIsSound
<1> HIDE DEF c
<1>6. SoundOrder(ordered, DepsOf)'
  <2>1. ordered' = ordered
    BY <1>1
  <2>2. QED
    BY <1>2, <1>3, <2>1
<1>7. visiting = {}
  BY <1>1 DEF visiting
<1>8. CASE c \in visited
  <2>1. stack' = stack /\ at' = at
    BY <1>1, <1>7, <1>8 DEF Visit
  <2>2. LoopIsSound'
    <3>1. ASSUME NEW i \in 1..(next + 1) PROVE rules[i].code \in visited
      <4>1. i \in 1..next \/ i = next + 1
        BY <1>4
      <4>2. QED
        BY <1>5, <1>8, <4>1 DEF c
    <3>2. QED
      BY <1>1, <1>3, <3>1 DEF LoopIsSound
  <2>3. RulesAreTyped'
    BY <1>1, <1>2, <1>3, <1>4, <2>1 DEF RulesAreTyped
  <2>4. SoundStack(stack, visited, DepsOf)'
    BY <1>1, <2>1 DEF SoundStack
  <2>5. QED
    BY <1>1, <1>6, <2>1, <2>2, <2>3, <2>4 DEF SortIsSound
<1>9. CASE c \notin visited
  <2>1. stack' = Append(stack, [code |-> c, deps |-> 0]) /\ at' = at
    BY <1>1, <1>4, <1>7, <1>9 DEF Visit
  <2>2. PICK f \in Frames(Codes) : f = [code |-> c, deps |-> 0]
    BY <1>4 DEF Frames
  <2>3. /\ stack' \in Seq(Frames(Codes)) /\ Len(stack') = 1 /\ stack'[1] = f /\ stack' # <<>>
    BY <1>1, <2>1, <2>2
  <2>4. f.code = c /\ f.deps = 0
    BY <2>2
  <2>5. LoopIsSound'
    <3>1. ASSUME NEW i \in 1..(next + 1)
          PROVE rules[i].code \in visited \/ (i = next + 1 /\ rules[i].code = f.code)
      <4>1. i \in 1..next \/ i = next + 1
        BY <1>4
      <4>2. i = next + 1 => rules[i].code = f.code
        BY <2>4 DEF c
      <4>3. CASE i \in 1..next
        BY <1>5, <4>3
      <4>4. CASE i = next + 1
        BY <4>2, <4>4
      <4>5. QED
        BY <4>1, <4>3, <4>4
    <3>2. QED
      BY <1>1, <1>3, <2>3, <3>1 DEF LoopIsSound
  <2>6. RulesAreTyped'
    BY <1>1, <1>2, <1>3, <1>4, <2>1, <2>3 DEF RulesAreTyped
  <2>7. SoundStack(stack', visited, DepsOf)
    <3>1. DepsOf[c] \in Seq(STRING)
      BY <1>2, <1>4, MapIsTyped DEF RulesAreTyped
    <3>2. Len(DepsOf[c]) >= 0 /\ 1..(0 - 1) = {} /\ ~(0 >= 1) /\ 1..(1 - 1) = {}
      BY <3>1
    <3>3. \A k \in 1..Len(stack') : k = 1 /\ k = Len(stack') /\ stack'[k] = f
      BY <2>3
    <3>4. QED
      BY <1>9, <2>3, <2>4, <3>2, <3>3 DEF SoundStack
  <2>8. QED
    BY <1>1, <1>3, <1>6, <2>1, <2>5, <2>6, <2>7 DEF SortIsSound
<1>10. QED
  BY <1>8, <1>9

\* The stack with the next dependency taken, and that dependency.
Taking == [stack EXCEPT ![Len(stack)].deps = @ + 1]

Wanted == Deps(Top.code)[Top.deps + 1]

LEMMA DependencyFacts ==
  ASSUME SortIsSound, VisitDependency
  PROVE  /\ Taking \in Seq(Frames(Codes)) /\ Advanced(stack, Taking)
         /\ stack \in Seq(Frames(Codes)) /\ stack # <<>>
         /\ SoundStack(stack, visited, DepsOf)
         /\ DepsOf \in [Codes -> Seq(STRING)]
         /\ Wants(stack, DepsOf, Wanted)
         /\ stack[Len(stack)].code \in Codes
         /\ Visit(Wanted, Taking)
<1>1. /\ at = "sort" /\ stack # <<>> /\ Top.deps < Len(Deps(Top.code))
      /\ Visit(Wanted, Taking)
  BY DEF VisitDependency, Wanted, Taking
<1>2. stack \in Seq(Frames(Codes)) /\ SoundStack(stack, visited, DepsOf)
  BY <1>1 DEF SortIsSound, RulesAreTyped
<1>3. Taking \in Seq(Frames(Codes)) /\ Advanced(stack, Taking)
  BY <1>1, <1>2, AdvanceFacts DEF Taking
<1>4. Len(stack) \in 1..Len(stack)
  BY <1>1, <1>2
<1>5. stack[Len(stack)].code \in Codes
  BY <1>2, <1>4, FrameFacts
<1>6. DepsOf \in [Codes -> Seq(STRING)] /\ DepsOf[Top.code] = Deps(Top.code)
  BY <1>5, MapIsTyped DEF SortIsSound, RulesAreTyped, Top
<1>7. QED
  BY <1>1, <1>2, <1>3, <1>5, <1>6 DEF Top, Wanted, Wants

LEMMA SortDependency == ASSUME SortIsSound, VisitDependency PROVE SortIsSound'
<1>1. PICK s, d : s = Taking /\ d = Wanted
  OBVIOUS
<1>2. /\ s \in Seq(Frames(Codes)) /\ Advanced(stack, s)
      /\ stack \in Seq(Frames(Codes)) /\ stack # <<>>
      /\ SoundStack(stack, visited, DepsOf)
      /\ DepsOf \in [Codes -> Seq(STRING)]
      /\ Wants(stack, DepsOf, d)
      /\ Visit(d, s)
  BY <1>1, DependencyFacts
<1>3. at = "sort" /\ UNCHANGED <<rules, next, ordered, outcomes, aggregate, findings>>
  BY DEF VisitDependency
<1>4. RulesAreTyped /\ LoopIsSound /\ SoundOrder(ordered, DepsOf)
  BY <1>3 DEF SortIsSound
<1>5. Codes' = Codes /\ DepsOf' = DepsOf /\ visited' = visited
  BY <1>3, SameRules DEF visited
<1>6. SoundOrder(ordered, DepsOf)'
  <2>1. ordered' = ordered
    BY <1>3
  <2>2. QED
    BY <1>4, <1>5, <2>1
<1>7. s # <<>> /\ s[1].code = stack[1].code
  <2>1. Len(stack) \in Nat /\ Len(stack) >= 1 /\ Len(s) = Len(stack)
    BY <1>2 DEF Advanced
  <2>2. 1 = Len(stack) \/ 1 \in 1..(Len(stack) - 1)
    BY <2>1
  <2>3. QED
    BY <1>2, <2>1, <2>2 DEF Advanced
<1>8. CASE d \in visited
  <2>1. stack' = s /\ at' = at
    BY <1>2, <1>8 DEF Visit
  <2>2. SoundStack(s, visited, DepsOf)
    BY <1>2, <1>8, SkipIsSound DEF Standing
  <2>3. LoopIsSound'
    BY <1>3, <1>4, <1>5, <1>7, <2>1 DEF LoopIsSound
  <2>4. RulesAreTyped'
    BY <1>2, <1>3, <1>4, <1>5, <2>1 DEF RulesAreTyped
  <2>5. QED
    BY <1>3, <1>5, <1>6, <2>1, <2>2, <2>3, <2>4 DEF SortIsSound
<1>9. CASE d \notin visited /\ d \in visiting
  <2>1. stack' = s /\ at' = "cycle"
    BY <1>2, <1>9 DEF Visit
  <2>2. RulesAreTyped'
    BY <1>2, <1>3, <1>4, <1>5, <2>1 DEF RulesAreTyped
  <2>3. QED
    BY <1>6, <2>1, <2>2 DEF SortIsSound
<1>10. CASE d \notin visited \cup visiting \cup Codes
  <2>1. stack' = s /\ at' = "missing"
    BY <1>2, <1>10 DEF Visit
  <2>2. RulesAreTyped'
    BY <1>2, <1>3, <1>4, <1>5, <2>1 DEF RulesAreTyped
  <2>3. QED
    BY <1>6, <2>1, <2>2 DEF SortIsSound
<1>11. CASE d \in Codes \ (visited \cup visiting)
  <2>1. PICK t : Pushes(s, d, t)
    BY DEF Pushes
  <2>2. stack' = t /\ at' = at
    BY <1>2, <1>11, <2>1 DEF Visit, NewFrame, Pushes
  <2>3. \A k \in 1..Len(stack) : stack[k].code # d
    <3>1. DOMAIN stack = 1..Len(stack)
      BY <1>2
    <3>2. QED
      BY <1>11, <3>1 DEF visiting
  <2>4. t \in Seq(Frames(Codes)) /\ SoundStack(t, visited, DepsOf)
    <3>1. d \in Codes /\ d \notin visited /\ Standing(Codes, DepsOf, stack)
      BY <1>2, <1>11 DEF Standing
    <3>2. QED
      BY <1>2, <2>1, <2>3, <3>1, PushIsSound
  <2>5. t # <<>> /\ t[1] = s[1]
    <3>1. NewFrame(d) \in Frames(Codes)
      BY <1>11 DEF Frames, NewFrame
    <3>2. PICK f \in Frames(Codes) : f = NewFrame(d)
      BY <3>1
    <3>3. t = Append(s, f) /\ Len(s) >= 1
      BY <1>2, <1>7, <2>1, <3>2 DEF Pushes
    <3>4. QED
      BY <1>2, <3>3
  <2>6. LoopIsSound'
    BY <1>3, <1>4, <1>5, <1>7, <2>2, <2>5 DEF LoopIsSound
  <2>7. RulesAreTyped'
    BY <1>3, <1>4, <1>5, <2>2, <2>4 DEF RulesAreTyped
  <2>8. QED
    BY <1>3, <1>5, <1>6, <2>2, <2>4, <2>6, <2>7 DEF SortIsSound
<1>12. QED
  BY <1>8, <1>9, <1>10, <1>11

\* The top code has nothing left to wait for.
LEMMA LeaveFacts ==
  ASSUME SortIsSound, Leave
  PROVE  /\ stack \in Seq(Frames(Codes)) /\ stack # <<>>
         /\ SoundStack(stack, visited, DepsOf)
         /\ Top.code \in Codes \ visited
         /\ DepsOf \in [Codes -> Seq(STRING)]
         /\ Ready(Top.code, visited, DepsOf)
<1>1. at = "sort" /\ stack # <<>> /\ Top.deps = Len(Deps(Top.code))
  BY DEF Leave
<1>2. stack \in Seq(Frames(Codes)) /\ SoundStack(stack, visited, DepsOf)
  BY <1>1 DEF SortIsSound, RulesAreTyped
<1>3. Len(stack) \in 1..Len(stack)
  BY <1>1, <1>2
<1>4. stack[Len(stack)].code \in Codes /\ stack[Len(stack)].deps \in Nat
  BY <1>2, <1>3, FrameFacts
<1>5. DepsOf \in [Codes -> Seq(STRING)] /\ DepsOf[Top.code] = Deps(Top.code)
  BY <1>4, MapIsTyped DEF SortIsSound, RulesAreTyped, Top
<1>6. PICK n, m \in Nat : n = Len(stack) /\ m = stack[n].deps
  BY <1>2, <1>4
<1>7. /\ stack[n].code \notin visited
      /\ \A i \in 1..(m - 1) : DepsOf[stack[n].code][i] \in visited
      /\ m >= 1 => DepsOf[stack[n].code][m] \in visited
  BY <1>2, <1>3, <1>6 DEF SoundStack
<1>8. Top = stack[n] /\ m = Len(DepsOf[Top.code])
  BY <1>1, <1>5, <1>6 DEF Top
<1>9. \A k \in 1..m : DepsOf[Top.code][k] \in visited
  BY <1>7, <1>8
<1>10. QED
  BY <1>1, <1>2, <1>4, <1>5, <1>6, <1>7, <1>8, <1>9 DEF Ready

LEMMA OrderGrows ==
  ASSUME NEW C, NEW D, NEW o \in Seq(C), SoundOrder(o, D),
         NEW c \in C, c \notin ToSet(o),
         Ready(c, ToSet(o), D),
         NEW p, Places(o, c, p)
  PROVE  p \in Seq(C) /\ SoundOrder(p, D) /\ ToSet(p) = Plus(ToSet(o), c)
<1> USE DEF Places, Plus
<1>1. /\ p \in Seq(C) /\ Len(p) = Len(o) + 1 /\ p[Len(o) + 1] = c
      /\ \A i \in 1..Len(o) : p[i] = o[i]
      /\ Len(o) \in Nat
  OBVIOUS
<1>2. ToSet(o) = {o[i] : i \in 1..Len(o)} /\ ToSet(p) = {p[i] : i \in 1..Len(p)}
  <2>1. DOMAIN o = 1..Len(o)
    OBVIOUS
  <2>2. DOMAIN p = 1..Len(p)
    BY <1>1
  <2>3. QED
    BY <2>1, <2>2 DEF ToSet
<1>3. ToSet(p) = ToSet(o) \cup {c}
  BY <1>1, <1>2
<1>4. ASSUME NEW i \in 1..Len(p)
      PROVE  /\ \A j \in 1..(i - 1) : p[j] # p[i]
             /\ \A k \in 1..Len(D[p[i]]) : \E j \in 1..(i - 1) : p[j] = D[p[i]][k]
  <2>1. i \in 1..Len(o) \/ i = Len(o) + 1
    BY <1>1
  <2>2. \A j \in 1..(i - 1) : j \in 1..Len(o) /\ p[j] = o[j]
    BY <1>1
  <2>3. CASE i \in 1..Len(o)
    <3>1. p[i] = o[i]
      BY <1>1, <2>3
    <3>2. /\ \A j \in 1..(i - 1) : o[j] # o[i]
          /\ \A k \in 1..Len(D[o[i]]) : \E j \in 1..(i - 1) : o[j] = D[o[i]][k]
      BY <2>3 DEF SoundOrder
    <3>3. QED
      BY <2>2, <3>1, <3>2
  <2>4. CASE i = Len(o) + 1
    <3>1. p[i] = c /\ i - 1 = Len(o)
      BY <1>1, <2>4
    <3>2. \A j \in 1..(i - 1) : p[j] # c
      BY <1>2, <2>2
    <3>3. \A k \in 1..Len(D[c]) : \E j \in 1..Len(o) : o[j] = D[c][k]
      BY <1>2 DEF Ready
    <3>4. \A k \in 1..Len(D[c]) : \E j \in 1..(i - 1) : p[j] = D[c][k]
      BY <2>2, <3>1, <3>3
    <3>5. QED
      BY <3>1, <3>2, <3>4
  <2>5. QED
    BY <2>1, <2>3, <2>4
<1>5. QED
  BY <1>1, <1>3, <1>4 DEF SoundOrder

LEMMA SortLeave == ASSUME SortIsSound, Leave PROVE SortIsSound'
<1>1. /\ at = "sort" /\ ordered' = Append(ordered, Top.code) /\ stack' = Front(stack)
      /\ UNCHANGED <<rules, at, next>>
  BY DEF Leave
<1>2. /\ stack \in Seq(Frames(Codes)) /\ stack # <<>>
      /\ SoundStack(stack, visited, DepsOf)
      /\ Top.code \in Codes \ visited
      /\ DepsOf \in [Codes -> Seq(STRING)]
      /\ Ready(Top.code, visited, DepsOf)
  BY LeaveFacts
<1>3. RulesAreTyped /\ LoopIsSound /\ SoundOrder(ordered, DepsOf)
  BY <1>1 DEF SortIsSound
<1>4. Codes' = Codes /\ DepsOf' = DepsOf
  BY <1>1, SameRules
<1>5. PICK c : c = Top.code
  OBVIOUS
<1>6. /\ ordered' \in Seq(Codes) /\ SoundOrder(ordered', DepsOf)
      /\ visited' = visited \cup {c}
  <2>1. PICK o, p : o = ordered /\ p = ordered'
    OBVIOUS
  <2>2. /\ o \in Seq(Codes) /\ SoundOrder(o, DepsOf) /\ c \in Codes /\ c \notin ToSet(o)
        /\ Ready(c, ToSet(o), DepsOf)
        /\ Places(o, c, p)
    BY <1>1, <1>2, <1>3, <1>5, <2>1 DEF Places, RulesAreTyped, visited
  <2>3. p \in Seq(Codes) /\ SoundOrder(p, DepsOf) /\ ToSet(p) = Plus(ToSet(o), c)
    BY <1>2, <2>2, OrderGrows
  <2>4. QED
    BY <2>1, <2>3 DEF visited, Plus
<1>7. /\ stack' \in Seq(Frames(Codes))
      /\ SoundStack(stack', visited \cup {c}, DepsOf)
      /\ Len(stack') = Len(stack) - 1
      /\ \A k \in 1..Len(stack') : stack'[k] = stack[k]
  <2>1. PICK s : s = stack'
    OBVIOUS
  <2>2. Pops(stack, c, s)
    BY <1>1, <1>5, <2>1 DEF Top, Pops
  <2>3. /\ s \in Seq(Frames(Codes)) /\ SoundStack(s, Plus(visited, c), DepsOf)
        /\ Len(s) = Len(stack) - 1 /\ \A k \in 1..Len(s) : s[k] = stack[k]
    <3>1. Standing(Codes, DepsOf, stack)
      BY <1>2 DEF Standing
    <3>2. QED
      BY <1>2, <2>2, <3>1, PopIsSound
  <2>4. QED
    BY <2>1, <2>3 DEF Plus
<1>8. LoopIsSound'
  <2>1. ASSUME NEW i \in 1..next, rules[i].code \notin visited'
        PROVE stack' # <<>> /\ i = next /\ rules[i].code = stack'[1].code
    <3>1. i = next /\ rules[i].code = stack[1].code /\ rules[i].code # c
      BY <1>3, <1>6, <2>1 DEF LoopIsSound
    <3>2. Len(stack) # 1
      BY <1>5, <3>1 DEF Top
    <3>3. Len(stack) \in Nat /\ Len(stack) >= 1
      BY <1>2
    <3>4. 1 \in 1..Len(stack')
      BY <1>7, <3>2, <3>3
    <3>5. stack' # <<>> /\ stack'[1] = stack[1]
      BY <1>7, <3>4
    <3>6. QED
      BY <3>1, <3>5
  <2>2. QED
    BY <1>1, <2>1 DEF LoopIsSound
<1>9. RulesAreTyped'
  BY <1>1, <1>3, <1>4, <1>6, <1>7 DEF RulesAreTyped
<1>10. QED
  BY <1>1, <1>4, <1>6, <1>7, <1>8, <1>9 DEF SortIsSound

LEMMA SortReturn == ASSUME SortIsSound, ReturnOrdered PROVE SortIsSound'
<1>1. /\ at = "sort" /\ stack = <<>> /\ next = Len(rules) /\ at' = "evaluate"
      /\ UNCHANGED <<rules, next, stack, ordered>>
  BY DEF ReturnOrdered
<1>2. RulesAreTyped /\ LoopIsSound /\ SoundOrder(ordered, DepsOf)
  BY <1>1 DEF SortIsSound
<1>3. Codes' = Codes /\ DepsOf' = DepsOf /\ visited' = visited
  BY <1>1, SameRules DEF visited
<1>4. visited = Codes
  <2>1. DOMAIN rules = 1..next
    BY <1>1, <1>2 DEF RulesAreTyped
  <2>2. Codes \subseteq visited
    BY <1>1, <1>2, <2>1 DEF LoopIsSound, Codes
  <2>3. visited \subseteq Codes
    BY <1>2 DEF RulesAreTyped, visited, ToSet
  <2>4. QED
    BY <2>2, <2>3
<1>5. RulesAreTyped'
  BY <1>1, <1>2, <1>3 DEF RulesAreTyped
<1>6. SoundOrder(ordered, DepsOf)'
  BY <1>1, <1>2, <1>3
<1>7. QED
  BY <1>1, <1>3, <1>4, <1>5, <1>6 DEF SortIsSound

\* The evaluation leaves the order alone.
LEMMA SortStays ==
  ASSUME SortIsSound, UNCHANGED <<rules, next, stack, ordered>>,
         at' = at \/ (at = "evaluate" /\ at' \in {"evaluate", "threw", "done"})
  PROVE  SortIsSound'
<1>1. Codes' = Codes /\ DepsOf' = DepsOf /\ visited' = visited
  BY SameRules DEF visited
<1>2. RulesAreTyped'
  BY <1>1 DEF RulesAreTyped, SortIsSound
<1>3. SoundOrder(ordered, DepsOf)'
  BY <1>1 DEF SortIsSound
<1>4. at' = "sort" => SoundStack(stack, visited, DepsOf)' /\ LoopIsSound'
  BY <1>1 DEF SortIsSound, LoopIsSound
<1>5. QED
  BY <1>1, <1>2, <1>3, <1>4 DEF SortIsSound

LEMMA SortStep == SortIsSound /\ [Next]_vars => SortIsSound'
<1> SUFFICES ASSUME SortIsSound, [Next]_vars PROVE SortIsSound'
  OBVIOUS
<1>1. CASE VisitDefinition
  BY <1>1, SortDefinition
<1>2. CASE VisitDependency
  BY <1>2, SortDependency
<1>3. CASE Leave
  BY <1>3, SortLeave
<1>4. CASE ReturnOrdered
  BY <1>4, SortReturn
<1>5. CASE Evaluate \/ Raise \/ ReturnSummary \/ UNCHANGED graphVars
  BY <1>5, SortStays DEF Evaluate, Raise, ReturnSummary, graphVars
<1>6. QED
  BY <1>1, <1>2, <1>3, <1>4, <1>5 DEF Next, Rules, Dates, HeatMap, RuleNext, vars

-----------------------------------------------------------------------------
(* sortRules implements the steps of DependencyOrder *)

LEMMA DefinitionOrders ==
  ASSUME SortIsSound, VisitDefinition
  PROVE  UNCHANGED <<rules, at, ordered>>
<1>1. /\ at = "sort" /\ stack = <<>> /\ next < Len(rules)
      /\ Visit(rules[next + 1].code, stack) /\ UNCHANGED <<rules, ordered>>
  BY DEF VisitDefinition
<1>2. next + 1 \in DOMAIN rules
  BY <1>1 DEF SortIsSound, RulesAreTyped
<1>3. rules[next + 1].code \in Codes /\ visiting = {}
  BY <1>1, <1>2 DEF Codes, visiting
<1>4. QED
  BY <1>1, <1>3 DEF Visit

\* A refusal is justified: a dependency is missing, or codes wait for each other.
LEMMA DependencyOrders ==
  ASSUME SortIsSound, VisitDependency
  PROVE  /\ UNCHANGED <<rules, ordered>> /\ at = "sort"
         /\ \/ at' = at
            \/ /\ at' \in {"cycle", "missing"}
               /\ \/ \E c \in Codes : ~(Graph[c] \subseteq Codes)
                  \/ \E S \in SUBSET Codes : S # {} /\ \A c \in S : Graph[c] \cap S # {}
<1>1. PICK s, d : s = Taking /\ d = Wanted
  OBVIOUS
<1>2. /\ stack \in Seq(Frames(Codes)) /\ stack # <<>>
      /\ SoundStack(stack, visited, DepsOf)
      /\ DepsOf \in [Codes -> Seq(STRING)]
      /\ Wants(stack, DepsOf, d)
      /\ stack[Len(stack)].code \in Codes
      /\ Visit(d, s)
  BY <1>1, DependencyFacts
<1>3. at = "sort" /\ UNCHANGED <<rules, ordered>>
  BY DEF VisitDependency
<1>4. \A c \in Codes : Graph[c] = ToSet(DepsOf[c])
  BY MapIsTyped DEF Graph, SortIsSound, RulesAreTyped
<1>5. CASE d \notin visited /\ d \in visiting
  <2>1. at' = "cycle"
    BY <1>2, <1>5 DEF Visit
  <2>2. PICK j \in 1..Len(stack) : stack[j].code = d
    BY <1>2, <1>5 DEF visiting
  <2>3. Standing(Codes, DepsOf, stack)
    BY <1>2 DEF Standing
  <2>4. Circle(Codes, DepsOf)
    BY <1>2, <2>2, <2>3, CircleWaits
  <2>5. \E S \in SUBSET Codes : S # {} /\ \A c \in S : Graph[c] \cap S # {}
    BY <1>4, <2>4 DEF Circle
  <2>6. QED
    BY <1>3, <2>1, <2>5
<1>6. CASE d \notin visited \cup visiting \cup Codes
  <2>1. at' = "missing"
    BY <1>2, <1>6 DEF Visit
  <2>2. PICK c, n : /\ c \in Codes /\ c = stack[Len(stack)].code
                   /\ n = stack[Len(stack)].deps
    BY <1>2
  <2>3. n \in Nat /\ DepsOf[c] \in Seq(STRING) /\ n < Len(DepsOf[c]) /\ d = DepsOf[c][n + 1]
    BY <1>2, <2>2, FrameFacts DEF Wants
  <2>4. n + 1 \in DOMAIN DepsOf[c]
    BY <2>3
  <2>5. d \in ToSet(DepsOf[c])
    BY <2>3, <2>4 DEF ToSet
  <2>6. ~(Graph[c] \subseteq Codes)
    BY <1>4, <1>6, <2>2, <2>5
  <2>7. QED
    BY <1>3, <2>1, <2>2, <2>6
<1>7. CASE d \in visited \/ d \in Codes \ (visited \cup visiting)
  BY <1>2, <1>3, <1>7 DEF Visit
<1>8. QED
  BY <1>5, <1>6, <1>7

Verdict ==
  CASE at = "sort" -> "sorting"
    [] at \in {"cycle", "missing"} -> "refused"
    [] OTHER -> "sorted"

LEMMA OrderInit == Init => Order!Init
  BY DEF Init, RulesInit, Order!Init

LEMMA OrderStep ==
  SortIsSound /\ [Next]_vars => [Order!Next]_<<Graph, ordered, Verdict>>
<1> SUFFICES ASSUME SortIsSound, [Next]_vars
             PROVE  [Order!Next]_<<Graph, ordered, Verdict>>
  OBVIOUS
<1>1. RulesAreTyped
  BY DEF SortIsSound
<1>2. rules' = rules => Graph' = Graph
  BY SameRules DEF Graph, Deps
<1>3. DOMAIN Graph = Codes /\ Order!Placed = visited
  BY DEF Graph, Order!Placed, visited, ToSet
<1>4. CASE VisitDefinition
  BY <1>2, <1>4, DefinitionOrders DEF Verdict
<1>5. CASE VisitDependency
  <2>1. /\ UNCHANGED <<rules, ordered>> /\ at = "sort"
        /\ \/ at' = at
           \/ /\ at' \in {"cycle", "missing"}
              /\ \/ \E c \in Codes : ~(Graph[c] \subseteq Codes)
                 \/ \E S \in SUBSET Codes : S # {} /\ \A c \in S : Graph[c] \cap S # {}
    BY <1>5, DependencyOrders
  <2>2. CASE at' = at
    BY <1>2, <2>1, <2>2 DEF Verdict
  <2>3. CASE at' \in {"cycle", "missing"}
    <3>1. Order!Broken
      BY <1>3, <2>1, <2>3 DEF Order!Broken
    <3>2. Order!Refuse
      BY <1>2, <2>1, <2>3, <3>1 DEF Order!Refuse
    <3>3. QED
      BY <3>2 DEF Order!Next
  <2>4. QED
    BY <2>1, <2>2, <2>3
<1>6. CASE Leave
  <2>1. PICK c : c = Top.code
    OBVIOUS
  <2>2. /\ at = "sort" /\ ordered' = Append(ordered, c) /\ UNCHANGED <<rules, at>>
    BY <1>6, <2>1 DEF Leave
  <2>3. c \in Codes \ visited /\ Ready(c, visited, DepsOf)
        /\ DepsOf \in [Codes -> Seq(STRING)]
    BY <1>6, <2>1, LeaveFacts
  <2>4. Graph[c] = ToSet(DepsOf[c])
    BY <1>1, <2>3, MapIsTyped DEF Graph, RulesAreTyped
  <2>5. DOMAIN DepsOf[c] = 1..Len(DepsOf[c])
    BY <2>3
  <2>6. Graph[c] \subseteq visited
    BY <2>3, <2>4, <2>5 DEF Ready, ToSet
  <2>7. Order!Place(c)
    BY <1>2, <1>3, <2>2, <2>3, <2>6 DEF Order!Place
  <2>8. QED
    BY <1>3, <2>3, <2>7 DEF Order!Next
<1>7. CASE ReturnOrdered
  <2>1. at = "sort" /\ at' = "evaluate" /\ UNCHANGED <<rules, ordered>>
    BY <1>7 DEF ReturnOrdered
  <2>2. visited = Codes
    <3>1. SortIsSound'
      BY <1>7, SortReturn
    <3>2. visited' = Codes' /\ Codes' = Codes
      BY <2>1, <3>1, SameRules DEF SortIsSound
    <3>3. QED
      BY <2>1, <3>2 DEF visited
  <2>3. Order!Sort
    BY <1>2, <1>3, <2>1, <2>2 DEF Order!Sort
  <2>4. QED
    BY <2>3 DEF Order!Next
<1>8. CASE Evaluate \/ Raise \/ ReturnSummary
  <2>1. at = "evaluate" /\ at' \in {"evaluate", "threw", "done"} /\ UNCHANGED <<rules, ordered>>
    BY <1>8 DEF Evaluate, Raise, ReturnSummary
  <2>2. QED
    BY <1>2, <2>1 DEF Verdict
<1>9. CASE UNCHANGED graphVars
  BY <1>2, <1>9 DEF Verdict, graphVars
<1>10. QED
  BY <1>4, <1>5, <1>6, <1>7, <1>8, <1>9 DEF Next, Rules, Dates, HeatMap, RuleNext, vars

\* sortRules does what DependencyOrder says, step by step, for any definitions: it places
\* each code once and after its dependencies, and refuses only graphs with a dependency
\* missing or codes that wait for each other.
THEOREM SortImplementsOrder == Spec => Order!Steps
<1>1. Init => Order!Init
  BY OrderInit
<1>2. SortIsSound /\ [Next]_vars => [Order!Next]_<<Graph, ordered, Verdict>>
  BY OrderStep
<1>3. QED
  BY <1>1, <1>2, SortInit, SortStep, PTL DEF Spec, Order!Steps, Verdict

-----------------------------------------------------------------------------
(* The evaluation *)

Results == {"pass", "warn", "fail"}

Fires(r, out) ==
  \/ r.expression = "fires"
  \/ r.expression \in ToSet(r.dependencies) /\ out[r.expression] = "fail"

ResultOf(r, out) == IF Fires(r, out) THEN r.severity ELSE "pass"

\* The first n codes of the order o, defined by M, have their final results.
SoundResults(out, o, n, M) ==
  /\ DOMAIN out = {o[i] : i \in 1..n}
  /\ \A i \in 1..n : out[o[i]] \in Results /\ out[o[i]] = ResultOf(M[o[i]], out)

Bad(out, r) == {c \in DOMAIN out : out[c] = r}

Worst(out) ==
  IF Bad(out, "fail") # {} THEN "fail" ELSE IF Bad(out, "warn") # {} THEN "warn" ELSE "pass"

\* The findings f are codes that did not pass, in the order o.
SoundFindings(f, out, o, n) ==
  /\ ToSet(f) = Bad(out, "fail") \cup Bad(out, "warn")
  /\ \A i, j \in 1..Len(f) :
       i < j => \E k, l \in 1..n : k < l /\ o[k] = f[i] /\ o[l] = f[j]

EvaluationIsSound ==
  /\ at \in {"sort", "cycle", "missing"} =>
       outcomes = <<>> /\ findings = <<>> /\ aggregate = "pass"
  /\ at \in {"evaluate", "threw", "done"} =>
       \E n \in 0..Len(ordered) :
         /\ Cardinality(DOMAIN outcomes) = n /\ IsFiniteSet(DOMAIN outcomes)
         /\ SoundResults(outcomes, ordered, n, definitionMap)
         /\ aggregate = Worst(outcomes)
         /\ findings \in Seq(Codes) /\ SoundFindings(findings, outcomes, ordered, n)
         /\ at = "done" => n = Len(ordered)

LEMMA WorstIsKept ==
  ASSUME NEW a \in Results, NEW b \in Results
  PROVE  normalizeResult(a, b) =
           IF "fail" \in {a, b} THEN "fail" ELSE IF "warn" \in {a, b} THEN "warn" ELSE "pass"
  BY DEF normalizeResult, Results

LEMMA EvaluationInit == Init => EvaluationIsSound
  BY DEF Init, RulesInit, EvaluationIsSound

LEMMA NothingEvaluated ==
  ASSUME NEW o, NEW M
  PROVE  /\ SoundResults(<<>>, o, 0, M) /\ Worst(<<>>) = "pass"
         /\ SoundFindings(<<>>, <<>>, o, 0)
         /\ Cardinality(DOMAIN <<>>) = 0 /\ IsFiniteSet(DOMAIN <<>>)
<1>1. DOMAIN <<>> = {} /\ ToSet(<<>>) = {}
  BY DEF ToSet
<1>2. \A r : Bad(<<>>, r) = {}
  BY <1>1 DEF Bad
<1>3. IsFiniteSet(DOMAIN <<>>) /\ Cardinality(DOMAIN <<>>) = 0
  BY <1>1, FS_EmptySet
<1>4. SoundResults(<<>>, o, 0, M)
  BY <1>1 DEF SoundResults
<1>5. QED
  BY <1>1, <1>2, <1>3, <1>4 DEF Worst, SoundFindings

LEMMA EvaluationReturn ==
  ASSUME SortIsSound, EvaluationIsSound, ReturnOrdered
  PROVE  EvaluationIsSound'
<1>1. /\ at = "sort" /\ at' = "evaluate"
      /\ UNCHANGED <<rules, ordered, outcomes, aggregate, findings>>
  BY DEF ReturnOrdered
<1>2. outcomes = <<>> /\ findings = <<>> /\ aggregate = "pass"
  BY <1>1 DEF EvaluationIsSound
<1>3. 0 \in 0..Len(ordered') /\ findings' \in Seq(Codes')
  BY <1>1, <1>2 DEF SortIsSound, RulesAreTyped
<1>4. /\ SoundResults(<<>>, ordered', 0, definitionMap') /\ Worst(<<>>) = "pass"
      /\ SoundFindings(<<>>, <<>>, ordered', 0)
      /\ Cardinality(DOMAIN <<>>) = 0 /\ IsFiniteSet(DOMAIN <<>>)
  BY NothingEvaluated
<1>5. QED
  BY <1>1, <1>2, <1>3, <1>4 DEF EvaluationIsSound

\* M maps the codes C to definitions with the dependencies D.
Mapped(C, M, D) ==
  /\ M \in [C -> Definition] /\ D \in [C -> Seq(STRING)]
  /\ \A c \in C : M[c].dependencies = D[c]

\* The turn of the code e, the m-th of the order o, after n turns.
Turn(o, n, m, e) == n < Len(o) /\ m = n + 1 /\ e = o[n + 1]

Decided(M, out, e, s) == s = IF Triggered(M[e], out) THEN M[e].severity ELSE "pass"

Extended(out, e, s, out2) ==
  out2 = [c \in DOMAIN out \cup {e} |-> IF c = e THEN s ELSE out[c]]

BadGrows(out, e, s, out2) ==
  \A r : Bad(out2, r) = IF s = r THEN Bad(out, r) \cup {e} ELSE Bad(out, r)

Noted(f, e, s, g) == g = f \o IF s = "pass" THEN <<>> ELSE <<e>>

\* Another code in its place: out2 gives it the result s, which its rule has from the
\* results of its dependencies.
LEMMA ResultsGrow ==
  ASSUME NEW C, NEW M, NEW D, Mapped(C, M, D), NEW o \in Seq(C), SoundOrder(o, D),
         NEW n \in Nat, NEW m, NEW e, Turn(o, n, m, e), NEW out, SoundResults(out, o, n, M),
         NEW s, Decided(M, out, e, s), NEW out2, Extended(out, e, s, out2)
  PROVE  SoundResults(out2, o, m, M) /\ s \in Results /\ e \notin DOMAIN out
<1> USE DEF Mapped, Turn, Decided, Extended
<1>1. DOMAIN out = {o[i] : i \in 1..n}
  BY DEF SoundResults
<1>2. /\ Len(o) \in Nat /\ n + 1 \in 1..Len(o) /\ n + 1 \in 1..(n + 1)
      /\ \A i \in 1..(n + 1) : o[i] \in C
  OBVIOUS
<1>3. e = o[n + 1] /\ m = n + 1
  OBVIOUS
<1>4. e \in C /\ e \notin DOMAIN out
  <2>1. \A j \in 1..n : o[j] # o[n + 1]
    BY <1>2 DEF SoundOrder
  <2>2. QED
    BY <1>1, <1>2, <1>3, <2>1
<1>5. ASSUME NEW i \in 1..(n + 1)
      PROVE \A x \in ToSet(M[o[i]].dependencies) : \E j \in 1..(i - 1) : o[j] = x
  <2>1. i \in 1..Len(o) /\ o[i] \in C
    BY <1>2
  <2>2. D[o[i]] \in Seq(STRING) /\ M[o[i]].dependencies = D[o[i]]
    BY <2>1
  <2>3. DOMAIN D[o[i]] = 1..Len(D[o[i]])
    BY <2>2
  <2>4. \A k \in 1..Len(D[o[i]]) : \E j \in 1..(i - 1) : o[j] = D[o[i]][k]
    BY <2>1 DEF SoundOrder
  <2>5. PICK d : d = D[o[i]]
    OBVIOUS
  <2>6. ToSet(d) = {d[k] : k \in 1..Len(d)}
    BY <2>3, <2>5 DEF ToSet
  <2>7. \A k \in 1..Len(d) : \E j \in 1..(i - 1) : o[j] = d[k]
    BY <2>4, <2>5
  <2>8. ASSUME NEW x \in ToSet(d) PROVE \E j \in 1..(i - 1) : o[j] = x
    <3>1. PICK k \in 1..Len(d) : x = d[k]
      BY <2>6
    <3>2. QED
      BY <2>7, <3>1
  <2>9. QED
    BY <2>2, <2>5, <2>8
<1>6. ASSUME NEW i \in 1..(n + 1) PROVE Fires(M[o[i]], out2) <=> Fires(M[o[i]], out)
  <2>1. \A j \in 1..(i - 1) : o[j] \in DOMAIN out
    BY <1>1
  <2>2. ToSet(M[o[i]].dependencies) \subseteq DOMAIN out
    BY <1>5, <2>1
  <2>3. \A x \in DOMAIN out : out2[x] = out[x]
    BY <1>3, <1>4
  <2>4. QED
    BY <2>2, <2>3 DEF Fires
<1>7. M[e] \in Definition /\ M[e].severity \in {"warn", "fail"}
  BY <1>4 DEF Definition
<1>8. s = ResultOf(M[e], out2) /\ s \in Results
  <2>1. ToSet(M[e].dependencies) \subseteq DOMAIN out
    <3>1. PICK l \in 1..(n + 1) : l = n + 1
      BY <1>2
    <3>2. \A x \in ToSet(M[o[l]].dependencies) : \E j \in 1..(l - 1) : o[j] = x
      BY <1>5
    <3>3. l - 1 = n /\ e = o[l]
      BY <1>3, <3>1
    <3>4. \A x \in ToSet(M[e].dependencies) : \E j \in 1..n : o[j] = x
      BY <3>2, <3>3
    <3>5. QED
      BY <1>1, <3>4
  <2>2. Triggered(M[e], out) <=> Fires(M[e], out)
    BY <2>1 DEF Triggered, Fires
  <2>3. Fires(M[e], out2) <=> Fires(M[e], out)
    BY <1>2, <1>3, <1>6
  <2>4. QED
    BY <1>3, <1>7, <2>2, <2>3 DEF ResultOf, Results
<1>9. DOMAIN out2 = {o[i] : i \in 1..(n + 1)}
  <2>1. DOMAIN out2 = DOMAIN out \cup {e}
    BY <1>3
  <2>2. \A i : i \in 1..(n + 1) <=> i \in 1..n \/ i = n + 1
    OBVIOUS
  <2>3. QED
    BY <1>1, <1>3, <2>1, <2>2
<1>10. ASSUME NEW i \in 1..(n + 1)
       PROVE out2[o[i]] \in Results /\ out2[o[i]] = ResultOf(M[o[i]], out2)
  <2>1. CASE i = n + 1
    <3>1. out2[e] = s
      BY <1>3
    <3>2. QED
      BY <1>3, <1>8, <2>1, <3>1
  <2>2. CASE i \in 1..n
    <3>1. out2[o[i]] = out[o[i]]
      BY <1>1, <1>3, <1>4, <2>2
    <3>2. out[o[i]] \in Results /\ out[o[i]] = ResultOf(M[o[i]], out)
      BY <2>2 DEF SoundResults
    <3>3. QED
      BY <1>6, <3>1, <3>2 DEF ResultOf
  <2>3. QED
    BY <2>1, <2>2
<1>11. QED
  BY <1>3, <1>4, <1>8, <1>9, <1>10 DEF SoundResults

\* The result s of another code e, not in out, makes the aggregate and the findings grow.
LEMMA WorstGrows ==
  ASSUME NEW out, NEW o, NEW n, NEW M, SoundResults(out, o, n, M), NEW e, e \notin DOMAIN out,
         NEW s \in Results, NEW out2, Extended(out, e, s, out2)
  PROVE  Worst(out2) = normalizeResult(Worst(out), s) /\ BadGrows(out, e, s, out2)
<1> USE DEF Extended, BadGrows
<1>1. ASSUME NEW r PROVE Bad(out2, r) = IF s = r THEN Bad(out, r) \cup {e} ELSE Bad(out, r)
  BY DEF Bad
<1>2. Worst(out) \in Results
  BY DEF Worst, Results
<1>3. normalizeResult(Worst(out), s) =
        IF "fail" \in {Worst(out), s} THEN "fail"
        ELSE IF "warn" \in {Worst(out), s} THEN "warn" ELSE "pass"
  BY <1>2, WorstIsKept
<1>4. Bad(out2, "fail") # {} <=> s = "fail" \/ Bad(out, "fail") # {}
  BY <1>1
<1>5. Bad(out2, "warn") # {} <=> s = "warn" \/ Bad(out, "warn") # {}
  BY <1>1
<1>6. QED
  BY <1>1, <1>3, <1>4, <1>5 DEF Worst, Results

LEMMA FindingsGrow ==
  ASSUME NEW C, NEW f \in Seq(C), NEW out, NEW o, NEW n \in Nat,
         NEW M, SoundResults(out, o, n, M), SoundFindings(f, out, o, n),
         NEW m, NEW e \in C, Turn(o, n, m, e), NEW s \in Results,
         NEW out2, BadGrows(out, e, s, out2), NEW g, Noted(f, e, s, g)
  PROVE  g \in Seq(C) /\ SoundFindings(g, out2, o, m)
<1> USE DEF Turn, BadGrows, Noted
<1>1. /\ ToSet(f) = Bad(out, "fail") \cup Bad(out, "warn")
      /\ \A i, j \in 1..Len(f) :
           i < j => \E k, l \in 1..n : k < l /\ o[k] = f[i] /\ o[l] = f[j]
  BY DEF SoundFindings
<1>2. n \in 1..(n + 1) \/ n = 0
  OBVIOUS
<1>3. \A k \in 1..n : k \in 1..(n + 1)
  OBVIOUS
<1>4. CASE s = "pass"
  <2>1. g = f
    BY <1>4
  <2>2. Bad(out2, "fail") = Bad(out, "fail") /\ Bad(out2, "warn") = Bad(out, "warn")
    BY <1>4
  <2>3. \A i, j \in 1..Len(f) :
          i < j => \E k, l \in 1..(n + 1) : k < l /\ o[k] = f[i] /\ o[l] = f[j]
    BY <1>1, <1>3
  <2>4. SoundFindings(f, out2, o, n + 1)
    BY <1>1, <2>2, <2>3 DEF SoundFindings
  <2>5. QED
    BY <2>1, <2>4
<1>5. CASE s # "pass"
  <2>1. /\ g \in Seq(C) /\ Len(g) = Len(f) + 1 /\ g[Len(f) + 1] = e
        /\ \A i \in 1..Len(f) : g[i] = f[i]
        /\ Len(f) \in Nat
    <3>1. g = f \o <<e>> /\ <<e>> \in Seq(C) /\ Len(<<e>>) = 1 /\ <<e>>[1] = e
      BY <1>5
    <3>2. PICK h \in Seq(C) : h = <<e>>
      BY <3>1
    <3>3. g = f \o h /\ Len(h) = 1 /\ h[1] = e
      BY <3>1, <3>2
    <3>4. /\ f \o h \in Seq(C) /\ Len(f \o h) = Len(f) + Len(h)
          /\ \A i \in 1..(Len(f) + Len(h)) :
               (f \o h)[i] = IF i <= Len(f) THEN f[i] ELSE h[i - Len(f)]
      BY ConcatProperties
    <3>5. Len(f) \in Nat
      OBVIOUS
    <3>6. /\ g \in Seq(C) /\ Len(g) = Len(f) + 1
          /\ \A i \in 1..(Len(f) + 1) : g[i] = IF i <= Len(f) THEN f[i] ELSE h[i - Len(f)]
      BY <3>3, <3>4
    <3>7. Len(f) + 1 \in 1..(Len(f) + 1) /\ Len(f) + 1 - Len(f) = 1 /\ ~(Len(f) + 1 <= Len(f))
      BY <3>5
    <3>8. QED
      BY <3>3, <3>5, <3>6, <3>7
  <2>2. Bad(out2, "fail") \cup Bad(out2, "warn") = ToSet(f) \cup {e}
    BY <1>1, <1>5 DEF Results
  <2>3. ToSet(g) = ToSet(f) \cup {e}
    <3>1. DOMAIN f = 1..Len(f)
      OBVIOUS
    <3>2. DOMAIN g = 1..Len(g)
      BY <2>1
    <3>3. ToSet(f) = {f[i] : i \in 1..Len(f)} /\ ToSet(g) = {g[i] : i \in 1..Len(g)}
      BY <3>1, <3>2 DEF ToSet
    <3>4. \A i : i \in 1..Len(g) <=> i \in 1..Len(f) \/ i = Len(f) + 1
      BY <2>1
    <3>5. ASSUME NEW x \in ToSet(g) PROVE x \in ToSet(f) \cup {e}
      <4>1. PICK i \in 1..Len(g) : x = g[i]
        BY <3>3
      <4>2. CASE i \in 1..Len(f)
        BY <2>1, <3>3, <4>1, <4>2
      <4>3. CASE i = Len(f) + 1
        BY <2>1, <4>1, <4>3
      <4>4. QED
        BY <3>4, <4>2, <4>3
    <3>6. ASSUME NEW x \in ToSet(f) PROVE x \in ToSet(g)
      BY <2>1, <3>3, <3>4
    <3>7. e \in ToSet(g)
      BY <2>1, <3>3, <3>4
    <3>8. QED
      BY <3>5, <3>6, <3>7
  <2>4. ASSUME NEW i \in 1..Len(g), NEW j \in 1..Len(g), i < j
        PROVE  \E k, l \in 1..(n + 1) : k < l /\ o[k] = g[i] /\ o[l] = g[j]
    <3>1. i \in 1..Len(f) /\ (j \in 1..Len(f) \/ j = Len(f) + 1)
      BY <2>1, <2>4
    <3>2. CASE j \in 1..Len(f)
      <4>1. PICK k, l \in 1..n : k < l /\ o[k] = f[i] /\ o[l] = f[j]
        BY <1>1, <2>4, <3>1, <3>2
      <4>2. QED
        BY <1>3, <2>1, <3>1, <3>2, <4>1
    <3>3. CASE j = Len(f) + 1
      <4>1. f[i] \in ToSet(f)
        BY <3>1 DEF ToSet
      <4>2. f[i] \in DOMAIN out
        BY <1>1, <4>1 DEF Bad
      <4>3. PICK k \in 1..n : o[k] = f[i]
        BY <4>2 DEF SoundResults
      <4>4. k \in 1..(n + 1) /\ n + 1 \in 1..(n + 1) /\ k < n + 1
        OBVIOUS
      <4>5. g[i] = f[i] /\ g[j] = o[n + 1]
        BY <2>1, <3>1, <3>3
      <4>6. QED
        BY <4>3, <4>4, <4>5
    <3>4. QED
      BY <3>1, <3>2, <3>3
  <2>5. PICK l : l = n + 1
    OBVIOUS
  <2>6. \A i, j \in 1..Len(g) :
          i < j => \E k, h \in 1..l : k < h /\ o[k] = g[i] /\ o[h] = g[j]
    BY <2>4, <2>5
  <2>7. SoundFindings(g, out2, o, l)
    BY <2>2, <2>3, <2>6 DEF SoundFindings
  <2>8. QED
    BY <2>1, <2>5, <2>7
<1>6. QED
  BY <1>4, <1>5

LEMMA EvaluateGrows ==
  ASSUME SortIsSound, EvaluationIsSound, Evaluate
  PROVE  EvaluationIsSound'
<1>1. /\ at = "evaluate" /\ Cardinality(DOMAIN outcomes) < Len(ordered)
      /\ UNCHANGED <<rules, at, ordered>>
  BY DEF Evaluate
<1>2. PICK n \in 0..Len(ordered) :
        /\ Cardinality(DOMAIN outcomes) = n /\ IsFiniteSet(DOMAIN outcomes)
        /\ SoundResults(outcomes, ordered, n, definitionMap)
        /\ aggregate = Worst(outcomes)
        /\ findings \in Seq(Codes) /\ SoundFindings(findings, outcomes, ordered, n)
  BY <1>1 DEF EvaluationIsSound
<1>3. /\ ordered \in Seq(Codes) /\ SoundOrder(ordered, DepsOf) /\ rules \in Seq(Definition)
  BY DEF SortIsSound, RulesAreTyped
<1>4. n \in Nat /\ n < Len(ordered) /\ n + 1 \in 0..Len(ordered)
  BY <1>1, <1>2, <1>3
<1>5. /\ definitionMap \in [Codes -> Definition]
      /\ \A c \in Codes : definitionMap[c].code = c /\ DepsOf[c] = definitionMap[c].dependencies
      /\ DepsOf \in [Codes -> Seq(STRING)]
  BY <1>3, MapIsTyped DEF Deps
<1>6. PICK m, e : Turn(ordered, n, m, e) /\ m = n + 1 /\ e = ordered[n + 1]
  BY <1>4 DEF Turn
<1>7. e \in Codes
  BY <1>3, <1>4, <1>6
<1>8. Rule = definitionMap[e] /\ Rule.code = e
  BY <1>2, <1>5, <1>6, <1>7 DEF Rule
<1>9. PICK s : Decided(definitionMap, outcomes, e, s)
  BY DEF Decided
<1>10. PICK a, out2, g : a = aggregate' /\ out2 = outcomes' /\ g = findings'
  OBVIOUS
<1>11. /\ Extended(outcomes, e, s, out2) /\ Noted(findings, e, s, g)
       /\ a = normalizeResult(aggregate, s)
  BY <1>8, <1>9, <1>10 DEF Evaluate, Decided, Extended, Noted
<1>12. /\ SoundResults(out2, ordered, m, definitionMap) /\ s \in Results
       /\ e \notin DOMAIN outcomes
  <2>1. Mapped(Codes, definitionMap, DepsOf)
    BY <1>5 DEF Mapped
  <2>2. QED
    BY <1>2, <1>3, <1>4, <1>6, <1>9, <1>11, <2>1, ResultsGrow
<1>13. Worst(out2) = normalizeResult(Worst(outcomes), s) /\ BadGrows(outcomes, e, s, out2)
  BY <1>2, <1>11, <1>12, WorstGrows
<1>14. g \in Seq(Codes) /\ SoundFindings(g, out2, ordered, m)
  BY <1>2, <1>4, <1>6, <1>7, <1>11, <1>12, <1>13, FindingsGrow
<1>15. a = Worst(out2)
  BY <1>2, <1>11, <1>13
<1>16. IsFiniteSet(DOMAIN out2) /\ Cardinality(DOMAIN out2) = m
  <2>1. DOMAIN out2 = DOMAIN outcomes \cup {e}
    BY <1>11 DEF Extended
  <2>2. PICK d : d = DOMAIN outcomes
    OBVIOUS
  <2>3. IsFiniteSet(d) /\ Cardinality(d) = n /\ e \notin d
    BY <1>2, <1>12, <2>2
  <2>4. IsFiniteSet(d \cup {e}) /\ Cardinality(d \cup {e}) = Cardinality(d) + 1
    BY <2>3, FS_AddElement
  <2>5. QED
    BY <1>6, <2>1, <2>2, <2>3, <2>4
<1>17. Codes' = Codes /\ definitionMap' = definitionMap
  BY <1>1, SameRules
<1>18. QED
  BY <1>1, <1>4, <1>6, <1>10, <1>12, <1>14, <1>15, <1>16, <1>17 DEF EvaluationIsSound

\* Before the evaluation there is nothing, and afterwards nothing is added.
LEMMA EvaluationStays ==
  ASSUME SortIsSound, EvaluationIsSound, UNCHANGED <<rules, outcomes, aggregate, findings>>,
         \/ at = "sort" /\ at' \in {"sort", "cycle", "missing"}
         \/ /\ UNCHANGED ordered
            /\ \/ at' = at
               \/ at = "evaluate" /\ at' = "threw"
               \/ /\ at = "evaluate" /\ at' = "done"
                  /\ Cardinality(DOMAIN outcomes) = Len(ordered)
  PROVE  EvaluationIsSound'
<1>1. Codes' = Codes /\ definitionMap' = definitionMap
  BY SameRules
<1>2. at \in {"sort", "evaluate", "cycle", "missing", "threw", "done"}
  BY DEF SortIsSound, RulesAreTyped
<1>3. QED
  BY <1>1, <1>2 DEF EvaluationIsSound

LEMMA EvaluationStep == SortIsSound /\ EvaluationIsSound /\ [Next]_vars => EvaluationIsSound'
<1> SUFFICES ASSUME SortIsSound, EvaluationIsSound, [Next]_vars PROVE EvaluationIsSound'
  OBVIOUS
<1>1. CASE VisitDefinition
  <2>1. /\ UNCHANGED <<rules, outcomes, aggregate, findings>>
        /\ at = "sort" /\ at' = at
    BY <1>1, DefinitionOrders DEF VisitDefinition
  <2>2. QED
    BY <2>1, EvaluationStays
<1>2. CASE VisitDependency
  <2>1. /\ UNCHANGED <<rules, outcomes, aggregate, findings>>
        /\ at = "sort" /\ at' \in {"sort", "cycle", "missing"}
    BY <1>2, DependencyOrders DEF VisitDependency
  <2>2. QED
    BY <2>1, EvaluationStays
<1>3. CASE Leave
  BY <1>3, EvaluationStays DEF Leave
<1>4. CASE ReturnOrdered
  BY <1>4, EvaluationReturn
<1>5. CASE Evaluate
  BY <1>5, EvaluateGrows
<1>6. CASE Raise
  BY <1>6, EvaluationStays DEF Raise
<1>7. CASE ReturnSummary
  BY <1>7, EvaluationStays DEF ReturnSummary
<1>8. CASE UNCHANGED graphVars
  BY <1>8, EvaluationStays DEF graphVars
<1>9. QED
  BY <1>1, <1>2, <1>3, <1>4, <1>5, <1>6, <1>7, <1>8
     DEF Next, Rules, Dates, HeatMap, RuleNext, vars

\* The evaluation is over: what is in the table and in the findings.
LEMMA EvaluatedAll ==
  ASSUME SortIsSound, EvaluationIsSound, at = "done"
  PROVE  /\ DOMAIN outcomes = Codes
         /\ \A c \in Codes : /\ outcomes[c] \in Results
                             /\ outcomes[c] = ResultOf(definitionMap[c], outcomes)
         /\ aggregate = Worst(outcomes)
         /\ ordered \in Seq(Codes) /\ SoundOrder(ordered, DepsOf)
         /\ findings \in Seq(Codes)
         /\ SoundFindings(findings, outcomes, ordered, Len(ordered))
<1>1. /\ SoundResults(outcomes, ordered, Len(ordered), definitionMap)
      /\ aggregate = Worst(outcomes) /\ findings \in Seq(Codes)
      /\ SoundFindings(findings, outcomes, ordered, Len(ordered))
  BY DEF EvaluationIsSound
<1>2. /\ ordered \in Seq(Codes) /\ SoundOrder(ordered, DepsOf) /\ visited = Codes
  BY DEF SortIsSound, RulesAreTyped
<1>3. DOMAIN ordered = 1..Len(ordered)
  BY <1>2
<1>4. Codes = {ordered[i] : i \in 1..Len(ordered)}
  BY <1>2, <1>3 DEF visited, ToSet
<1>5. DOMAIN outcomes = Codes
  BY <1>1, <1>4 DEF SoundResults
<1>6. ASSUME NEW c \in Codes
      PROVE outcomes[c] \in Results /\ outcomes[c] = ResultOf(definitionMap[c], outcomes)
  <2>1. PICK i \in 1..Len(ordered) : ordered[i] = c
    BY <1>4
  <2>2. QED
    BY <1>1, <2>1 DEF SoundResults
<1>7. QED
  BY <1>1, <1>2, <1>5, <1>6

LEMMA EvaluationIsRight == SortIsSound /\ EvaluationIsSound => EvaluationAgrees
<1> SUFFICES ASSUME SortIsSound, EvaluationIsSound, at = "done" PROVE EvaluationAgrees
  BY DEF EvaluationAgrees
<1> DEFINE bad(s) == {c \in Codes : outcomes[c] = s}
<1>1. /\ DOMAIN outcomes = Codes
      /\ \A c \in Codes : /\ outcomes[c] \in Results
                          /\ outcomes[c] = ResultOf(definitionMap[c], outcomes)
      /\ aggregate = Worst(outcomes)
      /\ ordered \in Seq(Codes) /\ SoundOrder(ordered, DepsOf)
      /\ findings \in Seq(Codes)
      /\ SoundFindings(findings, outcomes, ordered, Len(ordered))
  BY EvaluatedAll
<1>2. \A s : bad(s) = Bad(outcomes, s)
  BY <1>1 DEF Bad
<1>3. /\ rules \in Seq(Definition) /\ DepsOf \in [Codes -> Seq(STRING)]
      /\ \A c \in Codes : DepsOf[c] = definitionMap[c].dependencies /\ DepsOf[c] = Deps(c)
  BY MapIsTyped DEF SortIsSound, RulesAreTyped, Deps
<1>4. ASSUME NEW i \in DOMAIN rules, \A j \in DOMAIN rules : j > i => rules[j].code # rules[i].code
      PROVE outcomes[rules[i].code] =
              IF \/ rules[i].expression = "fires"
                 \/ \E d \in Graph[rules[i].code] :
                      rules[i].expression = d /\ outcomes[d] = "fail"
              THEN rules[i].severity ELSE "pass"
  <2>1. PICK c : c = rules[i].code
    OBVIOUS
  <2>2. c \in Codes
    BY <2>1 DEF Codes
  <2>3. IsLast(i)
    BY <1>3, <1>4 DEF IsLast
  <2>4. definitionMap[c] = rules[i]
    BY <1>3, <2>1, <2>3, LastIsKept
  <2>5. Graph[c] = ToSet(rules[i].dependencies)
    BY <2>2, <2>4 DEF Graph, Deps
  <2>6. Fires(rules[i], outcomes) <=>
          \/ rules[i].expression = "fires"
          \/ \E d \in Graph[c] : rules[i].expression = d /\ outcomes[d] = "fail"
    BY <2>5 DEF Fires
  <2>7. outcomes[c] = ResultOf(rules[i], outcomes)
    BY <1>1, <2>2, <2>4
  <2>8. QED
    BY <2>1, <2>6, <2>7 DEF ResultOf
<1>5. aggregate = IF bad("fail") # {} THEN "fail"
                  ELSE IF bad("warn") # {} THEN "warn" ELSE "pass"
  BY <1>1, <1>2 DEF Worst
<1>6. ToSet(findings) = bad("fail") \cup bad("warn")
  BY <1>1, <1>2 DEF SoundFindings
<1>7. ASSUME NEW i \in DOMAIN findings, NEW j \in DOMAIN findings, i < j
      PROVE findings[i] # findings[j] /\ findings[j] \notin Graph[findings[i]]
  <2>1. DOMAIN findings = 1..Len(findings) /\ Len(ordered) \in Nat
    BY <1>1
  <2>2. PICK k, l \in 1..Len(ordered) :
          k < l /\ ordered[k] = findings[i] /\ ordered[l] = findings[j]
    <3>1. PICK a, b : a = i /\ b = j
      OBVIOUS
    <3>2. a \in 1..Len(findings) /\ b \in 1..Len(findings) /\ a < b
      BY <1>7, <2>1, <3>1
    <3>3. \A x, y \in 1..Len(findings) :
            x < y => \E k, l \in 1..Len(ordered) :
                       k < l /\ ordered[k] = findings[x] /\ ordered[l] = findings[y]
      BY <1>1 DEF SoundFindings
    <3>4. QED
      BY <3>1, <3>2, <3>3
  <2>3. PICK c : c = ordered[k]
    OBVIOUS
  <2>4. /\ \A h \in 1..(l - 1) : ordered[h] # ordered[l]
        /\ \A h \in 1..Len(DepsOf[c]) : \E m \in 1..(k - 1) : ordered[m] = DepsOf[c][h]
    <3>1. \A h \in 1..(l - 1) : ordered[h] # ordered[l]
      BY <1>1, <2>2 DEF SoundOrder
    <3>2. \A h \in 1..Len(DepsOf[ordered[k]]) :
            \E m \in 1..(k - 1) : ordered[m] = DepsOf[ordered[k]][h]
      BY <1>1, <2>2 DEF SoundOrder
    <3>3. QED
      BY <2>3, <3>1, <3>2
  <2>5. c # ordered[l] /\ c \in Codes
    BY <1>1, <2>1, <2>2, <2>3, <2>4
  <2>6. Graph[c] = ToSet(DepsOf[c]) /\ DOMAIN DepsOf[c] = 1..Len(DepsOf[c])
    BY <1>3, <2>5 DEF Graph
  <2>7. ASSUME ordered[l] \in Graph[c] PROVE FALSE
    <3>1. PICK h \in 1..Len(DepsOf[c]) : DepsOf[c][h] = ordered[l]
      BY <2>6, <2>7 DEF ToSet
    <3>2. PICK m \in 1..(k - 1) : ordered[m] = ordered[l]
      BY <2>4, <3>1
    <3>3. m \in 1..(l - 1)
      BY <2>1, <2>2
    <3>4. QED
      BY <2>4, <3>2, <3>3
  <2>8. QED
    BY <2>2, <2>3, <2>5, <2>7
<1>8. QED
  BY <1>1, <1>4, <1>5, <1>6, <1>7 DEF EvaluationAgrees

\* Whatever the definitions and their order, an evaluation that comes to its end has
\* given every code the result of its last definition on the final results of its
\* dependencies, and its summary is the worst of its findings, which are in order.
THEOREM EvaluationAgreeing == Spec => []EvaluationAgrees
<1>1. SortIsSound /\ EvaluationIsSound /\ [Next]_vars => EvaluationIsSound'
  BY EvaluationStep
<1>2. QED
  BY <1>1, SortInit, SortStep, EvaluationInit, EvaluationIsRight, PTL DEF Spec

-----------------------------------------------------------------------------
(* The calendar of all years *)

\* The first of March of the year y, as DayOf counts days.
Zero(y) == 365 * y + (y \div 4) - (y \div 100) + (y \div 400) - 719468

LEMMA YearLength ==
  ASSUME NEW y \in Int
  PROVE  Zero(y) \in Int /\ Zero(y) - Zero(y - 1) \in {365, 366}
  BY SMT DEF Zero

LEMMA YearsApart ==
  ASSUME NEW y \in Int, NEW z \in Int, y < z
  PROVE  Zero(z) >= Zero(y) + 365
  BY SMT DEF Zero

LEMMA MonthStarts ==
  ASSUME NEW y \in Int, NEW day \in Int
  PROVE  /\ DayOf(y, 1, day) = Zero(y - 1) + 305 + day
         /\ DayOf(y, 2, day) = Zero(y - 1) + 336 + day
         /\ DayOf(y, 5, day) = Zero(y) + 60 + day
         /\ DayOf(y, 6, day) = Zero(y) + 91 + day
         /\ DayOf(y, 7, day) = Zero(y) + 121 + day
         /\ DayOf(y, 9, day) = Zero(y) + 183 + day
         /\ DayOf(y, 10, day) = Zero(y) + 213 + day
         /\ DayOf(y, 11, day) = Zero(y) + 244 + day
         /\ DayOf(y, 12, day) = Zero(y) + 274 + day
  BY SMT DEF DayOf, Zero

\* The date d is in the year y.
InYear(d, y) == DayOf(y, 1, 1) <= d /\ d < DayOf(y + 1, 1, 1)

LEMMA InYearIs ==
  ASSUME NEW y \in Int, NEW d \in Int
  PROVE  InYear(d, y) <=> Zero(y - 1) + 306 <= d /\ d < Zero(y) + 306
<1>1. ASSUME NEW a \in Int PROVE DayOf(a, 1, 1) = Zero(a - 1) + 306
  <2>1. PICK day \in Int : day = 1
    OBVIOUS
  <2>2. DayOf(a, 1, day) = Zero(a - 1) + 305 + day
    BY MonthStarts
  <2>3. Zero(a - 1) \in Int
    BY SMT DEF Zero
  <2>4. QED
    BY <2>1, <2>2, <2>3
<1>2. PICK z \in Int : z = y + 1 /\ z - 1 = y
  OBVIOUS
<1>3. DayOf(z, 1, 1) = Zero(z - 1) + 306
  BY <1>1
<1>4. QED
  BY <1>1, <1>2, <1>3 DEF InYear

LEMMA OneYear ==
  ASSUME NEW d \in Int, NEW y \in Int, InYear(d, y), NEW z \in Int, InYear(d, z)
  PROVE  y = z
<1>1. \A a \in Int : Zero(a) \in Int
  BY SMT DEF Zero
<1>2. ASSUME NEW a \in Int, NEW b \in Int, InYear(d, a), InYear(d, b) PROVE ~(a < b)
  <2>1. SUFFICES ASSUME a < b PROVE FALSE
    OBVIOUS
  <2>2. PICK c \in Int : c = b - 1
    OBVIOUS
  <2>3. d < Zero(a) + 306 /\ Zero(c) + 306 <= d
    BY <1>2, <2>2, InYearIs
  <2>4. a = c \/ Zero(c) >= Zero(a) + 365
    BY <2>1, <2>2, YearsApart
  <2>5. QED
    BY <1>1, <2>3, <2>4
<1>3. QED
  BY <1>2

\* Every date is in a year: the last one that has begun.
LEMMA SomeYear == ASSUME NEW d \in Int PROVE \E y \in Int : InYear(d, y)
<1>1. \A a \in Int : Zero(a) \in Int
  BY SMT DEF Zero
<1> DEFINE far == IF d > 0 THEN d ELSE -d
           T == {k \in Nat : Zero(3000 + far - k) + 306 <= d}
<1>2. far \in Nat /\ far >= d /\ far >= -d
  OBVIOUS
<1> HIDE DEF far
<1>3. T # {}
  <2>1. PICK k \in Nat : k = 6000 + 2 * far
    BY <1>2
  <2>2. PICK a \in Int : a = 3000 + far - k /\ a = -(3000 + far)
    BY <1>2, <2>1
  <2>3. Zero(a) + 306 <= d
    BY <1>2, <2>2, SMT DEF Zero
  <2>4. QED
    BY <2>2, <2>3
<1>4. T \subseteq Nat
  OBVIOUS
<1> HIDE DEF T
<1>5. PICK k \in T : \A m \in T : k <= m
  BY <1>3, <1>4, LeastNumber
<1> USE DEF T
<1>6. k \in Nat /\ Zero(3000 + far - k) + 306 <= d
  OBVIOUS
<1>7. PICK a \in Int : a = 3000 + far - k
  BY <1>2, <1>6
<1>8. d < Zero(a + 1) + 306
  <2>1. CASE k = 0
    BY <1>2, <1>7, <2>1, SMT DEF Zero
  <2>2. CASE k > 0
    <3>1. PICK m \in Nat : m = k - 1
      BY <1>6, <2>2
    <3>2. m \notin T /\ 3000 + far - m = a + 1
      BY <1>2, <1>5, <1>6, <1>7, <3>1
    <3>3. ~(Zero(a + 1) + 306 <= d)
      BY <3>2
    <3>4. Zero(a + 1) \in Int
      BY <1>1
    <3>5. QED
      BY <3>3, <3>4
  <2>3. QED
    BY <1>6, <2>1, <2>2
<1>9. PICK y \in Int : y = a + 1 /\ y - 1 = a
  OBVIOUS
<1>10. Zero(y - 1) + 306 <= d /\ d < Zero(y) + 306
  BY <1>6, <1>7, <1>8, <1>9
<1>11. QED
  BY <1>10, InYearIs

LEMMA YearOfIs ==
  ASSUME Years = Int, NEW d \in Int
  PROVE  /\ YearOf(d) \in Int /\ InYear(d, YearOf(d))
         /\ \A y \in Int : InYear(d, y) => YearOf(d) = y
<1>1. PICK y \in Int : InYear(d, y)
  BY SomeYear
<1>2. YearOf(d) = CHOOSE z \in Int : InYear(d, z)
  BY DEF YearOf, InYear
<1>3. YearOf(d) \in Int /\ InYear(d, YearOf(d))
  BY <1>1, <1>2
<1>4. QED
  BY <1>3, OneYear

LEMMA NeighbourYears ==
  ASSUME Years = Int, NEW d \in Int, NEW f \in Int, f \in {d - 1, d, d + 1}
  PROVE  YearOf(f) \in {YearOf(d) - 1, YearOf(d), YearOf(d) + 1}
<1>1. \A a \in Int : Zero(a) \in Int
  BY SMT DEF Zero
<1>2. PICK y, z \in Int : y = YearOf(d) /\ z = YearOf(f)
  BY YearOfIs
<1>3. /\ Zero(y - 1) + 306 <= d /\ d < Zero(y) + 306
      /\ Zero(z - 1) + 306 <= f /\ f < Zero(z) + 306
  BY <1>2, YearOfIs, InYearIs
<1>4. ~(y + 1 < z)
  <2>1. SUFFICES ASSUME y + 1 < z PROVE FALSE
    OBVIOUS
  <2>2. PICK a \in Int : a = z - 1
    OBVIOUS
  <2>3. y < a
    BY <2>1, <2>2
  <2>4. Zero(a) >= Zero(y) + 365
    BY <2>3, YearsApart
  <2>5. QED
    BY <1>1, <1>3, <2>2, <2>4
<1>5. ~(z + 1 < y)
  <2>1. SUFFICES ASSUME z + 1 < y PROVE FALSE
    OBVIOUS
  <2>2. PICK a \in Int : a = y - 1
    OBVIOUS
  <2>3. z < a
    BY <2>1, <2>2
  <2>4. Zero(a) >= Zero(z) + 365
    BY <2>3, YearsApart
  <2>5. QED
    BY <1>1, <1>3, <2>2, <2>4
<1>6. QED
  BY <1>2, <1>4, <1>5

\* The holidays of a fixed date, and those of a week of a month, of the year y.
FixedIn(d, y) ==
  d \in {DayOf(y, 1, 1), DayOf(y, 6, 19), DayOf(y, 7, 4), DayOf(y, 11, 11), DayOf(y, 12, 25)}

WeekIn(d, y) ==
  \/ /\ Weekday(d) = 1
     /\ \/ d \in DayOf(y, 1, 15)..DayOf(y, 1, 21) \/ d \in DayOf(y, 2, 15)..DayOf(y, 2, 21)
        \/ d \in DayOf(y, 5, 25)..DayOf(y, 5, 31) \/ d \in DayOf(y, 9, 1)..DayOf(y, 9, 7)
        \/ d \in DayOf(y, 10, 8)..DayOf(y, 10, 14)
  \/ Weekday(d) = 4 /\ d \in DayOf(y, 11, 22)..DayOf(y, 11, 28)

LEMMA HolidayDays ==
  ASSUME NEW y \in Int
  PROVE  /\ DayOf(y, 1, 1) = Zero(y - 1) + 306 /\ DayOf(y, 6, 19) = Zero(y) + 110
         /\ DayOf(y, 7, 4) = Zero(y) + 125 /\ DayOf(y, 11, 11) = Zero(y) + 255
         /\ DayOf(y, 12, 25) = Zero(y) + 299
         /\ DayOf(y, 1, 15) = Zero(y - 1) + 320 /\ DayOf(y, 1, 21) = Zero(y - 1) + 326
         /\ DayOf(y, 2, 15) = Zero(y - 1) + 351 /\ DayOf(y, 2, 21) = Zero(y - 1) + 357
         /\ DayOf(y, 5, 25) = Zero(y) + 85 /\ DayOf(y, 5, 31) = Zero(y) + 91
         /\ DayOf(y, 9, 1) = Zero(y) + 184 /\ DayOf(y, 9, 7) = Zero(y) + 190
         /\ DayOf(y, 10, 8) = Zero(y) + 221 /\ DayOf(y, 10, 14) = Zero(y) + 227
         /\ DayOf(y, 11, 22) = Zero(y) + 266 /\ DayOf(y, 11, 28) = Zero(y) + 272
<1>1. /\ DayOf(y, 1, 1) = Zero(y - 1) + 306 /\ DayOf(y, 6, 19) = Zero(y) + 110
      /\ DayOf(y, 7, 4) = Zero(y) + 125 /\ DayOf(y, 11, 11) = Zero(y) + 255
      /\ DayOf(y, 12, 25) = Zero(y) + 299
  BY SMT DEF DayOf, Zero
<1>2. /\ DayOf(y, 1, 15) = Zero(y - 1) + 320 /\ DayOf(y, 1, 21) = Zero(y - 1) + 326
      /\ DayOf(y, 2, 15) = Zero(y - 1) + 351 /\ DayOf(y, 2, 21) = Zero(y - 1) + 357
      /\ DayOf(y, 5, 25) = Zero(y) + 85 /\ DayOf(y, 5, 31) = Zero(y) + 91
  BY SMT DEF DayOf, Zero
<1>3. /\ DayOf(y, 9, 1) = Zero(y) + 184 /\ DayOf(y, 9, 7) = Zero(y) + 190
      /\ DayOf(y, 10, 8) = Zero(y) + 221 /\ DayOf(y, 10, 14) = Zero(y) + 227
      /\ DayOf(y, 11, 22) = Zero(y) + 266 /\ DayOf(y, 11, 28) = Zero(y) + 272
  BY SMT DEF DayOf, Zero
<1>4. QED
  BY <1>1, <1>2, <1>3

LEMMA HolidaysInYear ==
  ASSUME NEW y \in Int, NEW d \in Int, FixedIn(d, y) \/ WeekIn(d, y)
  PROVE  InYear(d, y)
<1>1. PICK a, b \in Int : a = Zero(y - 1) /\ b = Zero(y) /\ b >= a + 365
  BY SMT DEF Zero
<1>2. CASE FixedIn(d, y)
  <2>1. d \in {a + 306, b + 110, b + 125, b + 255, b + 299}
    BY <1>1, <1>2, HolidayDays DEF FixedIn
  <2>2. a + 306 <= d /\ d < b + 306
    BY <1>1, <2>1
  <2>3. QED
    BY <1>1, <2>2, InYearIs
<1>3. CASE WeekIn(d, y)
  <2>1. \/ d \in (a + 320)..(a + 326) \/ d \in (a + 351)..(a + 357)
        \/ d \in (b + 85)..(b + 91) \/ d \in (b + 184)..(b + 190)
        \/ d \in (b + 221)..(b + 227) \/ d \in (b + 266)..(b + 272)
    BY <1>1, <1>3, HolidayDays DEF WeekIn
  <2>2. a + 306 <= d /\ d < b + 306
    BY <1>1, <2>1
  <2>3. QED
    BY <1>1, <2>2, InYearIs
<1>4. QED
  BY <1>2, <1>3

LEMMA OneOfAWeek ==
  ASSUME NEW first \in Int, NEW w \in 1..7
  PROVE  /\ \E d \in first..(first + 6) : Weekday(d) = w
         /\ \A d, f \in first..(first + 6) : Weekday(d) = w /\ Weekday(f) = w => d = f
<1>1. \A d, f \in first..(first + 6) : Weekday(d) = w /\ Weekday(f) = w => d = f
  BY DEF Weekday
<1>2. PICK d : d = first + ((w - 4 - first) % 7)
  OBVIOUS
<1>3. d \in first..(first + 6) /\ Weekday(d) = w
  BY <1>2 DEF Weekday
<1>4. QED
  BY <1>1, <1>3

\* The nth week of a month, from its first day on, and the last one of May.
NthWeek(y, month, nth, first, last) ==
  first = DayOf(y, month, 1) + 7 * (nth - 1) /\ first \in Int /\ last = first + 6

LastWeek(y, first, last) ==
  first = DayOf(y, 6, 1) - 7 /\ first \in Int /\ last = first + 6

LEMMA NthIs ==
  ASSUME NEW y \in Int, NEW month \in Int, NEW w \in 1..7, NEW nth \in Int, NEW d \in Int,
         DayOf(y, month, 1) \in Int, NEW first, NEW last, NthWeek(y, month, nth, first, last)
  PROVE  d = nthWeekdayOfMonth(y, month, w, nth) <=> Weekday(d) = w /\ d \in first..last
<1> USE DEF NthWeek
<1>1. PICK a \in Int : a = DayOf(y, month, 1)
  OBVIOUS
<1>2. PICK c \in a..(a + 6) :
        Weekday(c) = w /\ nthWeekdayOfMonth(y, month, w, nth) = c + 7 * (nth - 1)
  BY <1>1, OneOfAWeek DEF nthWeekdayOfMonth
<1>3. PICK k \in Int : k = 7 * (nth - 1) /\ k % 7 = 0
  OBVIOUS
<1>4. d = c + k => Weekday(d) = w
  BY <1>2, <1>3 DEF Weekday
<1>5. ASSUME Weekday(d) = w, a + k <= d, d <= a + k + 6 PROVE d = c + k
  <2>1. PICK f \in Int : f = d - k
    OBVIOUS
  <2>2. Weekday(f) = w /\ f \in a..(a + 6)
    BY <1>3, <1>5, <2>1 DEF Weekday
  <2>3. f = c
    BY <1>2, <2>2, OneOfAWeek
  <2>4. QED
    BY <2>1, <2>3
<1>6. QED
  BY <1>1, <1>2, <1>3, <1>4, <1>5

LEMMA LastIs ==
  ASSUME NEW y \in Int, NEW w \in 1..7, NEW d \in Int,
         NEW from, NEW to, LastWeek(y, from, to)
  PROVE  d = lastWeekdayOfMonth(y, 5, w) <=> Weekday(d) = w /\ d \in from..to
<1>1. PICK first \in Int : first = DayOf(y, 6, 1) - 7 /\ DayOf(y, 6, 1) \in Int
  <2>1. Zero(y) \in Int
    BY YearLength
  <2>2. \A day \in Int : DayOf(y, 6, day) = Zero(y) + 91 + day
    BY MonthStarts
  <2>3. DayOf(y, 6, 1) = Zero(y) + 92
    BY <2>1, <2>2
  <2>4. QED
    BY <2>1, <2>3
<1>2. DayOf(y, 5 + 1, 1) = DayOf(y, 6, 1)
  OBVIOUS
<1>3. PICK c \in first..(first + 6) : Weekday(c) = w /\ lastWeekdayOfMonth(y, 5, w) = c
  <2>1. lastWeekdayOfMonth(y, 5, w) = CHOOSE c \in first..(first + 6) : Weekday(c) = w
    BY <1>1, <1>2 DEF lastWeekdayOfMonth
  <2>2. QED
    BY <2>1, OneOfAWeek
<1>4. \A f, g \in first..(first + 6) : Weekday(f) = w /\ Weekday(g) = w => f = g
  BY OneOfAWeek
<1>5. from = first /\ to = first + 6
  BY <1>1 DEF LastWeek
<1>6. QED
  BY <1>3, <1>4, <1>5

\* The holidays of a year, in terms of its dates.
LEMMA HolidaysAre ==
  ASSUME NEW y \in Int, NEW d \in Int
  PROVE  d \in computeUsFederalHolidays(y) <=>
           \/ \E f \in Int : FixedIn(f, y) /\ d = applyWeekendObservation(f)
           \/ WeekIn(d, y)
<1>1. PICK a, b \in Int : a = Zero(y - 1) /\ b = Zero(y)
  BY SMT DEF Zero
<1>2. /\ DayOf(y, 1, 1) = a + 306 /\ DayOf(y, 2, 1) = a + 337
      /\ DayOf(y, 6, 1) = b + 92 /\ DayOf(y, 9, 1) = b + 184
      /\ DayOf(y, 10, 1) = b + 214 /\ DayOf(y, 11, 1) = b + 245
  BY <1>1, SMT DEF DayOf, Zero
<1>3. d \in {applyWeekendObservation(DayOf(y, date[1], date[2])) :
               date \in {<<1, 1>>, <<6, 19>>, <<7, 4>>, <<11, 11>>, <<12, 25>>}}
        <=> \E f \in Int : FixedIn(f, y) /\ d = applyWeekendObservation(f)
  <2>1. \A f : FixedIn(f, y) => f \in Int
    BY <1>1, HolidayDays DEF FixedIn
  <2>2. d \in {applyWeekendObservation(DayOf(y, date[1], date[2])) :
                 date \in {<<1, 1>>, <<6, 19>>, <<7, 4>>, <<11, 11>>, <<12, 25>>}}
          <=> \/ d = applyWeekendObservation(DayOf(y, 1, 1))
              \/ d = applyWeekendObservation(DayOf(y, 6, 19))
              \/ d = applyWeekendObservation(DayOf(y, 7, 4))
              \/ d = applyWeekendObservation(DayOf(y, 11, 11))
              \/ d = applyWeekendObservation(DayOf(y, 12, 25))
    OBVIOUS
  <2>3. QED
    BY <2>1, <2>2 DEF FixedIn
<1>4. d \in {nthWeekdayOfMonth(y, rule[1], rule[2], rule[3]) :
               rule \in {<<1, 1, 3>>, <<2, 1, 3>>, <<9, 1, 1>>, <<10, 1, 2>>, <<11, 4, 4>>}}
        <=> \/ d = nthWeekdayOfMonth(y, 1, 1, 3) \/ d = nthWeekdayOfMonth(y, 2, 1, 3)
            \/ d = nthWeekdayOfMonth(y, 9, 1, 1) \/ d = nthWeekdayOfMonth(y, 10, 1, 2)
            \/ d = nthWeekdayOfMonth(y, 11, 4, 4)
  OBVIOUS
<1>5. d = nthWeekdayOfMonth(y, 1, 1, 3) <=>
        Weekday(d) = 1 /\ d \in DayOf(y, 1, 15)..DayOf(y, 1, 21)
  <2>1. PICK month, w, nth, first, last :
          /\ month = 1 /\ w = 1 /\ nth = 3
          /\ first = DayOf(y, 1, 15) /\ last = DayOf(y, 1, 21)
    OBVIOUS
  <2>2. NthWeek(y, month, nth, first, last) /\ DayOf(y, month, 1) \in Int
    BY <1>1, <1>2, <2>1, HolidayDays DEF NthWeek
  <2>3. month \in Int /\ w \in 1..7 /\ nth \in Int
    BY <2>1
  <2>4. d = nthWeekdayOfMonth(y, month, w, nth) <=> Weekday(d) = w /\ d \in first..last
    BY <2>2, <2>3, NthIs
  <2>5. QED
    BY <2>1, <2>4
<1>6. d = nthWeekdayOfMonth(y, 2, 1, 3) <=>
        Weekday(d) = 1 /\ d \in DayOf(y, 2, 15)..DayOf(y, 2, 21)
  <2>1. PICK month, w, nth, first, last :
          /\ month = 2 /\ w = 1 /\ nth = 3
          /\ first = DayOf(y, 2, 15) /\ last = DayOf(y, 2, 21)
    OBVIOUS
  <2>2. NthWeek(y, month, nth, first, last) /\ DayOf(y, month, 1) \in Int
    BY <1>1, <1>2, <2>1, HolidayDays DEF NthWeek
  <2>3. month \in Int /\ w \in 1..7 /\ nth \in Int
    BY <2>1
  <2>4. d = nthWeekdayOfMonth(y, month, w, nth) <=> Weekday(d) = w /\ d \in first..last
    BY <2>2, <2>3, NthIs
  <2>5. QED
    BY <2>1, <2>4
<1>7. d = nthWeekdayOfMonth(y, 9, 1, 1) <=>
        Weekday(d) = 1 /\ d \in DayOf(y, 9, 1)..DayOf(y, 9, 7)
  <2>1. PICK month, w, nth, first, last :
          /\ month = 9 /\ w = 1 /\ nth = 1
          /\ first = DayOf(y, 9, 1) /\ last = DayOf(y, 9, 7)
    OBVIOUS
  <2>2. NthWeek(y, month, nth, first, last) /\ DayOf(y, month, 1) \in Int
    BY <1>1, <1>2, <2>1, HolidayDays DEF NthWeek
  <2>3. month \in Int /\ w \in 1..7 /\ nth \in Int
    BY <2>1
  <2>4. d = nthWeekdayOfMonth(y, month, w, nth) <=> Weekday(d) = w /\ d \in first..last
    BY <2>2, <2>3, NthIs
  <2>5. QED
    BY <2>1, <2>4
<1>8. d = nthWeekdayOfMonth(y, 10, 1, 2) <=>
        Weekday(d) = 1 /\ d \in DayOf(y, 10, 8)..DayOf(y, 10, 14)
  <2>1. PICK month, w, nth, first, last :
          /\ month = 10 /\ w = 1 /\ nth = 2
          /\ first = DayOf(y, 10, 8) /\ last = DayOf(y, 10, 14)
    OBVIOUS
  <2>2. NthWeek(y, month, nth, first, last) /\ DayOf(y, month, 1) \in Int
    BY <1>1, <1>2, <2>1, HolidayDays DEF NthWeek
  <2>3. month \in Int /\ w \in 1..7 /\ nth \in Int
    BY <2>1
  <2>4. d = nthWeekdayOfMonth(y, month, w, nth) <=> Weekday(d) = w /\ d \in first..last
    BY <2>2, <2>3, NthIs
  <2>5. QED
    BY <2>1, <2>4
<1>9. d = nthWeekdayOfMonth(y, 11, 4, 4) <=>
        Weekday(d) = 4 /\ d \in DayOf(y, 11, 22)..DayOf(y, 11, 28)
  <2>1. PICK month, w, nth, first, last :
          /\ month = 11 /\ w = 4 /\ nth = 4
          /\ first = DayOf(y, 11, 22) /\ last = DayOf(y, 11, 28)
    OBVIOUS
  <2>2. NthWeek(y, month, nth, first, last) /\ DayOf(y, month, 1) \in Int
    BY <1>1, <1>2, <2>1, HolidayDays DEF NthWeek
  <2>3. month \in Int /\ w \in 1..7 /\ nth \in Int
    BY <2>1
  <2>4. d = nthWeekdayOfMonth(y, month, w, nth) <=> Weekday(d) = w /\ d \in first..last
    BY <2>2, <2>3, NthIs
  <2>5. QED
    BY <2>1, <2>4
<1>10. d = lastWeekdayOfMonth(y, 5, 1) <=>
         Weekday(d) = 1 /\ d \in DayOf(y, 5, 25)..DayOf(y, 5, 31)
  <2>1. LastWeek(y, DayOf(y, 5, 25), DayOf(y, 5, 31))
    BY <1>1, <1>2, HolidayDays DEF LastWeek
  <2>2. QED
    BY <2>1, LastIs
<1>11. WeekIn(d, y) <=>
         \/ d = nthWeekdayOfMonth(y, 1, 1, 3) \/ d = nthWeekdayOfMonth(y, 2, 1, 3)
         \/ d = nthWeekdayOfMonth(y, 9, 1, 1) \/ d = nthWeekdayOfMonth(y, 10, 1, 2)
         \/ d = nthWeekdayOfMonth(y, 11, 4, 4) \/ d = lastWeekdayOfMonth(y, 5, 1)
  BY <1>5, <1>6, <1>7, <1>8, <1>9, <1>10 DEF WeekIn
<1>12. QED
  BY <1>3, <1>4, <1>11 DEF computeUsFederalHolidays

LEMMA OnDays ==
  ASSUME NEW d \in Int, NEW y \in Int, y = YearOf(d), NEW month \in 1..12,
         NEW from \in 1..31, NEW to \in 1..31
  PROVE  On(d, month, from..to) <=> d \in DayOf(y, month, from)..DayOf(y, month, to)
<1>1. PICK a \in Int : \A day \in Int : DayOf(y, month, day) = a + day
  <2>1. PICK z, m \in Int : /\ z = IF month <= 2 THEN y - 1 ELSE y
                           /\ m = (153 * ((month + 9) % 12) + 2) \div 5
    OBVIOUS
  <2>2. PICK b \in Int : b = 365 * z + (z \div 4) - (z \div 100) + (z \div 400)
    OBVIOUS
  <2>3. PICK a \in Int : a = b + m - 719469
    BY SMT
  <2>4. \A day \in Int : DayOf(y, month, day) = a + day
    BY <2>1, <2>2, <2>3, SMT DEF DayOf
  <2>5. QED
    BY <2>4
<1>2. DayOf(y, month, from) = a + from /\ DayOf(y, month, to) = a + to
  BY <1>1
<1>3. On(d, month, from..to) <=> \E day \in from..to : d = a + day
  BY <1>1 DEF On
<1>4. (\E day \in from..to : d = a + day) <=> d \in (a + from)..(a + to)
  <2>1. ASSUME d \in (a + from)..(a + to) PROVE \E day \in from..to : d = a + day
    <3>1. d - a \in from..to /\ d = a + (d - a)
      BY <2>1
    <3>2. QED
      BY <3>1
  <2>2. QED
    BY <2>1
<1>5. QED
  BY <1>2, <1>3, <1>4

\* In the calendar of the computed sets a date is a business day just when it is a working
\* day in the words of the specification.
LEMMA BusinessDaysAreWorking ==
  ASSUME Years = Int, NEW d \in Int
  PROVE  isBusinessDay(d) <=> Working(d)
<1>1. Weekday(d) \in 1..7
  BY DEF Weekday
<1>2. PICK y \in Int : y = YearOf(d)
  BY YearOfIs
<1>3. isHoliday(d) <=> \E z \in {y - 1, y, y + 1} : d \in computeUsFederalHolidays(z)
  BY <1>2 DEF isHoliday, getHolidaySet
<1>4. ASSUME NEW f \in Int PROVE FixedHoliday(f) <=> FixedIn(f, YearOf(f))
  BY DEF FixedHoliday, FixedIn, On
<1>5. ASSUME NEW f \in Int, NEW z \in Int, FixedIn(f, z) PROVE FixedHoliday(f) /\ YearOf(f) = z
  BY <1>4, <1>5, HolidaysInYear, YearOfIs
<1>6. WeekIn(d, y) <=>
        \/ Weekday(d) = 1 /\ \/ On(d, 1, 15..21) \/ On(d, 2, 15..21) \/ On(d, 5, 25..31)
                             \/ On(d, 9, 1..7) \/ On(d, 10, 8..14)
        \/ Weekday(d) = 4 /\ On(d, 11, 22..28)
  <2>1. On(d, 1, 15..21) <=> d \in DayOf(y, 1, 15)..DayOf(y, 1, 21)
    <3>1. PICK month \in 1..12, from \in 1..31, to \in 1..31 :
            month = 1 /\ from = 15 /\ to = 21
      OBVIOUS
    <3>2. On(d, month, from..to) <=> d \in DayOf(y, month, from)..DayOf(y, month, to)
      BY <1>2, OnDays
    <3>3. QED
      BY <3>1, <3>2
  <2>2. On(d, 2, 15..21) <=> d \in DayOf(y, 2, 15)..DayOf(y, 2, 21)
    <3>1. PICK month \in 1..12, from \in 1..31, to \in 1..31 :
            month = 2 /\ from = 15 /\ to = 21
      OBVIOUS
    <3>2. On(d, month, from..to) <=> d \in DayOf(y, month, from)..DayOf(y, month, to)
      BY <1>2, OnDays
    <3>3. QED
      BY <3>1, <3>2
  <2>3. On(d, 5, 25..31) <=> d \in DayOf(y, 5, 25)..DayOf(y, 5, 31)
    <3>1. PICK month \in 1..12, from \in 1..31, to \in 1..31 :
            month = 5 /\ from = 25 /\ to = 31
      OBVIOUS
    <3>2. On(d, month, from..to) <=> d \in DayOf(y, month, from)..DayOf(y, month, to)
      BY <1>2, OnDays
    <3>3. QED
      BY <3>1, <3>2
  <2>4. On(d, 9, 1..7) <=> d \in DayOf(y, 9, 1)..DayOf(y, 9, 7)
    <3>1. PICK month \in 1..12, from \in 1..31, to \in 1..31 :
            month = 9 /\ from = 1 /\ to = 7
      OBVIOUS
    <3>2. On(d, month, from..to) <=> d \in DayOf(y, month, from)..DayOf(y, month, to)
      BY <1>2, OnDays
    <3>3. QED
      BY <3>1, <3>2
  <2>5. On(d, 10, 8..14) <=> d \in DayOf(y, 10, 8)..DayOf(y, 10, 14)
    <3>1. PICK month \in 1..12, from \in 1..31, to \in 1..31 :
            month = 10 /\ from = 8 /\ to = 14
      OBVIOUS
    <3>2. On(d, month, from..to) <=> d \in DayOf(y, month, from)..DayOf(y, month, to)
      BY <1>2, OnDays
    <3>3. QED
      BY <3>1, <3>2
  <2>6. On(d, 11, 22..28) <=> d \in DayOf(y, 11, 22)..DayOf(y, 11, 28)
    <3>1. PICK month \in 1..12, from \in 1..31, to \in 1..31 :
            month = 11 /\ from = 22 /\ to = 28
      OBVIOUS
    <3>2. On(d, month, from..to) <=> d \in DayOf(y, month, from)..DayOf(y, month, to)
      BY <1>2, OnDays
    <3>3. QED
      BY <3>1, <3>2
  <2>7. QED
    BY <2>1, <2>2, <2>3, <2>4, <2>5, <2>6 DEF WeekIn
<1>7. ASSUME Weekday(d) \in 1..5, isHoliday(d) PROVE Observed(d)
  <2>1. PICK z \in Int : d \in computeUsFederalHolidays(z)
    BY <1>3, <1>7
  <2>2. CASE WeekIn(d, z)
    <3>1. y = z
      BY <1>2, <2>2, HolidaysInYear, YearOfIs
    <3>2. QED
      BY <1>6, <2>2, <3>1 DEF Observed
  <2>3. CASE ~WeekIn(d, z)
    <3>1. PICK f \in Int : FixedIn(f, z) /\ d = applyWeekendObservation(f)
      BY <2>1, <2>3, HolidaysAre
    <3>2. FixedHoliday(f)
      BY <1>5, <3>1
    <3>3. \/ d = f
          \/ Weekday(d) = 5 /\ f = d + 1
          \/ Weekday(d) = 1 /\ f = d - 1
      BY <1>7, <3>1 DEF applyWeekendObservation, Weekday
    <3>4. QED
      BY <3>2, <3>3 DEF Observed
  <2>4. QED
    BY <2>2, <2>3
<1>8. ASSUME Weekday(d) \in 1..5, Observed(d) PROVE isHoliday(d)
  <2>1. CASE WeekIn(d, y)
    BY <1>2, <1>3, <2>1, HolidaysAre
  <2>2. CASE ~WeekIn(d, y)
    <3>1. PICK f \in Int :
            /\ FixedHoliday(f)
            /\ \/ d = f
               \/ Weekday(d) = 5 /\ f = d + 1
               \/ Weekday(d) = 1 /\ f = d - 1
      BY <1>6, <1>8, <2>2 DEF Observed
    <3>2. d = applyWeekendObservation(f)
      BY <1>8, <3>1 DEF applyWeekendObservation, Weekday
    <3>3. PICK z \in Int : z = YearOf(f) /\ FixedIn(f, z)
      BY <1>4, <3>1, YearOfIs
    <3>4. f \in {d - 1, d, d + 1}
      BY <3>1
    <3>5. z \in {y - 1, y, y + 1}
      BY <1>2, <3>3, <3>4, NeighbourYears
    <3>6. d \in computeUsFederalHolidays(z)
      BY <3>2, <3>3, HolidaysAre
    <3>7. QED
      BY <1>3, <3>5, <3>6
  <2>3. QED
    BY <2>1, <2>2
<1>9. QED
  BY <1>1, <1>7, <1>8 DEF isBusinessDay, Working

-----------------------------------------------------------------------------
(* The loops over days *)

LEMMA NoDaysPass ==
  ASSUME NEW from \in Int, NEW to \in Int, to < from
  PROVE  WorkingDays(from, to) = 0
<1>1. {d \in from..to : Working(d)} = {}
  OBVIOUS
<1>2. QED
  BY <1>1, FS_EmptySet DEF WorkingDays

LEMMA FiniteDays ==
  ASSUME NEW from \in Int, NEW to \in Int
  PROVE  /\ IsFiniteSet({d \in from..to : Working(d)})
         /\ WorkingDays(from, to) \in Nat
<1>1. IsFiniteSet(from..to)
  BY FS_Interval
<1>2. {d \in from..to : Working(d)} \subseteq from..to
  OBVIOUS
<1>3. IsFiniteSet({d \in from..to : Working(d)})
  BY <1>1, <1>2, FS_Subset
<1>4. QED
  BY <1>3, FS_CardinalityType DEF WorkingDays

LEMMA DaysAreCounted ==
  ASSUME NEW from \in Int, NEW to \in Int
  PROVE  WorkingDays(from, to) \in Nat
  BY FiniteDays

\* One day more.
OneMore(longer, shorter, d) == longer = shorter + IF Working(d) THEN 1 ELSE 0

LEMMA OneDayMore ==
  ASSUME NEW from \in Int, NEW to \in Int, NEW d \in Int, NEW S,
         \A x : x \in S <=> x \in from..to \/ x = d,
         d \notin from..to
  PROVE  OneMore(Cardinality({x \in S : Working(x)}), WorkingDays(from, to), d)
<1> DEFINE T == {x \in from..to : Working(x)}
<1>1. {x \in S : Working(x)} = IF Working(d) THEN T \cup {d} ELSE T
  OBVIOUS
<1>2. IsFiniteSet(T) /\ WorkingDays(from, to) = Cardinality(T) /\ d \notin T
  BY FiniteDays DEF WorkingDays
<1> HIDE DEF T
<1>3. Cardinality(T \cup {d}) = Cardinality(T) + 1 /\ Cardinality(T) \in Nat
  BY <1>2, FS_AddElement, FS_CardinalityType
<1>4. QED
  BY <1>1, <1>2, <1>3 DEF OneMore

LEMMA DayAfter ==
  ASSUME NEW from \in Int, NEW to \in Int, NEW d \in Int, from <= d, d - 1 = to
  PROVE  OneMore(WorkingDays(from, d), WorkingDays(from, to), d)
<1>1. (\A x : x \in from..d <=> x \in from..to \/ x = d) /\ d \notin from..to
  OBVIOUS
<1>2. PICK S : S = from..d
  OBVIOUS
<1>3. OneMore(Cardinality({x \in S : Working(x)}), WorkingDays(from, to), d)
  BY <1>1, <1>2, OneDayMore
<1>4. QED
  BY <1>2, <1>3 DEF WorkingDays

LEMMA DayBefore ==
  ASSUME NEW from \in Int, NEW to \in Int, NEW d \in Int, d <= to, d + 1 = from
  PROVE  OneMore(WorkingDays(d, to), WorkingDays(from, to), d)
<1>1. (\A x : x \in d..to <=> x \in from..to \/ x = d) /\ d \notin from..to
  OBVIOUS
<1>2. PICK S : S = d..to
  OBVIOUS
<1>3. OneMore(Cardinality({x \in S : Working(x)}), WorkingDays(from, to), d)
  BY <1>1, <1>2, OneDayMore
<1>4. QED
  BY <1>2, <1>3 DEF WorkingDays

\* The days passed so far, in the direction of the call, and those still to come, are n.
AddIsSound(from, n) ==
  /\ count \in Nat
  /\ n >= 0 => cursor >= from /\ WorkingDays(from + 1, cursor) + count = n
  /\ n < 0 => cursor <= from /\ WorkingDays(cursor, from - 1) + count = -n
  /\ count = 0 /\ n # 0 => Working(cursor)

\* What addBusinessDays returned is n working days away.
Reached(from, n, to) ==
  /\ n >= 0 => to >= from /\ WorkingDays(from + 1, to) = n
  /\ n < 0 => to < from /\ WorkingDays(to, from - 1) = -n
  /\ n # 0 => Working(to)

\* The count is that of the days between the date and the cursor.
CountIsSound(from, to) ==
  /\ from <= to => from <= cursor /\ cursor <= to /\ count = WorkingDays(from + 1, cursor)
  /\ to < from => to <= cursor /\ cursor <= from /\ count = -WorkingDays(cursor, from - 1)

DaysAreSound ==
  /\ dateCall \in DateCall /\ cursor \in Int /\ end \in Int
  /\ doing \in {"add", "between", "done"}
  /\ doing = "add" => dateCall.op = "add" /\ AddIsSound(dateCall.date, dateCall.by)
  /\ doing \in {"between", "done"} =>
       /\ dateCall.op = "add" => Reached(dateCall.date, dateCall.by, end)
       /\ CountIsSound(dateCall.date, end)
  /\ doing = "done" => cursor = end

LEMMA CallFacts ==
  ASSUME dateCall \in DateCall
  PROVE  dateCall.op \in {"add", "between"} /\ dateCall.date \in Int /\ dateCall.by \in Int
  BY DEF DateCall

LEMMA DaysInit == Init => DaysAreSound
<1> SUFFICES ASSUME Init PROVE DaysAreSound
  OBVIOUS
<1>1. /\ dateCall \in DateCall /\ doing = dateCall.op /\ cursor = dateCall.date
      /\ count = IF dateCall.op = "between" THEN 0 ELSE Abs(dateCall.by)
      /\ end = dateCall.date + IF dateCall.op = "between" THEN dateCall.by ELSE 0
  BY BusinessTimeAssumption, LibrariesAssumption DEF Init, CallInit
<1>2. PICK from, n \in Int : from = dateCall.date /\ n = dateCall.by
  BY <1>1, CallFacts
<1>3. dateCall.op \in {"add", "between"} /\ cursor \in Int /\ end \in Int
  BY <1>1, <1>2, CallFacts
<1>4. WorkingDays(from + 1, from) = 0 /\ WorkingDays(from, from - 1) = 0
  BY NoDaysPass
<1>5. CASE dateCall.op = "add"
  <2>1. count = Abs(n) /\ count \in Nat
    BY <1>1, <1>2, <1>5 DEF Abs
  <2>2. AddIsSound(from, n)
    BY <1>1, <1>2, <1>4, <2>1 DEF AddIsSound, Abs
  <2>3. QED
    BY <1>1, <1>2, <1>3, <1>5, <2>2 DEF DaysAreSound
<1>6. CASE dateCall.op = "between"
  <2>1. CountIsSound(from, end)
    BY <1>1, <1>2, <1>3, <1>4, <1>6 DEF CountIsSound
  <2>2. QED
    BY <1>1, <1>2, <1>3, <1>6, <2>1 DEF DaysAreSound
<1>7. QED
  BY <1>3, <1>5, <1>6

LEMMA DaysAdd ==
  ASSUME Years = Int, DaysAreSound, addBusinessDays
  PROVE  DaysAreSound'
<1>1. /\ doing = "add" /\ count > 0 /\ cursor' = cursor + Sign(dateCall.by)
      /\ count' = count - IF isBusinessDay(cursor') THEN 1 ELSE 0
      /\ UNCHANGED <<dateCall, doing, end>>
  BY DEF addBusinessDays
<1>2. /\ dateCall \in DateCall /\ cursor \in Int /\ end \in Int
      /\ dateCall.op = "add" /\ AddIsSound(dateCall.date, dateCall.by)
  BY <1>1 DEF DaysAreSound
<1>3. PICK from, n \in Int : from = dateCall.date /\ n = dateCall.by
  BY <1>2, CallFacts
<1>4. PICK c, d \in Int : c = cursor /\ d = cursor' /\ d = c + Sign(n)
  BY <1>1, <1>2, <1>3 DEF Sign
<1>5. isBusinessDay(d) <=> Working(d)
  BY BusinessDaysAreWorking
<1>6. count' = count - IF Working(d) THEN 1 ELSE 0
  BY <1>1, <1>4, <1>5
<1>7. AddIsSound(from, n)
  BY <1>2, <1>3
<1>8. count \in Nat /\ count' \in Nat /\ count' <= count /\ (count' = 0 => Working(d))
  BY <1>1, <1>6, <1>7 DEF AddIsSound
<1>9. CASE n >= 0
  <2>1. c >= from /\ WorkingDays(from + 1, c) + count = n
    BY <1>4, <1>7, <1>9 DEF AddIsSound
  <2>2. WorkingDays(from + 1, c) \in Nat
    <3>1. PICK a \in Int : a = from + 1
      OBVIOUS
    <3>2. QED
      BY <3>1, DaysAreCounted
  <2>3. d = c + 1
    <3>1. n > 0
      BY <1>1, <1>8, <1>9, <2>1, <2>2
    <3>2. QED
      BY <1>4, <3>1 DEF Sign
  <2>4. WorkingDays(from + 1, d) = WorkingDays(from + 1, c) + IF Working(d) THEN 1 ELSE 0
    <3>1. PICK a \in Int : a = from + 1
      OBVIOUS
    <3>2. a <= d /\ d - 1 = c
      BY <2>1, <2>3, <3>1
    <3>3. OneMore(WorkingDays(a, d), WorkingDays(a, c), d)
      BY <3>2, DayAfter
    <3>4. QED
      BY <3>1, <3>3 DEF OneMore
  <2>5. d >= from /\ WorkingDays(from + 1, d) + count' = n
    BY <1>6, <1>8, <2>1, <2>2, <2>3, <2>4
  <2>6. AddIsSound(from, n)'
    BY <1>4, <1>8, <1>9, <2>5 DEF AddIsSound
  <2>7. QED
    BY <1>1, <1>2, <1>3, <1>4, <2>6 DEF DaysAreSound
<1>10. CASE n < 0
  <2>1. c <= from /\ WorkingDays(c, from - 1) + count = -n
    BY <1>4, <1>7, <1>10 DEF AddIsSound
  <2>2. WorkingDays(c, from - 1) \in Nat
    <3>1. PICK a \in Int : a = from - 1
      OBVIOUS
    <3>2. QED
      BY <3>1, DaysAreCounted
  <2>3. d = c - 1
    BY <1>4, <1>10 DEF Sign
  <2>4. WorkingDays(d, from - 1) = WorkingDays(c, from - 1) + IF Working(d) THEN 1 ELSE 0
    <3>1. PICK a \in Int : a = from - 1
      OBVIOUS
    <3>2. d <= a /\ d + 1 = c
      BY <2>1, <2>3, <3>1
    <3>3. OneMore(WorkingDays(d, a), WorkingDays(c, a), d)
      BY <3>2, DayBefore
    <3>4. QED
      BY <3>1, <3>3 DEF OneMore
  <2>5. d <= from /\ WorkingDays(d, from - 1) + count' = -n
    BY <1>6, <1>8, <2>1, <2>2, <2>3, <2>4
  <2>6. AddIsSound(from, n)'
    BY <1>4, <1>8, <1>10, <2>5 DEF AddIsSound
  <2>7. QED
    BY <1>1, <1>2, <1>3, <1>4, <2>6 DEF DaysAreSound
<1>11. QED
  BY <1>9, <1>10

LEMMA DaysBack == ASSUME DaysAreSound, CountBack PROVE DaysAreSound'
<1>1. /\ doing = "add" /\ count = 0 /\ doing' = "between" /\ end' = cursor
      /\ cursor' = dateCall.date /\ UNCHANGED <<dateCall, count>>
  BY DEF CountBack
<1>2. /\ dateCall \in DateCall /\ cursor \in Int
      /\ dateCall.op = "add" /\ AddIsSound(dateCall.date, dateCall.by)
  BY <1>1 DEF DaysAreSound
<1>3. PICK from, n, c \in Int : from = dateCall.date /\ n = dateCall.by /\ c = cursor
  BY <1>2, CallFacts
<1>4. /\ n >= 0 => c >= from /\ WorkingDays(from + 1, c) + 0 = n
      /\ n < 0 => c <= from /\ WorkingDays(c, from - 1) + 0 = -n
      /\ n # 0 => Working(c)
  BY <1>1, <1>2, <1>3 DEF AddIsSound
<1>5. /\ WorkingDays(from + 1, c) \in Nat /\ WorkingDays(c, from - 1) \in Nat
      /\ WorkingDays(from + 1, from) = 0 /\ WorkingDays(from, from - 1) = 0
  <2>1. PICK a, b \in Int : a = from + 1 /\ b = from - 1 /\ from < a /\ b < from
    OBVIOUS
  <2>2. WorkingDays(a, c) \in Nat /\ WorkingDays(c, b) \in Nat
    BY DaysAreCounted
  <2>3. WorkingDays(a, from) = 0 /\ WorkingDays(from, b) = 0
    BY <2>1, NoDaysPass
  <2>4. QED
    BY <2>1, <2>2, <2>3
<1>6. n < 0 => c # from
  BY <1>4, <1>5
<1>7. Reached(from, n, c)
  BY <1>4, <1>5, <1>6 DEF Reached
<1>8. CountIsSound(from, c)'
  BY <1>1, <1>3, <1>5 DEF CountIsSound
<1>9. QED
  BY <1>1, <1>2, <1>3, <1>7, <1>8 DEF DaysAreSound

LEMMA DaysBetween ==
  ASSUME Years = Int, DaysAreSound, businessDaysBetween
  PROVE  DaysAreSound'
<1>1. PICK dir : dir = IF dateCall.date <= end THEN 1 ELSE -1
  OBVIOUS
<1>2. /\ doing = "between" /\ cursor # end /\ cursor' = cursor + dir
      /\ count' = count + IF isBusinessDay(cursor') THEN dir ELSE 0
      /\ UNCHANGED <<dateCall, doing, end>>
  BY <1>1 DEF businessDaysBetween
<1>3. /\ dateCall \in DateCall /\ cursor \in Int /\ end \in Int
      /\ dateCall.op = "add" => Reached(dateCall.date, dateCall.by, end)
      /\ CountIsSound(dateCall.date, end)
  BY <1>2 DEF DaysAreSound
<1>4. PICK from, to, c, d \in Int :
        from = dateCall.date /\ to = end /\ c = cursor /\ d = cursor' /\ d = c + dir
  BY <1>1, <1>2, <1>3, CallFacts
<1>5. isBusinessDay(d) <=> Working(d)
  BY BusinessDaysAreWorking
<1>6. count' = count + IF Working(d) THEN dir ELSE 0
  BY <1>2, <1>4, <1>5
<1>7. CountIsSound(from, to)'
  <2>1. CASE from <= to
    <3>1. from <= c /\ c <= to /\ c # to /\ d = c + 1 /\ count = WorkingDays(from + 1, c)
      BY <1>1, <1>2, <1>3, <1>4, <2>1 DEF CountIsSound
    <3>2. WorkingDays(from + 1, d) = WorkingDays(from + 1, c) + IF Working(d) THEN 1 ELSE 0
      <4>1. PICK a \in Int : a = from + 1
        OBVIOUS
      <4>2. a <= d /\ d - 1 = c
        BY <3>1, <4>1
      <4>3. OneMore(WorkingDays(a, d), WorkingDays(a, c), d)
        BY <4>2, DayAfter
      <4>4. QED
        BY <4>1, <4>3 DEF OneMore
    <3>3. count' = WorkingDays(from + 1, d)
      BY <1>1, <1>4, <1>6, <2>1, <3>1, <3>2
    <3>4. QED
      BY <1>2, <1>4, <2>1, <3>1, <3>3 DEF CountIsSound
  <2>2. CASE to < from
    <3>1. to <= c /\ c <= from /\ c # to /\ d = c - 1 /\ count = -WorkingDays(c, from - 1)
      BY <1>1, <1>2, <1>3, <1>4, <2>2 DEF CountIsSound
    <3>2. WorkingDays(d, from - 1) = WorkingDays(c, from - 1) + IF Working(d) THEN 1 ELSE 0
      <4>1. PICK a \in Int : a = from - 1
        OBVIOUS
      <4>2. d <= a /\ d + 1 = c
        BY <3>1, <4>1
      <4>3. OneMore(WorkingDays(d, a), WorkingDays(c, a), d)
        BY <4>2, DayBefore
      <4>4. QED
        BY <4>1, <4>3 DEF OneMore
    <3>3. WorkingDays(c, from - 1) \in Nat
      <4>1. PICK a \in Int : a = from - 1
        OBVIOUS
      <4>2. QED
        BY <4>1, DaysAreCounted
    <3>4. count' = -WorkingDays(d, from - 1)
      BY <1>1, <1>4, <1>6, <2>2, <3>1, <3>2, <3>3
    <3>5. QED
      BY <1>2, <1>4, <2>2, <3>1, <3>4 DEF CountIsSound
  <2>3. QED
    BY <2>1, <2>2
<1>8. QED
  BY <1>2, <1>3, <1>4, <1>7 DEF DaysAreSound

LEMMA DaysReturn == ASSUME DaysAreSound, ReturnDays PROVE DaysAreSound'
  BY DEF ReturnDays, DaysAreSound, CountIsSound

LEMMA DaysStep == ASSUME Years = Int PROVE DaysAreSound /\ [Next]_vars => DaysAreSound'
<1> SUFFICES ASSUME DaysAreSound, [Next]_vars PROVE DaysAreSound'
  OBVIOUS
<1>1. CASE addBusinessDays
  BY <1>1, DaysAdd
<1>2. CASE CountBack
  BY <1>2, DaysBack
<1>3. CASE businessDaysBetween
  BY <1>3, DaysBetween
<1>4. CASE ReturnDays
  BY <1>4, DaysReturn
<1>5. CASE UNCHANGED dateVars
  BY <1>5 DEF dateVars, DaysAreSound, AddIsSound, CountIsSound
<1>6. QED
  BY <1>1, <1>2, <1>3, <1>4, <1>5 DEF Next, Rules, Dates, HeatMap, DateNext, vars

LEMMA DaysAreRight == DaysAreSound => DaysAreWorkingDays
<1> SUFFICES ASSUME DaysAreSound PROVE DaysAreWorkingDays
  OBVIOUS
<1>1. dateCall.date \in Int /\ dateCall.by \in Int /\ end \in Int
  BY CallFacts DEF DaysAreSound
<1>2. PICK from, n, to \in Int : from = dateCall.date /\ n = dateCall.by /\ to = end
  BY <1>1
<1>3. dateCall.op = "add" /\ doing \in {"between", "done"} => Reached(from, n, to)
  BY <1>2 DEF DaysAreSound
<1>4. doing = "done" => CountIsSound(from, to) /\ cursor = to
  BY <1>2 DEF DaysAreSound
<1>5. WorkingDays(from + 1, to) \in Nat /\ WorkingDays(to, from - 1) \in Nat
  <2>1. PICK a, b \in Int : a = from + 1 /\ b = from - 1
    OBVIOUS
  <2>2. QED
    BY <2>1, DaysAreCounted
<1>6. doing = "done" =>
        count = IF from <= to THEN WorkingDays(from + 1, to) ELSE -WorkingDays(to, from - 1)
  BY <1>2, <1>4 DEF CountIsSound
<1>7. doing = "done" /\ dateCall.op = "add" => count = n
  BY <1>2, <1>3, <1>5, <1>6 DEF Reached
<1>8. QED
  BY <1>2, <1>3, <1>6, <1>7 DEF DaysAreWorkingDays, Reached

\* On the calendar of all years, for any dates, amounts and days added to the calendar:
\* adding business days goes as many working days away as it was asked for, and the days
\* between two dates are the working days after the first up to the second.
THEOREM DaysWorking == ASSUME Years = Int PROVE Spec => []DaysAreWorkingDays
<1>1. DaysAreSound /\ [Next]_vars => DaysAreSound'
  BY DaysStep
<1>2. QED
  BY <1>1, DaysInit, DaysAreRight, PTL DEF Spec
=============================================================================
