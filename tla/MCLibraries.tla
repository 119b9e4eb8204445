------------------------------ MODULE MCLibraries ------------------------------
(* Instances of the libraries for TLC. *)
EXTENDS Libraries

\* Three definitions, the last one of a code of its own or that of the first;
\* a dependency may be missing (Z), on the rule itself, or part of a cycle.
Definitions(code) ==
  LET deps == {<<>>, <<"C", "B">>} \cup {<<d>> : d \in {"A", "B", "C", "Z"} \ {code}}
  IN  {r \in [code : {code}, dependencies : deps, expression : {"fires", "B"},
              severity : {"warn", "fail"}] :
         r.severity = "warn" => r.expression = "fires" /\ Len(r.dependencies) # 1}

SomeRules ==
  {<<a, b, c>> : a \in Definitions("A"), b \in Definitions("B"),
                 c \in Definitions("C") \cup {x \in Definitions("A") : x.expression = "B"}}
  \cup {<<[code |-> "A", dependencies |-> <<>>, expression |-> e, severity |-> "fail"]>> :
          e \in {"rests", "throws"}}

\* Around New Year's Day, which is kept in the old year when it is a Saturday.
SomeDateCalls ==
  {[op |-> "add", date |-> d, by |-> n] :
     d \in DayOf(2021, 12, 15)..DayOf(2022, 7, 15), n \in {-3, 0, 1, 5}}
  \cup {[op |-> "between", date |-> d, by |-> n] :
          d \in {DayOf(2021, 12, 23), DayOf(2021, 7, 4), DayOf(2023, 11, 11)},
          n \in {-14, 0, 14}}

SomeYears == 2019..2024

SomeHolidays == {DayOf(2022, 5, 31), DayOf(2022, 7, 2)}

\* Times at and around the start of a range, the present and the day after it.
SomeNow == 40 * Day + 30

SomeItems ==
  {[id |-> 1, mine |-> TRUE, slaDueAt |-> t, done |-> s] :
     t \in {NoDate, SomeNow - 7 * Day - 1, SomeNow - 7 * Day, SomeNow - 1, SomeNow,
            SomeNow + Day - 1, SomeNow + Day}, s \in BOOLEAN}

SomeHeatMaps ==
  {[scope |-> s, range |-> r,
    items |-> {i, [j EXCEPT !.id = 2],
               [id |-> 3, mine |-> TRUE, slaDueAt |-> SomeNow + 29, done |-> FALSE],
               [id |-> 4, mine |-> FALSE, slaDueAt |-> SomeNow, done |-> FALSE]}] :
     s \in {"tasks", "orders"}, r \in {"week", "month"}, i \in SomeItems, j \in SomeItems}

NoRulesDef == <<>>

NoDaysDef == [op |-> "between", date |-> DayOf(2022, 7, 2), by |-> 0]

NoItemsDef == [scope |-> "tasks", range |-> "week", items |-> {}]
=============================================================================
