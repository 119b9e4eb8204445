---------------------------- MODULE DependencyOrder ----------------------------
(***************************************************************************)
(* What sortRules promises: it places every code once, after the codes it  *)
(* depends on, and refuses exactly the graphs that cannot be ordered.      *)
(***************************************************************************)
EXTENDS Sequences

VARIABLES
  graph,   \* the codes that each code depends on
  placed,  \* the codes in order, as far as they have been placed
  verdict  \* "sorting", then "sorted" or "refused"

Placed == {placed[i] : i \in DOMAIN placed}

\* A dependency is missing, or some codes all wait for one of themselves.
Broken ==
  \/ \E c \in DOMAIN graph : ~(graph[c] \subseteq DOMAIN graph)
  \/ \E S \in SUBSET DOMAIN graph : S # {} /\ \A c \in S : graph[c] \cap S # {}

Init == placed = <<>> /\ verdict = "sorting"

Place(c) ==
  /\ verdict = "sorting"
  /\ c \notin Placed /\ graph[c] \subseteq Placed
  /\ placed' = Append(placed, c)
  /\ UNCHANGED <<graph, verdict>>

Sort ==
  /\ verdict = "sorting"
  /\ Placed = DOMAIN graph
  /\ verdict' = "sorted"
  /\ UNCHANGED <<graph, placed>>

Refuse ==
  /\ verdict = "sorting"
  /\ Broken
  /\ verdict' = "refused"
  /\ UNCHANGED <<graph, placed>>

Next == (\E c \in DOMAIN graph : Place(c)) \/ Sort \/ Refuse

Steps == Init /\ [][Next]_<<graph, placed, verdict>>

Spec == Steps /\ WF_<<graph, placed, verdict>>(Next)
=============================================================================
