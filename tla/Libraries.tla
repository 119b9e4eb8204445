------------------------------- MODULE Libraries -------------------------------
(***************************************************************************)
(* The computations that a request runs without waiting for anything else: *)
(* a rule evaluation, a calendar call and a heat map.  They share nothing, *)
(* so one of them at a time is given a call that matters, and the others   *)
(* one that ends at once.                                                  *)
(***************************************************************************)
EXTENDS RuleGraph, BusinessTime, SlaHeatMap

CONSTANTS NoRules, NoDays, NoItems  \* the calls that end at once

ASSUME LibrariesAssumption ==
  /\ NoRules \in Seq(Definition)
  /\ NoDays \in DateCall
  /\ IsHeatMapCall(NoItems)

vars == <<graphVars, dateVars, heatMapVars>>

Init ==
  \/ RulesInit(RuleSets) /\ CallInit({NoDays}) /\ HeatMapInit({NoItems})
  \/ RulesInit({NoRules}) /\ CallInit(DateCalls) /\ HeatMapInit({NoItems})
  \/ RulesInit({NoRules}) /\ CallInit({NoDays}) /\ HeatMapInit(HeatMapCalls)

Rules == RuleNext /\ UNCHANGED <<dateVars, heatMapVars>>

Dates == DateNext /\ UNCHANGED <<graphVars, heatMapVars>>

HeatMap == HeatMapNext /\ UNCHANGED <<graphVars, dateVars>>

Next == Rules \/ Dates \/ HeatMap

\* Synchronous code runs to its end once it is called.
Spec == Init /\ [][Next]_vars /\ WF_vars(Rules)
=============================================================================
