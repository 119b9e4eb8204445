------------------------------- MODULE RuleGraph -------------------------------
(***************************************************************************)
(* @haizel/rules-dsl: evaluateRuleGraph orders the rules so that each one  *)
(* comes after its dependencies (sortRules, a depth-first walk), then      *)
(* evaluates them in that order.  `stack` is the call stack of `visit`;    *)
(* its codes are the set `visiting`, those of `ordered` the set `visited`. *)
(*                                                                         *)
(* An expression is abstracted to what decides it: "fires", "rests" and    *)
(* "throws" depend on the inputs alone, any other value is a code c and    *)
(* stands for dependencies.c == 'fail'.  Messages are left out, and the    *)
(* option includePassFindings, which adds findings, is off.                *)
(***************************************************************************)
EXTENDS Integers, FiniteSets, SequencesExt

CONSTANT RuleSets  \* the arrays of definitions that callers pass

Definition ==
  [code : STRING, dependencies : Seq(STRING), expression : STRING, severity : {"warn", "fail"}]

ASSUME RuleGraphAssumption == RuleSets \subseteq Seq(Definition)

VARIABLES
  rules,      \* the definitions
  at,         \* "sort", "evaluate", "done", or the error thrown
  next,       \* how many turns of the loop of sortRules are over
  stack,      \* the active calls of visit: a code, and its dependencies visited
  ordered,    \* the codes in order
  outcomes,   \* the result of each code evaluated
  aggregate,
  findings    \* the codes with a finding

graphVars == <<rules, at, next, stack, ordered, outcomes, aggregate, findings>>

Codes == {rules[i].code : i \in DOMAIN rules}

\* Mutant: the first definition of a code is kept.
definitionMapMutant ==
  [c \in Codes |-> rules[CHOOSE i \in DOMAIN rules :
     rules[i].code = c /\ \A j \in 1..(i - 1) : rules[j].code # c]]

\* new Map: of several definitions of a code the last one is kept.
definitionMap ==
  [c \in Codes |-> rules[CHOOSE i \in DOMAIN rules :
     rules[i].code = c /\ \A j \in (i + 1)..Len(rules) : rules[j].code # c]]

RulesInit(sets) ==
  /\ rules \in sets
  /\ at = "sort" /\ next = 0 /\ stack = <<>> /\ ordered = <<>>
  /\ outcomes = <<>> /\ aggregate = "pass" /\ findings = <<>>

-----------------------------------------------------------------------------
(* sortRules *)

visited == ToSet(ordered)

visiting == {stack[k].code : k \in DOMAIN stack}

\* The call visit(code), from a frame or a loop that is already advanced in `s`.
Visit(code, s) ==
  \/ /\ code \in visited
     /\ stack' = s /\ UNCHANGED at
  \/ /\ code \notin visited /\ code \in visiting
     /\ at' = "cycle" /\ stack' = s
  \/ /\ code \notin visited \cup visiting \cup Codes
     /\ at' = "missing" /\ stack' = s
  \/ /\ code \in Codes \ (visited \cup visiting)
     /\ stack' = Append(s, [code |-> code, deps |-> 0]) /\ UNCHANGED at

Top == stack[Len(stack)]

Deps(code) == definitionMap[code].dependencies

\* The loop over the definitions.
VisitDefinition ==
  /\ at = "sort" /\ stack = <<>> /\ next < Len(rules)
  /\ next' = next + 1
  /\ Visit(rules[next + 1].code, stack)
  /\ UNCHANGED <<rules, ordered, outcomes, aggregate, findings>>

\* The loop over the dependencies of the code on top.
VisitDependency ==
  /\ at = "sort" /\ stack # <<>> /\ Top.deps < Len(Deps(Top.code))
  /\ Visit(Deps(Top.code)[Top.deps + 1], [stack EXCEPT ![Len(stack)].deps = @ + 1])
  /\ UNCHANGED <<rules, next, ordered, outcomes, aggregate, findings>>

\* Mutant: the code is placed before its last dependency has been visited.
LeaveMutant ==
  /\ at = "sort" /\ stack # <<>> /\ Top.deps + 1 >= Len(Deps(Top.code))
  /\ ordered' = Append(ordered, Top.code)
  /\ stack' = Front(stack)
  /\ UNCHANGED <<rules, at, next, outcomes, aggregate, findings>>

\* visit returns.
Leave ==
  /\ at = "sort" /\ stack # <<>> /\ Top.deps = Len(Deps(Top.code))
  /\ ordered' = Append(ordered, Top.code)
  /\ stack' = Front(stack)
  /\ UNCHANGED <<rules, at, next, outcomes, aggregate, findings>>

ReturnOrdered ==
  /\ at = "sort" /\ stack = <<>> /\ next = Len(rules)
  /\ at' = "evaluate"
  /\ UNCHANGED <<rules, next, stack, ordered, outcomes, aggregate, findings>>

-----------------------------------------------------------------------------
(* evaluateRuleGraph *)

\* buildEvaluationEnvironment: the results of the declared dependencies only;
\* reading any other code gives undefined.
Triggered(rule, results) ==
  \/ rule.expression = "fires"
  \/ /\ rule.expression \in ToSet(rule.dependencies) \cap DOMAIN results
     /\ results[rule.expression] = "fail"

normalizeResult(current, new) ==
  LET precedence == [pass |-> 0, warn |-> 1, fail |-> 2]
  IN  IF precedence[new] > precedence[current] THEN new ELSE current

Rule == definitionMap[ordered[Cardinality(DOMAIN outcomes) + 1]]

\* A turn of the loop over the ordered rules: passes leave no finding.
Evaluate ==
  LET severity == IF Triggered(Rule, outcomes) THEN Rule.severity ELSE "pass"
  IN  /\ at = "evaluate" /\ Cardinality(DOMAIN outcomes) < Len(ordered)
      /\ Rule.expression # "throws"
      /\ outcomes' = [c \in DOMAIN outcomes \cup {Rule.code} |->
                        IF c = Rule.code THEN severity ELSE outcomes[c]]
      /\ aggregate' = normalizeResult(aggregate, severity)
      /\ findings' = findings \o IF severity = "pass" THEN <<>> ELSE <<Rule.code>>
      /\ UNCHANGED <<rules, at, next, stack, ordered>>

\* The parser or the expression throws, and so does the whole evaluation.
Raise ==
  /\ at = "evaluate" /\ Cardinality(DOMAIN outcomes) < Len(ordered)
  /\ Rule.expression = "throws"
  /\ at' = "threw"
  /\ UNCHANGED <<rules, next, stack, ordered, outcomes, aggregate, findings>>

ReturnSummary ==
  /\ at = "evaluate" /\ Cardinality(DOMAIN outcomes) = Len(ordered)
  /\ at' = "done"
  /\ UNCHANGED <<rules, next, stack, ordered, outcomes, aggregate, findings>>

RuleNext ==
  \/ VisitDefinition \/ VisitDependency \/ Leave \/ ReturnOrdered
  \/ Evaluate \/ Raise \/ ReturnSummary

-----------------------------------------------------------------------------
(* What an evaluation promises *)

\* The codes that code c waits for, in the definition that counts.
Graph == [c \in Codes |-> ToSet(Deps(c))]

Order == INSTANCE DependencyOrder WITH
  graph <- Graph,
  placed <- ordered,
  verdict <- CASE at = "sort" -> "sorting"
               [] at \in {"cycle", "missing"} -> "refused"
               [] OTHER -> "sorted"

\* sortRules places every code once and after its dependencies, gives up on
\* cycles and missing codes and on nothing else, and always comes to an end.
ImplementsOrder == Order!Spec

\* The result of a rule is that of the last definition of its code, applied to
\* the final results of the rules it depends on, whatever the order of the
\* definitions; a rule cannot see the result of one it does not declare.  And the
\* summary is that of its findings: the worst of them, or a pass when there is
\* none; each rule that did not pass is there once, after its dependencies.
EvaluationAgrees ==
  at = "done" =>
    LET bad(s) == {c \in Codes : outcomes[c] = s}
    IN  /\ DOMAIN outcomes = Codes
        /\ \A i \in DOMAIN rules :
             LET r == rules[i]
                 fires == \/ r.expression = "fires"
                          \/ \E d \in Graph[r.code] : r.expression = d /\ outcomes[d] = "fail"
             IN  (\A j \in DOMAIN rules : j > i => rules[j].code # r.code) =>
                   outcomes[r.code] = IF fires THEN r.severity ELSE "pass"
        /\ aggregate = IF bad("fail") # {} THEN "fail"
                       ELSE IF bad("warn") # {} THEN "warn" ELSE "pass"
        /\ ToSet(findings) = bad("fail") \cup bad("warn")
        /\ \A i, j \in DOMAIN findings : i < j =>
             findings[i] # findings[j] /\ findings[j] \notin Graph[findings[i]]
=============================================================================
