SPECIFICATION Spec
CONSTANTS
  RuleSets <- SomeRules
  DateCalls <- SomeDateCalls
  Years <- SomeYears
  additionalHolidays <- SomeHolidays
  Now <- SomeNow
  HeatMapCalls <- SomeHeatMaps
  NoRules <- NoRulesDef
  NoDays <- NoDaysDef
  NoItems <- NoItemsDef
CHECK_DEADLOCK FALSE
INVARIANTS
  EvaluationAgrees
  DaysAreWorkingDays
  CellsCountItems
PROPERTIES
  ImplementsOrder
