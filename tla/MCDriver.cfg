SPECIFICATION MCSpec
CONSTANTS
  NoText = none
  AllTypes = AllTypes
  NoBudget = NoBudget
  Inputs <- MCInputs
  Configs <- MCConfigs
INVARIANTS
  TypeOK
  PriorityReachesTarget
  DegradationPath
  BudgetHeld
  NoInversion
  OutputComplete
  FailsOnlyOnShown
  SummaryIsRenderAll
CHECK_DEADLOCK FALSE
