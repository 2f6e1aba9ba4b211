SPECIFICATION ContextSpec
CONSTANTS
  N = 4
  U32Max = 7
  Estimates <- SmallEstimates
  Budgets <- SmallBudgets
  MaxLevels <- ShallowAndDeep
  SymbolCount = 4
  MaxNeighbours = 1
CHECK_DEADLOCK FALSE
INVARIANTS
  ClosureIsFull
