SPECIFICATION Spec
CONSTANTS
  Cap = 1
  IsBudget <- MCIsBudget
  IsNumeral <- MCIsNumeral
  IsDash <- MCIsDash
  InTests <- MCInTests
  Stem <- MCStem
  StillParses <- MCStillParses
  KeyBefore <- MCKeyBefore
INVARIANTS
  OnePromiseIsKept
CHECK_DEADLOCK FALSE
