SPECIFICATION Spec
CONSTANTS
  Cap = 1
  IsBudget <- MCIsBudget
  IsNumeral <- MCIsNumeral
  IsDash <- MCIsDash
  InTests <- MCInTests
  Stem <- MCStem
  StillParses <- MCStillParses
  KeyBefore <- MCKeyBefore
INVARIANTS
  ParsesTheGrammar
  TestSummaryIsTrue
  StatusAgreesWithHeader
  DiffCountsAreTrue
  IncrementalIsFull
  MentionsAreResolved
  BodiesAreTheSubjects
CHECK_DEADLOCK FALSE
