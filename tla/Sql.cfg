SPECIFICATION SoundSpec
CONSTANTS
  IntBits = 7
  LitBits = 5
  RealBits = 5
  NCols = 2
  RootPage = 2
  Dividers = {3}
  MaxResets = 1
INVARIANTS
  AnswersRight
  ChangesRight
  FailsWhenItMust
  
  ScansRight
PROPERTIES
  NothingTwice
  StepReturns
CHECK_DEADLOCK FALSE
