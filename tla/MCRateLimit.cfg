SPECIFICATION FairSpec
CONSTANTS
  Callers <- MCCallers
  Limit <- MCLimit
  Window = 3
  NoAnswer = NoAnswer
  NoCounter = NoCounter
  MaxHits = 3
  MaxLosses = 1
INVARIANTS
  TypeOK
  SpanMeetsTwoWindows
PROPERTIES
  ImplementsFixedWindow
  BudgetComesBack
