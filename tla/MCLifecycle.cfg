SPECIFICATION FairSpec
CONSTANTS
  Unset = Unset
  NotUnicode = NotUnicode
  Word = Word
  Year = 3
  Environments <- MCEnvironments
  MaxTime = 2
  Requests = {r1, r2}
  PoolSize = 1
INVARIANTS
  TypeOK
  ProductionIsStrict
  OnlyTheClockInvalidates
  PoolOutlivesItsUsers
  DrainFlushesLast
PROPERTIES
  ShutdownEnds
CHECK_DEADLOCK FALSE
