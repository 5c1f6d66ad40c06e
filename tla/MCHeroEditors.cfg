SPECIFICATION Spec
CONSTANTS
  alice = alice
  bob = bob
  t1 = t1
  t2 = t2
  Threads = {t1, t2}
  Subjects = {alice, bob}
  Tokens <- MCTokens
  Tabs = {t1}
  MaxId = 2
  Absent = Absent
  Nobody = Nobody
  Null = Null
  Blank = Blank
  Exponent = Exponent
  Half = 16
  NoPage = NoPage
  Typed <- MCTyped
  Bodies <- MCBodies
  OldBodies <- MCOldBodies
  Filters <- MCFilters
  MaxClock = 2
INVARIANTS
  TypeOK
  IdsHaveNoGaps
  EveryViewWritesBack
  FormSettles
  ScriptAgreesWithForm
  
PROPERTIES
  StampsFollowCommits
  ImplementsStore
