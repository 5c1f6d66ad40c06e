SPECIFICATION Spec
CONSTANTS
  alice = alice
  bob = bob
  low = low
  high = high
  s1 = s1
  s2 = s2
  Slots = {s1, s2}
  MaxId = 3
  Subjects = {alice, bob}
  Values = {low, high}
  Absent = Absent
  NoFilter = NoFilter
  NoRequest = NoRequest
  Unset = Unset
  Past = Past
  MaxMatched = 1
  Tables <- MCTables
  Inputs <- MCInputs
INVARIANT
  BulkWithinCap
CHECK_DEADLOCK FALSE
