SPECIFICATION Spec
CONSTANTS
  Replicas = {p1, p2}
  Readers = {r1}
  Queries = {"predict"}
  Verbs = {"update"}
  Version <- MCVersion
  NoEntry = NoEntry
  Ttl = 1
  QueueCap = 1
  MaxWrites = 2
INVARIANTS
  TypeOK
  StaleWillBeDropped
SYMMETRY MCSymmetry
