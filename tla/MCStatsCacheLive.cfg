SPECIFICATION FairSpec
CONSTANTS
  Replicas = {p1}
  Readers = {r1}
  Queries = {"stats"}
  Verbs = {"create", "delete"}
  Version <- MCVersion
  NoEntry = NoEntry
  Ttl = 2
  QueueCap = 1
  MaxWrites = 2
INVARIANTS
  ArchivedNeverUndercounts
PROPERTIES
  EventuallyFresh
  TaskStops
