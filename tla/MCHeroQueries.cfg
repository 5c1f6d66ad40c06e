SPECIFICATION Spec
CONSTANTS
  Tables <- MCTables
  Clauses <- MCClauses
  Sorts <- MCSorts
  Pages <- MCPages
  Null = Null
  Half = 4
  CreatedIn <- MCCreatedIn
  Requests <- MCRequests
  Cap = 2
INVARIANTS
  RepositoriesFilterAlike
  PagesAlike
  OrderByIdIsTotal
  AggregatesAddUp
