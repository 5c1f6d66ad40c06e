SPECIFICATION FairSpec
CONSTANTS
  Requests = {r1, r2}
  Ttl = 2
  Latency = 1
  MaxKey = 1
  NoCache = NoCache
  Credentials <- MCCredentials
  ClaimSets <- MCClaimSets
  None = None
  Basic = Basic
  Unreadable = Unreadable
  Presented = Presented
INVARIANTS
  TypeOK
  AnswersLagBehindByTtl
  ChallengesSayWhy
  GoodTokensAreServed
  ManifestListsWhatMayBeRead
PROPERTIES
  EventuallyCurrent
