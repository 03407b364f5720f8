\* Two workers, two sources with overlapping feeds, one crash or lost
\* connection; or a request for one of two sources whose configurations change
\* twice; under fair scheduling.
SPECIFICATION FairSpec
CONSTANTS
  s1 = s1  s2 = s2  w1 = w1  w2 = w2  h1 = h1
  moved = moved  twin = twin  other = other  bare = bare
  Sources = {s1, s2}
  Workers = {w1, w2}
  Handlers = {h1}
  Items <- MCItems
  Linkless <- MCLinkless
  Feeds <- MCFeeds
  HashOf <- MCHashOf
  ExternalIdOf <- MCExternalIdOf
  RightsPolicies = {"metadata_only", "blocked"}
  Configs <- EditedConfigs
  FirstSources <- AllRss
  Spent <- MCSpent
  MaxRetries = 1
  MaxRounds = 1
  MaxPosts = 1
  MaxPatches = 2
  MaxFaults = 1
INVARIANT TypeOK
INVARIANT RunsConsistent
INVARIANT NoDuplicateEntries
INVARIANT LedgerBalanced
INVARIANT MessagesLeaveAttempts
INVARIANT RightsFromCrawlablePolicy
PROPERTY ImplementsLedger
PROPERTY EveryMessageSettles
PROPERTY RunsEnd
