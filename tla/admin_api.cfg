\* Two requests at once on two sources, by an administrator or a reader whose
\* session may end at any moment; one failed statement.
SPECIFICATION FairSpec
CONSTANTS
  admin = admin  reader = reader  b1 = b1  b2 = b2  h1 = h1  h2 = h2
  Absent = Absent  NoUser = NoUser
  MaxSources = 3
  Urls = {"none", "first", "second", "third"}
  RightsPolicies = {"metadata_only", "private_allowed", "blocked"}
  DefaultConfig <- MCDefault
  CreateBodies <- MCCreateBodies
  PatchBodies <- MCPatchBodies
  Registered <- MCRegistered
  Browsers = {b1}
  Users = {admin, reader}
  Admins = {admin}
  MaxSessions = 1
  RawEntryIds = {1}
  FeedbackIds = {1}
  Named <- MCNamed
  ReviewBodies <- MCReviewBodies
  FormBodies <- MCFormBodies
  Handlers = {h1, h2}
  MaxRequests = 2
  MaxFaults = 1
CHECK_DEADLOCK FALSE
INVARIANT OnlyAdminsChange
INVARIANT AuditAccountsForChanges
PROPERTY ImplementsVersions
PROPERTY ChangesSeeTheirPast
PROPERTY RequestsEnd
