\* Four runs on three entries, of any stage or failed ingests, one cut off, one
\* policy changed.
SPECIFICATION Spec
CONSTANTS
  open = open  barred = barred  bookmark = bookmark
  r1 = r1  r2 = r2
  Entries = {open, barred, bookmark}
  Runners = {r1, r2}
  RightsOf <- MCRightsOf
  PoliciesOf <- MCPoliciesOf
  FailureLimit = 2
  MaxRuns = 4
  MaxChanges = 1
  MaxFaults = 1
SYMMETRY RunnerSymmetry
CONSTRAINT OneRefusal
CHECK_DEADLOCK FALSE
INVARIANT ExtractedIffText
INVARIANT CallsMatchOutputs
INVARIANT SummaryCitesItsEntry
INVARIANT EveryRunIsRecorded
INVARIANT NoModelSeesBlockedEntry
INVARIANT NoTextWithoutEligiblePolicy
