\* An extraction, then a policy that blocks the source, then an evaluation.
SPECIFICATION Spec
CONSTANTS
  open = open  barred = barred  bookmark = bookmark
  r1 = r1  r2 = r2
  Entries = {open, barred, bookmark}
  Runners = {r1, r2}
  RightsOf <- MCRightsOf
  PoliciesOf <- MCPoliciesOf
  FailureLimit = 2
  MaxRuns = 2
  MaxChanges = 1
  MaxFaults = 0
SYMMETRY RunnerSymmetry
CHECK_DEADLOCK FALSE
INVARIANT AnalysisFollowsPolicy
