SPECIFICATION FairSpec
CONSTANTS
  f1 = f1
  f2 = f2
  Fixes = {f1, f2}
  MaxIssues = 2
  MaxFaults = 2
  NoIssue = NoIssue
  NoRecord = NoRecord
INVARIANT ProposalsAccountedFor
PROPERTY EventuallyParked
