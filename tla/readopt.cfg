SPECIFICATION FairSpec
CONSTANTS
  f1 = f1
  f2 = f2
  Fixes = {f1}
  MaxIssues = 2
  MaxFaults = 2
  NoIssue = NoIssue
  NoRecord = NoRecord
PROPERTY EventuallyProposed
