SPECIFICATION FairSpec
CONSTANTS
  f1 = f1
  f2 = f2
  Appliers = {w1, w2}
  Proposals = {p1}
  Fixes = {f1}
  Baseline = {f1}
  Legacy = {}
  NoRecord = NoRecord
  NoLock = NoLock
  NoProposal = NoProposal
  SlowHolders = FALSE
  RenameReplaces = FALSE
  Environment = {}
  MaxCrashes = 1
INVARIANTS
  OneApplierPerRecord
  RecordsAreTrue
PROPERTIES
  EventuallySettled
