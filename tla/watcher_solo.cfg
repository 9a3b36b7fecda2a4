SPECIFICATION Spec
CONSTANTS
  f1 = f1
  f2 = f2
  Appliers = {w1}
  Proposals = {p1}
  Fixes = {f1, f2}
  Baseline = {f1, f2}
  Legacy = {}
  NoRecord = NoRecord
  NoLock = NoLock
  NoProposal = NoProposal
  SlowHolders = FALSE
  RenameReplaces = FALSE
  Environment = {"edits", "statuses"}
  MaxCrashes = 1
SYMMETRY FixSymmetry
INVARIANTS
  RecordsAreTrue
  CloseJustified
PROPERTIES
  NeverClobber
