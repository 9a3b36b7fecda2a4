SPECIFICATION Spec
CONSTANTS
  f1 = f1
  f2 = f2
  Appliers = {w1}
  Proposals = {p1}
  Fixes = {f1}
  Baseline = {f1}
  Legacy = {p1}
  NoRecord = NoRecord
  NoLock = NoLock
  NoProposal = NoProposal
  SlowHolders = FALSE
  RenameReplaces = FALSE
  Environment = {"inbox", "texts", "records"}
  MaxCrashes = 1
INVARIANTS
  RecordNeverLost
  IntegrityGate
PROPERTIES
  AppliedNeverForgotten
