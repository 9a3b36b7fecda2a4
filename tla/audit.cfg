SPECIFICATION Spec
CONSTANTS
  a = a
  c = c
  b = b
  m = m
  h = h
  g = g
  Problems <- AllProblems
  Rules <- AllRules
  Geometry = {"clash"}
  RuleOf <- RuleFor
  Target <- Targets
  Strategy <- StrategyFor
  Policy <- PolicyFor
  IssuePolicy <- IssuePolicyFor
  Reveals <- Pong
  Models <- SomeModels
  Profiles <- Variants
  MaxIterations = 2
  MaxRuns = 2
  MaxEvents = 1
INVARIANTS
  EscalatedOnce
  RecordIsHonest
  WatchdogReaped
PROPERTIES
  OnlyGrantedWrites
  RunEnds
CHECK_DEADLOCK FALSE
