SPECIFICATION Spec
CONSTANTS
  s1 = s1
  s2 = s2
  Servers <- TwoServers
  Asked <- AuditsOnOne
  Viewers = {v1}
  MaxJobs = 2
  MaxMarks = 1
  MaxFinished = 0
  MaxFaults = 1
PROPERTIES
  StreamClosesAtOutcome
CHECK_DEADLOCK FALSE
