SPECIFICATION Spec
CONSTANTS
  Blank = Blank
  Factor <- MCFactor
  IdentityOf <- MCIdentityOf
  Runs <- MCRuns
  Trace <- MCTrace
  Forbidden = {"c"}
  Elements <- MCElements
  CategoryOf <- MCCategoryOf
  ValueOf <- MCValueOf
  Met = {"d2"}
  Schedulable <- MCSchedulable
  Addins <- MCAddins
  Procs = {"service", "cli"}
  MaxPasses = 2
  MaxFaults = 1
  MaxEdits = 1
INVARIANTS LockIsOfAPass OneSchedulePerRule
PROPERTIES CleanRowsAreTrue QuietPassRepairs DryRunWritesNothing ManifestNamesWhatItMade
CHECK_DEADLOCK FALSE
