SPECIFICATION Spec
CONSTANTS
  Elements <- MCElements
  Types = {"t"}
  Families = {"f1", "f2"}
  CategoryOf <- MCCategoryOf
  TypeOf <- MCTypeOf
  FamilyOf <- MCFamilyOf
  Params <- MCParams
  OnType = {"Fire Rating"}
  Values <- MCValues
  Null = "none"
  Loaded <- MCLoaded
  MaxElements = 2
  Rules <- MCRules
  Rule <- MCRule
  Pairs <- MCPairs
  Fits <- MCFits
  Suggested <- MCSuggested
  Answers <- MCAnswers
  Minutes <- MCMinutes
  LooksRated <- MCLooksRated
  Norm <- MCNorm
  Suffixed <- MCSuffixed
  BatchMin = 1
  Budget = 3
  ProposeOnly = FALSE
  DryRunOnly = FALSE
  Scenarios <- MCScenarios
  MaxPasses = 2
INVARIANTS ValuesAreRight StableNumbers ExecutedIsTrue
CHECK_DEADLOCK FALSE
