SPECIFICATION Spec
CONSTANTS
  d1 = d1
  d2 = d2
  d3 = d3
  w = w
  s = s
  td = td
  tw = tw
  NoThing = NoThing
  Unread = Unread
  NoCategory = NoCategory
  AnyLabel = AnyLabel
  Elements = {d1, d2, d3, w, s}
  Types = {td, tw}
  Category <- Cat
  TypeOf <- TypesOf
  HostOf <- HostsOf
  Entry <- Catalog
  Display <- Names
  Sheets = {"sheets"}
  Targets <- Asked
  Rules <- AllRules
  NeedsSpace = TRUE
  Bulk = TRUE
  Models <- SomeModels
  Edits = {"nr"}
  Concurrency = 1
  Cap = 2
  MaxPasses = 2
  MaxEdits = 1
  MaxFaults = 1
  g1 = g1
  g2 = g2
  g3 = g3
  p1 = p1
  p2 = p2
  Rulesets <- Either
  GeoRules = {"low", "high", "wide", "tight", "reach", "side", "gone", "sight"}
  Kind <- Kinds
  Direction <- Directions
  View <- Views
  Threshold <- Thresholds
  Pair <- Pairs
  Link <- Links
  Host = "host"
  Filter <- Filters
  Everywhere = Everywhere
  Solids = {g1, g2}
  Distances <- Readouts
  Spaces = {p1, p2}
  SpaceOf <- Places
  Outside = "outside"
  Supplied = {}
  Loaded = {"linked"}
  ProbeFactor = 2
  ProbeMargin = 3
  MaxClashes = 2
  MaxElements = 1
  NotLoaded = NotLoaded
  MaxGeoFaults = 1
INVARIANTS
  VerdictsAreTrue
  OneReadPerThing
  NothingLost
  GeometryIsHonest
PROPERTIES
  PassEnds
CHECK_DEADLOCK FALSE
