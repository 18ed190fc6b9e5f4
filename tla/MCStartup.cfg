SPECIFICATION Spec
CONSTANTS
  V4Bits = 2
  V6Bits = 3
  None = None
  Engine = {"e1", "e2"}
  Address = {"a1", "a2", "u1", "metrics"}
  Database = {"db"}
  Parts = 2
  Configs <- MCConfigs
  Peers <- MCPeers
  Levels = {"strict", "none"}
  Metrics = "metrics"
  Outside <- MCOutside
  Checked = {TRUE, FALSE}
  MaxStarts = 2
INVARIANTS
  SchemasAreWhole
  FiltersFollowTheirRules
PROPERTIES
  ValidEnginesOnlyMissTheirAddress
  StartableEnginesRun
CHECK_DEADLOCK FALSE
