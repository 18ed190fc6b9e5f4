SPECIFICATION FairReloadSpec
CONSTANTS
  Config = {bad, good1, good2}
  Valid = {good1, good2}
  Broken = Broken
  Updater = {u1, u2}
  MaxHistory = 2
  MaxEdits = 2
  MaxCalls = 2
PROPERTIES
  ChangesChain
  LastEditIsLoaded
CHECK_DEADLOCK FALSE
