CONSTANTS
  i1 = i1
  i2 = i2
  i3 = i3
  Id = {i1, i2, i3}
  Client = {c1, c2}
  Self = self
  None = None
  Rooted = {"/x", "/y"}
  Creates <- MCCreates
  Updates <- MCUpdates
  Deletes <- MCDeletes
  Imports <- MCImports
  Pulled <- MCPulled
  Queries <- MCQueries
  MaxCalls = 3
  MaxWrites = 4
  MaxPulls = 1
  MaxFailures = 1
SYMMETRY Clients
SPECIFICATION Spec
INVARIANTS
  BatchesStopAtTheFailure
  WalksMissNoRow
PROPERTIES
  UpdatesKeepTheRest
CHECK_DEADLOCK FALSE
