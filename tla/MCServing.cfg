SPECIFICATION Spec
CONSTANTS
  W = 16
  Builds = {TRUE, FALSE}
  Trees <- MCTrees
  Cwd <- MCCwd
  Cases <- MCCases
  Transforms <- ActionSets
  Mappings <- MCMappings
  Services <- MCServices
  Rules <- MCRules
  AsChars <- MCAsChars
  AsUtf8 <- MCAsUtf8
  NotWords <- MCNotWords
  JsonValues <- MCJsonValues
INVARIANTS RangesAreExact StaticFollowsTheUri
PROPERTIES LocationsTakeWholeNames GatewayKeepsTheRest MocksShowWhatTheyAskedFor EngineHasTheLastWord RewritesTouchOnlyTheirPath
CHECK_DEADLOCK FALSE
