SPECIFICATION Spec
CONSTANTS
  Edge = {obj, app}
  Discovering = {obj}
  Process = {p1, p2}
  MaxBuilds = 3
  nobody = nobody
  nothing = nothing
  unreadable = unreadable
  Cut = {"build"}
  CommandsOutliveForge = FALSE
INVARIANTS TypeOK BelievedIsTrue PlansWithTheTruth OneBuildWrites
PROPERTIES CommitsTheBuild ImplementsTrustedState
SYMMETRY Symmetric
