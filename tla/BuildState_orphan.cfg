SPECIFICATION Spec
CONSTANTS
  Edge = {app}
  Discovering = {}
  Process = {p1, p2}
  MaxBuilds = 2
  nobody = nobody
  nothing = nothing
  unreadable = unreadable
  Cut = {}
  CommandsOutliveForge = TRUE
INVARIANT OneBuildWrites
