SPECIFICATION Spec
CONSTANTS
  Edge = {obj, app}
  Discovering = {obj}
  Process = {p1, p2}
  MaxBuilds = 2
  nobody = nobody
  nothing = nothing
  unreadable = unreadable
  Cut = {"build", "deps"}
  CommandsOutliveForge = TRUE
INVARIANT PartialIsMarked
SYMMETRY Symmetric
