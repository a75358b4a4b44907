SPECIFICATION SpecOneStart
CONSTANTS
  ccA = ccA
  ccB = ccB
  link = link
  srcA = srcA
  srcB = srcB
  hdr = hdr
  objA = objA
  objB = objB
  exe = exe
  t1 = t1
  t2 = t2
  c1 = c1
  c2 = c2
  k1 = k1
  k2 = k2
  Edge = {ccA, link}
  Node = {srcA, hdr, objA, exe}
  Inputs <- MCInputs
  Outputs <- MCOutputs
  Includes <- MCIncludes
  Text = {t1, t2}
  Discovering = {ccA}
  Command = {c1, c2}
  Compiler = {k1, k2}
  partial = partial
  nothing = nothing
  EditsWhileRead = FALSE
  InstallsInRun = FALSE
  MaxChanges = 3
INVARIANTS TypeOK UpToDate NothingLeftToDo CacheHitsAreRight
SYMMETRY Symmetric
