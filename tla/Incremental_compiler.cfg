SPECIFICATION Spec
CONSTANTS
  ccA = ccA
  ccB = ccB
  link = link
  srcA = srcA
  srcB = srcB
  hdr = hdr
  objA = objA
  objB = objB
  exe = exe
  t1 = t1
  t2 = t2
  c1 = c1
  c2 = c2
  k1 = k1
  k2 = k2
  Edge = {ccA, ccB}
  Node = {srcA, srcB, hdr, objA, objB}
  Inputs <- MCInputs
  Outputs <- MCOutputs
  Includes <- MCIncludes
  Text = {t1}
  Discovering = {ccA, ccB}
  Command = {c1}
  Compiler = {k1, k2}
  partial = partial
  nothing = nothing
  EditsWhileRead = FALSE
  InstallsInRun = TRUE
  MaxChanges = 3
INVARIANT RestoresAreRight
