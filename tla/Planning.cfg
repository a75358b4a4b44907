SPECIFICATION MCSpec
CONSTANTS
  gen = gen
  cc = cc
  link = link
  ping = ping
  pong = pong
  src0 = src0
  src = src
  hdr = hdr
  obj = obj
  exe = exe
  x = x
  y = y
  Edge = {gen, cc, link, ping, pong}
  Node = {src0, src, hdr, obj, exe, x, y}
  Inputs <- MCInputs
  Outputs <- MCOutputs
INVARIANTS TypeOK ClosureIsLeast DirtIsLeast PlanIsTopological CyclesAreFound
PROPERTY CallEnds
