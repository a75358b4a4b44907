SPECIFICATION MCFairSpec
CONSTANTS
  gen = gen
  cc1 = cc1
  cc2 = cc2
  link = link
  src = src
  hdr = hdr
  o1 = o1
  o2 = o2
  exe = exe
  w1 = w1
  w2 = w2
  w3 = w3
  nullptr = nullptr
  Edge = {gen, cc1, cc2, link}
  Node = {src, hdr, o1, o2, exe}
  Inputs <- MCInputs
  Outputs <- MCOutputs
  Worker = {w1, w2, w3}
  MaxRuns = 2
INVARIANTS
  TypeOK CountsExact DependencyOrder NoDoubleExecution NoLostWakeup
  SomeoneAwake
PROPERTIES NothingStartsAfterFailure EveryStepCounts ImplementsExecution RunReturns
