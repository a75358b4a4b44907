SPECIFICATION Spec
CONSTANTS
  steady = steady
  varying = varying
  b1 = b1
  b2 = b2
  b3 = b3
  Worker = {w1, w2}
  Key = {steady, varying}
  Bytes = {b1, b2, b3}
  Makes <- MCMakes
  absent = absent
  garbled = garbled
  MaxKills = 1
  MaxFaults = 2
INVARIANTS TypeOK OutputIsGenuine NothingTorn
PROPERTY EntriesStay
SYMMETRY Symmetric
