\* Calls of every kind, more of them than workers, overtaken by the shutdown.
SPECIFICATION FairSpec
CONSTANTS
  d1 = d1
  d2 = d2
  a1 = a1
  a2 = a2
  b1 = b1
  s1 = s1
  None = None
  Devices <- TwoDevices
  Async <- TwoAsync
  Background <- OneBackground
  Detached <- OneDetached
  Workers = 1
INVARIANTS TypeOK MutualExclusion OneSession AllClosed
PROPERTIES EveryCallReturns
