\* A session the device has dropped.
SPECIFICATION Spec
CONSTANTS
  d1 = d1
  d2 = d2
  a1 = a1
  a2 = a2
  b1 = b1
  s1 = s1
  None = None
  Devices <- OneDevice
  Async <- TwoAsync
  Background <- NoThread
  Detached <- NoThread
  Workers = 1
PROPERTIES CallsOnOpenSession
