CONSTANTS
  Proc = {p1, p2, p3}
  Host = {h1, h2}
  MaxConcurrent = 2
  MinDelay = 1
  MaxJitter = 1
  NoSlot = NoSlot
  NoHost = NoHost
SPECIFICATION LiveSpec
INVARIANTS TypeOK ConcurrencyCap BurstBound
PROPERTIES ImplementsGate AcquireReturns
