\* More clients than room, fractional refills and a restart.
CONSTANTS
  Clients = {c1, c2, c3}
  None = None
  Full <- MCFull
  Refill <- MCRefill
  Unit = 3
  StoreCapacity = 2
  IdleTicks = 2
  SecondTicks = 1
  MaxTime = 3
  MaxRestarts = 1
SPECIFICATION Spec
INVARIANTS StoresAreSound
PROPERTIES IdealBuckets
SYMMETRY ClientSymmetry
