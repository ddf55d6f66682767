SPECIFICATION Spec
CONSTANTS
  Displays = {0, 1, 2}
  Tunnels = {1, 2, 3, 4}
  Buffers <- Pools
  Setups <- Situations
INVARIANTS TypeOK DrawnIsHeld NothingLeaks ListedIsPending
PROPERTY VideoFlows
CHECK_DEADLOCK FALSE
