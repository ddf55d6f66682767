SPECIFICATION FairSpec
CONSTANTS
  Displays = {d1, d2}
  MaxFrames = 3
  DropModes = {TRUE, FALSE}
  SvepKinds = {TRUE, FALSE}
  NormalMax = 1
  SvepMax = 2
  DropMax = 3
  SfOps = {}
  EventOps = {}
  Faults = {}
INVARIANTS ScreenFenceHeld
PROPERTIES KeepsPromise
CHECK_DEADLOCK FALSE
