SPECIFICATION FairSpec
CONSTANTS
  Displays = {d1}
  MaxFrames = 3
  DropModes = {FALSE}
  SvepKinds = {FALSE}
  NormalMax = 1
  SvepMax = 2
  DropMax = 3
  SfOps = {}
  EventOps = {"power"}
  Faults = {}
PROPERTY FrameProgress
CHECK_DEADLOCK FALSE
