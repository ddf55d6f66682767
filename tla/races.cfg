SPECIFICATION FairSpec
CONSTANTS
  Displays = {d1}
  MaxFrames = 3
  DropModes = {TRUE, FALSE}
  SvepKinds = {TRUE, FALSE}
  NormalMax = 1
  SvepMax = 2
  DropMax = 3
  SfOps = {"power", "badlayer"}
  EventOps = {"power", "hotplug"}
  Faults = {"collect", "commit", "disable"}
INVARIANTS SignalledOnce BlockedHasReason OnePlace
PROPERTIES ScreenMovesForward PowerOffDrains PresentReturns
CHECK_DEADLOCK FALSE
