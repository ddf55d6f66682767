SPECIFICATION FairSpec
CONSTANTS
  Displays = {d1}
  MaxFrames = 3
  DropModes = {TRUE, FALSE}
  SvepKinds = {TRUE, FALSE}
  NormalMax = 1
  SvepMax = 2
  DropMax = 3
  SfOps = {"power", "badlayer"}
  EventOps = {"hotplug"}
  Faults = {"disable", "commit"}
INVARIANTS TypeOK FencesInOrder PipelineInOrder PhasesAgree
PROPERTIES FrameProgress
CHECK_DEADLOCK FALSE
