SPECIFICATION Spec
CONSTANTS
  Displays = {0, 1}
  Crtcs = {1, 2}
  Possible <- SharedCrtc
  Priority <- InOrder
  Modes = {1, 2}
  Cap <- Capability
  RgbSinks = {0, 1}
  CommitFails = FALSE
  BootCrtcs <- DarkBoot
  EarlyCable = FALSE
  Bounce = FALSE
  MaxCable = 2
  MaxSetting = 1
  MaxPower = 0
INVARIANT RebindReleasesFirst

CHECK_DEADLOCK FALSE
