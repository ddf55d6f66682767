SPECIFICATION Spec
CONSTANTS
  Displays = {0, 1}
  Crtcs = {1, 2}
  Possible <- SharedCrtc
  Priority <- InOrder
  Modes = {1, 2}
  Cap <- Capability
  RgbSinks = {0, 1}
  CommitFails = TRUE
  BootCrtcs <- TakenBoot
  EarlyCable = TRUE
  Bounce = FALSE
  MaxCable = 2
  MaxSetting = 1
  MaxPower = 0
INVARIANT MirrorsAgree
INVARIANT ChangeIsAwaited
INVARIANT PlanesWithOwner

CHECK_DEADLOCK FALSE
