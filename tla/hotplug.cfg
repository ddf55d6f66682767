SPECIFICATION FairSpec
CONSTANTS
  Displays = {0, 1}
  Crtcs = {1, 2}
  Possible <- OwnCrtc
  Priority <- InOrder
  Modes = {1}
  Cap <- Unlimited
  RgbSinks = {0, 1}
  CommitFails = FALSE
  BootCrtcs <- AnyBoot
  EarlyCable = TRUE
  Bounce = FALSE
  MaxCable = 3
  MaxSetting = 0
  MaxPower = 1
INVARIANT TypeOK
INVARIANT KernelFollows
INVARIANT OwnersMatch
PROPERTY RegisteredFollowsCable
PROPERTY ConnectedGetsCrtc
CHECK_DEADLOCK FALSE
