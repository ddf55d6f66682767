SPECIFICATION Spec
CONSTANTS
  Groups <- AllGroups
  ClusterOf <- AllClusters
  SubWindows <- SecondWindows
  ReservedIn8k <- Cluster1AndEsmart1
  Stacks <- AnyStack
  Settings <- AnySetting
  Screen <- ScreenOf
  MultiArea = TRUE
INVARIANTS TypeOK StackPreserved OneWindowEach ClusterShared FallsBack SkipComposedBySf
