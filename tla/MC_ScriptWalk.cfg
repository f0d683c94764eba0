CONSTANTS
  Map <- Workspace
  Bias <- BiasAngles
  Tangent <- TangentOf
  Tasks <- AllTasks
SPECIFICATION FairSM
INVARIANTS SMTypeOK SyncParity KeepsFormation
PROPERTIES CentreOnPath WalkEnds RightTurnsTogether
