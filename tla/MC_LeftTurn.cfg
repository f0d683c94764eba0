CONSTANTS
  Map <- Workspace
  Bias <- BiasAngles
  Tangent <- TangentOf
  Tasks <- Production
SPECIFICATION FairSM
PROPERTY TeamTurnsTogether
