CONSTANTS
  Codes = 3
  Lag = 1
  Headings = {0}
  Offsets <- MCOffsets
  Angles = {0}
  Turns <- MCTurns
  Biases <- MCBiases
  Spun = 90
  Home = 1
SPECIFICATION FairMotion
INVARIANTS MotionTypeOK TurnsTrue Stands 
PROPERTIES StopsAtItsCode QrTurnEnds
CHECK_DEADLOCK FALSE
