CONSTANTS
  Target = 4
  Cap = 6
SPECIFICATION FairSpec
INVARIANTS EncoderTypeOK ExactCount
PROPERTIES  MotionEnds
