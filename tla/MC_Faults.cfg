CONSTANTS
  N = 2
  Script <- TeamScript
  Due <- TeamDue
  Syncs <- TeamSyncs
SPECIFICATION FairFaults
INVARIANTS ServerSurvives OneCommand AtMostTwice
PROPERTIES PlanWhileServed 
CHECK_DEADLOCK FALSE
