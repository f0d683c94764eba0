CONSTANTS
  N = 3
  Rounds = 3
  Syncs <- EqualSyncs
SPECIFICATION FairSpec
INVARIANTS BarrierSafe NoStaleAck BarrierInv
PROPERTIES ImplementsRendezvous TeamFinishes
