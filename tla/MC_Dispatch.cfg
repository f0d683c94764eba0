CONSTANTS
  N = 3
  Script <- TeamScript
  Due <- TeamDue
  Syncs <- TeamSyncs
SPECIFICATION FairDispatch
INVARIANTS DispatchInv InStep WholeCommand
PROPERTIES UsesBarrier ImplementsPlan ScriptsEnd
