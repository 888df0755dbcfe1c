\* Crashes at any point, steps of a recovery that fail, two names that compete for
\* their ports.
SPECIFICATION FairRecoverySpec
CONSTANTS
  a = a
  b = b
  p1 = p1
  p2 = p2
  c1 = c1
  None = None
  Names = {a, b}
  Ports = {p1, p2}
  Clients = {}
  Manifests <- OneManifest
  MaxSpawns = 2
  MaxCrashes = 2
  Faults = {"launch", "rebind", "disk", "read", "pidfd", "asyncfd"}
INVARIANTS
  RecoveryTypeOK
  RecordedIsTracked
  
PROPERTIES
  RecoveryEnds
\* The daemon comes to rest when the bounds are used up.
CHECK_DEADLOCK FALSE
