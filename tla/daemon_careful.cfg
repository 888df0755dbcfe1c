\* Rm on stopped containers only. The overlay and the disk do not fail.
SPECIFICATION CarefulSpec
CONSTANTS
  a = a
  b = b
  p1 = p1
  p2 = p2
  c1 = c1
  None = None
  Names = {a, b}
  Ports = {p1, p2}
  Clients = {}
  Manifests <- TwoManifests
  MaxSpawns = 3
  Faults = {"base", "log", "bind", "fifo", "launch"}
INVARIANTS
  TypeOK
  OneProcessPerName
  NoOrphan
  
  RunningIsOnDisk
  ExitedHoldsNothing
  LaunchedLeaksNoPort
PROPERTIES
  FifoIsKept
  LifecycleSpec
\* The daemon comes to rest when the bound on spawns is used up.
CHECK_DEADLOCK FALSE
