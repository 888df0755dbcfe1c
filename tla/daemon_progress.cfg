\* Three generations of one name, a Start in progress, launcher and container
\* told apart. The log file can be created. Stops are remembered.
SPECIFICATION FairContainerSpec
CONSTANTS
  a = a
  p1 = p1
  c1 = c1
  None = None
  Names = {a}
  Ports = {p1}
  Clients = {c1}
  Manifests <- SamePort
  MaxSpawns = 3
  Faults = {"base", "launcher", "setup"}
INVARIANTS
  StoppedStaysDown
PROPERTIES
  BuildingResolves
  ExitedFreesPorts
  KilledTakesItsContainer
  EndIsRecorded
\* The daemon comes to rest when the bound on spawns is used up.
CHECK_DEADLOCK FALSE
