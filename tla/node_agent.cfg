\* Two replicas that ask for the same host port, two spawns, one failed request.
SPECIFICATION FairAgentSpec
CONSTANTS
  a = a
  b = b
  p1 = p1
  None = None
  Names = {a, b}
  Ports = {p1}
  Clients = {}
  Manifests <- SamePort
  MaxSpawns = 2
  MaxOutages = 1
  Faults = {"overlay"}
INVARIANTS
  KilledPidIsHeld
  
  OneProcessPerReplica
PROPERTIES
  AssignedIsLeftAlone
  AssignedComesUp
  UnassignedGoesDown
