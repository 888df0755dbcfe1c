\* One crash, one container, nothing fails.
SPECIFICATION RecoverySpec
CONSTANTS
  a = a
  b = b
  p1 = p1
  p2 = p2
  c1 = c1
  None = None
  Names = {a}
  Ports = {p1, p2}
  Clients = {}
  Manifests <- TwoManifests
  MaxSpawns = 2
  MaxCrashes = 1
  Faults = {}
INVARIANT NoGhost
\* The daemon comes to rest when the bounds are used up.
CHECK_DEADLOCK FALSE
