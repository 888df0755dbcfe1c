\* One replica, nothing fails.
SPECIFICATION FairAgentSpec
CONSTANTS
  a = a
  b = b
  p1 = p1
  None = None
  Names = {a}
  Ports = {p1}
  Clients = {}
  Manifests <- NoPorts
  MaxSpawns = 2
  MaxOutages = 0
  Faults = {}
PROPERTIES
  UnassignedIsKilled
