\* Three calls for one layer on two threads; a pipe holds one line, two may be written.
SPECIFICATION FairSandboxSpec
CONSTANTS
  r1 = r1
  r2 = r2
  r3 = r3
  layer1 = layer1
  t1 = t1
  t2 = t2
  None = None
  Callers = {r1, r2, r3}
  Bases = {}
  Layers = {layer1}
  Threads = {t1, t2}
  Capacity = 1
  MaxLines = 2
  Faults <- BuildFaults
INVARIANTS
  OutputIsRead
  
  HostKeepsDevices
PROPERTIES
  ImplementsOverlayEngine
  BuildEnds
\* Every caller makes one call.
CHECK_DEADLOCK FALSE
