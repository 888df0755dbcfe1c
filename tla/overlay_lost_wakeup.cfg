\* Calls for one layer, nothing fails.
SPECIFICATION FairSpec
CONSTANTS
  r1 = r1
  r2 = r2
  r3 = r3
  image = image
  layer = layer
  None = None
  Callers = {r1, r2, r3}
  Bases = {}
  Layers = {layer}
  Faults = {}
PROPERTIES
  EveryCallReturns
\* Every caller makes one call.
CHECK_DEADLOCK FALSE
