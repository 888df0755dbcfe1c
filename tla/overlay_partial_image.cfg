\* Calls for one image, nothing fails.
SPECIFICATION Spec
CONSTANTS
  r1 = r1
  r2 = r2
  r3 = r3
  image = image
  layer = layer
  None = None
  Callers = {r1, r2, r3}
  Bases = {image}
  Layers = {}
  Faults = {}
INVARIANTS
  ImageReady
\* Every caller makes one call.
CHECK_DEADLOCK FALSE
