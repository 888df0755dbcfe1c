\* Three calls for an image and a layer, every build step failing at will.
SPECIFICATION FairSpec
CONSTANTS
  r1 = r1
  r2 = r2
  r3 = r3
  image = image
  layer = layer
  None = None
  Callers = {r1, r2, r3}
  Bases = {image}
  Layers = {layer}
  Faults <- BuildFaults
INVARIANTS
  TypeOK
  OneBuilder
  LayerReady
  ImageIsNotLeftHalf
PROPERTIES
  LayerStays
  WaiterReturns
\* Every caller makes one call.
CHECK_DEADLOCK FALSE
