\* A finished activity overlaps with its successor.
SPECIFICATION Spec
CONSTANTS
  a1 = a1
  a2 = a2
  Instances <- TwoActivities
  Tiles = {"contacts"}
  ButtonModes = {}
  MaxMsgs = 1
  MaxChecks = 1
  MaxPosts = 1
  MaxLoops = 1
  Events = {"finish"}
SYMMETRY Symmetric
INVARIANTS TypeOK ActiveHasActivity AutoStopPending
