\* One activity slot, a tile and the button in both modes, every event.
SPECIFICATION Spec
CONSTANTS
  a1 = a1
  a2 = a2
  Instances = {a1}
  Tiles = {"group"}
  ButtonModes = {"RTMP_STREAMING", "VIDEO_SEGMENTS"}
  MaxMsgs = 1
  MaxChecks = 1
  MaxPosts = 1
  MaxLoops = 1
  Events = {"ask", "camera", "open", "finish", "surface", "recreate", "die"}
INVARIANTS StreamNeedsSession
