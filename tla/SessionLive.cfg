\* Liveness, and the recorder of a session, under the fairness of the main looper.
SPECIFICATION FairSpec
CONSTANTS
  a1 = a1
  a2 = a2
  Instances = {a1}
  Tiles = {"group", "gallery"}
  ButtonModes = {"VIDEO_SEGMENTS"}
  MaxMsgs = 1
  MaxChecks = 1
  MaxPosts = 1
  MaxLoops = 2
  Events = {"finish"}
INVARIANT RecorderRuns
PROPERTIES SessionEnds
