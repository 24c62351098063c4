\* Rounds that overlap, stops that overtake them, a restart, one failure, the
\* activity destroyed at any time.
SPECIFICATION Spec
CONSTANTS
  Tiles = {"group", "contact"}
  MaxSessions = 2
  Senders = {k1, k2}
  MaxMsgs = 2
  MaxFailures = 1
  Destroyed = TRUE
SYMMETRY SenderSymmetry
INVARIANTS TypeOK NothingLost StopEndsLocation
CHECK_DEADLOCK FALSE
