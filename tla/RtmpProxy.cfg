\* Streams that overlap, a restart after the first stop, busy ports.
SPECIFICATION FairSpec
CONSTANTS
  MaxStarts = 2
  NumPorts = 2
INVARIANTS TypeOK
PROPERTIES FirstStartsServe StopEndsRelays
CHECK_DEADLOCK FALSE
