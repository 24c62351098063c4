\* Two threads, a file replaced after a few events, crashes anywhere.
SPECIFICATION FairSpec
CONSTANTS
  Threads = {"t1", "t2"}
  LogOwners = {"t2"}
  Keys = {"k1"}
  Values = {1, 2}
  NoVal = 0
  Torn = Torn
  FlushAbove = 1
  ReindexAbove = 2
  Rate = 1
  CompactAbove = 0
  MaxWrites = 3
  MaxCrashes = 2
INVARIANTS TypeOK NeverFatal MapIsWrites
PROPERTIES Implements SyncsEnd
CHECK_DEADLOCK FALSE
