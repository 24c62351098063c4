\* Two sessions, in one activity or in two, which may be destroyed at any time.
\* The bounds end the run.
SPECIFICATION Spec
CONSTANTS
  MaxSessions = 2
  MaxFiles = 2
  MaxActivities = 2
  Dests = {"group"}
  Failures = {"network", "camera", "short"}
INVARIANTS TypeOK NoDuplicates NothingForgotten
PROPERTY EachSegmentSent
CHECK_DEADLOCK FALSE
