\* Liveness of two sessions that meet each other's finalizer. The bounds end the
\* run.
SPECIFICATION FairSpec
CONSTANTS
  MaxSessions = 2
  MaxFiles = 2
  MaxActivities = 1
  Dests = {"group"}
  Failures = {}
PROPERTIES FinalizerReleases SegmentReachesGroup
CHECK_DEADLOCK FALSE
