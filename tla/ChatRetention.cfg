\* Uploads that overlap, fail and outlive their series. The bounds end the run.
SPECIFICATION Spec
CONSTANTS
  MaxUploads = 4
  MaxSeries = 2
  MaxParallel = 2
INVARIANTS TypeOK FirstAndNewest IdsMatchNumbers
PROPERTY FirstStays
CHECK_DEADLOCK FALSE
