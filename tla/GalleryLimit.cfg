\* Both kinds of album, two copies at a time, two limits, a failure or a crash.
SPECIFICATION Spec
CONSTANTS
  Copiers = {c1, c2}
  MaxFiles = 5
  Sizes = {1, 2}
  Limits = {2, 3}
  MaxFailures = 1
SYMMETRY CopierSymmetry
INVARIANTS TypeOK NewestWithinLimit
PROPERTIES AloneWithinLimit NothingDeletedInVain
CHECK_DEADLOCK FALSE
