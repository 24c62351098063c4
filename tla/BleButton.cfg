\* Range lost and found, the service restarted, a short row of attempts.
SPECIFICATION FairSpec
CONSTANTS
  NumManagers = 4
  MaxAttempts = 1
  MaxTroubles = 3
INVARIANTS TypeOK OnlyOrphansListen
PROPERTIES RestsWhenAway ListensWhenNear
CHECK_DEADLOCK FALSE
