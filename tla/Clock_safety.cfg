\* The library only slows the clock down; no state leaves its process.
\* The exploration ends at its bounds, hence no deadlock check.
SPECIFICATION Spec
CONSTANTS
  CLOCK_NOMINAL = 6
  CLOCK_ADJUST_LIMIT = 1
  CLOCK_ADJUST_COARSE = 3
  CLOCK_ADJUST_MEDIUM = 2
  CLOCK_ADJUST_FINE = 1
  Adjustments <- MCSlower
  Migration = FALSE
  MaxNow = 7
  MaxTpmTime = 3
  NoClock = NoClock
INVARIANTS
  RealBehindReported
  NeverAhead
CHECK_DEADLOCK FALSE
