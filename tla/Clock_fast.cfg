\* Every adjustment, reads as often as the library likes.
\* The exploration ends at its bounds, hence no deadlock check.
SPECIFICATION Spec
CONSTANTS
  CLOCK_NOMINAL = 6
  CLOCK_ADJUST_LIMIT = 1
  CLOCK_ADJUST_COARSE = 3
  CLOCK_ADJUST_MEDIUM = 2
  CLOCK_ADJUST_FINE = 1
  Adjustments <- MCAll
  Migration = FALSE
  MaxNow = 5
  MaxTpmTime = 5
  NoClock = NoClock
INVARIANTS
  WithinTolerance
CHECK_DEADLOCK FALSE
