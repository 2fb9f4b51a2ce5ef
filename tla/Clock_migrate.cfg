\* States restored under another timer, until a read aborts the process.
\* A read may abort the process, hence no deadlock check.
SPECIFICATION Spec
CONSTANTS
  CLOCK_NOMINAL = 6
  CLOCK_ADJUST_LIMIT = 1
  CLOCK_ADJUST_COARSE = 3
  CLOCK_ADJUST_MEDIUM = 2
  CLOCK_ADJUST_FINE = 1
  Adjustments <- MCAll
  Migration = TRUE
  MaxNow = 4
  MaxTpmTime = 4
  NoClock = NoClock
INVARIANTS
  NeverPanics
CHECK_DEADLOCK FALSE
