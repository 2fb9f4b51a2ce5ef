\* States restored under another timer.
\* A read may abort the process, hence no deadlock check.
SPECIFICATION Spec
CONSTANTS
  CLOCK_NOMINAL = 6
  CLOCK_ADJUST_LIMIT = 1
  CLOCK_ADJUST_COARSE = 3
  CLOCK_ADJUST_MEDIUM = 2
  CLOCK_ADJUST_FINE = 1
  Adjustments <- MCAll
  Migration = TRUE
  MaxNow = 3
  MaxTpmTime = 3
  NoClock = NoClock
INVARIANTS
  TypeOK
  NotTooSlow
PROPERTIES
  LittleLeft
  TpmTimeMonotonic
CHECK_DEADLOCK FALSE
