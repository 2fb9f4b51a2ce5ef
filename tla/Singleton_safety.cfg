\* Three threads, calls overlapping freely, every thread scheduled.
\* The process may abort, hence no deadlock check.
SPECIFICATION FairSpec
CONSTANTS
  t1 = t1
  t2 = t2
  t3 = t3
  Threads = {t1, t2, t3}
  NoThread = NoThread
  Free = Free
  Lost = Lost
INVARIANTS
  TypeOK
  SingleEntry
  CallbackFindsPlatform
  SingleInstance
PROPERTIES
  OrphanIsSealed
  AccessFailsOnlyInOverlap
  OwnershipSpec
  SessionSpec
  CallsReturn
CHECK_DEADLOCK FALSE
