\* One thread: initialize after an initialize that failed.
\* A callback may abort the process, hence no deadlock check.
SPECIFICATION Spec
CONSTANTS
  t1 = t1
  t2 = t2
  t3 = t3
  Threads = {t1}
  NoThread = NoThread
  Free = Free
  Lost = Lost
PROPERTIES
  RefusedOnlyWhileLive
CHECK_DEADLOCK FALSE
