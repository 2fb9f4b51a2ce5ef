\* Two threads, one of which calls initialize while the other owns the handle.
\* The process may abort, hence no deadlock check.
SPECIFICATION Spec
CONSTANTS
  t1 = t1
  t2 = t2
  t3 = t3
  Threads = {t1, t2}
  NoThread = NoThread
  Free = Free
  Lost = Lost
PROPERTIES
  RefusalIsHarmless
CHECK_DEADLOCK FALSE
