\* Three threads, two statements, both builds, a semaphore that is shared.
CONSTANTS
  t1 = t1
  t2 = t2
  t3 = t3
  Threads = {t1, t2, t3}
  N = 2
  Null = Null
  SharedSema = TRUE
  MaxSem = 3
SPECIFICATION FairSpec
\* The callers may stop calling.
CHECK_DEADLOCK FALSE
INVARIANTS TypeOK PermitsNeverLost Served Refilled
PROPERTIES PermitComesBack
