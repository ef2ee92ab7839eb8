\* One thread that calls cpl_detach once too often.
CONSTANTS
  t1 = t1
  t2 = t2
  t3 = t3
  b1 = b1
  b2 = b2
  Threads = {t1}
  Backends = {b1, b2}
  Null = Null
  Free = Free
  Programs <- DetachTooOften
SPECIFICATION FairSpec
\* The caller may stop for good behind the lock: the property says so.
CHECK_DEADLOCK FALSE
PROPERTIES LockAlwaysComesBack
