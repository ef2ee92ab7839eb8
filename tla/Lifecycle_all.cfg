\* Three threads of a program of any kind.
CONSTANTS
  t1 = t1
  t2 = t2
  t3 = t3
  b1 = b1
  b2 = b2
  Threads = {t1, t2, t3}
  Backends = {b1, b2}
  Null = Null
  Free = Free
  Programs <- AllPrograms
SPECIFICATION FairSpec
\* A program that misuses the library may stop behind the lock.
CHECK_DEADLOCK FALSE
INVARIANTS TypeOK NoLeftoverBackend OperationsFindBackend OneAttached
PROPERTIES DestroyedOnce LockComesBack
