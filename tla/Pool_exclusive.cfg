\* Two threads on the Linux build: one statement used by both.
CONSTANTS
  t1 = t1
  t2 = t2
  t3 = t3
  Threads = {t1, t2}
  N = 2
  Null = Null
  SharedSema = FALSE
  MaxSem = 3
SPECIFICATION Spec
\* The callers may stop calling.
CHECK_DEADLOCK FALSE
INVARIANTS Exclusive
