\* Two threads that report errors, two arrays.
SPECIFICATION Spec
CONSTANTS
  Threads = {t1, t2}
  Arrays = {a1, a2}
  Null = Null
INVARIANT DeletedOnce
CHECK_DEADLOCK FALSE
