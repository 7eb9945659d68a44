\* Two mutexes and a readers-writer lock.
SPECIFICATION Spec
CONSTANTS
  Thread = {t1, t2, t3}
  Mutex = {m1, m2}
  RwLock = {rw}
  None = none
INVARIANTS
  TrackedDeadlocksReported
  ReportsAreReal
  SearchReturnsReachability
