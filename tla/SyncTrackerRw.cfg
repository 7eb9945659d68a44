\* The rwlock's inner mutex is not among the objects the search looks at.
SPECIFICATION Spec
CONSTANTS
  Thread = {t1, t2}
  Mutex = {m1}
  RwLock = {rw}
  None = none
INVARIANT
  DeadlocksReported
