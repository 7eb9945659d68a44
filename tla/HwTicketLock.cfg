\* Callers that pass allow_invalid when the lock may be invalid.
SPECIFICATION FairSpec
CONSTANTS
  Thread = {t1, t2, t3, t4}
  None = none
  LocksInvalid = FALSE
INVARIANTS
  NoUseAfterFree
  AcquiredMeansHeld
PROPERTY DestroyReturns
