\* Four threads making any calls, or three that pair their calls.
SPECIFICATION MCSpec
CONSTANTS
  Thread = {t1, t2, t3, t4}
  Paired = {t1, t2, t3}
  Main = main
  None = none
  Misuse = TRUE
  Fuel = 2
INVARIANTS
  Exclusion
  NoLostWakeup
  HolderNeverBlocks
  PairedClientsSafe
PROPERTIES
  ImplementsRW
  LockEventuallyReturns
