\* Debug build; the calls that reach the Host today.
SPECIFICATION Spec
CONSTANTS
  Thread = {t1, t2}
  Main = main
  Debug = TRUE
  SelfWake = FALSE
  Suspension = FALSE
INVARIANTS
  NoThreadLost
  WaitEndsByWakeup
  ReapedNeverRun
  DebugChecksPass
