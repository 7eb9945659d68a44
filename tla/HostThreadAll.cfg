\* Debug build, with the self-wakeups and the suspension its checks abort on.
SPECIFICATION Spec
CONSTANTS
  Thread = {t1, t2}
  Main = main
  Debug = TRUE
  SelfWake = TRUE
  Suspension = TRUE
INVARIANTS
  NoThreadLost
  ContinuationsArePending
