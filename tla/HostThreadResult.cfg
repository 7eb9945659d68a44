\* A wakeup with a result other than AWAKENED.
SPECIFICATION Spec
CONSTANTS
  Thread = {t1, t2}
  Main = main
  Debug = TRUE
  SelfWake = FALSE
  Suspension = FALSE
INVARIANT
  WaitResultDelivered
