\* Three threads that wait and wake; at most Fuel calls and interruptions.
SPECIFICATION BoundedSpec
CONSTANTS
  Thread = {t1, t2, t3}
  Main = main
  Action = {{}, {"UNLOCK"}, {"SHARED"}, {"SHARED", "EXCLUSIVE"}}
  Fuel = 4
INVARIANTS
  NoLostWakeup
  ReclaimsAsAsked
PROPERTIES
  WakeupArrives
