\* Threads of the scheduler: started before they are destroyed.
SPECIFICATION FairSpec
CONSTANTS
  Thread = {t1, t2, t3}
  Main = main
  None = none
  DeleteUnstarted = FALSE
INVARIANTS
  TokenPassedToOne
  RunnerIsCurrent
  TerminatedOnlyExits
PROPERTIES
  DeleteThreadReturns
  SwitchArrives
