\* Release build, picks drawn from the fuzzer's input, at most Fuel calls.
SPECIFICATION BoundedSpec
CONSTANTS
  Handle = {h1, h2, h3}
  Main = main
  Null = null
  Debug = FALSE
  ThreadChoices = TRUE
  Fuel = 7
INVARIANTS
  NoDoubleEnqueue
  QueuedStacksMapped
PROPERTIES
  ImplementsCoop
  RunUntilEmptyReturns
