SPECIFICATION FairSpec
CONSTANTS
    Handles = 4
    Main = Main
    Daemon = Daemon
    None = None
    Commands = 1
    DelayNanoseconds = {1, 999999999}
    Sessions = 2
    Fuel = 2
    MaxStuck = 1
INVARIANTS ProvidersOutliveReaders CopyinCounterExact SectionsNotPreempted SessionEndsClean
PROPERTY SessionEnds
