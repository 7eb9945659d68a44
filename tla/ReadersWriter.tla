--------------------------- MODULE ReadersWriter ---------------------------
(***************************************************************************)
(* What a readers-writer lock promises: any number of readers or one       *)
(* writer.  A writer may become a reader in one step; a reader that asks   *)
(* to become the writer does so when it is the only reader, and otherwise  *)
(* has lost the lock altogether.                                           *)
(***************************************************************************)
CONSTANT Thread

VARIABLES readers,   \* threads that hold the lock shared
          writers    \* threads that hold the lock exclusively

vars == <<readers, writers>>

Init == readers = {} /\ writers = {}

AcquireShared(t) == /\ writers = {} /\ t \notin readers
                    /\ readers' = readers \union {t}
                    /\ UNCHANGED writers

AcquireExclusive(t) == /\ writers = {} /\ readers = {}
                       /\ writers' = {t}
                       /\ UNCHANGED readers

Release(t) == /\ t \in readers \union writers
              /\ readers' = readers \ {t}
              /\ writers' = writers \ {t}

Downgrade(t) == /\ t \in writers
                /\ writers' = writers \ {t}
                /\ readers' = readers \union {t}

Upgrade(t) == /\ readers = {t}
              /\ readers' = {}
              /\ writers' = {t}

Next == \E t \in Thread : \/ AcquireShared(t)
                          \/ AcquireExclusive(t)
                          \/ Release(t)
                          \/ Downgrade(t)
                          \/ Upgrade(t)

Spec == Init /\ [][Next]_vars
=============================================================================
