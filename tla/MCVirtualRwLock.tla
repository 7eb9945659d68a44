-------------------------- MODULE MCVirtualRwLock --------------------------
(***************************************************************************)
(* VirtualRwLock with two kinds of clients, chosen once: clients that make *)
(* any call in any state and are woken by anybody, and paired clients that *)
(* make at most Fuel calls each, release what they hold and lock what they *)
(* do not, let go before they end, and are woken by nobody but the lock.   *)
(* The only fairness is that the process keeps executing.                  *)
(***************************************************************************)
EXTENDS VirtualRwLock, Integers

CONSTANTS Fuel,     \* bound on the calls and yields of a paired client
          Paired    \* the threads that take part when clients are paired

ASSUME PairedAssumption == Fuel \in Nat /\ Paired \subseteq Thread

VARIABLES paired, fuel

mcVars == <<vars, paired, fuel>>

Spend(t) == fuel[t] > 0 /\ fuel' = [fuel EXCEPT ![t] = @ - 1]

(* The calls that a client with this hold on the lock may make.            *)
PairedCall(t) ==
    \/ /\ hold[t] = "none"
       /\ \/ TryLockExclusive(t) \/ TryLockShared(t)
          \/ LockExclusive(t) \/ LockShared(t)
    \/ hold[t] = "exclusive" /\ ExclusiveToShared(t)
    \/ hold[t] = "shared" /\ SharedToExclusive(t)

PairedRelease(t) ==
    \/ hold[t] = "exclusive" /\ (UnlockExclusive(t) \/ Unlock(t))
    \/ hold[t] = "shared" /\ (UnlockShared(t) \/ Unlock(t))

PairedNext ==
    \/ \E t \in Paired :
          \/ (PairedCall(t) \/ Yield(t)) /\ Spend(t)
          \/ (Dispatch(t) \/ PairedRelease(t) \/ Resume(t)) /\ UNCHANGED fuel
          \/ Park(t) /\ hold[t] = "none" /\ UNCHANGED fuel
    \/ /\ running = Main /\ ready \intersect Paired = {}
       /\ UNCHANGED <<vars, fuel>>

MCInit == /\ Init
          /\ paired \in BOOLEAN
          /\ fuel = [t \in Thread |-> Fuel]

MCNext == /\ \/ paired /\ PairedNext
             \/ ~paired /\ Next /\ UNCHANGED fuel
          /\ UNCHANGED paired

MCSpec == MCInit /\ [][MCNext]_mcVars /\ WF_mcVars(paired /\ MCNext)

(* None of the lock's own abort()s (nested wait, reader already owned,     *)
(* release by a non-owner, readers at an exclusive release) fires for      *)
(* paired clients, and their releases never block.                         *)
PairedClientsSafe ==
    paired => ~aborted /\ \A t \in Thread : pc[t] # "unshMutex"

(* Every paired client blocked in Lock gets the lock once the others have  *)
(* stopped taking it, whichever way the ready threads are picked: no       *)
(* waiter is stranded in either list.                                      *)
LockEventuallyReturns ==
    \A t \in Paired : paired /\ pc[t] # "idle" ~> pc[t] = "idle"
-----------------------------------------------------------------------------
(* Safety behind LockEventuallyReturns: where the lock's threads stand     *)
(* when nobody runs, and what every step uses up.                          *)

(* When no paired client is left to run, none is inside a lock call and    *)
(* none holds the lock: the drained queue strands nobody.                  *)
NobodyStranded ==
    paired /\ running = Main /\ ready \intersect Paired = {}
        => \A t \in Paired : pc[t] = "idle" /\ hold[t] = "none"

(* Threads that take no part do nothing, and a holder can go on.           *)
HoldersGoOn ==
    paired => /\ \A t \in Thread : hold[t] # "none" => t \in ready \union {running}
              /\ \A t \in Thread \ Paired : pc[t] = "idle" /\ hold[t] = "none"

(* A call that is blocked, then what it got, is still to be finished.      *)
Stage(t) == IF pc[t] # "idle" THEN 2 ELSE IF hold[t] = "none" THEN 0 ELSE 1
stages == [t \in Thread |-> Stage(t)]

(* Writers that wait in the list the lock's state does not call for.       *)
Misplaced == {t \in Thread : pc[t] = IF owners_ = {} THEN "exOwners" ELSE "exMutex"}

Below(f, g) == /\ \A t \in Thread : f[t] <= g[t]
               /\ \E t \in Thread : f[t] < g[t]

(* Paired clients cannot pass wakeups round for ever.  Each step spends a  *)
(* call, or finishes part of one, or moves a waiting writer to the list    *)
(* where it belongs, or takes a woken thread off the ready set, or gives   *)
(* the processor back; and no step undoes an earlier kind of progress      *)
(* unless a still earlier kind pays for it.                                *)
WokenWaitersSettle ==
    [][paired => \/ Below(fuel', fuel)
                 \/ fuel' = fuel /\ Below(stages', stages)
                 \/ /\ UNCHANGED <<fuel, stages>>
                    /\ Misplaced' \subseteq Misplaced /\ Misplaced' # Misplaced
                 \/ /\ UNCHANGED <<fuel, stages, Misplaced>>
                    /\ ready' \subseteq ready
                    /\ ready' # ready \/ (running # Main /\ running' = Main)]_mcVars
=============================================================================
