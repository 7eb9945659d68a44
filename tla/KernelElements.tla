--------------------------- MODULE KernelElements ---------------------------
(***************************************************************************)
(* What kernel threads do with the memory that the fakes of zalloc.c and   *)
(* mcache.c hand out, many elements at a time.  A thread builds up a       *)
(* zstack_t or an mcache list, uses it and gives it back; the operations   *)
(* that a cache brings along (zc_op_alloc, zc_op_free) are kernel code and *)
(* may yield, so that zcache_alloc_n and zcache_free_n of several threads  *)
(* interleave element by element.  The elements are malloc's.  Threads     *)
(* also raise a shared number through the wrappers of atomic.c, which      *)
(* yield.                                                                  *)
(***************************************************************************)
EXTENDS Naturals, Sequences, FiniteSets, SequencesExt

CONSTANTS KernelThread, Elem,
          MaxCount,     \* bound on the elements asked for at a time
          MaxReserve    \* bound on the reserve asked for

ASSUME CountAssumption == MaxCount \in Nat /\ MaxReserve \in Nat

VARIABLES doing,       \* what each thread is in the middle of
          stack,       \* z_head[0..z_count - 1], or the mcache list
          head,        \* z_head is not null
          count,       \* elements that zcache_alloc_n was asked for
          left,        \* iterations of its loop that are left
          failed,      \* pushes of it that have failed
          allocated,   \* elements that malloc has given out
          marked,      \* elements marked valid by zc_op_mark_valid
          dropped,     \* elements that a failing zstack_push let go
          doubleFree,
          z_elems_rsv,
          request,     \* what the thread raises z_elems_rsv to
          expected,    \* its local copy of the old value
          reached      \* what completed calls have raised it to

call == <<count, left, failed>>
own == <<doing, stack, head, call>>
memory == <<allocated, marked, dropped, doubleFree>>
reserve == <<z_elems_rsv, request, expected, reached>>

Pc == {"idle", "allocating", "unwinding", "cached", "freeing", "stacked",
       "listed", "raising"}

ElementsInit ==
    /\ doing = [t \in KernelThread |-> "idle"]
    /\ stack = [t \in KernelThread |-> <<>>]
    /\ head = [t \in KernelThread |-> FALSE]
    /\ count = [t \in KernelThread |-> 0]
    /\ left = [t \in KernelThread |-> 0]
    /\ failed = [t \in KernelThread |-> 0]
    /\ allocated = {} /\ marked = {} /\ dropped = {} /\ doubleFree = FALSE
    /\ z_elems_rsv = 0 /\ reached = 0
    /\ request = [t \in KernelThread |-> 0]
    /\ expected = [t \in KernelThread |-> 0]

Doing(t, p) == doing[t] = p

Enter(t, p) == doing' = [doing EXCEPT ![t] = p]

(* free() of the elements of es.                                           *)
FreeAll(es) == /\ allocated' = allocated \ es
               /\ doubleFree' = (doubleFree \/ ~(es \subseteq allocated))
-----------------------------------------------------------------------------
(* zstack_push and zstack_pop: the array grows by realloc, which may fail, *)
(* and is freed with the last element.                                     *)

Push(t, e) ==
    \/ /\ stack' = [stack EXCEPT ![t] = Append(@, e)]
       /\ head' = [head EXCEPT ![t] = TRUE]
       /\ UNCHANGED <<dropped, failed>>
    \/ /\ dropped' = dropped \union {e}
       /\ failed' = [failed EXCEPT ![t] = @ + 1]
       /\ UNCHANGED <<stack, head>>

Top(t) == Last(stack[t])

(* Mutant: the count is taken down only when the array is freed.           *)
PopLast(t) ==
    /\ stack' = [stack EXCEPT ![t] = IF Len(@) = 1 THEN <<>> ELSE @]
    /\ head' = [head EXCEPT ![t] = Len(stack[t]) > 1]

Pop(t) ==
    /\ stack' = [stack EXCEPT ![t] = Front(@)]
    /\ head' = [head EXCEPT ![t] = Len(stack[t]) > 1]
-----------------------------------------------------------------------------
(* zcache_alloc_n: one element after the other, all or none.               *)

zcache_alloc_n(t, n) ==
    /\ Doing(t, "idle")
    /\ Enter(t, "allocating")
    /\ count' = [count EXCEPT ![t] = n]
    /\ left' = [left EXCEPT ![t] = n]
    /\ UNCHANGED <<stack, head, failed, memory, reserve>>

(* zone_by_id finds no zone: the call returns an empty stack.              *)
NoZone(t, n) ==
    /\ Doing(t, "idle")
    /\ Enter(t, "cached")
    /\ count' = [count EXCEPT ![t] = n]
    /\ UNCHANGED <<stack, head, left, failed, memory, reserve>>

AllocOne(t, e) ==
    /\ Doing(t, "allocating") /\ left[t] > 0 /\ e \notin allocated
    /\ allocated' = allocated \union {e}
    /\ marked' = marked \union {e}
    /\ Push(t, e)
    /\ left' = [left EXCEPT ![t] = @ - 1]
    /\ UNCHANGED <<doing, count, doubleFree, reserve>>

(* Mutant: what was allocated before the failure is returned.              *)
AllocStops(t) ==
    /\ Doing(t, "allocating") /\ left[t] > 0
    /\ Enter(t, "cached")
    /\ UNCHANGED <<stack, head, call, memory, reserve>>

(* zc_op_alloc returns null.                                               *)
AllocFails(t) ==
    /\ Doing(t, "allocating") /\ left[t] > 0
    /\ Enter(t, "unwinding")
    /\ UNCHANGED <<stack, head, call, memory, reserve>>

(* The elements that were allocated before the failure are freed; they     *)
(* stay marked.                                                            *)
Unwind(t) ==
    /\ Doing(t, "unwinding") /\ stack[t] # <<>>
    /\ FreeAll({Top(t)})
    /\ Pop(t)
    /\ UNCHANGED <<doing, call, marked, dropped, reserve>>

AllocReturns(t) ==
    /\ \/ Doing(t, "allocating") /\ left[t] = 0
       \/ Doing(t, "unwinding") /\ stack[t] = <<>>
    /\ Enter(t, "cached")
    /\ UNCHANGED <<stack, head, call, memory, reserve>>

(* zcache_free_n, one element at a time.                                   *)
zcache_free_n(t) ==
    /\ Doing(t, "cached")
    /\ Enter(t, "freeing")
    /\ UNCHANGED <<stack, head, call, memory, reserve>>

FreeOne(t) ==
    /\ Doing(t, "freeing") /\ stack[t] # <<>>
    /\ marked' = marked \ {Top(t)}
    /\ FreeAll({Top(t)})
    /\ Pop(t)
    /\ UNCHANGED <<doing, call, dropped, reserve>>

Forget(t) == /\ Enter(t, "idle")
             /\ count' = [count EXCEPT ![t] = 0]
             /\ left' = [left EXCEPT ![t] = 0]
             /\ failed' = [failed EXCEPT ![t] = 0]

FreeReturns(t) ==
    /\ Doing(t, "freeing") /\ stack[t] = <<>>
    /\ Forget(t)
    /\ UNCHANGED <<stack, head, memory, reserve>>
-----------------------------------------------------------------------------
(* zalloc_n stops at the first element that it does not get and returns    *)
(* those that it has pushed, es; the pushes of "lost" failed.  Nothing in  *)
(* it yields.                                                              *)
zalloc_n(t, es, lost) ==
    /\ Doing(t, "idle")
    /\ lost \intersect ToSet(es) = {}
    /\ (lost \union ToSet(es)) \intersect allocated = {}
    /\ Enter(t, "stacked")
    /\ stack' = [stack EXCEPT ![t] = es]
    /\ head' = [head EXCEPT ![t] = es # <<>>]
    /\ dropped' = dropped \union lost
    /\ allocated' = allocated \union lost \union ToSet(es)
    /\ UNCHANGED <<call, marked, doubleFree, reserve>>

(* The kernel takes one element and frees it with xnu_zfree.               *)
PopAndFree(t) ==
    /\ Doing(t, "stacked") /\ stack[t] # <<>>
    /\ FreeAll({Top(t)})
    /\ Pop(t)
    /\ UNCHANGED <<doing, call, marked, dropped, reserve>>

zfree_nozero_n(t) ==
    /\ Doing(t, "stacked")
    /\ FreeAll(ToSet(stack[t]))
    /\ stack' = [stack EXCEPT ![t] = <<>>]
    /\ head' = [head EXCEPT ![t] = FALSE]
    /\ Enter(t, "idle")
    /\ UNCHANGED <<call, marked, dropped, reserve>>

(* mcache_alloc_ext: each object is linked in front of those before it.    *)
(* For a composite cache the slab function of the kernel makes the list,   *)
(* in its own order and perhaps with fewer objects than were asked for.    *)
(* Should malloc fail, the process ends at the write to the object.        *)
mcache_alloc_ext(t, es) ==
    /\ Doing(t, "idle") /\ ToSet(es) \intersect allocated = {}
    /\ Enter(t, "listed")
    /\ \E list \in {Reverse(es), es} : stack' = [stack EXCEPT ![t] = list]
    /\ allocated' = allocated \union ToSet(es)
    /\ UNCHANGED <<head, call, marked, dropped, doubleFree, reserve>>

(* mcache_free_ext of the list; the slab function of a composite cache     *)
(* takes the whole list back at once.                                      *)
mcache_free_ext(t) ==
    /\ Doing(t, "listed")
    /\ FreeAll(ToSet(stack[t]))
    /\ stack' = [stack EXCEPT ![t] = <<>>]
    /\ Enter(t, "idle")
    /\ UNCHANGED <<head, call, marked, dropped, reserve>>

(* mcache_free of the first object, which the kernel has unlinked.         *)
mcache_free(t) ==
    /\ Doing(t, "listed") /\ stack[t] # <<>>
    /\ FreeAll({Head(stack[t])})
    /\ stack' = [stack EXCEPT ![t] = Tail(@)]
    /\ UNCHANGED <<doing, head, call, marked, dropped, reserve>>
-----------------------------------------------------------------------------
(* zone_raise_reserve: os_atomic_max is a loop of a compare-and-exchange   *)
(* that starts from a load, both through the wrappers of atomic.c (of the  *)
(* os_atomic_max of the kernel this is assumed: without the yields there   *)
(* are fewer interleavings).  A zone of zone_array and a view both lead to *)
(* the zone whose number is raised; here there is one.                     *)

(* atomic_load_explicit_wrapper reads, then yields.                        *)
zone_raise_reserve(t, n) ==
    /\ Doing(t, "idle")
    /\ Enter(t, "raising")
    /\ request' = [request EXCEPT ![t] = n]
    /\ expected' = [expected EXCEPT ![t] = z_elems_rsv]
    /\ UNCHANGED <<stack, head, call, memory, z_elems_rsv, reached>>

RaiseReturns(t) ==
    /\ Enter(t, "idle")
    /\ reached' = IF request[t] > reached THEN request[t] ELSE reached
    /\ request' = [request EXCEPT ![t] = 0]
    /\ expected' = [expected EXCEPT ![t] = 0]

(* Mutant: the value is compared before the yield.                         *)
CompareExchangeStale(t) ==
    /\ z_elems_rsv' = request[t]
    /\ RaiseReturns(t)

(* atomic_compare_exchange_weak_explicit_wrapper yields, then compares and *)
(* sets; when it fails the caller gets the value that it found.            *)
CompareExchange(t) ==
    IF z_elems_rsv = expected[t]
    THEN z_elems_rsv' = request[t] /\ RaiseReturns(t)
    ELSE /\ expected' = [expected EXCEPT ![t] = z_elems_rsv]
         /\ UNCHANGED <<doing, z_elems_rsv, request, reached>>

(* An iteration of the loop.                                               *)
Raise(t) ==
    /\ Doing(t, "raising")
    /\ \/ expected[t] >= request[t] /\ RaiseReturns(t) /\ UNCHANGED z_elems_rsv
       \/ expected[t] < request[t] /\ CompareExchange(t)
    /\ UNCHANGED <<stack, head, call, memory>>

ElementsNext ==
    \E t \in KernelThread :
       \/ \E n \in 0..MaxCount : zcache_alloc_n(t, n) \/ NoZone(t, n)
       \/ \E e \in Elem : AllocOne(t, e)
       \/ AllocFails(t) \/ Unwind(t) \/ AllocReturns(t)
       \/ zcache_free_n(t) \/ FreeOne(t) \/ FreeReturns(t)
       \/ \E n \in 0..MaxCount : \E es \in [1..n -> Elem] :
             /\ IsInjective(es)
             /\ \/ \E lost \in SUBSET Elem : /\ Cardinality(lost) <= MaxCount - n
                                             /\ zalloc_n(t, es, lost)
                \/ mcache_alloc_ext(t, es)
       \/ PopAndFree(t) \/ zfree_nozero_n(t)
       \/ mcache_free_ext(t) \/ mcache_free(t)
       \/ \E n \in 1..MaxReserve : zone_raise_reserve(t, n)
       \/ Raise(t)

ElementsSpec == ElementsInit /\ [][ElementsNext]_<<own, memory, reserve>>
-----------------------------------------------------------------------------
Held == UNION {ToSet(stack[t]) : t \in KernelThread}

(* No element is freed twice or is on two stacks, and none is lost: what   *)
(* malloc has given out is on the stack or list of exactly one thread,     *)
(* once, or was let go by a push that failed; the array of a stack lives   *)
(* exactly as long as the stack has elements.                              *)
ElementsAccounted ==
    /\ ~doubleFree
    /\ allocated = Held \union dropped
    /\ Held \intersect dropped = {}
    /\ \A t \in KernelThread : IsInjective(stack[t])
    /\ \A t, u \in KernelThread :
          t # u => ToSet(stack[t]) \intersect ToSet(stack[u]) = {}
    /\ \A t \in KernelThread : ~Doing(t, "listed") => (head[t] <=> stack[t] # <<>>)

(* zcache_alloc_n returns as many elements as it was asked for, all marked *)
(* valid, or none, however it was interleaved with others; a larger number *)
(* falls short only by the pushes that failed.                             *)
AllOrNothing ==
    \A t \in KernelThread : Doing(t, "cached") =>
       /\ ToSet(stack[t]) \subseteq marked
       /\ stack[t] = <<>> \/ Len(stack[t]) + failed[t] = count[t]

(* A reserve that a call has reached is never lost to another call that    *)
(* started from an older value, and is not exceeded.                       *)
ReserveReached == z_elems_rsv = reached
-----------------------------------------------------------------------------
(* The inductive invariant.                                                *)

ElementsTypeOK ==
    /\ doing \in [KernelThread -> Pc]
    /\ stack \in [KernelThread -> Seq(Elem)]
    /\ head \in [KernelThread -> BOOLEAN]
    /\ {count, left, failed, request, expected} \subseteq [KernelThread -> Nat]
    /\ allocated \subseteq Elem /\ marked \subseteq Elem /\ dropped \subseteq Elem
    /\ doubleFree \in BOOLEAN
    /\ z_elems_rsv \in Nat /\ reached \in Nat

(* A thread begins a call with nothing on its stack, and an mcache list    *)
(* has no array.                                                           *)
CallsBeginEmpty ==
    \A t \in KernelThread :
       /\ doing[t] \in {"idle", "raising"} => stack[t] = <<>>
       /\ doing[t] \in {"idle", "raising", "stacked", "listed"} => failed[t] = 0
       /\ Doing(t, "listed") => ~head[t]

(* How far the loop of zcache_alloc_n has come.                            *)
LoopCounts ==
    \A t \in KernelThread : Doing(t, "allocating") =>
       /\ ToSet(stack[t]) \subseteq marked
       /\ Len(stack[t]) + failed[t] + left[t] = count[t]

(* The copy that a call of zone_raise_reserve compares with is no newer    *)
(* than the number.                                                        *)
CopiesAreOld ==
    \A t \in KernelThread : Doing(t, "raising") => expected[t] <= z_elems_rsv

ElementsInv == /\ ElementsTypeOK
               /\ ElementsAccounted
               /\ CallsBeginEmpty
               /\ LoopCounts /\ AllOrNothing
               /\ CopiesAreOld /\ ReserveReached
=============================================================================
