--------------------------- MODULE MCSyncTracker ---------------------------
(***************************************************************************)
(* The depth-first search of SyncTracker::FindDependencyPath as written,   *)
(* against the reachability that SyncTracker.tla uses in its place.        *)
(***************************************************************************)
EXTENDS SyncTracker, Integers, FiniteSets

(* A program makes finitely many threads.                                  *)
ASSUME ThreadAssumption == IsFiniteSet(Thread)

(* The search, given up ("deep") after depth calls: it keeps no set of     *)
(* visited threads.                                                        *)
Search[depth \in 0..Cardinality(Thread)] ==
    [p \in Thread \X Thread |->
        IF p[1] = p[2] THEN "found"
        ELSE IF depth = 0 THEN "deep"
        ELSE LET results == {Search[depth - 1][<<neighbor, p[2]>>] :
                                neighbor \in Dependencies(p[1])}
             IN  IF "deep" \in results THEN "deep"
                 ELSE IF "found" \in results THEN "found" ELSE "not found"]

(* Although it marks nothing as visited, the search always returns, before *)
(* it has gone through as many calls as there are threads, and returns     *)
(* whether the destination can be reached.                                 *)
SearchReturnsReachability ==
    aborted = "no" =>
        \A p \in Thread \X Thread :
            Search[Cardinality(Thread)][p]
                = IF FindDependencyPath(p[1], p[2]) THEN "found" ELSE "not found"
=============================================================================
