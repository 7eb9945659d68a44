--------------------------- MODULE MCKernelFakes ---------------------------
(***************************************************************************)
(* The zone registry and the use of elements, explored side by side: zones *)
(* are created while the kernel boots, elements are used once it runs, and *)
(* of a zone the second part needs only whether there is one.  Chunks are  *)
(* tried with one zone of every element size.                              *)
(***************************************************************************)
EXTENDS KernelZones, KernelElements

CONSTANT ChunkSizes    \* element sizes for which the chunk is worked out

VARIABLE part

vars == <<part, zones, own, memory, reserve>>

Init == /\ ZonesInit /\ ElementsInit
        /\ part \in {"chunks", "zones", "elements"}

CreateOne == /\ part = "chunks" /\ num_zones_in_use = 0
             /\ \E size \in ChunkSizes, flags \in Flags :
                   zone_create_ext(size, flags, ANY, "NONE")

Boot == /\ CreateOne \/ (part = "zones" /\ ZonesNext)
        /\ UNCHANGED <<part, own, memory, reserve>>

(* The kernel has booted, or panicked while it did.                        *)
Booted == part # "elements" /\ UNCHANGED vars

Use == part = "elements" /\ ElementsNext /\ UNCHANGED <<part, zones>>

Next == Boot \/ Booted \/ Use

Spec == Init /\ [][Next]_vars

Symmetry == Permutations(KernelThread) \union Permutations(Elem)

(* Per-cpu and read-only zones differ in their chunks only: what follows   *)
(* one in the registry is left to the plain ones.                          *)
PlainZones == part = "zones" => \A z \in DOMAIN zone_array :
                 zone_array[z].flags \in {"plain", "destructible"}

AllSizes == {8 * n + 1 : n \in 0..4096}
=============================================================================
