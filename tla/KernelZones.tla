---------------------------- MODULE KernelZones ----------------------------
(***************************************************************************)
(* The zone registry of osfmk/fakes/zalloc.c, which the kernel fills while *)
(* it boots, on the main thread, with preemption off: zone_create_ext      *)
(* finds an identifier, works out how elements fill a chunk of pages and   *)
(* enters the zone; zone_view_startup_init puts a view on a zone.  Names,  *)
(* statistics and locks are left out.  A panic or an assertion that fails  *)
(* ends the process.  The zones of zone_create and zinit are not of the    *)
(* registry: each is calloc'ed by itself and no loop over zones sees it.   *)
(***************************************************************************)
EXTENDS Integers, FiniteSets, FiniteSetsExt

CONSTANTS MAX_ZONES,       \* length of zone_array
          FIRST_DYNAMIC,   \* ZONE_ID__FIRST_DYNAMIC: smaller ones are fixed
          NumCpus,         \* zpercpu_count()
          MaxViews,        \* bound on the views of a zone
          Sizes            \* element sizes of zones and views

ASSUME ZonesAssumption == /\ {MAX_ZONES, FIRST_DYNAMIC, NumCpus, MaxViews}
                                \subseteq Nat \ {0}
                          /\ FIRST_DYNAMIC < MAX_ZONES
                          /\ Sizes \subseteq Nat

VARIABLES zone_array,         \* the zones whose z_self is set, by identifier
          num_zones,
          num_zones_in_use,
          zone_security_array, \* z_kheap_id of each entry
          z_views,            \* number of views of each zone
          zone_view_count,
          panicked

zones == <<zone_array, num_zones, num_zones_in_use, zone_security_array,
           z_views, zone_view_count, panicked>>

Id == 0..(MAX_ZONES - 1)
ANY == -1

Flags == {"plain", "percpu", "readonly", "destructible"}

(* The heap that a zone belongs to; "OTHER" for those but the data heap.   *)
KheapId == {"NONE", "DATA_BUFFERS", "OTHER"}
-----------------------------------------------------------------------------
(* How elements fill a chunk.                                              *)

PAGE_SIZE == 4096
ZONE_MAX_ALLOC_SIZE == 32 * 1024
ZONE_MIN_ELEM_SIZE == 8

zone_elem_adjust_size(size) ==
    Max({ZONE_MIN_ELEM_SIZE,
         ((size + ZONE_MIN_ELEM_SIZE - 1) \div ZONE_MIN_ELEM_SIZE)
            * ZONE_MIN_ELEM_SIZE})

(* What a chunk wastes, in per cent, rounded down.                         *)
Fragmentation(alloc, elem) == ((alloc % elem) * 100) \div alloc

Granules == {PAGE_SIZE * n : n \in 1..(ZONE_MAX_ALLOC_SIZE \div PAGE_SIZE)}

(* Mutant: the loop over the granules ends before the largest.             *)
LeastFragmentedBelow(elem) ==
    LET tried == Granules \ {ZONE_MAX_ALLOC_SIZE}
        least == Min({Fragmentation(g, elem) : g \in tried})
    IN  Min({g \in tried : Fragmentation(g, elem) = least})

(* The smallest of the chunk sizes with the least fragmentation.           *)
LeastFragmented(elem) ==
    LET least == Min({Fragmentation(g, elem) : g \in Granules})
    IN  Min({g \in Granules : Fragmentation(g, elem) = least})

zone_get_min_alloc_granule(elem, flags) ==
    IF flags = "percpu" THEN PAGE_SIZE * NumCpus
    ELSE IF flags = "readonly" THEN PAGE_SIZE
    ELSE IF elem % PAGE_SIZE = 0 THEN elem
    ELSE IF PAGE_SIZE % elem = 0 THEN PAGE_SIZE
    ELSE LeastFragmented(elem)

(* The fields are 16 bits wide.                                            *)
Zone(size, flags) ==
    LET elem == zone_elem_adjust_size(size)
        alloc == zone_get_min_alloc_granule(elem, flags)
        chunk == IF flags = "percpu" THEN PAGE_SIZE ELSE alloc
    IN  [flags |-> flags,
         z_elem_size |-> elem % 65536,
         z_chunk_pages |-> (alloc \div PAGE_SIZE) % 65536,
         z_chunk_elems |-> (chunk \div elem) % 65536,
         z_elem_offs |-> (chunk % elem) % 65536]

(* A per-cpu zone may not waste more than this of a page.                  *)
TooFragmented(size, flags) ==
    flags = "percpu" /\ PAGE_SIZE % zone_elem_adjust_size(size) > 256
-----------------------------------------------------------------------------
ZonesInit == /\ zone_array = [z \in {} |-> Zone(0, "plain")]
             /\ num_zones = 0 /\ num_zones_in_use = 0
             /\ zone_security_array = [z \in Id |-> "NONE"]
             /\ z_views = [z \in Id |-> 0]
             /\ zone_view_count = 0
             /\ panicked = FALSE

Panic == /\ panicked' = TRUE
         /\ UNCHANGED <<zone_array, num_zones, num_zones_in_use,
                        zone_security_array, z_views, zone_view_count>>

(* The first call reserves the fixed identifiers.                          *)
Reserved(n) == IF n < FIRST_DYNAMIC THEN FIRST_DYNAMIC ELSE n

(* The panics of zone_create_find.                                         *)
InvalidId(flags, zid) ==
    /\ zid # ANY
    /\ \/ zid >= FIRST_DYNAMIC
       \/ flags = "destructible"
       \/ zid \in DOMAIN zone_array

(* The zone is entered under its fixed identifier or under the next one;   *)
(* its security flags are cleared, then extra_setup names its heap.        *)
zone_create_find(zone, zid, kheap) ==
    LET nzones == Reserved(num_zones)
        id == IF zid = ANY THEN nzones ELSE zid
    IN  /\ zone_security_array' = [zone_security_array EXCEPT ![id] = kheap]
        /\ zone_array' = [z \in DOMAIN zone_array \union {id} |->
                             IF z = id THEN zone ELSE zone_array[z]]
        /\ num_zones' = IF zid = ANY THEN nzones + 1 ELSE nzones
        /\ num_zones_in_use' = num_zones_in_use + 1

zone_create_ext(size, flags, zid, kheap) ==
    /\ ~panicked
    /\ IF \/ size > ZONE_MAX_ALLOC_SIZE
          \/ num_zones >= MAX_ZONES
          \/ InvalidId(flags, zid)
          \/ TooFragmented(size, flags)
       THEN Panic
       ELSE /\ zone_create_find(Zone(size, flags), zid, kheap)
            /\ UNCHANGED <<z_views, zone_view_count, panicked>>

(* zone_by_id: the zone, or none when it has not been created.             *)
zone_by_id(zid) == IF zid \in DOMAIN zone_array THEN {zone_array[zid]} ELSE {}

HoldsSize(z, size) == \E zone \in zone_by_id(z) : size <= zone.z_elem_size

(* The kernel's kalloc: the smallest zone of the data heap with room for   *)
(* size.  When the heap has none it is no zone, or an entry of zone_array  *)
(* that has nothing to do with the heap.                                   *)
kalloc_zone_for_size(size) ==
    LET heap == {z \in Id : /\ zone_security_array[z] = "DATA_BUFFERS"
                            /\ HoldsSize(z, size)}
    IN  IF heap = {} THEN Id
        ELSE {z \in heap : \A y \in heap :
                 zone_array[z].z_elem_size <= zone_array[y].z_elem_size}

(* Mutant: the heap of the zone is not looked at.                          *)
FirstOfAnyZone(z) == IF z_views[z] = 0 THEN 2 ELSE 1

(* The first view of a zone that is of no heap counts for the zone, too.   *)
AddedViews(z) ==
    IF z_views[z] = 0 /\ zone_security_array[z] = "NONE" THEN 2 ELSE 1

(* The view is on a zone of the data heap, or on the zone that it names.   *)
zone_view_startup_init(heapid, zv_zone, size) ==
    /\ ~panicked
    /\ \E z \in IF heapid = "DATA_BUFFERS" THEN kalloc_zone_for_size(size)
                                            ELSE {zv_zone} :
          /\ z_views[z] < MaxViews
          /\ IF ~HoldsSize(z, size) THEN Panic
             ELSE /\ zone_view_count' = zone_view_count + AddedViews(z)
                  /\ z_views' = [z_views EXCEPT ![z] = @ + 1]
                  /\ UNCHANGED <<zone_array, num_zones, num_zones_in_use,
                                 zone_security_array, panicked>>

(* The zones of a heap are kalloc's, which asks for nothing special.       *)
ZonesNext ==
    \/ \E size \in Sizes, flags \in Flags, zid \in {ANY} \union Id :
          zone_create_ext(size, flags, zid, "NONE")
    \/ \E size \in Sizes, kheap \in KheapId \ {"NONE"} :
          zone_create_ext(size, "plain", ANY, kheap)
    \/ \E z \in Id, size \in Sizes : zone_view_startup_init("NONE", z, size)
    \/ \E size \in Sizes : zone_view_startup_init("DATA_BUFFERS", ANY, size)

ZonesSpec == ZonesInit /\ [][ZonesNext]_zones
-----------------------------------------------------------------------------
(* The views of each zone that has any, and 0 for the zone itself unless   *)
(* it is of a heap.                                                        *)
Views == {v \in Id \X (0..MaxViews) :
             /\ z_views[v[1]] > 0 /\ v[2] <= z_views[v[1]]
             /\ v[2] = 0 => zone_security_array[v[1]] = "NONE"}

(* Every zone that zone_create_ext has made has an identifier of its own,  *)
(* inside zone_array and below num_zones, where the kernel's loops over    *)
(* all zones find it; dynamic zones never take a fixed identifier, so that *)
(* a later zone_create_ext with a fixed one does not find it used;         *)
(* destructible zones are dynamic; a view or a heap is only ever on a zone *)
(* that has been made; and zone_view_count is the number of views, plus    *)
(* one for each zone of no heap that has any, in whatever order zones,     *)
(* heaps and views are set up.                                             *)
ZonesRegistered ==
    /\ Cardinality(DOMAIN zone_array) = num_zones_in_use
    /\ DOMAIN zone_array \subseteq 0..(num_zones - 1)
    /\ num_zones <= MAX_ZONES
    /\ {z \in DOMAIN zone_array : z >= FIRST_DYNAMIC} =
          FIRST_DYNAMIC..(num_zones - 1)
    /\ \A z \in DOMAIN zone_array :
          zone_array[z].flags = "destructible" => z >= FIRST_DYNAMIC
    /\ \A z \in Id : z_views[z] > 0 \/ zone_security_array[z] # "NONE"
                     => z \in DOMAIN zone_array
    /\ zone_view_count = Cardinality(Views)

(* A chunk holds at least one element (except of read-only zones, whose    *)
(* chunk is one page whatever the element), the fields have not lost bits, *)
(* and no chunk of up to 32 KB wastes a smaller part of its memory, by     *)
(* more than the per cent that the code rounds to.                         *)
HoldsElements(zone) ==
    LET pages == IF zone.flags = "percpu" THEN 1 ELSE zone.z_chunk_pages
    IN  /\ zone.z_elem_size % ZONE_MIN_ELEM_SIZE = 0
        /\ zone.z_chunk_elems * zone.z_elem_size + zone.z_elem_offs =
              pages * PAGE_SIZE
        /\ zone.flags # "readonly" => zone.z_chunk_elems > 0
        /\ zone.flags \notin {"readonly", "percpu"} =>
              \A n \in 1..8 :
                 100 * n * zone.z_elem_offs <=
                    100 * pages * ((n * PAGE_SIZE) % zone.z_elem_size)
                    + n * pages * PAGE_SIZE

(* zalloc.c: this is true of every zone.                                   *)
ChunksHoldElements ==
    \A z \in DOMAIN zone_array : HoldsElements(zone_array[z])
-----------------------------------------------------------------------------
(* The inductive invariant.                                                *)
ZonesTypeOK ==
    /\ zone_array \in [DOMAIN zone_array ->
                          [flags : Flags, z_elem_size : Nat, z_chunk_pages : Nat,
                           z_chunk_elems : Nat, z_elem_offs : Nat]]
    /\ num_zones \in Nat /\ num_zones_in_use \in Nat
    /\ zone_security_array \in [Id -> KheapId]
    /\ z_views \in [Id -> 0..MaxViews]
    /\ zone_view_count \in Nat
    /\ panicked \in BOOLEAN

ZonesInv == ZonesTypeOK /\ ZonesRegistered /\ ChunksHoldElements
=============================================================================
