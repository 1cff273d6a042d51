----------------------------- MODULE MCNumerics -----------------------------
(***************************************************************************)
(* The pure computations of the allocator, checked size by size against    *)
(* what defines them: every size served by a slab, then every multiple of  *)
(* ALIGN up to the whole TLSF pool.                                        *)
(***************************************************************************)
EXTENDS SizeClass, TlsfMapping

CONSTANT MaxSize     \* the largest size tried

ASSUME NumericsAssumption ==
    /\ MaxSize \in Nat
    /\ MaxSize >= SLAB_MAX_SIZE
    /\ MaxSize + ALIGN < 2^(FL_MAX + 1)

VARIABLE size

Init == size = 1

NextSmall == size < SLAB_MAX_SIZE /\ size' = size + 1
NextLarge == size >= SLAB_MAX_SIZE /\ size < MaxSize /\ size' = size + ALIGN

Next == NextSmall \/ NextLarge

Spec == Init /\ [][Next]_size
-----------------------------------------------------------------------------
Slab == size <= SLAB_MAX_SIZE
Block == size >= MIN_PAYLOAD /\ size % ALIGN = 0

(* A slot is as long as the request it serves.  The slots of a class lie side
   by side inside a page of the data area, behind the metadata, and the
   address of each leads back to its page and index; no index is NULL_SLOT
   and a freed slot has room for a RemoteFreeNode. *)
SlotsRoundTrip ==
    Slab =>
        LET c == size_to_class(size)
            p == META_PAGES IN
        /\ class_to_size(c) >= size
        /\ class_to_size(c) >= POINTER_SIZE
        /\ slots_per_page(c) \in 2..NullSlot
        /\ (slots_per_page(c) + 1) * class_to_size(c) > PAGE_SIZE
        /\ \A i \in 0..(slots_per_page(c) - 1) :
            LET addr == slot_addr(p, c, i) IN
            /\ page_index(addr + class_to_size(c) - 1) = p
            /\ slot_index(addr, c) = i
        /\ PAGE_SIZE + PAGES_PER_ARENA * PAGE_META_SIZE <= META_PAGES * PAGE_SIZE

(* A list of the two-level array holds the sizes from its lower bound up to
   the lower bound of the next list. *)
BlockInItsList ==
    Block => LET bin == mapping(size) IN
             /\ bin \in FirstLevels \X SecondLevels
             /\ LowerBound(bin) <= size /\ size < UpperBound(bin)

(* tlsf.rs: "so every block in the returned bin is guaranteed to be >=
   size", and no list before the returned one has that guarantee. *)
RequestRoundsUp ==
    Block => LET bin == mapping_search(size) IN
             /\ LowerBound(bin) >= size
             /\ AtOrAfter(bin, mapping(size))
             /\ LowerBound(bin) <= size + SearchRound(size)

(* api.rs: "aligned to at least 16 bytes". *)
AlignedTo16 ==
    Slab => LET c == size_to_class(size) IN
            \A i \in 0..(slots_per_page(c) - 1) : slot_addr(META_PAGES, c, i) % MAX_ALIGN = 0
=============================================================================
