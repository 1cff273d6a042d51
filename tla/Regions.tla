------------------------------- MODULE Regions -------------------------------
(***************************************************************************)
(* The memory behind the C interface: the pages the operating system has   *)
(* mapped, the one arena (src/src/arena.rs) with its slab pages, its TLSF  *)
(* pool and its bump blocks, and the huge mappings with a header page in   *)
(* front (src/src/huge.rs).  The operators find the region of an address   *)
(* the way ferrum_free and ferrum_usable_size do, and give the effects of  *)
(* the allocators; Api says which thread runs them, and when.              *)
(*                                                                         *)
(* Addresses and sizes count units of 16 bytes.  Slots and TLSF blocks are *)
(* here what ThreadCache and Tlsf promise of them: sets, without lists.    *)
(* A size class is named by the size of its slots.                         *)
(***************************************************************************)
EXTENDS Integers, FiniteSets

CONSTANTS
    Threads,
    NULL,             \* null pointer
    Classes,          \* size classes
    NO_CLASS,         \* size_class 0xFF
    NO_OWNER,         \* owner_id 0xFFFF
    PAGE_SIZE,
    META_PAGES,       \* pages of the arena before its data
    POOL_PAGES,       \* pages of the TLSF pool
    PAGES_PER_ARENA,
    OsPages,          \* the pages of the address space
    Bases             \* where the operating system may put a mapping

ASSUME RegionsAssumption ==
    /\ PAGE_SIZE \in Nat \ {0}
    /\ META_PAGES \in Nat \ {0}
    /\ POOL_PAGES \in Nat \ {0}
    /\ PAGES_PER_ARENA \in Nat
    /\ META_PAGES + POOL_PAGES <= PAGES_PER_ARENA
    /\ Classes \subseteq 1..PAGE_SIZE
    /\ NO_CLASS \notin Classes
    /\ NO_OWNER \notin Threads
    /\ NULL \notin Int \cup Threads
    /\ OsPages \subseteq Nat \ {0}
    /\ Bases \subseteq OsPages

VARIABLES
    mapped,          \* pages obtained from os_alloc and not given back
    header,          \* HugeHeader.total_size in pages, of the header in a page; 0: none
    arena,           \* GLOBAL_ARENA: the first page of the arena
    next_free_page,  \* ArenaMeta.next_free_page
    meta,            \* PageMeta of every page of the arena
    tlsf,            \* GLOBAL_TLSF: the first page of its pool
    pool,            \* TLSF blocks in use: <<address, usable size>>
    available,       \* free slots, by address
    pending,         \* slots on the Treiber stack of their page's owner
    stranded         \* slab pages on the partial list of the global slab

osVars   == <<mapped, header>>
pageVars == <<next_free_page, meta>>
slotVars == <<available, pending, stranded>>

Span(first, n) == first..(first + n - 1)
Addr(page)     == page * PAGE_SIZE
PageOf(a)      == a \div PAGE_SIZE
PagesFor(n)    == (n + PAGE_SIZE - 1) \div PAGE_SIZE

EmptyMeta == [size_class |-> NO_CLASS, owner_id |-> NO_OWNER]

RegionsInit ==
    /\ mapped = {}
    /\ header = [p \in OsPages |-> 0]
    /\ arena = NULL
    /\ next_free_page = 0
    /\ meta = [p \in 0..(PAGES_PER_ARENA - 1) |-> EmptyMeta]
    /\ tlsf = NULL
    /\ pool = {}
    /\ available = {}
    /\ pending = {}
    /\ stranded = {}

(* Where os_alloc can find n pages. *)
Fresh(n) == {b \in Bases : Span(b, n) \subseteq OsPages \ mapped}
-----------------------------------------------------------------------------
(* From an address to its region.  The arena exists: a caller that finds
   GLOBAL_ARENA null does not get this far. *)

contains(a) == Addr(arena) <= a /\ a < Addr(arena + PAGES_PER_ARENA)

ptr_to_page_index(a) ==
    IF contains(a) /\ a >= Addr(arena + META_PAGES) THEN PageOf(a) - arena ELSE 0

MetaOf(a) == meta[ptr_to_page_index(a)]

(* Mutant: the address after the pool taken for part of it. *)
PoolContainsEnd(a) == tlsf # NULL /\ Addr(tlsf) <= a /\ a <= Addr(tlsf + POOL_PAGES)

PoolContains(a) == tlsf # NULL /\ Addr(tlsf) <= a /\ a < Addr(tlsf + POOL_PAGES)

(* Huge blocks are whatever lies outside the arena, bump blocks whatever in
   it is neither a slot nor in the pool. *)
RegionOf(a) ==
    IF ~contains(a) THEN "huge"
    ELSE IF ptr_to_page_index(a) = 0 THEN "none"
    ELSE IF MetaOf(a).size_class # NO_CLASS THEN "slab"
    ELSE IF PoolContains(a) THEN "tlsf"
    ELSE "bump"

usable_size(a) ==
    CASE RegionOf(a) = "slab" -> MetaOf(a).size_class
      [] RegionOf(a) = "tlsf" -> (CHOOSE b \in pool : b[1] = a)[2]
      [] RegionOf(a) = "huge" ->
            IF header[PageOf(a) - 1] = 0 THEN 0 ELSE Addr(header[PageOf(a) - 1] - 1)
      [] OTHER -> 0
-----------------------------------------------------------------------------
(* Pages of the arena, for a slab or in a row for the pool or a bump block. *)

(* Mutants: one page too many; one page of several taken. *)
BumpFitsOneMore(n) == next_free_page + n <= PAGES_PER_ARENA + 1
TakePagesOne(n) ==
    /\ next_free_page' = next_free_page + 1
    /\ meta' = [p \in DOMAIN meta |->
                  IF p \in Span(next_free_page, n)
                  THEN [meta[p] EXCEPT !.size_class = NO_CLASS] ELSE meta[p]]

BumpFits(n) == next_free_page + n <= PAGES_PER_ARENA

TakePages(n) ==
    /\ next_free_page' = next_free_page + n
    /\ meta' = [p \in DOMAIN meta |->
                  IF p \in Span(next_free_page, n)
                  THEN [meta[p] EXCEPT !.size_class = NO_CLASS] ELSE meta[p]]

(* Mutant: the last page of the metadata taken for the first of the data. *)
NewArenaEarly(base) ==
    /\ mapped' = mapped \cup Span(base, PAGES_PER_ARENA)
    /\ next_free_page' = META_PAGES - 1
    /\ meta' = [p \in DOMAIN meta |-> EmptyMeta]
    /\ UNCHANGED header

(* Arena::new at base: its metadata is written, its pages are empty. *)
NewArena(base) ==
    /\ mapped' = mapped \cup Span(base, PAGES_PER_ARENA)
    /\ next_free_page' = META_PAGES
    /\ meta' = [p \in DOMAIN meta |-> EmptyMeta]
    /\ UNCHANGED header

SlotsOfPage(p, c) == {Addr(arena + p) + i * c : i \in 0..(PAGE_SIZE \div c - 1)}

(* A page for class c of thread t, whose first slot is taken at once. *)
CarvePage(t, c) ==
    /\ BumpFits(1)
    /\ next_free_page' = next_free_page + 1
    /\ meta' = [meta EXCEPT ![next_free_page] = [size_class |-> c, owner_id |-> t]]
    /\ available' = available \cup (SlotsOfPage(next_free_page, c) \ {Addr(arena + next_free_page)})
    /\ UNCHANGED <<pending, stranded>>

(* The free slots on the partial list of t's cache for class c, and the
   slots other threads have given back to it. *)
Listed(t, c) == {s \in available : /\ MetaOf(s) = [size_class |-> c, owner_id |-> t]
                                   /\ ptr_to_page_index(s) \notin stranded}
Remote(t) == {s \in pending : MetaOf(s).owner_id = t}

(* The page of a slot.  Its free list is read in one step and stored in
   another, by the owner without the lock: FreeIn is what a step reads of it,
   and StoreList puts in its place the list made of what was read, whatever
   the page's list has become since. *)
PageSlots(s) == LET p == ptr_to_page_index(s) IN SlotsOfPage(p, meta[p].size_class)
FreeIn(s)    == available \cap PageSlots(s)

StoreList(s, slots) == available' = (available \ PageSlots(s)) \cup slots

(* SlabAllocator::free of the global slab puts a page that it has found full
   on the list of the global slab. *)
StoreInGlobalSlab(s, seen) ==
    /\ StoreList(s, seen \cup {s})
    /\ stranded' = IF seen = {} THEN stranded \cup {ptr_to_page_index(s)} ELSE stranded
    /\ UNCHANGED pending

(* What TLSF may answer to a request for n: it keeps free neighbours merged
   and splits a free block from its start, so the new block's header stands
   at the start of the pool or right behind a block in use.  The gap ends at
   the next header or at the sentinel; what is left of it stays with the
   block when it is too short for a header and a payload. *)
PoolStarts  == {Addr(tlsf)} \cup {b[1] + b[2] : b \in pool}
PoolHeaders == {b[1] - 1 : b \in pool} \cup {Addr(tlsf + POOL_PAGES) - 1}

GapAfter(start) ==
    LET next == CHOOSE h \in PoolHeaders : start <= h /\ \A g \in PoolHeaders : start <= g => h <= g
    IN  next - start - 1

PoolBlock(start, n) == <<start + 1, IF GapAfter(start) - n < 2 THEN GapAfter(start) ELSE n>>

PoolChoices(n) == {PoolBlock(start, n) : start \in {s \in PoolStarts : n <= GapAfter(s)}}

(* It refuses a request only when it has no block as long as the request
   rounded up, by less than a sixteenth, to the next list (GoodFit of Tlsf). *)
PoolRefuses(n) == tlsf # NULL => PoolChoices(n + n \div 16) = {}
-----------------------------------------------------------------------------
(* Huge blocks: a header page, then the block, in a mapping of their own. *)
HugePages(n) == PagesFor(n + PAGE_SIZE)

huge_alloc(base, n) ==
    /\ mapped' = mapped \cup Span(base, HugePages(n))
    /\ header' = [header EXCEPT ![base] = HugePages(n)]

(* Mutant: the header page is not given back. *)
huge_free_block_only(a) ==
    LET base == PageOf(a) - 1 IN
    /\ mapped' = mapped \ Span(base + 1, header[base] - 1)
    /\ header' = [header EXCEPT ![base] = 0]

(* os_free of as many pages as the header says; nothing without a header. *)
huge_free(a) ==
    LET base == PageOf(a) - 1 IN
    /\ mapped' = mapped \ Span(base, header[base])
    /\ header' = [header EXCEPT ![base] = 0]
=============================================================================
