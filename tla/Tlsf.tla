-------------------------------- MODULE Tlsf --------------------------------
(***************************************************************************)
(* The TLSF allocator (src/src/tlsf.rs) over its one pool: block headers   *)
(* with boundary tags, the two-level array of free lists threaded through  *)
(* the payloads of free blocks, and the bitmaps that say which lists are   *)
(* not empty.  Every call runs under ARENA_LOCK (src/src/api.rs), so each  *)
(* is one step.                                                            *)
(*                                                                         *)
(* Addresses and sizes count units of ALIGN bytes, which is what a header, *)
(* the links of a free block and the smallest payload take.  A unit holds  *)
(* a header, links or data.  A unit that stops being a header or links     *)
(* becomes data: nothing may read it as what it was.                       *)
(***************************************************************************)
EXTENDS TlsfMapping, FiniteSets

CONSTANTS
    PoolUnits,   \* length of the pool, in units
    Requests,    \* the sizes asked for, in bytes
    NULL

ASSUME TlsfAssumption ==
    /\ PoolUnits \in Nat
    /\ PoolUnits >= 3
    /\ ALIGN * PoolUnits < 2^(FL_MAX + 1)
    /\ Requests \subseteq 1..(2^(FL_MAX + 1) - ALIGN)
    /\ NULL \notin Int

Units    == 0..(PoolUnits - 1)
Sizes    == 0..(PoolUnits - 2)
Sentinel == PoolUnits - 1

VARIABLES
    mem,          \* what every unit of the pool holds
    lists,        \* heads of the free lists
    fl_bitmap,    \* first levels with a non-empty list
    sl_bitmaps,   \* second levels with a non-empty list, by first level
    held          \* what the application holds: <<payload address, size asked for>>

heap == [mem |-> mem, lists |-> lists, fl |-> fl_bitmap, sl |-> sl_bitmaps]
vars == <<mem, lists, fl_bitmap, sl_bitmaps, held>>

Header(size, free, prev_free, prev_size) ==
    [kind |-> "header", size |-> size, free |-> free,
     prev_free |-> prev_free, prev_phys_size |-> prev_size]
Links(prev, next) == [kind |-> "links", prev |-> prev, next |-> next]
Data == [kind |-> "data"]

(* BlockHeader's address arithmetic. *)
Payload(b)      == b + 1
FromPayload(p)  == p - 1
NextPhys(m, b)  == Payload(b) + m[b].size
PrevPhys(m, b)  == b - (m[b].prev_phys_size + 1)
Bin(m, b)       == mapping(ALIGN * m[b].size)
-----------------------------------------------------------------------------
(* The free lists. *)

(* Mutant: the block is inserted behind the head, whose prev it leaves. *)
InsertFreeHeadKept(h, b) ==
    LET bin  == Bin(h.mem, b)
        head == h.lists[bin] IN
    [h EXCEPT !.mem[Payload(b)] = Links(NULL, head),
              !.lists[bin] = b,
              !.fl = @ \cup {bin[1]},
              !.sl[bin[1]] = @ \cup {bin[2]}]

InsertFree(h, b) ==
    LET bin  == Bin(h.mem, b)
        head == h.lists[bin] IN
    [h EXCEPT !.mem = [a \in Units |->
                          IF a = Payload(b) THEN Links(NULL, head)
                          ELSE IF head # NULL /\ a = Payload(head) THEN [@[a] EXCEPT !.prev = b]
                          ELSE @[a]],
              !.lists[bin] = b,
              !.fl = @ \cup {bin[1]},
              !.sl[bin[1]] = @ \cup {bin[2]}]

RemoveFree(h, b) ==
    LET bin   == Bin(h.mem, b)
        prev  == h.mem[Payload(b)].prev
        next  == h.mem[Payload(b)].next
        first == IF prev = NULL THEN next ELSE h.lists[bin]
        sl    == IF first = NULL THEN h.sl[bin[1]] \ {bin[2]} ELSE h.sl[bin[1]] IN
    [h EXCEPT !.mem = [a \in Units |->
                          IF a = Payload(b) THEN Data
                          ELSE IF prev # NULL /\ a = Payload(prev) THEN [@[a] EXCEPT !.next = next]
                          ELSE IF next # NULL /\ a = Payload(next) THEN [@[a] EXCEPT !.prev = prev]
                          ELSE @[a]],
              !.lists[bin] = first,
              !.sl[bin[1]] = sl,
              !.fl = IF first = NULL /\ sl = {} THEN @ \ {bin[1]} ELSE @]

Lowest(S) == CHOOSE i \in S : \A j \in S : i <= j

(* The first block of the first list at or after the one the request maps
   to; NULL if there is none. *)
FindSuitable(h, bytes) ==
    LET start == mapping_search(bytes)
        same  == {j \in h.sl[start[1]] : j >= start[2]}
        above == {i \in h.fl : i > start[1]}
        fl    == Lowest(above) IN
    IF start[1] >= FL_COUNT THEN NULL
    ELSE IF same # {} THEN h.lists[<<start[1], Lowest(same)>>]
    ELSE IF above # {} THEN h.lists[<<fl, Lowest(h.sl[fl])>>]
    ELSE NULL
-----------------------------------------------------------------------------
(* Splitting and merging blocks. *)

(* prepare_used: the block keeps `size` units and what is left becomes a
   free block of its own, if it can hold a header and a payload. *)
Split(h, b, size) ==
    LET left  == h.mem[b].size - size
        split == Payload(b) + size
        after == NextPhys(h.mem, b) IN
    IF left < 2 THEN h
    ELSE InsertFree([h EXCEPT !.mem[b].size = size,
                              !.mem[split] = Header(left - 1, TRUE, FALSE, size),
                              !.mem[after].prev_phys_size = left - 1,
                              !.mem[after].prev_free = TRUE], split)

(* Mutant: the next block is not told that this one is in use. *)
MarkUsedNextNotTold(h, b) == [h EXCEPT !.mem[b].free = FALSE]

MarkUsed(h, b) ==
    [h EXCEPT !.mem[b].free = FALSE,
              !.mem[NextPhys(h.mem, b)].prev_free = FALSE]

MergeNext(h, b) ==
    LET next == NextPhys(h.mem, b)
        size == h.mem[b].size + 1 + h.mem[next].size IN
    IF ~h.mem[next].free THEN h
    ELSE [RemoveFree(h, next) EXCEPT !.mem[b].size = size,
                                     !.mem[next] = Data,
                                     !.mem[NextPhys(h.mem, next)].prev_phys_size = size]

(* Mutant: the block before is never merged. *)
MergePrevNever(h, b) == h

MergePrev(h, b) ==
    LET prev == PrevPhys(h.mem, b)
        size == h.mem[prev].size + 1 + h.mem[b].size IN
    IF ~h.mem[b].prev_free THEN h
    ELSE [RemoveFree(h, prev) EXCEPT !.mem[prev].size = size,
                                     !.mem[b] = Data,
                                     !.mem[NextPhys(h.mem, b)].prev_phys_size = size]

MergedInto(h, b) == IF h.mem[b].prev_free THEN PrevPhys(h.mem, b) ELSE b

(* Mutants: the next block is not told, or told a size with the header. *)
TellNextNothing(h, b) == h
TellNextWithHeader(h, b) ==
    LET next == NextPhys(h.mem, b) IN
    [h EXCEPT !.mem[next].prev_free = TRUE, !.mem[next].prev_phys_size = h.mem[b].size + 1]

(* The end of free: the next block learns that this one is free. *)
TellNext(h, b) ==
    LET next == NextPhys(h.mem, b) IN
    [h EXCEPT !.mem[next].prev_free = TRUE, !.mem[next].prev_phys_size = h.mem[b].size]
-----------------------------------------------------------------------------
SetHeap(h) ==
    /\ mem' = h.mem
    /\ lists' = h.lists
    /\ fl_bitmap' = h.fl
    /\ sl_bitmaps' = h.sl

(* add_pool: one free block and the sentinel behind it. *)
EmptyHeap ==
    [mem   |-> [a \in Units |-> IF a = 0 THEN Header(PoolUnits - 2, TRUE, FALSE, 0)
                                ELSE IF a = Sentinel THEN Header(0, FALSE, TRUE, PoolUnits - 2)
                                ELSE Data],
     lists |-> [bin \in FirstLevels \X SecondLevels |-> NULL],
     fl    |-> {},
     sl    |-> [i \in FirstLevels |-> {}]]

Init ==
    LET h == InsertFree(EmptyHeap, 0) IN
    /\ mem = h.mem
    /\ lists = h.lists
    /\ fl_bitmap = h.fl
    /\ sl_bitmaps = h.sl
    /\ held = {}

(* alloc: the smallest size served is MIN_PAYLOAD.  A call that finds no
   block returns null and changes nothing. *)
Adjusted(n) == IF align_up_size(n) < MIN_PAYLOAD THEN MIN_PAYLOAD ELSE align_up_size(n)

(* Mutant: the block found stays in its list. *)
AllocStillListed(n) ==
    LET b    == FindSuitable(heap, Adjusted(n))
        size == Adjusted(n) \div ALIGN IN
    /\ b # NULL
    /\ SetHeap(MarkUsed(Split(heap, b, size), b))
    /\ held' = held \cup {<<Payload(b), n>>}

Alloc(n) ==
    LET b    == FindSuitable(heap, Adjusted(n))
        size == Adjusted(n) \div ALIGN IN
    /\ b # NULL
    /\ SetHeap(MarkUsed(Split(RemoveFree(heap, b), b, size), b))
    /\ held' = held \cup {<<Payload(b), n>>}

Free(e) ==
    LET b == FromPayload(e[1])
        n == MergeNext([heap EXCEPT !.mem[b].free = TRUE], b)
        p == MergePrev(n, b)
        m == MergedInto(n, b) IN
    /\ SetHeap(InsertFree(TellNext(p, m), m))
    /\ held' = held \ {e}

Next ==
    \/ \E n \in Requests : Alloc(n)
    \/ \E e \in held : Free(e)

Spec == Init /\ [][Next]_vars
-----------------------------------------------------------------------------
Headers   == {a \in Units : mem[a].kind = "header"}
FreeBlocks == {b \in Headers : mem[b].free}
Blocks    == Headers \ {Sentinel}
UsableSize(p) == mem[FromPayload(p)].size

TypeOK ==
    /\ mem \in [Units ->
            [kind : {"header"}, size : Sizes, free : BOOLEAN, prev_free : BOOLEAN, prev_phys_size : Sizes]
            \cup [kind : {"links"}, prev : Units \cup {NULL}, next : Units \cup {NULL}]
            \cup {Data}]
    /\ lists \in [FirstLevels \X SecondLevels -> Units \cup {NULL}]
    /\ fl_bitmap \subseteq FirstLevels
    /\ sl_bitmaps \in [FirstLevels -> SUBSET SecondLevels]
    /\ held \subseteq Units \X Requests

(* tlsf.rs: "Boundary Tag".  The blocks tile the pool up to the sentinel:
   each header is followed, right behind its payload, by the next, which
   knows its predecessor's size and whether it is free. *)
BoundaryTags ==
    /\ {0, Sentinel} \subseteq Headers
    /\ \A b \in Blocks :
        LET next == NextPhys(mem, b) IN
        /\ next \in Headers
        /\ (b + 1)..(next - 1) \cap Headers = {}
        /\ mem[next].prev_phys_size = mem[b].size
        /\ mem[next].prev_free = mem[b].free
    /\ ~mem[Sentinel].free /\ mem[Sentinel].size = 0

(* Coalescing is complete: no two free blocks are neighbours, so that what
   the application gives back it can get back in one piece. *)
Coalesced == \A b \in FreeBlocks : ~mem[NextPhys(mem, b)].free /\ ~mem[b].prev_free

(* Every free block is in the list of its size, which is doubly linked and
   comes to an end in both directions, and the bitmaps say exactly which
   lists have a block. *)
Before(b) == mem[Payload(b)].prev

ListsExact ==
    /\ \A b \in FreeBlocks :
        LET l == mem[Payload(b)] IN
        /\ l.kind = "links"
        /\ IF l.prev = NULL THEN lists[Bin(mem, b)] = b
           ELSE l.prev \in FreeBlocks /\ mem[Payload(l.prev)].next = b
        /\ l.next # NULL => /\ l.next \in FreeBlocks
                            /\ Bin(mem, l.next) = Bin(mem, b)
                            /\ mem[Payload(l.next)].prev = b
    /\ \A bin \in DOMAIN lists :
        /\ lists[bin] # NULL =>
              /\ lists[bin] \in FreeBlocks
              /\ Bin(mem, lists[bin]) = bin
              /\ Before(lists[bin]) = NULL
        /\ bin[2] \in sl_bitmaps[bin[1]] <=> lists[bin] # NULL
        /\ bin[1] \in fl_bitmap <=> sl_bitmaps[bin[1]] # {}
    /\ \A S \in SUBSET FreeBlocks : S # {} => \E b \in S : Before(b) \notin S

(* tlsf.rs: "every block in the returned bin is guaranteed to be >= size".
   A block found is free and long enough; none is found only if every free
   block is shorter than the request rounded up to a boundary of a list. *)
GoodFit ==
    \A n \in Requests :
        LET want == Adjusted(n)
            b    == FindSuitable(heap, want) IN
        /\ b # NULL => b \in FreeBlocks /\ ALIGN * mem[b].size >= want
        /\ b = NULL => \A f \in FreeBlocks : ALIGN * mem[f].size < want + SearchRound(want)

(* The blocks the application holds are the used blocks, and no header, no
   links and no other block's payload lies inside their payload. *)
HeldIntact ==
    /\ {e[1] : e \in held} = {Payload(b) : b \in Blocks \ FreeBlocks}
    /\ \A e \in held : \A a \in e[1]..(e[1] + UsableSize(e[1]) - 1) : mem[a] = Data

(* The blocks held, with the units each was asked to have and those it has,
   behave as the abstract heap: they lie in the pool, are long enough and
   never overlap. *)
UnitsFor(n) == (n + ALIGN - 1) \div ALIGN

HeapOfBlocks == INSTANCE Heap WITH
    Pool   <- Units,
    blocks <- {<<e[1], UnitsFor(e[2]), UsableSize(e[1])>> : e \in held}

HeapSpec == HeapOfBlocks!Spec
=============================================================================
