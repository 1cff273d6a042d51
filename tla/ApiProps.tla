------------------------------- MODULE ApiProps -------------------------------
(***************************************************************************)
(* What makes the C interface correct: the invariants, the action          *)
(* property, the abstract heap it implements and the liveness property.    *)
(***************************************************************************)
EXTENDS Api

InitSteps == {"init", "init_arena", "init_pool"}
Parts == {"huge", "malloc", "drain", "slot", "slot_store", "tlsf", "usable",
          "free", "free_store", "free_locked", "locked_store"}

(* The parts that ensure_init may return to. *)
FirstParts == {"huge", "malloc", "tlsf", "usable", "free"}

ArenaPages == 0..(PAGES_PER_ARENA - 1)

(* A block is held by the application, or in the hands of a call in progress
   as its argument or result. *)
Hands(c) == {c.ptr, c.new} \ {NULL}

Blocks ==
    held \cup UNION {Hands(call[t]) : t \in Threads}

In(region) == {b \in Blocks : b.region = region}
Extent(b) == Span(b.addr, b.room)

IsBlock(b) ==
    /\ b \in Block
    /\ b.size <= b.room

(* Every variable keeps its type: the arena never gives out more pages than
   it has, no block is shorter than was asked. *)
TypeOK ==
    /\ mapped \subseteq OsPages
    /\ header \in [OsPages -> Nat]
    /\ arena \in OsPages \cup {NULL}
    /\ next_free_page \in 0..PAGES_PER_ARENA
    /\ meta \in [ArenaPages -> [size_class : Classes \cup {NO_CLASS},
                                owner_id : Threads \cup {NO_OWNER}]]
    /\ tlsf \in OsPages \cup {NULL}
    /\ pool \subseteq Nat \X Nat
    /\ available \subseteq Nat
    /\ pending \subseteq Nat
    /\ stranded \subseteq ArenaPages
    /\ lock \in Threads \cup {NULL}
    /\ arena_init \in BOOLEAN
    /\ tls_key \in BOOLEAN
    /\ cached \subseteq Threads
    /\ \A b \in Blocks : IsBlock(b)
    /\ pc \in [Threads -> {"idle", "crashed", "ended"} \cup InitSteps \cup Parts]
    /\ \A t \in Threads :
        /\ call[t].op \in {"none", "malloc", "free", "realloc", "usable_size",
                         "hooked_free", "hooked_realloc"}
        /\ call[t].then \in FirstParts \cup {"idle"}
        /\ call[t].refused \in BOOLEAN
        /\ call[t].seen \subseteq Nat
-----------------------------------------------------------------------------
(* api.rs: "Returns null if allocation fails".  Whatever ensure_init of other
   threads is doing, a thread meets a null GLOBAL_ARENA only if its own
   ensure_init was refused the memory for it. *)
NullArenaOnlyIfRefused ==
    \A t \in Threads : pc[t] = "crashed" => call[t].refused

(* api.rs: "Raw pointer to the global arena (initialized once)".  The arena
   and its pool stay where they are, and no page once carved changes owner. *)
InitOnce ==
    [][/\ arena # NULL => arena' = arena
       /\ tlsf # NULL => tlsf' = tlsf
       /\ \A p \in ArenaPages : meta[p].size_class # NO_CLASS => meta'[p] = meta[p]]_vars

(* Why these two hold, for any number of threads and at every step of
   ensure_init: the lock is with the thread that initialises, what it has not
   published yet nobody has, and a thread that has come out of ensure_init
   without being refused finds the arena.  A page not given out is empty. *)
CallTyped(c) ==
    /\ DOMAIN c = DOMAIN NoCall
    /\ c.then \in FirstParts \cup {"idle"}
    /\ c.size \in Nat

ThreadInit(t) ==
    /\ CallTyped(call[t])
    /\ pc[t] \in {"init_arena", "init_pool"} => lock = t /\ ~arena_init /\ tlsf = NULL
    /\ pc[t] = "locked_store" => lock = t /\ arena_init
    /\ pc[t] = "init_arena" => arena = NULL /\ call[t].base # NULL
    /\ pc[t] = "init_pool" => arena # NULL
    /\ pc[t] \in Parts \ {"huge"} /\ arena = NULL => call[t].refused
    /\ pc[t] = "crashed" => call[t].refused

GlobalsInit ==
    /\ arena_init => arena # NULL
    /\ lock = NULL /\ ~arena_init => arena = NULL /\ tlsf = NULL

PagesInit ==
    /\ next_free_page \in Nat
    /\ DOMAIN meta = ArenaPages
    /\ \A p \in ArenaPages : p >= next_free_page \/ ~arena_init => meta[p] = EmptyMeta

ThreadsInit ==
    /\ DOMAIN pc = Threads
    /\ DOMAIN call = Threads
    /\ \A t \in Threads : ThreadInit(t)

InitInv == ThreadsInit /\ GlobalsInit /\ PagesInit

(* free and realloc get a bare address.  From it they find the allocator the
   block came from, and what it has room for; only of a bump block is the
   size unknown.  Without an arena there are only huge blocks. *)
FindsAllocator ==
    \A b \in Blocks :
        IF arena = NULL THEN b.region = "huge"
        ELSE /\ RegionOf(b.addr) = b.region
             /\ usable_size(b.addr) = IF b.region = "bump" THEN 0 ELSE b.room

(* Every slot of every slab page is free, on its way back, or held, and only
   one of these; every TLSF block in use and every huge mapping belongs to
   a block.  A free slot counts when a malloc would find it, on the lists of
   a cache, or else as lost to the global slab. *)
SlabPages == {p \in ArenaPages : meta[p].size_class # NO_CLASS}
SlabSlots == UNION {SlotsOfPage(p, meta[p].size_class) : p \in SlabPages}
Addrs(blocks) == {b.addr : b \in blocks}

HugeSpan(b) == Span(PageOf(b.addr) - 1, HugePages(b.size))
Reserved == ({arena} \cup {call[t].base : t \in Threads}) \ {NULL}
ArenaSpans == {Span(base, PAGES_PER_ARENA) : base \in Reserved}

Accounted(free) ==
    /\ free \cup pending \cup Addrs(In("slab")) = SlabSlots
    /\ free \cap pending = {}
    /\ (free \cup pending) \cap Addrs(In("slab")) = {}
    /\ pool = {<<b.addr, b.room>> : b \in In("tlsf")}
    /\ mapped = UNION (ArenaSpans \cup {HugeSpan(b) : b \in In("huge")})

Obtainable == UNION {Listed(t, c) : t \in Threads, c \in Classes}
Stranded   == {s \in available : ptr_to_page_index(s) \in stranded}

(* What a malloc has read of a free list is free when it takes a slot of it. *)
PopsFree == \A t \in Threads : pc[t] = "slot_store" => call[t].seen \subseteq Obtainable

(* Only bump blocks can get lost, and no slot is handed out twice, as long as
   every thread that frees a slot has a cache. *)
NothingLost == Accounted(Obtainable) /\ PopsFree

(* When others do, and calls do not overlap, the free slots of the pages on
   the list of the global slab are lost too, and no others. *)
OnlyStrandedLost == Accounted(Obtainable \cup Stranded) /\ PopsFree

(* What the application writes to cannot damage the allocator: a block lies
   in mapped memory and shares no byte with the arena's metadata, a TLSF
   header or the sentinel, the header of a huge block, or the links in a
   slot that is free. *)
Private ==
    LET metadata == IF arena = NULL THEN {} ELSE Span(Addr(arena), Addr(META_PAGES))
        headers  == {b[1] - 1 : b \in pool}
                       \cup {Addr(p) : p \in {q \in OsPages : header[q] > 0}}
        sentinel == IF tlsf = NULL THEN {} ELSE {Addr(tlsf + POOL_PAGES) - 1}
        links    == available \cup pending IN
    \A b \in Blocks :
        /\ {PageOf(a) : a \in Extent(b)} \subseteq mapped
        /\ Extent(b) \cap (metadata \cup headers \cup sentinel \cup links) = {}

(* api.rs: "copies `min(old_size, new_size)` bytes".  realloc keeps all that
   the application can have stored, and writes no byte past the new block. *)
ReallocKeeps ==
    \A t \in Threads : call[t].new # NULL =>
        LET old == call[t].ptr
            new == call[t].new IN
        /\ call[t].copied >= IF old.size < new.size THEN old.size ELSE new.size
        /\ call[t].copied <= new.room

(* Likewise it reads no byte past the old block. *)
CopyStaysInside ==
    \A t \in Threads : call[t].new # NULL => call[t].copied <= call[t].ptr.room

(* Whichever allocators serve them, malloc, realloc and free together are a
   heap: what malloc returns overlaps nothing that is still in use. *)
AbstractHeap == INSTANCE Heap WITH
    Pool   <- {a \in Nat : PageOf(a) \in OsPages},
    blocks <- {<<b.addr, b.size, b.room>> : b \in Blocks}

HeapSpec == AbstractHeap!Spec
-----------------------------------------------------------------------------
(* Fairness: a thread in the middle of a call keeps running. *)
FairSpec == Spec /\ \A t \in Threads : WF_vars(Step(t))

(* No way through a call keeps the lock or goes on for ever, whatever
   os_alloc, the pool and the arena refuse: a call returns, unless a null
   GLOBAL_ARENA ends the process.  That a thread waiting for the lock gets it
   is taken for granted, since a section is over in the step that enters it. *)
CallsReturn == \A t \in Threads : []<>(pc[t] \in {"idle", "crashed", "ended"})
=============================================================================
