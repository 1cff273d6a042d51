------------------------------- MODULE ApiInv -------------------------------
(***************************************************************************)
(* The inductive invariant of the C interface: every block is in one pair  *)
(* of hands, and lies where its allocator puts blocks, apart from the      *)
(* others.                                                                 *)
(***************************************************************************)
EXTENDS ApiProps

SmallParts == {"malloc", "drain", "slot", "slot_store"}
AllocParts == SmallParts \cup {"huge", "tlsf"}
FreeParts  == {"free", "free_store", "free_locked", "locked_store"}
StoreParts == {"slot_store", "free_store", "locked_store"}

(* The calls that are told a block, and those that ask for a size. *)
PtrOps  == {"free", "realloc", "usable_size", "hooked_free", "hooked_realloc"}
SizeOps == {"malloc", "realloc", "hooked_realloc"}

(* Arguments and locals a call may have in a part of it.  realloc has read
   the size of the old block, if it could be told, and made the new one as
   long as was asked. *)
CallFits(c, part) ==
    /\ c.op \in PtrOps \cup {"none", "malloc"}
    /\ c.refused \in BOOLEAN
    /\ c.op \in SizeOps => c.size > 0
    /\ c.ptr # NULL <=> c.op \in PtrOps
    /\ c.ptr # NULL => c.usable \in {0, c.ptr.room}
    /\ c.new # NULL => /\ c.op = "realloc"
                       /\ c.ptr # c.new
                       /\ c.new.size = c.size
                       /\ c.copied = CopySize(c.usable, c.size)
    /\ c.seen \subseteq Nat
    /\ part \in Parts \ StoreParts => c.seen = {}
    /\ part \in AllocParts => c.op \in {"malloc", "realloc"} /\ c.new = NULL
    /\ part \in SmallParts => c.size <= SLAB_MAX_SIZE
    /\ part = "usable" => c.op \in PtrOps \ {"free"} /\ c.new = NULL
    /\ part \in FreeParts => c.op \in {"free", "realloc"} /\ (c.new = NULL <=> c.op = "free")

(* The part a thread is in, or goes on with after ensure_init. *)
Part(t) == IF pc[t] \in InitSteps THEN call[t].then ELSE pc[t]

ThreadFits(t) ==
    /\ pc[t] \in {"idle", "crashed", "ended"} \cup InitSteps \cup Parts
    /\ pc[t] \in InitSteps => call[t].then \in FirstParts
    /\ pc[t] = "idle" => call[t] = NoCall
    /\ CallFits(call[t], Part(t))

(* A block is in one pair of hands. *)
Owned ==
    /\ \A b \in Blocks : IsBlock(b) /\ b.size > 0
    /\ \A t \in Threads : ThreadFits(t) /\ Hands(call[t]) \cap held = {}
    /\ \A t, u \in Threads : t # u => Hands(call[t]) \cap Hands(call[u]) = {}

(* Only the thread that initialises has an arena of its own. *)
BaseFits(t) ==
    /\ call[t].base # NULL => lock = t /\ pc[t] \in {"init_arena", "init_pool", "ended"}
    /\ pc[t] \in {"init_arena", "init_pool"} => call[t].base # NULL /\ next_free_page = META_PAGES

GlobalsFit ==
    /\ lock \in Threads \cup {NULL}
    /\ arena_init \in BOOLEAN
    /\ tls_key \in BOOLEAN
    /\ cached \subseteq Threads
    /\ arena_init <=> tlsf # NULL
    /\ \A t \in Threads : BaseFits(t)
-----------------------------------------------------------------------------
DataPages == (META_PAGES + POOL_PAGES)..(next_free_page - 1)

(* The arena, from the mapping of its pages to their use.  Without a pool
   there are only huge blocks. *)
PagesFit ==
    /\ Reserved \subseteq Bases
    /\ \A r, q \in Reserved : r = q
    /\ meta \in [ArenaPages -> [size_class : Classes, owner_id : Threads] \cup {EmptyMeta}]
    /\ next_free_page \in 0..PAGES_PER_ARENA
    /\ stranded \subseteq ArenaPages
    /\ SlabPages \subseteq DataPages
    /\ tlsf = NULL => /\ pool = {} /\ available = {} /\ pending = {} /\ SlabPages = {}
                      /\ \A b \in Blocks : b.region = "huge"
    /\ tlsf # NULL => /\ arena # NULL /\ tlsf = arena + META_PAGES
                      /\ META_PAGES + POOL_PAGES <= next_free_page

(* The blocks in the pool lie between its ends and leave room for the headers. *)
PoolFits ==
    /\ pool \subseteq Nat \X Nat
    /\ \A e \in pool : /\ e[2] >= 1
                       /\ Addr(tlsf) < e[1]
                       /\ e[1] + e[2] < Addr(tlsf + POOL_PAGES)
    /\ \A e, f \in pool : e # f => e[1] + e[2] < f[1] \/ f[1] + f[2] < e[1]

(* A slot of a slab page, whole pages of the arena, a mapping of its own. *)
SlabBlock(b) ==
    \E p \in SlabPages : b.addr \in SlotsOfPage(p, meta[p].size_class) /\ b.room = meta[p].size_class

BumpBlock(b) ==
    \E p \in DataPages, n \in 1..PAGES_PER_ARENA :
        /\ b.addr = Addr(arena + p) /\ b.room = Addr(n)
        /\ Span(p, n) \subseteq DataPages \ SlabPages

HugeBlock(b) ==
    \E base \in Bases :
        /\ b.addr = Addr(base + 1) /\ b.room = Addr(HugePages(b.size) - 1)
        /\ header[base] = HugePages(b.size)
        /\ \A r \in Reserved : Span(base, HugePages(b.size)) \cap Span(r, PAGES_PER_ARENA) = {}

Apart(b, c) == b.addr + b.room <= c.addr \/ c.addr + c.room <= b.addr

BlocksFit ==
    /\ \A b \in In("slab") : SlabBlock(b)
    /\ \A b \in In("bump") : BumpBlock(b)
    /\ \A b \in In("huge") : HugeBlock(b)
    /\ \A b, c \in Blocks : b # c => Apart(b, c)
    /\ \A b, c \in In("huge") : b # c => HugeSpan(b) \cap HugeSpan(c) = {}

HeadersFit ==
    /\ header \in [OsPages -> Nat]
    /\ mapped \subseteq OsPages
    /\ \A p \in OsPages : header[p] > 0 => \E b \in In("huge") : b.addr = Addr(p + 1)

(* Every block, slot and page is accounted for, and where it belongs. *)
MemoryFits == PagesFit /\ PoolFits /\ BlocksFit /\ HeadersFit /\ Accounted(available)
-----------------------------------------------------------------------------
(* What a thread has read of a page's free list is still the list when it
   stores, for the page is its own, and nobody else stores there as long as
   no thread without a cache frees a slot. *)
ListFits(t) ==
    /\ pc[t] = "slot_store" => \E s \in Listed(t, Class(t)) : call[t].seen = FreeIn(s)
    /\ pc[t] = "free_store" => /\ arena # NULL
                              /\ RegionOf(Ptr(t)) = "slab"
                              /\ MetaOf(Ptr(t)).owner_id = t
                              /\ call[t].seen = FreeIn(Ptr(t))
    /\ pc[t] = "free_locked" => call[t].ptr.region # "slab"
    /\ pc[t] # "locked_store"

ListsFit ==
    /\ stranded = {}
    /\ \A t \in Threads : ListFits(t)

ApiInvariant == InitInv /\ Owned /\ GlobalsFit /\ MemoryFits /\ ListsFit
=============================================================================
