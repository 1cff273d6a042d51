--------------------------- MODULE ThreadCacheProps ---------------------------
(***************************************************************************)
(* What makes the small-object path correct: the invariants, the action    *)
(* property, the abstract pool it implements and the liveness properties.  *)
(***************************************************************************)
EXTENDS ThreadCache

Indices == 0..(MaxSlots - 1) \cup {NULL_SLOT}
Links == ({"u16", "user"} \X Indices) \cup ({"ptr"} \X (Slots \cup {NULL}))

Metas == [size_class     : Classes \cup {NO_CLASS},
          owner_id       : CacheIds \cup {NO_OWNER},
          used_slots     : Int,
          free_list_head : Indices,
          next_page      : Pages \cup {NULL},
          prev_page      : Pages \cup {NULL}]

PCs == {"idle", "get_cache", "route", "swap", "drain", "new_page", "pop", "pop_store",
        "free_load", "free_store", "push_load", "push_cas", "free_locked", "locked_store"}

(* Every variable keeps its type: no list ever leads through a link of the
   other kind or out of its page, the arena gives out no page it does not
   have, and ids stay within a u16. *)
TypeOK ==
    /\ next_free_page \in 1..(NumPages + 1)
    /\ meta \in [Pages -> Metas]
    /\ cell \in [Slots -> Links]
    /\ partial \in [Caches -> [Classes -> Pages \cup {NULL}]]
    /\ next_id \in Ids
    /\ tc \in [Threads -> CacheIds \cup {NULL}]
    /\ registry \in [CacheIds -> Threads \cup {NULL}]
    /\ remote_frees \in [Threads -> Slots \cup {NULL}]
    /\ lock \in Threads \cup {NULL}
    /\ pc \in [Threads -> PCs]
    /\ cls \in [Threads -> Classes \cup {NULL}]
    /\ ptr \in [Threads -> Slots \cup {NULL}]
    /\ reg \in [Threads -> Links]
    /\ stack \in [Threads -> Threads \cup {NULL}]
    /\ loc \in [Slots -> {"raw", "free", "live", "freeing", "parked"}]
-----------------------------------------------------------------------------
(* thread_cache.rs: "Unique ID".  The registry leads from a cache's id back
   to the cache, so no two caches share an id; a page's owner is registered. *)
CacheIdsUnique == \A t \in Threads : tc[t] # NULL => registry[tc[t]] = t

Owner(p) == registry[meta[p].owner_id]
Parked(u) == {s \in Slots : loc[s] = "parked" /\ Owner(s[1]) = u}

(* No slot is lost, none is listed twice: walking the free list of a page
   meets the page's free slots and ends, and used_slots counts the rest. *)
FreeListsExact ==
    \A p \in Pages : Carved(p) =>
        /\ FreeListed(p) = {s \in SlotsIn(p) : loc[s] = "free"}
        /\ FreeWalk(p)[MaxSlots] = NULL_SLOT
        /\ meta[p].used_slots = Cardinality(SlotsIn(p)) - Cardinality(FreeListed(p))

(* Walking a Treiber stack from `top`, at most as long as there are slots. *)
StackWalk(top) ==
    LET walk[n \in 0..(NumPages * MaxSlots)] ==
            IF n = 0 THEN top
            ELSE IF walk[n-1] \in Slots THEN cell[walk[n-1]][2] ELSE NULL
    IN  walk

Stacked(top) == {StackWalk(top)[n] : n \in DOMAIN StackWalk(top)} \ {NULL}

Draining(t) == IF pc[t] = "drain" THEN Stacked(reg[t][2]) ELSE {}

(* Whatever pushes, failed compare-and-swaps, detached stacks and reused
   slots interleave, a slot given back by another thread is on its owner's
   stack, or on the stack its owner is draining, and on no other. *)
StacksExact ==
    \A u \in Threads :
        /\ Stacked(remote_frees[u]) \cup Draining(u) = Parked(u)
        /\ Stacked(remote_frees[u]) \cap Draining(u) = {}
        /\ StackWalk(remote_frees[u])[NumPages * MaxSlots] = NULL

(* The pages a cache allocates from are its pages that have a free slot,
   doubly linked: remove_partial_page relies on prev_page being right. *)
PartialListsExact ==
    \A t \in Threads, c \in Classes :
        LET walk == PageWalk(t, c) IN
        /\ PartialPages(t, c) =
              {p \in Pages : /\ meta[p].size_class = c
                             /\ Owner(p) = t
                             /\ meta[p].free_list_head # NULL_SLOT}
        /\ walk[NumPages] = NULL
        /\ \A n \in 0..NumPages :
              walk[n] # NULL => meta[walk[n]].prev_page = IF n = 0 THEN NULL ELSE walk[n-1]

(* thread_cache.rs: "Thread-local slab allocator (NO lock needed!)".  The
   metadata of a carved page changes only in a step of the page's owner. *)
OwnerExclusive ==
    [][\A p \in Pages :
          Carved(p) /\ meta'[p] # meta[p] => Malloc(Owner(p)) \/ Free(Owner(p))]_vars

(* api.rs, test_multiple_allocs_distinct: "All should be distinct".  The slot that
   malloc is about to return is one nobody holds. *)
HandsOutFree == \A t \in Threads : pc[t] = "pop_store" => loc[ptr[t]] = "free"

(* api.rs: "Fallback to global slab if not owned by a ThreadCache".  The
   lists of the global slab hold no page of a cache, whose slots no malloc
   would ever find again. *)
GlobalSlabUnowned ==
    \A c \in Classes : \A p \in PartialPages(GlobalSlab, c) :
        \A t \in Threads : tc[t] # meta[p].owner_id

(* A page with a free slot is on one list, its owner's or the global slab's,
   and a full page on none, also when the locked path of a thread without a
   cache pushes pages: a page is lost to its owner only to the global slab,
   and no list ever leads into another. *)
OpenPagesListed ==
    \A c \in Classes :
        /\ UNION {PartialPages(k, c) : k \in Caches} =
              {p \in Pages : meta[p].size_class = c /\ meta[p].free_list_head # NULL_SLOT}
        /\ \A t \in Threads : \A p \in PartialPages(t, c) :
              Owner(p) = t /\ p \notin PartialPages(GlobalSlab, c)
        /\ \A k \in Caches : PageWalk(k, c)[NumPages] = NULL

(* The slots that some malloc would find, by a traversal of the partial lists
   of the caches and of the free lists of the pages on them, the slots the
   application holds and those on their way back behave as the abstract
   pool: malloc hands out an available slot, which nobody holds, and every
   slot freed can be had again, once. *)
PagesListed == UNION {PartialPages(t, c) : t \in Threads, c \in Classes}

Pool == INSTANCE SlotPool WITH
    available <- UNION {FreeListed(p) : p \in PagesListed},
    live      <- {s \in Slots : loc[s] = "live"},
    pending   <- {s \in Slots : loc[s] \in {"freeing", "parked"}}

PoolSpec == Pool!Spec
-----------------------------------------------------------------------------
(* Fairness: a thread in the middle of a call keeps running.  Nothing makes
   the application call again, and a spin lock grants no order. *)
Fairness == \A t \in Threads : WF_vars(Step(t))
FairSpec == Spec /\ Fairness

(* In addition, the application calls malloc again and again in every thread. *)
KeepsAllocating == \A t \in Threads : SF_vars(\E c \in Classes : MallocCall(t, c))
BusySpec == FairSpec /\ KeepsAllocating

(* A thread may lose every race for the lock or for a stack, but the threads
   cannot all lose: as long as there are calls, calls return. *)
SomeCallReturns ==
    \/ <>[](\A t \in Threads : pc[t] = "idle")
    \/ []<><<\E t \in Threads : pc[t] # "idle" /\ pc'[t] = "idle">>_vars

(* lib.rs: "Cross-thread frees use lock-free Treiber stacks, drained
   periodically by the owning thread".  A slot on a stack is reclaimed, if
   the owner keeps allocating and is not kept from the lock. *)
ParkedReclaimed == \A s \in Slots : loc[s] = "parked" ~> loc[s] = "free"
-----------------------------------------------------------------------------
(* The inductive invariant behind the safety properties when every thread
   can have a cache.  No walk along a list occurs in it: that links lead from
   free slots to free slots of the page, and no two to the same, is what a
   step preserves. *)
EnoughCaches ==
    /\ IsFiniteSet(Threads)
    /\ Cardinality(Threads) <= MaxThreads
    /\ OsMayFail = FALSE

Cached == {t \in Threads : tc[t] # NULL}
Same(p, q) == meta[p].owner_id = meta[q].owner_id /\ meta[p].size_class = meta[q].size_class
Open(p) == meta[p].free_list_head # NULL_SLOT
FreeSlot(p, i) == <<p, i>> \in Slots /\ loc[<<p, i>>] = "free"

IdsInv ==
    /\ next_id = Cardinality(Cached)
    /\ \A t \in Cached : tc[t] < next_id /\ registry[tc[t]] = t

(* What a thread between two steps of a call knows. *)
FreeSteps   == {"free_load", "free_store", "push_load", "push_cas"}
MallocSteps == {"swap", "drain", "new_page", "pop", "pop_store"}

ThreadInv(t) ==
    /\ pc[t] \in {"idle", "get_cache", "route"} \cup FreeSteps \cup MallocSteps
    /\ pc[t] \notin {"idle", "get_cache"} => tc[t] # NULL
    /\ pc[t] = "get_cache" => tc[t] = NULL
    /\ pc[t] \in MallocSteps => cls[t] # NULL
    /\ pc[t] \in {"get_cache", "route"} /\ ptr[t] = NULL => cls[t] # NULL
    /\ pc[t] \in FreeSteps => ptr[t] # NULL
    /\ pc[t] = "idle" \/ pc[t] \in MallocSteps \ {"pop_store"} => ptr[t] = NULL
    /\ ptr[t] # NULL /\ pc[t] # "pop_store" => loc[ptr[t]] = "freeing"
    /\ pc[t] \in {"free_load", "free_store"} => OwnerOf(ptr[t]) = tc[t]
    /\ pc[t] = "free_store" => reg[t] = U16(meta[ptr[t][1]].free_list_head)
    /\ pc[t] \in {"push_load", "push_cas"} => stack[t] # NULL /\ OwnerOf(ptr[t]) = tc[stack[t]]
    /\ pc[t] = "push_cas" => reg[t][1] = "ptr" /\ cell[ptr[t]] = reg[t]
    /\ pc[t] = "pop" => partial[t][cls[t]] # NULL
    /\ pc[t] = "pop_store" =>
           /\ partial[t][cls[t]] # NULL
           /\ ptr[t] = <<partial[t][cls[t]], meta[partial[t][cls[t]]].free_list_head>>
           /\ reg[t] = cell[ptr[t]]
    /\ pc[t] = "drain" => lock = t

ThreadsInv ==
    /\ \A t \in Threads : ThreadInv(t)
    /\ \A t, u \in Threads :
        t # u /\ ptr[t] # NULL /\ ptr[t] = ptr[u] => "pop_store" \in {pc[t], pc[u]}

PagesInv ==
    /\ \A p \in Pages : IF p < next_free_page
                         THEN Carved(p) /\ \E t \in Threads : meta[p].owner_id = tc[t]
                         ELSE meta[p] = EmptyMeta
    /\ \A s \in Slots : loc[s] # "raw" <=> s \in SlotsIn(s[1])

FreeInv ==
    /\ \A p \in Pages : Open(p) => FreeSlot(p, meta[p].free_list_head)
    /\ \A s \in Slots : loc[s] = "free" =>
        /\ cell[s][1] = "u16"
        /\ cell[s][2] # NULL_SLOT => /\ FreeSlot(s[1], cell[s][2])
                                     /\ cell[s][2] # meta[s[1]].free_list_head
        /\ \A r \in Slots : r # s /\ r[1] = s[1] /\ loc[r] = "free" /\ cell[r] = cell[s]
                              => cell[s][2] = NULL_SLOT

ListsInv ==
    /\ \A t \in Threads, c \in Classes :
        LET p == partial[t][c] IN
        p # NULL => /\ meta[p].owner_id = tc[t]
                    /\ meta[p].size_class = c
                    /\ Open(p)
                    /\ meta[p].prev_page = NULL
    /\ \A p \in Pages :
        /\ LET q == meta[p].next_page IN
           q # NULL => Open(p) /\ Open(q) /\ Same(p, q) /\ meta[q].prev_page = p
        /\ LET q == meta[p].prev_page IN
           q # NULL => meta[q].next_page = p

(* A stack starts at a parked slot of its owner; a parked slot links to a
   parked slot of the same owner that nothing else leads to: no other node,
   no stack's head, and no thread that drains a stack it has detached. *)
TopInv(u) ==
    remote_frees[u] # NULL => /\ loc[remote_frees[u]] = "parked"
                              /\ OwnerOf(remote_frees[u]) = tc[u]

NodeInv(s) ==
    /\ cell[s][1] = "ptr"
    /\ cell[s][2] # NULL =>
           /\ loc[cell[s][2]] = "parked"
           /\ OwnerOf(cell[s][2]) = OwnerOf(s)
           /\ \A u \in Threads : /\ cell[s][2] # remote_frees[u]
                                 /\ pc[u] = "drain" => cell[s] # reg[u]
           /\ \A r \in Slots : loc[r] = "parked" /\ cell[r] = cell[s] => r = s

DrainInv(t) ==
    /\ reg[t][1] = "ptr"
    /\ reg[t][2] # NULL => /\ loc[reg[t][2]] = "parked"
                           /\ OwnerOf(reg[t][2]) = tc[t]
                           /\ reg[t][2] # remote_frees[t]

StacksInv ==
    /\ \A u \in Threads : TopInv(u)
    /\ \A s \in Slots : loc[s] = "parked" => NodeInv(s)
    /\ \A t \in Threads : pc[t] = "drain" => DrainInv(t)

IInv == TypeOK /\ IdsInv /\ ThreadsInv /\ PagesInv /\ FreeInv /\ ListsInv /\ StacksInv

(* What the walks need besides: nothing is out of their reach.  Every set of
   free slots of a page has one that the page's head, or a free slot outside
   the set, leads to; so has every set of parked slots and of open pages.
   And used_slots counts the slots of a page that are not free. *)
FreeIn(p)   == {s \in Slots : s[1] = p /\ loc[s] = "free"}
ParkedSlots == {s \in Slots : loc[s] = "parked"}
OpenPages   == {p \in Pages : Open(p)}

FreeReached ==
    \A p \in Pages : \A S \in SUBSET FreeIn(p) :
        S # {} => \E s \in S : \/ s[2] = meta[p].free_list_head
                              \/ \E r \in FreeIn(p) \ S : cell[r][2] = s[2]

Counted ==
    \A p \in Pages : Carved(p) =>
        meta[p].used_slots = Cardinality(SlotsIn(p)) - Cardinality(FreeIn(p))

StackRoot(s) ==
    \E u \in Threads : s = remote_frees[u] \/ (pc[u] = "drain" /\ s = reg[u][2])

StacksReached ==
    \A S \in SUBSET ParkedSlots :
        S # {} => \E s \in S : StackRoot(s) \/ \E r \in ParkedSlots \ S : cell[r][2] = s

PagesReached ==
    /\ \A S \in SUBSET OpenPages : S # {} => \E p \in S : meta[p].prev_page \notin S
    /\ \A p \in OpenPages : meta[p].prev_page = NULL =>
           \E t \in Threads : partial[t][meta[p].size_class] = p
    /\ \A t \in Threads : pc[t] = "new_page" => partial[t][cls[t]] = NULL

Reached == FreeReached /\ Counted /\ StacksReached /\ PagesReached
=============================================================================
