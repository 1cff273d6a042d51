--------------------------------- MODULE Api ---------------------------------
(***************************************************************************)
(* The C interface (src/src/api.rs): ensure_init run by whichever thread   *)
(* comes first, and ferrum_malloc, ferrum_free, ferrum_realloc,            *)
(* ferrum_usable_size and posix_memalign over the regions of memory.       *)
(*                                                                         *)
(* A step is what a thread does between two points at which others can     *)
(* see or change something: a critical section under ARENA_LOCK, an access *)
(* without it, the load of ARENA_INIT.  Only ensure_init's section is      *)
(* several steps, since TLS_KEY and GLOBAL_ARENA are read without the      *)
(* lock, and only the update of a page's free list, which its owner makes  *)
(* without the lock and a thread without a cache with it, is split into    *)
(* load and store.  A thread that dereferences a null GLOBAL_ARENA ends    *)
(* the process.                                                            *)
(***************************************************************************)
EXTENDS Regions

CONSTANTS
    SLAB_MAX_SIZE,
    HUGE_ALLOC_THRESHOLD,
    Sizes,         \* sizes the application asks for
    AlignedSizes,  \* sizes it wants aligned to more than 16 bytes
    NewSizes,      \* sizes it reallocates to
    CachelessFrees, \* whether a thread that gets no cache may free a slot
    MaxBlocks      \* bound on the blocks the application holds or asks for

(* What the application asked for and got: size units from addr on, with room
   for more, in a region of memory. *)
Block == [addr : Nat, size : Nat, room : Nat, region : {"slab", "tlsf", "bump", "huge"}]

ASSUME ApiAssumption ==
    /\ SLAB_MAX_SIZE \in Classes
    /\ \A c \in Classes : c <= SLAB_MAX_SIZE
    /\ HUGE_ALLOC_THRESHOLD \in Nat
    /\ SLAB_MAX_SIZE < HUGE_ALLOC_THRESHOLD
    /\ Sizes \cup AlignedSizes \cup NewSizes \subseteq Nat \ {0}
    /\ MaxBlocks \in Nat
    /\ CachelessFrees \in BOOLEAN
    /\ NULL \notin Block

VARIABLES
    lock,        \* holder of ARENA_LOCK when a step ends
    arena_init,  \* ARENA_INIT
    tls_key,     \* whether TLS_KEY is set
    cached,      \* threads with a ThreadCache
    held,        \* blocks the application holds
    pc,          \* next step of each thread
    call         \* arguments and locals of its call

globals == <<arena, tlsf, lock, arena_init, tls_key>>
vars == <<osVars, pageVars, slotVars, pool, globals, cached, held, pc, call>>

(* then: where ensure_init returns to; base: the new arena; refused: the
   last ensure_init got no arena; ptr, size: arguments; usable: old_size;
   seen: the free list read from a page; new, copied: realloc's new block
   and how much of the old was copied. *)
NoCall == [op |-> "none", then |-> "idle", base |-> NULL, refused |-> FALSE,
           ptr |-> NULL, size |-> 0, usable |-> 0, seen |-> {}, new |-> NULL, copied |-> 0]

Init ==
    /\ RegionsInit
    /\ lock = NULL
    /\ arena_init = FALSE
    /\ tls_key = FALSE
    /\ cached = {}
    /\ held = {}
    /\ pc = [t \in Threads |-> "idle"]
    /\ call = [t \in Threads |-> NoCall]

Goto(t, to) == pc' = [pc EXCEPT ![t] = to]

(* The call c of thread t goes on with ensure_init and then `part`. *)
Enter(t, c, part) ==
    /\ Goto(t, IF arena_init THEN part ELSE "init")
    /\ call' = [call EXCEPT ![t] =
                  [c EXCEPT !.then = IF arena_init THEN "idle" ELSE part, !.refused = FALSE]]

(* ensure_init returns. *)
Resume(t, refused) ==
    /\ Goto(t, call[t].then)
    /\ call' = [call EXCEPT ![t] =
                  [@ EXCEPT !.then = "idle", !.base = NULL, !.refused = refused]]

Return(t) ==
    /\ Goto(t, "idle")
    /\ call' = [call EXCEPT ![t] = NoCall]

Ptr(t) == call[t].ptr.addr

(* A section that takes the lock and releases it within one step. *)
Locked == lock = NULL
-----------------------------------------------------------------------------
(* The application calls.  malloc(0), free(NULL) and usable_size(NULL)
   return at once; realloc(NULL, n) is malloc(n), realloc(p, 0) is free(p);
   calloc is malloc of the product. *)

MallocPart(n) ==
    IF n >= HUGE_ALLOC_THRESHOLD THEN "huge"
    ELSE IF n <= SLAB_MAX_SIZE THEN "malloc"
    ELSE "tlsf"

MayAsk == Cardinality(held) + Cardinality({t \in Threads : pc[t] # "idle"}) < MaxBlocks

MallocCall(t, n) ==
    /\ MayAsk
    /\ Enter(t, [NoCall EXCEPT !.op = "malloc", !.size = n], MallocPart(n))
    /\ UNCHANGED held

(* posix_memalign to more than 16 and at most 4096 bytes: no ensure_init. *)
MemalignCall(t, n) ==
    /\ MayAsk
    /\ Goto(t, "huge")
    /\ call' = [call EXCEPT ![t] = [NoCall EXCEPT !.op = "malloc", !.size = n]]
    /\ UNCHANGED held

FreeCall(t, b) ==
    /\ Enter(t, [NoCall EXCEPT !.op = "free", !.ptr = b], "free")
    /\ held' = held \ {b}

ReallocCall(t, b, n) ==
    /\ Enter(t, [NoCall EXCEPT !.op = "realloc", !.ptr = b, !.size = n], "usable")
    /\ held' = held \ {b}

(* On Windows free and realloc are reached through hooks of the heap
   functions (src/src/dllmain.rs), which ask for the usable size first. *)
HookedFreeCall(t, b) ==
    /\ Enter(t, [NoCall EXCEPT !.op = "hooked_free", !.ptr = b], "usable")
    /\ held' = held \ {b}

HookedReallocCall(t, b, n) ==
    /\ Enter(t, [NoCall EXCEPT !.op = "hooked_realloc", !.ptr = b, !.size = n], "usable")
    /\ held' = held \ {b}

(* With an arena usable_size changes nothing, and is no step. *)
UsableCall(t, b) ==
    /\ ~arena_init
    /\ Enter(t, [NoCall EXCEPT !.op = "usable_size", !.ptr = b], "usable")
    /\ held' = held \ {b}

Call(t) ==
    /\ pc[t] = "idle"
    /\ \/ \E n \in Sizes : MallocCall(t, n)
       \/ \E n \in AlignedSizes : MemalignCall(t, n)
       \/ \E b \in held : FreeCall(t, b) \/ HookedFreeCall(t, b) \/ UsableCall(t, b)
       \/ \E b \in held, n \in NewSizes : ReallocCall(t, b, n) \/ HookedReallocCall(t, b, n)
    /\ UNCHANGED <<osVars, pageVars, slotVars, pool, globals, cached>>
-----------------------------------------------------------------------------
(* ensure_init after ARENA_INIT was found false. *)

InitDone(t) ==
    /\ pc[t] = "init"
    /\ Locked
    /\ arena_init
    /\ Resume(t, FALSE)
    /\ UNCHANGED <<osVars, pageVars, slotVars, pool, globals, cached, held>>

(* Mutant: the early return forgets the lock. *)
InitRefusedLocked(t) ==
    /\ pc[t] = "init"
    /\ Locked
    /\ ~arena_init
    /\ Resume(t, TRUE)
    /\ lock' = t
    /\ UNCHANGED <<osVars, pageVars, slotVars, pool, arena, tlsf, arena_init, tls_key, cached, held>>

(* Arena::new returns None, and the caller goes on without an arena. *)
InitRefused(t) ==
    /\ pc[t] = "init"
    /\ Locked
    /\ ~arena_init
    /\ Resume(t, TRUE)
    /\ UNCHANGED <<osVars, pageVars, slotVars, pool, globals, cached, held>>

(* Mutants: no second check under the lock; ARENA_INIT stored too early. *)
InitTlsUnchecked(t) ==
    /\ pc[t] = "init"
    /\ Locked
    /\ \E base \in Fresh(PAGES_PER_ARENA) :
          /\ NewArena(base)
          /\ call' = [call EXCEPT ![t].base = base]
    /\ tls_key' = TRUE
    /\ lock' = t
    /\ Goto(t, "init_arena")
    /\ UNCHANGED <<slotVars, pool, arena, tlsf, arena_init, cached, held>>

InitTlsPublishes(t) ==
    /\ pc[t] = "init"
    /\ Locked
    /\ ~arena_init
    /\ \E base \in Fresh(PAGES_PER_ARENA) :
          /\ NewArena(base)
          /\ call' = [call EXCEPT ![t].base = base]
    /\ tls_key' = TRUE
    /\ arena_init' = TRUE
    /\ lock' = t
    /\ Goto(t, "init_arena")
    /\ UNCHANGED <<slotVars, pool, arena, tlsf, cached, held>>

(* Arena::new, then init_tls: from here on other threads find the key. *)
InitTls(t) ==
    /\ pc[t] = "init"
    /\ Locked
    /\ ~arena_init
    /\ \E base \in Fresh(PAGES_PER_ARENA) :
          /\ NewArena(base)
          /\ call' = [call EXCEPT ![t].base = base]
    /\ tls_key' = TRUE
    /\ lock' = t
    /\ Goto(t, "init_arena")
    /\ UNCHANGED <<slotVars, pool, arena, tlsf, arena_init, cached, held>>

InitArena(t) ==
    /\ pc[t] = "init_arena"
    /\ arena' = call[t].base
    /\ Goto(t, "init_pool")
    /\ UNCHANGED <<osVars, pageVars, slotVars, pool, tlsf, lock, arena_init, tls_key, cached, held, call>>

(* The pool is the arena's first allocation, which cannot fail. *)
InitPool(t) ==
    /\ pc[t] = "init_pool"
    /\ TakePages(POOL_PAGES)
    /\ tlsf' = arena + next_free_page
    /\ arena_init' = TRUE
    /\ lock' = NULL
    /\ Resume(t, FALSE)
    /\ UNCHANGED <<osVars, slotVars, pool, arena, tls_key, cached, held>>

EnsureInit(t) ==
    InitDone(t) \/ InitRefused(t) \/ InitTls(t) \/ InitArena(t) \/ InitPool(t)

(* get_or_create of a thread that has no cache: none before TLS_KEY is set,
   and a new one may be refused. *)
CreateCache(t) ==
    /\ pc[t] \in {"malloc", "free"}
    /\ t \notin cached
    /\ tls_key
    /\ cached' = cached \cup {t}
    /\ UNCHANGED <<osVars, pageVars, slotVars, pool, globals, held, pc, call>>

NoCache(t) ==
    /\ pc[t] \in {"malloc", "free"}
    /\ t \notin cached
    /\ pc[t] = "free" /\ ~CachelessFrees /\ arena # NULL => RegionOf(Ptr(t)) # "slab"
    /\ Goto(t, IF pc[t] = "malloc" THEN "tlsf" ELSE "free_locked")
    /\ UNCHANGED <<osVars, pageVars, slotVars, pool, globals, cached, held, call>>
-----------------------------------------------------------------------------
(* ferrum_malloc; in a realloc, the copy and the entry into ferrum_free. *)

(* Mutant: all that the old block has room for is copied. *)
CopySizeOld(usable, n) == IF usable > 0 THEN usable ELSE n

CopySize(usable, n) == IF usable > 0 /\ usable < n THEN usable ELSE n

NewBlock(t, a, room, region) == [addr |-> a, size |-> call[t].size, room |-> room, region |-> region]

Got(t, b) ==
    \/ /\ call[t].op = "malloc"
       /\ held' = held \cup {b}
       /\ Return(t)
    \/ /\ call[t].op = "realloc"
       /\ Enter(t, [call[t] EXCEPT !.new = b, !.seen = {},
                            !.copied = CopySize(call[t].usable, call[t].size)], "free")
       /\ UNCHANGED held

(* malloc returns null; a realloc leaves the old block to its owner. *)
GotNull(t) ==
    /\ held' = IF call[t].op = "realloc" THEN held \cup {call[t].ptr} ELSE held
    /\ Return(t)

HugeMalloc(t) ==
    /\ pc[t] = "huge"
    /\ \E base \in Fresh(HugePages(call[t].size)) :
          /\ huge_alloc(base, call[t].size)
          /\ Got(t, NewBlock(t, Addr(base + 1), Addr(HugePages(call[t].size) - 1), "huge"))
    /\ UNCHANGED <<pageVars, slotVars, pool, globals, cached>>

HugeRefused(t) ==
    /\ pc[t] = "huge"
    /\ GotNull(t)
    /\ UNCHANGED <<osVars, pageVars, slotVars, pool, globals, cached>>

HasRemote(t) ==
    /\ pc[t] = "malloc"
    /\ t \in cached
    /\ Goto(t, IF Remote(t) = {} THEN "slot" ELSE "drain")
    /\ UNCHANGED <<osVars, pageVars, slotVars, pool, globals, cached, held, call>>

Drain(t) ==
    /\ pc[t] = "drain"
    /\ Locked
    /\ available' = available \cup Remote(t)
    /\ pending' = pending \ Remote(t)
    /\ Goto(t, "slot")
    /\ UNCHANGED <<osVars, pageVars, stranded, pool, globals, cached, held, call>>

Class(t) == CHOOSE c \in Classes :
    /\ call[t].size <= c
    /\ \A d \in Classes : call[t].size <= d => c <= d

(* The free list of page `s` lies in is read in this step. *)
LoadList(t, s, part) ==
    /\ Goto(t, part)
    /\ call' = [call EXCEPT ![t].seen = FreeIn(s)]

(* alloc_no_arena: the list of some page with a free slot is read; which of
   its slots is the head does not show before the store. *)
PopLoad(t) ==
    /\ pc[t] = "slot"
    /\ \E s \in Listed(t, Class(t)) : LoadList(t, s, "slot_store")
    /\ UNCHANGED <<osVars, pageVars, slotVars, pool, globals, cached, held>>

(* Mutant: the head stays where it was. *)
PopStoreHeadKept(t) ==
    /\ pc[t] = "slot_store"
    /\ \E s \in call[t].seen :
          /\ StoreList(s, call[t].seen)
          /\ Got(t, NewBlock(t, s, Class(t), "slab"))
    /\ UNCHANGED <<osVars, pageVars, pending, stranded, pool, globals, cached>>

PopStore(t) ==
    /\ pc[t] = "slot_store"
    /\ \E s \in call[t].seen :
          /\ StoreList(s, call[t].seen \ {s})
          /\ Got(t, NewBlock(t, s, Class(t), "slab"))
    /\ UNCHANGED <<osVars, pageVars, pending, stranded, pool, globals, cached>>

NewPage(t) ==
    /\ pc[t] = "slot"
    /\ Listed(t, Class(t)) = {}
    /\ Locked
    /\ arena # NULL
    /\ CarvePage(t, Class(t))
    /\ Got(t, NewBlock(t, Addr(arena + next_free_page), Class(t), "slab"))
    /\ UNCHANGED <<osVars, pool, globals, cached>>

NoPage(t) ==
    /\ pc[t] = "slot"
    /\ Listed(t, Class(t)) = {}
    /\ Locked
    /\ arena # NULL
    /\ ~BumpFits(1)
    /\ Goto(t, "tlsf")
    /\ UNCHANGED <<osVars, pageVars, slotVars, pool, globals, cached, held, call>>

TlsfMalloc(t) ==
    /\ pc[t] = "tlsf"
    /\ Locked
    /\ tlsf # NULL
    /\ \E b \in PoolChoices(call[t].size) :
          /\ pool' = pool \cup {b}
          /\ Got(t, NewBlock(t, b[1], b[2], "tlsf"))
    /\ UNCHANGED <<osVars, pageVars, slotVars, globals, cached>>

(* TLSF refuses and the arena gives whole pages, or null. *)
BumpMalloc(t) ==
    LET n == PagesFor(call[t].size) IN
    /\ pc[t] = "tlsf"
    /\ Locked
    /\ arena # NULL
    /\ PoolRefuses(call[t].size)
    /\ BumpFits(n)
    /\ TakePages(n)
    /\ Got(t, NewBlock(t, Addr(arena + next_free_page), Addr(n), "bump"))
    /\ UNCHANGED <<osVars, slotVars, pool, globals, cached>>

BumpRefused(t) ==
    /\ pc[t] = "tlsf"
    /\ Locked
    /\ arena # NULL
    /\ PoolRefuses(call[t].size)
    /\ ~BumpFits(PagesFor(call[t].size))
    /\ GotNull(t)
    /\ UNCHANGED <<osVars, pageVars, slotVars, pool, globals, cached>>

Malloc(t) ==
    \/ HugeMalloc(t) \/ HugeRefused(t)
    \/ HasRemote(t) \/ Drain(t) \/ PopLoad(t) \/ PopStore(t) \/ NewPage(t) \/ NoPage(t)
    \/ TlsfMalloc(t) \/ BumpMalloc(t) \/ BumpRefused(t)
-----------------------------------------------------------------------------
(* ferrum_usable_size, by itself or as the first part of realloc. *)

UsableReturns(t) ==
    /\ call[t].op = "usable_size"
    /\ held' = held \cup {call[t].ptr}
    /\ Return(t)

UsableToMalloc(t) ==
    /\ call[t].op = "realloc"
    /\ Enter(t, [call[t] EXCEPT !.usable = usable_size(Ptr(t))], MallocPart(call[t].size))
    /\ UNCHANGED held

(* A hook takes a usable size of 0 for a block of the heap it has replaced,
   and passes the call on to that heap. *)
UsableToHook(t) ==
    /\ usable_size(Ptr(t)) > 0
    /\ \/ call[t].op = "hooked_free" /\ Enter(t, [call[t] EXCEPT !.op = "free"], "free")
       \/ call[t].op = "hooked_realloc" /\ Enter(t, [call[t] EXCEPT !.op = "realloc"], "usable")
    /\ UNCHANGED held

UsableToOriginal(t) ==
    /\ call[t].op \in {"hooked_free", "hooked_realloc"}
    /\ usable_size(Ptr(t)) = 0
    /\ Return(t)
    /\ UNCHANGED held

UsableSize(t) ==
    /\ pc[t] = "usable"
    /\ Locked
    /\ arena # NULL
    /\ UsableReturns(t) \/ UsableToMalloc(t) \/ UsableToHook(t) \/ UsableToOriginal(t)
    /\ UNCHANGED <<osVars, pageVars, slotVars, pool, globals, cached>>
-----------------------------------------------------------------------------
(* ferrum_free: by the region the address lies in. *)

Freed(t) ==
    /\ held' = IF call[t].op = "realloc" THEN held \cup {call[t].new} ELSE held
    /\ Return(t)

(* A thread with a cache looks at the page without the lock: a slot of its
   own page or of another cache's needs no more. *)
FreeLoad(t) ==
    /\ pc[t] = "free"
    /\ t \in cached
    /\ arena # NULL
    /\ RegionOf(Ptr(t)) = "slab"
    /\ MetaOf(Ptr(t)).owner_id = t
    /\ LoadList(t, Ptr(t), "free_store")
    /\ UNCHANGED <<osVars, pageVars, slotVars, pool, globals, cached, held>>

FreeStore(t) ==
    /\ pc[t] = "free_store"
    /\ StoreList(Ptr(t), call[t].seen \cup {Ptr(t)})
    /\ Freed(t)
    /\ UNCHANGED <<osVars, pageVars, pending, stranded, pool, globals, cached>>

FreeRemote(t) ==
    /\ pc[t] = "free"
    /\ t \in cached
    /\ arena # NULL
    /\ RegionOf(Ptr(t)) = "slab"
    /\ MetaOf(Ptr(t)).owner_id # t
    /\ pending' = pending \cup {Ptr(t)}
    /\ Freed(t)
    /\ UNCHANGED <<osVars, pageVars, available, stranded, pool, globals, cached>>

(* Anything else takes the lock, and so does a thread without a cache. *)
FreeLocked(t) ==
    /\ \/ pc[t] = "free_locked"
       \/ pc[t] = "free" /\ t \in cached /\ arena # NULL /\ RegionOf(Ptr(t)) # "slab"
    /\ Locked
    /\ arena # NULL
    /\ Freed(t)
    /\ UNCHANGED <<globals, cached>>

(* Mutant: the page's free slots are left out of the new list. *)
LockedLoadNothing(t) ==
    /\ pc[t] = "free_locked"
    /\ Locked
    /\ arena # NULL
    /\ RegionOf(Ptr(t)) = "slab"
    /\ lock' = t
    /\ Goto(t, "locked_store")
    /\ UNCHANGED <<osVars, pageVars, slotVars, pool, arena, tlsf, arena_init, tls_key, cached, held, call>>

(* A slot freed by a thread without a cache: the lock is held from the load
   to the store, but the page's owner does not ask for it. *)
LockedLoad(t) ==
    /\ pc[t] = "free_locked"
    /\ Locked
    /\ arena # NULL
    /\ RegionOf(Ptr(t)) = "slab"
    /\ lock' = t
    /\ LoadList(t, Ptr(t), "locked_store")
    /\ UNCHANGED <<osVars, pageVars, slotVars, pool, arena, tlsf, arena_init, tls_key, cached, held>>

LockedStore(t) ==
    /\ pc[t] = "locked_store"
    /\ StoreInGlobalSlab(Ptr(t), call[t].seen)
    /\ lock' = NULL
    /\ Freed(t)
    /\ UNCHANGED <<osVars, pageVars, pool, arena, tlsf, arena_init, tls_key, cached>>

FreeTlsf(t) ==
    /\ FreeLocked(t)
    /\ RegionOf(Ptr(t)) = "tlsf"
    /\ pool' = {b \in pool : b[1] # Ptr(t)}
    /\ UNCHANGED <<osVars, pageVars, slotVars>>

FreeHuge(t) ==
    /\ FreeLocked(t)
    /\ RegionOf(Ptr(t)) = "huge"
    /\ huge_free(Ptr(t))
    /\ UNCHANGED <<pageVars, slotVars, pool>>

(* The pages of a bump block stay taken. *)
FreeBump(t) ==
    /\ FreeLocked(t)
    /\ RegionOf(Ptr(t)) \in {"bump", "none"}
    /\ UNCHANGED <<osVars, pageVars, slotVars, pool>>

Free(t) ==
    \/ FreeLoad(t) \/ FreeStore(t) \/ FreeRemote(t)
    \/ LockedLoad(t) \/ LockedStore(t) \/ FreeTlsf(t) \/ FreeHuge(t) \/ FreeBump(t)
-----------------------------------------------------------------------------
(* GLOBAL_ARENA is dereferenced, under the lock or by a free without it, and
   is null: the process ends. *)
NullArena(t) ==
    /\ \/ pc[t] \in {"slot", "tlsf", "usable", "free_locked"} /\ Locked
       \/ pc[t] = "free" /\ t \in cached
    /\ arena = NULL
    /\ pc' = [u \in Threads |-> IF u = t THEN "crashed" ELSE "ended"]
    /\ UNCHANGED <<osVars, pageVars, slotVars, pool, globals, cached, held, call>>

Step(t) ==
    \/ EnsureInit(t) \/ CreateCache(t) \/ NoCache(t)
    \/ Malloc(t) \/ UsableSize(t) \/ Free(t) \/ NullArena(t)

Next == \E t \in Threads : Call(t) \/ Step(t)

Spec == Init /\ [][Next]_vars
=============================================================================
