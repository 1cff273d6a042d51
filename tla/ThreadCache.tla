---------------------------- MODULE ThreadCache -----------------------------
(***************************************************************************)
(* The small-object path of ferrum_malloc and ferrum_free: thread caches   *)
(* (src/src/thread_cache.rs) over their slab allocators, the Treiber stack *)
(* through which other threads give slots back, and the spin lock that     *)
(* guards the arena (src/src/api.rs).                                      *)
(*                                                                         *)
(* A thread runs one call at a time; pc says which step comes next.  The   *)
(* fast paths take no lock, so an update of a free list is two steps: the  *)
(* one that loads the list and the one that stores it, used_slots and the  *)
(* partial list with it.  Between the two any other thread may run.  Steps *)
(* on memory no other thread can reach are folded into a neighbour, and so *)
(* are taking and releasing the spin lock at the ends of a critical        *)
(* section, and the steps of creating a cache.  The relaxed load that asks *)
(* whether there are remote frees may be stale: that is a load made        *)
(* earlier, since only the owner ever makes its stack empty.               *)
(***************************************************************************)
EXTENDS Slab, FiniteSets

CONSTANTS
    Threads,
    GlobalSlab,   \* GLOBAL_SLAB, the SlabAllocator no thread owns
    MaxThreads,   \* MAX_THREADS
    IdModulus,    \* values of an AtomicU16
    OsMayFail     \* whether os_alloc may return null for a ThreadCache

ASSUME ThreadCacheAssumption ==
    /\ Caches = Threads \cup {GlobalSlab}
    /\ GlobalSlab \notin Threads
    /\ NULL \notin Threads
    /\ NULL \notin Slots
    /\ MaxThreads \in Nat
    /\ IdModulus \in Nat
    /\ MaxThreads < IdModulus
    /\ IdModulus <= NO_OWNER + 1
    /\ OsMayFail \in BOOLEAN

Ids     == 0..(IdModulus - 1)
CacheIds == 0..(MaxThreads - 1)

VARIABLES
    next_id,        \* NEXT_THREAD_ID
    tc,             \* id of the ThreadCache in each thread's TLS, NULL if none
    registry,       \* CACHE_REGISTRY: the thread whose cache is stored at an id
    remote_frees,   \* head of each cache's Treiber stack
    lock,           \* holder of ARENA_LOCK
    pc,             \* next step of each thread
    cls,            \* size class of the malloc in progress
    ptr,            \* slot the call is about, NULL in a malloc that has none yet
    reg,            \* link the thread has loaded
    stack,          \* cache whose stack remote_free_push is pushing to
    loc             \* auxiliary: where every slot is

threadVars == <<next_id, tc, registry>>
locals == <<cls, ptr, reg, stack>>
vars == <<slabVars, threadVars, remote_frees, lock, pc, locals, loc>>

Init ==
    /\ SlabInit
    /\ next_id = 0
    /\ tc = [t \in Threads |-> NULL]
    /\ registry = [i \in CacheIds |-> NULL]
    /\ remote_frees = [t \in Threads |-> NULL]
    /\ lock = NULL
    /\ pc = [t \in Threads |-> "idle"]
    /\ cls = [t \in Threads |-> NULL]
    /\ ptr = [t \in Threads |-> NULL]
    /\ reg = [t \in Threads |-> UserData]
    /\ stack = [t \in Threads |-> NULL]
    /\ loc = [s \in Slots |-> "raw"]

Goto(t, from, to) ==
    /\ pc[t] = from
    /\ pc' = [pc EXCEPT ![t] = to]

Move(s, to) == loc' = [loc EXCEPT ![s] = to]
Load(t, link) == reg' = [reg EXCEPT ![t] = link]

Acquire(t) == lock = NULL /\ lock' = t
Release(t) == lock' = IF lock = t THEN NULL ELSE lock

(* A call returns and its locals are gone. *)
Return(t, from) ==
    /\ Goto(t, from, "idle")
    /\ cls' = [cls EXCEPT ![t] = NULL]
    /\ ptr' = [ptr EXCEPT ![t] = NULL]
    /\ reg' = [reg EXCEPT ![t] = UserData]
    /\ stack' = [stack EXCEPT ![t] = NULL]
-----------------------------------------------------------------------------
(* The application calls malloc with a size of class c, or frees a slot it
   holds.  A thread whose TLS holds a cache gets it at once. *)
FirstStep(t) == IF tc[t] = NULL THEN "get_cache" ELSE "route"

MallocCall(t, c) ==
    /\ Goto(t, "idle", FirstStep(t))
    /\ cls' = [cls EXCEPT ![t] = c]
    /\ UNCHANGED <<slabVars, threadVars, remote_frees, lock, ptr, reg, stack, loc>>

FreeCall(t, s) ==
    /\ loc[s] = "live"
    /\ Goto(t, "idle", FirstStep(t))
    /\ ptr' = [ptr EXCEPT ![t] = s]
    /\ Move(s, "freeing")
    /\ UNCHANGED <<slabVars, threadVars, remote_frees, lock, cls, reg, stack>>

(* NEXT_THREAD_ID.fetch_add(1), which wraps. *)
FetchAdd == next_id' = IF next_id = IdModulus - 1 THEN 0 ELSE next_id + 1

(* Mutant: the id counter is read and not advanced. *)
CreateCacheReusesId(t) ==
    /\ Goto(t, "get_cache", "route")
    /\ next_id \in CacheIds
    /\ tc' = [tc EXCEPT ![t] = next_id]
    /\ registry' = [registry EXCEPT ![next_id] = t]
    /\ UNCHANGED <<slabVars, next_id, remote_frees, lock, locals, loc>>

(* get_or_create for a thread without a cache.  Every attempt consumes an
   id, and an AtomicU16 wraps. *)
CreateCache(t) ==
    /\ Goto(t, "get_cache", "route")
    /\ next_id \in CacheIds
    /\ FetchAdd
    /\ tc' = [tc EXCEPT ![t] = next_id]
    /\ registry' = [registry EXCEPT ![next_id] = t]
    /\ UNCHANGED <<slabVars, remote_frees, lock, locals, loc>>

(* No cache for this call: a malloc is served by TLSF, outside this module,
   and a free takes the locked path. *)
DenyCache(t) ==
    /\ next_id \notin CacheIds \/ OsMayFail
    /\ Goto(t, "get_cache", IF ptr[t] = NULL THEN "idle" ELSE "free_locked")
    /\ FetchAdd
    /\ cls' = [cls EXCEPT ![t] = NULL]
    /\ UNCHANGED <<slabVars, tc, registry, remote_frees, lock, ptr, reg, stack, loc>>
-----------------------------------------------------------------------------
(* malloc: drain the remote frees if there are any, take the lock if the
   class has no page with a free slot, then pop a slot. *)

(* Mutant: a new page although the class has a free slot. *)
AfterDrainNewPage(t) == "new_page"

AfterDrain(t) == IF partial[t][cls[t]] = NULL THEN "new_page" ELSE "pop"

(* Mutant: the remote frees are never looked at. *)
CheckRemoteNever(t) ==
    /\ ptr[t] = NULL
    /\ Goto(t, "route", AfterDrain(t))
    /\ UNCHANGED <<slabVars, threadVars, remote_frees, lock, locals, loc>>

CheckRemote(t) ==
    /\ ptr[t] = NULL
    /\ Goto(t, "route", IF remote_frees[t] = NULL THEN AfterDrain(t) ELSE "swap")
    /\ UNCHANGED <<slabVars, threadVars, remote_frees, lock, locals, loc>>

(* Mutant: a load in place of the swap. *)
DetachStackByLoad(t) ==
    /\ Acquire(t)
    /\ Goto(t, "swap", "drain")
    /\ Load(t, Ptr(remote_frees[t]))
    /\ UNCHANGED <<slabVars, threadVars, remote_frees, cls, ptr, stack, loc>>

(* spin_lock, then the swap that detaches the whole stack. *)
DetachStack(t) ==
    /\ Acquire(t)
    /\ Goto(t, "swap", "drain")
    /\ Load(t, Ptr(remote_frees[t]))
    /\ remote_frees' = [remote_frees EXCEPT ![t] = NULL]
    /\ UNCHANGED <<slabVars, threadVars, cls, ptr, stack, loc>>

(* One turn of the loop: read the next pointer, then free the node. *)
DrainNode(t) ==
    LET s == reg[t][2] IN
    /\ pc[t] = "drain"
    /\ s # NULL
    /\ Load(t, cell[s])
    /\ ReturnSlot(t, s, meta[s[1]].free_list_head)
    /\ Move(s, "free")
    /\ UNCHANGED <<threadVars, remote_frees, lock, pc, cls, ptr, stack>>

DrainEnd(t) ==
    /\ Goto(t, "drain", AfterDrain(t))
    /\ reg[t][2] = NULL
    /\ Release(t)
    /\ UNCHANGED <<slabVars, threadVars, remote_frees, locals, loc>>

(* alloc() with the lock held: a page for the class, then the pop. *)
NewPage(t) ==
    /\ Acquire(t)
    /\ Goto(t, "new_page", "pop")
    /\ CarvePage(t, cls[t], tc[t])
    /\ loc' = [s \in Slots |->
                  IF s[1] = next_free_page /\ s[2] < SlotsOf[cls[t]] THEN "free" ELSE loc[s]]
    /\ UNCHANGED <<threadVars, remote_frees, locals>>

(* alloc() returns null and malloc turns to TLSF. *)
OutOfPages(t) ==
    /\ lock = NULL
    /\ ArenaFull
    /\ Return(t, "new_page")
    /\ UNCHANGED <<slabVars, threadVars, remote_frees, lock, loc>>

PopLoad(t) ==
    LET p == partial[t][cls[t]]
        s == <<p, meta[p].free_list_head>> IN
    /\ Goto(t, "pop", "pop_store")
    /\ ptr' = [ptr EXCEPT ![t] = s]
    /\ Load(t, cell[s])
    /\ UNCHANGED <<slabVars, threadVars, remote_frees, lock, cls, stack, loc>>

PopStore(t) ==
    /\ Return(t, "pop_store")
    /\ TakeSlot(t, cls[t], ptr[t], reg[t][2])
    /\ Move(ptr[t], "live")
    /\ Release(t)
    /\ UNCHANGED <<threadVars, remote_frees>>
-----------------------------------------------------------------------------
(* free: by owner of the page, to the owner's stack, or under the lock. *)

OwnerOf(s) == meta[s[1]].owner_id

(* Mutant: the owner is not compared. *)
RouteLocalAlways(t) ==
    /\ ptr[t] # NULL
    /\ Goto(t, "route", "free_load")
    /\ UNCHANGED <<slabVars, threadVars, remote_frees, lock, locals, loc>>

RouteLocal(t) ==
    /\ ptr[t] # NULL
    /\ OwnerOf(ptr[t]) = tc[t]
    /\ Goto(t, "route", "free_load")
    /\ UNCHANGED <<slabVars, threadVars, remote_frees, lock, locals, loc>>

(* remote_free_push looks the owner up.  Its early returns, for an id out of
   range or not registered, and ferrum_free's test for 0xFFFF, never apply:
   the owner of a carved page is registered (PagesInv and IdsInv of
   ThreadCacheProps). *)
RouteRemote(t) ==
    /\ ptr[t] # NULL
    /\ OwnerOf(ptr[t]) # tc[t]
    /\ Goto(t, "route", "push_load")
    /\ stack' = [stack EXCEPT ![t] = registry[OwnerOf(ptr[t])]]
    /\ UNCHANGED <<slabVars, threadVars, remote_frees, lock, cls, ptr, reg, loc>>

(* Mutant: the list of the page is dropped. *)
FreeLoadNothing(t) ==
    /\ Goto(t, "free_load", "free_store")
    /\ Load(t, U16(NULL_SLOT))
    /\ UNCHANGED <<slabVars, threadVars, remote_frees, lock, cls, ptr, stack, loc>>

FreeLoad(t) ==
    /\ Goto(t, "free_load", "free_store")
    /\ Load(t, U16(meta[ptr[t][1]].free_list_head))
    /\ UNCHANGED <<slabVars, threadVars, remote_frees, lock, cls, ptr, stack, loc>>

FreeStore(t) ==
    /\ Return(t, "free_store")
    /\ ReturnSlot(t, ptr[t], reg[t][2])
    /\ Move(ptr[t], "free")
    /\ UNCHANGED <<threadVars, remote_frees, lock>>

(* Load the head and link the node to it, then compare-and-swap.  A weak
   compare-and-swap that fails spuriously only repeats the same link. *)
LinkTo(t, head) ==
    /\ Load(t, Ptr(head))
    /\ cell' = [cell EXCEPT ![ptr[t]] = Ptr(head)]

PushLoad(t) ==
    /\ Goto(t, "push_load", "push_cas")
    /\ LinkTo(t, remote_frees[stack[t]])
    /\ UNCHANGED <<next_free_page, meta, partial, threadVars, remote_frees, lock, cls, ptr, stack, loc>>

(* Mutant: a plain store in place of the compare-and-swap. *)
PushBlindly(t) ==
    /\ Return(t, "push_cas")
    /\ remote_frees' = [remote_frees EXCEPT ![stack[t]] = ptr[t]]
    /\ Move(ptr[t], "parked")
    /\ UNCHANGED <<slabVars, threadVars, lock>>

PushSucceeds(t) ==
    /\ Return(t, "push_cas")
    /\ Ptr(remote_frees[stack[t]]) = reg[t]
    /\ remote_frees' = [remote_frees EXCEPT ![stack[t]] = ptr[t]]
    /\ Move(ptr[t], "parked")
    /\ UNCHANGED <<slabVars, threadVars, lock>>

(* Mutant: the head that the failed exchange returned is not used. *)
PushFailsStale(t) ==
    /\ pc[t] = "push_cas"
    /\ Ptr(remote_frees[stack[t]]) # reg[t]
    /\ LinkTo(t, reg[t][2])
    /\ UNCHANGED <<next_free_page, meta, partial, threadVars, remote_frees, lock, pc, cls, ptr, stack, loc>>

PushFails(t) ==
    /\ pc[t] = "push_cas"
    /\ Ptr(remote_frees[stack[t]]) # reg[t]
    /\ LinkTo(t, remote_frees[stack[t]])
    /\ UNCHANGED <<next_free_page, meta, partial, threadVars, remote_frees, lock, pc, cls, ptr, stack, loc>>

(* Mutant: the locked path takes the page's list for empty. *)
LockedLoadNothing(t) ==
    /\ Acquire(t)
    /\ Goto(t, "free_locked", "locked_store")
    /\ Load(t, U16(NULL_SLOT))
    /\ UNCHANGED <<slabVars, threadVars, remote_frees, cls, ptr, stack, loc>>

(* The slow path of a thread without a cache: free() of the global slab. *)
LockedLoad(t) ==
    /\ Acquire(t)
    /\ Goto(t, "free_locked", "locked_store")
    /\ Load(t, U16(meta[ptr[t][1]].free_list_head))
    /\ UNCHANGED <<slabVars, threadVars, remote_frees, cls, ptr, stack, loc>>

LockedStore(t) ==
    /\ Return(t, "locked_store")
    /\ ReturnSlot(GlobalSlab, ptr[t], reg[t][2])
    /\ Move(ptr[t], "free")
    /\ Release(t)
    /\ UNCHANGED <<threadVars, remote_frees>>
-----------------------------------------------------------------------------
Call(t) == (\E c \in Classes : MallocCall(t, c)) \/ (\E s \in Slots : FreeCall(t, s))

Malloc(t) ==
    \/ CheckRemote(t) \/ DetachStack(t) \/ DrainNode(t) \/ DrainEnd(t)
    \/ NewPage(t) \/ OutOfPages(t) \/ PopLoad(t) \/ PopStore(t)

Free(t) ==
    \/ RouteLocal(t) \/ RouteRemote(t)
    \/ FreeLoad(t) \/ FreeStore(t)
    \/ PushLoad(t) \/ PushSucceeds(t) \/ PushFails(t)
    \/ LockedLoad(t) \/ LockedStore(t)

Step(t) == CreateCache(t) \/ DenyCache(t) \/ Malloc(t) \/ Free(t)

Next == \E t \in Threads : Call(t) \/ Step(t)

Spec == Init /\ [][Next]_vars
=============================================================================
