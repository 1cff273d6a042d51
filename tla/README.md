# Formal model of ferrum-alloc

TLA+ modules, TLC runs and TLAPS proofs for the allocator in `src/` (the Rust
crate is `src/src/*.rs`). Line numbers below refer to that code.

Contents: [the system](#the-system) · [modules](#modules) · [runs](#runs) ·
[bounds](#bounds) · [fairness](#fairness) · [proofs](#proofs) ·
[where code and documentation disagree](#where-code-and-documentation-disagree) ·
[limits](#what-is-not-modelled) · [plan](#plan)

## The system

One process-wide allocator behind a C interface. `ferrum_malloc` routes by size
(api.rs:124-192): up to 1024 bytes to a slab of the calling thread's cache,
above that to TLSF, from 256 KB on to the operating system; what TLSF cannot
serve goes to a bump fallback of whole pages. `ferrum_free` routes by address
(api.rs:199-259).

| Component | State | Operations | Talks to | Hard because | Correct means |
|---|---|---|---|---|---|
| Arena `arena.rs` | 2 MB mapping, `next_free_page`, 512 `PageMeta` | `alloc_page`, `alloc` (bump), address ↔ page | shared by all threads under `ARENA_LOCK`; its metadata is read without it | runs out; bump blocks never come back | a page is given out once |
| Slab `slab.rs` | per page: class, owner, free list as u16 indices inside the slots; per cache and class: doubly linked list of pages with a free slot | `alloc`, `alloc_no_arena`, `free`, `free_no_arena` | runs in the owner's thread without a lock | load and store of a list head are separate; links share bytes with user data | no slot lost, listed twice, or handed out while held |
| Thread cache `thread_cache.rs` | id, slab, `remote_frees` (Treiber stack); globals `NEXT_THREAD_ID`, `CACHE_REGISTRY` | `get_or_create`, `drain_remote_frees`, `remote_free_push` | other threads push; the owner swaps the whole stack out | lock-free, reuse of nodes, ids run out and wrap, creation can fail | ids unique, every pushed slot on exactly one stack, reclaimed once |
| Spin lock and API `api.rs` | `ARENA_LOCK`, `ARENA_INIT`, the globals | malloc, free, calloc, realloc, usable_size, posix_memalign | calls everything else | two critical sections in one malloc; a lock-free and a locked path to the same page | some call always gets on; the lock covers what is shared |
| TLSF `tlsf.rs` | one pool of blocks with boundary tags, 18 × 16 lists, two levels of bitmaps | `add_pool`, `alloc`, `free`, `usable_size` | always under `ARENA_LOCK` | every header repeats facts about its neighbour, every bitmap about its lists | blocks tile the pool, no overlap, coalescing complete, fit found |
| Size classes `size_class.rs` | none | `size_to_class`, `slots_per_page` | – | boundaries | slot fits request, address ↔ index |
| Huge `huge.rs` | header page in front of each mapping | alloc, free, usable_size | operating system | sizes near the word limit; any foreign pointer looks huge | mapping returned once |
| Initialisation `api.rs:74-109` | the globals | `ensure_init` | arena, TLS, TLSF | double-checked locking, failing `os_alloc` | initialised once, before use |
| Platform `platform.rs`, hooks `dllmain.rs` | TLS key; saved function pointers | system calls; hooks | operating system | external | – |

`PROJECT.json` lists every component with its status, and the hazards of this
code with the property that covers each.

## Modules

| Module | Models |
|---|---|
| `Slab` | `slab.rs` and `alloc_page`: `next_free_page`, `meta`, `cell` (the first bytes of each slot), `partial`. Its operators are the effects of the slab functions, `TakeSlot`, `ReturnSlot`, `CarvePage`. |
| `ThreadCache` | extends `Slab` with threads: ids, registry, stacks, lock, and one action per step of `ferrum_malloc` (small) and `ferrum_free` (slot). |
| `ThreadCacheProps` | its properties, fairness, and the inductive invariant `IInv`. |
| `SlotPool` | what the small-object path promises: slots are available, held, or on their way back. `ThreadCacheProps!PoolSpec` is the refinement. |
| `ThreadCacheProofs` | that `IInv` is inductive, and what follows from it alone. |
| `ThreadCacheListProofs` | that nothing is out of reach of its list (`Reached`), what the traversals meet, and the refinement of `SlotPool`. |
| `Walks` | lemmas about walks along linked lists, used by the proofs of the small-object path and of TLSF. |
| `MCThreadCache` | constants and bounds for TLC. |
| `TlsfMapping` | `mapping`, `mapping_search`, `align_up_size`. |
| `Tlsf` | the TLSF allocator over one pool; a call is one step, since it runs under the lock. |
| `TlsfInv` | its inductive invariant `HeapInv`, stated of a heap that a call may be halfway through changing. |
| `TlsfMappingProofs`, `TlsfListProofs`, `TlsfProofs` | the theorems about TLSF: the arithmetic of the mapping, the effects of the list operations, then `alloc`, `free` and the invariant. |
| `Heap` | what TLSF promises: blocks in the pool, long enough, disjoint. `Tlsf!HeapSpec` is the refinement. |
| `Regions` | the address space behind the API: pages mapped, the arena with its metadata, slab pages, pool and bump blocks, huge mappings with their headers; how an address leads to its region; the effects of `Arena::new`, `Arena::alloc`, `huge_alloc`, `huge_free` and the allocators. |
| `Api` | extends `Regions` with threads: `ensure_init`, `ferrum_malloc`, `ferrum_free`, `ferrum_realloc`, `ferrum_usable_size`, `posix_memalign`, the hooks of `dllmain.rs`; one action per critical section or unlocked access, two for the update of a free list. |
| `ApiProps` | its properties and fairness, the invariant of `ensure_init`, its refinement of `Heap` (`HeapSpec`). |
| `ApiInv` | the inductive invariant `ApiInvariant` of the whole interface. |
| `ApiProofs` | the theorems about the interface: initialisation, routing, accounting, the refinement. |
| `MCApi` | constants for TLC. |
| `SizeClass`, `MCNumerics`, `NumericsProofs` | size classes and geometry with the real constants, walked through size by size; the theorems about them and about the TLSF mapping. |

How code and model correspond:

* **Slots and links.** A slot is `<<page, index>>`. Its first bytes are one
  `cell` that holds a tagged value: `U16(i)`, the index of the next free slot;
  `Ptr(s)`, the `next` of a `RemoteFreeNode`; or user data. Reading a link of
  the wrong kind would leave `TypeOK`.
* **Threads.** `pc[t]` is the next step of the call in progress; `cls`, `ptr`,
  `reg`, `stack` are its locals. `idle → get_cache → route`, then for malloc
  `swap → drain` if there are remote frees, `new_page` if the class has no open
  page, `pop → pop_store`; for free `free_load → free_store` (own page),
  `push_load → push_cas` (another cache's page) or `free_locked →
  locked_store` (no cache).
* **Atomicity.** A free-list update is a load step and a store step, with any
  other thread in between; the store step includes `used_slots` and the partial
  list. The push loop is load, then exchange that succeeds or fails. Taking and
  releasing the spin lock are folded into the first and last step of the section
  they bracket. A stale relaxed `has_remote` is a load made earlier. The
  memory order is otherwise sequentially consistent: a slot is passed between threads
  by the release exchange and the acquire swap, or by the application. Creating a cache (fetch_add, registry store,
  TLS) is one step.
* **`loc`** is the only auxiliary variable: where each slot is (`raw`, `free`,
  `live`, `freeing`, `parked`). No guard but the application's own `FreeCall`
  reads it: the application frees what it holds, once.
* **TLSF** counts addresses and sizes in units of 16 bytes, the size of a
  header, of the two links, and of the smallest payload. `mem[a]` is a header,
  links or data; a unit that stops being a header becomes data, so a stale
  pointer into a merged block is visible. `mapping` and friends work on bytes,
  as in the code. Bitmaps are sets of bit positions.
* **Two levels.** `Api` composes what `ThreadCache` and `Tlsf` promise, without
  their lists. Slots are sets of addresses: `available` (on a free list),
  `pending` (on a Treiber stack), held. `malloc` may take any slot of the free list
  it has read (`PopStore`), of any page its cache lists (`Listed`). TLSF may place a block
  behind any gap it fits (`PoolChoices`), and may refuse only when no gap is as long as
  the request rounded up to the next list (`PoolRefuses`, which is what `GoodFit` of `Tlsf`
  gives). A page that the global slab took over is `stranded`; nothing allocates
  from it.
* **Free lists in `Api`.** `alloc_no_arena` and `free_no_arena` load the head of a page's
  list and store it later, without the lock, and the locked free of a thread without a cache
  does the same to any page. Each is two actions (`PopLoad`/`PopStore`,
  `FreeLoad`/`FreeStore`, `LockedLoad`/`LockedStore`), with any step of another thread in
  between; `LockedLoad` takes the lock, `LockedStore` releases it. What is read is the
  set of the page's free slots (`FreeIn`, kept in `call[t].seen`), and the
  store puts the set made from it in the place of whatever the page has by then
  (`StoreList`): that is exact while the page has one writer at a time. When two
  updates of a page overlap, the links left behind decide what becomes of the
  list, and sets do not tell; so no run or theorem of `Api` lets that happen. `api` and the
  theorems are for processes in which every thread that frees a slot has a cache
  (`CachelessFrees` is `FALSE`), `api_cacheless` for calls that do not overlap. What the
  overlap does is `cacheless_race`, of `ThreadCache`, where the links are.
* **Addresses** in `Regions` are numbers, in units of 16 bytes, and the pages of
  the arena lie side by side, so that off-by-ones of the range tests show. A
  size class is named by the slot's size. A block the application holds is a
  record of address, size asked for, room and region; the last two are the
  ghost part: no guard of `Api` reads them, the code finds them from the address.
* **Steps of `Api`.** A critical section is one step, as is a read or write that
  others can see without the lock. Two sections are several steps: that of `ensure_init`
  (`InitTls`, `InitArena`, `InitPool`), because `get_or_create` reads
  `TLS_KEY` and `ferrum_free` reads `GLOBAL_ARENA` without the lock, and the locked free of a
  slot. `lock` is held between steps only there. `pc[t]` is the next section: `init…`, then
  `huge`, `malloc → drain → slot → slot_store`, `tlsf`, `usable`, `free → free_store`,
  `free_locked → locked_store`; `call[t]`
  holds arguments and locals. `realloc` runs through `usable`, malloc's and free's
  steps in turn, each with its own `ensure_init`.
* **Hooks.** On Windows `free` and `realloc` are reached through hooks that call
  `ferrum_usable_size` first (`HookedFreeCall`, `HookedReallocCall`). A block found
  to have room goes on to `free` or `usable` like any other; one with usable size
  0 is passed to the original heap (`UsableToOriginal`) and is gone. Other users,
  and threads, may call the functions directly: both kinds of call are always
  possible.
* **Null arena.** A thread that dereferences a null `GLOBAL_ARENA` ends the process
  (`NullArena`), as the code does after a refused `Arena::new`.
* The page of a `ThreadCache` is mapped for good and is left out of `mapped`.
  Creating a cache may fail at any time (`NoCache`): `MAX_THREADS` and ids are
  `ThreadCache`'s subject.

## Runs

| Run | Checks | Shows |
|---|---|---|
| `small_path` | `TypeOK` `FreeListsExact` `PartialListsExact` `IInv` `Reached` `OwnerExclusive` `PoolSpec` `ParkedReclaimed` | two threads with caches, all interleavings: free lists, partial lists and counters exact; nobody but the owner writes a page's metadata; the abstract pool is implemented; what is given back is reclaimed if threads keep allocating |
| `contended` | `StacksExact` `HandsOutFree` `SomeCallReturns` | three threads: two push to one stack while its owner detaches, drains and reuses. Each slot given back is on exactly one stack; the system makes progress |
| `fallback` | `CacheIdsUnique` `FreeListsExact` `OpenPagesListed` | three threads, two ids, failing `os_alloc`, two classes; calls do not overlap. The locked path then keeps the free lists exact, and every page with a free slot on one list, its owner's or the global slab's; to the owner the latter are lost (`global_slab_leak`) |
| `tlsf` | `TypeOK` `HeapInv` `BoundaryTags` `Coalesced` `ListsExact` `GoodFit` `HeldIntact` `HeapSpec` | all sequences of allocations and frees; the abstract heap is implemented |
| `numerics` | `SlotsRoundTrip` `BlockInItsList` `RequestRoundsUp` | every size up to 1024, then every multiple of 16 up to 512 KB, real constants |
| `api` | `TypeOK` `ApiInvariant` `NullArenaOnlyIfRefused` `InitOnce` `FindsAllocator` `NothingLost` `Private` `ReallocKeeps` `HeapSpec` `CallsReturn` | two threads, the whole interface, directly and through the hooks. Initialised once whoever comes first; a null arena met only by a thread whose own `ensure_init` was refused; every address leads to the allocator of its block; every slot, TLSF block and mapping is accounted for, and the free slots are those a malloc finds; no block overlaps another or the allocator's own data; realloc keeps the contents; no call keeps the lock or goes on for ever; the invariant of the proofs holds. Every thread that frees a slot has a cache |
| `api_cacheless` | `OnlyStrandedLost` `HeapSpec` | slots are freed by threads without a cache too; calls do not overlap. malloc still returns memory that nothing in use overlaps; the free slots that no malloc finds are those of pages on the global slab's list, no others |
| `cacheless_race` `duplicate_ids` `global_slab_leak` `alignment` `realloc_bump` | one property each, violated | see [below](#where-code-and-documentation-disagree) |

Every property of a passing run has a mutant in `PROJECT.json`: a plausible bug
in a mapped definition (defined next to it, under a comment `Mutant`) that TLC
must catch with it.

## Bounds

* `small_path`: 2 threads, 1 class, 2 pages of 2 slots. Pages fill, empty and
  change places in the partial list, a stack has up to 4 nodes, and malloc runs
  out of pages. With two slots a page goes from full to open to full in the
  smallest number of steps; a third thread is in `contended` (1 page of 3 slots,
  two pushers racing for one stack, nodes reused between load and exchange).
* `fallback`: `MaxThreads` = 2 for 128, `MaxAttempts` = 3 bounds the ids consumed
  by failing attempts (a state constraint), because calls of a thread without a
  cache go on for ever. The action constraint `OneCallAtATime` leaves out the
  steps by which two calls would overlap, here and in `global_slab_leak`: what
  overlapping does is `cacheless_race`. Callers are symmetric.
* `IdModulus` stands for 65536: larger than the attempts of a run, except in
  `duplicate_ids`, where it is 4 so that wrapping is reached.
* `tlsf`: 22 units (352 bytes), two second-level lists and five first levels,
  requests of 10, 40, 100 and 450 bytes: below the smallest payload, of
  several lists, and too large for the pool. Remainders too short to split,
  merges on either side and on both, and searches that go on to a higher first
  level all occur. The real 16 lists per level are covered by `numerics`.
* `api`: 2 threads, at most 2 blocks held or asked for (`MaxBlocks`), pages of 2
  units, an arena of 6 pages (1 metadata, 3 pool, 2 data), one class of 1 unit,
  requests of 1 (slot), 3 (TLSF or bump) and 5 (huge), realloc to 3. The constants
  keep the order of the code's: a huge request is smaller than the pool, the pool
  smaller than the arena. The pool has 6 units, two of them headers: a
  request of 3 fits once and takes the whole gap of 4, since one unit cannot be
  split off, so that the next request, of 3 or (without a cache) of 1, is refused
  and goes to the two data pages; these are shared with slab pages, so both
  run out. Two arenas (`MCBases`) and a huge mapping have room to be placed in either
  order, and to be refused. `usable_size` by itself is a step only before there is an
  arena: after that it reads and returns. A block of the larger class, several
  slab pages per cache and TLSF's splitting are left to `small_path` and `tlsf`.
* `api_cacheless`: one arena of 4 pages (1 metadata, 1 pool, 2 data), pages of 4
  units, one class of 2 units, so two slots a page; requests of 1 and 2, realloc to
  1, 3 blocks. Pages fill and open again, one of them ends up on the list of the global
  slab while its owner still frees to it, and both data pages are in use. Two sizes for one
  slot tell two blocks in the same slot apart, which the set of the refinement would
  show as one if they were of one size. A thread without a cache may get one later.
* `numerics` walks a finite range once and stops, so deadlock is not checked there.

## Fairness

`FairSpec`: weak fairness of each thread's steps inside a call, as a scheduler
gives a running thread. Nothing makes an application call again.
`SomeCallReturns` needs no more than that: whoever loses a race for the lock or
a stack loses it to a call that gets on. That a particular call returns is not claimed
of the small-object path: `spin_lock` (api.rs:58) is a test-and-set lock without order, and
a push may lose its exchange every time.
`CallsReturn` of `api` is about something else, that no way through the
interface, refused by `os_alloc`, TLSF and the arena in any order, keeps the lock
or goes on for ever. It takes for granted that a thread waiting for the lock gets it: a
section that is one step of the model is over before another thread looks.
`BusySpec` adds that every thread calls malloc again and again, the assumption
under which `ParkedReclaimed` holds, together with the one that the owner gets the lock when
it drains. The first is an assumption about the application, without
which the property fails: the only drain is in a small malloc of the owner (api.rs:143).

## Proofs

### Small-object path

`ThreadCacheProofs` and `ThreadCacheListProofs` prove, for any number of threads,
pages, slots per page and classes, under the assumptions of the modules
(`SlabAssumption`, `ThreadCacheAssumption`) and `EnoughCaches` (finitely many
threads, at most `MaxThreads` over the life of the process, and no refused cache):

| Theorem | States |
|---|---|
| `Invariance` | `Spec => []IInv` |
| `TypeCorrect` | `Spec => []TypeOK` |
| `UniqueIds` | `Spec => []CacheIdsUnique` |
| `UniqueUntilWrap` | `Spec /\ [][next_id' # 0]_next_id => []CacheIdsUnique`, without `EnoughCaches` |
| `NoDoubleAllocation` | `Spec => []HandsOutFree` |
| `OwnerWritesAlone` | `Spec => OwnerExclusive` |
| `Reachability` | `Spec => []Reached` |
| `FreeLists` | `Spec => []FreeListsExact` |
| `Stacks` | `Spec => []StacksExact` |
| `PartialLists` | `Spec => []PartialListsExact` |
| `GlobalSlabUnused` | `Spec => []GlobalSlabUnowned` |
| `Pooling` | `Spec => PoolSpec` |

`UniqueUntilWrap` assumes of the behaviour, instead of the threads, that
`NEXT_THREAD_ID` does not wrap. Without `EnoughCaches` the others are false: the
violation runs show how. `GlobalSlabUnused` is the other side of
`global_slab_leak`: it takes a thread that was refused a cache for a page to get lost there.

None of these properties is inductive. `HandsOutFree` needs to know that the slot
loaded in `pop` is still the head when it is stored; that needs that no other
thread writes the page; that needs unique ids; that needs `next_id` to be the
number of caches. It also needs the links: `IInv` says of them only what is
local. A free slot links to a free slot of its page, or to none; two free slots of a page
never link to the same slot, and none links to the head (`FreeInv`). A page's
neighbours in its list have the same owner and class and point back
(`ListsInv`). A parked slot links to a parked slot of the same owner, and to it
leads nothing else: no other node, no stack's head, no drain (`StacksInv`).
`ThreadInv` says what a thread knows between two steps of a call. There is one
lemma per action, and in it one step per conjunct of `IInv`. `ReturnSlotInv` and
`TakeSlotInv` carry the slab part for the two ways a slot is given back and the
one it is taken. Under `EnoughCaches` the locked path is unreachable
(`DenyCacheStep`, `LockedStep`), which the proof shows rather than assumes.

That says the links form chains; a cycle of free slots that no head leads to would
not contradict it. What rules it out is `Reached`: every nonempty set of free slots
of a page contains the head, or a slot that a free slot outside the set links to;
likewise every set of parked slots, with the heads of the stacks and of the stacks
being drained, and every set of open pages, by `prev_page`. The statement
over sets says what a path from the head would say and needs no recursion;
each step changes a list at its front, or unlinks a page, so that the set for which
it would fail after the step yields one for which it failed before (`FreeReachedReturn`,
`FreeReachedTake`, `StacksReachedPush`, `PagesLinkedPop` and so on). `Counted`
goes with it: `used_slots` is the number of slots that are not free.

From the two, `Walks` gets the traversals. A walk that follows links which no
two nodes share, from a node to which none leads, meets no node twice
(`WalkDistinct`: take the first node met twice) and therefore has ended after as
many steps as there are nodes (`WalkEnds`, by the pigeonhole principle); when no set of nodes is out of reach it has
met them all (`AllMet`), and walks from two first nodes never meet (`WalksApart`).
`FreeWalk`, `StackWalk` and `PageWalk` are recursive functions of the specification;
that each is such a walk is proved from their definitions. A stack that
is being pushed to and the detached one its owner drains are two walks over
one set of nodes, the slots parked for that owner. Where an induction over the
naturals is needed it is an argument about the least number for which the statement fails (`Least`).

`Pooling` is the refinement. Available are the slots that a malloc can find, on the free lists
of the pages on the partial lists of caches; these are exactly
the slots whose `loc` is `free` (`AvailableExact`: each free slot's page is open, and an open
page is on its owner's list), and every step of every thread moves
at most one slot, or fresh ones (`EveryMove`), each move being one of the pool's.

### TLSF

`TlsfProofs` proves, for any pool of at least three units, any requests, any
number of second-level lists and first levels, under `TlsfMappingAssumption`,
`TlsfAssumption` and `PowersOfTwo`:

| Theorem | States |
|---|---|
| `Invariance` | `Spec => []HeapInv` |
| `Types` | `Spec => []TypeOK` |
| `Tags` | `Spec => []BoundaryTags` |
| `Coalescing` | `Spec => []Coalesced` |
| `Lists` | `Spec => []ListsExact` |
| `Fit` | `Spec => []GoodFit` |
| `Intact` | `Spec => []HeldIntact` |
| `Refinement` | `Spec => HeapSpec` |

`TlsfAssumption` says what the code's constants give: the pool is shorter than
the first size beyond the last list, and so is every request after rounding
(ferrum_malloc sends the others to the operating system). `PowersOfTwo` states that powers of two
double, up to `FL_MAX + 2`: `2^k` is a function of TLA+'s standard modules on which the provers
have no arithmetic. TLC evaluates it in the runs `tlsf` and `numerics`, with the
real constants in the second.

`alloc` and `free` take the heap apart and put it together again in one step of
the model, so the invariant is stated of a heap value, with the set of blocks it
makes an exception for and the set of blocks listed (`TlsfInv`): `Tiled`, blocks
follow each other without a gap and each leads back to the one in front;
`Flagged` and `Merged`, flags agree and no two free blocks touch, except at the
block in hand; `Linked` and `Mapped`, the lists hold exactly the free blocks, and the bitmaps
the lists that are not empty. Each operator (`InsertFree`, `RemoveFree`, `Split`, `MergeNext`,
`MergePrev`) has a lemma from one such heap to the
next, and the proofs of `alloc` and `free` compose them. Acyclicity of the lists is again a statement over
sets of blocks.

`NumericsProofs`, for every size up to `MaxSize` and any constants that satisfy
`NumericsAssumption`: `mapping` puts a block in the list whose bounds it lies
between (`Lists`, `[]BlockInItsList`), and `mapping_search` finds only lists with no block
shorter than the request (`Requests`, `[]RequestRoundsUp`). Both follow from `TlsfMappingProofs`, from
the least power of two above the size.

`SlotsServe` (`[]SlotsRoundTrip`) and `SlotAddresses` are about the real table of size classes:
each size up to 1024 has a class, and the address of a slot leads back to page
and index, in the second for every page number, where the run tries one page.

### The interface

`ApiProofs` proves, for any number of threads, any arena and any sizes, under
`RegionsAssumption` and `ApiAssumption`, and all but two of them under
`~CachelessFrees`: every thread that frees a slot has a cache. (A thread without one may
allocate, from TLSF and the bump fallback, and free anything else.)

| Theorem | States |
|---|---|
| `ApiInvariance` | `Spec => []ApiInvariant`, under `~CachelessFrees` |
| `NullArenaExplained` | `Spec => []NullArenaOnlyIfRefused` |
| `InitialisedOnce` | `Spec => InitOnce` |
| `Types` | `Spec => []TypeOK`, under `~CachelessFrees` |
| `Routing` | `Spec => []FindsAllocator`, under `~CachelessFrees` |
| `Accounting` | `Spec => []NothingLost`, under `~CachelessFrees` |
| `BlocksPrivate` | `Spec => []Private`, under `~CachelessFrees` |
| `ReallocCopiesAll` | `Spec => []ReallocKeeps`, under `~CachelessFrees` |
| `Refinement` | `Spec => HeapSpec`, under `~CachelessFrees` |

`NullArenaOnlyIfRefused` and `InitOnce` are not inductive: that the arena stays needs that only one thread is
between `InitTls` and `InitPool`, which needs that it holds the lock and that
`ARENA_INIT` is still false; that a call finds the arena needs that every way out
of `ensure_init` is a refusal or leaves one behind. `InitInv` says this, and that
pages not yet given out are empty, so that marking them for the pool or a bump
block takes no page from a slab. Most actions move one thread and leave the
globals alone: `QuietStep` and `QuietKept` do these once, and the three steps of
`ensure_init` and the two that take pages have lemmas of their own.

`ApiInvariant` adds four parts. `Owned`: a block is held by the application or
is in the hands of one call, never two, and the locals of a call fit the step it
is at (`CallFits`); `realloc`, which reads the size of its block in one section,
copies it in a second and frees it in a third, relies on this. `GlobalsFit`: who may hold
a mapping that is not yet the arena. `MemoryFits`: every block lies where its
allocator puts blocks — a slot of a carved page, whole pages behind the pool, a
pair of `pool`, the pages behind a header with the right count — and no two
share a unit. `FindsAllocator` and `Private` are not inductive without it: to know that an
address leads to its region one must know that no page under a bump block is ever
carved, that the pool's pages are not the data's, that a mapping with a header
contains no page of the arena, mapped before or after. `ListsFit`: the free
list that a thread has loaded is still the page's when it stores, for the page is its own,
whoever else frees a slot of it pushes to the owner's stack, and a drain by the owner is a
step of the same thread (`QuietLists`, `OwnLists`, `ReadLists`). Here the hypothesis is
used, and only here: a thread without a cache would store to the same list, and then a slot is handed
out that is held (`cacheless_race`). From `ListsFit` also follows that what malloc has
read are free slots (`PopsFree`), and that no page is stranded, so that a malloc finds
every free slot (`AllFound`): the two halves that make `Accounting` say that nothing is lost.

The steps are compositions of a few things that happen to memory: a block appears
or goes in one of four regions, a page is carved, an arena is mapped, set, given its pool.
Each of these has a lemma for `MemoryFits`; what happens to hands has one for the step that
receives a block and one for the step that returns it. `Refinement` maps a step
at which a block appears in somebody's hands to a `malloc` of the abstract heap,
one at which it is gone to a `free`, and every other step to a stutter; that a block
appears apart from all others is `BlocksFit` after the step.

### Only model-checked

* Liveness (`CallsReturn`, `SomeCallReturns`, `ParkedReclaimed`): the prover has no
  rule for fairness that could be used here.
* The lists of the small-object path when caches run out or are
  refused (`FreeListsExact` and `OpenPagesListed` in run `fallback`), and the interface when threads
  without a cache free slots (`OnlyStrandedLost` and `HeapSpec` in run `api_cacheless`). They
  hold there only while calls do not overlap, and the invariant under that restriction is
  not worked out.
* What the violation runs show: a counterexample is its own proof.

## Where code and documentation disagree

* `cacheless_race`: a thread for which `get_or_create` returned `None` frees
  another cache's slot through the global slab, under the lock (api.rs:247),
  while the owner works on the same free list without one. The locked free has read the head of
  the list, the owner pops that slot, and the locked free links the slot freed to it: malloc
  hands out a slot that is held (thread_cache.rs:31, test at api.rs:498).
* `global_slab_leak`: the same branch moves a page that was full to the global
  slab's list, which nothing allocates from (comment api.rs:245).
* `duplicate_ids`: the u16 counter wraps after 65536 attempts, failed ones
  included (thread_cache.rs:29, "Unique ID").
* `alignment`: slots of 8 and 24 bytes are not "aligned to at least 16 bytes"
  (api.rs:117).

* `realloc_bump`: the usable size of a bump block is unknown (0), and realloc
  takes 0 for leave to copy the new size: it reads past the old block, once the TLSF pool has been
  exhausted and has room again
  (api.rs:345-346, "copies `min(old_size, new_size)` bytes"; api.rs:363).

Shown by the passing runs, without one of their own: remote frees are drained only
by a small malloc of the owner, not "periodically" (lib.rs:18-19; `ParkedReclaimed` needs
`BusySpec`). "Returns null if
allocation fails" (api.rs:118) does not hold when it is the arena that cannot be
had: `ferrum_malloc` dereferences the null `GLOBAL_ARENA` (`NullArena`;
`NullArenaOnlyIfRefused` says when). A bump block that is freed stays taken
(`FreeBump`), and the Windows hooks pass it to the heap they replaced, since its
usable size is 0 (dllmain.rs:50-59; `FindsAllocator` says that it is so for bump
blocks only).

Seen while reading, without a run: `lib.rs` gives each thread an arena and sends
sizes above 64 KB to the operating system, the code has one arena and 256 KB
(huge.rs:6); the layout in arena.rs:10-18 and the size in slab.rs:24 are those
of a smaller `PageMeta` (`META_PAGES` is 5); README.md names a
`FerrumAllocator` that the crate does not define.

## What is not modelled

* `platform.rs` below `os_alloc`, `os_free` and the TLS key: system calls. A cache
  found in TLS is assumed to be found again.
* `dllmain.rs`: installing hooks is external, and so are blocks that the original
  heap made, for which `ferrum_usable_size` reads a header in memory it does not own.
* Thread exit is a thread that calls no more, as the code frees nothing then.
* `Arena::reset` and `Drop`, statistics: nothing calls them on the global arena.
* Sizes near the word's limit in `huge_alloc`, and blocks of size 0 from
  `posix_memalign`.
* The contents of blocks, except how much of them realloc copies; zeroing by
  `calloc`.
* In `Api`, two updates of one page's free list that overlap: what they leave behind is a matter of
  links, and modelled in `ThreadCache` (`cacheless_race`). The theorems about the interface
  say nothing of processes in which a thread without a cache frees a slot.
* Undefined behaviour of aliasing Rust references, only the interleavings of the
  accesses. The globals that `ensure_init` writes are ordinary variables; a thread
  that reads `GLOBAL_ARENA` early reads null or the pointer.
* Benchmarks, tests, the latency tool, the fuzz target: clients.

## Plan

Done: `Slab` → `ThreadCache` → properties → `IInv` → `Reached` → proofs, the
refinement of `SlotPool` included; `TlsfMapping`, `Tlsf`, `Heap` → `HeapInv` →
proofs; `SizeClass` → proofs; `Regions` → `Api` → properties → `ApiInvariant` → proofs,
the refinement of `Heap` included. Every safety property of the passing runs is
proved, except two of run `fallback` and those of run `api_cacheless`. Next, in this order:

1. `FreeListsExact` and `OpenPagesListed` without `EnoughCaches`, for calls that do not
   overlap (`[][OneCallAtATime]_vars`): the chains of `IInv` without its ids, with
   the lists of the global slab among the partial lists. Then `OnlyStrandedLost` and `HeapSpec` of
   `Api` without `~CachelessFrees`, for such calls.
2. That what `ThreadCache` implements is literally what `Api` builds on. A section of
   `Api` carves a page and takes a slot of it, or reclaims a whole stack, in one
   step, so it needs a `SlotPool` whose step is a sequence of the present one's
   moves, which both refine.
3. The same for the pool of `Regions` and `Heap`, which `Tlsf` implements.
