------------------------------ MODULE ApiProofs ------------------------------
(***************************************************************************)
(* Proofs about the C interface, for every number of threads, every        *)
(* geometry of the arena and every set of sizes.                           *)
(*                                                                         *)
(* First ensure_init: a null arena is met only by a thread whose own       *)
(* ensure_init was refused, and the arena, its pool and the owners of its  *)
(* pages stay what they are.  Both follow from InitInv being inductive.    *)
(* Most actions move one thread and leave the globals alone: QuietStep     *)
(* does these once and for all.                                            *)
(*                                                                         *)
(* Then ApiInvariant: every block is in one pair of hands, and lies where  *)
(* its allocator puts blocks, apart from the others.  There is one lemma   *)
(* per region for a block that is made there and one for a block that is   *)
(* freed; the steps of the calls are compositions of these.  What a thread *)
(* has read of a page's free list stays true until it stores, as long as   *)
(* every thread that frees a slot has a cache.  From the invariant follow  *)
(* the routing of addresses, the accounting of all memory, the privacy of  *)
(* blocks, what realloc copies, and the refinement of Heap.                *)
(***************************************************************************)
EXTENDS ApiInv, Walks

(* The fields of a call. *)
LEMMA CallFields ==
  DOMAIN NoCall = {"op", "then", "base", "refused", "ptr", "size", "usable", "seen", "new", "copied"}
  BY DEF NoCall

(* A call with locals c may go on at `to`: not into the middle of
   ensure_init, and past it only with an arena or a refusal. *)
MayGo(c, to) ==
  /\ CallTyped(c)
  /\ to \in Parts \cup {"idle", "init"}
  /\ to # "locked_store"
  /\ to \in Parts \ {"huge"} /\ arena = NULL => c.refused

Moves(t, c, to) ==
  /\ DOMAIN pc' = Threads
  /\ DOMAIN call' = Threads
  /\ pc'[t] = to
  /\ call'[t] = c
  /\ \A u \in Threads \ {t} : pc'[u] = pc[u] /\ call'[u] = call[u]

(* A step that moves one thread and leaves the globals alone. *)
LEMMA QuietStep ==
  ASSUME InitInv, NEW t \in Threads, NEW c, NEW to, MayGo(c, to), Moves(t, c, to),
         UNCHANGED globals
  PROVE  ThreadsInit' /\ GlobalsInit'
  <1>1. ThreadInit(t)'
    BY DEF Moves, ThreadInit, MayGo, CallTyped, Parts, globals, NoCall
  <1>2. ASSUME NEW u \in Threads, u # t PROVE ThreadInit(u)'
    BY <1>2 DEF Moves, InitInv, ThreadsInit, ThreadInit, CallTyped, Parts, globals, NoCall
  <1>3. GlobalsInit'
    BY DEF InitInv, GlobalsInit, globals
  <1>4. QED
    BY <1>1, <1>2, <1>3 DEF ThreadsInit, Moves

(* The next step of the call is another one. *)
LEMMA GotoStep ==
  ASSUME InitInv, NEW t \in Threads, NEW to \in Parts \cup {"idle"}, to # "locked_store", Goto(t, to),
         to \in Parts \ {"huge"} /\ arena = NULL => call[t].refused,
         UNCHANGED <<globals, call>>
  PROVE  ThreadsInit' /\ GlobalsInit'
  <1>1. MayGo(call[t], to)
    BY DEF MayGo, InitInv, ThreadsInit, ThreadInit
  <1>2. Moves(t, call[t], to)
    BY DEF Moves, Goto, InitInv, ThreadsInit
  <1>3. QED
    BY <1>1, <1>2, QuietStep

(* ensure_init is entered, or passed because there is an arena. *)
LEMMA EnterStep ==
  ASSUME InitInv, NEW t \in Threads, NEW c, CallTyped(c), NEW part \in FirstParts, Enter(t, c, part),
         UNCHANGED globals
  PROVE  ThreadsInit' /\ GlobalsInit'
  <1> DEFINE d == [c EXCEPT !.then = IF arena_init THEN "idle" ELSE part, !.refused = FALSE]
             to == IF arena_init THEN part ELSE "init"
  <1>1. CallTyped(d)
    BY CallFields DEF CallTyped, FirstParts
  <1>2. MayGo(d, to)
    BY <1>1 DEF MayGo, InitInv, GlobalsInit, Parts, FirstParts
  <1>3. Moves(t, d, to)
    BY DEF Moves, Enter, Goto, InitInv, ThreadsInit
  <1>4. QED
    BY <1>2, <1>3, QuietStep

(* A free list is read without the lock. *)
LEMMA LoadStep ==
  ASSUME InitInv, NEW t \in Threads, NEW s, NEW to \in Parts, to # "locked_store",
         LoadList(t, s, to), arena = NULL => call[t].refused, UNCHANGED globals
  PROVE  ThreadsInit' /\ GlobalsInit'
  <1> DEFINE c == [call[t] EXCEPT !.seen = FreeIn(s)]
  <1>1. CallTyped(c) /\ c.refused = call[t].refused
    BY CallFields DEF CallTyped, InitInv, ThreadsInit, ThreadInit
  <1>2. MayGo(c, to)
    BY <1>1 DEF MayGo
  <1>3. Moves(t, c, to)
    BY DEF Moves, LoadList, Goto, InitInv, ThreadsInit
  <1>4. QED
    BY <1>2, <1>3, QuietStep

(* The call ends. *)
LEMMA ReturnStep ==
  ASSUME InitInv, NEW t \in Threads, Return(t), UNCHANGED globals
  PROVE  ThreadsInit' /\ GlobalsInit'
  <1>1. CallTyped(NoCall)
    BY DEF CallTyped, NoCall
  <1>2. MayGo(NoCall, "idle")
    BY <1>1 DEF MayGo, Parts
  <1>3. Moves(t, NoCall, "idle")
    BY DEF Moves, Return, Goto, InitInv, ThreadsInit
  <1>4. QED
    BY <1>2, <1>3, QuietStep

(* malloc has a block: the call ends, or realloc goes on with free. *)
LEMMA GotStep ==
  ASSUME InitInv, NEW t \in Threads, NEW b, Got(t, b), UNCHANGED globals
  PROVE  ThreadsInit' /\ GlobalsInit'
  <1>1. CASE Return(t)
    BY <1>1, ReturnStep
  <1> DEFINE c == [call[t] EXCEPT !.new = b, !.seen = {},
                                  !.copied = CopySize(call[t].usable, call[t].size)]
  <1>2. CASE Enter(t, c, "free")
    <2>1. CallTyped(c)
      BY CallFields DEF CallTyped, InitInv, ThreadsInit, ThreadInit
    <2>2. "free" \in FirstParts
      BY DEF FirstParts
    <2>3. QED
      BY <1>2, <2>1, <2>2, EnterStep
  <1>3. QED
    BY <1>1, <1>2 DEF Got

(* ensure_init returns, with the globals as they are. *)
LEMMA ResumeStep ==
  ASSUME InitInv, NEW t \in Threads, NEW refused \in BOOLEAN, Resume(t, refused),
         arena = NULL => refused, UNCHANGED globals
  PROVE  ThreadsInit' /\ GlobalsInit'
  <1> DEFINE c == [call[t] EXCEPT !.then = "idle", !.base = NULL, !.refused = refused]
  <1>1. CallTyped(c) /\ c.refused = refused
    BY CallFields DEF CallTyped, InitInv, ThreadsInit, ThreadInit
  <1>2. call[t].then \in Parts \cup {"idle"} /\ call[t].then # "locked_store"
    BY DEF InitInv, ThreadsInit, ThreadInit, CallTyped, Parts, FirstParts
  <1>3. MayGo(c, call[t].then)
    BY <1>1, <1>2 DEF MayGo
  <1>4. Moves(t, c, call[t].then)
    BY DEF Moves, Resume, Goto, InitInv, ThreadsInit
  <1>5. QED
    BY <1>3, <1>4, QuietStep
-----------------------------------------------------------------------------
(* Steps that leave the arena's pages alone, take some for the pool or for a
   bump block, or carve one for a slab. *)
LEMMA QuietPages ==
  ASSUME InitInv, UNCHANGED <<pageVars, arena_init>>
  PROVE  PagesInit'
  BY DEF InitInv, PagesInit, pageVars, ArenaPages, EmptyMeta

LEMMA TakePagesStep ==
  ASSUME InitInv, NEW n \in Nat, TakePages(n), arena_init'
  PROVE  /\ PagesInit'
         /\ \A p \in ArenaPages : meta[p].size_class # NO_CLASS => meta'[p] = meta[p]
  <1>1. ASSUME NEW p \in ArenaPages PROVE meta'[p] = meta[p]
    <2>1. CASE p \in Span(next_free_page, n)
      <3>1. p >= next_free_page
        BY <2>1 DEF Span
      <3>2. meta[p] = EmptyMeta
        BY <3>1 DEF InitInv, PagesInit
      <3>3. meta'[p] = [meta[p] EXCEPT !.size_class = NO_CLASS]
        BY <2>1 DEF TakePages, InitInv, PagesInit
      <3>4. QED
        BY <3>2, <3>3 DEF EmptyMeta
    <2>2. CASE p \notin Span(next_free_page, n)
      BY <2>2 DEF TakePages, InitInv, PagesInit
    <2>3. QED
      BY <2>1, <2>2
  <1>2. DOMAIN meta' = ArenaPages
    BY DEF TakePages, InitInv, PagesInit
  <1>3. next_free_page' = next_free_page + n /\ next_free_page \in Nat
    BY DEF TakePages, InitInv, PagesInit
  <1>4. \A p \in ArenaPages : p >= next_free_page' => p >= next_free_page
    BY <1>3, RegionsAssumption DEF ArenaPages
  <1>5. ASSUME NEW p \in ArenaPages, p >= next_free_page' PROVE meta'[p] = EmptyMeta
    BY <1>1, <1>4, <1>5 DEF InitInv, PagesInit
  <1>6. PagesInit'
    BY <1>2, <1>3, <1>5 DEF PagesInit, ArenaPages, EmptyMeta
  <1>7. QED
    BY <1>1, <1>6

LEMMA CarvePageStep ==
  ASSUME InitInv, NEW t \in Threads, NEW c, CarvePage(t, c), arena_init, UNCHANGED arena_init
  PROVE  /\ PagesInit'
         /\ \A p \in ArenaPages : meta[p].size_class # NO_CLASS => meta'[p] = meta[p]
  <1>1. next_free_page' = next_free_page + 1 /\ next_free_page \in Nat
    BY DEF CarvePage, InitInv, PagesInit
  <1>2. \A p \in ArenaPages : p # next_free_page => meta'[p] = meta[p]
    BY DEF CarvePage, InitInv, PagesInit
  <1>3. DOMAIN meta' = ArenaPages
    BY DEF CarvePage, InitInv, PagesInit
  <1>4. \A p \in ArenaPages : p >= next_free_page' => p >= next_free_page /\ p # next_free_page
    BY <1>1 DEF ArenaPages
  <1>5. ASSUME NEW p \in ArenaPages, p >= next_free_page' PROVE meta'[p] = EmptyMeta
    BY <1>2, <1>4, <1>5 DEF InitInv, PagesInit
  <1>6. PagesInit'
    BY <1>1, <1>3, <1>5 DEF PagesInit, ArenaPages, EmptyMeta
  <1>7. \A p \in ArenaPages : meta[p].size_class # NO_CLASS => p # next_free_page
    BY <1>1 DEF InitInv, PagesInit, EmptyMeta, ArenaPages
  <1>8. QED
    BY <1>2, <1>6, <1>7
-----------------------------------------------------------------------------
(* The part of InitOnce that is about a step. *)
Kept ==
  /\ arena # NULL => arena' = arena
  /\ tlsf # NULL => tlsf' = tlsf
  /\ \A p \in ArenaPages : meta[p].size_class # NO_CLASS => meta'[p] = meta[p]

(* While the lock is free or held by somebody else, a thread is not in the
   middle of ensure_init, or between the halves of a free under the lock. *)
LockedSteps == {"init_arena", "init_pool", "locked_store"}

LEMMA OneInitialises ==
  ASSUME InitInv, NEW t \in Threads, pc[t] \in LockedSteps
  PROVE  lock = t /\ lock # NULL
  BY RegionsAssumption DEF InitInv, ThreadsInit, ThreadInit, LockedSteps

(* With the lock free, an arena is a published one. *)
LEMMA ArenaPublished ==
  ASSUME InitInv, lock = NULL, arena # NULL
  PROVE  arena_init
  BY DEF InitInv, GlobalsInit

(* The application calls. *)
LEMMA CallStep ==
  ASSUME InitInv, NEW t \in Threads, Call(t)
  PROVE  InitInv' /\ Kept
  <1>1. UNCHANGED <<pageVars, globals>>
    BY DEF Call
  <1>2. PagesInit' /\ Kept
    BY <1>1, QuietPages DEF globals, pageVars, Kept
  <1>3. \A n : CallTyped([NoCall EXCEPT !.op = "malloc", !.size = n]) <=> n \in Nat
    BY DEF CallTyped, NoCall
  <1>4. \A n : MallocPart(n) \in FirstParts
    BY DEF MallocPart, FirstParts
  <1>5. Sizes \cup AlignedSizes \cup NewSizes \subseteq Nat
    BY ApiAssumption
  <1>6. ASSUME NEW n \in Sizes, MallocCall(t, n) PROVE ThreadsInit' /\ GlobalsInit'
    BY <1>1, <1>3, <1>4, <1>5, <1>6, EnterStep DEF MallocCall
  <1>7. ASSUME NEW n \in AlignedSizes, MemalignCall(t, n) PROVE ThreadsInit' /\ GlobalsInit'
    <2> DEFINE c == [NoCall EXCEPT !.op = "malloc", !.size = n]
    <2>1. MayGo(c, "huge")
      BY <1>3, <1>5 DEF MayGo, Parts
    <2>2. Moves(t, c, "huge")
      BY <1>7 DEF Moves, MemalignCall, Goto, InitInv, ThreadsInit
    <2>3. QED
      BY <1>1, <2>1, <2>2, QuietStep
  <1>8. ASSUME NEW b, FreeCall(t, b) PROVE ThreadsInit' /\ GlobalsInit'
    <2>1. CallTyped([NoCall EXCEPT !.op = "free", !.ptr = b]) /\ "free" \in FirstParts
      BY DEF CallTyped, NoCall, FirstParts
    <2>2. QED
      BY <1>1, <1>8, <2>1, EnterStep DEF FreeCall
  <1>9. ASSUME NEW b, UsableCall(t, b) PROVE ThreadsInit' /\ GlobalsInit'
    <2>1. CallTyped([NoCall EXCEPT !.op = "usable_size", !.ptr = b]) /\ "usable" \in FirstParts
      BY DEF CallTyped, NoCall, FirstParts
    <2>2. QED
      BY <1>1, <1>9, <2>1, EnterStep DEF UsableCall
  <1>10. ASSUME NEW b, NEW n \in NewSizes, ReallocCall(t, b, n) PROVE ThreadsInit' /\ GlobalsInit'
    <2>1. CallTyped([NoCall EXCEPT !.op = "realloc", !.ptr = b, !.size = n]) /\ "usable" \in FirstParts
      BY <1>5 DEF CallTyped, NoCall, FirstParts
    <2>2. QED
      BY <1>1, <1>10, <2>1, EnterStep DEF ReallocCall
  <1>11. ASSUME NEW b, HookedFreeCall(t, b) PROVE ThreadsInit' /\ GlobalsInit'
    <2>1. CallTyped([NoCall EXCEPT !.op = "hooked_free", !.ptr = b]) /\ "usable" \in FirstParts
      BY DEF CallTyped, NoCall, FirstParts
    <2>2. QED
      BY <1>1, <1>11, <2>1, EnterStep DEF HookedFreeCall
  <1>12. ASSUME NEW b, NEW n \in NewSizes, HookedReallocCall(t, b, n)
         PROVE  ThreadsInit' /\ GlobalsInit'
    <2>1. /\ CallTyped([NoCall EXCEPT !.op = "hooked_realloc", !.ptr = b, !.size = n])
          /\ "usable" \in FirstParts
      BY <1>5 DEF CallTyped, NoCall, FirstParts
    <2>2. QED
      BY <1>1, <1>12, <2>1, EnterStep DEF HookedReallocCall
  <1>13. ThreadsInit' /\ GlobalsInit'
    BY <1>6, <1>7, <1>8, <1>9, <1>10, <1>11, <1>12 DEF Call
  <1>14. QED
    BY <1>2, <1>13 DEF InitInv

(* A step that leaves the arena and its pages alone. *)
LEMMA QuietKept ==
  ASSUME InitInv, UNCHANGED <<pageVars, globals>>, ThreadsInit', GlobalsInit'
  PROVE  InitInv' /\ Kept
  BY QuietPages DEF InitInv, Kept, globals, pageVars

(* ensure_init, up to the publication of the TLS key. *)
LEMMA InitTlsStep ==
  ASSUME InitInv, NEW t \in Threads, InitTls(t)
  PROVE  InitInv' /\ Kept
  <1>1. PICK base \in Fresh(PAGES_PER_ARENA) :
           NewArena(base) /\ call' = [call EXCEPT ![t].base = base]
    BY DEF InitTls
  <1>2. base # NULL
    BY <1>1, RegionsAssumption DEF Fresh
  <1>3. /\ pc[t] = "init" /\ lock = NULL /\ ~arena_init
        /\ lock' = t /\ Goto(t, "init_arena")
        /\ UNCHANGED <<arena, tlsf, arena_init>>
    BY DEF InitTls, Locked
  <1>4. arena = NULL /\ tlsf = NULL /\ t # NULL
    BY <1>3, RegionsAssumption DEF InitInv, GlobalsInit
  <1>5. ThreadInit(t)'
    <2>1. pc'[t] = "init_arena" /\ call'[t] = [call[t] EXCEPT !.base = base]
      BY <1>1, <1>3 DEF Goto, InitInv, ThreadsInit
    <2>2. call'[t].base = base /\ CallTyped(call'[t])
      BY <2>1, CallFields DEF InitInv, ThreadsInit, ThreadInit, CallTyped
    <2>3. QED
      BY <1>2, <1>3, <1>4, <2>1, <2>2 DEF ThreadInit, CallTyped, Parts, LockedSteps, NoCall
  <1>6. ASSUME NEW u \in Threads, u # t PROVE ThreadInit(u)'
    <2>1. pc'[u] = pc[u] /\ call'[u] = call[u]
      BY <1>1, <1>3, <1>6 DEF Goto, InitInv, ThreadsInit
    <2>2. pc[u] \notin LockedSteps
      BY <1>3, OneInitialises
    <2>3. QED
      BY <1>3, <2>1, <2>2 DEF InitInv, ThreadsInit, ThreadInit, CallTyped, Parts, LockedSteps, NoCall
  <1>7. ThreadsInit'
    BY <1>1, <1>3, <1>5, <1>6 DEF ThreadsInit, Goto, InitInv
  <1>8. GlobalsInit'
    BY <1>3, <1>4 DEF GlobalsInit
  <1>9. PagesInit'
    BY <1>1, RegionsAssumption DEF PagesInit, NewArena, InitInv, ArenaPages, EmptyMeta
  <1>10. Kept
    BY <1>3, <1>4 DEF Kept, InitInv, PagesInit, EmptyMeta
  <1>11. QED
    BY <1>7, <1>8, <1>9, <1>10 DEF InitInv

(* The arena is published. *)
LEMMA InitArenaStep ==
  ASSUME InitInv, NEW t \in Threads, InitArena(t)
  PROVE  InitInv' /\ Kept
  <1>1. /\ pc[t] = "init_arena" /\ Goto(t, "init_pool")
        /\ arena' = call[t].base
        /\ UNCHANGED <<pageVars, call, tlsf, lock, arena_init>>
    BY DEF InitArena
  <1>2. lock = t /\ t # NULL /\ ~arena_init /\ tlsf = NULL /\ arena = NULL /\ arena' # NULL
    BY <1>1, OneInitialises DEF LockedSteps, InitInv, ThreadsInit, ThreadInit
  <1>3. DOMAIN pc' = Threads /\ DOMAIN call' = Threads /\ pc'[t] = "init_pool"
    BY <1>1 DEF Goto, InitInv, ThreadsInit
  <1>4. ThreadInit(t)'
    BY <1>1, <1>2, <1>3 DEF InitInv, ThreadsInit, ThreadInit, CallTyped, Parts, NoCall
  <1>5. ASSUME NEW u \in Threads, u # t PROVE ThreadInit(u)'
    <2>1. pc'[u] = pc[u] /\ call'[u] = call[u]
      BY <1>1, <1>5 DEF Goto, InitInv, ThreadsInit
    <2>2. pc[u] \notin LockedSteps
      BY <1>2, <1>5, OneInitialises
    <2>3. QED
      BY <1>2, <2>1, <2>2 DEF InitInv, ThreadsInit, ThreadInit, CallTyped, Parts, LockedSteps, NoCall
  <1>6. GlobalsInit'
    BY <1>1, <1>2 DEF GlobalsInit
  <1>7. PagesInit'
    BY <1>1, QuietPages
  <1>8. Kept
    BY <1>1, <1>2 DEF Kept, pageVars
  <1>9. QED
    BY <1>3, <1>4, <1>5, <1>6, <1>7, <1>8 DEF InitInv, ThreadsInit

(* The pool is made, ARENA_INIT is stored and the lock released. *)
LEMMA InitPoolStep ==
  ASSUME InitInv, NEW t \in Threads, InitPool(t)
  PROVE  InitInv' /\ Kept
  <1>1. /\ pc[t] = "init_pool" /\ TakePages(POOL_PAGES) /\ Resume(t, FALSE)
        /\ arena_init' /\ lock' = NULL /\ arena' = arena
    BY DEF InitPool
  <1>2. lock = t /\ tlsf = NULL /\ arena # NULL
    BY <1>1, OneInitialises DEF LockedSteps, InitInv, ThreadsInit, ThreadInit
  <1>3. /\ pc'[t] = call[t].then
        /\ call'[t] = [call[t] EXCEPT !.then = "idle", !.base = NULL, !.refused = FALSE]
        /\ DOMAIN pc' = Threads /\ DOMAIN call' = Threads
    BY <1>1 DEF Resume, Goto, InitInv, ThreadsInit
  <1>4. ThreadInit(t)'
    <2>1. CallTyped(call'[t])
      BY <1>3, CallFields DEF CallTyped, InitInv, ThreadsInit, ThreadInit
    <2>2. pc'[t] \in FirstParts \cup {"idle"}
      BY <1>3 DEF InitInv, ThreadsInit, ThreadInit, CallTyped
    <2>3. QED
      BY <1>1, <1>2, <2>1, <2>2 DEF ThreadInit, CallTyped, Parts, FirstParts, NoCall
  <1>5. ASSUME NEW u \in Threads, u # t PROVE ThreadInit(u)'
    <2>1. pc'[u] = pc[u] /\ call'[u] = call[u]
      BY <1>1, <1>5 DEF Resume, Goto, InitInv, ThreadsInit
    <2>2. pc[u] \notin LockedSteps
      BY <1>2, <1>5, OneInitialises
    <2>3. QED
      BY <1>1, <1>2, <2>1, <2>2 DEF InitInv, ThreadsInit, ThreadInit, CallTyped, Parts, LockedSteps, NoCall
  <1>6. GlobalsInit'
    BY <1>1, <1>2 DEF GlobalsInit
  <1>7. PagesInit' /\ \A p \in ArenaPages : meta[p].size_class # NO_CLASS => meta'[p] = meta[p]
    BY <1>1, TakePagesStep, RegionsAssumption
  <1>8. QED
    BY <1>1, <1>2, <1>3, <1>4, <1>5, <1>6, <1>7 DEF InitInv, ThreadsInit, Kept

LEMMA EnsureInitStep ==
  ASSUME InitInv, NEW t \in Threads, EnsureInit(t)
  PROVE  InitInv' /\ Kept
  <1>1. CASE InitDone(t)
    <2>1. arena # NULL
      BY <1>1 DEF InitDone, InitInv, GlobalsInit
    <2>2. QED
      BY <1>1, <2>1, ResumeStep, QuietKept DEF InitDone
  <1>2. CASE InitRefused(t)
    BY <1>2, ResumeStep, QuietKept DEF InitRefused
  <1>3. QED
    BY <1>1, <1>2, InitTlsStep, InitArenaStep, InitPoolStep DEF EnsureInit

(* The thread gets a cache, or does without one. *)
LEMMA CacheStep ==
  ASSUME InitInv, NEW t \in Threads, CreateCache(t) \/ NoCache(t)
  PROVE  InitInv' /\ Kept
  <1>1. CASE CreateCache(t)
    <2>1. ThreadsInit' /\ GlobalsInit'
      BY <1>1 DEF CreateCache, globals, InitInv, ThreadsInit, ThreadInit, GlobalsInit, CallTyped,
                  Parts, NoCall
    <2>2. QED
      BY <1>1, <2>1, QuietKept DEF CreateCache
  <1>2. CASE NoCache(t)
    <2>1. arena = NULL => call[t].refused
      BY <1>2 DEF NoCache, InitInv, ThreadsInit, ThreadInit, Parts
    <2>2. {"tlsf", "free_locked"} \subseteq Parts
      BY DEF Parts
    <2>3. QED
      BY <1>2, <2>1, <2>2, GotoStep, QuietKept DEF NoCache
  <1>3. QED
    BY <1>1, <1>2

(* malloc's sections that leave the arena's pages alone. *)
LEMMA QuietMallocStep ==
  ASSUME InitInv, NEW t \in Threads,
         \/ HugeMalloc(t) \/ HugeRefused(t) \/ HasRemote(t) \/ Drain(t)
         \/ PopLoad(t) \/ PopStore(t) \/ NoPage(t) \/ TlsfMalloc(t) \/ BumpRefused(t)
  PROVE  InitInv' /\ Kept
  <1> {"slot", "slot_store", "drain", "tlsf"} \subseteq Parts
    BY DEF Parts
  <1>1. CASE \/ HugeMalloc(t) \/ PopStore(t) \/ TlsfMalloc(t)
    <2>1. UNCHANGED <<pageVars, globals>> /\ \E b : Got(t, b)
      BY <1>1 DEF HugeMalloc, PopStore, TlsfMalloc
    <2>2. QED
      BY <2>1, GotStep, QuietKept
  <1>2. CASE HugeRefused(t) \/ BumpRefused(t)
    BY <1>2, ReturnStep, QuietKept DEF HugeRefused, BumpRefused, GotNull
  <1>3. CASE HasRemote(t) \/ Drain(t)
    <2>1. arena = NULL => call[t].refused
      BY <1>3 DEF HasRemote, Drain, InitInv, ThreadsInit, ThreadInit, Parts
    <2>2. QED
      BY <1>3, <2>1, GotoStep, QuietKept DEF HasRemote, Drain
  <1>4. CASE NoPage(t)
    BY <1>4, GotoStep, QuietKept DEF NoPage
  <1>5. CASE PopLoad(t)
    <2>1. arena = NULL => call[t].refused
      BY <1>5 DEF PopLoad, InitInv, ThreadsInit, ThreadInit, Parts
    <2>2. QED
      BY <1>5, <2>1, LoadStep, QuietKept DEF PopLoad
  <1>6. QED
    BY <1>1, <1>2, <1>3, <1>4, <1>5

(* malloc's sections that take pages. *)
LEMMA NewPageStep ==
  ASSUME InitInv, NEW t \in Threads, NewPage(t)
  PROVE  InitInv' /\ Kept
  <1>1. lock = NULL /\ arena # NULL /\ CarvePage(t, Class(t)) /\ UNCHANGED globals
    BY DEF NewPage, Locked
  <1>2. arena_init /\ UNCHANGED <<arena_init, arena, tlsf>>
    BY <1>1, ArenaPublished DEF globals
  <1>3. ThreadsInit' /\ GlobalsInit'
    BY <1>1, GotStep DEF NewPage
  <1>4. PagesInit' /\ \A p \in ArenaPages : meta[p].size_class # NO_CLASS => meta'[p] = meta[p]
    BY <1>1, <1>2, CarvePageStep
  <1>5. QED
    BY <1>2, <1>3, <1>4 DEF InitInv, Kept

LEMMA BumpMallocStep ==
  ASSUME InitInv, NEW t \in Threads, BumpMalloc(t)
  PROVE  InitInv' /\ Kept
  <1> DEFINE n == PagesFor(call[t].size)
  <1>1. lock = NULL /\ arena # NULL /\ TakePages(n) /\ UNCHANGED globals
    BY DEF BumpMalloc, Locked
  <1>2. arena_init /\ UNCHANGED <<arena_init, arena, tlsf>>
    BY <1>1, ArenaPublished DEF globals
  <1>3. ThreadsInit' /\ GlobalsInit'
    BY <1>1, GotStep DEF BumpMalloc
  <1>4. n \in Nat
    <2>1. call[t].size \in Nat
      BY DEF InitInv, ThreadsInit, ThreadInit, CallTyped
    <2>2. PAGE_SIZE \in Nat /\ PAGE_SIZE >= 1
      BY RegionsAssumption
    <2>3. QED
      BY <2>1, <2>2 DEF PagesFor
  <1>5. PagesInit' /\ \A p \in ArenaPages : meta[p].size_class # NO_CLASS => meta'[p] = meta[p]
    BY <1>1, <1>2, <1>4, TakePagesStep
  <1>6. QED
    BY <1>2, <1>3, <1>5 DEF InitInv, Kept

(* usable_size, alone, in realloc or in a hook. *)
LEMMA UsableSizeStep ==
  ASSUME InitInv, NEW t \in Threads, UsableSize(t)
  PROVE  InitInv' /\ Kept
  <1>1. UNCHANGED <<pageVars, globals>>
    BY DEF UsableSize
  <1>2. CallTyped(call[t])
    BY DEF InitInv, ThreadsInit, ThreadInit
  <1>3. CASE UsableReturns(t) \/ UsableToOriginal(t)
    BY <1>1, <1>3, ReturnStep, QuietKept DEF UsableReturns, UsableToOriginal
  <1>4. CASE UsableToMalloc(t)
    <2>1. CallTyped([call[t] EXCEPT !.usable = usable_size(Ptr(t))])
      BY <1>2, CallFields DEF CallTyped
    <2>2. MallocPart(call[t].size) \in FirstParts
      BY DEF MallocPart, FirstParts
    <2>3. QED
      BY <1>1, <1>4, <2>1, <2>2, EnterStep, QuietKept DEF UsableToMalloc
  <1>5. CASE UsableToHook(t)
    <2>1. /\ CallTyped([call[t] EXCEPT !.op = "free"])
          /\ CallTyped([call[t] EXCEPT !.op = "realloc"])
      BY <1>2, CallFields DEF CallTyped
    <2>2. {"free", "usable"} \subseteq FirstParts
      BY DEF FirstParts
    <2>3. ThreadsInit' /\ GlobalsInit'
      BY <1>1, <1>5, <2>1, <2>2, EnterStep DEF UsableToHook
    <2>4. QED
      BY <1>1, <2>3, QuietKept
  <1>6. QED
    BY <1>3, <1>4, <1>5 DEF UsableSize

(* free, without the lock or in one step under it, leaves the arena's pages
   alone. *)
LEMMA QuietFreeStep ==
  ASSUME InitInv, NEW t \in Threads,
         \/ FreeLoad(t) \/ FreeStore(t) \/ FreeRemote(t)
         \/ FreeTlsf(t) \/ FreeHuge(t) \/ FreeBump(t)
  PROVE  InitInv' /\ Kept
  <1>1. CASE FreeLoad(t)
    <2>1. "free_store" \in Parts
      BY DEF Parts
    <2>2. QED
      BY <1>1, <2>1, LoadStep, QuietKept DEF FreeLoad
  <1>2. CASE ~FreeLoad(t)
    <2>1. Return(t) /\ UNCHANGED <<pageVars, globals>>
      BY <1>2 DEF FreeStore, FreeRemote, FreeTlsf, FreeHuge, FreeBump, FreeLocked, Freed
    <2>2. QED
      BY <2>1, ReturnStep, QuietKept
  <1>3. QED
    BY <1>1, <1>2

(* free under the lock, from the load to the store: the lock goes to the
   thread and back. *)
LEMMA LockedLoadStep ==
  ASSUME InitInv, NEW t \in Threads, LockedLoad(t)
  PROVE  InitInv' /\ Kept
  <1>1. /\ lock = NULL /\ arena # NULL /\ lock' = t
        /\ UNCHANGED <<pageVars, arena, tlsf, arena_init>>
    BY DEF LockedLoad, Locked
  <1>2. arena_init
    BY <1>1, ArenaPublished
  <1>3. /\ DOMAIN pc' = Threads /\ DOMAIN call' = Threads /\ pc'[t] = "locked_store"
        /\ call'[t] = [call[t] EXCEPT !.seen = FreeIn(Ptr(t))]
        /\ \A u \in Threads \ {t} : pc'[u] = pc[u] /\ call'[u] = call[u]
    BY DEF LockedLoad, LoadList, Goto, InitInv, ThreadsInit
  <1>4. CallTyped(call'[t])
    BY <1>3, CallFields DEF InitInv, ThreadsInit, ThreadInit, CallTyped
  <1>5. ThreadInit(t)'
    BY <1>1, <1>2, <1>3, <1>4 DEF ThreadInit, CallTyped, NoCall
  <1>6. ASSUME NEW u \in Threads, u # t PROVE ThreadInit(u)'
    <2>1. pc[u] \notin LockedSteps
      BY <1>1, OneInitialises
    <2>2. QED
      BY <1>1, <1>3, <1>6, <2>1
         DEF InitInv, ThreadsInit, ThreadInit, CallTyped, LockedSteps, NoCall
  <1>7. GlobalsInit'
    BY <1>1, <1>2, RegionsAssumption DEF GlobalsInit, InitInv
  <1>8. PagesInit' /\ Kept
    BY <1>1, QuietPages DEF pageVars, Kept
  <1>9. QED
    BY <1>3, <1>5, <1>6, <1>7, <1>8 DEF InitInv, ThreadsInit

LEMMA LockedStoreStep ==
  ASSUME InitInv, NEW t \in Threads, LockedStore(t)
  PROVE  InitInv' /\ Kept
  <1>1. /\ pc[t] = "locked_store" /\ lock' = NULL
        /\ UNCHANGED <<pageVars, arena, tlsf, arena_init>>
    BY DEF LockedStore
  <1>2. lock = t /\ arena_init
    BY <1>1 DEF InitInv, ThreadsInit, ThreadInit
  <1>3. /\ DOMAIN pc' = Threads /\ DOMAIN call' = Threads /\ pc'[t] = "idle"
        /\ call'[t] = NoCall
        /\ \A u \in Threads \ {t} : pc'[u] = pc[u] /\ call'[u] = call[u]
    BY DEF LockedStore, Freed, Return, Goto, InitInv, ThreadsInit
  <1>4. ThreadInit(t)'
    BY <1>3 DEF ThreadInit, CallTyped, Parts, NoCall
  <1>5. ASSUME NEW u \in Threads, u # t PROVE ThreadInit(u)'
    <2>1. pc[u] \notin LockedSteps
      BY <1>2, <1>5, OneInitialises
    <2>2. QED
      BY <1>1, <1>3, <1>5, <2>1
         DEF InitInv, ThreadsInit, ThreadInit, CallTyped, LockedSteps, NoCall
  <1>6. GlobalsInit'
    BY <1>1, <1>2 DEF GlobalsInit, InitInv
  <1>7. PagesInit' /\ Kept
    BY <1>1, QuietPages DEF pageVars, Kept
  <1>8. QED
    BY <1>3, <1>4, <1>5, <1>6, <1>7 DEF InitInv, ThreadsInit

LEMMA FreeStep ==
  ASSUME InitInv, NEW t \in Threads, Free(t)
  PROVE  InitInv' /\ Kept
  BY QuietFreeStep, LockedLoadStep, LockedStoreStep DEF Free

(* A null arena ends the process: the thread that met it was refused one. *)
LEMMA NullArenaStep ==
  ASSUME InitInv, NEW t \in Threads, NullArena(t)
  PROVE  InitInv' /\ Kept
  <1>1. /\ pc[t] \in Parts \ {"huge"} /\ arena = NULL
        /\ pc' = [u \in Threads |-> IF u = t THEN "crashed" ELSE "ended"]
        /\ UNCHANGED <<pageVars, globals, call>>
    BY DEF NullArena, Parts
  <1>2. call[t].refused
    BY <1>1 DEF InitInv, ThreadsInit, ThreadInit
  <1>3. \A u \in Threads : ThreadInit(u)'
    BY <1>1, <1>2 DEF InitInv, ThreadsInit, ThreadInit, CallTyped, Parts, LockedSteps, NoCall
  <1>4. ThreadsInit' /\ GlobalsInit'
    BY <1>1, <1>3 DEF InitInv, ThreadsInit, GlobalsInit, globals
  <1>5. QED
    BY <1>1, <1>4, QuietKept
-----------------------------------------------------------------------------
LEMMA InitHolds == Init => InitInv
  <1> SUFFICES ASSUME Init PROVE InitInv
    OBVIOUS
  <1>1. ThreadsInit
    BY DEF Init, ThreadsInit, ThreadInit, CallTyped, NoCall, Parts
  <1>2. GlobalsInit
    BY DEF Init, RegionsInit, GlobalsInit
  <1>3. PagesInit
    BY DEF Init, RegionsInit, PagesInit, ArenaPages
  <1>4. QED
    BY <1>1, <1>2, <1>3 DEF InitInv

LEMMA StepHolds == InitInv /\ [Next]_vars => InitInv' /\ [Kept]_vars
  <1> SUFFICES ASSUME InitInv, [Next]_vars PROVE InitInv' /\ [Kept]_vars
    OBVIOUS
  <1>1. CASE Next
    <2>1. PICK t \in Threads : Call(t) \/ Step(t)
      BY <1>1 DEF Next
    <2>2. QED
      BY <2>1, CallStep, EnsureInitStep, CacheStep, QuietMallocStep, NewPageStep, BumpMallocStep,
         UsableSizeStep, FreeStep, NullArenaStep DEF Step, Malloc
  <1>2. CASE UNCHANGED vars
    <2>1. UNCHANGED <<pageVars, globals, pc, call>>
      BY <1>2 DEF vars
    <2>2. ThreadsInit' /\ GlobalsInit'
      BY <2>1 DEF globals, InitInv, ThreadsInit, ThreadInit, GlobalsInit, CallTyped, Parts, NoCall
    <2>3. QED
      BY <1>2, <2>1, <2>2, QuietKept
  <1>3. QED
    BY <1>1, <1>2

(* ensure_init: what its steps establish, for every number of threads. *)
THEOREM InitInvariance == Spec => []InitInv
  BY InitHolds, StepHolds, PTL DEF Spec

(* api.rs: "Returns null if allocation fails".  It does, or the process ends,
   and then it was the arena that the thread itself could not get. *)
THEOREM NullArenaExplained == Spec => []NullArenaOnlyIfRefused
  <1>1. InitInv => NullArenaOnlyIfRefused
    BY DEF InitInv, ThreadsInit, ThreadInit, NullArenaOnlyIfRefused
  <1>2. QED
    BY <1>1, InitInvariance, PTL

(* api.rs: "Raw pointer to the global arena (initialized once)".  No second
   ensure_init replaces the arena or its pool, and no page changes hands. *)
THEOREM InitialisedOnce == Spec => InitOnce
  <1>1. InitInv /\ [Next]_vars =>
          [/\ arena # NULL => arena' = arena
           /\ tlsf # NULL => tlsf' = tlsf
           /\ \A p \in ArenaPages : meta[p].size_class # NO_CLASS => meta'[p] = meta[p]]_vars
    BY StepHolds DEF Kept
  <1>2. QED
    BY <1>1, InitInvariance, PTL DEF Spec, InitOnce
-----------------------------------------------------------------------------
(* Arithmetic of pages, slots and sizes. *)
LEMMA PageSize == PAGE_SIZE \in Int /\ PAGE_SIZE >= 1
  BY RegionsAssumption

LEMMA AddrInt == \A p \in Int : Addr(p) \in Int
  BY PageSize DEF Addr

LEMMA AddrIs ==
  ASSUME NEW p \in Int, NEW q \in Int
  PROVE  /\ Addr(p) \in Int
         /\ Addr(p + q) = Addr(p) + Addr(q)
         /\ Addr(p - q) = Addr(p) - Addr(q)
         /\ Addr(0) = 0 /\ Addr(1) = PAGE_SIZE
  BY PageSize DEF Addr

LEMMA AddrNext == \A p \in Int : Addr(p + 1) = Addr(p) + PAGE_SIZE
  BY PageSize DEF Addr

LEMMA AddrOrder ==
  ASSUME NEW p \in Int, NEW q \in Int
  PROVE  /\ p <= q <=> Addr(p) <= Addr(q)
         /\ p < q <=> Addr(p) < Addr(q)
         /\ p < q => Addr(p) + PAGE_SIZE <= Addr(q)
  <1> DEFINE d == q - p
  <1>1. q * PAGE_SIZE - p * PAGE_SIZE = d * PAGE_SIZE
    BY PageSize
  <1>2. d >= 0 => d * PAGE_SIZE >= 0
    BY PageSize
  <1>3. d >= 1 => d * PAGE_SIZE >= PAGE_SIZE
    BY PageSize
  <1>4. d <= -1 => d * PAGE_SIZE <= -1
    BY PageSize
  <1>5. Addr(p) \in Int /\ Addr(q) \in Int /\ Addr(q) - Addr(p) = d * PAGE_SIZE /\ d * PAGE_SIZE \in Int
    BY <1>1, PageSize DEF Addr
  <1> HIDE DEF d
  <1>6. d \in Int /\ (p <= q <=> d >= 0) /\ (p < q <=> d >= 1) /\ (q < p <=> d <= -1) /\ (q <= p <=> d <= 0)
    BY DEF d
  <1>7. d = 0 => d * PAGE_SIZE = 0
    BY PageSize
  <1> QED
    BY <1>2, <1>3, <1>4, <1>5, <1>6, <1>7, PageSize

(* An address is in the page its quotient names. *)
LEMMA PageOfIs ==
  ASSUME NEW a \in Int, NEW p \in Int
  PROVE  PageOf(a) \in Int /\ (PageOf(a) = p <=> Addr(p) <= a /\ a < Addr(p + 1))
  <1>1. PageOf(a) \in Int /\ PageOf(a) * PAGE_SIZE <= a /\ a < PageOf(a) * PAGE_SIZE + PAGE_SIZE
    BY PageSize DEF PageOf
  <1>2. /\ Addr(PageOf(a)) <= a /\ a < Addr(PageOf(a)) + PAGE_SIZE
        /\ Addr(PageOf(a) + 1) = Addr(PageOf(a)) + PAGE_SIZE
    BY <1>1, AddrIs DEF Addr
  <1>3. ASSUME Addr(p) <= a, a < Addr(p + 1) PROVE PageOf(a) = p
    <2> DEFINE q == PageOf(a)
    <2>1. q \in Int /\ Addr(q) <= a /\ a < Addr(q + 1)
      BY <1>1, <1>2
    <2> HIDE DEF q
    <2>2. /\ q + 1 <= p <=> Addr(q + 1) <= Addr(p)
          /\ p + 1 <= q <=> Addr(p + 1) <= Addr(q)
      BY <2>1, AddrOrder, q + 1 \in Int, p + 1 \in Int
    <2>3. q = p
      BY <1>3, <2>1, <2>2, AddrInt, q + 1 \in Int, p + 1 \in Int
    <2> QED
      BY <2>3 DEF q
  <1>4. QED
    BY <1>1, <1>2, <1>3

LEMMA PageOfRange ==
  ASSUME NEW a \in Int, NEW p \in Int, NEW q \in Int, Addr(p) <= a, a < Addr(q)
  PROVE  PageOf(a) \in Int /\ p <= PageOf(a) /\ PageOf(a) < q
  <1> DEFINE r == PageOf(a)
  <1>1. r \in Int /\ Addr(r) <= a /\ a < Addr(r + 1)
    BY PageOfIs
  <1> HIDE DEF r
  <1>2. /\ r + 1 <= p <=> Addr(r + 1) <= Addr(p)
        /\ q <= r <=> Addr(q) <= Addr(r)
    BY <1>1, AddrOrder, r + 1 \in Int
  <1>3. p <= r /\ r < q
    BY <1>1, <1>2, AddrInt, r + 1 \in Int
  <1> QED
    BY <1>1, <1>3 DEF r

(* Whole pages for n units. *)
LEMMA PagesForIs ==
  ASSUME NEW n \in Nat
  PROVE  /\ PagesFor(n) \in Nat /\ n <= Addr(PagesFor(n))
         /\ n > 0 => PagesFor(n) >= 1
         /\ HugePages(n) = PagesFor(n) + 1
  <1> DEFINE m == PagesFor(n)
  <1>1. m \in Int /\ m * PAGE_SIZE <= n + PAGE_SIZE - 1 /\ n + PAGE_SIZE - 1 < m * PAGE_SIZE + PAGE_SIZE
    BY PageSize DEF PagesFor
  <1>2. m >= 0
    BY PageSize DEF PagesFor
  <1>3. n > 0 => m >= 1
    BY PageSize DEF PagesFor
  <1>4. HugePages(n) = m + 1
    BY PageSize DEF PagesFor, HugePages
  <1>5. n <= Addr(m)
    BY <1>1, PageSize DEF Addr
  <1> QED
    BY <1>1, <1>2, <1>3, <1>4, <1>5

(* Slots of a page lie in it, and apart. *)
LEMMA SlotInPage ==
  ASSUME NEW c \in 1..PAGE_SIZE, NEW p \in Int, arena + p \in Int, NEW s \in SlotsOfPage(p, c)
  PROVE  s \in Int /\ Addr(arena + p) <= s /\ s + c <= Addr(arena + p + 1)
  <1> DEFINE m == PAGE_SIZE \div c
             x == arena + p
  <1>1. m \in Int /\ m * c <= PAGE_SIZE
    BY PageSize
  <1>2. x \in Int /\ Addr(x) \in Int /\ Addr(x + 1) = Addr(x) + PAGE_SIZE
    BY AddrInt, AddrNext
  <1>3. PICK i \in 0..(m - 1) : s = Addr(x) + i * c
    BY DEF SlotsOfPage
  <1> HIDE DEF m, x
  <1>4. i \in Int /\ 0 <= i /\ i + 1 <= m
    BY <1>1, <1>3
  <1>5. (i + 1) * c <= m * c /\ (i + 1) * c = i * c + c /\ i * c >= 0 /\ i * c \in Int
    BY <1>1, <1>4
  <1>6. s \in Int /\ Addr(x) <= s /\ s + c <= Addr(x + 1)
    <2>1. m * c \in Int
      BY <1>1
    <2> QED
      BY <1>1, <1>2, <1>3, <1>5, <2>1, PageSize
  <1> QED
    BY <1>6 DEF x

LEMMA SlotsApart ==
  ASSUME NEW c \in 1..PAGE_SIZE, NEW p \in Int, arena + p \in Int,
         NEW s \in SlotsOfPage(p, c), NEW r \in SlotsOfPage(p, c), s # r
  PROVE  s + c <= r \/ r + c <= s
  <1> DEFINE m == PAGE_SIZE \div c - 1
             x == Addr(arena + p)
  <1>1. x \in Int /\ m \in Int
    BY AddrInt, PageSize
  <1>2. \E k \in 0..m : s = x + k * c
    BY DEF SlotsOfPage
  <1>3. \E k \in 0..m : r = x + k * c
    BY DEF SlotsOfPage
  <1> HIDE DEF m, x
  <1>9. PICK i \in Int : s = x + i * c
    BY <1>1, <1>2
  <1>10. PICK j \in Int : r = x + j * c
    BY <1>1, <1>3
  <1>4. ASSUME NEW k \in Int, NEW l \in Int, k < l PROVE k * c + c <= l * c
    <2> DEFINE d == l - k
    <2>1. l * c = k * c + d * c /\ d >= 1 /\ d \in Int
      BY <1>4
    <2> HIDE DEF d
    <2>2. d * c >= c /\ d * c \in Int /\ k * c \in Int
      BY <2>1, PageSize
    <2> QED
      BY <2>1, <2>2, PageSize
  <1>5. i # j
    BY <1>9, <1>10
  <1>6. i * c \in Int /\ j * c \in Int
    OBVIOUS
  <1>7. i * c + c <= j * c \/ j * c + c <= i * c
    BY <1>4, <1>5
  <1>8. c \in Int
    OBVIOUS
  <1> QED
    BY <1>1, <1>9, <1>10, <1>6, <1>7, <1>8

LEMMA FirstSlot ==
  ASSUME NEW c \in 1..PAGE_SIZE, NEW p \in Int, arena + p \in Int
  PROVE  Addr(arena + p) \in SlotsOfPage(p, c)
  <1>1. PAGE_SIZE \div c \in Int /\ PAGE_SIZE \div c >= 1
    BY PageSize
  <1>2. 0 \in 0..(PAGE_SIZE \div c - 1) /\ Addr(arena + p) = Addr(arena + p) + 0 * c
    BY <1>1, AddrInt
  <1> QED
    BY <1>2 DEF SlotsOfPage

(* Rows of pages without a page in common. *)
LEMMA SpansApart ==
  ASSUME NEW p \in Int, NEW n \in Int, NEW q \in Int, NEW m \in Int, n >= 1, m >= 1,
         Span(p, n) \cap Span(q, m) = {}
  PROVE  p + n <= q \/ q + m <= p
  <1>1. p \in Span(p, n) /\ q \in Span(q, m)
    BY DEF Span
  <1>2. p \notin Span(q, m) /\ q \notin Span(p, n)
    BY <1>1
  <1> QED
    BY <1>2 DEF Span

(* n units from a on lie in the pages from p to before q. *)
Within(a, n, p, q) == Addr(p) <= a /\ a + n <= Addr(q)

LEMMA WithinApart ==
  ASSUME NEW a \in Int, NEW n \in Int, NEW b \in Int, NEW m \in Int,
         NEW p \in Int, NEW q \in Int, NEW r \in Int, NEW s \in Int,
         Within(a, n, p, q), Within(b, m, r, s), q <= r \/ s <= p
  PROVE  a + n <= b \/ b + m <= a
  <1>1. Addr(q) <= Addr(r) \/ Addr(s) <= Addr(p)
    BY AddrOrder
  <1> QED
    BY <1>1, AddrInt DEF Within

LEMMA WithinPages ==
  ASSUME NEW a \in Int, NEW n \in Int, NEW p \in Int, NEW q \in Int, Within(a, n, p, q),
         NEW x \in Span(a, n)
  PROVE  x \in Int /\ PageOf(x) \in Int /\ p <= PageOf(x) /\ PageOf(x) < q
  <1>1. x \in Int /\ Addr(p) <= x /\ x < Addr(q)
    BY AddrInt DEF Within, Span
  <1> QED
    BY <1>1, PageOfRange
-----------------------------------------------------------------------------
(* Where the parts of memory lie. *)
LEMMA Geometry ==
  /\ META_PAGES \in Nat /\ META_PAGES >= 1
  /\ POOL_PAGES \in Nat /\ POOL_PAGES >= 1
  /\ PAGES_PER_ARENA \in Nat /\ META_PAGES + POOL_PAGES <= PAGES_PER_ARENA
  /\ Bases \subseteq Nat /\ Bases \subseteq OsPages /\ OsPages \subseteq Nat \ {0}
  /\ NULL \notin Bases /\ NULL \notin Int /\ NULL \notin Threads
  /\ ArenaPages \subseteq Int
  /\ Classes \subseteq 1..PAGE_SIZE /\ NO_CLASS \notin Classes
  <1>1. Bases \subseteq OsPages /\ OsPages \subseteq Nat \ {0} /\ NULL \notin Int /\ NULL \notin Threads
    BY RegionsAssumption
  <1>2. Bases \subseteq Nat /\ NULL \notin Bases
    <2>1. ASSUME NEW b \in Bases PROVE b \in Nat
      BY <1>1
    <2>2. NULL \notin Nat
      BY <1>1
    <2> QED
      BY <2>1, <2>2
  <1>3. /\ META_PAGES \in Nat /\ META_PAGES >= 1
        /\ POOL_PAGES \in Nat /\ POOL_PAGES >= 1
        /\ PAGES_PER_ARENA \in Nat /\ META_PAGES + POOL_PAGES <= PAGES_PER_ARENA
        /\ Classes \subseteq 1..PAGE_SIZE /\ NO_CLASS \notin Classes
    BY RegionsAssumption
  <1>4. ArenaPages \subseteq Int
    BY <1>3 DEF ArenaPages
  <1> QED
    BY <1>1, <1>2, <1>3, <1>4

LEMMA ArenaIs ==
  ASSUME PagesFit, arena # NULL
  PROVE  arena \in Bases /\ arena \in Nat /\ Reserved = {arena}
  BY Geometry DEF PagesFit, Reserved

LEMMA IndexIs ==
  ASSUME arena \in Int, NEW q \in Int, META_PAGES <= q, q < PAGES_PER_ARENA,
         NEW a \in Int, Addr(arena + q) <= a, a < Addr(arena + q + 1)
  PROVE  contains(a) /\ ptr_to_page_index(a) = q
  <1>1. Addr(arena) <= Addr(arena + META_PAGES) /\ Addr(arena + META_PAGES) <= Addr(arena + q)
    BY Geometry, AddrOrder
  <1>2. Addr(arena + q + 1) <= Addr(arena + PAGES_PER_ARENA)
    BY Geometry, AddrOrder
  <1>3. Addr(arena) <= a /\ Addr(arena + META_PAGES) <= a /\ a < Addr(arena + PAGES_PER_ARENA)
    BY <1>1, <1>2, Geometry, AddrInt
  <1>4. PageOf(a) = arena + q
    BY PageOfIs
  <1> QED
    BY <1>3, <1>4 DEF contains, ptr_to_page_index

(* A slot of a slab page. *)
LEMMA SlotWhere ==
  ASSUME PagesFit, NEW p \in SlabPages, NEW s \in SlotsOfPage(p, meta[p].size_class)
  PROVE  /\ meta[p].size_class \in 1..PAGE_SIZE
         /\ p \in DataPages /\ p \in Int /\ p < next_free_page /\ arena \in Nat /\ tlsf # NULL
         /\ s \in Nat /\ Within(s, meta[p].size_class, arena + p, arena + p + 1)
         /\ ptr_to_page_index(s) = p /\ RegionOf(s) = "slab"
  <1> DEFINE c == meta[p].size_class
  <1>1. c \in 1..PAGE_SIZE /\ c # NO_CLASS
    <2>1. p \in ArenaPages /\ c # NO_CLASS
      BY DEF SlabPages
    <2>2. meta[p] \in [size_class : Classes, owner_id : Threads]
      BY <2>1 DEF PagesFit, EmptyMeta
    <2> QED
      BY <2>1, <2>2, Geometry
  <1>2. tlsf # NULL /\ arena # NULL /\ arena \in Nat
    BY ArenaIs DEF PagesFit
  <1>3. p \in DataPages /\ p \in Int /\ p < next_free_page /\ META_PAGES <= p /\ p < PAGES_PER_ARENA
    BY Geometry DEF PagesFit, DataPages
  <1>4. s \in Int /\ Addr(arena + p) <= s /\ s + c <= Addr(arena + p + 1)
    BY <1>1, <1>2, <1>3, SlotInPage
  <1>5. s < Addr(arena + p + 1) /\ Addr(0) <= Addr(arena + p) /\ Addr(0) = 0
    <2>1. c \in Int /\ c >= 1 /\ arena + p \in Int /\ arena + p >= 0
      BY <1>1, <1>2, <1>3, Geometry, PageSize
    <2>2. Addr(arena + p + 1) \in Int
      BY <2>1, AddrInt
    <2>3. Addr(0) <= Addr(arena + p) /\ Addr(0) = 0
      BY <2>1, AddrOrder, AddrIs
    <2> QED
      BY <1>4, <2>1, <2>2, <2>3
  <1>6. contains(s) /\ ptr_to_page_index(s) = p
    BY <1>2, <1>3, <1>4, <1>5, IndexIs
  <1>7. p # 0
    BY <1>3, Geometry
  <1>8. RegionOf(s) = "slab"
    BY <1>1, <1>6, <1>7 DEF RegionOf, MetaOf
  <1>9. s \in Nat
    BY <1>2, <1>3, <1>4, <1>5, AddrInt
  <1> QED
    BY <1>1, <1>2, <1>3, <1>4, <1>6, <1>8, <1>9 DEF Within

(* Whole pages of the arena. *)
LEMMA BumpWhere ==
  ASSUME PagesFit, NEW b, BumpBlock(b), tlsf # NULL
  PROVE  \E p \in DataPages, n \in Int :
           /\ n >= 1 /\ p \in Int /\ p + n <= next_free_page /\ arena \in Nat
           /\ Span(p, n) \subseteq DataPages \ SlabPages
           /\ b.addr = Addr(arena + p) /\ b.room = Addr(n) /\ b.room >= 1
           /\ Within(b.addr, b.room, arena + p, arena + p + n)
           /\ RegionOf(b.addr) = "bump"
  <1>1. PICK p \in DataPages, n \in 1..PAGES_PER_ARENA :
           /\ b.addr = Addr(arena + p) /\ b.room = Addr(n)
           /\ Span(p, n) \subseteq DataPages \ SlabPages
    BY DEF BumpBlock
  <1>2. tlsf # NULL /\ arena # NULL /\ arena \in Nat
    BY ArenaIs DEF PagesFit
  <1>3. /\ p \in Int /\ META_PAGES + POOL_PAGES <= p /\ p < PAGES_PER_ARENA
        /\ n \in Int /\ n >= 1 /\ next_free_page \in Int
    BY <1>1, Geometry DEF PagesFit, DataPages
  <1>4. p \in Span(p, n) /\ p + n - 1 \in Span(p, n)
    BY <1>3 DEF Span
  <1>5. p \notin SlabPages /\ p + n <= next_free_page
    BY <1>1, <1>3, <1>4 DEF DataPages
  <1>6. meta[p].size_class = NO_CLASS
    BY <1>3, <1>5, Geometry DEF SlabPages, ArenaPages
  <1>7. /\ Addr(arena + p) \in Int /\ Addr(arena + p) < Addr(arena + p + 1)
        /\ Addr(arena + p) + Addr(n) = Addr(arena + p + n)
    BY <1>2, <1>3, AddrInt, AddrOrder, AddrIs
  <1>8. Addr(1) <= Addr(n) /\ Addr(1) = PAGE_SIZE /\ PAGE_SIZE >= 1
    BY <1>3, AddrOrder, AddrIs, PageSize
  <1>9. b.room >= 1
    BY <1>1, <1>3, <1>8, AddrInt, PageSize
  <1>10. contains(b.addr) /\ ptr_to_page_index(b.addr) = p
    BY <1>1, <1>2, <1>3, <1>7, IndexIs, Geometry
  <1>11. Addr(tlsf + POOL_PAGES) <= Addr(arena + p)
    BY <1>2, <1>3, AddrOrder, Geometry DEF PagesFit
  <1>12. ~ PoolContains(b.addr)
    BY <1>1, <1>2, <1>7, <1>11, AddrInt, Geometry DEF PoolContains, PagesFit
  <1>13. RegionOf(b.addr) = "bump"
    BY <1>3, <1>6, <1>10, <1>12, Geometry DEF RegionOf, MetaOf
  <1>14. Within(b.addr, b.room, arena + p, arena + p + n)
    BY <1>1, <1>7, AddrInt, <1>2, <1>3 DEF Within
  <1> QED
    BY <1>1, <1>2, <1>3, <1>5, <1>9, <1>13, <1>14

(* A block of the pool. *)
LEMMA PoolWhere ==
  ASSUME PagesFit, PoolFits, NEW e \in pool
  PROVE  /\ e[1] \in Nat /\ e[2] \in Nat /\ e[2] >= 1
         /\ tlsf # NULL /\ tlsf \in Nat /\ arena \in Nat /\ tlsf = arena + META_PAGES
         /\ Within(e[1], e[2], tlsf, tlsf + POOL_PAGES)
         /\ RegionOf(e[1]) = "tlsf" /\ usable_size(e[1]) = e[2]
  <1>1. tlsf # NULL /\ arena # NULL /\ arena \in Nat /\ tlsf = arena + META_PAGES /\ tlsf \in Nat
    BY ArenaIs, Geometry DEF PagesFit
  <1>2. /\ e[1] \in Nat /\ e[2] \in Nat /\ e[2] >= 1
        /\ Addr(tlsf) < e[1] /\ e[1] + e[2] < Addr(tlsf + POOL_PAGES)
    BY DEF PoolFits
  <1>3. Addr(tlsf) \in Int /\ Addr(tlsf + POOL_PAGES) \in Int
    BY <1>1, Geometry, AddrInt
  <1>4. Within(e[1], e[2], tlsf, tlsf + POOL_PAGES) /\ PoolContains(e[1])
    BY <1>1, <1>2, <1>3 DEF Within, PoolContains
  <1> DEFINE q == PageOf(e[1]) - arena
  <1>5. PageOf(e[1]) \in Int /\ tlsf <= PageOf(e[1]) /\ PageOf(e[1]) < tlsf + POOL_PAGES
    <2>1. Addr(tlsf) <= e[1] /\ e[1] < Addr(tlsf + POOL_PAGES)
      BY <1>2, <1>3
    <2>2. tlsf \in Int /\ tlsf + POOL_PAGES \in Int /\ e[1] \in Int
      BY <1>1, <1>2, Geometry
    <2> QED
      BY <2>1, <2>2, PageOfRange
  <1>6. q \in Int /\ META_PAGES <= q /\ q < META_PAGES + POOL_PAGES /\ arena + q = PageOf(e[1])
    BY <1>1, <1>5, Geometry
  <1>7. Addr(arena + q) <= e[1] /\ e[1] < Addr(arena + q + 1)
    BY <1>2, <1>5, <1>6, PageOfIs
  <1> HIDE DEF q
  <1>8. contains(e[1]) /\ ptr_to_page_index(e[1]) = q /\ q # 0
    BY <1>1, <1>2, <1>6, <1>7, IndexIs, Geometry
  <1>9. q \in ArenaPages /\ q \notin DataPages
    BY <1>6, Geometry DEF ArenaPages, DataPages
  <1>10. meta[q].size_class = NO_CLASS
    BY <1>9 DEF PagesFit, SlabPages
  <1>11. RegionOf(e[1]) = "tlsf"
    BY <1>4, <1>8, <1>10 DEF RegionOf, MetaOf
  <1>12. \A f \in pool : f[1] = e[1] => f = e
    BY <1>2 DEF PoolFits
  <1>13. (CHOOSE f \in pool : f[1] = e[1]) = e
    BY <1>12
  <1>14. usable_size(e[1]) = e[2]
    BY <1>11, <1>13 DEF usable_size
  <1> QED
    BY <1>1, <1>2, <1>4, <1>11, <1>14

(* A block with a mapping of its own. *)
LEMMA HugeWhere ==
  ASSUME PagesFit, BlocksFit, Accounted(available), NEW b \in In("huge"), IsBlock(b), b.size > 0
  PROVE  \E base \in Bases, m \in Int :
           /\ m = HugePages(b.size) /\ m >= 2
           /\ b.addr = Addr(base + 1) /\ b.room = Addr(m - 1) /\ b.room >= 1
           /\ b.size <= b.room
           /\ PageOf(b.addr) = base + 1 /\ header[base] = m
           /\ HugeSpan(b) = Span(base, m) /\ Span(base, m) \subseteq mapped
           /\ Within(b.addr, b.room, base + 1, base + m)
           /\ arena # NULL => /\ base + m <= arena \/ arena + PAGES_PER_ARENA <= base
                              /\ RegionOf(b.addr) = "huge" /\ usable_size(b.addr) = b.room
  <1>1. HugeBlock(b)
    BY DEF BlocksFit
  <1>2. PICK base \in Bases :
           /\ b.addr = Addr(base + 1) /\ b.room = Addr(HugePages(b.size) - 1)
           /\ header[base] = HugePages(b.size)
           /\ \A r \in Reserved : Span(base, HugePages(b.size)) \cap Span(r, PAGES_PER_ARENA) = {}
    BY <1>1 DEF HugeBlock
  <1> DEFINE m == HugePages(b.size)
  <1>3. m \in Int /\ m >= 2 /\ b.size \in Nat /\ b.size <= Addr(m - 1)
    <2>1. b.size \in Nat
      BY DEF IsBlock, Block
    <2>2. m = PagesFor(b.size) + 1 /\ PagesFor(b.size) \in Nat /\ PagesFor(b.size) >= 1
          /\ b.size <= Addr(PagesFor(b.size))
      BY <2>1, PagesForIs
    <2>3. m - 1 = PagesFor(b.size)
      BY <2>2
    <2> QED
      BY <2>1, <2>2, <2>3
  <1> HIDE DEF m
  <1>4. base \in Nat /\ base + 1 \in Int /\ base + m \in Int
    BY <1>3, Geometry
  <1>5. PageOf(b.addr) = base + 1
    <2>1. Addr(base + 1) \in Int /\ Addr(base + 1) < Addr(base + 1 + 1)
      BY <1>4, AddrInt, AddrOrder
    <2> QED
      BY <1>2, <1>4, <2>1, PageOfIs
  <1>6. Addr(1) <= Addr(m - 1) /\ Addr(1) = PAGE_SIZE /\ Addr(m - 1) \in Int
    BY <1>3, AddrOrder, AddrIs, AddrInt
  <1>7. b.room = Addr(m - 1) /\ header[base] = m /\ b.room >= 1 /\ b.size <= b.room
    BY <1>2, <1>3, <1>6, PageSize DEF m
  <1>8. HugeSpan(b) = Span(base, m)
    BY <1>4, <1>5 DEF HugeSpan, m
  <1>9. Span(base, m) \subseteq mapped
    BY <1>8 DEF Accounted
  <1>10. Addr(base + 1) + Addr(m - 1) = Addr(base + m)
    <2>1. base + 1 + (m - 1) = base + m
      BY <1>3, <1>4
    <2>2. Addr(base + 1 + (m - 1)) = Addr(base + 1) + Addr(m - 1)
      BY <1>3, <1>4, AddrIs
    <2> QED
      BY <2>1, <2>2
  <1>11. Within(b.addr, b.room, base + 1, base + m)
    BY <1>2, <1>3, <1>4, <1>7, <1>10, AddrInt DEF Within
  <1>12. ASSUME arena # NULL
         PROVE  /\ base + m <= arena \/ arena + PAGES_PER_ARENA <= base
                /\ RegionOf(b.addr) = "huge" /\ usable_size(b.addr) = b.room
    <2>1. arena \in Nat /\ arena \in Reserved
      BY <1>12, ArenaIs
    <2>2. Span(base, m) \cap Span(arena, PAGES_PER_ARENA) = {}
      BY <1>2, <2>1 DEF m
    <2>3. base + m <= arena \/ arena + PAGES_PER_ARENA <= base
      <3>1. PAGES_PER_ARENA \in Int /\ PAGES_PER_ARENA >= 1 /\ m >= 1
            /\ arena \in Int /\ base \in Int /\ m \in Int
        BY <1>3, <1>4, <2>1, Geometry
      <3> QED
        BY <2>2, <3>1, SpansApart
    <2>4. \/ Addr(arena + PAGES_PER_ARENA) <= Addr(base + 1)
          \/ Addr(base + 1) < Addr(arena)
      <3>1. arena + PAGES_PER_ARENA \in Int /\ PAGES_PER_ARENA \in Int /\ arena \in Int
        BY <2>1, Geometry
      <3>2. arena + PAGES_PER_ARENA <= base + 1 \/ base + 1 < arena
        BY <1>3, <1>4, <2>1, <2>3, Geometry
      <3> QED
        BY <1>4, <3>1, <3>2, AddrOrder
    <2>5. ~ contains(b.addr)
      BY <1>2, <1>4, <2>1, <2>4, AddrInt, Geometry DEF contains
    <2>6. RegionOf(b.addr) = "huge"
      BY <2>5 DEF RegionOf
    <2>7. usable_size(b.addr) = b.room
      <3>1. PageOf(b.addr) - 1 = base
        BY <1>4, <1>5
      <3> QED
        BY <1>3, <1>7, <2>6, <3>1 DEF usable_size
    <2> QED
      BY <2>3, <2>6, <2>7
  <1> QED
    BY <1>2, <1>3, <1>5, <1>7, <1>8, <1>9, <1>11, <1>12 DEF m

(* Every block is in pages that are mapped, in the part of memory its region
   is, and of its region. *)
InPart(b, p, q) ==
  /\ b.region \in {"slab", "bump"} =>
        /\ arena \in Nat /\ tlsf # NULL
        /\ arena + META_PAGES + POOL_PAGES <= p /\ q <= arena + next_free_page
  /\ b.region = "tlsf" =>
        arena \in Nat /\ tlsf = arena + META_PAGES /\ p = tlsf /\ q = tlsf + POOL_PAGES
  /\ b.region = "huge" /\ arena # NULL =>
        q <= arena \/ arena + PAGES_PER_ARENA <= p

LEMMA BlockWhere ==
  ASSUME PagesFit, PoolFits, BlocksFit, Accounted(available), NEW b \in Blocks, IsBlock(b), b.size > 0
  PROVE  /\ b.addr \in Nat /\ b.room \in Nat /\ b.size \in Nat /\ b.room >= 1
         /\ arena # NULL => RegionOf(b.addr) = b.region
         /\ arena # NULL => usable_size(b.addr) = IF b.region = "bump" THEN 0 ELSE b.room
         /\ b.region # "huge" => tlsf # NULL
         /\ \E p, q \in Int : Within(b.addr, b.room, p, q) /\ InPart(b, p, q) /\ p..(q - 1) \subseteq mapped
  <1>1. /\ b.addr \in Nat /\ b.room \in Nat /\ b.size \in Nat /\ b.size <= b.room /\ b.room >= 1
        /\ b.region \in {"slab", "tlsf", "bump", "huge"}
    BY DEF IsBlock, Block
  <1>2. b.region # "huge" => tlsf # NULL
    BY DEF PagesFit
  <1>3. ASSUME arena # NULL PROVE Span(arena, PAGES_PER_ARENA) \subseteq mapped
    <2>1. Span(arena, PAGES_PER_ARENA) \in ArenaSpans
      BY <1>3, ArenaIs DEF ArenaSpans
    <2> QED
      BY <2>1 DEF Accounted
  <1>4. CASE b.region = "slab"
    <2>1. PICK p \in SlabPages : b.addr \in SlotsOfPage(p, meta[p].size_class) /\ b.room = meta[p].size_class
      BY <1>4 DEF BlocksFit, In, SlabBlock
    <2>2. /\ p \in DataPages /\ p \in Int /\ p < next_free_page /\ arena \in Nat /\ tlsf # NULL
          /\ Within(b.addr, b.room, arena + p, arena + p + 1)
          /\ RegionOf(b.addr) = "slab" /\ ptr_to_page_index(b.addr) = p
      BY <2>1, SlotWhere
    <2>3. usable_size(b.addr) = b.room
      BY <2>1, <2>2 DEF usable_size, MetaOf
    <2>4. /\ META_PAGES + POOL_PAGES <= p /\ next_free_page \in Int /\ next_free_page <= PAGES_PER_ARENA
          /\ arena # NULL
      BY <2>2, Geometry DEF DataPages, PagesFit
    <2>5. InPart(b, arena + p, arena + p + 1)
      BY <1>4, <2>2, <2>4, Geometry DEF InPart
    <2>6. (arena + p)..(arena + p + 1 - 1) \subseteq mapped
      BY <1>3, <2>2, <2>4, Geometry DEF Span
    <2>7. arena + p \in Int /\ arena + p + 1 \in Int
      BY <2>2
    <2>8. \E x, y \in Int : Within(b.addr, b.room, x, y) /\ InPart(b, x, y) /\ x..(y - 1) \subseteq mapped
      BY <2>2, <2>5, <2>6, <2>7
    <2> QED
      BY <1>1, <1>4, <2>2, <2>3, <2>8
  <1>5. CASE b.region = "bump"
    <2>1. BumpBlock(b) /\ tlsf # NULL
      BY <1>2, <1>5 DEF BlocksFit, In
    <2>2. PICK p \in DataPages, n \in Int :
           /\ n >= 1 /\ p \in Int /\ p + n <= next_free_page /\ arena \in Nat
           /\ Within(b.addr, b.room, arena + p, arena + p + n)
           /\ RegionOf(b.addr) = "bump"
      BY <2>1, BumpWhere
    <2>3. usable_size(b.addr) = 0
      BY <2>2 DEF usable_size
    <2>4. /\ META_PAGES + POOL_PAGES <= p /\ next_free_page \in Int /\ next_free_page <= PAGES_PER_ARENA
          /\ arena # NULL
      BY <2>2, Geometry DEF DataPages, PagesFit
    <2>5. InPart(b, arena + p, arena + p + n)
      BY <1>5, <2>1, <2>2, <2>4, Geometry DEF InPart
    <2>6. (arena + p)..(arena + p + n - 1) \subseteq mapped
      BY <1>3, <2>2, <2>4, Geometry DEF Span
    <2>7. arena + p \in Int /\ arena + p + n \in Int
      BY <2>2
    <2>8. \E x, y \in Int : Within(b.addr, b.room, x, y) /\ InPart(b, x, y) /\ x..(y - 1) \subseteq mapped
      BY <2>2, <2>5, <2>6, <2>7
    <2> QED
      BY <1>1, <1>5, <2>1, <2>2, <2>3, <2>8
  <1>6. CASE b.region = "tlsf"
    <2> DEFINE e == <<b.addr, b.room>>
    <2>1. e \in pool /\ e[1] = b.addr /\ e[2] = b.room
      BY <1>6 DEF Accounted, In
    <2>2. /\ tlsf # NULL /\ tlsf \in Nat /\ arena \in Nat /\ tlsf = arena + META_PAGES
          /\ Within(b.addr, b.room, tlsf, tlsf + POOL_PAGES)
          /\ RegionOf(b.addr) = "tlsf" /\ usable_size(b.addr) = b.room
      BY <2>1, PoolWhere
    <2>3. InPart(b, tlsf, tlsf + POOL_PAGES)
      BY <1>6, <2>2 DEF InPart
    <2>4. tlsf..((tlsf + POOL_PAGES) - 1) \subseteq mapped
      BY <1>3, <2>2, Geometry DEF Span
    <2>5. tlsf \in Int /\ tlsf + POOL_PAGES \in Int
      BY <2>2, Geometry
    <2>6. \E x, y \in Int : Within(b.addr, b.room, x, y) /\ InPart(b, x, y) /\ x..(y - 1) \subseteq mapped
      BY <2>2, <2>3, <2>4, <2>5
    <2> QED
      BY <1>1, <1>6, <2>2, <2>6
  <1>7. CASE b.region = "huge"
    <2>1. b \in In("huge")
      BY <1>7 DEF In
    <2>2. PICK base \in Bases, m \in Int :
           /\ m >= 2 /\ Span(base, m) \subseteq mapped
           /\ Within(b.addr, b.room, base + 1, base + m)
           /\ arena # NULL => /\ base + m <= arena \/ arena + PAGES_PER_ARENA <= base
                              /\ RegionOf(b.addr) = "huge" /\ usable_size(b.addr) = b.room
      BY <2>1, HugeWhere
    <2>3. base \in Nat /\ base + 1 \in Int /\ base + m \in Int
      BY Geometry
    <2>4. InPart(b, base + 1, base + m)
      BY <1>7, <2>2, <2>3, ArenaIs, Geometry DEF InPart
    <2>5. (base + 1)..(base + m - 1) \subseteq mapped
      BY <2>2, <2>3 DEF Span
    <2> QED
      BY <1>1, <1>7, <2>2, <2>3, <2>4, <2>5
  <1> QED
    BY <1>1, <1>4, <1>5, <1>6, <1>7
-----------------------------------------------------------------------------
(* A step of a thread takes the blocks in `loss' out of all hands and puts
   those in `gain' into its own or the application's. *)
Changes(gain, loss) ==
  Owned' /\ GlobalsFit' /\ Reserved' = Reserved /\ Blocks' = (Blocks \ loss) \cup gain

(* The hands of the application and of thread t before and after, if the
   call goes on as c. *)
HandsChange(t, c, gain, loss) ==
  /\ held' \cup Hands(c) = ((held \cup Hands(call[t])) \ loss) \cup gain
  /\ held' \cap Hands(c) = {}
  /\ loss \subseteq held \cup Hands(call[t])
  /\ gain \cap Blocks = {}
  /\ \A b \in gain : IsBlock(b) /\ b.size > 0

(* The thread is not in the middle of ensure_init, and only the arena's next
   page may change, under the lock. *)
QuietThread(t) ==
  /\ pc[t] \in {"idle", "init"} \cup Parts
  /\ UNCHANGED globals
  /\ UNCHANGED next_free_page \/ lock = NULL
  /\ cached' \subseteq Threads

LEMMA InBlocks == \A b : b \in Blocks <=> b \in held \/ \E t \in Threads : b \in Hands(call[t])
  BY DEF Blocks

LEMMA OwnedStep ==
  ASSUME Owned, NEW t \in Threads, NEW c, NEW to, Moves(t, c, to), ThreadFits(t)',
         NEW gain, NEW loss, HandsChange(t, c, gain, loss)
  PROVE  Owned' /\ Blocks' = (Blocks \ loss) \cup gain
  <1>1. ASSUME NEW u \in Threads, u # t PROVE pc'[u] = pc[u] /\ call'[u] = call[u]
    BY <1>1 DEF Moves
  <1>2. call'[t] = c
    BY DEF Moves
  <1>3. ASSUME NEW u \in Threads, u # t
        PROVE  /\ ThreadFits(u)' /\ Hands(call'[u]) = Hands(call[u])
               /\ Hands(call[u]) \cap held = {} /\ Hands(call[u]) \cap Hands(call[t]) = {}
               /\ Hands(call[u]) \subseteq Blocks
    BY <1>1, <1>3, InBlocks DEF Owned, ThreadFits, Part
  <1>4. ASSUME NEW u \in Threads, u # t
        PROVE  Hands(call'[u]) \cap held' = {} /\ Hands(call'[u]) \cap Hands(c) = {}
    BY <1>3, <1>4, Zenon DEF HandsChange
  <1>5. \A u \in Threads : ThreadFits(u)' /\ Hands(call'[u]) \cap held' = {}
    BY <1>2, <1>3, <1>4, Zenon DEF HandsChange
  <1>6. \A u, v \in Threads : u # v => Hands(call'[u]) \cap Hands(call'[v]) = {}
    <2> SUFFICES ASSUME NEW u \in Threads, NEW v \in Threads, u # v
                 PROVE  Hands(call'[u]) \cap Hands(call'[v]) = {}
      OBVIOUS
    <2>1. CASE u = t
      BY <2>1, <1>2, <1>4, Zenon
    <2>2. CASE v = t
      BY <2>2, <1>2, <1>4, Zenon
    <2>3. CASE u # t /\ v # t
      BY <2>3, <1>3, Zenon DEF Owned
    <2> QED
      BY <2>1, <2>2, <2>3
  <1>7. \A b : b \in Blocks' <=> b \in held' \cup Hands(c) \/ \E u \in Threads \ {t} : b \in Hands(call[u])
    <2>1. \A b : b \in Blocks' <=> b \in held' \/ \E u \in Threads : b \in Hands(call'[u])
      BY DEF Blocks
    <2> QED
      BY <2>1, <1>2, <1>3, Zenon
  <1>8. \A b : b \in Blocks <=> b \in held \cup Hands(call[t]) \/ \E u \in Threads \ {t} : b \in Hands(call[u])
    BY InBlocks, Zenon
  <1>9. \A u \in Threads \ {t} : Hands(call[u]) \cap loss = {}
    BY <1>3, Zenon DEF HandsChange
  <1>10. Blocks' = (Blocks \ loss) \cup gain
    BY <1>7, <1>8, <1>9, Zenon DEF HandsChange
  <1>11. \A b \in Blocks' : IsBlock(b) /\ b.size > 0
    BY <1>10, Zenon DEF HandsChange, Owned
  <1> QED
    BY <1>5, <1>6, <1>10, <1>11 DEF Owned

LEMMA QuietStays ==
  ASSUME GlobalsFit, NEW t \in Threads, NEW c, NEW to, Moves(t, c, to), c.base = NULL,
         to \in {"idle", "init"} \cup Parts, QuietThread(t)
  PROVE  GlobalsFit' /\ Reserved' = Reserved
  <1>1. call[t].base = NULL /\ call'[t].base = NULL
    BY DEF GlobalsFit, BaseFits, QuietThread, Parts, Moves
  <1>2. \A u \in Threads : call'[u].base = call[u].base
    BY <1>1 DEF Moves
  <1>3. Reserved' = Reserved
    <2>1. {call'[u].base : u \in Threads} = {call[u].base : u \in Threads}
      BY <1>2
    <2> QED
      BY <2>1 DEF Reserved, QuietThread, globals
  <1>4. BaseFits(t)'
    BY <1>1 DEF BaseFits, Moves, Parts
  <1>5. ASSUME NEW u \in Threads, u # t PROVE BaseFits(u)'
    <2>1. pc'[u] = pc[u] /\ call'[u] = call[u]
      BY <1>5 DEF Moves
    <2>2. BaseFits(u) /\ UNCHANGED lock /\ (UNCHANGED next_free_page \/ lock = NULL)
      BY DEF GlobalsFit, QuietThread, globals
    <2>3. lock = NULL => call[u].base = NULL
      BY <2>2, Geometry DEF BaseFits
    <2> QED
      BY <2>1, <2>2, <2>3 DEF BaseFits
  <1> QED
    BY <1>3, <1>4, <1>5 DEF GlobalsFit, QuietThread, globals

(* The ways a step moves its thread. *)
LEMMA MoveStep ==
  ASSUME Owned, GlobalsFit, NEW t \in Threads, NEW c, NEW to, Moves(t, c, to), c.base = NULL,
         to \in {"idle"} \cup Parts, CallFits(c, to), to = "idle" => c = NoCall, QuietThread(t),
         NEW gain, NEW loss, HandsChange(t, c, gain, loss)
  PROVE  Changes(gain, loss)
  <1>1. ThreadFits(t)'
    BY DEF ThreadFits, Part, Moves, InitSteps, Parts
  <1> QED
    BY <1>1, OwnedStep, QuietStays DEF Changes

LEMMA EnterChanges ==
  ASSUME InitInv, Owned, GlobalsFit, NEW t \in Threads, NEW c, CallTyped(c), c.base = NULL,
         NEW part \in FirstParts, CallFits(c, part), Enter(t, c, part), QuietThread(t),
         NEW gain, NEW loss, HandsChange(t, c, gain, loss)
  PROVE  Changes(gain, loss)
  <1> DEFINE d == [c EXCEPT !.then = IF arena_init THEN "idle" ELSE part, !.refused = FALSE]
             to == IF arena_init THEN part ELSE "init"
  <1>1. Moves(t, d, to)
    BY DEF Moves, Enter, Goto, InitInv, ThreadsInit
  <1>2. /\ d.op = c.op /\ d.base = c.base /\ d.ptr = c.ptr /\ d.size = c.size
        /\ d.usable = c.usable /\ d.seen = c.seen /\ d.new = c.new /\ d.copied = c.copied
        /\ d.refused = FALSE /\ d.then = IF arena_init THEN "idle" ELSE part
    BY CallFields DEF CallTyped
  <1>3. CallFits(d, part) /\ Hands(d) = Hands(c)
    BY <1>2 DEF CallFits, Hands
  <1>4. ThreadFits(t)'
    <2>1. pc'[t] = to /\ call'[t] = d
      BY <1>1 DEF Moves
    <2>2. CASE arena_init
      BY <2>1, <2>2, <1>3 DEF ThreadFits, Part, InitSteps, Parts, FirstParts
    <2>3. CASE ~ arena_init
      BY <2>1, <2>3, <1>2, <1>3 DEF ThreadFits, Part, InitSteps, Parts, FirstParts
    <2> QED
      BY <2>2, <2>3
  <1>5. HandsChange(t, d, gain, loss)
    BY <1>3 DEF HandsChange
  <1>6. d.base = NULL
    BY <1>2
  <1> HIDE DEF d
  <1>7. to \in {"idle", "init"} \cup Parts
    BY DEF Parts, FirstParts
  <1> HIDE DEF to
  <1> QED
    BY <1>1, <1>4, <1>5, <1>6, <1>7, OwnedStep, QuietStays DEF Changes

LEMMA ReturnChanges ==
  ASSUME InitInv, Owned, GlobalsFit, NEW t \in Threads, Return(t), QuietThread(t),
         NEW gain, NEW loss, HandsChange(t, NoCall, gain, loss)
  PROVE  Changes(gain, loss)
  <1>1. Moves(t, NoCall, "idle")
    BY DEF Moves, Return, Goto, InitInv, ThreadsInit
  <1>2. CallFits(NoCall, "idle") /\ NoCall.base = NULL
    BY DEF CallFits, NoCall, PtrOps, SizeOps, Parts, AllocParts, SmallParts, FreeParts
  <1> QED
    BY <1>1, <1>2, MoveStep

LEMMA GotoChanges ==
  ASSUME InitInv, Owned, GlobalsFit, NEW t \in Threads, NEW to \in Parts, Goto(t, to),
         CallFits(call[t], to), QuietThread(t), UNCHANGED <<call, held>>
  PROVE  Changes({}, {})
  <1>1. Moves(t, call[t], to)
    BY DEF Moves, Goto, InitInv, ThreadsInit
  <1>2. call[t].base = NULL
    BY DEF GlobalsFit, BaseFits, QuietThread, Parts
  <1>3. HandsChange(t, call[t], {}, {})
    BY DEF HandsChange, Owned
  <1>4. to # "idle"
    BY DEF Parts
  <1> QED
    BY <1>1, <1>2, <1>3, <1>4, MoveStep

LEMMA ResumeChanges ==
  ASSUME InitInv, Owned, GlobalsFit, NEW t \in Threads, pc[t] = "init", NEW refused \in BOOLEAN,
         Resume(t, refused), QuietThread(t), UNCHANGED held
  PROVE  Changes({}, {})
  <1> DEFINE c == [call[t] EXCEPT !.then = "idle", !.base = NULL, !.refused = refused]
  <1>1. Moves(t, c, call[t].then)
    BY DEF Moves, Resume, Goto, InitInv, ThreadsInit
  <1>2. CallTyped(call[t])
    BY DEF InitInv, ThreadsInit, ThreadInit
  <1>3. /\ c.op = call[t].op /\ c.base = NULL /\ c.ptr = call[t].ptr /\ c.size = call[t].size
        /\ c.usable = call[t].usable /\ c.seen = call[t].seen /\ c.new = call[t].new
        /\ c.copied = call[t].copied /\ c.refused = refused
    BY <1>2, CallFields DEF CallTyped
  <1>4. call[t].then \in Parts /\ CallFits(call[t], call[t].then)
    BY DEF Owned, ThreadFits, Part, InitSteps, Parts, FirstParts
  <1>5. CallFits(c, call[t].then) /\ Hands(c) = Hands(call[t])
    BY <1>3, <1>4 DEF CallFits, Hands
  <1>6. HandsChange(t, c, {}, {})
    BY <1>5 DEF HandsChange, Owned
  <1>7. call[t].then # "idle"
    BY <1>4 DEF Parts
  <1>8. c.base = NULL
    BY <1>3
  <1> HIDE DEF c
  <1> QED
    BY <1>1, <1>4, <1>5, <1>6, <1>7, <1>8, MoveStep

(* A free list is read. *)
LEMMA LoadChanges ==
  ASSUME InitInv, Owned, GlobalsFit, NEW t \in Threads, NEW s, NEW to \in StoreParts,
         available \subseteq Nat,
         pc[t] \in Parts, CallFits([call[t] EXCEPT !.seen = {}], to), LoadList(t, s, to),
         QuietThread(t), UNCHANGED held
  PROVE  Changes({}, {})
  <1> DEFINE c == [call[t] EXCEPT !.seen = FreeIn(s)]
             e == [call[t] EXCEPT !.seen = {}]
  <1>1. Moves(t, c, to)
    BY DEF Moves, LoadList, Goto, InitInv, ThreadsInit
  <1>2. CallTyped(call[t])
    BY DEF InitInv, ThreadsInit, ThreadInit
  <1>3. /\ c.op = call[t].op /\ c.base = call[t].base /\ c.ptr = call[t].ptr
        /\ c.size = call[t].size /\ c.usable = call[t].usable /\ c.new = call[t].new
        /\ c.copied = call[t].copied /\ c.refused = call[t].refused
        /\ e.op = call[t].op /\ e.ptr = call[t].ptr /\ e.refused = call[t].refused
        /\ e.size = call[t].size /\ e.usable = call[t].usable /\ e.new = call[t].new
        /\ e.copied = call[t].copied
    BY <1>2, CallFields DEF CallTyped
  <1>4. CallFits(c, to) /\ Hands(c) = Hands(call[t])
    <2>1. c.seen \subseteq Nat
      BY <1>2, CallFields DEF CallTyped, FreeIn
    <2> QED
      BY <1>3, <2>1 DEF CallFits, Hands, Parts, StoreParts
  <1>5. c.base = NULL
    BY <1>3 DEF GlobalsFit, BaseFits, QuietThread, Parts
  <1>6. HandsChange(t, c, {}, {})
    BY <1>4 DEF HandsChange, Owned
  <1>7. to \in Parts /\ to # "idle"
    BY DEF Parts, StoreParts
  <1> HIDE DEF c, e
  <1> QED
    BY <1>1, <1>4, <1>5, <1>6, <1>7, MoveStep

(* A thread in a part of its call. *)
LEMMA InPartFits ==
  ASSUME InitInv, Owned, GlobalsFit, NEW t \in Threads, pc[t] \in Parts
  PROVE  CallFits(call[t], pc[t]) /\ CallTyped(call[t]) /\ call[t].base = NULL
  BY DEF InitInv, ThreadsInit, ThreadInit, Owned, ThreadFits, Part, GlobalsFit, BaseFits, Parts, InitSteps

LEMMA StaysQuiet ==
  ASSUME GlobalsFit, NEW t \in Threads, pc[t] \in {"idle", "init"} \cup Parts,
         UNCHANGED <<globals, cached>>, UNCHANGED next_free_page \/ lock = NULL
  PROVE  QuietThread(t)
  BY DEF QuietThread, GlobalsFit

LEMMA NoBlockIsNull == ASSUME NEW b, IsBlock(b) PROVE b # NULL
  BY ApiAssumption DEF IsBlock

(* The application's calls: it hands over a block, or none. *)
LEMMA CallChanges ==
  ASSUME InitInv, Owned, GlobalsFit, NEW t \in Threads, Call(t)
  PROVE  Changes({}, {})
  <1>1. pc[t] = "idle" /\ call[t] = NoCall /\ UNCHANGED <<globals, cached, next_free_page>>
    BY DEF Call, Owned, ThreadFits, pageVars
  <1>2. QuietThread(t)
    BY <1>1, StaysQuiet
  <1>3. NoCall.base = NULL /\ Hands(NoCall) = {}
    BY DEF NoCall, Hands
  <1>4. Sizes \cup AlignedSizes \cup NewSizes \subseteq Nat /\ \A n \in Sizes \cup AlignedSizes \cup NewSizes : n > 0
    BY ApiAssumption
  <1>5. ASSUME NEW n \in Sizes \cup AlignedSizes, NEW part \in {"huge", "malloc", "tlsf"},
               part = "malloc" => n <= SLAB_MAX_SIZE,
               UNCHANGED held
        PROVE  LET c == [NoCall EXCEPT !.op = "malloc", !.size = n] IN
               /\ CallTyped(c) /\ c.base = NULL /\ CallFits(c, part) /\ HandsChange(t, c, {}, {})
               /\ part \in FirstParts
    <2> DEFINE c == [NoCall EXCEPT !.op = "malloc", !.size = n]
    <2>1. CallTyped(c) /\ c.base = NULL /\ Hands(c) = {}
      BY <1>4 DEF NoCall, CallTyped, Hands
    <2>2. CallFits(c, part)
      BY <1>4, <1>5 DEF NoCall, CallFits, PtrOps, SizeOps, Parts, AllocParts, SmallParts, FreeParts
    <2>3. HandsChange(t, c, {}, {})
      BY <1>1, <1>3, <1>5, <2>1 DEF HandsChange
    <2> QED
      BY <2>1, <2>2, <2>3 DEF FirstParts
  <1>6. ASSUME NEW n \in Sizes, MallocCall(t, n) PROVE Changes({}, {})
    <2>1. MallocPart(n) \in {"huge", "malloc", "tlsf"} /\ (MallocPart(n) = "malloc" => n <= SLAB_MAX_SIZE)
      BY DEF MallocPart
    <2> QED
      BY <1>2, <1>5, <1>6, <2>1, EnterChanges DEF MallocCall
  <1>7. ASSUME NEW n \in AlignedSizes, MemalignCall(t, n) PROVE Changes({}, {})
    <2> DEFINE c == [NoCall EXCEPT !.op = "malloc", !.size = n]
    <2>1. CallFits(c, "huge") /\ HandsChange(t, c, {}, {}) /\ c.base = NULL /\ "huge" \in Parts
      BY <1>5, <1>7 DEF MemalignCall, Parts
    <2>2. Moves(t, c, "huge")
      BY <1>7 DEF Moves, MemalignCall, Goto, InitInv, ThreadsInit
    <2> HIDE DEF c
    <2> QED
      BY <1>2, <2>1, <2>2, MoveStep
  <1>8. ASSUME NEW b \in held, NEW op, NEW n \in Nat, NEW part,
               \/ op \in {"hooked_free", "usable_size"} /\ part = "usable"
               \/ op = "free" /\ part = "free"
               \/ op \in {"realloc", "hooked_realloc"} /\ part = "usable" /\ n > 0,
               Enter(t, [NoCall EXCEPT !.op = op, !.ptr = b, !.size = n], part), held' = held \ {b}
        PROVE  Changes({}, {})
    <2> DEFINE c == [NoCall EXCEPT !.op = op, !.ptr = b, !.size = n]
    <2>1. b # NULL
      BY NoBlockIsNull, InBlocks DEF Owned
    <2>2. CallTyped(c) /\ c.base = NULL /\ Hands(c) = {b}
      BY <2>1 DEF NoCall, CallTyped, Hands
    <2>3. CallFits(c, part) /\ part \in FirstParts
      BY <1>8, <2>1
         DEF NoCall, CallFits, PtrOps, SizeOps, AllocParts, SmallParts, FreeParts, Parts, FirstParts
    <2>4. HandsChange(t, c, {}, {})
      BY <1>1, <1>3, <1>8, <2>2 DEF HandsChange
    <2> HIDE DEF c
    <2>5. Enter(t, c, part)
      BY <1>8 DEF c
    <2> QED
      BY <1>2, <2>2, <2>3, <2>4, <2>5, EnterChanges
  <1>9. ASSUME NEW b \in held, FreeCall(t, b) \/ HookedFreeCall(t, b) \/ UsableCall(t, b)
        PROVE  Changes({}, {})
    <2>1. \A op : [NoCall EXCEPT !.op = op, !.ptr = b] = [NoCall EXCEPT !.op = op, !.ptr = b, !.size = 0]
      <3>1. NoCall.size = 0
        BY DEF NoCall
      <3> QED
        BY <3>1, CallFields
    <2> QED
      BY <1>8, <1>9, <2>1, 0 \in Nat DEF FreeCall, HookedFreeCall, UsableCall
  <1>10. ASSUME NEW b \in held, NEW n \in NewSizes, ReallocCall(t, b, n) \/ HookedReallocCall(t, b, n)
         PROVE  Changes({}, {})
    BY <1>4, <1>8, <1>10 DEF ReallocCall, HookedReallocCall
  <1> QED
    BY <1>6, <1>7, <1>9, <1>10 DEF Call

(* malloc has a new block. *)
LEMMA GotChanges ==
  ASSUME InitInv, Owned, GlobalsFit, NEW t \in Threads, pc[t] \in AllocParts, QuietThread(t),
         NEW b, IsBlock(b), b.size = call[t].size, b \notin Blocks, Got(t, b)
  PROVE  Changes({b}, {})
  <1> DEFINE d == call[t]
  <1>1. pc[t] \in Parts /\ pc[t] \in AllocParts
    BY DEF AllocParts, SmallParts, Parts
  <1>2. CallFits(d, pc[t]) /\ CallTyped(d) /\ d.base = NULL
    BY <1>1, InPartFits
  <1>3. d.op \in {"malloc", "realloc"} /\ d.new = NULL /\ d.size > 0 /\ b # NULL
    BY <1>1, <1>2, NoBlockIsNull DEF CallFits, SizeOps
  <1>4. b.size > 0 /\ b \notin held /\ b \notin Hands(d) /\ Hands(d) \cap held = {}
    BY <1>3, InBlocks DEF Owned
  <1>5. CASE Return(t) /\ held' = held \cup {b} /\ d.op = "malloc"
    <2>1. Hands(d) = {}
      BY <1>2, <1>3, <1>5 DEF CallFits, PtrOps, Hands
    <2>2. Hands(NoCall) = {}
      BY DEF Hands, NoCall
    <2>3. HandsChange(t, NoCall, {b}, {})
      BY <1>4, <1>5, <2>1, <2>2 DEF HandsChange
    <2> QED
      BY <1>5, <2>3, ReturnChanges
  <1> DEFINE c == [d EXCEPT !.new = b, !.seen = {}, !.copied = CopySize(d.usable, d.size)]
  <1>6. CASE Enter(t, c, "free") /\ UNCHANGED held /\ d.op = "realloc"
    <2>1. /\ c.op = d.op /\ c.base = NULL /\ c.ptr = d.ptr /\ c.size = d.size /\ c.usable = d.usable
          /\ c.seen = {} /\ c.new = b /\ c.copied = CopySize(d.usable, d.size)
          /\ c.refused = d.refused /\ CallTyped(c)
      BY <1>2, CallFields DEF CallTyped
    <2>2. d.ptr # NULL /\ d.ptr # b /\ Hands(d) = {d.ptr}
      BY <1>2, <1>3, <1>4, <1>6 DEF CallFits, PtrOps, Hands
    <2>3. CallFits(c, "free")
      BY <1>2, <1>3, <1>6, <2>1, <2>2 DEF CallFits, AllocParts, SmallParts, FreeParts
    <2>4. Hands(c) = {d.ptr, b}
      BY <1>3, <2>1, <2>2 DEF Hands
    <2> HIDE DEF c, d
    <2>5. HandsChange(t, c, {b}, {})
      BY <1>4, <1>6, <2>2, <2>4 DEF HandsChange, d
    <2>6. "free" \in FirstParts
      BY DEF FirstParts
    <2> QED
      BY <1>6, <2>1, <2>3, <2>5, <2>6, EnterChanges
  <1> QED
    BY <1>5, <1>6 DEF Got

(* malloc has none: a realloc gives the old block back. *)
LEMMA GotNullChanges ==
  ASSUME InitInv, Owned, GlobalsFit, NEW t \in Threads, pc[t] \in AllocParts, QuietThread(t), GotNull(t)
  PROVE  Changes({}, {})
  <1>1. pc[t] \in Parts
    BY DEF AllocParts, SmallParts, Parts
  <1>2. CallFits(call[t], pc[t])
    BY <1>1, InPartFits
  <1>3. Hands(call[t]) = IF call[t].op = "realloc" THEN {call[t].ptr} ELSE {}
    BY <1>2 DEF CallFits, Hands, PtrOps
  <1>4. Hands(NoCall) = {}
    BY DEF Hands, NoCall
  <1>5. HandsChange(t, NoCall, {}, {})
    BY <1>3, <1>4 DEF HandsChange, GotNull
  <1> QED
    BY <1>5, ReturnChanges DEF GotNull

(* The block is freed: what remains in realloc's hands is the new one. *)
LEMMA FreedChanges ==
  ASSUME InitInv, Owned, GlobalsFit, NEW t \in Threads, pc[t] \in FreeParts, QuietThread(t), Freed(t)
  PROVE  call[t].ptr \in Blocks /\ Changes({}, {call[t].ptr})
  <1>1. pc[t] \in Parts
    BY DEF FreeParts, Parts
  <1>2. CallFits(call[t], pc[t])
    BY <1>1, InPartFits
  <1>3. /\ call[t].ptr # NULL /\ (call[t].op = "realloc" <=> call[t].new # NULL)
        /\ call[t].ptr # call[t].new
    BY <1>2 DEF CallFits, PtrOps
  <1>4. Hands(call[t]) = {call[t].ptr} \cup (IF call[t].op = "realloc" THEN {call[t].new} ELSE {})
    BY <1>3 DEF Hands
  <1>5. Hands(NoCall) = {} /\ Hands(call[t]) \cap held = {}
    BY DEF Hands, NoCall, Owned
  <1>6. HandsChange(t, NoCall, {}, {call[t].ptr})
    BY <1>3, <1>4, <1>5 DEF HandsChange, Freed
  <1>7. call[t].ptr \in Blocks
    BY <1>4, InBlocks
  <1> QED
    BY <1>6, <1>7, ReturnChanges DEF Freed

(* usable_size, which a block of known size answers with its room. *)
LEMMA UsableChanges ==
  ASSUME InitInv, Owned, GlobalsFit, NEW t \in Threads, pc[t] = "usable", QuietThread(t),
         usable_size(Ptr(t)) \in {0, call[t].ptr.room},
         UsableReturns(t) \/ UsableToMalloc(t) \/ UsableToHook(t)
  PROVE  Changes({}, {})
  <1> DEFINE d == call[t]
  <1>1. pc[t] \in Parts
    BY DEF Parts
  <1>2. CallFits(d, "usable") /\ CallTyped(d) /\ d.base = NULL
    BY <1>1, InPartFits
  <1>3. /\ d.new = NULL /\ d.ptr # NULL /\ d.seen = {}
        /\ Hands(d) = {d.ptr} /\ Hands(d) \cap held = {}
    BY <1>2 DEF CallFits, Hands, Owned, Parts, StoreParts
  <1>4. CASE UsableReturns(t)
    <2>1. HandsChange(t, NoCall, {}, {})
      BY <1>3, <1>4 DEF HandsChange, UsableReturns, Hands, NoCall
    <2> QED
      BY <1>4, <2>1, ReturnChanges DEF UsableReturns
  <1>5. ASSUME NEW op, NEW usable \in {0, d.ptr.room}, NEW part \in FirstParts,
               Enter(t, [d EXCEPT !.op = op, !.usable = usable], part), UNCHANGED held,
               \/ op = "free" /\ part = "free"
               \/ op = "realloc" /\ d.op \in SizeOps
                  /\ (part = "usable" \/ part = MallocPart(d.size))
        PROVE  Changes({}, {})
    <2> DEFINE c == [d EXCEPT !.op = op, !.usable = usable]
    <2>1. /\ c.op = op /\ c.base = NULL /\ c.ptr = d.ptr /\ c.size = d.size /\ c.usable = usable
          /\ c.seen = d.seen /\ c.new = NULL /\ c.refused = d.refused /\ CallTyped(c)
      BY <1>2, <1>3, CallFields DEF CallTyped
    <2>2. CallFits(c, part)
      BY <1>2, <1>3, <1>5, <2>1
         DEF CallFits, AllocParts, SmallParts, FreeParts, PtrOps, SizeOps, MallocPart
    <2>3. Hands(c) = Hands(d)
      BY <2>1, <1>3 DEF Hands
    <2> HIDE DEF c
    <2>4. HandsChange(t, c, {}, {})
      BY <1>3, <1>5, <2>3 DEF HandsChange
    <2>5. Enter(t, c, part)
      BY <1>5 DEF c
    <2> QED
      BY <2>1, <2>2, <2>4, <2>5, EnterChanges
  <1>6. DOMAIN d = DOMAIN NoCall
    BY <1>2 DEF CallTyped
  <1>7. CASE UsableToMalloc(t)
    <2> DEFINE u == usable_size(Ptr(t))
    <2>1. MallocPart(d.size) \in FirstParts
      BY DEF MallocPart, FirstParts
    <2>2. [d EXCEPT !.usable = u] = [d EXCEPT !.op = "realloc", !.usable = u]
      BY <1>6, <1>7, CallFields DEF UsableToMalloc
    <2> QED
      BY <1>5, <1>7, <2>1, <2>2 DEF UsableToMalloc, SizeOps
  <1>8. CASE UsableToHook(t)
    <2>1. \A op : [d EXCEPT !.op = op] = [d EXCEPT !.op = op, !.usable = d.usable]
      BY <1>6, CallFields
    <2>2. d.usable \in {0, d.ptr.room} /\ "free" \in FirstParts /\ "usable" \in FirstParts
      BY <1>2, <1>3 DEF CallFits, FirstParts
    <2> QED
      BY <1>5, <1>8, <2>1, <2>2 DEF UsableToHook, SizeOps
  <1> QED
    BY <1>4, <1>7, <1>8

LEMMA ToOriginalChanges ==
  ASSUME InitInv, Owned, GlobalsFit, NEW t \in Threads, pc[t] = "usable", QuietThread(t),
         UsableToOriginal(t)
  PROVE  call[t].ptr \in Blocks /\ Changes({}, {call[t].ptr})
  <1>1. CallFits(call[t], "usable")
    BY InPartFits DEF Parts
  <1>2. Hands(call[t]) = {call[t].ptr} /\ Hands(call[t]) \cap held = {}
    BY <1>1 DEF CallFits, Hands, Owned
  <1>3. HandsChange(t, NoCall, {}, {call[t].ptr})
    BY <1>2 DEF HandsChange, UsableToOriginal, Hands, NoCall
  <1>4. call[t].ptr \in Blocks
    BY <1>2, InBlocks
  <1> QED
    BY <1>3, <1>4, ReturnChanges DEF UsableToOriginal
-----------------------------------------------------------------------------
(* Memory that no block has a part of. *)
Untouched(a, n) == \A b \in Blocks : a + n <= b.addr \/ b.addr + b.room <= a

BlocksTyped == \A b \in Blocks : IsBlock(b) /\ b.size > 0

LEMMA BlockPages ==
  ASSUME MemoryFits, BlocksTyped, NEW b \in Blocks
  PROVE  /\ b.addr \in Int /\ b.room \in Int /\ b.room >= 1
         /\ b.region # "huge" => tlsf # NULL
         /\ b.region \in {"slab", "tlsf", "bump", "huge"}
         /\ \E p, q \in Int : /\ p < q
                              /\ Within(b.addr, b.room, p, q) /\ InPart(b, p, q)
                              /\ p..(q - 1) \subseteq mapped
  <1>1. IsBlock(b) /\ b.size > 0
    BY DEF BlocksTyped
  <1>2. b.addr \in Int /\ b.room \in Int /\ b.room >= 1 /\ (b.region # "huge" => tlsf # NULL)
    BY <1>1, BlockWhere DEF MemoryFits
  <1>3. PICK p, q \in Int : Within(b.addr, b.room, p, q) /\ InPart(b, p, q) /\ p..(q - 1) \subseteq mapped
    BY <1>1, BlockWhere DEF MemoryFits
  <1>4. Addr(p) < Addr(q)
    BY <1>2, <1>3, AddrInt DEF Within
  <1>5. p < q
    BY <1>4, AddrOrder
  <1> QED
    BY <1>1, <1>2, <1>3, <1>5 DEF IsBlock, Block

(* A new mapping. *)
LEMMA FreshUntouched ==
  ASSUME MemoryFits, BlocksTyped, NEW base \in Int, NEW m \in Int, m >= 2,
         Span(base, m) \cap mapped = {}, NEW a \in Int, NEW n \in Int, Within(a, n, base + 1, base + m)
  PROVE  Untouched(a, n)
  <1> SUFFICES ASSUME NEW b \in Blocks PROVE a + n <= b.addr \/ b.addr + b.room <= a
    BY DEF Untouched
  <1>1. PICK p, q \in Int : p < q /\ Within(b.addr, b.room, p, q) /\ p..(q - 1) \subseteq mapped
    BY BlockPages
  <1>2. Span(p, q - p) = p..(q - 1) /\ q - p \in Int /\ q - p >= 1
    BY <1>1 DEF Span
  <1>3. Span(p, q - p) \cap Span(base, m) = {}
    BY <1>1, <1>2
  <1>4. p + (q - p) <= base \/ base + m <= p
    BY <1>2, <1>3, SpansApart
  <1>5. base + m <= p \/ q <= base + 1
    BY <1>4
  <1>6. b.addr \in Int /\ b.room \in Int /\ base + 1 \in Int /\ base + m \in Int
    BY BlockPages
  <1> QED
    BY <1>1, <1>5, <1>6, WithinApart

(* Pages the arena has not given out yet. *)
LEMMA NewPagesUntouched ==
  ASSUME MemoryFits, BlocksTyped, tlsf # NULL, NEW p \in Int, NEW q \in Int,
         arena + next_free_page <= p, q <= arena + PAGES_PER_ARENA,
         NEW a \in Int, NEW n \in Int, Within(a, n, p, q)
  PROVE  Untouched(a, n)
  <1> SUFFICES ASSUME NEW b \in Blocks PROVE a + n <= b.addr \/ b.addr + b.room <= a
    BY DEF Untouched
  <1>1. PICK x, y \in Int : Within(b.addr, b.room, x, y) /\ InPart(b, x, y)
    BY BlockPages
  <1>2. /\ arena \in Nat /\ arena # NULL /\ tlsf = arena + META_PAGES
        /\ META_PAGES + POOL_PAGES <= next_free_page /\ next_free_page \in Int
    BY ArenaIs, Geometry DEF MemoryFits, PagesFit
  <1>3. b.region \in {"slab", "tlsf", "bump", "huge"}
    BY BlockPages
  <1>4. y <= arena + next_free_page \/ arena + PAGES_PER_ARENA <= x
    BY <1>1, <1>2, <1>3, Geometry DEF InPart, MemoryFits, PagesFit
  <1>5. y <= p \/ q <= x
    BY <1>2, <1>4, Geometry
  <1>6. b.addr \in Int /\ b.room \in Int
    BY BlockPages
  <1> QED
    BY <1>1, <1>5, <1>6, WithinApart

(* A part of the pool that no block in use has a part of. *)
LEMMA PoolUntouched ==
  ASSUME MemoryFits, BlocksTyped, tlsf # NULL,
         NEW a \in Int, NEW n \in Int, Within(a, n, tlsf, tlsf + POOL_PAGES),
         \A e \in pool : a + n <= e[1] \/ e[1] + e[2] <= a
  PROVE  Untouched(a, n)
  <1> SUFFICES ASSUME NEW b \in Blocks PROVE a + n <= b.addr \/ b.addr + b.room <= a
    BY DEF Untouched
  <1>1. PICK x, y \in Int : Within(b.addr, b.room, x, y) /\ InPart(b, x, y)
    BY BlockPages
  <1>2. arena \in Nat /\ arena # NULL /\ tlsf = arena + META_PAGES /\ tlsf \in Int /\ tlsf + POOL_PAGES \in Int
    BY ArenaIs, Geometry DEF MemoryFits, PagesFit
  <1>3. b.region \in {"slab", "tlsf", "bump", "huge"} /\ b.addr \in Int /\ b.room \in Int
    BY BlockPages
  <1>4. CASE b.region = "tlsf"
    <2>1. <<b.addr, b.room>> \in pool
      BY <1>4 DEF MemoryFits, Accounted, In
    <2> QED
      BY <2>1
  <1>5. CASE b.region # "tlsf"
    <2>1. y <= tlsf \/ tlsf + POOL_PAGES <= x
      BY <1>1, <1>2, <1>3, <1>5, Geometry DEF InPart
    <2> QED
      BY <1>1, <1>2, <1>3, <2>1, WithinApart
  <1> QED
    BY <1>4, <1>5

(* A slot that no block is. *)
LEMMA SlotUntouched ==
  ASSUME MemoryFits, BlocksTyped, NEW p \in SlabPages, NEW s \in SlotsOfPage(p, meta[p].size_class),
         s \notin Addrs(In("slab"))
  PROVE  Untouched(s, meta[p].size_class)
  <1> DEFINE n == meta[p].size_class
  <1> SUFFICES ASSUME NEW b \in Blocks PROVE s + n <= b.addr \/ b.addr + b.room <= s
    BY DEF Untouched
  <1>1. /\ n \in 1..PAGE_SIZE /\ p \in DataPages /\ p \in Int /\ p < next_free_page
        /\ arena \in Nat /\ tlsf # NULL /\ s \in Nat /\ Within(s, n, arena + p, arena + p + 1)
    BY SlotWhere DEF MemoryFits
  <1>2. n \in Int /\ s \in Int /\ arena + p \in Int /\ arena + p + 1 \in Int /\ arena # NULL
        /\ next_free_page \in Int /\ next_free_page <= PAGES_PER_ARENA
    BY <1>1, PageSize, Geometry DEF MemoryFits, PagesFit
  <1>3. b.region \in {"slab", "tlsf", "bump", "huge"} /\ b.addr \in Int /\ b.room \in Int
    BY BlockPages
  <1>4. CASE b.region = "slab"
    <2>1. PICK q \in SlabPages : b.addr \in SlotsOfPage(q, meta[q].size_class) /\ b.room = meta[q].size_class
      BY <1>4 DEF MemoryFits, BlocksFit, In, SlabBlock
    <2>2. b.addr # s
      BY <1>4 DEF Addrs, In
    <2>3. CASE q = p
      BY <1>1, <1>2, <2>1, <2>2, <2>3, SlotsApart
    <2>4. CASE q # p
      <3>1. q \in Int /\ Within(b.addr, b.room, arena + q, arena + q + 1)
        BY <2>1, SlotWhere DEF MemoryFits
      <3>2. /\ arena + q \in Int /\ arena + q + 1 \in Int
            /\ arena + q + 1 <= arena + p \/ arena + p + 1 <= arena + q
        BY <1>1, <1>2, <2>4, <3>1
      <3> QED
        BY <1>1, <1>2, <1>3, <3>1, <3>2, WithinApart
    <2> QED
      BY <2>3, <2>4
  <1>5. CASE b.region = "bump"
    <2>1. BumpBlock(b)
      BY <1>5 DEF MemoryFits, BlocksFit, In
    <2>2. PICK q \in DataPages, k \in Int :
            /\ k >= 1 /\ q \in Int /\ Span(q, k) \subseteq DataPages \ SlabPages
            /\ Within(b.addr, b.room, arena + q, arena + q + k)
      BY <1>1, <2>1, BumpWhere DEF MemoryFits
    <2>3. p \notin Span(q, k)
      BY <2>2
    <2>4. p + 1 <= q \/ q + k <= p
      BY <1>1, <2>2, <2>3 DEF Span
    <2>5. /\ arena + q \in Int /\ arena + q + k \in Int
          /\ arena + p + 1 <= arena + q \/ arena + q + k <= arena + p
      BY <1>1, <2>2, <2>4
    <2> QED
      BY <1>1, <1>2, <1>3, <2>2, <2>5, WithinApart
  <1>6. CASE b.region \in {"tlsf", "huge"}
    <2>1. PICK x, y \in Int : Within(b.addr, b.room, x, y) /\ InPart(b, x, y)
      BY BlockPages
    <2>2. META_PAGES + POOL_PAGES <= p
      BY <1>1 DEF DataPages
    <2>3. y <= arena + p \/ arena + p + 1 <= x
      BY <1>1, <1>2, <1>6, <2>1, <2>2, Geometry DEF InPart
    <2> QED
      BY <1>1, <1>2, <1>3, <2>1, <2>3, WithinApart
  <1> QED
    BY <1>3, <1>4, <1>5, <1>6

(* What is untouched is no block. *)
LEMMA UntouchedIsNew ==
  ASSUME MemoryFits, BlocksTyped, NEW b, IsBlock(b), b.size > 0, Untouched(b.addr, b.room)
  PROVE  b \notin Blocks
  <1>1. b.addr \in Nat /\ b.room \in Nat /\ b.size \in Nat /\ b.size <= b.room
    BY DEF IsBlock, Block
  <1> QED
    BY <1>1 DEF Untouched
-----------------------------------------------------------------------------
(* MemoryFits by regions.  A step changes one region, mostly, and leaves the
   others as they are. *)
SlabFits ==
  /\ \A b \in In("slab") : SlabBlock(b)
  /\ available \cup pending \cup Addrs(In("slab")) = SlabSlots
  /\ available \cap pending = {}
  /\ (available \cup pending) \cap Addrs(In("slab")) = {}

BumpRegionFits == \A b \in In("bump") : BumpBlock(b)

PoolRegionFits == PoolFits /\ pool = {<<b.addr, b.room>> : b \in In("tlsf")}

HugeFits ==
  /\ \A b \in In("huge") : HugeBlock(b)
  /\ \A b, c \in In("huge") : b # c => HugeSpan(b) \cap HugeSpan(c) = {}
  /\ HeadersFit
  /\ mapped = UNION (ArenaSpans \cup {HugeSpan(b) : b \in In("huge")})

AllApart == \A b, c \in Blocks : b # c => Apart(b, c)

LEMMA ByRegion ==
  MemoryFits <=> PagesFit /\ SlabFits /\ BumpRegionFits /\ PoolRegionFits /\ HugeFits /\ AllApart
  BY DEF MemoryFits, BlocksFit, Accounted, SlabFits, BumpRegionFits, PoolRegionFits, HugeFits, AllApart

LEMMA ByRegionNext ==
  ASSUME PagesFit', SlabFits', BumpRegionFits', PoolRegionFits', HugeFits', AllApart'
  PROVE  MemoryFits'
  BY DEF MemoryFits, BlocksFit, Accounted, SlabFits, BumpRegionFits, PoolRegionFits, HugeFits, AllApart

(* A region no step of which changes what it depends on. *)
LEMMA SlabKept ==
  ASSUME SlabFits, In("slab")' = In("slab"), UNCHANGED <<meta, arena, available, pending>>
  PROVE  SlabFits'
  <1>1. SlabPages' = SlabPages /\ SlabSlots' = SlabSlots
    BY DEF SlabPages, SlabSlots, SlotsOfPage
  <1>2. \A b : SlabBlock(b)' <=> SlabBlock(b)
    BY <1>1 DEF SlabBlock, SlotsOfPage
  <1> QED
    BY <1>1, <1>2 DEF SlabFits, Addrs

LEMMA BumpKept ==
  ASSUME BumpRegionFits, In("bump")' \subseteq In("bump"), UNCHANGED <<meta, next_free_page, arena>>
  PROVE  BumpRegionFits'
  <1>1. SlabPages' = SlabPages /\ DataPages' = DataPages
    BY DEF SlabPages, DataPages
  <1>2. \A b : BumpBlock(b)' <=> BumpBlock(b)
    BY <1>1 DEF BumpBlock
  <1> QED
    BY <1>2 DEF BumpRegionFits

LEMMA PoolKept ==
  ASSUME PoolRegionFits, In("tlsf")' = In("tlsf"), UNCHANGED <<pool, tlsf>>
  PROVE  PoolRegionFits'
  BY DEF PoolRegionFits, PoolFits

LEMMA HugeKept ==
  ASSUME HugeFits, In("huge")' = In("huge"), Reserved' = Reserved, UNCHANGED osVars
  PROVE  HugeFits'
  <1>1. ArenaSpans' = ArenaSpans
    BY DEF ArenaSpans
  <1>2. \A b : HugeBlock(b)' <=> HugeBlock(b)
    BY DEF HugeBlock, osVars
  <1> QED
    BY <1>1, <1>2 DEF HugeFits, HeadersFit, osVars

LEMMA PagesKept ==
  ASSUME PagesFit, Reserved' = Reserved, UNCHANGED <<pageVars, arena, tlsf>>, stranded' \subseteq ArenaPages,
         tlsf # NULL \/ (/\ UNCHANGED <<pool, available, pending>>
                         /\ \A b \in Blocks' \ Blocks : b.region = "huge")
  PROVE  PagesFit'
  <1>1. SlabPages' = SlabPages /\ DataPages' = DataPages
    BY DEF SlabPages, DataPages, pageVars
  <1> QED
    BY <1>1 DEF PagesFit, pageVars

(* A block more, or one less. *)
LEMMA GainIn ==
  ASSUME NEW b, Blocks' = Blocks \cup {b}, NEW CONSTANT region
  PROVE  In(region)' = IF b.region = region THEN In(region) \cup {b} ELSE In(region)
  BY DEF In

LEMMA GainApart ==
  ASSUME AllApart, NEW b, Untouched(b.addr, b.room), Blocks' = Blocks \cup {b}
  PROVE  AllApart'
  BY DEF AllApart, Untouched, Apart

LEMMA LoseIn ==
  ASSUME NEW b, Blocks' = Blocks \ {b}, NEW CONSTANT region
  PROVE  In(region)' = In(region) \ {b} /\ (b.region # region => In(region)' = In(region))
  BY DEF In

LEMMA LoseApart ==
  ASSUME AllApart, NEW b, Blocks' = Blocks \ {b}
  PROVE  AllApart'
  BY DEF AllApart, Apart

(* A step that changes no memory. *)
LEMMA MemoryKept ==
  ASSUME MemoryFits, Blocks' = Blocks, Reserved' = Reserved,
         UNCHANGED <<osVars, pageVars, slotVars, pool, arena, tlsf>>
  PROVE  MemoryFits'
  <1>1. \A region : In(region)' = In(region)
    BY DEF In
  <1>2. stranded' \subseteq ArenaPages /\ \A b \in Blocks' \ Blocks : b.region = "huge"
    BY DEF MemoryFits, PagesFit, slotVars
  <1>3. PagesFit'
    BY <1>2, PagesKept DEF MemoryFits, slotVars
  <1>4. AllApart'
    BY ByRegion DEF AllApart
  <1>5. SlabFits' /\ BumpRegionFits' /\ PoolRegionFits' /\ HugeFits'
    BY <1>1, ByRegion, SlabKept, BumpKept, PoolKept, HugeKept DEF slotVars, pageVars
  <1> QED
    BY <1>3, <1>4, <1>5, ByRegionNext

-----------------------------------------------------------------------------
(* Huge blocks come and go with their mappings. *)
LEMMA HugeSpanIs ==
  ASSUME NEW b, NEW base \in Int, b.addr = Addr(base + 1)
  PROVE  PageOf(b.addr) = base + 1 /\ PageOf(b.addr) - 1 = base /\ HugeSpan(b) = Span(base, HugePages(b.size))
  <1>1. base + 1 \in Int /\ Addr(base + 1) \in Int /\ Addr(base + 1) < Addr(base + 1 + 1)
    BY AddrInt, AddrOrder
  <1>2. PageOf(b.addr) = base + 1
    BY <1>1, PageOfIs
  <1>3. PageOf(b.addr) - 1 = base
    BY <1>2
  <1> QED
    BY <1>2, <1>3 DEF HugeSpan

LEMMA HugePagesIs ==
  ASSUME NEW n \in Nat, n > 0
  PROVE  HugePages(n) \in Int /\ HugePages(n) >= 2 /\ n <= Addr(HugePages(n) - 1)
  <1>1. HugePages(n) = PagesFor(n) + 1 /\ PagesFor(n) \in Nat /\ PagesFor(n) >= 1 /\ n <= Addr(PagesFor(n))
    BY PagesForIs
  <1>2. HugePages(n) - 1 = PagesFor(n)
    BY <1>1
  <1> QED
    BY <1>1, <1>2

LEMMA HugeNew ==
  ASSUME MemoryFits, BlocksTyped, NEW n \in Nat, n > 0, NEW base \in Fresh(HugePages(n))
  PROVE  LET b == [addr |-> Addr(base + 1), size |-> n, room |-> Addr(HugePages(n) - 1), region |-> "huge"]
         IN  IsBlock(b) /\ Untouched(b.addr, b.room) /\ b \notin Blocks
  <1> DEFINE m == HugePages(n)
             b == [addr |-> Addr(base + 1), size |-> n, room |-> Addr(m - 1), region |-> "huge"]
  <1>1. m \in Int /\ m >= 2 /\ n <= Addr(m - 1)
    BY HugePagesIs
  <1> HIDE DEF m
  <1>2. base \in Bases /\ base \in Nat /\ Span(base, m) \cap mapped = {} /\ Span(base, m) \subseteq OsPages
    BY Geometry DEF Fresh, m
  <1>3. /\ base \in Int /\ base + 1 \in Int /\ base + m \in Int /\ m - 1 \in Int
        /\ Addr(base + 1) \in Int /\ Addr(m - 1) \in Int /\ Addr(base + m) \in Int
    BY <1>1, <1>2, AddrInt
  <1>4. Addr(0) <= Addr(base + 1) /\ Addr(0) = 0
    BY <1>2, <1>3, AddrOrder, AddrIs
  <1>5. Addr(base + m) = Addr(base + 1) + Addr(m - 1)
    <2>1. (base + 1) + (m - 1) = base + m
      BY <1>1, <1>3
    <2>2. Addr((base + 1) + (m - 1)) = Addr(base + 1) + Addr(m - 1)
      BY <1>3, AddrIs
    <2> QED
      BY <2>1, <2>2
  <1>6. IsBlock(b)
    BY <1>1, <1>3, <1>4 DEF IsBlock, Block
  <1>7. Within(Addr(base + 1), Addr(m - 1), base + 1, base + m)
    BY <1>3, <1>5 DEF Within
  <1>8. Untouched(Addr(base + 1), Addr(m - 1))
    BY <1>1, <1>2, <1>3, <1>7, FreshUntouched
  <1>9. b \notin Blocks
    BY <1>6, <1>8, UntouchedIsNew
  <1> QED
    BY <1>6, <1>8, <1>9 DEF m

LEMMA HugeGain ==
  ASSUME MemoryFits, BlocksTyped, NEW n \in Nat, n > 0, NEW base \in Fresh(HugePages(n)),
         huge_alloc(base, n), NEW b, b.region = "huge", b.size = n,
         b.addr = Addr(base + 1), b.room = Addr(HugePages(n) - 1), Untouched(b.addr, b.room),
         Blocks' = Blocks \cup {b}, Reserved' = Reserved,
         UNCHANGED <<pageVars, slotVars, pool, arena, tlsf>>
  PROVE  MemoryFits'
  <1> DEFINE m == HugePages(n)
             H == In("huge")
  <1>1. m \in Nat /\ m >= 2
    BY HugePagesIs
  <1>2. /\ base \in Bases /\ base \in Nat /\ base \in OsPages
        /\ Span(base, m) \cap mapped = {} /\ Span(base, m) \subseteq OsPages
    BY Geometry DEF Fresh
  <1>3. mapped' = mapped \cup Span(base, m) /\ header' = [header EXCEPT ![base] = m]
    BY DEF huge_alloc
  <1>4. /\ PagesFit /\ SlabFits /\ BumpRegionFits /\ PoolRegionFits /\ HugeFits /\ AllApart
    BY ByRegion
  <1>5. H' = H \cup {b} /\ In("slab")' = In("slab") /\ In("bump")' = In("bump") /\ In("tlsf")' = In("tlsf")
    BY GainIn
  <1>6. PagesFit'
    BY <1>4, PagesKept DEF slotVars, PagesFit
  <1>7. SlabFits' /\ BumpRegionFits' /\ PoolRegionFits' /\ AllApart'
    BY <1>4, <1>5, SlabKept, BumpKept, PoolKept, GainApart DEF slotVars, pageVars
  <1>8. HugeSpan(b) = Span(base, m)
    BY <1>2, HugeSpanIs
  <1>9. header \in [OsPages -> Nat] /\ header'[base] = m /\ \A p \in OsPages : p # base => header'[p] = header[p]
    BY <1>2, <1>3, <1>4 DEF HugeFits, HeadersFit
  <1>10. \A r \in Reserved : Span(r, PAGES_PER_ARENA) \subseteq mapped
    BY <1>4 DEF HugeFits, ArenaSpans
  <1>11. HugeBlock(b)'
    <2>1. \A r \in Reserved' : Span(base, HugePages(b.size)) \cap Span(r, PAGES_PER_ARENA) = {}
      BY <1>2, <1>10
    <2> QED
      BY <1>2, <1>9, <2>1 DEF HugeBlock
  <1>12. ASSUME NEW c \in H PROVE HugeBlock(c)' /\ HugeSpan(c) \cap Span(base, m) = {}
    <2>1. PICK d \in Bases : /\ c.addr = Addr(d + 1) /\ c.room = Addr(HugePages(c.size) - 1)
                             /\ header[d] = HugePages(c.size)
                             /\ \A r \in Reserved : Span(d, HugePages(c.size)) \cap Span(r, PAGES_PER_ARENA) = {}
      BY <1>4 DEF HugeFits, HugeBlock
    <2>2. HugeSpan(c) \subseteq mapped
      BY <1>4 DEF HugeFits
    <2>3. d \in Int /\ d \in OsPages
      BY Geometry
    <2>4. HugeSpan(c) = Span(d, HugePages(c.size)) /\ HugePages(c.size) \in Int /\ HugePages(c.size) >= 2
      <3>1. c.size \in Nat /\ c.size > 0
        BY DEF In, BlocksTyped, IsBlock, Block
      <3> QED
        BY <2>1, <2>3, <3>1, HugeSpanIs, HugePagesIs
    <2>5. d # base
      <3>1. d \in Span(d, HugePages(c.size)) /\ base \in Span(base, m)
        BY <1>1, <1>2, <2>3, <2>4 DEF Span
      <3> QED
        BY <1>2, <2>2, <2>4, <3>1
    <2>6. HugeBlock(c)'
      BY <1>9, <2>1, <2>3, <2>5 DEF HugeBlock
    <2> QED
      BY <1>2, <2>2, <2>6
  <1>13. \A c, d \in H' : c # d => HugeSpan(c) \cap HugeSpan(d) = {}
    BY <1>4, <1>5, <1>8, <1>12 DEF HugeFits
  <1>14. HeadersFit'
    <2>1. header' \in [OsPages -> Nat] /\ mapped' \subseteq OsPages
      BY <1>1, <1>2, <1>3, <1>4 DEF HugeFits, HeadersFit
    <2>2. ASSUME NEW p \in OsPages, header'[p] > 0 PROVE \E c \in H' : c.addr = Addr(p + 1)
      <3>1. CASE p = base
        BY <1>5, <3>1
      <3>2. CASE p # base
        BY <1>4, <1>5, <1>9, <2>2, <3>2 DEF HugeFits, HeadersFit
      <3> QED
        BY <3>1, <3>2
    <2> QED
      BY <2>1, <2>2 DEF HeadersFit
  <1>15. mapped' = UNION (ArenaSpans' \cup {HugeSpan(c) : c \in H'})
    <2>1. {HugeSpan(c) : c \in H'} = {HugeSpan(c) : c \in H} \cup {Span(base, m)}
      BY <1>5, <1>8
    <2>2. ArenaSpans' = ArenaSpans /\ mapped = UNION (ArenaSpans \cup {HugeSpan(c) : c \in H})
      BY <1>4 DEF ArenaSpans, HugeFits
    <2> QED
      BY <1>3, <2>1, <2>2
  <1>16. HugeFits'
    BY <1>5, <1>11, <1>12, <1>13, <1>14, <1>15 DEF HugeFits
  <1> QED
    BY <1>6, <1>7, <1>16, ByRegionNext

LEMMA HugeLose ==
  ASSUME MemoryFits, BlocksTyped, NEW b \in In("huge"), huge_free(b.addr),
         Blocks' = Blocks \ {b}, Reserved' = Reserved,
         UNCHANGED <<pageVars, slotVars, pool, arena, tlsf>>
  PROVE  MemoryFits'
  <1> DEFINE H == In("huge")
  <1>1. IsBlock(b) /\ b.size > 0 /\ b.region = "huge"
    BY DEF In, BlocksTyped
  <1>2. PICK base \in Bases, m \in Int :
           /\ m = HugePages(b.size) /\ m >= 2 /\ b.addr = Addr(base + 1)
           /\ PageOf(b.addr) = base + 1 /\ header[base] = m
           /\ HugeSpan(b) = Span(base, m) /\ Span(base, m) \subseteq mapped
    BY <1>1, HugeWhere DEF MemoryFits
  <1>3. base \in Nat /\ base \in OsPages /\ PageOf(b.addr) - 1 = base
    BY <1>2, Geometry
  <1>4. mapped' = mapped \ Span(base, m) /\ header' = [header EXCEPT ![base] = 0]
    BY <1>2, <1>3 DEF huge_free
  <1>5. /\ PagesFit /\ SlabFits /\ BumpRegionFits /\ PoolRegionFits /\ HugeFits /\ AllApart
    BY ByRegion
  <1>6. H' = H \ {b} /\ In("slab")' = In("slab") /\ In("bump")' = In("bump") /\ In("tlsf")' = In("tlsf")
    BY <1>1, LoseIn
  <1>7. PagesFit'
    BY <1>5, PagesKept DEF slotVars, PagesFit
  <1>8. SlabFits' /\ BumpRegionFits' /\ PoolRegionFits' /\ AllApart'
    BY <1>5, <1>6, SlabKept, BumpKept, PoolKept, LoseApart DEF slotVars, pageVars
  <1>9. header \in [OsPages -> Nat] /\ header'[base] = 0 /\ \A p \in OsPages : p # base => header'[p] = header[p]
    BY <1>3, <1>4, <1>5 DEF HugeFits, HeadersFit
  <1>10. ASSUME NEW c \in H, c # b
         PROVE  /\ HugeBlock(c)' /\ HugeSpan(c) \cap Span(base, m) = {}
    <2>1. PICK d \in Bases : /\ c.addr = Addr(d + 1) /\ c.room = Addr(HugePages(c.size) - 1)
                             /\ header[d] = HugePages(c.size)
                             /\ \A r \in Reserved : Span(d, HugePages(c.size)) \cap Span(r, PAGES_PER_ARENA) = {}
      BY <1>5 DEF HugeFits, HugeBlock
    <2>2. d \in Int /\ d \in OsPages
      BY Geometry
    <2>3. HugeSpan(c) = Span(d, HugePages(c.size)) /\ HugePages(c.size) \in Int /\ HugePages(c.size) >= 2
      <3>1. c.size \in Nat /\ c.size > 0
        BY DEF In, BlocksTyped, IsBlock, Block
      <3> QED
        BY <2>1, <2>2, <3>1, HugeSpanIs, HugePagesIs
    <2>4. HugeSpan(c) \cap Span(base, m) = {}
      BY <1>2, <1>5, <1>10 DEF HugeFits
    <2>5. d # base
      <3>1. d \in Span(d, HugePages(c.size)) /\ base \in Span(base, m)
        BY <1>2, <1>3, <2>2, <2>3 DEF Span
      <3> QED
        BY <2>3, <2>4, <3>1
    <2>6. HugeBlock(c)'
      BY <1>9, <2>1, <2>2, <2>5 DEF HugeBlock
    <2> QED
      BY <2>4, <2>6
  <1>11. HeadersFit'
    <2>1. header' \in [OsPages -> Nat] /\ mapped' \subseteq OsPages
      BY <1>4, <1>5 DEF HugeFits, HeadersFit
    <2>2. ASSUME NEW p \in OsPages, header'[p] > 0 PROVE \E c \in H' : c.addr = Addr(p + 1)
      <3>1. p # base
        BY <1>9, <2>2
      <3>2. PICK c \in H : c.addr = Addr(p + 1)
        BY <1>5, <1>9, <2>2, <3>1 DEF HugeFits, HeadersFit
      <3>3. c # b
        <4>1. p \in Int /\ PageOf(c.addr) - 1 = p
          BY <3>2, Geometry, HugeSpanIs
        <4> QED
          BY <1>3, <3>1, <4>1
      <3> QED
        BY <1>6, <3>2, <3>3
    <2> QED
      BY <2>1, <2>2 DEF HeadersFit
  <1>12. mapped' = UNION (ArenaSpans' \cup {HugeSpan(c) : c \in H'})
    <2>1. \A s \in ArenaSpans : s \cap Span(base, m) = {}
      <3>1. PICK d \in Bases : /\ b.addr = Addr(d + 1)
                               /\ \A r \in Reserved : Span(d, HugePages(b.size)) \cap Span(r, PAGES_PER_ARENA) = {}
        BY <1>5 DEF HugeFits, HugeBlock
      <3>2. d = base
        BY <1>3, <3>1, Geometry, HugeSpanIs
      <3> QED
        BY <1>2, <3>1, <3>2 DEF ArenaSpans
    <2>2. ArenaSpans' = ArenaSpans /\ mapped = UNION (ArenaSpans \cup {HugeSpan(c) : c \in H})
      BY <1>5 DEF ArenaSpans, HugeFits
    <2>3. {HugeSpan(c) : c \in H} = {HugeSpan(c) : c \in H'} \cup {Span(base, m)}
      BY <1>2, <1>6
    <2>4. \A s \in {HugeSpan(c) : c \in H'} : s \cap Span(base, m) = {}
      BY <1>6, <1>10
    <2> QED
      BY <1>4, <2>1, <2>2, <2>3, <2>4
  <1>13. HugeFits'
    BY <1>5, <1>6, <1>10, <1>11, <1>12 DEF HugeFits
  <1> QED
    BY <1>7, <1>8, <1>13, ByRegionNext
-----------------------------------------------------------------------------
(* Slots are taken and given back. *)
LEMMA SlotNew ==
  ASSUME MemoryFits, BlocksTyped, NEW p \in SlabPages, NEW s \in SlotsOfPage(p, meta[p].size_class),
         s \notin Addrs(In("slab")), NEW n \in Nat, n > 0, n <= meta[p].size_class
  PROVE  LET b == [addr |-> s, size |-> n, room |-> meta[p].size_class, region |-> "slab"]
         IN  IsBlock(b) /\ Untouched(b.addr, b.room) /\ b \notin Blocks
  <1> DEFINE c == meta[p].size_class
             b == [addr |-> s, size |-> n, room |-> c, region |-> "slab"]
  <1>1. c \in Nat /\ s \in Nat
    BY SlotWhere, PageSize DEF MemoryFits
  <1>2. Untouched(s, c)
    BY SlotUntouched
  <1> HIDE DEF c
  <1>3. IsBlock(b)
    BY <1>1 DEF IsBlock, Block, c
  <1>4. b \notin Blocks
    BY <1>2, <1>3, UntouchedIsNew
  <1> QED
    BY <1>2, <1>3, <1>4 DEF c

LEMMA SlotGain ==
  ASSUME MemoryFits, NEW s \in available, available' = available \ {s},
         NEW b, b.region = "slab", b.addr = s, b.room = MetaOf(s).size_class, Untouched(b.addr, b.room),
         Blocks' = Blocks \cup {b}, Reserved' = Reserved,
         UNCHANGED <<osVars, pageVars, pending, stranded, pool, arena, tlsf>>
  PROVE  MemoryFits'
  <1>1. /\ PagesFit /\ SlabFits /\ BumpRegionFits /\ PoolRegionFits /\ HugeFits /\ AllApart
    BY ByRegion
  <1>2. /\ In("slab")' = In("slab") \cup {b} /\ In("huge")' = In("huge")
        /\ In("bump")' = In("bump") /\ In("tlsf")' = In("tlsf")
    BY GainIn
  <1>3. PICK p \in SlabPages : s \in SlotsOfPage(p, meta[p].size_class)
    BY <1>1 DEF SlabFits, SlabSlots
  <1>4. ptr_to_page_index(s) = p /\ tlsf # NULL
    BY <1>1, <1>3, SlotWhere
  <1>5. PagesFit'
    BY <1>1, <1>4, PagesKept DEF PagesFit
  <1>6. HugeFits' /\ BumpRegionFits' /\ PoolRegionFits' /\ AllApart'
    BY <1>1, <1>2, HugeKept, BumpKept, PoolKept, GainApart DEF pageVars
  <1>7. SlabPages' = SlabPages /\ SlabSlots' = SlabSlots
    BY DEF SlabPages, SlabSlots, SlotsOfPage, pageVars
  <1>8. \A c : SlabBlock(c)' <=> SlabBlock(c)
    BY <1>7 DEF SlabBlock, SlotsOfPage, pageVars
  <1>9. SlabBlock(b)
    BY <1>3, <1>4 DEF SlabBlock, MetaOf
  <1>10. Addrs(In("slab"))' = Addrs(In("slab")) \cup {s}
    BY <1>2 DEF Addrs
  <1>11. SlabFits'
    BY <1>1, <1>2, <1>7, <1>8, <1>9, <1>10 DEF SlabFits
  <1> QED
    BY <1>5, <1>6, <1>11, ByRegionNext

(* A slot given back is free or pending, and no other block is that slot. *)
LEMMA SlotLose ==
  ASSUME MemoryFits, BlocksTyped, NEW b \in In("slab"),
         available' \cup pending' = available \cup pending \cup {b.addr},
         available' \cap pending' = {},
         stranded' \subseteq ArenaPages,
         Blocks' = Blocks \ {b}, Reserved' = Reserved,
         UNCHANGED <<osVars, pageVars, pool, arena, tlsf>>
  PROVE  MemoryFits'
  <1>1. /\ PagesFit /\ SlabFits /\ BumpRegionFits /\ PoolRegionFits /\ HugeFits /\ AllApart
    BY ByRegion
  <1>2. b \in Blocks /\ b.region = "slab"
    BY DEF In
  <1>3. /\ In("slab")' = In("slab") \ {b} /\ In("huge")' = In("huge")
        /\ In("bump")' = In("bump") /\ In("tlsf")' = In("tlsf")
    BY <1>2, LoseIn
  <1>4. tlsf # NULL
    BY <1>2, BlockPages
  <1>5. PagesFit'
    BY <1>1, <1>4, PagesKept
  <1>6. HugeFits' /\ BumpRegionFits' /\ PoolRegionFits' /\ AllApart'
    BY <1>1, <1>3, HugeKept, BumpKept, PoolKept, LoseApart DEF pageVars
  <1>7. SlabPages' = SlabPages /\ SlabSlots' = SlabSlots
    BY DEF SlabPages, SlabSlots, SlotsOfPage, pageVars
  <1>8. \A c : SlabBlock(c)' <=> SlabBlock(c)
    BY <1>7 DEF SlabBlock, SlotsOfPage, pageVars
  <1>9. \A c \in In("slab") : c # b => c.addr # b.addr
    <2> SUFFICES ASSUME NEW c \in In("slab"), c # b, c.addr = b.addr PROVE FALSE
      OBVIOUS
    <2>1. c \in Blocks /\ Apart(c, b)
      BY <1>1, <1>2 DEF In, AllApart
    <2>2. /\ b.addr \in Int /\ b.room \in Int /\ b.room >= 1
          /\ c.addr \in Int /\ c.room \in Int /\ c.room >= 1
      BY <1>2, <2>1, BlockPages
    <2> QED
      BY <2>1, <2>2 DEF Apart
  <1>10. Addrs(In("slab"))' = Addrs(In("slab")) \ {b.addr} /\ b.addr \in Addrs(In("slab"))
    BY <1>3, <1>9 DEF Addrs
  <1>11. SlabFits'
    <2>1. \A c \in In("slab")' : SlabBlock(c)'
      BY <1>1, <1>3, <1>8 DEF SlabFits
    <2>2. available' \cup pending' \cup Addrs(In("slab"))' = SlabSlots'
      BY <1>1, <1>7, <1>10 DEF SlabFits
    <2>3. (available' \cup pending') \cap Addrs(In("slab"))' = {}
      BY <1>1, <1>10 DEF SlabFits
    <2> QED
      BY <2>1, <2>2, <2>3 DEF SlabFits
  <1> QED
    BY <1>5, <1>6, <1>11, ByRegionNext

(* The owner takes back what others have freed. *)
LEMMA SlotsDrained ==
  ASSUME MemoryFits, NEW S \in SUBSET pending, available' = available \cup S, pending' = pending \ S,
         Blocks' = Blocks, Reserved' = Reserved,
         UNCHANGED <<osVars, pageVars, stranded, pool, arena, tlsf>>
  PROVE  MemoryFits'
  <1>1. /\ PagesFit /\ SlabFits /\ BumpRegionFits /\ PoolRegionFits /\ HugeFits /\ AllApart
    BY ByRegion
  <1>2. \A region : In(region)' = In(region)
    BY DEF In
  <1>3. PagesFit'
    <2>1. tlsf = NULL => UNCHANGED <<pool, available, pending>>
      BY <1>1 DEF PagesFit
    <2> QED
      BY <1>1, <2>1, PagesKept DEF PagesFit
  <1>4. HugeFits' /\ BumpRegionFits' /\ PoolRegionFits' /\ AllApart'
    BY <1>1, <1>2, HugeKept, BumpKept, PoolKept DEF pageVars, AllApart
  <1>5. SlabPages' = SlabPages /\ SlabSlots' = SlabSlots
    BY DEF SlabPages, SlabSlots, SlotsOfPage, pageVars
  <1>6. \A c : SlabBlock(c)' <=> SlabBlock(c)
    BY <1>5 DEF SlabBlock, SlotsOfPage, pageVars
  <1>7. Addrs(In("slab"))' = Addrs(In("slab"))
    BY <1>2 DEF Addrs
  <1>8. SlabFits'
    BY <1>1, <1>2, <1>5, <1>6, <1>7 DEF SlabFits
  <1> QED
    BY <1>3, <1>4, <1>8, ByRegionNext
-----------------------------------------------------------------------------
(* Pages of the arena are given out. *)
LEMMA PageFacts ==
  ASSUME PagesFit, tlsf # NULL
  PROVE  /\ arena \in Nat /\ arena # NULL /\ tlsf \in Nat /\ tlsf = arena + META_PAGES
         /\ next_free_page \in Nat /\ META_PAGES + POOL_PAGES <= next_free_page
         /\ \A p \in SlabPages : p \in Int /\ p < next_free_page
         /\ \A p \in DataPages : p \in Int /\ p < next_free_page
         /\ \A p \in ArenaPages \ SlabPages : meta[p] = EmptyMeta
  <1>1. /\ arena # NULL /\ tlsf = arena + META_PAGES /\ META_PAGES + POOL_PAGES <= next_free_page
        /\ next_free_page \in 0..PAGES_PER_ARENA /\ SlabPages \subseteq DataPages
    BY DEF PagesFit
  <1>2. arena \in Nat /\ tlsf \in Nat /\ next_free_page \in Nat
    BY <1>1, ArenaIs, Geometry
  <1>3. \A p \in DataPages : p \in Int /\ p < next_free_page
    BY <1>2, Geometry DEF DataPages
  <1>4. ASSUME NEW p \in ArenaPages \ SlabPages PROVE meta[p] = EmptyMeta
    <2>1. meta[p] \in [size_class : Classes, owner_id : Threads] \cup {EmptyMeta} /\ meta[p].size_class = NO_CLASS
      BY DEF PagesFit, SlabPages
    <2>2. \A m \in [size_class : Classes, owner_id : Threads] : m.size_class # NO_CLASS
      BY Geometry
    <2> QED
      BY <2>1, <2>2
  <1> QED
    BY <1>1, <1>2, <1>3, <1>4

LEMMA PageNew ==
  ASSUME MemoryFits, BlocksTyped, tlsf # NULL, BumpFits(1), NEW c \in Classes,
         NEW n \in Nat, n > 0, n <= c
  PROVE  LET b == [addr |-> Addr(arena + next_free_page), size |-> n, room |-> c, region |-> "slab"]
         IN  IsBlock(b) /\ Untouched(b.addr, b.room) /\ b \notin Blocks
  <1> DEFINE p == next_free_page
             a == Addr(arena + p)
             b == [addr |-> a, size |-> n, room |-> c, region |-> "slab"]
  <1>1. PagesFit
    BY DEF MemoryFits
  <1>2. arena \in Nat /\ p \in Nat /\ p + 1 <= PAGES_PER_ARENA
    BY <1>1, PageFacts DEF BumpFits
  <1>3. c \in 1..PAGE_SIZE /\ c \in Nat
    BY Geometry, PageSize
  <1>4. arena + p \in Int /\ a \in SlotsOfPage(p, c)
    BY <1>2, <1>3, FirstSlot
  <1>5. a \in Int /\ Within(a, c, arena + p, arena + p + 1)
    <2>1. a \in Int /\ Addr(arena + p) <= a /\ a + c <= Addr(arena + p + 1)
      BY <1>2, <1>3, <1>4, SlotInPage
    <2> QED
      BY <2>1 DEF Within
  <1>6. Untouched(a, c)
    <2>1. arena + p + 1 \in Int /\ arena + p + 1 <= arena + PAGES_PER_ARENA /\ arena + p <= arena + p /\ c \in Int
      BY <1>2, <1>3, Geometry
    <2> QED
      BY <1>4, <1>5, <2>1, NewPagesUntouched
  <1>7. a \in Nat
    BY <1>2, <1>4, AddrOrder, AddrIs, AddrInt, PageSize DEF Addr
  <1> HIDE DEF a
  <1>8. IsBlock(b)
    BY <1>3, <1>7 DEF IsBlock, Block
  <1>9. b \notin Blocks
    BY <1>6, <1>8, UntouchedIsNew
  <1> QED
    BY <1>6, <1>8, <1>9 DEF a

LEMMA PageGain ==
  ASSUME MemoryFits, tlsf # NULL, NEW t \in Threads, NEW c \in Classes, CarvePage(t, c),
         NEW b, b.region = "slab", b.addr = Addr(arena + next_free_page), b.room = c,
         Untouched(b.addr, b.room),
         Blocks' = Blocks \cup {b}, Reserved' = Reserved,
         UNCHANGED <<osVars, pool, arena, tlsf>>
  PROVE  MemoryFits'
  <1> DEFINE p == next_free_page
             new == SlotsOfPage(p, c)
  <1>1. /\ PagesFit /\ SlabFits /\ BumpRegionFits /\ PoolRegionFits /\ HugeFits /\ AllApart
    BY ByRegion
  <1>2. /\ In("slab")' = In("slab") \cup {b} /\ In("huge")' = In("huge")
        /\ In("bump")' = In("bump") /\ In("tlsf")' = In("tlsf")
    BY GainIn
  <1>3. /\ p + 1 <= PAGES_PER_ARENA /\ next_free_page' = p + 1
        /\ meta' = [meta EXCEPT ![p] = [size_class |-> c, owner_id |-> t]]
        /\ available' = available \cup (new \ {b.addr})
        /\ UNCHANGED <<pending, stranded>>
    BY DEF CarvePage, BumpFits
  <1>4. /\ arena \in Nat /\ arena # NULL /\ p \in Nat /\ META_PAGES + POOL_PAGES <= p
        /\ tlsf = arena + META_PAGES
        /\ \A q \in SlabPages : q \in Int /\ q < p
        /\ \A q \in DataPages : q \in Int /\ q < p
    BY <1>1, PageFacts
  <1>5. c \in 1..PAGE_SIZE /\ c # NO_CLASS
    BY Geometry
  <1>6. p \in ArenaPages /\ p \notin SlabPages /\ p \notin DataPages
    BY <1>3, <1>4, Geometry DEF ArenaPages
  <1>7. DataPages' = DataPages \cup {p}
    BY <1>3, <1>4, Geometry DEF DataPages
  <1>8. /\ meta' \in [ArenaPages -> [size_class : Classes, owner_id : Threads] \cup {EmptyMeta}]
        /\ meta'[p].size_class = c /\ \A q \in ArenaPages \ {p} : meta'[q] = meta[q]
    BY <1>1, <1>3, <1>6 DEF PagesFit
  <1>9. SlabPages' = SlabPages \cup {p}
    BY <1>5, <1>6, <1>8 DEF SlabPages
  <1>10. PagesFit'
    <2>1. next_free_page' \in 0..PAGES_PER_ARENA /\ META_PAGES + POOL_PAGES <= next_free_page'
      BY <1>3, <1>4, Geometry
    <2>2. SlabPages' \subseteq DataPages' /\ stranded' \subseteq ArenaPages
      BY <1>1, <1>3, <1>7, <1>9 DEF PagesFit
    <2>3. Reserved' \subseteq Bases /\ \A r, q \in Reserved' : r = q
      BY <1>1 DEF PagesFit
    <2> QED
      BY <1>4, <1>8, <2>1, <2>2, <2>3 DEF PagesFit
  <1>11. HugeFits' /\ PoolRegionFits' /\ AllApart'
    BY <1>1, <1>2, HugeKept, PoolKept, GainApart
  <1>12. BumpRegionFits'
    <2> SUFFICES ASSUME NEW d \in In("bump") PROVE BumpBlock(d)'
      BY <1>2 DEF BumpRegionFits
    <2>1. PICK q \in DataPages, n \in 1..PAGES_PER_ARENA :
            /\ d.addr = Addr(arena + q) /\ d.room = Addr(n) /\ Span(q, n) \subseteq DataPages \ SlabPages
      BY <1>1 DEF BumpRegionFits, BumpBlock
    <2>2. q \in DataPages' /\ Span(q, n) \subseteq DataPages' \ SlabPages'
      BY <1>6, <1>7, <1>9, <2>1
    <2> QED
      BY <2>1, <2>2 DEF BumpBlock
  <1>13. \A q \in SlabPages : meta'[q] = meta[q]
    BY <1>6, <1>8 DEF SlabPages
  <1>14. \A s : s \in SlabSlots' <=> \E q \in SlabPages' : s \in SlotsOfPage(q, meta'[q].size_class)
    BY DEF SlabSlots, SlotsOfPage
  <1>15. SlabSlots' = SlabSlots \cup new
    <2>1. \A s : s \in SlabSlots' <=> s \in new \/ \E q \in SlabPages : s \in SlotsOfPage(q, meta[q].size_class)
      BY <1>8, <1>9, <1>13, <1>14, Zenon
    <2>2. \A s : s \in SlabSlots <=> \E q \in SlabPages : s \in SlotsOfPage(q, meta[q].size_class)
      BY DEF SlabSlots
    <2> QED
      BY <2>1, <2>2, Zenon
  <1>16. new \cap SlabSlots = {}
    <2> SUFFICES ASSUME NEW s \in new, NEW q \in SlabPages, s \in SlotsOfPage(q, meta[q].size_class) PROVE FALSE
      BY DEF SlabSlots
    <2>1. q \in Int /\ q < p /\ s \in Int /\ Within(s, meta[q].size_class, arena + q, arena + q + 1)
          /\ meta[q].size_class \in 1..PAGE_SIZE
      BY <1>1, <1>4, SlotWhere
    <2>2. Addr(arena + p) <= s
      BY <1>4, <1>5, SlotInPage
    <2>3. arena + q + 1 \in Int /\ arena + p \in Int /\ arena + q + 1 <= arena + p
      BY <1>4, <2>1
    <2>4. Addr(arena + q + 1) <= Addr(arena + p) /\ Addr(arena + q + 1) \in Int /\ Addr(arena + p) \in Int
      BY <2>3, AddrOrder, AddrInt
    <2>5. s + meta[q].size_class <= Addr(arena + q + 1) /\ meta[q].size_class \in Int /\ meta[q].size_class >= 1
      BY <2>1, PageSize DEF Within
    <2> QED
      BY <2>1, <2>2, <2>4, <2>5
  <1>17. b.addr \in new
    BY <1>4, <1>5, FirstSlot
  <1>18. Addrs(In("slab"))' = Addrs(In("slab")) \cup {b.addr}
    BY <1>2 DEF Addrs
  <1>19. \A d \in In("slab")' : SlabBlock(d)'
    <2> SUFFICES ASSUME NEW d \in In("slab")'
                 PROVE  \E q \in SlabPages' : d.addr \in SlotsOfPage(q, meta'[q].size_class) /\ d.room = meta'[q].size_class
      BY DEF SlabBlock, SlotsOfPage
    <2>1. CASE d = b
      BY <1>8, <1>9, <1>17, <2>1
    <2>2. CASE d \in In("slab")
      BY <1>1, <1>9, <1>13, <2>2 DEF SlabFits, SlabBlock
    <2> QED
      BY <1>2, <2>1, <2>2
  <1>20. SlabFits'
    <2>1. available' \cup pending' \cup Addrs(In("slab"))' = SlabSlots'
      BY <1>1, <1>3, <1>15, <1>17, <1>18 DEF SlabFits
    <2>2. available' \cap pending' = {}
      BY <1>1, <1>3, <1>16 DEF SlabFits
    <2>3. (available' \cup pending') \cap Addrs(In("slab"))' = {}
      BY <1>1, <1>3, <1>16, <1>17, <1>18 DEF SlabFits
    <2> QED
      BY <1>19, <2>1, <2>2, <2>3 DEF SlabFits
  <1> QED
    BY <1>10, <1>11, <1>12, <1>20, ByRegionNext

(* The arena gives whole pages to a block, or to the pool. *)
LEMMA TakenPages ==
  ASSUME PagesFit, NEW n \in Nat, TakePages(n),
         \A p \in ArenaPages : p >= next_free_page => meta[p] = EmptyMeta
  PROVE  meta' = meta /\ next_free_page' = next_free_page + n
  <1>1. /\ meta \in [ArenaPages -> [size_class : Classes, owner_id : Threads] \cup {EmptyMeta}]
        /\ next_free_page \in Nat
    BY Geometry DEF PagesFit
  <1>2. \A p \in ArenaPages : p \in Span(next_free_page, n) => [meta[p] EXCEPT !.size_class = NO_CLASS] = meta[p]
    <2>1. [EmptyMeta EXCEPT !.size_class = NO_CLASS] = EmptyMeta
      BY DEF EmptyMeta
    <2>2. \A p \in ArenaPages : p \in Span(next_free_page, n) => p >= next_free_page
      BY <1>1, Geometry DEF Span
    <2> QED
      BY <2>1, <2>2
  <1>3. \A p \in ArenaPages : meta'[p] = meta[p]
    BY <1>1, <1>2 DEF TakePages
  <1> QED
    BY <1>1, <1>3 DEF TakePages

LEMMA BumpNew ==
  ASSUME MemoryFits, BlocksTyped, tlsf # NULL, NEW n \in Nat, n > 0, BumpFits(PagesFor(n))
  PROVE  LET b == [addr |-> Addr(arena + next_free_page), size |-> n, room |-> Addr(PagesFor(n)),
                   region |-> "bump"]
         IN  IsBlock(b) /\ Untouched(b.addr, b.room) /\ b \notin Blocks
  <1> DEFINE p == next_free_page
             m == PagesFor(n)
             a == Addr(arena + p)
             r == Addr(m)
             b == [addr |-> a, size |-> n, room |-> r, region |-> "bump"]
  <1>1. PagesFit
    BY DEF MemoryFits
  <1>2. m \in Nat /\ m >= 1 /\ n <= r
    BY PagesForIs
  <1>3. arena \in Nat /\ p \in Nat /\ p + m <= PAGES_PER_ARENA
    BY <1>1, PageFacts DEF BumpFits
  <1> HIDE DEF m
  <1>4. arena + p \in Int /\ (arena + p) + m \in Int /\ m \in Int /\ (arena + p) + m <= arena + PAGES_PER_ARENA
    BY <1>2, <1>3, Geometry
  <1>5. Addr((arena + p) + m) = a + r /\ a \in Int /\ r \in Int
    BY <1>4, AddrIs
  <1>6. 0 \in Int /\ 0 <= arena + p /\ Addr(0) = 0
    BY <1>3, AddrIs
  <1>7. a \in Nat /\ r \in Nat
    BY <1>2, <1>4, <1>5, <1>6, AddrOrder
  <1>8. Within(a, r, arena + p, (arena + p) + m)
    BY <1>5 DEF Within
  <1>9. Untouched(a, r)
    BY <1>4, <1>5, <1>8, NewPagesUntouched
  <1> HIDE DEF a, r
  <1>10. IsBlock(b)
    BY <1>2, <1>7 DEF IsBlock, Block
  <1>11. b \notin Blocks
    BY <1>9, <1>10, UntouchedIsNew
  <1> QED
    BY <1>9, <1>10, <1>11 DEF a, r, m

LEMMA BumpGain ==
  ASSUME MemoryFits, tlsf # NULL, NEW n \in Nat, n >= 1, BumpFits(n), TakePages(n),
         NEW b, b.region = "bump", b.addr = Addr(arena + next_free_page), b.room = Addr(n),
         Untouched(b.addr, b.room),
         Blocks' = Blocks \cup {b}, Reserved' = Reserved,
         UNCHANGED <<osVars, slotVars, pool, arena, tlsf>>
  PROVE  MemoryFits'
  <1> DEFINE p == next_free_page
  <1>1. /\ PagesFit /\ SlabFits /\ BumpRegionFits /\ PoolRegionFits /\ HugeFits /\ AllApart
    BY ByRegion
  <1>2. /\ In("slab")' = In("slab") /\ In("huge")' = In("huge")
        /\ In("bump")' = In("bump") \cup {b} /\ In("tlsf")' = In("tlsf")
    BY GainIn
  <1>3. /\ arena \in Nat /\ arena # NULL /\ p \in Nat /\ META_PAGES + POOL_PAGES <= p
        /\ tlsf = arena + META_PAGES
        /\ \A q \in SlabPages : q \in Int /\ q < p
        /\ \A q \in DataPages : q \in Int /\ q < p
    BY <1>1, PageFacts
  <1>4. \A q \in ArenaPages : q >= p => meta[q] = EmptyMeta
    <2>1. \A q \in ArenaPages : q \in Int
      BY Geometry
    <2>2. \A q \in ArenaPages : q >= p => q \notin SlabPages
      BY <1>3, <2>1
    <2> QED
      BY <1>1, <2>2, PageFacts
  <1>5. meta' = meta /\ next_free_page' = p + n /\ p + n <= PAGES_PER_ARENA
    BY <1>1, <1>4, TakenPages DEF BumpFits
  <1>6. SlabPages' = SlabPages /\ DataPages' = DataPages \cup Span(p, n)
    BY <1>3, <1>5, Geometry DEF SlabPages, DataPages, Span
  <1>7. PagesFit'
    <2>1. next_free_page' \in 0..PAGES_PER_ARENA /\ META_PAGES + POOL_PAGES <= next_free_page'
      BY <1>3, <1>5, Geometry
    <2>2. SlabPages' \subseteq DataPages' /\ stranded' \subseteq ArenaPages
      BY <1>1, <1>6 DEF PagesFit, slotVars
    <2>3. Reserved' \subseteq Bases /\ \A r, q \in Reserved' : r = q
      BY <1>1 DEF PagesFit
    <2> QED
      BY <1>1, <1>3, <1>5, <2>1, <2>2, <2>3 DEF PagesFit
  <1>8. SlabFits' /\ HugeFits' /\ PoolRegionFits' /\ AllApart'
    BY <1>1, <1>2, <1>5, SlabKept, HugeKept, PoolKept, GainApart DEF slotVars
  <1>9. BumpBlock(b)'
    <2>1. p \in Span(p, n) /\ n \in 1..PAGES_PER_ARENA /\ p \in DataPages'
      BY <1>3, <1>5, <1>6, Geometry DEF Span
    <2>2. Span(p, n) \subseteq DataPages' \ SlabPages'
      BY <1>3, <1>6 DEF Span
    <2>3. \E q \in DataPages', k \in 1..PAGES_PER_ARENA :
             b.addr = Addr(arena + q) /\ b.room = Addr(k) /\ Span(q, k) \subseteq DataPages' \ SlabPages'
      BY <2>1, <2>2
    <2> QED
      BY <2>3 DEF BumpBlock
  <1>10. ASSUME NEW d \in In("bump") PROVE BumpBlock(d)'
    <2>1. \E q \in DataPages', k \in 1..PAGES_PER_ARENA :
             d.addr = Addr(arena + q) /\ d.room = Addr(k) /\ Span(q, k) \subseteq DataPages' \ SlabPages'
      BY <1>1, <1>6 DEF BumpRegionFits, BumpBlock
    <2> QED
      BY <2>1 DEF BumpBlock
  <1>11. BumpRegionFits'
    BY <1>2, <1>9, <1>10 DEF BumpRegionFits
  <1> QED
    BY <1>7, <1>8, <1>11, ByRegionNext

(* The pages of a freed bump block stay taken. *)
LEMMA BumpLose ==
  ASSUME MemoryFits, NEW b, b.region = "bump",
         Blocks' = Blocks \ {b}, Reserved' = Reserved, b \in Blocks, BlocksTyped,
         UNCHANGED <<osVars, pageVars, slotVars, pool, arena, tlsf>>
  PROVE  MemoryFits'
  <1>1. /\ PagesFit /\ SlabFits /\ BumpRegionFits /\ PoolRegionFits /\ HugeFits /\ AllApart
    BY ByRegion
  <1>2. /\ In("slab")' = In("slab") /\ In("huge")' = In("huge")
        /\ In("bump")' = In("bump") \ {b} /\ In("tlsf")' = In("tlsf")
    BY LoseIn
  <1>3. tlsf # NULL
    BY BlockPages
  <1>4. PagesFit'
    BY <1>1, <1>3, PagesKept DEF PagesFit, slotVars
  <1>5. SlabFits' /\ HugeFits' /\ PoolRegionFits' /\ AllApart' /\ BumpRegionFits'
    BY <1>1, <1>2, SlabKept, HugeKept, PoolKept, BumpKept, LoseApart DEF slotVars, pageVars
  <1> QED
    BY <1>4, <1>5, ByRegionNext
-----------------------------------------------------------------------------
(* TLSF's answer lies between two blocks in use.  Behind every start there is
   a next header, the sentinel's if no other. *)
LEMMA NextHeader ==
  ASSUME PagesFit, PoolFits, tlsf # NULL, NEW start \in PoolStarts
  PROVE  \E h \in PoolHeaders :
           /\ h \in Int /\ GapAfter(start) = (h - start) - 1 /\ start <= h
           /\ h <= Addr(tlsf + POOL_PAGES) - 1
           /\ \A g \in PoolHeaders : start <= g => h <= g
  <1> DEFINE S == {h \in PoolHeaders : start <= h}
             sentinel == Addr(tlsf + POOL_PAGES) - 1
  <1>1. /\ tlsf \in Nat /\ Addr(tlsf) \in Int /\ Addr(tlsf + POOL_PAGES) \in Int
        /\ Addr(tlsf) < Addr(tlsf + POOL_PAGES) /\ 0 <= Addr(tlsf)
    <2>1. tlsf \in Int /\ tlsf + POOL_PAGES \in Int /\ tlsf < tlsf + POOL_PAGES /\ 0 <= tlsf /\ 0 \in Int
      BY PageFacts, Geometry
    <2>2. Addr(0) = 0 /\ Addr(0) <= Addr(tlsf)
      BY <2>1, AddrOrder, AddrIs
    <2> QED
      BY <2>1, <2>2, AddrOrder, AddrInt, PageFacts
  <1>2. \A e \in pool : /\ e[1] \in Int /\ e[2] \in Int /\ Addr(tlsf) < e[1]
                        /\ e[2] >= 1 /\ e[1] + e[2] < Addr(tlsf + POOL_PAGES)
    BY DEF PoolFits
  <1>3. start \in Int /\ 0 <= start /\ start <= sentinel
    BY <1>1, <1>2 DEF PoolStarts
  <1>4. sentinel \in S /\ \A h \in PoolHeaders : h \in Int
    BY <1>1, <1>2, <1>3 DEF PoolHeaders
  <1>5. S \subseteq Nat /\ S # {}
    BY <1>3, <1>4
  <1> HIDE DEF sentinel
  <1>6. PICK h \in S : \A g \in S : h <= g
    <2> HIDE DEF S
    <2> QED
      BY <1>5, Least
  <1> DEFINE Closest(k) == start <= k /\ \A g \in PoolHeaders : start <= g => k <= g
  <1>7. \A k \in PoolHeaders : Closest(k) => k = h
    BY <1>4, <1>6
  <1>8. h \in PoolHeaders /\ Closest(h)
    BY <1>6
  <1>9. (CHOOSE k \in PoolHeaders : Closest(k)) = h
    <2> HIDE DEF Closest
    <2> QED
      BY <1>7, <1>8
  <1>10. GapAfter(start) = (h - start) - 1
    BY <1>9 DEF GapAfter
  <1>11. h <= Addr(tlsf + POOL_PAGES) - 1
    BY <1>4, <1>6 DEF sentinel
  <1> QED
    BY <1>4, <1>8, <1>10, <1>11

LEMMA ChoiceIs ==
  ASSUME PagesFit, PoolFits, tlsf # NULL, NEW n \in Nat, n > 0, NEW e \in PoolChoices(n)
  PROVE  /\ e = <<e[1], e[2]>> /\ e[1] \in Nat /\ e[2] \in Nat /\ n <= e[2]
         /\ Addr(tlsf) < e[1] /\ e[1] + e[2] < Addr(tlsf + POOL_PAGES)
         /\ \A f \in pool : e[1] + e[2] < f[1] \/ f[1] + f[2] < e[1]
  <1>1. PICK start \in PoolStarts : n <= GapAfter(start) /\ e = PoolBlock(start, n)
    BY DEF PoolChoices
  <1>2. PICK h \in PoolHeaders : /\ h \in Int /\ GapAfter(start) = (h - start) - 1 /\ start <= h
                                 /\ h <= Addr(tlsf + POOL_PAGES) - 1
                                 /\ \A g \in PoolHeaders : start <= g => h <= g
    BY NextHeader
  <1>3. /\ e = <<e[1], e[2]>> /\ e[1] = start + 1
        /\ e[2] = (IF GapAfter(start) - n < 2 THEN GapAfter(start) ELSE n)
    BY <1>1 DEF PoolBlock
  <1>4. /\ tlsf \in Nat /\ Addr(tlsf) \in Int /\ Addr(tlsf + POOL_PAGES) \in Int /\ 0 <= Addr(tlsf)
    <2>1. tlsf \in Int /\ tlsf + POOL_PAGES \in Int /\ 0 <= tlsf /\ 0 \in Int
      BY PageFacts, Geometry
    <2>2. Addr(0) = 0 /\ Addr(0) <= Addr(tlsf)
      BY <2>1, AddrOrder, AddrIs
    <2> QED
      BY <2>1, <2>2, AddrInt, PageFacts
  <1>5. \A f \in pool : /\ f[1] \in Int /\ f[2] \in Int /\ Addr(tlsf) < f[1]
                        /\ f[2] >= 1 /\ f[1] + f[2] < Addr(tlsf + POOL_PAGES)
    BY DEF PoolFits
  <1>6. start \in Int /\ Addr(tlsf) <= start
    BY <1>4, <1>5 DEF PoolStarts
  <1>7. e[1] \in Int /\ e[2] \in Int /\ n <= e[2] /\ e[1] + e[2] <= h /\ Addr(tlsf) < e[1]
    <2> DEFINE gap == GapAfter(start)
    <2>1. gap \in Int /\ start + 1 + gap = h /\ n <= gap
      BY <1>1, <1>2, <1>6
    <2>2. e[1] = start + 1 /\ e[2] \in {gap, n}
      BY <1>3
    <2> HIDE DEF gap
    <2> QED
      BY <1>4, <1>6, <2>1, <2>2
  <1>8. e[1] + e[2] < Addr(tlsf + POOL_PAGES)
    BY <1>2, <1>4, <1>7
  <1>9. ASSUME NEW f \in pool PROVE e[1] + e[2] < f[1] \/ f[1] + f[2] < e[1]
    <2>1. f[1] - 1 \in PoolHeaders /\ f[1] \in Int /\ f[2] \in Int /\ f[2] >= 1
      BY <1>5 DEF PoolHeaders
    <2>2. CASE start <= f[1] - 1
      <3>1. h <= f[1] - 1
        BY <1>2, <2>1, <2>2
      <3> QED
        BY <1>2, <1>7, <2>1, <3>1
    <2>3. CASE f[1] - 1 < start
      <3>1. f[1] <= start
        BY <1>6, <2>1, <2>3
      <3>2. start # Addr(tlsf)
        BY <1>4, <1>5, <3>1
      <3>3. PICK g \in pool : start = g[1] + g[2]
        BY <3>2 DEF PoolStarts
      <3>4. g = f \/ g[1] + g[2] < f[1] \/ f[1] + f[2] < g[1]
        BY DEF PoolFits
      <3>5. g[1] \in Int /\ g[2] \in Int /\ g[2] >= 1
        BY <1>5
      <3> QED
        BY <1>3, <1>6, <2>1, <3>1, <3>3, <3>4, <3>5
    <2> QED
      BY <1>6, <2>1, <2>2, <2>3
  <1> QED
    BY <1>3, <1>4, <1>7, <1>8, <1>9

LEMMA PoolNew ==
  ASSUME MemoryFits, BlocksTyped, tlsf # NULL, NEW n \in Nat, n > 0, NEW e \in PoolChoices(n)
  PROVE  LET b == [addr |-> e[1], size |-> n, room |-> e[2], region |-> "tlsf"]
         IN  IsBlock(b) /\ Untouched(b.addr, b.room) /\ b \notin Blocks
  <1> DEFINE a == e[1]
             r == e[2]
             b == [addr |-> a, size |-> n, room |-> r, region |-> "tlsf"]
  <1>1. PagesFit /\ PoolFits
    BY DEF MemoryFits
  <1>2. /\ a \in Nat /\ r \in Nat /\ n <= r
        /\ Addr(tlsf) < a /\ a + r < Addr(tlsf + POOL_PAGES)
        /\ \A f \in pool : a + r < f[1] \/ f[1] + f[2] < a
    BY <1>1, ChoiceIs
  <1> HIDE DEF a, r
  <1>3. a \in Int /\ r \in Int /\ Addr(tlsf) \in Int /\ Addr(tlsf + POOL_PAGES) \in Int
    <2>1. tlsf \in Int /\ tlsf + POOL_PAGES \in Int
      BY <1>1, PageFacts, Geometry
    <2> QED
      BY <1>2, <2>1, AddrInt
  <1>4. Within(a, r, tlsf, tlsf + POOL_PAGES)
    BY <1>2, <1>3 DEF Within
  <1>5. \A f \in pool : a + r <= f[1] \/ f[1] + f[2] <= a
    <2>1. \A f \in pool : f[1] \in Int /\ f[2] \in Int
      BY <1>1 DEF PoolFits
    <2> QED
      BY <1>2, <1>3, <2>1
  <1>6. Untouched(a, r)
    BY <1>3, <1>4, <1>5, PoolUntouched
  <1>7. IsBlock(b)
    BY <1>2 DEF IsBlock, Block
  <1>8. b \notin Blocks
    BY <1>6, <1>7, UntouchedIsNew
  <1> QED
    BY <1>6, <1>7, <1>8 DEF a, r

LEMMA PoolGain ==
  ASSUME MemoryFits, tlsf # NULL, NEW n \in Nat, n > 0, NEW e \in PoolChoices(n), pool' = pool \cup {e},
         NEW b, b.region = "tlsf", b.addr = e[1], b.room = e[2], Untouched(b.addr, b.room),
         Blocks' = Blocks \cup {b}, Reserved' = Reserved,
         UNCHANGED <<osVars, pageVars, slotVars, arena, tlsf>>
  PROVE  MemoryFits'
  <1>1. /\ PagesFit /\ SlabFits /\ BumpRegionFits /\ PoolRegionFits /\ HugeFits /\ AllApart /\ PoolFits
    BY ByRegion DEF PoolRegionFits
  <1>2. /\ In("slab")' = In("slab") /\ In("huge")' = In("huge")
        /\ In("bump")' = In("bump") /\ In("tlsf")' = In("tlsf") \cup {b}
    BY GainIn
  <1>3. PagesFit'
    BY <1>1, PagesKept DEF PagesFit, slotVars
  <1>4. SlabFits' /\ HugeFits' /\ BumpRegionFits' /\ AllApart'
    BY <1>1, <1>2, SlabKept, HugeKept, BumpKept, GainApart DEF slotVars, pageVars
  <1>5. /\ e = <<e[1], e[2]>> /\ e[1] \in Nat /\ e[2] \in Nat /\ n <= e[2]
        /\ Addr(tlsf) < e[1] /\ e[1] + e[2] < Addr(tlsf + POOL_PAGES)
        /\ \A f \in pool : e[1] + e[2] < f[1] \/ f[1] + f[2] < e[1]
    BY <1>1, ChoiceIs
  <1>6. PoolFits'
    <2>1. pool' \subseteq Nat \X Nat
      <3>1. e \in Nat \X Nat
        BY <1>5
      <3> QED
        BY <1>1, <3>1 DEF PoolFits
    <2>2. \A f \in pool' : f[2] >= 1 /\ Addr(tlsf) < f[1] /\ f[1] + f[2] < Addr(tlsf + POOL_PAGES)
      <3>1. e[2] >= 1
        BY <1>5
      <3> QED
        BY <1>1, <1>5, <3>1 DEF PoolFits
    <2>3. \A f, g \in pool' : f # g => f[1] + f[2] < g[1] \/ g[1] + g[2] < f[1]
      BY <1>1, <1>5 DEF PoolFits
    <2> QED
      BY <2>1, <2>2, <2>3 DEF PoolFits
  <1>7. pool' = {<<d.addr, d.room>> : d \in In("tlsf")'}
    <2>1. pool' = {<<d.addr, d.room>> : d \in In("tlsf")} \cup {<<b.addr, b.room>>}
      BY <1>1, <1>5 DEF PoolRegionFits
    <2> QED
      BY <1>2, <2>1
  <1>8. PoolRegionFits'
    BY <1>6, <1>7 DEF PoolRegionFits
  <1> QED
    BY <1>3, <1>4, <1>8, ByRegionNext

LEMMA PoolLose ==
  ASSUME MemoryFits, BlocksTyped, NEW b \in In("tlsf"), pool' = {e \in pool : e[1] # b.addr},
         Blocks' = Blocks \ {b}, Reserved' = Reserved,
         UNCHANGED <<osVars, pageVars, slotVars, arena, tlsf>>
  PROVE  MemoryFits'
  <1>1. /\ PagesFit /\ SlabFits /\ BumpRegionFits /\ PoolRegionFits /\ HugeFits /\ AllApart /\ PoolFits
    BY ByRegion DEF PoolRegionFits
  <1>2. b \in Blocks /\ b.region = "tlsf"
    BY DEF In
  <1>3. /\ In("slab")' = In("slab") /\ In("huge")' = In("huge")
        /\ In("bump")' = In("bump") /\ In("tlsf")' = In("tlsf") \ {b}
    BY <1>2, LoseIn
  <1>4. tlsf # NULL
    BY <1>2, BlockPages
  <1>5. PagesFit'
    BY <1>1, <1>4, PagesKept DEF PagesFit, slotVars
  <1>6. SlabFits' /\ HugeFits' /\ BumpRegionFits' /\ AllApart'
    BY <1>1, <1>3, SlabKept, HugeKept, BumpKept, LoseApart DEF slotVars, pageVars
  <1>7. PoolFits'
    BY <1>1 DEF PoolFits
  <1>8. \A c \in In("tlsf") : c # b => c.addr # b.addr
    <2> SUFFICES ASSUME NEW c \in In("tlsf"), c # b, c.addr = b.addr PROVE FALSE
      OBVIOUS
    <2>1. c \in Blocks /\ Apart(c, b)
      BY <1>1, <1>2 DEF In, AllApart
    <2>2. /\ b.addr \in Int /\ b.room \in Int /\ b.room >= 1
          /\ c.addr \in Int /\ c.room \in Int /\ c.room >= 1
      BY <1>2, <2>1, BlockPages
    <2> QED
      BY <2>1, <2>2 DEF Apart
  <1>9. pool' = {<<d.addr, d.room>> : d \in In("tlsf")'}
    <2>1. pool = {<<d.addr, d.room>> : d \in In("tlsf")}
      BY <1>1 DEF PoolRegionFits
    <2> QED
      BY <1>3, <1>8, <2>1
  <1>10. PoolRegionFits'
    BY <1>7, <1>9 DEF PoolRegionFits
  <1> QED
    BY <1>5, <1>6, <1>10, ByRegionNext
-----------------------------------------------------------------------------
(* What a step does to the blocks: nothing, or one comes that overlaps none,
   or one goes. *)
BlocksStep ==
  \/ Blocks' = Blocks
  \/ \E b : IsBlock(b) /\ b.size > 0 /\ Untouched(b.addr, b.room) /\ Blocks' = Blocks \cup {b}
  \/ \E b \in Blocks : Blocks' = Blocks \ {b}

Keeps == Owned' /\ GlobalsFit' /\ MemoryFits' /\ BlocksStep

LEMMA KeepsAll ==
  ASSUME MemoryFits, Changes({}, {}), UNCHANGED <<osVars, pageVars, slotVars, pool, arena, tlsf>>
  PROVE  Keeps
  <1>1. Blocks' = Blocks /\ Reserved' = Reserved
    BY DEF Changes
  <1>2. MemoryFits'
    BY <1>1, MemoryKept
  <1> QED
    BY <1>1, <1>2 DEF Keeps, Changes, BlocksStep

LEMMA KeepsMore ==
  ASSUME NEW b, IsBlock(b), b.size > 0, Untouched(b.addr, b.room), Changes({b}, {}), MemoryFits'
  PROVE  Keeps
  BY DEF Keeps, Changes, BlocksStep

LEMMA KeepsLess ==
  ASSUME NEW b \in Blocks, Changes({}, {b}), MemoryFits'
  PROVE  Keeps
  BY DEF Keeps, Changes, BlocksStep

LEMMA GainIs ==
  ASSUME NEW b, Changes({b}, {})
  PROVE  Blocks' = Blocks \cup {b} /\ Reserved' = Reserved
  BY DEF Changes

LEMMA LossIs ==
  ASSUME NEW b, Changes({}, {b})
  PROVE  Blocks' = Blocks \ {b} /\ Reserved' = Reserved
  BY DEF Changes

LEMMA OwnedTyped == Owned => BlocksTyped
  BY DEF Owned, BlocksTyped
-----------------------------------------------------------------------------
(* ensure_init.  Before there is a pool there are only huge blocks. *)
LEMMA OnlyHuge ==
  ASSUME MemoryFits, tlsf = NULL
  PROVE  /\ In("slab") = {} /\ In("bump") = {} /\ In("tlsf") = {}
         /\ SlabPages = {} /\ pool = {} /\ available = {} /\ pending = {}
  BY DEF MemoryFits, PagesFit, In

LEMMA NoSlots ==
  ASSUME In("slab")' = {}, SlabPages' = {}, available' = {}, pending' = {}
  PROVE  SlabFits'
  BY DEF SlabFits, SlabSlots, Addrs

LEMMA NoBlocksOfArena ==
  ASSUME MemoryFits, tlsf = NULL, Blocks' = Blocks, SlabPages' = {}, UNCHANGED <<slotVars, pool>>
  PROVE  SlabFits' /\ BumpRegionFits' /\ PoolRegionFits' /\ AllApart'
  <1>1. /\ In("slab") = {} /\ In("bump") = {} /\ In("tlsf") = {}
        /\ SlabPages = {} /\ pool = {} /\ available = {} /\ pending = {}
    BY OnlyHuge
  <1>2. \A region : In(region)' = In(region)
    BY DEF In
  <1>3. SlabFits'
    BY <1>1, <1>2, NoSlots DEF slotVars
  <1>4. BumpRegionFits'
    BY <1>1, <1>2 DEF BumpRegionFits
  <1>5. PoolRegionFits'
    BY <1>1, <1>2 DEF PoolRegionFits, PoolFits
  <1>6. AllApart'
    BY ByRegion DEF AllApart
  <1> QED
    BY <1>3, <1>4, <1>5, <1>6

LEMMA InitTlsKeeps ==
  ASSUME ApiInvariant, NEW t \in Threads, InitTls(t)
  PROVE  Keeps
  <1>1. InitInv /\ Owned /\ GlobalsFit /\ MemoryFits
    BY DEF ApiInvariant
  <1>2. PICK base \in Fresh(PAGES_PER_ARENA) :
           NewArena(base) /\ call' = [call EXCEPT ![t].base = base]
    BY DEF InitTls
  <1>3. /\ pc[t] = "init" /\ lock = NULL /\ ~arena_init
        /\ lock' = t /\ Goto(t, "init_arena") /\ tls_key' = TRUE
        /\ UNCHANGED <<slotVars, pool, arena, tlsf, arena_init, cached, held>>
    BY DEF InitTls, Locked
  <1>4. arena = NULL /\ tlsf = NULL /\ t # NULL /\ base # NULL /\ base \in Bases
        /\ Span(base, PAGES_PER_ARENA) \subseteq OsPages \ mapped
    BY <1>1, <1>2, <1>3, Geometry DEF InitInv, GlobalsInit, Fresh
  <1>5. \A u \in Threads : call[u].base = NULL
    BY <1>1, <1>3, Geometry DEF GlobalsFit, BaseFits
  <1> DEFINE c == [call[t] EXCEPT !.base = base]
  <1>6. Moves(t, c, "init_arena")
    BY <1>1, <1>2, <1>3 DEF Moves, Goto, InitInv, ThreadsInit
  <1>7. /\ c.op = call[t].op /\ c.base = base /\ c.ptr = call[t].ptr /\ c.size = call[t].size
        /\ c.usable = call[t].usable /\ c.seen = call[t].seen /\ c.new = call[t].new
        /\ c.copied = call[t].copied /\ c.refused = call[t].refused /\ c.then = call[t].then
    BY <1>1, CallFields DEF CallTyped, InitInv, ThreadsInit, ThreadInit
  <1> HIDE DEF c
  <1>8. ThreadFits(t)'
    <2>1. call[t].then \in FirstParts /\ CallFits(call[t], call[t].then)
      BY <1>1, <1>3 DEF Owned, ThreadFits, Part, InitSteps
    <2>2. CallFits(c, c.then)
      BY <1>7, <2>1 DEF CallFits
    <2> QED
      BY <1>6, <1>7, <2>1, <2>2 DEF Moves, ThreadFits, Part, InitSteps
  <1>9. Hands(c) = Hands(call[t])
    BY <1>7 DEF Hands
  <1>10. HandsChange(t, c, {}, {})
    BY <1>1, <1>3, <1>9 DEF HandsChange, Owned
  <1>11. Owned' /\ Blocks' = Blocks
    <2>1. Owned' /\ Blocks' = (Blocks \ {}) \cup {}
      BY <1>1, <1>6, <1>8, <1>10, OwnedStep
    <2> QED
      BY <2>1
  <1>12. /\ mapped' = mapped \cup Span(base, PAGES_PER_ARENA) /\ next_free_page' = META_PAGES
         /\ meta' = [p \in ArenaPages |-> EmptyMeta] /\ header' = header
    BY <1>1, <1>2 DEF NewArena, InitInv, PagesInit
  <1>13. /\ call'[t].base = base /\ pc'[t] = "init_arena"
         /\ \A u \in Threads : u # t => call'[u].base = NULL /\ pc'[u] = pc[u]
    BY <1>5, <1>6, <1>7 DEF Moves
  <1>14. GlobalsFit'
    <2>1. BaseFits(t)'
      BY <1>3, <1>4, <1>12, <1>13 DEF BaseFits
    <2>2. ASSUME NEW u \in Threads, u # t PROVE BaseFits(u)'
      <3>1. pc[u] \notin {"init_arena", "init_pool"}
        BY <1>1, <1>5 DEF GlobalsFit, BaseFits
      <3> QED
        BY <1>13, <2>2, <3>1 DEF BaseFits
    <2> QED
      BY <1>1, <1>3, <2>1, <2>2 DEF GlobalsFit
  <1>15. Reserved = {} /\ Reserved' = {base}
    BY <1>3, <1>4, <1>5, <1>13 DEF Reserved
  <1>16. SlabPages' = {} /\ meta' \in [ArenaPages -> [size_class : Classes, owner_id : Threads] \cup {EmptyMeta}]
    BY <1>12 DEF SlabPages, EmptyMeta
  <1>17. PagesFit'
    <2>1. next_free_page' \in 0..PAGES_PER_ARENA
      BY <1>12, Geometry
    <2>2. /\ Reserved' \subseteq Bases /\ \A r, q \in Reserved' : r = q
      BY <1>4, <1>15
    <2>3. stranded' \subseteq ArenaPages /\ pool' = {} /\ available' = {} /\ pending' = {} /\ tlsf' = NULL
      BY <1>1, <1>3, <1>4 DEF MemoryFits, PagesFit, slotVars
    <2>4. \A b \in Blocks' : b.region = "huge"
      BY <1>1, <1>4, <1>11 DEF MemoryFits, PagesFit
    <2> QED
      BY <1>16, <2>1, <2>2, <2>3, <2>4 DEF PagesFit
  <1>18. SlabFits' /\ BumpRegionFits' /\ PoolRegionFits' /\ AllApart'
    BY <1>1, <1>3, <1>4, <1>11, <1>16, NoBlocksOfArena
  <1>19. HugeFits'
    <2>1. HugeFits /\ In("huge")' = In("huge")
      BY <1>1, <1>11, ByRegion DEF In
    <2>2. ASSUME NEW b \in In("huge") PROVE HugeBlock(b)'
      <3>1. PICK d \in Bases : /\ b.addr = Addr(d + 1) /\ b.room = Addr(HugePages(b.size) - 1)
                               /\ header[d] = HugePages(b.size)
        BY <2>1 DEF HugeFits, HugeBlock
      <3>2. HugeSpan(b) = Span(d, HugePages(b.size)) /\ HugeSpan(b) \subseteq mapped
        BY <2>1, <3>1, Geometry, HugeSpanIs DEF HugeFits
      <3>3. \A r \in Reserved' : Span(d, HugePages(b.size)) \cap Span(r, PAGES_PER_ARENA) = {}
        BY <1>4, <1>15, <3>2
      <3> QED
        BY <1>12, <3>1, <3>3 DEF HugeBlock
    <2>3. mapped' = UNION (ArenaSpans' \cup {HugeSpan(b) : b \in In("huge")})
      <3>1. ArenaSpans = {} /\ ArenaSpans' = {Span(base, PAGES_PER_ARENA)}
        BY <1>15 DEF ArenaSpans
      <3> QED
        BY <1>12, <2>1, <3>1 DEF HugeFits
    <2>4. HeadersFit'
      BY <1>4, <1>12, <2>1 DEF HugeFits, HeadersFit
    <2> QED
      BY <2>1, <2>2, <2>3, <2>4 DEF HugeFits
  <1> QED
    BY <1>11, <1>14, <1>17, <1>18, <1>19, ByRegionNext DEF Keeps, BlocksStep

LEMMA InitArenaKeeps ==
  ASSUME ApiInvariant, NEW t \in Threads, InitArena(t)
  PROVE  Keeps
  <1>1. InitInv /\ Owned /\ GlobalsFit /\ MemoryFits
    BY DEF ApiInvariant
  <1>2. /\ pc[t] = "init_arena" /\ Goto(t, "init_pool")
        /\ arena' = call[t].base
        /\ UNCHANGED <<osVars, pageVars, slotVars, pool, tlsf, lock, arena_init, tls_key, cached, held, call>>
    BY DEF InitArena
  <1>3. arena = NULL /\ tlsf = NULL /\ call[t].base # NULL
    BY <1>1, <1>2 DEF InitInv, ThreadsInit, ThreadInit
  <1>4. pc'[t] = "init_pool" /\ \A u \in Threads : u # t => pc'[u] = pc[u]
    BY <1>1, <1>2 DEF Goto, InitInv, ThreadsInit
  <1>5. Blocks' = Blocks /\ Reserved' = Reserved
    BY <1>2, <1>3 DEF Blocks, Reserved
  <1>6. Owned'
    <2>1. \A u \in Threads : ThreadFits(u)'
      BY <1>1, <1>2, <1>4 DEF Owned, ThreadFits, Part, InitSteps
    <2> QED
      BY <1>1, <1>2, <1>5, <2>1 DEF Owned
  <1>7. GlobalsFit'
    BY <1>1, <1>2, <1>4 DEF GlobalsFit, BaseFits, pageVars
  <1>8. SlabPages' = {} /\ SlabPages = {}
    BY <1>1, <1>2, <1>3, OnlyHuge DEF SlabPages, pageVars
  <1>9. PagesFit'
    BY <1>1, <1>2, <1>3, <1>5, <1>8 DEF MemoryFits, PagesFit, slotVars, pageVars
  <1>10. SlabFits' /\ BumpRegionFits' /\ PoolRegionFits' /\ AllApart'
    BY <1>1, <1>2, <1>3, <1>5, <1>8, NoBlocksOfArena
  <1>11. HugeFits'
    <2>1. HugeFits /\ In("huge")' = In("huge")
      BY <1>1, <1>5, ByRegion DEF In
    <2> QED
      BY <1>2, <1>5, <2>1, HugeKept
  <1> QED
    BY <1>5, <1>6, <1>7, <1>9, <1>10, <1>11, ByRegionNext DEF Keeps, BlocksStep

LEMMA InitPoolKeeps ==
  ASSUME ApiInvariant, NEW t \in Threads, InitPool(t)
  PROVE  Keeps
  <1>1. InitInv /\ Owned /\ GlobalsFit /\ MemoryFits
    BY DEF ApiInvariant
  <1>2. /\ pc[t] = "init_pool" /\ TakePages(POOL_PAGES) /\ tlsf' = arena + next_free_page
        /\ arena_init' = TRUE /\ lock' = NULL /\ Resume(t, FALSE)
        /\ UNCHANGED <<osVars, slotVars, pool, arena, tls_key, cached, held>>
    BY DEF InitPool
  <1>3. lock = t /\ ~arena_init /\ tlsf = NULL /\ arena # NULL /\ next_free_page = META_PAGES
    BY <1>1, <1>2 DEF InitInv, ThreadsInit, ThreadInit, GlobalsFit, BaseFits
  <1>4. PagesFit /\ arena \in Bases /\ arena \in Nat /\ Reserved = {arena}
    BY <1>1, <1>3, ArenaIs DEF MemoryFits
  <1>5. meta' = meta /\ next_free_page' = META_PAGES + POOL_PAGES
    <2>1. \A p \in ArenaPages : meta[p] = EmptyMeta
      BY <1>1, <1>3 DEF InitInv, PagesInit
    <2> QED
      BY <1>2, <1>3, <1>4, <2>1, TakenPages, Geometry
  <1> DEFINE c == [call[t] EXCEPT !.then = "idle", !.base = NULL, !.refused = FALSE]
  <1>6. Moves(t, c, call[t].then)
    BY <1>1, <1>2 DEF Moves, Resume, Goto, InitInv, ThreadsInit
  <1>7. /\ c.op = call[t].op /\ c.base = NULL /\ c.ptr = call[t].ptr /\ c.size = call[t].size
        /\ c.usable = call[t].usable /\ c.seen = call[t].seen /\ c.new = call[t].new
        /\ c.copied = call[t].copied /\ c.refused = FALSE
    BY <1>1, CallFields DEF CallTyped, InitInv, ThreadsInit, ThreadInit
  <1> HIDE DEF c
  <1>8. call[t].then \in Parts /\ CallFits(call[t], call[t].then)
    BY <1>1, <1>2 DEF Owned, ThreadFits, Part, InitSteps, Parts, FirstParts
  <1>9. ThreadFits(t)'
    <2>1. CallFits(c, call[t].then)
      BY <1>7, <1>8 DEF CallFits
    <2> QED
      BY <1>6, <1>8, <2>1 DEF Moves, ThreadFits, Part, InitSteps, Parts
  <1>10. HandsChange(t, c, {}, {})
    <2>1. Hands(c) = Hands(call[t])
      BY <1>7 DEF Hands
    <2> QED
      BY <1>1, <1>2, <2>1 DEF HandsChange, Owned
  <1>11. Owned' /\ Blocks' = Blocks
    <2>1. Owned' /\ Blocks' = (Blocks \ {}) \cup {}
      BY <1>1, <1>6, <1>9, <1>10, OwnedStep
    <2> QED
      BY <2>1
  <1>12. \A u \in Threads : u # t => call[u].base = NULL /\ pc[u] \notin {"init_arena", "init_pool"}
    BY <1>1, <1>3 DEF GlobalsFit, BaseFits
  <1>13. /\ \A u \in Threads : call'[u].base = NULL
         /\ pc'[t] \in Parts /\ \A u \in Threads : u # t => pc'[u] = pc[u]
    BY <1>6, <1>7, <1>8, <1>12 DEF Moves
  <1>14. tlsf' = arena + META_PAGES /\ tlsf' # NULL
    BY <1>2, <1>3, <1>4, Geometry
  <1>15. GlobalsFit'
    <2>1. \A u \in Threads : BaseFits(u)'
      BY <1>12, <1>13 DEF BaseFits, Parts
    <2> QED
      BY <1>1, <1>2, <1>14, <2>1 DEF GlobalsFit
  <1>16. Reserved' = Reserved
    <2>1. arena' = arena
      BY <1>2
    <2> QED
      BY <1>3, <1>4, <1>13, <2>1 DEF Reserved
  <1>17. SlabPages' = {} /\ SlabPages = {}
    BY <1>1, <1>3, <1>5, OnlyHuge DEF SlabPages
  <1>18. PagesFit'
    <2>1. next_free_page' \in 0..PAGES_PER_ARENA /\ META_PAGES + POOL_PAGES <= next_free_page'
      BY <1>5, Geometry
    <2>2. /\ Reserved' \subseteq Bases /\ \A r, q \in Reserved' : r = q
      BY <1>4, <1>16
    <2>3. stranded' \subseteq ArenaPages /\ arena' # NULL /\ tlsf' = arena' + META_PAGES
      BY <1>2, <1>3, <1>4, <1>14 DEF PagesFit, slotVars
    <2> QED
      BY <1>4, <1>5, <1>14, <1>17, <2>1, <2>2, <2>3 DEF PagesFit
  <1>19. SlabFits' /\ BumpRegionFits' /\ PoolRegionFits' /\ AllApart'
    BY <1>1, <1>2, <1>3, <1>11, <1>17, NoBlocksOfArena
  <1>20. HugeFits'
    <2>1. HugeFits /\ In("huge")' = In("huge")
      BY <1>1, <1>11, ByRegion DEF In
    <2> QED
      BY <1>2, <1>16, <2>1, HugeKept
  <1> QED
    BY <1>11, <1>15, <1>18, <1>19, <1>20, ByRegionNext DEF Keeps, BlocksStep

LEMMA EnsureInitKeeps ==
  ASSUME ApiInvariant, NEW t \in Threads, EnsureInit(t)
  PROVE  Keeps
  <1>1. InitInv /\ Owned /\ GlobalsFit /\ MemoryFits
    BY DEF ApiInvariant
  <1>2. CASE InitDone(t) \/ InitRefused(t)
    <2>1. /\ pc[t] = "init"
          /\ Resume(t, FALSE) \/ Resume(t, TRUE)
          /\ UNCHANGED <<osVars, pageVars, slotVars, pool, globals, cached, held>>
      BY <1>2 DEF InitDone, InitRefused
    <2>2. QuietThread(t)
      BY <1>1, <2>1, StaysQuiet DEF pageVars
    <2>3. Changes({}, {})
      BY <1>1, <2>1, <2>2, ResumeChanges
    <2> QED
      BY <1>1, <2>1, <2>3, KeepsAll DEF globals
  <1> QED
    BY <1>2, InitTlsKeeps, InitArenaKeeps, InitPoolKeeps DEF EnsureInit
-----------------------------------------------------------------------------
(* The application's calls, and steps of a call that leave memory alone. *)
LEMMA CallKeeps ==
  ASSUME ApiInvariant, NEW t \in Threads, Call(t)
  PROVE  Keeps
  <1>1. Changes({}, {})
    BY CallChanges DEF ApiInvariant
  <1> QED
    BY <1>1, KeepsAll DEF ApiInvariant, Call, globals

LEMMA CacheKeeps ==
  ASSUME ApiInvariant, NEW t \in Threads, CreateCache(t) \/ NoCache(t)
  PROVE  Keeps
  <1>1. InitInv /\ Owned /\ GlobalsFit /\ MemoryFits
    BY DEF ApiInvariant
  <1>2. CASE CreateCache(t)
    <2>1. /\ cached' \subseteq Threads
          /\ UNCHANGED <<osVars, pageVars, slotVars, pool, globals, held, pc, call>>
      BY <1>1, <1>2 DEF CreateCache, GlobalsFit
    <2>2. Blocks' = Blocks /\ Reserved' = Reserved
      BY <2>1 DEF Blocks, Reserved, globals
    <2>3. Owned'
      BY <1>1, <2>1, <2>2 DEF Owned, ThreadFits, Part
    <2>4. GlobalsFit'
      BY <1>1, <2>1 DEF GlobalsFit, BaseFits, globals, pageVars
    <2> QED
      BY <1>1, <2>1, <2>2, <2>3, <2>4, MemoryKept DEF Keeps, BlocksStep, globals
  <1>3. CASE NoCache(t)
    <2> DEFINE to == IF pc[t] = "malloc" THEN "tlsf" ELSE "free_locked"
    <2>1. /\ pc[t] \in {"malloc", "free"} /\ Goto(t, to)
          /\ UNCHANGED <<osVars, pageVars, slotVars, pool, globals, cached, held, call>>
      BY <1>3 DEF NoCache
    <2>2. pc[t] \in Parts /\ to \in Parts
      BY <2>1 DEF Parts
    <2>3. CallFits(call[t], to)
      <3>1. CallFits(call[t], pc[t])
        BY <1>1, <2>2, InPartFits
      <3> QED
        BY <2>1, <3>1 DEF CallFits, Parts, StoreParts, AllocParts, SmallParts, FreeParts
    <2>4. QuietThread(t)
      BY <1>1, <2>1, <2>2, StaysQuiet DEF pageVars
    <2>5. Changes({}, {})
      BY <1>1, <2>1, <2>2, <2>3, <2>4, GotoChanges
    <2> QED
      BY <1>1, <2>1, <2>5, KeepsAll DEF globals
  <1> QED
    BY <1>2, <1>3

LEMMA RefusedKeeps ==
  ASSUME ApiInvariant, NEW t \in Threads, HugeRefused(t) \/ BumpRefused(t)
  PROVE  Keeps
  <1>1. InitInv /\ Owned /\ GlobalsFit /\ MemoryFits
    BY DEF ApiInvariant
  <1>2. /\ pc[t] \in AllocParts /\ pc[t] \in Parts /\ GotNull(t)
        /\ UNCHANGED <<osVars, pageVars, slotVars, pool, globals, cached>>
    BY DEF HugeRefused, BumpRefused, AllocParts, Parts
  <1>3. QuietThread(t)
    BY <1>1, <1>2, StaysQuiet DEF pageVars
  <1>4. Changes({}, {})
    BY <1>1, <1>2, <1>3, GotNullChanges
  <1> QED
    BY <1>1, <1>2, <1>4, KeepsAll DEF globals

LEMMA MoveOnKeeps ==
  ASSUME ApiInvariant, NEW t \in Threads, HasRemote(t) \/ NoPage(t)
  PROVE  Keeps
  <1>1. InitInv /\ Owned /\ GlobalsFit /\ MemoryFits
    BY DEF ApiInvariant
  <1>2. PICK to \in {"slot", "drain", "tlsf"} :
          /\ pc[t] \in {"malloc", "slot"} /\ Goto(t, to)
          /\ UNCHANGED <<osVars, pageVars, slotVars, pool, globals, cached, held, call>>
    BY DEF HasRemote, NoPage
  <1>3. pc[t] \in Parts /\ to \in Parts
    BY <1>2 DEF Parts
  <1>4. CallFits(call[t], to)
    <2>1. CallFits(call[t], pc[t])
      BY <1>1, <1>3, InPartFits
    <2> QED
      BY <1>2, <2>1 DEF CallFits, Parts, StoreParts, AllocParts, SmallParts, FreeParts
  <1>5. QuietThread(t)
    BY <1>1, <1>2, <1>3, StaysQuiet DEF pageVars
  <1>6. Changes({}, {})
    BY <1>1, <1>2, <1>3, <1>4, <1>5, GotoChanges
  <1> QED
    BY <1>1, <1>2, <1>6, KeepsAll DEF globals

LEMMA DrainKeeps ==
  ASSUME ApiInvariant, NEW t \in Threads, Drain(t)
  PROVE  Keeps
  <1>1. InitInv /\ Owned /\ GlobalsFit /\ MemoryFits
    BY DEF ApiInvariant
  <1>2. /\ pc[t] = "drain" /\ Goto(t, "slot")
        /\ available' = available \cup Remote(t) /\ pending' = pending \ Remote(t)
        /\ UNCHANGED <<osVars, pageVars, stranded, pool, globals, cached, held, call>>
    BY DEF Drain
  <1>3. pc[t] \in Parts /\ "slot" \in Parts
    BY <1>2 DEF Parts
  <1>4. CallFits(call[t], "slot")
    <2>1. CallFits(call[t], pc[t])
      BY <1>1, <1>3, InPartFits
    <2> QED
      BY <1>2, <2>1 DEF CallFits, Parts, StoreParts, AllocParts, SmallParts, FreeParts
  <1>5. QuietThread(t)
    BY <1>1, <1>2, <1>3, StaysQuiet DEF pageVars
  <1>6. Changes({}, {})
    BY <1>1, <1>2, <1>3, <1>4, <1>5, GotoChanges
  <1>7. Blocks' = Blocks /\ Reserved' = Reserved
    BY <1>6 DEF Changes
  <1>8. Remote(t) \in SUBSET pending
    BY DEF Remote
  <1>9. MemoryFits'
    BY <1>1, <1>2, <1>7, <1>8, SlotsDrained DEF globals
  <1> QED
    BY <1>6, <1>7, <1>9 DEF Keeps, Changes, BlocksStep
-----------------------------------------------------------------------------
(* malloc gets a block. *)
LEMMA ClassFits ==
  ASSUME NEW t \in Threads, call[t].size \in Nat, call[t].size <= SLAB_MAX_SIZE
  PROVE  Class(t) \in Classes /\ call[t].size <= Class(t)
  <1> DEFINE S == {c \in Classes : call[t].size <= c}
             Smallest(c) == call[t].size <= c /\ \A d \in Classes : call[t].size <= d => c <= d
  <1>1. S \subseteq Nat /\ S # {}
    <2>1. Classes \subseteq Nat
      BY Geometry, PageSize
    <2>2. SLAB_MAX_SIZE \in S
      BY ApiAssumption
    <2> QED
      BY <2>1, <2>2
  <1>2. PICK c \in S : \A d \in S : c <= d
    <2> HIDE DEF S
    <2> QED
      BY <1>1, Least
  <1>3. c \in Classes /\ Smallest(c)
    BY <1>2
  <1>4. Class(t) = CHOOSE d \in Classes : Smallest(d)
    BY DEF Class
  <1>5. Class(t) \in Classes /\ Smallest(Class(t))
    <2> HIDE DEF Smallest
    <2> QED
      BY <1>3, <1>4
  <1> QED
    BY <1>5

(* What a thread in malloc asks for. *)
LEMMA Asks ==
  ASSUME ApiInvariant, NEW t \in Threads, pc[t] \in AllocParts
  PROVE  /\ call[t].size \in Nat /\ call[t].size > 0
         /\ pc[t] \in SmallParts => Class(t) \in Classes /\ call[t].size <= Class(t)
         /\ BlocksTyped
  <1>1. pc[t] \in Parts
    BY DEF AllocParts, SmallParts, Parts
  <1>2. CallFits(call[t], pc[t]) /\ CallTyped(call[t])
    BY <1>1, InPartFits DEF ApiInvariant
  <1>3. call[t].size \in Nat /\ call[t].size > 0
    BY <1>2 DEF CallFits, CallTyped, SizeOps
  <1>4. pc[t] \in SmallParts => Class(t) \in Classes /\ call[t].size <= Class(t)
    BY <1>2, <1>3, ClassFits DEF CallFits
  <1> QED
    BY <1>3, <1>4, OwnedTyped DEF ApiInvariant

(* With an arena and the lock free, there is a pool. *)
LEMMA HasPool ==
  ASSUME ApiInvariant, lock = NULL, arena # NULL
  PROVE  tlsf # NULL
  <1>1. arena_init
    BY ArenaPublished DEF ApiInvariant
  <1> QED
    BY <1>1 DEF ApiInvariant, GlobalsFit

LEMMA HugeMallocKeeps ==
  ASSUME ApiInvariant, NEW t \in Threads, HugeMalloc(t)
  PROVE  Keeps
  <1> DEFINE n == call[t].size
  <1>1. InitInv /\ Owned /\ GlobalsFit /\ MemoryFits
    BY DEF ApiInvariant
  <1>2. pc[t] = "huge" /\ UNCHANGED <<pageVars, slotVars, pool, globals, cached>>
    BY DEF HugeMalloc
  <1>3. pc[t] \in AllocParts /\ pc[t] \in Parts
    BY <1>2 DEF AllocParts, Parts
  <1>4. n \in Nat /\ n > 0 /\ BlocksTyped
    BY <1>3, Asks
  <1>5. PICK base \in Fresh(HugePages(n)) :
          /\ huge_alloc(base, n)
          /\ Got(t, NewBlock(t, Addr(base + 1), Addr(HugePages(n) - 1), "huge"))
    BY DEF HugeMalloc
  <1> DEFINE b == NewBlock(t, Addr(base + 1), Addr(HugePages(n) - 1), "huge")
  <1>6. /\ b.size = n /\ b.region = "huge" /\ b.addr = Addr(base + 1) /\ b.room = Addr(HugePages(n) - 1)
        /\ IsBlock(b) /\ Untouched(b.addr, b.room) /\ b \notin Blocks
    BY <1>1, <1>4, HugeNew DEF NewBlock
  <1> HIDE DEF b
  <1>7. QuietThread(t)
    BY <1>1, <1>2, <1>3, StaysQuiet DEF pageVars
  <1>8. Changes({b}, {})
    BY <1>1, <1>3, <1>5, <1>6, <1>7, GotChanges DEF b
  <1>9. MemoryFits'
    BY <1>1, <1>2, <1>4, <1>5, <1>6, <1>8, GainIs, HugeGain DEF globals
  <1> QED
    BY <1>4, <1>6, <1>8, <1>9, KeepsMore

(* The slots of a page have the page in common. *)
LEMMA SamePage ==
  ASSUME PagesFit, NEW s \in SlabSlots
  PROVE  /\ ptr_to_page_index(s) \in SlabPages /\ s \in PageSlots(s) /\ PageSlots(s) \subseteq SlabSlots
         /\ MetaOf(s).owner_id \in Threads
         /\ \A r \in PageSlots(s) : /\ ptr_to_page_index(r) = ptr_to_page_index(s)
                                    /\ PageSlots(r) = PageSlots(s) /\ MetaOf(r) = MetaOf(s)
  <1>1. PICK p \in SlabPages : s \in SlotsOfPage(p, meta[p].size_class)
    BY DEF SlabSlots
  <1>2. ptr_to_page_index(s) = p /\ PageSlots(s) = SlotsOfPage(p, meta[p].size_class)
    BY <1>1, SlotWhere DEF PageSlots
  <1>3. \A r \in PageSlots(s) : ptr_to_page_index(r) = p
    BY <1>1, <1>2, SlotWhere
  <1>4. \A r \in PageSlots(s) : PageSlots(r) = PageSlots(s) /\ MetaOf(r) = MetaOf(s)
    BY <1>2, <1>3 DEF PageSlots, MetaOf
  <1>5. PageSlots(s) \subseteq SlabSlots
    BY <1>1, <1>2 DEF SlabSlots
  <1>6. meta[p].owner_id \in Threads
    <2>1. meta[p] \in [size_class : Classes, owner_id : Threads] \cup {EmptyMeta} /\ meta[p].size_class # NO_CLASS
      BY <1>1 DEF PagesFit, SlabPages
    <2> QED
      BY <2>1 DEF EmptyMeta
  <1> QED
    BY <1>1, <1>2, <1>3, <1>4, <1>5, <1>6 DEF MetaOf

(* What is free is a slot. *)
LEMMA AvailableSlots ==
  ASSUME MemoryFits
  PROVE  available \subseteq SlabSlots /\ available \subseteq Nat /\ pending \subseteq SlabSlots /\ pending \subseteq Nat
  <1>1. PagesFit /\ SlabFits
    BY ByRegion
  <1>2. available \cup pending \subseteq SlabSlots
    BY <1>1 DEF SlabFits
  <1>3. \A s \in SlabSlots : \E p \in SlabPages : s \in SlotsOfPage(p, meta[p].size_class)
    BY DEF SlabSlots
  <1>4. \A s \in SlabSlots : s \in Nat
    BY <1>1, <1>3, SlotWhere
  <1> QED
    BY <1>2, <1>4

(* A free list is read: no memory changes. *)
LEMMA LoadKeeps ==
  ASSUME ApiInvariant, NEW t \in Threads, PopLoad(t) \/ FreeLoad(t)
  PROVE  Keeps
  <1>1. InitInv /\ Owned /\ GlobalsFit /\ MemoryFits
    BY DEF ApiInvariant
  <1>2. PICK to \in {"slot_store", "free_store"}, s \in {Ptr(t)} \cup Listed(t, Class(t)) :
          /\ pc[t] = IF to = "slot_store" THEN "slot" ELSE "free"
          /\ LoadList(t, s, to)
          /\ UNCHANGED <<osVars, pageVars, slotVars, pool, globals, cached, held>>
    BY DEF PopLoad, FreeLoad
  <1>3. pc[t] \in Parts /\ to \in StoreParts
    BY <1>2 DEF Parts, StoreParts
  <1>4. CallFits([call[t] EXCEPT !.seen = {}], to)
    <2>1. CallFits(call[t], pc[t]) /\ CallTyped(call[t])
      BY <1>1, <1>3, InPartFits
    <2> DEFINE e == [call[t] EXCEPT !.seen = {}]
    <2>2. /\ e.op = call[t].op /\ e.ptr = call[t].ptr /\ e.refused = call[t].refused
          /\ e.size = call[t].size /\ e.usable = call[t].usable /\ e.seen = {}
          /\ e.new = call[t].new /\ e.copied = call[t].copied
      BY <2>1, CallFields DEF CallTyped
    <2> HIDE DEF e
    <2>3. CallFits(e, to)
      BY <1>2, <2>1, <2>2 DEF CallFits, Parts, StoreParts, AllocParts, SmallParts, FreeParts
    <2> QED
      BY <2>3 DEF e
  <1>5. QuietThread(t)
    BY <1>1, <1>2, <1>3, StaysQuiet DEF pageVars
  <1>6. Changes({}, {})
    BY <1>1, <1>2, <1>3, <1>4, <1>5, AvailableSlots, LoadChanges
  <1> QED
    BY <1>1, <1>2, <1>6, KeepsAll DEF globals

(* The slot is one of the list read, and the list is what it was. *)
LEMMA PopStoreKeeps ==
  ASSUME ApiInvariant, NEW t \in Threads, PopStore(t)
  PROVE  Keeps
  <1> DEFINE n == call[t].size
             c == Class(t)
  <1>1. InitInv /\ Owned /\ GlobalsFit /\ MemoryFits
    BY DEF ApiInvariant
  <1>2. pc[t] = "slot_store" /\ UNCHANGED <<osVars, pageVars, pending, stranded, pool, globals, cached>>
    BY DEF PopStore
  <1>3. pc[t] \in AllocParts /\ pc[t] \in Parts /\ pc[t] \in SmallParts
    BY <1>2 DEF AllocParts, SmallParts, Parts
  <1>4. n \in Nat /\ n > 0 /\ n <= c /\ BlocksTyped
    BY <1>3, Asks
  <1>5. PICK s \in call[t].seen : /\ StoreList(s, call[t].seen \ {s})
                                  /\ Got(t, NewBlock(t, s, c, "slab"))
    BY DEF PopStore
  <1>6. s \in available /\ MetaOf(s).size_class = c /\ available' = available \ {s}
    <2>1. PICK r \in Listed(t, c) : call[t].seen = FreeIn(r)
      BY <1>2 DEF ApiInvariant, ListsFit, ListFits
    <2>2. r \in available /\ MetaOf(r).size_class = c /\ r \in SlabSlots
      BY <1>1, <2>1, ByRegion DEF Listed, SlabFits
    <2>3. s \in available /\ s \in PageSlots(r)
      BY <2>1 DEF FreeIn
    <2>4. PageSlots(s) = PageSlots(r) /\ MetaOf(s) = MetaOf(r)
      BY <1>1, <2>2, <2>3, SamePage DEF MemoryFits
    <2>5. available' = (available \ PageSlots(r)) \cup ((available \cap PageSlots(r)) \ {s})
      BY <1>5, <2>1, <2>4 DEF StoreList, FreeIn
    <2> QED
      BY <2>2, <2>3, <2>4, <2>5
  <1>7. SlabFits /\ PagesFit
    BY <1>1, ByRegion
  <1>8. PICK p \in SlabPages : s \in SlotsOfPage(p, meta[p].size_class)
    BY <1>6, <1>7 DEF SlabFits, SlabSlots
  <1>9. ptr_to_page_index(s) = p /\ meta[p].size_class = c
    BY <1>6, <1>7, <1>8, SlotWhere DEF MetaOf
  <1>10. s \notin Addrs(In("slab"))
    BY <1>6, <1>7 DEF SlabFits
  <1> HIDE DEF c
  <1> DEFINE b == NewBlock(t, s, c, "slab")
  <1>11. /\ b.size = n /\ b.region = "slab" /\ b.addr = s /\ b.room = c
         /\ IsBlock(b) /\ Untouched(b.addr, b.room) /\ b \notin Blocks
    BY <1>1, <1>4, <1>8, <1>9, <1>10, SlotNew DEF NewBlock
  <1> HIDE DEF b
  <1>12. QuietThread(t)
    BY <1>1, <1>2, <1>3, StaysQuiet DEF pageVars
  <1>13. Changes({b}, {})
    BY <1>1, <1>3, <1>5, <1>11, <1>12, GotChanges DEF b
  <1>14. MemoryFits'
    BY <1>1, <1>2, <1>5, <1>6, <1>11, <1>13, GainIs, SlotGain DEF globals
  <1> QED
    BY <1>4, <1>11, <1>13, <1>14, KeepsMore

LEMMA NewPageKeeps ==
  ASSUME ApiInvariant, NEW t \in Threads, NewPage(t)
  PROVE  Keeps
  <1> DEFINE n == call[t].size
             c == Class(t)
  <1>1. InitInv /\ Owned /\ GlobalsFit /\ MemoryFits
    BY DEF ApiInvariant
  <1>2. /\ pc[t] = "slot" /\ lock = NULL /\ arena # NULL /\ CarvePage(t, c)
        /\ Got(t, NewBlock(t, Addr(arena + next_free_page), c, "slab"))
        /\ UNCHANGED <<osVars, pool, globals, cached>>
    BY DEF NewPage, Locked
  <1>3. pc[t] \in AllocParts /\ pc[t] \in Parts /\ pc[t] \in SmallParts
    BY <1>2 DEF AllocParts, SmallParts, Parts
  <1>4. n \in Nat /\ n > 0 /\ n <= c /\ c \in Classes /\ BlocksTyped
    BY <1>3, Asks
  <1>5. tlsf # NULL /\ BumpFits(1)
    BY <1>2, HasPool DEF CarvePage
  <1> HIDE DEF c
  <1> DEFINE b == NewBlock(t, Addr(arena + next_free_page), c, "slab")
  <1>6. /\ b.size = n /\ b.region = "slab" /\ b.addr = Addr(arena + next_free_page) /\ b.room = c
        /\ IsBlock(b) /\ Untouched(b.addr, b.room) /\ b \notin Blocks
    BY <1>1, <1>4, <1>5, PageNew DEF NewBlock
  <1> HIDE DEF b
  <1>7. QuietThread(t)
    BY <1>1, <1>2, <1>3, StaysQuiet
  <1>8. Changes({b}, {})
    BY <1>1, <1>2, <1>3, <1>6, <1>7, GotChanges DEF b
  <1>9. MemoryFits'
    BY <1>1, <1>2, <1>4, <1>5, <1>6, <1>8, GainIs, PageGain DEF globals
  <1> QED
    BY <1>4, <1>6, <1>8, <1>9, KeepsMore

LEMMA TlsfMallocKeeps ==
  ASSUME ApiInvariant, NEW t \in Threads, TlsfMalloc(t)
  PROVE  Keeps
  <1> DEFINE n == call[t].size
  <1>1. InitInv /\ Owned /\ GlobalsFit /\ MemoryFits
    BY DEF ApiInvariant
  <1>2. /\ pc[t] = "tlsf" /\ tlsf # NULL
        /\ UNCHANGED <<osVars, pageVars, slotVars, globals, cached>>
    BY DEF TlsfMalloc
  <1>3. pc[t] \in AllocParts /\ pc[t] \in Parts
    BY <1>2 DEF AllocParts, Parts
  <1>4. n \in Nat /\ n > 0 /\ BlocksTyped
    BY <1>3, Asks
  <1>5. PICK e \in PoolChoices(n) : pool' = pool \cup {e} /\ Got(t, NewBlock(t, e[1], e[2], "tlsf"))
    BY DEF TlsfMalloc
  <1> DEFINE b == NewBlock(t, e[1], e[2], "tlsf")
  <1>6. /\ b.size = n /\ b.region = "tlsf" /\ b.addr = e[1] /\ b.room = e[2]
        /\ IsBlock(b) /\ Untouched(b.addr, b.room) /\ b \notin Blocks
    BY <1>1, <1>2, <1>4, PoolNew DEF NewBlock
  <1> HIDE DEF b
  <1>7. QuietThread(t)
    BY <1>1, <1>2, <1>3, StaysQuiet DEF pageVars
  <1>8. Changes({b}, {})
    BY <1>1, <1>3, <1>5, <1>6, <1>7, GotChanges DEF b
  <1>9. MemoryFits'
    BY <1>1, <1>2, <1>4, <1>5, <1>6, <1>8, GainIs, PoolGain DEF globals
  <1> QED
    BY <1>4, <1>6, <1>8, <1>9, KeepsMore

LEMMA BumpMallocKeeps ==
  ASSUME ApiInvariant, NEW t \in Threads, BumpMalloc(t)
  PROVE  Keeps
  <1> DEFINE n == call[t].size
             m == PagesFor(n)
  <1>1. InitInv /\ Owned /\ GlobalsFit /\ MemoryFits
    BY DEF ApiInvariant
  <1>2. /\ pc[t] = "tlsf" /\ lock = NULL /\ arena # NULL /\ BumpFits(m) /\ TakePages(m)
        /\ Got(t, NewBlock(t, Addr(arena + next_free_page), Addr(m), "bump"))
        /\ UNCHANGED <<osVars, slotVars, pool, globals, cached>>
    BY DEF BumpMalloc, Locked
  <1>3. pc[t] \in AllocParts /\ pc[t] \in Parts
    BY <1>2 DEF AllocParts, Parts
  <1>4. n \in Nat /\ n > 0 /\ BlocksTyped
    BY <1>3, Asks
  <1>5. tlsf # NULL /\ m \in Nat /\ m >= 1
    BY <1>2, <1>4, HasPool, PagesForIs
  <1> DEFINE b == NewBlock(t, Addr(arena + next_free_page), Addr(m), "bump")
  <1>6. /\ b.size = n /\ b.region = "bump" /\ b.addr = Addr(arena + next_free_page) /\ b.room = Addr(m)
        /\ IsBlock(b) /\ Untouched(b.addr, b.room) /\ b \notin Blocks
    BY <1>1, <1>2, <1>4, <1>5, BumpNew DEF NewBlock
  <1> HIDE DEF b, m
  <1>7. QuietThread(t)
    BY <1>1, <1>2, <1>3, StaysQuiet
  <1>8. Changes({b}, {})
    BY <1>1, <1>2, <1>3, <1>6, <1>7, GotChanges DEF b
  <1>9. MemoryFits'
    BY <1>1, <1>2, <1>5, <1>6, <1>8, GainIs, BumpGain DEF globals
  <1> QED
    BY <1>4, <1>6, <1>8, <1>9, KeepsMore
-----------------------------------------------------------------------------
(* usable_size.  A hook takes a block of unknown size for the original
   heap's, and the block is lost. *)
LEMMA Found ==
  ASSUME ApiInvariant, arena # NULL, NEW b \in Blocks
  PROVE  /\ RegionOf(b.addr) = b.region /\ b.room >= 1 /\ b.room \in Nat
         /\ usable_size(b.addr) = IF b.region = "bump" THEN 0 ELSE b.room
         /\ IsBlock(b)
  <1>1. IsBlock(b) /\ b.size > 0
    BY DEF ApiInvariant, Owned
  <1> QED
    BY <1>1, BlockWhere DEF ApiInvariant, MemoryFits

LEMMA PtrIsBlock ==
  ASSUME ApiInvariant, NEW t \in Threads, pc[t] \in FreeParts \cup {"usable"}
  PROVE  call[t].ptr \in Blocks
  <1>1. CallFits(call[t], pc[t])
    BY InPartFits DEF ApiInvariant, Parts, FreeParts
  <1>2. call[t].ptr # NULL
    BY <1>1 DEF CallFits, PtrOps
  <1>3. call[t].ptr \in Hands(call[t])
    BY <1>2 DEF Hands
  <1> QED
    BY <1>3, InBlocks

LEMMA UsableSizeKeeps ==
  ASSUME ApiInvariant, NEW t \in Threads, UsableSize(t)
  PROVE  Keeps
  <1> DEFINE b == call[t].ptr
  <1>1. InitInv /\ Owned /\ GlobalsFit /\ MemoryFits
    BY DEF ApiInvariant
  <1>2. /\ pc[t] = "usable" /\ arena # NULL
        /\ UsableReturns(t) \/ UsableToMalloc(t) \/ UsableToHook(t) \/ UsableToOriginal(t)
        /\ UNCHANGED <<osVars, pageVars, slotVars, pool, globals, cached>>
    BY DEF UsableSize
  <1>3. b \in Blocks
    BY <1>2, PtrIsBlock
  <1>4. usable_size(Ptr(t)) = (IF b.region = "bump" THEN 0 ELSE b.room) /\ b.room >= 1
    BY <1>2, <1>3, Found DEF Ptr
  <1>5. QuietThread(t)
    BY <1>1, <1>2, StaysQuiet DEF Parts, pageVars
  <1>6. CASE UsableReturns(t) \/ UsableToMalloc(t) \/ UsableToHook(t)
    <2>1. Changes({}, {})
      BY <1>1, <1>2, <1>4, <1>5, <1>6, UsableChanges
    <2> QED
      BY <1>1, <1>2, <2>1, KeepsAll DEF globals
  <1>7. CASE UsableToOriginal(t)
    <2>1. Changes({}, {b})
      BY <1>1, <1>2, <1>5, <1>7, ToOriginalChanges
    <2>2. b.region = "bump"
      BY <1>4, <1>7 DEF UsableToOriginal
    <2>3. BlocksTyped
      BY <1>1, OwnedTyped
    <2> HIDE DEF b
    <2>4. MemoryFits'
      BY <1>1, <1>2, <1>3, <2>1, <2>2, <2>3, LossIs, BumpLose DEF globals
    <2> QED
      BY <1>3, <2>1, <2>4, KeepsLess
  <1> QED
    BY <1>2, <1>6, <1>7
-----------------------------------------------------------------------------
(* free. *)
LEMMA FreedIs ==
  ASSUME ApiInvariant, NEW t \in Threads, pc[t] \in FreeParts, Freed(t), arena # NULL,
         UNCHANGED <<pageVars, globals, cached>>
  PROVE  /\ call[t].ptr \in Blocks /\ Changes({}, {call[t].ptr})
         /\ Blocks' = Blocks \ {call[t].ptr} /\ Reserved' = Reserved
         /\ RegionOf(Ptr(t)) = call[t].ptr.region /\ call[t].ptr.region \in {"slab", "tlsf", "bump", "huge"}
  <1>1. InitInv /\ Owned /\ GlobalsFit /\ MemoryFits
    BY DEF ApiInvariant
  <1>2. QuietThread(t)
    BY <1>1, StaysQuiet DEF Parts, FreeParts, pageVars
  <1>3. call[t].ptr \in Blocks /\ Changes({}, {call[t].ptr})
    BY <1>1, <1>2, FreedChanges
  <1>4. RegionOf(Ptr(t)) = call[t].ptr.region /\ IsBlock(call[t].ptr)
    BY <1>3, Found DEF Ptr
  <1> QED
    BY <1>3, <1>4, LossIs DEF IsBlock, Block

LEMMA FreeSlotKeeps ==
  ASSUME ApiInvariant, NEW t \in Threads, FreeStore(t) \/ FreeRemote(t)
  PROVE  Keeps
  <1> DEFINE b == call[t].ptr
  <1>1. /\ pc[t] \in FreeParts /\ Freed(t) /\ arena # NULL /\ RegionOf(b.addr) = "slab"
        /\ UNCHANGED <<osVars, pageVars, pool, globals, cached>>
    BY DEF FreeStore, FreeRemote, FreeParts, Ptr, ApiInvariant, ListsFit, ListFits
  <1>2. /\ b \in Blocks /\ Changes({}, {b}) /\ Blocks' = Blocks \ {b} /\ Reserved' = Reserved
        /\ b.region = "slab"
    BY <1>1, FreedIs DEF Ptr
  <1>3. b \in In("slab") /\ BlocksTyped /\ MemoryFits
    BY <1>2, OwnedTyped DEF In, ApiInvariant
  <1>4. PagesFit /\ SlabFits
    BY <1>3, ByRegion
  <1>5. b.addr \notin available \cup pending /\ available \cap pending = {}
    BY <1>3, <1>4 DEF SlabFits, Addrs
  <1>6. ptr_to_page_index(b.addr) \in ArenaPages /\ stranded \subseteq ArenaPages
    <2>1. PICK p \in SlabPages : b.addr \in SlotsOfPage(p, meta[p].size_class)
      BY <1>3, <1>4 DEF SlabFits, SlabBlock
    <2>2. ptr_to_page_index(b.addr) = p
      BY <1>4, <2>1, SlotWhere
    <2> QED
      BY <1>4, <2>2 DEF SlabPages, PagesFit
  <1>7. /\ available' \cup pending' = available \cup pending \cup {b.addr}
        /\ available' \cap pending' = {} /\ stranded' \subseteq ArenaPages
    <2>1. CASE FreeStore(t)
      <3>1. call[t].seen = available \cap PageSlots(b.addr)
        BY <2>1 DEF FreeStore, ApiInvariant, ListsFit, ListFits, FreeIn, Ptr
      <3>2. available' = (available \ PageSlots(b.addr)) \cup (call[t].seen \cup {b.addr})
        BY <2>1 DEF FreeStore, StoreList, Ptr
      <3> QED
        BY <1>5, <1>6, <2>1, <3>1, <3>2 DEF FreeStore
    <2>2. CASE FreeRemote(t)
      BY <1>5, <1>6, <2>2 DEF FreeRemote, Ptr
    <2> QED
      BY <2>1, <2>2
  <1> HIDE DEF b
  <1>8. MemoryFits'
    BY <1>1, <1>2, <1>3, <1>7, SlotLose DEF globals
  <1> QED
    BY <1>2, <1>8, KeepsLess

(* Under the lock no slot is freed, for no thread without a cache has got
   this far with one. *)
LEMMA NoSlotLocked ==
  ASSUME ApiInvariant, NEW t \in Threads, LockedLoad(t) \/ LockedStore(t)
  PROVE  FALSE
  <1>1. ListFits(t)
    BY DEF ApiInvariant, ListsFit
  <1>2. CASE LockedStore(t)
    BY <1>1, <1>2 DEF LockedStore, ListFits
  <1>3. CASE LockedLoad(t)
    <2>1. pc[t] = "free_locked" /\ arena # NULL /\ RegionOf(Ptr(t)) = "slab"
      BY <1>3 DEF LockedLoad
    <2>2. call[t].ptr \in Blocks
      BY <2>1, PtrIsBlock DEF FreeParts
    <2>3. RegionOf(Ptr(t)) = call[t].ptr.region
      BY <2>1, <2>2, Found DEF Ptr
    <2> QED
      BY <1>1, <2>1, <2>3 DEF ListFits
  <1> QED
    BY <1>2, <1>3

LEMMA FreeOtherKeeps ==
  ASSUME ApiInvariant, NEW t \in Threads, FreeTlsf(t) \/ FreeHuge(t) \/ FreeBump(t)
  PROVE  Keeps
  <1> DEFINE b == call[t].ptr
  <1>1. /\ pc[t] \in FreeParts /\ Freed(t) /\ arena # NULL
        /\ UNCHANGED <<pageVars, slotVars, globals, cached>>
    BY DEF FreeTlsf, FreeHuge, FreeBump, FreeLocked, FreeParts
  <1>2. /\ b \in Blocks /\ Changes({}, {b}) /\ Blocks' = Blocks \ {b} /\ Reserved' = Reserved
        /\ RegionOf(Ptr(t)) = b.region /\ b.region \in {"slab", "tlsf", "bump", "huge"}
    BY <1>1, FreedIs
  <1>3. BlocksTyped /\ MemoryFits
    BY OwnedTyped DEF ApiInvariant
  <1>4. CASE FreeTlsf(t)
    <2>1. b.region = "tlsf" /\ pool' = {e \in pool : e[1] # b.addr} /\ UNCHANGED osVars
      BY <1>2, <1>4 DEF FreeTlsf, Ptr
    <2>2. b \in In("tlsf")
      BY <1>2, <2>1 DEF In
    <2> HIDE DEF b
    <2> QED
      BY <1>1, <1>2, <1>3, <2>1, <2>2, PoolLose, KeepsLess DEF globals
  <1>5. CASE FreeHuge(t)
    <2>1. b.region = "huge" /\ huge_free(b.addr) /\ UNCHANGED pool
      BY <1>2, <1>5 DEF FreeHuge, Ptr
    <2>2. b \in In("huge")
      BY <1>2, <2>1 DEF In
    <2> HIDE DEF b
    <2> QED
      BY <1>1, <1>2, <1>3, <2>1, <2>2, HugeLose, KeepsLess DEF globals
  <1>6. CASE FreeBump(t)
    <2>1. b.region = "bump" /\ UNCHANGED <<osVars, pool>>
      BY <1>2, <1>6 DEF FreeBump
    <2> HIDE DEF b
    <2> QED
      BY <1>1, <1>2, <1>3, <2>1, BumpLose, KeepsLess DEF globals
  <1> QED
    BY <1>4, <1>5, <1>6

(* The process ends. *)
LEMMA NullArenaKeeps ==
  ASSUME ApiInvariant, NEW t \in Threads, NullArena(t)
  PROVE  Keeps
  <1>1. InitInv /\ Owned /\ GlobalsFit /\ MemoryFits
    BY DEF ApiInvariant
  <1>2. /\ pc[t] \in Parts
        /\ pc' = [u \in Threads |-> IF u = t THEN "crashed" ELSE "ended"]
        /\ UNCHANGED <<osVars, pageVars, slotVars, pool, globals, cached, held, call>>
    BY DEF NullArena, Parts
  <1>3. Blocks' = Blocks /\ Reserved' = Reserved
    BY <1>2 DEF Blocks, Reserved, globals
  <1>4. ASSUME NEW u \in Threads PROVE ThreadFits(u)'
    <2>1. pc'[u] \in {"crashed", "ended"} /\ call'[u] = call[u] /\ CallFits(call[u], Part(u))
      BY <1>1, <1>2 DEF Owned, ThreadFits
    <2>2. CallFits(call[u], pc'[u])
      BY <2>1 DEF CallFits, Parts, AllocParts, SmallParts, FreeParts
    <2> QED
      BY <2>1, <2>2 DEF ThreadFits, Part, InitSteps
  <1>5. Owned'
    BY <1>1, <1>2, <1>3, <1>4 DEF Owned
  <1>6. ASSUME NEW u \in Threads PROVE BaseFits(u)'
    <2>1. call[t].base = NULL
      BY <1>1, <1>2 DEF GlobalsFit, BaseFits, Parts
    <2> QED
      BY <1>1, <1>2, <2>1 DEF GlobalsFit, BaseFits, globals
  <1>7. GlobalsFit'
    BY <1>1, <1>2, <1>6 DEF GlobalsFit, globals
  <1> QED
    BY <1>1, <1>2, <1>3, <1>5, <1>7, MemoryKept DEF Keeps, BlocksStep, globals
-----------------------------------------------------------------------------
(* What a thread has read of a free list: it stays the list, as each thread
   stores in its own pages only. *)
ListParts == StoreParts \cup {"free_locked"}

(* The steps of a call move its thread alone, and seldom to where it has
   read a list. *)
LEMMA OneMoves ==
  ASSUME InitInv, NEW t \in Threads, Call(t) \/ (Step(t) /\ ~NullArena(t))
  PROVE  \A u \in Threads \ {t} : pc'[u] = pc[u] /\ call'[u] = call[u]
  <1>1. DOMAIN pc = Threads /\ DOMAIN call = Threads
    BY DEF InitInv, ThreadsInit
  <1>2. ASSUME NEW to, NEW c, Goto(t, to), call' = call \/ call' = [call EXCEPT ![t] = c]
        PROVE  \A u \in Threads \ {t} : pc'[u] = pc[u] /\ call'[u] = call[u]
    BY <1>1, <1>2 DEF Goto
  <1>3. CASE Call(t)
    <2>1. \E to, c : Goto(t, to) /\ call' = [call EXCEPT ![t] = c]
      BY <1>3 DEF Call, MallocCall, MemalignCall, FreeCall, ReallocCall, HookedFreeCall, HookedReallocCall,
                  UsableCall, Enter
    <2> QED
      BY <1>2, <2>1
  <1>4. CASE EnsureInit(t)
    <2>1. CASE InitTls(t)
      BY <1>1, <2>1 DEF InitTls, Goto
    <2>2. CASE ~InitTls(t)
      <3>1. \E to, c : Goto(t, to) /\ (call' = call \/ call' = [call EXCEPT ![t] = c])
        BY <1>4, <2>2 DEF EnsureInit, InitDone, InitRefused, InitArena, InitPool, Resume
      <3> QED
        BY <1>2, <3>1
    <2> QED
      BY <2>1, <2>2
  <1>5. CASE CreateCache(t) \/ NoCache(t)
    BY <1>1, <1>5 DEF CreateCache, NoCache, Goto
  <1>6. CASE Malloc(t)
    <2>1. CASE PopLoad(t)
      BY <1>1, <2>1 DEF PopLoad, LoadList, Goto
    <2>2. CASE ~PopLoad(t)
      <3>1. \E to, c : Goto(t, to) /\ (call' = call \/ call' = [call EXCEPT ![t] = c])
        BY <1>6, <2>2 DEF Malloc, HugeMalloc, HugeRefused, HasRemote, Drain, PopStore, NewPage, NoPage,
                          TlsfMalloc, BumpMalloc, BumpRefused, Got, GotNull, Enter, Return
      <3> QED
        BY <1>2, <3>1
    <2> QED
      BY <2>1, <2>2
  <1>7. CASE UsableSize(t)
    <2>1. \E to, c : Goto(t, to) /\ call' = [call EXCEPT ![t] = c]
      BY <1>7 DEF UsableSize, UsableReturns, UsableToMalloc, UsableToHook, UsableToOriginal, Enter, Return
    <2> QED
      BY <1>2, <2>1
  <1>8. CASE Free(t)
    <2>1. CASE FreeLoad(t) \/ LockedLoad(t)
      BY <1>1, <2>1 DEF FreeLoad, LockedLoad, LoadList, Goto
    <2>2. CASE ~FreeLoad(t) /\ ~LockedLoad(t)
      <3>1. \E to, c : Goto(t, to) /\ call' = [call EXCEPT ![t] = c]
        BY <1>8, <2>2 DEF Free, FreeStore, FreeRemote, LockedStore, FreeTlsf, FreeHuge, FreeBump, FreeLocked,
                          Freed, Return
      <3> QED
        BY <1>2, <3>1
    <2> QED
      BY <2>1, <2>2
  <1> QED
    BY <1>3, <1>4, <1>5, <1>6, <1>7, <1>8 DEF Step

LEMMA NoList ==
  ASSUME NEW t \in Threads, pc'[t] \notin ListParts
  PROVE  ListFits(t)'
  BY DEF ListParts, StoreParts, ListFits

LEMMA EntersFree ==
  ASSUME InitInv, NEW t \in Threads, NEW c, NEW part \in FirstParts, Enter(t, c, part)
  PROVE  pc'[t] \notin ListParts
  <1>1. pc'[t] \in FirstParts \cup {"init"}
    BY DEF Enter, Goto, InitInv, ThreadsInit
  <1> QED
    BY <1>1 DEF FirstParts, ListParts, StoreParts

LEMMA GoesOn ==
  ASSUME InitInv, NEW t \in Threads, NEW to, Goto(t, to), to \notin ListParts
  PROVE  pc'[t] \notin ListParts
  BY DEF Goto, InitInv, ThreadsInit

LEMMA GotFree ==
  ASSUME InitInv, NEW t \in Threads, NEW b, Got(t, b)
  PROVE  pc'[t] \notin ListParts
  <1>1. "free" \in FirstParts /\ "idle" \notin ListParts
    BY DEF FirstParts, ListParts, StoreParts
  <1> QED
    BY <1>1, EntersFree, GoesOn DEF Got, Return

(* The slots of a page of another thread stay free, or not. *)
OthersKept(t) == \A s \in SlabSlots : MetaOf(s).owner_id # t => (s \in available' <=> s \in available)

LEMMA OthersFit ==
  ASSUME ApiInvariant, NEW t \in Threads, NEW u \in Threads \ {t}, pc'[u] = pc[u], call'[u] = call[u],
         Kept, UNCHANGED stranded, OthersKept(t)
  PROVE  ListFits(u)'
  <1>1. InitInv /\ MemoryFits /\ PagesFit /\ ListFits(u) /\ stranded = {} /\ available \subseteq SlabSlots
    BY AvailableSlots DEF ApiInvariant, MemoryFits, ListsFit
  <1>2. ASSUME NEW s \in SlabSlots, MetaOf(s).owner_id = u, arena # NULL
        PROVE  /\ ptr_to_page_index(s)' = ptr_to_page_index(s) /\ MetaOf(s)' = MetaOf(s)
               /\ (contains(s)' <=> contains(s))
               /\ FreeIn(s)' = FreeIn(s) /\ (s \in available' <=> s \in available)
    <2>1. /\ ptr_to_page_index(s) \in SlabPages
          /\ PageSlots(s) \subseteq SlabSlots /\ \A r \in PageSlots(s) : MetaOf(r) = MetaOf(s)
          /\ s \in PageSlots(s)
      BY <1>1, SamePage
    <2>2. arena' = arena /\ \A p \in SlabPages : meta'[p] = meta[p]
      BY <1>2 DEF Kept, SlabPages
    <2>3. ptr_to_page_index(s)' = ptr_to_page_index(s) /\ (contains(s)' <=> contains(s))
      BY <2>2 DEF ptr_to_page_index, contains
    <2>4. MetaOf(s)' = MetaOf(s)
      BY <2>1, <2>2, <2>3 DEF MetaOf
    <2>5. PageSlots(s)' = PageSlots(s)
      BY <2>1, <2>2, <2>3 DEF PageSlots, SlotsOfPage
    <2>6. \A r \in PageSlots(s) : r \in available' <=> r \in available
      BY <1>2, <2>1 DEF OthersKept
    <2>7. FreeIn(s)' = FreeIn(s)
      BY <2>5, <2>6 DEF FreeIn
    <2> QED
      BY <2>1, <2>3, <2>4, <2>6, <2>7
  <1>3. CASE pc[u] = "slot_store"
    <2>1. PICK s \in Listed(u, Class(u)) : call[u].seen = FreeIn(s)
      BY <1>1, <1>3 DEF ListFits
    <2>2. s \in available /\ s \in SlabSlots /\ MetaOf(s) = [size_class |-> Class(u), owner_id |-> u]
      BY <1>1, <2>1 DEF Listed
    <2>3. arena # NULL
      BY <1>1, <2>2 DEF PagesFit
    <2>4. FreeIn(s)' = FreeIn(s) /\ MetaOf(s)' = MetaOf(s) /\ s \in available'
      BY <1>2, <2>2, <2>3
    <2>5. Class(u)' = Class(u)
      BY DEF Class
    <2>6. s \in Listed(u, Class(u))'
      BY <1>1, <2>2, <2>4, <2>5 DEF Listed
    <2> QED
      BY <1>3, <2>1, <2>4, <2>6 DEF ListFits
  <1>4. CASE pc[u] = "free_store"
    <2>1. /\ arena # NULL /\ RegionOf(Ptr(u)) = "slab" /\ MetaOf(Ptr(u)).owner_id = u
          /\ call[u].seen = FreeIn(Ptr(u))
      BY <1>1, <1>4 DEF ListFits
    <2>2. Ptr(u) \in SlabSlots
      <3>1. call[u].ptr \in Blocks
        BY <1>4, PtrIsBlock DEF FreeParts
      <3>2. call[u].ptr \in In("slab")
        BY <2>1, <3>1, Found DEF Ptr, In
      <3> QED
        BY <1>1, <3>2 DEF Ptr, MemoryFits, BlocksFit, SlabBlock, SlabSlots
    <2>3. Ptr(u)' = Ptr(u) /\ arena' # NULL
      BY <2>1 DEF Ptr, Kept
    <2>4. PICK a : a = Ptr(u) /\ a \in SlabSlots /\ MetaOf(a).owner_id = u /\ RegionOf(a) = "slab"
      BY <2>1, <2>2
    <2>5. /\ ptr_to_page_index(a)' = ptr_to_page_index(a) /\ MetaOf(a)' = MetaOf(a)
          /\ (contains(a)' <=> contains(a)) /\ FreeIn(a)' = FreeIn(a)
      BY <1>2, <2>1, <2>4
    <2>6. RegionOf(a)' = "slab"
      <3>1. contains(a) /\ ptr_to_page_index(a) # 0 /\ MetaOf(a).size_class # NO_CLASS
        BY <2>4 DEF RegionOf
      <3> QED
        BY <2>5, <3>1 DEF RegionOf
    <2>7. /\ RegionOf(Ptr(u))' = "slab" /\ MetaOf(Ptr(u))'.owner_id = u
          /\ FreeIn(Ptr(u))' = FreeIn(Ptr(u))
      BY <2>3, <2>4, <2>5, <2>6
    <2> QED
      BY <1>4, <2>1, <2>3, <2>7 DEF ListFits
  <1>5. CASE pc[u] \notin {"slot_store", "free_store"}
    BY <1>1, <1>5 DEF ListFits
  <1> QED
    BY <1>3, <1>4, <1>5

(* The steps that change no list, and read none. *)
LEMMA QuietLists ==
  ASSUME InitInv, NEW t \in Threads,
         \/ Call(t) \/ EnsureInit(t) \/ CreateCache(t) \/ (NoCache(t) /\ pc[t] = "malloc")
         \/ HugeMalloc(t) \/ HugeRefused(t) \/ HasRemote(t) \/ NoPage(t)
         \/ TlsfMalloc(t) \/ BumpMalloc(t) \/ BumpRefused(t) \/ UsableSize(t)
         \/ FreeRemote(t) \/ FreeTlsf(t) \/ FreeHuge(t) \/ FreeBump(t)
  PROVE  UNCHANGED <<available, stranded>> /\ pc'[t] \notin ListParts
  <1> USE DEF slotVars
  <1>1. {"idle", "drain", "slot", "tlsf", "huge", "init_arena", "init_pool", "malloc", "free"} \cap ListParts = {}
    BY DEF ListParts, StoreParts
  <1>2. FirstParts \cap ListParts = {}
    BY DEF FirstParts, ListParts, StoreParts
  <1>3. CASE Call(t)
    <2>1. UNCHANGED <<available, stranded>>
      BY <1>3 DEF Call
    <2>2. \A n : MallocPart(n) \in FirstParts
      BY DEF MallocPart, FirstParts
    <2>3. {"free", "usable"} \subseteq FirstParts
      BY DEF FirstParts
    <2>4. \/ Goto(t, "huge")
          \/ \E c, part : Enter(t, c, part) /\ part \in FirstParts
      BY <1>3, <2>2, <2>3
         DEF Call, MallocCall, MemalignCall, FreeCall, ReallocCall, HookedFreeCall, HookedReallocCall, UsableCall
    <2> QED
      BY <1>1, <2>1, <2>4, EntersFree, GoesOn
  <1>4. CASE EnsureInit(t)
    <2>1. CASE InitDone(t) \/ InitRefused(t) \/ InitPool(t)
      <3>1. Goto(t, call[t].then) /\ UNCHANGED <<available, stranded>>
        BY <2>1 DEF InitDone, InitRefused, InitPool, Resume
      <3>2. call[t].then \in FirstParts \cup {"idle"}
        BY DEF InitInv, ThreadsInit, ThreadInit, CallTyped
      <3> QED
        BY <1>1, <1>2, <3>1, <3>2, GoesOn
    <2>2. CASE InitTls(t) \/ InitArena(t)
      BY <1>1, <2>2, GoesOn DEF InitTls, InitArena
    <2> QED
      BY <1>4, <2>1, <2>2 DEF EnsureInit
  <1>5. CASE CreateCache(t)
    BY <1>1, <1>5 DEF CreateCache
  <1>6. CASE (NoCache(t) /\ pc[t] = "malloc") \/ HasRemote(t) \/ NoPage(t)
    <2>1. UNCHANGED <<available, stranded>> /\ \E to \in {"drain", "slot", "tlsf"} : Goto(t, to)
      BY <1>6 DEF NoCache, HasRemote, NoPage
    <2> QED
      BY <1>1, <2>1, GoesOn
  <1>7. CASE HugeMalloc(t) \/ TlsfMalloc(t) \/ BumpMalloc(t)
    <2>1. UNCHANGED <<available, stranded>> /\ \E b : Got(t, b)
      BY <1>7 DEF HugeMalloc, TlsfMalloc, BumpMalloc
    <2> QED
      BY <2>1, GotFree
  <1>8. CASE HugeRefused(t) \/ BumpRefused(t)
    <2>1. UNCHANGED <<available, stranded>> /\ Goto(t, "idle")
      BY <1>8 DEF HugeRefused, BumpRefused, GotNull, Return
    <2> QED
      BY <1>1, <2>1, GoesOn
  <1>9. CASE UsableSize(t)
    <2>1. UNCHANGED <<available, stranded>>
      BY <1>9 DEF UsableSize
    <2>2. MallocPart(call[t].size) \in FirstParts /\ {"free", "usable"} \subseteq FirstParts
      BY DEF MallocPart, FirstParts
    <2>3. \/ Goto(t, "idle")
          \/ \E c, part : Enter(t, c, part) /\ part \in FirstParts
      BY <1>9, <2>2 DEF UsableSize, UsableReturns, UsableToMalloc, UsableToHook, UsableToOriginal, Return
    <2> QED
      BY <1>1, <2>1, <2>3, EntersFree, GoesOn
  <1>10. CASE FreeRemote(t) \/ FreeTlsf(t) \/ FreeHuge(t) \/ FreeBump(t)
    <2>1. UNCHANGED <<available, stranded>> /\ Goto(t, "idle")
      BY <1>10 DEF FreeRemote, FreeTlsf, FreeHuge, FreeBump, FreeLocked, Freed, Return
    <2> QED
      BY <1>1, <2>1, GoesOn
  <1> QED
    BY <1>3, <1>4, <1>5, <1>6, <1>7, <1>8, <1>9, <1>10

(* The steps that take from the lists of the thread's own pages, or add to
   them. *)
LEMMA OwnLists ==
  ASSUME ApiInvariant, NEW t \in Threads, Drain(t) \/ PopStore(t) \/ NewPage(t) \/ FreeStore(t)
  PROVE  OthersKept(t) /\ UNCHANGED stranded /\ pc'[t] \notin ListParts
  <1>1. InitInv /\ MemoryFits /\ PagesFit /\ SlabFits /\ ListFits(t)
        /\ available \subseteq SlabSlots /\ pending \subseteq SlabSlots
    BY AvailableSlots, ByRegion DEF ApiInvariant, MemoryFits, ListsFit
  <1>2. CASE Drain(t)
    <2>1. available' = available \cup Remote(t) /\ UNCHANGED stranded /\ Goto(t, "slot")
      BY <1>2 DEF Drain
    <2>2. "slot" \notin ListParts
      BY DEF ListParts, StoreParts
    <2> QED
      BY <1>1, <2>1, <2>2, GoesOn DEF OthersKept, Remote
  <1>3. ASSUME NEW r \in SlabSlots, MetaOf(r).owner_id = t, NEW new \in SUBSET PageSlots(r), StoreList(r, new)
        PROVE  OthersKept(t)
    <2>1. \A s \in PageSlots(r) : MetaOf(s).owner_id = t
      BY <1>1, <1>3, SamePage
    <2> QED
      BY <1>3, <2>1 DEF OthersKept, StoreList
  <1>4. CASE PopStore(t)
    <2>1. PICK r \in Listed(t, Class(t)) : call[t].seen = FreeIn(r)
      BY <1>1, <1>4 DEF PopStore, ListFits
    <2>2. r \in SlabSlots /\ MetaOf(r).owner_id = t
      BY <1>1, <2>1 DEF Listed
    <2>3. PICK s \in FreeIn(r) : StoreList(s, FreeIn(r) \ {s})
                                /\ Got(t, NewBlock(t, s, Class(t), "slab"))
      BY <1>4, <2>1 DEF PopStore
    <2>4. PageSlots(s) = PageSlots(r)
      BY <1>1, <2>2, <2>3, SamePage DEF FreeIn
    <2>5. StoreList(r, FreeIn(r) \ {s}) /\ FreeIn(r) \ {s} \in SUBSET PageSlots(r)
      BY <2>3, <2>4 DEF StoreList, FreeIn
    <2>6. pc'[t] \notin ListParts
      BY <1>1, <2>3, GotFree
    <2> QED
      BY <1>3, <1>4, <2>2, <2>5, <2>6 DEF PopStore
  <1>5. CASE NewPage(t)
    <2> DEFINE p == next_free_page
    <2>1. /\ lock = NULL /\ arena # NULL /\ CarvePage(t, Class(t))
          /\ Got(t, NewBlock(t, Addr(arena + p), Class(t), "slab"))
      BY <1>5 DEF NewPage, Locked
    <2>2. pc'[t] \notin ListParts
      BY <1>1, <2>1, GotFree
    <2>3. /\ p + 1 <= PAGES_PER_ARENA /\ UNCHANGED stranded
          /\ available' = available \cup (SlotsOfPage(p, Class(t)) \ {Addr(arena + p)})
      BY <2>1 DEF CarvePage, BumpFits
    <2>4. Class(t) \in 1..PAGE_SIZE
      <3>1. pc[t] \in AllocParts /\ pc[t] \in SmallParts
        BY <1>5 DEF NewPage, AllocParts, SmallParts
      <3> QED
        BY <3>1, Asks, Geometry
    <2>5. /\ arena \in Nat /\ p \in Nat /\ META_PAGES <= p
          /\ \A q \in SlabPages : q \in Int /\ q < p
      BY <1>1, <2>1, HasPool, PageFacts, Geometry
    <2>6. ASSUME NEW s \in SlotsOfPage(p, Class(t)) PROVE ptr_to_page_index(s) = p
      <3>1. s \in Int /\ Addr(arena + p) <= s /\ s + Class(t) <= Addr(arena + p + 1)
        BY <2>4, <2>5, <2>6, SlotInPage
      <3>2. s < Addr(arena + p + 1) /\ p < PAGES_PER_ARENA
        BY <2>3, <2>4, <2>5, <3>1, AddrInt, PageSize, Geometry
      <3> HIDE DEF p
      <3> QED
        BY <2>5, <3>1, <3>2, IndexIs
    <2>7. \A s \in SlabSlots : ptr_to_page_index(s) # p
      BY <1>1, <2>5, SamePage
    <2>8. OthersKept(t)
      BY <2>3, <2>6, <2>7 DEF OthersKept
    <2> QED
      BY <2>2, <2>3, <2>8
  <1>6. CASE FreeStore(t)
    <2>1. /\ MetaOf(Ptr(t)).owner_id = t /\ call[t].seen = FreeIn(Ptr(t))
          /\ arena # NULL /\ RegionOf(Ptr(t)) = "slab"
      BY <1>1, <1>6 DEF FreeStore, ListFits
    <2>2. Ptr(t) \in SlabSlots
      <3>1. call[t].ptr \in Blocks
        BY <1>6, PtrIsBlock DEF FreeStore, FreeParts
      <3>2. call[t].ptr \in In("slab")
        BY <2>1, <3>1, Found DEF Ptr, In
      <3> QED
        BY <1>1, <3>2 DEF Ptr, SlabFits, SlabBlock, SlabSlots
    <2>3. StoreList(Ptr(t), FreeIn(Ptr(t)) \cup {Ptr(t)}) /\ UNCHANGED stranded /\ Goto(t, "idle")
      BY <1>6, <2>1 DEF FreeStore, Freed, Return
    <2>4. FreeIn(Ptr(t)) \cup {Ptr(t)} \in SUBSET PageSlots(Ptr(t))
      BY <1>1, <2>2, SamePage DEF FreeIn
    <2>5. "idle" \notin ListParts
      BY DEF ListParts, StoreParts
    <2> QED
      BY <1>1, <1>3, <2>1, <2>2, <2>3, <2>4, <2>5, GoesOn
  <1> QED
    BY <1>2, <1>4, <1>5, <1>6

(* The steps that read a list, and the one that sends a free to the lock. *)
LEMMA ReadLists ==
  ASSUME ~CachelessFrees, ApiInvariant, NEW t \in Threads,
         PopLoad(t) \/ FreeLoad(t) \/ (NoCache(t) /\ pc[t] = "free")
  PROVE  UNCHANGED <<available, stranded>> /\ ListFits(t)'
  <1>1. InitInv /\ DOMAIN pc = Threads /\ DOMAIN call = Threads /\ CallTyped(call[t])
    BY DEF ApiInvariant, InitInv, ThreadsInit, ThreadInit
  <1>2. CASE PopLoad(t)
    <2>1. PICK s \in Listed(t, Class(t)) : LoadList(t, s, "slot_store")
      BY <1>2 DEF PopLoad
    <2>2. UNCHANGED <<available, stranded, meta, arena>>
      BY <1>2 DEF PopLoad, slotVars, pageVars, globals
    <2>3. pc'[t] = "slot_store" /\ call'[t].seen = FreeIn(s) /\ call'[t].size = call[t].size
      BY <1>1, <2>1, CallFields DEF LoadList, Goto, CallTyped
    <2>4. Class(t)' = Class(t)
      BY <2>3 DEF Class
    <2>5. Listed(t, Class(t))' = Listed(t, Class(t)) /\ FreeIn(s)' = FreeIn(s)
      BY <2>2, <2>4 DEF Listed, FreeIn, PageSlots, SlotsOfPage, MetaOf, ptr_to_page_index, contains
    <2> QED
      BY <2>1, <2>2, <2>3, <2>5 DEF ListFits
  <1>3. CASE FreeLoad(t)
    <2>1. /\ arena # NULL /\ RegionOf(Ptr(t)) = "slab" /\ MetaOf(Ptr(t)).owner_id = t
          /\ LoadList(t, Ptr(t), "free_store")
          /\ UNCHANGED <<available, stranded, meta, arena, tlsf>>
      BY <1>3 DEF FreeLoad, slotVars, pageVars, globals
    <2>2. pc'[t] = "free_store" /\ call'[t].seen = FreeIn(Ptr(t)) /\ call'[t].ptr = call[t].ptr
      BY <1>1, <2>1, CallFields DEF LoadList, Goto, CallTyped
    <2>3. PICK a : a = Ptr(t)
      OBVIOUS
    <2>4. Ptr(t)' = a
      BY <2>2, <2>3 DEF Ptr
    <2>5. RegionOf(a)' = RegionOf(a) /\ MetaOf(a)' = MetaOf(a) /\ FreeIn(a)' = FreeIn(a)
      BY <2>1 DEF RegionOf, PoolContains, FreeIn, PageSlots, SlotsOfPage, MetaOf, ptr_to_page_index, contains
    <2>6. RegionOf(Ptr(t))' = "slab" /\ MetaOf(Ptr(t))'.owner_id = t /\ FreeIn(Ptr(t))' = FreeIn(Ptr(t))
      BY <2>1, <2>3, <2>4, <2>5
    <2> QED
      BY <2>1, <2>2, <2>6 DEF ListFits
  <1>4. CASE NoCache(t) /\ pc[t] = "free"
    <2>1. /\ arena # NULL => RegionOf(Ptr(t)) # "slab"
          /\ Goto(t, "free_locked") /\ UNCHANGED <<available, stranded, call>>
      BY <1>4 DEF NoCache, slotVars
    <2>2. call[t].ptr \in Blocks
      BY <1>4, PtrIsBlock DEF FreeParts
    <2>3. call[t].ptr.region # "slab"
      <3>1. CASE arena # NULL
        BY <2>1, <2>2, <3>1, Found DEF Ptr
      <3>2. CASE arena = NULL
        BY <2>2, <3>2 DEF ApiInvariant, MemoryFits, PagesFit
      <3> QED
        BY <3>1, <3>2
    <2>4. pc'[t] = "free_locked"
      BY <1>1, <2>1 DEF Goto
    <2> QED
      BY <2>1, <2>3, <2>4 DEF ListFits
  <1> QED
    BY <1>2, <1>3, <1>4

LEMMA ListsStep ==
  ASSUME ~CachelessFrees, ApiInvariant, [Next]_vars
  PROVE  ListsFit'
  <1>1. InitInv /\ ListsFit /\ [Kept]_vars
    BY StepHolds DEF ApiInvariant
  <1>2. ASSUME NEW t \in Threads, Call(t) \/ (Step(t) /\ ~NullArena(t))
        PROVE  ListsFit'
    <2>1. \A u \in Threads \ {t} : pc'[u] = pc[u] /\ call'[u] = call[u]
      BY <1>1, <1>2, OneMoves
    <2>2. Kept
      BY <1>1, <1>2 DEF Next, Kept, vars, globals, pageVars
    <2>3. OthersKept(t) /\ UNCHANGED stranded /\ ListFits(t)'
      <3>1. UNCHANGED available => OthersKept(t)
        BY DEF OthersKept
      <3>2. CASE Malloc(t)
        BY <1>1, <3>1, <3>2, QuietLists, OwnLists, ReadLists, NoList DEF Malloc
      <3>3. CASE Free(t)
        BY <1>1, <3>1, <3>3, QuietLists, OwnLists, ReadLists, NoList, NoSlotLocked DEF Free
      <3>4. CASE CreateCache(t) \/ NoCache(t)
        <4>1. CASE NoCache(t)
          <5>1. pc[t] \in {"malloc", "free"}
            BY <4>1 DEF NoCache
          <5> QED
            BY <1>1, <3>1, <4>1, <5>1, QuietLists, ReadLists, NoList
        <4> QED
          BY <1>1, <3>1, <3>4, <4>1, QuietLists, NoList
      <3>5. CASE Call(t) \/ EnsureInit(t) \/ UsableSize(t)
        BY <1>1, <3>1, <3>5, QuietLists, NoList
      <3> QED
        BY <1>2, <3>2, <3>3, <3>4, <3>5 DEF Step
    <2>4. \A u \in Threads \ {t} : ListFits(u)'
      BY <2>1, <2>2, <2>3, OthersFit
    <2> QED
      BY <1>1, <2>3, <2>4 DEF ListsFit
  <1>3. ASSUME NEW t \in Threads, NullArena(t)
        PROVE  ListsFit'
    <2>1. UNCHANGED stranded /\ \A u \in Threads : pc'[u] \in {"crashed", "ended"}
      BY <1>3 DEF NullArena, slotVars
    <2>2. \A u \in Threads : ListFits(u)'
      BY <2>1 DEF ListFits
    <2> QED
      BY <1>1, <2>1, <2>2 DEF ListsFit
  <1>4. CASE UNCHANGED vars
    <2>1. UNCHANGED <<available, stranded, meta, arena, tlsf, pc, call>>
      BY <1>4 DEF vars, slotVars, pageVars, globals
    <2>2. \A u \in Threads : ListFits(u)' <=> ListFits(u)
      BY <2>1 DEF ListFits, Listed, Class, Ptr, RegionOf, PoolContains, FreeIn, PageSlots, SlotsOfPage, MetaOf,
                  ptr_to_page_index, contains
    <2> QED
      BY <1>1, <2>1, <2>2 DEF ListsFit
  <1> QED
    BY <1>2, <1>3, <1>4 DEF Next, Step
-----------------------------------------------------------------------------
LEMMA ApiHolds == Init => ApiInvariant
  <1> SUFFICES ASSUME Init PROVE ApiInvariant
    OBVIOUS
  <1>1. Blocks = {} /\ Reserved = {} /\ SlabPages = {}
    BY Geometry DEF Init, RegionsInit, NoCall, Blocks, Hands, Reserved, SlabPages, EmptyMeta, ArenaPages
  <1>2. InitInv
    BY InitHolds
  <1>3. Owned
    <2>1. CallFits(NoCall, "idle") /\ Hands(NoCall) = {}
      BY DEF CallFits, NoCall, PtrOps, SizeOps, Parts, StoreParts, AllocParts, SmallParts, FreeParts, Hands
    <2> QED
      BY <1>1, <2>1 DEF Init, Owned, ThreadFits, Part, InitSteps
  <1>4. GlobalsFit
    BY DEF Init, RegionsInit, GlobalsFit, BaseFits, NoCall
  <1>5. PagesFit
    <2>1. next_free_page \in 0..PAGES_PER_ARENA
      BY Geometry DEF Init, RegionsInit
    <2> QED
      BY <1>1, <2>1 DEF Init, RegionsInit, PagesFit, ArenaPages
  <1>6. PoolFits /\ BlocksFit
    BY <1>1 DEF Init, RegionsInit, PoolFits, BlocksFit, In
  <1>7. HeadersFit
    BY DEF Init, RegionsInit, HeadersFit
  <1>8. Accounted(available)
    BY <1>1 DEF Init, RegionsInit, Accounted, In, Addrs, SlabSlots, ArenaSpans
  <1>9. ListsFit
    BY DEF Init, RegionsInit, ListsFit, ListFits
  <1> QED
    BY <1>2, <1>3, <1>4, <1>5, <1>6, <1>7, <1>8, <1>9 DEF ApiInvariant, MemoryFits

LEMMA ApiStep ==
  ASSUME ~CachelessFrees, ApiInvariant, [Next]_vars
  PROVE  ApiInvariant' /\ BlocksStep
  <1>1. InitInv'
    BY StepHolds DEF ApiInvariant
  <1>2. Keeps
    <2>1. CASE Next
      <3>1. PICK t \in Threads : Call(t) \/ Step(t)
        BY <2>1 DEF Next
      <3>2. CASE Malloc(t)
        BY <3>2, HugeMallocKeeps, RefusedKeeps, MoveOnKeeps, DrainKeeps, LoadKeeps, PopStoreKeeps,
           NewPageKeeps, TlsfMallocKeeps, BumpMallocKeeps DEF Malloc
      <3>3. CASE Free(t)
        BY <3>3, LoadKeeps, FreeSlotKeeps, NoSlotLocked, FreeOtherKeeps DEF Free
      <3> QED
        BY <3>1, <3>2, <3>3, CallKeeps, EnsureInitKeeps, CacheKeeps, UsableSizeKeeps, NullArenaKeeps
           DEF Step
    <2>2. CASE UNCHANGED vars
      <3>1. UNCHANGED <<osVars, pageVars, slotVars, pool, globals, cached, held, pc, call>>
        BY <2>2 DEF vars
      <3>2. Blocks' = Blocks /\ Reserved' = Reserved
        BY <3>1 DEF Blocks, Reserved, globals
      <3>3. Owned'
        BY <3>1, <3>2 DEF ApiInvariant, Owned, ThreadFits, Part
      <3>4. GlobalsFit'
        BY <3>1 DEF ApiInvariant, GlobalsFit, BaseFits, globals, pageVars
      <3> QED
        BY <3>1, <3>2, <3>3, <3>4, MemoryKept DEF ApiInvariant, Keeps, BlocksStep, globals
    <2> QED
      BY <2>1, <2>2
  <1>3. ListsFit'
    BY ListsStep
  <1> QED
    BY <1>1, <1>2, <1>3 DEF ApiInvariant, Keeps

(* What the steps of every call, by any threads in any order, keep true of
   hands, globals and memory, as long as every thread that frees a slot has a
   cache. *)
THEOREM ApiInvariance ==
  ASSUME ~CachelessFrees
  PROVE  Spec => []ApiInvariant
  <1>1. ApiInvariant /\ [Next]_vars => ApiInvariant'
    BY ApiStep
  <1> QED
    BY <1>1, ApiHolds, PTL DEF Spec
-----------------------------------------------------------------------------
(* What the invariant says of the interface. *)
LEMMA FoundAll == ApiInvariant => FindsAllocator
  <1> SUFFICES ASSUME ApiInvariant, NEW b \in Blocks
               PROVE  IF arena = NULL THEN b.region = "huge"
                      ELSE /\ RegionOf(b.addr) = b.region
                           /\ usable_size(b.addr) = IF b.region = "bump" THEN 0 ELSE b.room
    BY DEF FindsAllocator
  <1>1. CASE arena = NULL
    BY <1>1 DEF ApiInvariant, MemoryFits, PagesFit
  <1>2. CASE arena # NULL
    BY <1>2, Found
  <1> QED
    BY <1>1, <1>2

(* No page is on the global slab's list, so a cache lists every free slot. *)
LEMMA AllFound == ApiInvariant => NothingLost
  <1> SUFFICES ASSUME ApiInvariant PROVE NothingLost
    OBVIOUS
  <1>1. PagesFit /\ SlabFits /\ ListsFit /\ Accounted(available)
    BY ByRegion DEF ApiInvariant, MemoryFits
  <1>2. ASSUME NEW s \in available
        PROVE  s \in Obtainable
    <2>1. PICK p \in SlabPages : s \in SlotsOfPage(p, meta[p].size_class)
      BY <1>1 DEF SlabFits, SlabSlots
    <2>2. ptr_to_page_index(s) = p
      BY <1>1, <2>1, SlotWhere
    <2>3. meta[p] \in [size_class : Classes, owner_id : Threads]
      BY <1>1 DEF PagesFit, SlabPages, EmptyMeta
    <2>4. meta[p] = [size_class |-> meta[p].size_class, owner_id |-> meta[p].owner_id]
      BY <2>3
    <2>5. s \in Listed(meta[p].owner_id, meta[p].size_class)
      BY <1>1, <2>2, <2>4 DEF Listed, MetaOf, ListsFit
    <2> QED
      BY <2>3, <2>5 DEF Obtainable
  <1>3. Obtainable = available
    BY <1>2 DEF Obtainable, Listed
  <1>4. PopsFree
    <2> SUFFICES ASSUME NEW t \in Threads, pc[t] = "slot_store", NEW s \in call[t].seen
                 PROVE  s \in available
      BY <1>3 DEF PopsFree
    <2> QED
      BY <1>1 DEF ListsFit, ListFits, FreeIn
  <1> QED
    BY <1>1, <1>3, <1>4 DEF NothingLost

LEMMA ReallocCopies == ApiInvariant => ReallocKeeps
  <1> SUFFICES ASSUME ApiInvariant, NEW t \in Threads, call[t].new # NULL
               PROVE  /\ call[t].copied >= IF call[t].ptr.size < call[t].new.size
                                           THEN call[t].ptr.size ELSE call[t].new.size
                      /\ call[t].copied <= call[t].new.room
    BY DEF ReallocKeeps
  <1> DEFINE old == call[t].ptr
             new == call[t].new
  <1>1. /\ new.size = call[t].size /\ call[t].copied = CopySize(call[t].usable, call[t].size)
        /\ old # NULL /\ call[t].usable \in {0, old.room}
    BY DEF ApiInvariant, Owned, ThreadFits, CallFits, PtrOps
  <1>2. old \in Blocks /\ new \in Blocks
    BY <1>1, InBlocks DEF Hands
  <1>3. /\ old.size \in Nat /\ old.room \in Nat /\ old.size <= old.room
        /\ new.size \in Nat /\ new.room \in Nat /\ new.size <= new.room
    BY <1>2 DEF ApiInvariant, Owned, IsBlock, Block
  <1> HIDE DEF old, new
  <1>4. call[t].copied \in {new.size, old.room} /\ call[t].copied <= new.size
        /\ (call[t].copied = old.room \/ call[t].copied = new.size)
    BY <1>1, <1>3 DEF CopySize
  <1>5. call[t].copied >= (IF old.size < new.size THEN old.size ELSE new.size) /\ call[t].copied <= new.room
    BY <1>3, <1>4
  <1> QED
    BY <1>5 DEF old, new

(* Every variable has its type; that pc is a function is an invariant of its
   own. *)
PcIsFunction == pc = [t \in Threads |-> pc[t]]

LEMMA PcStays == PcIsFunction /\ [Next]_vars => PcIsFunction'
  <1> SUFFICES ASSUME PcIsFunction, [Next]_vars PROVE PcIsFunction'
    OBVIOUS
  <1>1. ASSUME NEW t \in Threads, NEW to, Goto(t, to) PROVE PcIsFunction'
    BY <1>1 DEF Goto, PcIsFunction
  <1>2. CASE UNCHANGED pc
    BY <1>2 DEF PcIsFunction
  <1>3. ASSUME NEW t \in Threads, Call(t) PROVE PcIsFunction'
    <2>1. \E to : Goto(t, to)
      BY <1>3 DEF Call, MallocCall, MemalignCall, FreeCall, ReallocCall, HookedFreeCall, HookedReallocCall,
                  UsableCall, Enter
    <2> QED
      BY <1>1, <2>1
  <1>4. ASSUME NEW t \in Threads, EnsureInit(t) PROVE PcIsFunction'
    <2>1. \E to : Goto(t, to)
      BY <1>4 DEF EnsureInit, InitDone, InitRefused, InitTls, InitArena, InitPool, Resume
    <2> QED
      BY <1>1, <2>1
  <1>5. ASSUME NEW t \in Threads, CreateCache(t) \/ NoCache(t) PROVE PcIsFunction'
    BY <1>1, <1>2, <1>5 DEF CreateCache, NoCache
  <1>6. ASSUME NEW t \in Threads, Malloc(t) PROVE PcIsFunction'
    <2>1. \E to : Goto(t, to)
      BY <1>6 DEF Malloc, HugeMalloc, HugeRefused, HasRemote, Drain, PopLoad, LoadList, PopStore, NewPage,
                  NoPage, TlsfMalloc, BumpMalloc, BumpRefused, Got, GotNull, Enter, Return
    <2> QED
      BY <1>1, <2>1
  <1>7. ASSUME NEW t \in Threads, UsableSize(t) PROVE PcIsFunction'
    <2>1. \E to : Goto(t, to)
      BY <1>7 DEF UsableSize, UsableReturns, UsableToMalloc, UsableToHook, UsableToOriginal, Enter, Return
    <2> QED
      BY <1>1, <2>1
  <1>8. ASSUME NEW t \in Threads, Free(t) PROVE PcIsFunction'
    <2>1. \E to : Goto(t, to)
      BY <1>8 DEF Free, FreeLoad, LoadList, FreeStore, FreeRemote, LockedLoad, LockedStore, FreeTlsf, FreeHuge,
                  FreeBump, FreeLocked, Freed, Return
    <2> QED
      BY <1>1, <2>1
  <1>9. ASSUME NEW t \in Threads, NullArena(t) PROVE PcIsFunction'
    BY <1>9 DEF NullArena, PcIsFunction
  <1>10. CASE UNCHANGED vars
    BY <1>2, <1>10 DEF vars
  <1> QED
    BY <1>3, <1>4, <1>5, <1>6, <1>7, <1>8, <1>9, <1>10 DEF Next, Step

LEMMA ApiTyped == ApiInvariant /\ PcIsFunction => TypeOK
  <1> SUFFICES ASSUME ApiInvariant, PcIsFunction PROVE TypeOK
    OBVIOUS
  <1>1. InitInv /\ Owned /\ GlobalsFit /\ PagesFit /\ PoolFits /\ HeadersFit /\ SlabFits /\ HugeFits
    BY ByRegion DEF ApiInvariant, MemoryFits
  <1>2. mapped \subseteq OsPages /\ header \in [OsPages -> Nat]
    BY <1>1 DEF HeadersFit
  <1>3. arena \in OsPages \cup {NULL}
    BY <1>1, ArenaIs, Geometry
  <1>4. tlsf \in OsPages \cup {NULL}
    <2> SUFFICES ASSUME tlsf # NULL PROVE tlsf \in OsPages
      OBVIOUS
    <2>1. arena # NULL /\ arena \in Nat /\ tlsf = arena + META_PAGES /\ Reserved = {arena}
      BY <1>1, PageFacts, ArenaIs
    <2>2. tlsf \in Span(arena, PAGES_PER_ARENA)
      BY <2>1, Geometry DEF Span
    <2>3. Span(arena, PAGES_PER_ARENA) \in ArenaSpans
      BY <2>1 DEF ArenaSpans
    <2> QED
      BY <1>1, <1>2, <2>2, <2>3 DEF HugeFits
  <1>5. /\ next_free_page \in 0..PAGES_PER_ARENA /\ stranded \subseteq ArenaPages
        /\ meta \in [ArenaPages -> [size_class : Classes \cup {NO_CLASS}, owner_id : Threads \cup {NO_OWNER}]]
    <2>1. meta \in [ArenaPages -> [size_class : Classes, owner_id : Threads] \cup {EmptyMeta}]
      BY <1>1 DEF PagesFit
    <2>2. [size_class : Classes, owner_id : Threads] \cup {EmptyMeta}
             \subseteq [size_class : Classes \cup {NO_CLASS}, owner_id : Threads \cup {NO_OWNER}]
      BY DEF EmptyMeta
    <2> QED
      BY <1>1, <2>1, <2>2 DEF PagesFit
  <1>6. pool \subseteq Nat \X Nat
    BY <1>1 DEF PoolFits
  <1>7. available \subseteq Nat /\ pending \subseteq Nat
    <2>1. \A s \in available \cup pending : \E p \in SlabPages : s \in SlotsOfPage(p, meta[p].size_class)
      BY <1>1 DEF SlabFits, SlabSlots
    <2>2. \A s \in available \cup pending : s \in Nat
      BY <1>1, <2>1, SlotWhere
    <2> QED
      BY <2>2
  <1>8. /\ lock \in Threads \cup {NULL} /\ arena_init \in BOOLEAN /\ tls_key \in BOOLEAN
        /\ cached \subseteq Threads
    BY <1>1 DEF GlobalsFit
  <1>9. \A b \in Blocks : IsBlock(b)
    BY <1>1 DEF Owned
  <1>10. pc \in [Threads -> {"idle", "crashed", "ended"} \cup InitSteps \cup Parts]
    <2>1. \A t \in Threads : pc[t] \in {"idle", "crashed", "ended"} \cup InitSteps \cup Parts
      BY <1>1 DEF Owned, ThreadFits
    <2>2. [t \in Threads |-> pc[t]] \in [Threads -> {"idle", "crashed", "ended"} \cup InitSteps \cup Parts]
      BY <2>1
    <2> QED
      BY <2>2 DEF PcIsFunction
  <1>11. ASSUME NEW t \in Threads
         PROVE  /\ call[t].op \in {"none", "malloc", "free", "realloc", "usable_size",
                                   "hooked_free", "hooked_realloc"}
                /\ call[t].then \in FirstParts \cup {"idle"}
                /\ call[t].refused \in BOOLEAN
                /\ call[t].seen \subseteq Nat
    BY <1>1 DEF Owned, ThreadFits, CallFits, PtrOps, InitInv, ThreadsInit, ThreadInit, CallTyped
  <1> QED
    BY <1>2, <1>3, <1>4, <1>5, <1>6, <1>7, <1>8, <1>9, <1>10, <1>11 DEF TypeOK
-----------------------------------------------------------------------------
(* The allocator's own data is where no block is. *)
LEMMA MetadataUntouched ==
  ASSUME MemoryFits, BlocksTyped, arena # NULL
  PROVE  Untouched(Addr(arena), Addr(META_PAGES)) /\ Addr(arena) \in Int /\ Addr(META_PAGES) \in Int
  <1>1. arena \in Int /\ arena \in Nat /\ META_PAGES \in Int /\ arena + META_PAGES \in Int
    BY ArenaIs, Geometry DEF MemoryFits
  <1>2. Addr(arena + META_PAGES) = Addr(arena) + Addr(META_PAGES) /\ Addr(arena) \in Int /\ Addr(META_PAGES) \in Int
    BY <1>1, AddrIs
  <1>3. Within(Addr(arena), Addr(META_PAGES), arena, arena + META_PAGES)
    BY <1>2 DEF Within
  <1>4. ASSUME NEW b \in Blocks
        PROVE  Addr(arena) + Addr(META_PAGES) <= b.addr \/ b.addr + b.room <= Addr(arena)
    <2>1. PICK x, y \in Int : Within(b.addr, b.room, x, y) /\ InPart(b, x, y)
      BY BlockPages
    <2>2. b.region \in {"slab", "tlsf", "bump", "huge"} /\ b.addr \in Int /\ b.room \in Int
      BY BlockPages
    <2>3. arena + META_PAGES <= x \/ y <= arena
      BY <1>1, <2>1, <2>2, Geometry DEF InPart
    <2> QED
      BY <1>1, <1>2, <1>3, <2>1, <2>2, <2>3, WithinApart
  <1> QED
    BY <1>2, <1>4 DEF Untouched

LEMMA HeaderUntouched ==
  ASSUME MemoryFits, BlocksTyped, NEW p \in OsPages, header[p] > 0
  PROVE  Untouched(Addr(p), 1)
  <1>1. /\ PagesFit /\ HugeFits
    BY ByRegion
  <1>2. PICK h \in In("huge") : h.addr = Addr(p + 1)
    BY <1>1 DEF HugeFits, HeadersFit
  <1>3. h \in Blocks /\ IsBlock(h) /\ h.size > 0 /\ h.region = "huge"
    BY DEF In, BlocksTyped
  <1>4. p \in Int /\ p + 1 \in Int /\ 1 \in Int
    BY Geometry
  <1>5. PICK base \in Bases, m \in Int :
           /\ m >= 2 /\ h.addr = Addr(base + 1) /\ PageOf(h.addr) = base + 1
           /\ HugeSpan(h) = Span(base, m)
           /\ arena # NULL => base + m <= arena \/ arena + PAGES_PER_ARENA <= base
    BY <1>3, HugeWhere DEF MemoryFits
  <1>6. base = p
    <2>1. base \in Int /\ PageOf(h.addr) = p + 1
      BY <1>2, <1>4, <1>5, Geometry, HugeSpanIs
    <2> QED
      BY <1>4, <1>5, <2>1
  <1>7. Addr(p + 1) = Addr(p) + PAGE_SIZE /\ Addr(p) \in Int /\ PAGE_SIZE >= 1 /\ PAGE_SIZE \in Int
    BY <1>4, AddrNext, AddrInt, PageSize
  <1>8. Within(Addr(p), 1, p, p + 1)
    BY <1>7 DEF Within
  <1>9. ASSUME NEW b \in Blocks PROVE Addr(p) + 1 <= b.addr \/ b.addr + b.room <= Addr(p)
    <2>1. b.region \in {"slab", "tlsf", "bump", "huge"} /\ b.addr \in Int /\ b.room \in Int
      BY BlockPages
    <2>2. CASE b = h
      BY <1>2, <1>7, <2>2
    <2>3. CASE b # h /\ b.region = "huge"
      <3>1. b \in In("huge") /\ IsBlock(b) /\ b.size > 0
        BY <2>3 DEF In, BlocksTyped
      <3>2. PICK d \in Bases, k \in Int :
               k >= 2 /\ HugeSpan(b) = Span(d, k) /\ Within(b.addr, b.room, d + 1, d + k)
        BY <3>1, HugeWhere DEF MemoryFits
      <3>3. Span(d, k) \cap Span(p, m) = {}
        BY <1>1, <1>5, <1>6, <2>3, <3>1, <3>2 DEF HugeFits
      <3>4. d + k <= p \/ p + m <= d
        BY <1>4, <1>5, <3>2, <3>3, SpansApart, Geometry
      <3>5. d \in Int /\ d + 1 \in Int /\ d + k \in Int /\ (d + k <= p \/ p + 1 <= d + 1)
        BY <1>4, <1>5, <3>2, <3>4, Geometry
      <3> QED
        BY <1>4, <1>7, <1>8, <2>1, <3>2, <3>5, WithinApart
    <2>4. CASE b.region # "huge"
      <3>1. tlsf # NULL
        BY <2>4, BlockPages
      <3>2. /\ arena \in Nat /\ arena # NULL /\ tlsf = arena + META_PAGES /\ next_free_page \in Nat
            /\ next_free_page <= PAGES_PER_ARENA
        BY <1>1, <3>1, PageFacts DEF PagesFit
      <3>3. PICK x, y \in Int : x < y /\ Within(b.addr, b.room, x, y) /\ InPart(b, x, y)
        BY BlockPages
      <3>4. arena <= x /\ y <= arena + PAGES_PER_ARENA
        BY <2>1, <2>4, <3>2, <3>3, Geometry DEF InPart
      <3>5. y <= p \/ p + 1 <= x
        BY <1>4, <1>5, <1>6, <3>2, <3>3, <3>4, Geometry
      <3> QED
        BY <1>4, <1>7, <1>8, <2>1, <3>3, <3>5, WithinApart
    <2> QED
      BY <2>2, <2>3, <2>4
  <1> QED
    BY <1>9 DEF Untouched

LEMMA PoolDataUntouched ==
  ASSUME MemoryFits, BlocksTyped, tlsf # NULL
  PROVE  /\ \A e \in pool : e[1] \in Int /\ Untouched(e[1] - 1, 1)
         /\ Addr(tlsf + POOL_PAGES) \in Int /\ Untouched(Addr(tlsf + POOL_PAGES) - 1, 1)
  <1>1. PagesFit /\ PoolFits
    BY DEF MemoryFits
  <1>2. tlsf \in Int /\ tlsf + POOL_PAGES \in Int /\ tlsf < tlsf + POOL_PAGES
    BY <1>1, PageFacts, Geometry
  <1> DEFINE first == Addr(tlsf)
             last == Addr(tlsf + POOL_PAGES)
  <1>3. first \in Int /\ last \in Int /\ first < last
    BY <1>2, AddrInt, AddrOrder
  <1>4. \A e \in pool : /\ e[1] \in Int /\ e[2] \in Int /\ e[2] >= 1 /\ first < e[1] /\ e[1] + e[2] < last
    BY <1>1 DEF PoolFits
  <1>5. \A e, f \in pool : e # f => e[1] + e[2] < f[1] \/ f[1] + f[2] < e[1]
    BY <1>1 DEF PoolFits
  <1>6. \A a \in Int : first <= a /\ a + 1 <= last => Within(a, 1, tlsf, tlsf + POOL_PAGES)
    BY DEF Within
  <1> HIDE DEF first, last
  <1>7. ASSUME NEW e \in pool PROVE Untouched(e[1] - 1, 1)
    <2>1. e[1] - 1 \in Int /\ first <= e[1] - 1 /\ (e[1] - 1) + 1 <= last
      BY <1>3, <1>4
    <2>2. ASSUME NEW f \in pool PROVE (e[1] - 1) + 1 <= f[1] \/ f[1] + f[2] <= e[1] - 1
      <3>1. e[1] \in Int /\ f[1] \in Int /\ f[2] \in Int /\ e[2] \in Int /\ e[2] >= 1
        BY <1>4
      <3>2. e = f \/ e[1] + e[2] < f[1] \/ f[1] + f[2] < e[1]
        BY <1>5
      <3> QED
        BY <3>1, <3>2
    <2> QED
      BY <1>6, <2>1, <2>2, PoolUntouched
  <1>8. Untouched(last - 1, 1)
    <2>1. last - 1 \in Int /\ first <= last - 1 /\ (last - 1) + 1 <= last
      BY <1>3
    <2>2. \A f \in pool : f[1] + f[2] <= last - 1
      BY <1>3, <1>4
    <2> QED
      BY <1>6, <2>1, <2>2, PoolUntouched
  <1> QED
    BY <1>3, <1>4, <1>7, <1>8 DEF last

LEMMA UntouchedOutside ==
  ASSUME NEW a \in Int, NEW n \in Int, Untouched(a, n), NEW b \in Blocks, b.addr \in Int, b.room \in Int
  PROVE  Extent(b) \cap Span(a, n) = {}
  <1>1. a + n <= b.addr \/ b.addr + b.room <= a
    BY DEF Untouched
  <1> QED
    BY <1>1 DEF Extent, Span

LEMMA PointOutside ==
  ASSUME NEW a \in Int, NEW n \in Int, n >= 1, Untouched(a, n), NEW b \in Blocks, b.addr \in Int, b.room \in Int
  PROVE  a \notin Extent(b)
  <1>1. a + n <= b.addr \/ b.addr + b.room <= a
    BY DEF Untouched
  <1> QED
    BY <1>1 DEF Extent, Span

LEMMA InMapped ==
  ASSUME MemoryFits, BlocksTyped, NEW b \in Blocks, NEW a \in Extent(b)
  PROVE  a \in Nat /\ PageOf(a) \in mapped
  <1>1. PICK p, q \in Int : Within(b.addr, b.room, p, q) /\ p..(q - 1) \subseteq mapped
    BY BlockPages
  <1>2. b.addr \in Nat /\ b.room \in Int
    BY BlockPages DEF BlocksTyped, IsBlock, Block
  <1>3. a \in Span(b.addr, b.room) /\ a \in Nat /\ b.addr \in Int
    BY <1>2 DEF Extent, Span
  <1>4. PageOf(a) \in Int /\ p <= PageOf(a) /\ PageOf(a) < q
    BY <1>1, <1>2, <1>3, WithinPages
  <1> QED
    BY <1>1, <1>3, <1>4

LEMMA NothingShared == ApiInvariant => Private
  <1> SUFFICES ASSUME ApiInvariant PROVE Private
    OBVIOUS
  <1> DEFINE metadata == IF arena = NULL THEN {} ELSE Span(Addr(arena), Addr(META_PAGES))
             headers  == {b[1] - 1 : b \in pool} \cup {Addr(p) : p \in {q \in OsPages : header[q] > 0}}
             sentinel == IF tlsf = NULL THEN {} ELSE {Addr(tlsf + POOL_PAGES) - 1}
             links    == available \cup pending
  <1>1. MemoryFits /\ BlocksTyped
    BY OwnedTyped DEF ApiInvariant
  <1>2. PagesFit /\ SlabFits
    BY <1>1, ByRegion
  <1>3. ASSUME NEW b \in Blocks
        PROVE  /\ {PageOf(a) : a \in Extent(b)} \subseteq mapped
               /\ Extent(b) \cap (metadata \cup headers \cup sentinel \cup links) = {}
    <2>1. b.addr \in Int /\ b.room \in Int
      BY <1>1, BlockPages
    <2>2. {PageOf(a) : a \in Extent(b)} \subseteq mapped
      BY <1>1, InMapped
    <2>3. Extent(b) \cap metadata = {}
      BY <1>1, <2>1, MetadataUntouched, UntouchedOutside
    <2>4. ASSUME NEW e \in pool PROVE e[1] - 1 \notin Extent(b)
      <3>1. tlsf # NULL
        BY <1>2 DEF PagesFit
      <3>2. e[1] - 1 \in Int /\ Untouched(e[1] - 1, 1)
        BY <1>1, <3>1, PoolDataUntouched
      <3> QED
        BY <2>1, <3>2, PointOutside
    <2>5. ASSUME NEW p \in OsPages, header[p] > 0 PROVE Addr(p) \notin Extent(b)
      <3>1. Addr(p) \in Int /\ Untouched(Addr(p), 1)
        BY <1>1, <2>5, HeaderUntouched, AddrInt, Geometry
      <3> QED
        BY <2>1, <3>1, PointOutside
    <2>6. Extent(b) \cap sentinel = {}
      <3>1. ASSUME tlsf # NULL PROVE Addr(tlsf + POOL_PAGES) - 1 \notin Extent(b)
        <4>1. Addr(tlsf + POOL_PAGES) - 1 \in Int /\ Untouched(Addr(tlsf + POOL_PAGES) - 1, 1)
          BY <1>1, <3>1, PoolDataUntouched
        <4> QED
          BY <2>1, <4>1, PointOutside
      <3> QED
        BY <3>1
    <2>7. ASSUME NEW s \in links PROVE s \notin Extent(b)
      <3>1. PICK p \in SlabPages : s \in SlotsOfPage(p, meta[p].size_class)
        BY <1>2 DEF SlabFits, SlabSlots
      <3>2. s \notin Addrs(In("slab"))
        BY <1>2 DEF SlabFits
      <3>3. Untouched(s, meta[p].size_class) /\ s \in Int /\ meta[p].size_class \in Int /\ meta[p].size_class >= 1
        BY <1>1, <1>2, <3>1, <3>2, SlotUntouched, SlotWhere, PageSize
      <3> QED
        BY <2>1, <3>3, PointOutside
    <2>8. Extent(b) \cap headers = {} /\ Extent(b) \cap links = {}
      BY <2>4, <2>5, <2>7
    <2> HIDE DEF metadata, headers, sentinel, links
    <2> QED
      BY <2>2, <2>3, <2>6, <2>8
  <1> QED
    BY <1>3 DEF Private
-----------------------------------------------------------------------------
(* The abstract heap: an entry for every block. *)
Entry(b) == <<b.addr, b.size, b.room>>

InOs == \A b \in Blocks : Extent(b) \subseteq {a \in Nat : PageOf(a) \in OsPages}

LEMMA AllInOs == ApiInvariant => InOs
  <1> SUFFICES ASSUME ApiInvariant, NEW b \in Blocks, NEW a \in Extent(b)
               PROVE  a \in Nat /\ PageOf(a) \in OsPages
    BY DEF InOs
  <1>1. MemoryFits /\ BlocksTyped /\ mapped \subseteq OsPages
    BY OwnedTyped DEF ApiInvariant, MemoryFits, HeadersFit
  <1> QED
    BY <1>1, InMapped

LEMMA BytesIs == \A b : AbstractHeap!Bytes(Entry(b)) = Extent(b)
  BY DEF AbstractHeap!Bytes, Entry, Extent, Span

LEMMA GainMallocs ==
  ASSUME ApiInvariant, InOs', NEW b, IsBlock(b), b.size > 0, Untouched(b.addr, b.room),
         Blocks' = Blocks \cup {b}
  PROVE  AbstractHeap!Malloc
  <1> DEFINE B  == {Entry(c) : c \in Blocks}
             B2 == B \cup {Entry(b)}
  <1>1. BlocksTyped /\ MemoryFits
    BY OwnedTyped DEF ApiInvariant
  <1>2. b.addr \in Int /\ b.room \in Int /\ b.room >= 1 /\ b.size <= b.room
    BY DEF IsBlock, Block
  <1>3. ASSUME NEW c \in Blocks
        PROVE  Extent(c) \cap Extent(b) = {} /\ Entry(c) # Entry(b)
    <2>1. c.addr \in Int /\ c.room \in Int /\ c.room >= 1
      BY <1>1, BlockPages
    <2>2. b.addr + b.room <= c.addr \/ c.addr + c.room <= b.addr
      BY DEF Untouched
    <2>3. c.addr # b.addr
      BY <1>2, <2>1, <2>2
    <2>4. Extent(c) \cap Extent(b) = {}
      BY <1>2, <2>1, <2>2 DEF Extent, Span
    <2>5. Entry(c)[1] = c.addr /\ Entry(b)[1] = b.addr
      BY DEF Entry
    <2> QED
      BY <2>3, <2>4, <2>5
  <1>4. Extent(b) \subseteq {a \in Nat : PageOf(a) \in OsPages}
    <2>1. b \in Blocks'
      OBVIOUS
    <2> QED
      BY <2>1 DEF InOs, Extent, Span, PageOf
  <1>5. Entry(b) \in B2 \ B
    BY <1>3
  <1>6. Entry(b)[2] <= Entry(b)[3]
    BY <1>2 DEF Entry
  <1>7. \A old \in B : AbstractHeap!Bytes(old) \cap AbstractHeap!Bytes(Entry(b)) = {}
    BY <1>3, BytesIs
  <1>8. AbstractHeap!Bytes(Entry(b)) \subseteq {a \in Nat : PageOf(a) \in OsPages}
    BY <1>4, BytesIs
  <1>9. B = {<<c.addr, c.size, c.room>> : c \in Blocks}
    BY DEF Entry
  <1>10. B2 = {<<c.addr, c.size, c.room>> : c \in Blocks}'
    BY DEF Entry
  <1> HIDE DEF B, B2
  <1>11. B2 = B \cup {Entry(b)}
    BY DEF B2
  <1> QED
    BY <1>5, <1>6, <1>7, <1>8, <1>9, <1>10, <1>11 DEF AbstractHeap!Malloc

LEMMA LoseFrees ==
  ASSUME ApiInvariant, NEW b \in Blocks, Blocks' = Blocks \ {b}
  PROVE  AbstractHeap!Free
  <1> DEFINE B  == {Entry(c) : c \in Blocks}
             B2 == {Entry(c) : c \in Blocks \ {b}}
  <1>1. BlocksTyped /\ MemoryFits /\ AllApart
    BY OwnedTyped, ByRegion DEF ApiInvariant
  <1>2. ASSUME NEW c \in Blocks, c # b PROVE Entry(c) # Entry(b)
    <2>1. /\ b.addr \in Int /\ b.room \in Int /\ b.room >= 1
          /\ c.addr \in Int /\ c.room \in Int /\ c.room >= 1
      BY <1>1, BlockPages
    <2>2. c.addr # b.addr
      BY <1>1, <1>2, <2>1 DEF AllApart, Apart
    <2>3. Entry(c)[1] = c.addr /\ Entry(b)[1] = b.addr
      BY DEF Entry
    <2> QED
      BY <2>2, <2>3
  <1>3. B2 = B \ {Entry(b)} /\ Entry(b) \in B
    BY <1>2
  <1>4. B = {<<c.addr, c.size, c.room>> : c \in Blocks}
    BY DEF Entry
  <1>5. B2 = {<<c.addr, c.size, c.room>> : c \in Blocks}'
    BY DEF Entry
  <1> HIDE DEF B, B2
  <1> QED
    BY <1>3, <1>4, <1>5 DEF AbstractHeap!Free
-----------------------------------------------------------------------------
(* Every theorem from here on is for processes in which each thread that
   frees a slot has a cache: CachelessFrees is FALSE.

   Every variable keeps its type: no page beyond the arena's last is given
   out, and no block is shorter than was asked. *)
THEOREM Types ==
  ASSUME ~CachelessFrees
  PROVE  Spec => []TypeOK
  <1>1. Init => PcIsFunction
    BY DEF Init, PcIsFunction
  <1> QED
    BY <1>1, PcStays, ApiInvariance, ApiTyped, PTL DEF Spec

(* free and realloc find the allocator of every block, and its room, from
   its address alone, whatever the other threads are doing. *)
THEOREM Routing ==
  ASSUME ~CachelessFrees
  PROVE  Spec => []FindsAllocator
  BY ApiInvariance, FoundAll, PTL

(* Slots, TLSF blocks and huge mappings are free or belong to one block, and
   what is free a malloc of some thread finds: nothing gets lost, although
   the owner of a page loads its free list in one step and stores it in
   another. *)
THEOREM Accounting ==
  ASSUME ~CachelessFrees
  PROVE  Spec => []NothingLost
  BY ApiInvariance, AllFound, PTL

(* No block shares a byte with the allocator's own data, and all of it is
   mapped. *)
THEOREM BlocksPrivate ==
  ASSUME ~CachelessFrees
  PROVE  Spec => []Private
  BY ApiInvariance, NothingShared, PTL

(* api.rs: "copies `min(old_size, new_size)` bytes".  What the application
   stored is copied, and nothing past the new block is written. *)
THEOREM ReallocCopiesAll ==
  ASSUME ~CachelessFrees
  PROVE  Spec => []ReallocKeeps
  BY ApiInvariance, ReallocCopies, PTL

(* Every step is a malloc or a free of the abstract heap, or changes no
   block: what malloc returns overlaps nothing in use. *)
THEOREM Refinement ==
  ASSUME ~CachelessFrees
  PROVE  Spec => HeapSpec
  <1>1. Init => AbstractHeap!Init
    <2>1. Init => Blocks = {}
      BY DEF Init, NoCall, Blocks, Hands
    <2> QED
      BY <2>1 DEF AbstractHeap!Init
  <1>2. ApiInvariant /\ InOs' /\ [Next]_vars
          => [AbstractHeap!Next]_{<<b.addr, b.size, b.room>> : b \in Blocks}
    <2> SUFFICES ASSUME ApiInvariant, InOs', [Next]_vars
                 PROVE  \/ AbstractHeap!Next
                        \/ UNCHANGED {<<b.addr, b.size, b.room>> : b \in Blocks}
      OBVIOUS
    <2>1. BlocksStep
      BY ApiStep
    <2>2. CASE Blocks' = Blocks
      BY <2>2
    <2>3. ASSUME NEW b, IsBlock(b), b.size > 0, Untouched(b.addr, b.room), Blocks' = Blocks \cup {b}
          PROVE  AbstractHeap!Next
      BY <2>3, GainMallocs DEF AbstractHeap!Next
    <2>4. ASSUME NEW b \in Blocks, Blocks' = Blocks \ {b}
          PROVE  AbstractHeap!Next
      BY <2>4, LoseFrees DEF AbstractHeap!Next
    <2> QED
      BY <2>1, <2>2, <2>3, <2>4 DEF BlocksStep
  <1> QED
    BY <1>1, <1>2, ApiInvariance, AllInOs, PTL DEF Spec, HeapSpec, AbstractHeap!Spec
=============================================================================
