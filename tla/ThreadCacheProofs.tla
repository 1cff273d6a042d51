-------------------------- MODULE ThreadCacheProofs --------------------------
(***************************************************************************)
(* Proofs about the small-object path, for every number of threads, pages, *)
(* classes and slots.  Most are under EnoughCaches: no more than           *)
(* MaxThreads threads ever run and the operating system never refuses a    *)
(* ThreadCache. Without that assumption these theorems are false: the runs *)
(* cacheless_race, duplicate_ids and global_slab_leak show what happens    *)
(* then.  That ids are unique until their counter wraps needs no such      *)
(* assumption.                                                             *)
(*                                                                         *)
(* The others follow from IInv being inductive: there is one lemma per     *)
(* action, and under it one step per conjunct of IInv.                     *)
(***************************************************************************)
EXTENDS ThreadCacheProps, FiniteSetTheorems, TLAPS

(* Every thread has a slab allocator of its own. *)
LEMMA CacheOfThread == \A t \in Threads : t \in Caches /\ t # NULL
  BY ThreadCacheAssumption

(* The null pointer is no page, no class and no slot index. *)
LEMMA NullFacts == NULL \notin Pages /\ NULL \notin Classes \cup Indices
  BY SlabAssumption DEF Pages, Indices, NULL_SLOT

(* No slot of a page has the index that ends a free list. *)
LEMMA IndexNotNull == \A i \in 0..(MaxSlots - 1) : i # NULL_SLOT
  BY SlabAssumption DEF NULL_SLOT

(* A slot is a page and an index. *)
LEMMA SlotParts ==
  \A s \in Slots : s[1] \in Pages /\ s[2] \in 0..(MaxSlots - 1) /\ s = <<s[1], s[2]>>
  BY DEF Slots

(* What taking a slot does to the metadata of its page: only the counter, the
   head and, when the page becomes full, the links change. *)
LEMMA TakenMeta ==
  ASSUME NEW m \in Metas, NEW next \in Indices
  PROVE  LET n == Taken(m, next) IN
         /\ n \in Metas
         /\ n.owner_id = m.owner_id
         /\ n.size_class = m.size_class
         /\ n.free_list_head = next
         /\ n.prev_page = IF next = NULL_SLOT THEN NULL ELSE m.prev_page
         /\ n.next_page = IF next = NULL_SLOT THEN NULL ELSE m.next_page
  <1>1. m.used_slots \in Int
    BY DEF Metas
  <1>2. m.used_slots + 1 \in Int
    BY <1>1
  <1>3. QED
    BY <1>2 DEF Taken, Metas

(* What giving a slot back does to the metadata of its page. *)
LEMMA ReturnedMeta ==
  ASSUME NEW m \in Metas, NEW idx \in 0..(MaxSlots - 1), NEW head \in Indices,
         NEW first \in Pages \cup {NULL}
  PROVE  LET n == Returned(m, idx, head, first) IN
         /\ n \in Metas
         /\ n.owner_id = m.owner_id
         /\ n.size_class = m.size_class
         /\ n.free_list_head = idx
         /\ n.prev_page = IF head = NULL_SLOT THEN NULL ELSE m.prev_page
         /\ n.next_page = IF head = NULL_SLOT THEN first ELSE m.next_page
  <1>1. m.used_slots \in Int
    BY DEF Metas
  <1>2. m.used_slots - 1 \in Int
    BY <1>1
  <1>3. QED
    BY <1>2, ZenonT(40) DEF Returned, Metas, Indices

(* The whole effect of taking a slot of the first page of a list, field by
   field and for every page. *)
LEMMA TakeSlotEffect ==
  ASSUME TypeOK, NEW k \in Caches, NEW c \in Classes, NEW s \in Slots, NEW next \in Indices,
         meta[s[1]].prev_page = NULL, TakeSlot(k, c, s, next)
  PROVE  /\ meta' \in [Pages -> Metas]
         /\ cell' \in [Slots -> Links]
         /\ partial' \in [Caches -> [Classes -> Pages \cup {NULL}]]
         /\ \A q \in Pages :
               LET unlinked == next = NULL_SLOT /\ q = s[1]
                   follows  == next = NULL_SLOT /\ q = meta[s[1]].next_page
               IN  /\ meta'[q].next_page = IF unlinked THEN NULL ELSE meta[q].next_page
                   /\ meta'[q].prev_page = IF unlinked \/ follows THEN NULL ELSE meta[q].prev_page
         /\ \A q \in Pages : /\ meta'[q].owner_id = meta[q].owner_id
                             /\ meta'[q].size_class = meta[q].size_class
                             /\ meta'[q].free_list_head = IF q = s[1] THEN next ELSE meta[q].free_list_head
  <1>1. UserData \in Links
    BY SlabAssumption DEF UserData, Links, Indices
  <1>2. s[1] \in Pages
    BY SlotParts
  <1>3. \A q \in Pages : meta[q] \in Metas
    BY DEF TypeOK
  <1>4. meta'[s[1]] = Taken(meta[s[1]], next)
    BY <1>2 DEF TakeSlot
  <1>5. ASSUME NEW q \in Pages, q # s[1]
        PROVE  /\ meta'[q] \in Metas
               /\ meta'[q].owner_id = meta[q].owner_id
               /\ meta'[q].size_class = meta[q].size_class
               /\ meta'[q].free_list_head = meta[q].free_list_head
               /\ meta'[q].next_page = meta[q].next_page
               /\ meta'[q].prev_page = IF next = NULL_SLOT /\ q = meta[s[1]].next_page
                                      THEN NULL ELSE meta[q].prev_page
    BY <1>2, <1>3, <1>5, NullFacts DEF TakeSlot, Metas
  <1>6. meta' \in [Pages -> Metas]
    BY <1>2, <1>3, <1>4, <1>5, TakenMeta DEF TakeSlot
  <1>7. cell' \in [Slots -> Links]
    BY <1>1 DEF TypeOK, TakeSlot
  <1>8. partial' \in [Caches -> [Classes -> Pages \cup {NULL}]]
    BY <1>2, <1>3 DEF TypeOK, TakeSlot, Metas
  <1>9. QED
    BY <1>2, <1>3, <1>4, <1>5, <1>6, <1>7, <1>8, TakenMeta

(* The whole effect of giving a slot back, field by field and for every page. *)
LEMMA ReturnSlotEffect ==
  ASSUME TypeOK, NEW k \in Caches, NEW s \in Slots, NEW head \in Indices,
         meta[s[1]].size_class \in Classes, ReturnSlot(k, s, head)
  PROVE  /\ meta' \in [Pages -> Metas]
         /\ cell' \in [Slots -> Links]
         /\ partial' \in [Caches -> [Classes -> Pages \cup {NULL}]]
         /\ \A q \in Pages :
               LET was_full == head = NULL_SLOT
                   first == partial[k][meta[s[1]].size_class]
               IN  /\ meta'[q].next_page = IF was_full /\ q = s[1] THEN first ELSE meta[q].next_page
                   /\ meta'[q].prev_page = IF was_full /\ q = s[1] THEN NULL
                                          ELSE IF was_full /\ q = first THEN s[1]
                                          ELSE meta[q].prev_page
         /\ \A q \in Pages : /\ meta'[q].owner_id = meta[q].owner_id
                             /\ meta'[q].size_class = meta[q].size_class
                             /\ meta'[q].free_list_head = IF q = s[1] THEN s[2] ELSE meta[q].free_list_head
  <1> DEFINE c == meta[s[1]].size_class
             first == partial[k][c]
  <1>1. U16(head) \in Links
    BY DEF U16, Links
  <1>2. s[1] \in Pages /\ s[2] \in 0..(MaxSlots - 1)
    BY SlotParts
  <1>3. meta[s[1]] \in Metas /\ \A q \in Pages : meta[q] \in Metas
    BY <1>2 DEF TypeOK
  <1>4. first \in Pages \cup {NULL}
    BY DEF TypeOK
  <1>5. meta'[s[1]] = Returned(meta[s[1]], s[2], head, first)
    BY <1>2 DEF ReturnSlot
  <1>6. ASSUME NEW q \in Pages, q # s[1]
        PROVE  /\ meta'[q] \in Metas
               /\ meta'[q].owner_id = meta[q].owner_id
               /\ meta'[q].size_class = meta[q].size_class
               /\ meta'[q].free_list_head = meta[q].free_list_head
               /\ meta'[q].next_page = meta[q].next_page
               /\ meta'[q].prev_page = IF head = NULL_SLOT /\ q = first THEN s[1] ELSE meta[q].prev_page
    BY <1>2, <1>3, <1>4, <1>6 DEF ReturnSlot, Metas
  <1>7. /\ Returned(meta[s[1]], s[2], head, first) \in Metas
        /\ Returned(meta[s[1]], s[2], head, first).owner_id = meta[s[1]].owner_id
        /\ Returned(meta[s[1]], s[2], head, first).size_class = meta[s[1]].size_class
        /\ Returned(meta[s[1]], s[2], head, first).free_list_head = s[2]
        /\ Returned(meta[s[1]], s[2], head, first).next_page =
              IF head = NULL_SLOT THEN first ELSE meta[s[1]].next_page
        /\ Returned(meta[s[1]], s[2], head, first).prev_page =
              IF head = NULL_SLOT THEN NULL ELSE meta[s[1]].prev_page
    BY <1>2, <1>3, <1>4, ReturnedMeta, SMTT(30)
  <1>8. meta' \in [Pages -> Metas]
    BY <1>5, <1>6, <1>7 DEF ReturnSlot
  <1>9. cell' \in [Slots -> Links]
    BY <1>1 DEF TypeOK, ReturnSlot
  <1>10. partial' \in [Caches -> [Classes -> Pages \cup {NULL}]]
    BY <1>2, <1>3 DEF TypeOK, ReturnSlot, Metas
  <1>11. \A q \in Pages :
            /\ meta'[q].owner_id = meta[q].owner_id
            /\ meta'[q].size_class = meta[q].size_class
            /\ meta'[q].free_list_head = IF q = s[1] THEN s[2] ELSE meta[q].free_list_head
            /\ meta'[q].next_page = IF head = NULL_SLOT /\ q = s[1] THEN first ELSE meta[q].next_page
            /\ meta'[q].prev_page = IF head = NULL_SLOT /\ q = s[1] THEN NULL
                                    ELSE IF head = NULL_SLOT /\ q = first THEN s[1]
                                    ELSE meta[q].prev_page
    <2>1. TAKE q \in Pages
    <2>2. CASE q = s[1]
      BY <1>5, <1>7, <2>2
    <2>3. CASE q # s[1]
      BY <1>6, <2>3
    <2>4. QED
      BY <2>2, <2>3
  <1>12. QED
    BY <1>8, <1>9, <1>10, <1>11

(* The metadata Arena::new writes is well typed. *)
LEMMA EmptyMetaType == EmptyMeta \in Metas
  BY SlabAssumption DEF EmptyMeta, Metas, NO_CLASS, NO_OWNER, NULL_SLOT, Indices

(* So is what the application writes in a slot. *)
LEMMA UserDataType == UserData \in Links
  BY SlabAssumption DEF UserData, Links, Indices

(* The inductive invariant holds when the program starts. *)
LEMMA Initially == EnoughCaches /\ Init => IInv
  <1> SUFFICES ASSUME EnoughCaches, Init PROVE IInv
    OBVIOUS
  <1>1. TypeOK
    BY EmptyMetaType, UserDataType, SlabAssumption, ThreadCacheAssumption
       DEF Init, SlabInit, TypeOK, PCs, Ids, CacheIds
  <1>2. IdsInv
    <2>1. Cached = {}
      BY DEF Init, Cached
    <2>2. QED
      BY <2>1, FS_EmptySet DEF Init, IdsInv
  <1>3. ThreadsInv
    BY DEF Init, ThreadsInv, ThreadInv, FreeSteps, MallocSteps
  <1>4. \A p \in Pages : meta[p] = EmptyMeta
    BY DEF Init, SlabInit
  <1>5. \A p \in Pages : ~Carved(p) /\ ~Open(p) /\ meta[p].next_page = NULL /\ meta[p].prev_page = NULL
    BY <1>4 DEF Carved, Open, EmptyMeta
  <1>6. PagesInv
    BY <1>4, <1>5, SlotParts DEF Init, SlabInit, PagesInv, SlotsIn, Pages
  <1>7. FreeInv
    BY <1>5 DEF Init, FreeInv
  <1>8. ListsInv
    BY <1>5, ThreadCacheAssumption DEF Init, SlabInit, ListsInv
  <1>9. StacksInv
    BY DEF Init, StacksInv, TopInv
  <1>10. QED
    BY <1>1, <1>2, <1>3, <1>6, <1>7, <1>8, <1>9 DEF IInv
-----------------------------------------------------------------------------
(* What a step that leaves the variables of a conjunct alone preserves. *)

(* A step that creates no cache keeps the ids. *)
LEMMA IdsFrame == IdsInv /\ UNCHANGED threadVars => IdsInv'
  BY DEF IdsInv, threadVars, Cached

(* A step that carves no page keeps the pages. *)
LEMMA PagesFrame ==
  ASSUME PagesInv, UNCHANGED <<next_free_page, meta, tc>>,
         \A s \in Slots : loc'[s] = "raw" <=> loc[s] = "raw"
  PROVE  PagesInv'
  BY DEF PagesInv, Carved, SlotsIn

(* A step that touches no link and frees or takes no slot keeps the free lists. *)
LEMMA FreeFrame ==
  ASSUME FreeInv, UNCHANGED <<meta, cell>>,
         \A s \in Slots : loc'[s] = "free" <=> loc[s] = "free"
  PROVE  FreeInv'
  BY DEF FreeInv, FreeSlot, Open

(* A step that touches no metadata keeps the lists of pages. *)
LEMMA ListsFrame == ListsInv /\ UNCHANGED <<meta, partial, tc>> => ListsInv'
  BY DEF ListsInv, Open, Same

(* What the tag of a link says of the link. *)
LEMMA LinkTypes ==
  ASSUME TypeOK
  PROVE  /\ \A s \in Slots : /\ cell[s][1] = "ptr" => cell[s][2] \in Slots \cup {NULL}
                             /\ cell[s][1] = "u16" => cell[s][2] \in Indices
                             /\ cell[s] = <<cell[s][1], cell[s][2]>>
         /\ \A t \in Threads : /\ reg[t][1] = "ptr" => reg[t][2] \in Slots \cup {NULL}
                               /\ reg[t][1] = "u16" => reg[t][2] \in Indices
                               /\ reg[t] = <<reg[t][1], reg[t][2]>>
  BY DEF TypeOK, Links

(* A step that touches no link of a parked slot keeps the stacks. *)
LEMMA StacksFrame ==
  ASSUME TypeOK, StacksInv, UNCHANGED <<meta, cell, tc, remote_frees>>,
         \A s \in Slots : loc'[s] = "parked" <=> loc[s] = "parked",
         \A u \in Threads : pc'[u] = "drain" => pc[u] = "drain" /\ reg'[u] = reg[u]
  PROVE  StacksInv'
  <1>1. \A u \in Threads : TopInv(u)'
    BY DEF TypeOK, StacksInv, TopInv, OwnerOf
  <1>2. ASSUME NEW s \in Slots, loc'[s] = "parked" PROVE NodeInv(s)'
    BY <1>2, LinkTypes DEF StacksInv, NodeInv, OwnerOf
  <1>3. ASSUME NEW t \in Threads, pc'[t] = "drain" PROVE DrainInv(t)'
    BY <1>3, LinkTypes DEF StacksInv, DrainInv, OwnerOf
  <1>4. QED
    BY <1>1, <1>2, <1>3 DEF StacksInv

(* A thread keeps what it knows when a step changes nothing it knows of. *)
LEMMA OtherThreadFrame ==
  ASSUME NEW u \in Threads, ThreadInv(u), UNCHANGED <<meta, cell, partial, tc>>,
         UNCHANGED <<pc[u], cls[u], ptr[u], reg[u], stack[u]>>,
         ptr[u] # NULL /\ pc[u] # "pop_store" => loc'[ptr[u]] = loc[ptr[u]],
         pc[u] = "drain" => lock' = lock
  PROVE  ThreadInv(u)'
  BY DEF ThreadInv, OwnerOf

(* Two threads with the same id are the same thread. *)
LEMMA IdsDistinct ==
  ASSUME IdsInv, NEW t \in Threads, NEW u \in Threads, tc[t] # NULL, tc[t] = tc[u]
  PROVE  t = u
  BY DEF IdsInv, Cached
-----------------------------------------------------------------------------
(* The steps that leave the slab allocators alone. *)

(* One lemma per action.  A call of malloc starts. *)
LEMMA MallocCallStep ==
  ASSUME IInv, NEW t \in Threads, NEW c \in Classes, MallocCall(t, c)
  PROVE  IInv'
  <1> USE DEF MallocCall, slabVars, threadVars
  <1>1. TypeOK'
    BY DEF IInv, TypeOK, Goto, FirstStep, PCs
  <1>2. IdsInv'
    BY IdsFrame DEF IInv
  <1>3. ThreadsInv'
    <2>1. ThreadInv(t)'
      BY SlabAssumption DEF IInv, TypeOK, ThreadsInv, ThreadInv, Goto, FirstStep, FreeSteps, MallocSteps
    <2>2. ASSUME NEW u \in Threads, u # t PROVE ThreadInv(u)'
      BY <2>2, OtherThreadFrame DEF IInv, TypeOK, ThreadsInv, Goto
    <2>3. QED
      BY <2>1, <2>2 DEF IInv, TypeOK, ThreadsInv, ThreadInv, Goto
  <1>4. PagesInv' /\ FreeInv' /\ ListsInv'
    BY PagesFrame, FreeFrame, ListsFrame DEF IInv
  <1>5. StacksInv'
    BY StacksFrame DEF IInv, TypeOK, Goto, FirstStep
  <1>6. QED
    BY <1>1, <1>2, <1>3, <1>4, <1>5 DEF IInv

(* A call of free starts: the slot is the caller's alone from here on. *)
LEMMA FreeCallStep ==
  ASSUME IInv, NEW t \in Threads, NEW s \in Slots, FreeCall(t, s)
  PROVE  IInv'
  <1> USE DEF FreeCall, slabVars, threadVars
  <1>1. TypeOK'
    BY DEF IInv, TypeOK, Goto, FirstStep, PCs, Move
  <1>2. IdsInv'
    BY IdsFrame DEF IInv
  <1>3. \A r \in Slots : loc'[r] = IF r = s THEN "freeing" ELSE loc[r]
    BY DEF IInv, TypeOK, Move
  <1>4. ThreadsInv'
    <2>1. ThreadInv(t)'
      BY <1>3, ThreadCacheAssumption DEF IInv, TypeOK, ThreadsInv, ThreadInv, Goto, FirstStep, FreeSteps, MallocSteps
    <2>2. ASSUME NEW u \in Threads, u # t PROVE ThreadInv(u)'
      <3>1. ptr[u] # NULL /\ pc[u] # "pop_store" => ptr[u] \in Slots /\ ptr[u] # s
        BY DEF IInv, TypeOK, ThreadsInv, ThreadInv
      <3>2. QED
        BY <1>3, <2>2, <3>1, OtherThreadFrame DEF IInv, TypeOK, ThreadsInv, Goto
    <2>3. ASSUME NEW u \in Threads, u # t, ptr[u] = s PROVE pc[u] = "pop_store"
      BY <2>3, ThreadCacheAssumption, SMTT(30) DEF IInv, TypeOK, ThreadsInv, ThreadInv
    <2>4. QED
      BY <2>1, <2>2, <2>3 DEF IInv, TypeOK, ThreadsInv, Goto
  <1>5. PagesInv' /\ FreeInv' /\ ListsInv'
    BY <1>3, PagesFrame, FreeFrame, ListsFrame DEF IInv
  <1>6. StacksInv'
    BY <1>3, StacksFrame DEF IInv, TypeOK, Goto, FirstStep
  <1>7. QED
    BY <1>1, <1>2, <1>4, <1>5, <1>6 DEF IInv

(* get_or_create: the id is one more than every id in use, and in range because
   there are no more threads than ids. *)
LEMMA CreateCacheStep ==
  ASSUME EnoughCaches, IInv, NEW t \in Threads, CreateCache(t)
  PROVE  IInv'
  <1> USE DEF CreateCache, slabVars, locals
  <1>1. /\ next_id \in CacheIds
        /\ next_id \in Int
        /\ next_id' = next_id + 1
    BY ThreadCacheAssumption DEF CacheIds, FetchAdd
  <1>2. TypeOK'
    <2>1. next_id' \in Ids
      BY <1>1, ThreadCacheAssumption DEF CacheIds, Ids
    <2>2. QED
      BY <1>1, <2>1 DEF IInv, TypeOK, Goto, PCs
  <1>3. /\ pc[t] = "get_cache"
        /\ tc[t] = NULL
        /\ \A u \in Threads : /\ tc'[u] = IF u = t THEN next_id ELSE tc[u]
                              /\ pc'[u] = IF u = t THEN "route" ELSE pc[u]
    BY DEF IInv, TypeOK, ThreadsInv, ThreadInv, Goto
  <1>4. next_id # NULL
    BY <1>1, SlabAssumption
  <1>5. \A u \in Threads : tc[u] # NULL => tc'[u] = tc[u] /\ tc[u] # next_id
    BY <1>1, <1>3 DEF IInv, TypeOK, IdsInv, Cached, CacheIds
  <1>6. \A p \in Pages, u \in Threads : meta[p].owner_id = tc[u] => tc'[u] = tc[u]
    <2>1. \A p \in Pages : meta[p].owner_id # NULL
      BY SlabAssumption DEF IInv, TypeOK, Metas, CacheIds, NO_OWNER
    <2>2. QED
      BY <1>3, <2>1
  <1>7. IdsInv'
    <2>1. Cached' = Cached \cup {t} /\ t \notin Cached
      BY <1>3, <1>4 DEF Cached
    <2>2. IsFiniteSet(Cached)
      BY FS_Subset DEF Cached, EnoughCaches
    <2>3. Cardinality(Cached') = Cardinality(Cached) + 1
      BY <2>1, <2>2, FS_AddElement
    <2>4. ASSUME NEW u \in Cached' PROVE tc'[u] < next_id' /\ registry'[tc'[u]] = u
      <3>1. CASE u = t
        BY <1>1, <1>3, <3>1 DEF IInv, TypeOK
      <3>2. CASE u # t
        <4>1. /\ u \in Cached
              /\ tc[u] \in CacheIds
              /\ tc[u] # next_id
          BY <1>3, <1>5, <2>1, <3>2 DEF IInv, TypeOK, Cached
        <4>2. tc'[u] = tc[u] /\ tc[u] < next_id /\ registry[tc[u]] = u
          BY <1>3, <3>2, <4>1 DEF IInv, IdsInv, Cached
        <4>3. registry'[tc[u]] = registry[tc[u]]
          BY <4>1 DEF IInv, TypeOK
        <4>4. QED
          BY <1>1, <4>1, <4>2, <4>3 DEF CacheIds
      <3>3. QED
        BY <3>1, <3>2
    <2>5. QED
      BY <1>1, <2>3, <2>4 DEF IInv, IdsInv
  <1>8. ThreadsInv'
    <2>1. ASSUME NEW u \in Threads PROVE ThreadInv(u)'
      <3>1. CASE u = t
        BY <1>3, <1>4, <3>1 DEF IInv, ThreadsInv, ThreadInv, FreeSteps, MallocSteps
      <3>2. CASE u # t
        <4>1. pc[u] \in {"push_load", "push_cas"} => OwnerOf(ptr[u]) = tc'[stack[u]]
          BY <1>3, <1>6, SlotParts DEF IInv, TypeOK, ThreadsInv, ThreadInv, FreeSteps, OwnerOf
        <4>2. pc[u] \notin {"idle", "get_cache"} => tc'[u] # NULL
          BY <1>3, <3>2 DEF IInv, ThreadsInv, ThreadInv
        <4>3. UNCHANGED <<pc[u], tc[u]>>
          BY <1>3, <3>2
        <4>4. QED
          BY <4>1, <4>2, <4>3 DEF IInv, ThreadsInv, ThreadInv, OwnerOf
      <3>3. QED
        BY <3>1, <3>2
    <2>2. QED
      BY <1>3, <2>1 DEF IInv, ThreadsInv
  <1>9. PagesInv'
    BY <1>6 DEF IInv, PagesInv, Carved, SlotsIn, OwnerOf
  <1>10. FreeInv'
    BY FreeFrame DEF IInv
  <1>11. ListsInv'
    BY <1>6, CacheOfThread DEF IInv, TypeOK, ListsInv, Open, Same
  <1>12. StacksInv'
    <2>1. ASSUME NEW u \in Threads PROVE TopInv(u)'
      BY <1>6, SlotParts DEF IInv, TypeOK, StacksInv, TopInv, OwnerOf
    <2>2. ASSUME NEW s \in Slots, loc'[s] = "parked" PROVE NodeInv(s)'
      BY <1>3, <2>2 DEF IInv, StacksInv, NodeInv, OwnerOf
    <2>3. ASSUME NEW u \in Threads, pc'[u] = "drain" PROVE DrainInv(u)'
      BY <1>3, <1>6, <2>3, SlotParts, LinkTypes DEF IInv, StacksInv, DrainInv, OwnerOf
    <2>4. QED
      BY <2>1, <2>2, <2>3 DEF StacksInv
  <1>13. QED
    BY <1>2, <1>7, <1>8, <1>9, <1>10, <1>11, <1>12 DEF IInv

(* With an id for every thread, no thread is ever denied a cache. *)
LEMMA DenyCacheStep ==
  ASSUME EnoughCaches, IInv, NEW t \in Threads, DenyCache(t)
  PROVE  FALSE
  <1>1. tc[t] = NULL
    BY DEF IInv, ThreadsInv, ThreadInv, DenyCache, Goto
  <1>2. Cached \in SUBSET Threads /\ Cached # Threads
    BY <1>1 DEF Cached
  <1>3. /\ Cardinality(Cached) \in Nat
        /\ Cardinality(Threads) \in Nat
        /\ Cardinality(Cached) < Cardinality(Threads)
    BY <1>2, FS_Subset, FS_CardinalityType DEF EnoughCaches
  <1>4. next_id \in CacheIds
    BY <1>3, ThreadCacheAssumption DEF EnoughCaches, IInv, IdsInv, CacheIds
  <1>5. QED
    BY <1>4 DEF DenyCache, EnoughCaches

(* malloc looks at its stack and at its list of pages. *)
LEMMA CheckRemoteStep ==
  ASSUME IInv, NEW t \in Threads, CheckRemote(t)
  PROVE  IInv'
  <1> USE DEF CheckRemote, slabVars, threadVars, locals
  <1>1. pc' = [pc EXCEPT ![t] = pc'[t]] /\ pc'[t] \in {"swap", "new_page", "pop"}
    BY DEF IInv, TypeOK, Goto, AfterDrain
  <1>2. TypeOK'
    BY <1>1 DEF IInv, TypeOK, PCs
  <1>3. IdsInv'
    BY IdsFrame DEF IInv
  <1>4. ThreadsInv'
    <2>1. ThreadInv(t)'
      BY <1>1 DEF IInv, TypeOK, ThreadsInv, ThreadInv, Goto, AfterDrain, FreeSteps, MallocSteps
    <2>2. ASSUME NEW u \in Threads, u # t PROVE ThreadInv(u)'
      BY <2>2, <1>1, OtherThreadFrame DEF IInv, TypeOK, ThreadsInv
    <2>3. QED
      BY <2>1, <2>2, <1>1 DEF IInv, TypeOK, ThreadsInv
  <1>5. PagesInv' /\ FreeInv' /\ ListsInv'
    BY PagesFrame, FreeFrame, ListsFrame DEF IInv
  <1>6. StacksInv'
    BY <1>1, StacksFrame DEF IInv, TypeOK
  <1>7. QED
    BY <1>2, <1>3, <1>4, <1>5, <1>6 DEF IInv

(* The swap: the stack becomes the draining thread's. *)
LEMMA DetachStackStep ==
  ASSUME IInv, NEW t \in Threads, DetachStack(t)
  PROVE  IInv'
  <1> USE DEF DetachStack, slabVars, threadVars
  <1>1. /\ pc[t] = "swap"
        /\ \A u \in Threads : /\ pc'[u] = IF u = t THEN "drain" ELSE pc[u]
                              /\ reg'[u] = IF u = t THEN <<"ptr", remote_frees[t]>> ELSE reg[u]
                              /\ remote_frees'[u] = IF u = t THEN NULL ELSE remote_frees[u]
    BY DEF IInv, TypeOK, Goto, Load, Ptr
  <1>2. TypeOK'
    BY DEF IInv, TypeOK, PCs, Goto, Load, Ptr, Links, Acquire
  <1>3. IdsInv'
    BY IdsFrame DEF IInv
  <1>4. ThreadsInv'
    <2>1. ThreadInv(t)'
      BY <1>1 DEF IInv, ThreadsInv, ThreadInv, FreeSteps, MallocSteps, Acquire
    <2>2. ASSUME NEW u \in Threads, u # t PROVE ThreadInv(u)'
      <3>1. pc[u] # "drain"
        BY ThreadCacheAssumption DEF IInv, ThreadsInv, ThreadInv, Acquire
      <3>2. QED
        BY <1>1, <2>2, <3>1, OtherThreadFrame DEF IInv, ThreadsInv
    <2>3. QED
      BY <2>1, <2>2, <1>1 DEF IInv, ThreadsInv
  <1>5. PagesInv' /\ FreeInv' /\ ListsInv'
    BY PagesFrame, FreeFrame, ListsFrame DEF IInv
  <1>6. StacksInv'
    <2>1. ASSUME NEW u \in Threads PROVE TopInv(u)'
      BY <1>1 DEF IInv, StacksInv, TopInv, OwnerOf
    <2>2. ASSUME NEW s \in Slots, loc'[s] = "parked" PROVE NodeInv(s)'
      BY <1>1, <2>2, LinkTypes DEF IInv, StacksInv, NodeInv, OwnerOf
    <2>3. ASSUME NEW u \in Threads, pc'[u] = "drain" PROVE DrainInv(u)'
      BY <1>1, <2>3 DEF IInv, StacksInv, DrainInv, TopInv, OwnerOf
    <2>4. QED
      BY <2>1, <2>2, <2>3 DEF StacksInv
  <1>7. QED
    BY <1>2, <1>3, <1>4, <1>5, <1>6 DEF IInv

(* The end of a drain. *)
LEMMA DrainEndStep ==
  ASSUME IInv, NEW t \in Threads, DrainEnd(t)
  PROVE  IInv'
  <1> USE DEF DrainEnd, slabVars, threadVars, locals
  <1>1. /\ pc[t] = "drain"
        /\ \A u \in Threads : pc'[u] = IF u = t THEN AfterDrain(t) ELSE pc[u]
        /\ AfterDrain(t) \in {"new_page", "pop"}
    BY DEF IInv, TypeOK, Goto, AfterDrain
  <1>2. TypeOK'
    BY <1>1 DEF IInv, TypeOK, PCs, Goto, Release
  <1>3. IdsInv'
    BY IdsFrame DEF IInv
  <1>4. ThreadsInv'
    <2>1. ThreadInv(t)'
      BY <1>1 DEF IInv, ThreadsInv, ThreadInv, FreeSteps, MallocSteps, AfterDrain
    <2>2. ASSUME NEW u \in Threads, u # t PROVE ThreadInv(u)'
      <3>1. pc[u] = "drain" => lock' = lock
        BY <2>2 DEF IInv, ThreadsInv, ThreadInv, Release
      <3>2. QED
        BY <1>1, <2>2, <3>1, OtherThreadFrame DEF IInv, ThreadsInv
    <2>3. QED
      BY <2>1, <2>2, <1>1 DEF IInv, ThreadsInv
  <1>5. PagesInv' /\ FreeInv' /\ ListsInv'
    BY PagesFrame, FreeFrame, ListsFrame DEF IInv
  <1>6. StacksInv'
    BY <1>1, StacksFrame DEF IInv
  <1>7. QED
    BY <1>2, <1>3, <1>4, <1>5, <1>6 DEF IInv

(* malloc finds the arena full. *)
LEMMA OutOfPagesStep ==
  ASSUME IInv, NEW t \in Threads, OutOfPages(t)
  PROVE  IInv'
  <1> USE DEF OutOfPages, Return, slabVars, threadVars
  <1>1. /\ pc[t] = "new_page"
        /\ \A u \in Threads : pc'[u] = IF u = t THEN "idle" ELSE pc[u]
    BY DEF IInv, TypeOK, Goto
  <1>2. TypeOK'
    BY UserDataType DEF IInv, TypeOK, PCs, Goto
  <1>3. IdsInv'
    BY IdsFrame DEF IInv
  <1>4. ThreadsInv'
    <2>1. ThreadInv(t)'
      BY <1>1 DEF IInv, TypeOK, ThreadsInv, ThreadInv, FreeSteps, MallocSteps
    <2>2. ASSUME NEW u \in Threads, u # t PROVE ThreadInv(u)'
      BY <1>1, <2>2, OtherThreadFrame DEF IInv, TypeOK, ThreadsInv
    <2>3. QED
      BY <2>1, <2>2, <1>1 DEF IInv, TypeOK, ThreadsInv
  <1>5. PagesInv' /\ FreeInv' /\ ListsInv'
    BY PagesFrame, FreeFrame, ListsFrame DEF IInv
  <1>6. StacksInv'
    BY <1>1, StacksFrame DEF IInv, TypeOK
  <1>7. QED
    BY <1>2, <1>3, <1>4, <1>5, <1>6 DEF IInv

(* The page a malloc pops from is its own, and its head is a free slot. *)
LEMMA PopPage ==
  ASSUME IInv, NEW t \in Threads, pc[t] \in {"pop", "pop_store"}
  PROVE  LET p == partial[t][cls[t]] IN
         /\ cls[t] \in Classes
         /\ p \in Pages
         /\ meta[p].owner_id = tc[t]
         /\ meta[p].size_class = cls[t]
         /\ meta[p].prev_page = NULL
         /\ Open(p)
         /\ <<p, meta[p].free_list_head>> \in Slots
         /\ loc[<<p, meta[p].free_list_head>>] = "free"
  <1> DEFINE p == partial[t][cls[t]]
  <1>1. cls[t] \in Classes /\ p # NULL
    BY DEF IInv, TypeOK, ThreadsInv, ThreadInv, MallocSteps
  <1>2. p \in Pages
    BY <1>1, CacheOfThread DEF IInv, TypeOK
  <1>3. /\ meta[p].owner_id = tc[t]
        /\ meta[p].size_class = cls[t]
        /\ meta[p].prev_page = NULL
        /\ Open(p)
    BY <1>1, SMTT(30) DEF IInv, ListsInv
  <1>4. QED
    BY <1>1, <1>2, <1>3 DEF IInv, FreeInv, FreeSlot

(* The slot a thread has loaded in alloc is still free, and still the head. *)
LEMMA PopSlot ==
  ASSUME IInv, NEW t \in Threads, pc[t] = "pop_store"
  PROVE  /\ ptr[t] \in Slots
         /\ loc[ptr[t]] = "free"
         /\ ptr[t][1] = partial[t][cls[t]]
         /\ ptr[t][2] = meta[ptr[t][1]].free_list_head
         /\ reg[t] = cell[ptr[t]]
         /\ OwnerOf(ptr[t]) = tc[t]
  <1>1. /\ ptr[t] = <<partial[t][cls[t]], meta[partial[t][cls[t]]].free_list_head>>
        /\ reg[t] = cell[ptr[t]]
    BY DEF IInv, ThreadsInv, ThreadInv
  <1> DEFINE p == partial[t][cls[t]]
  <1>2. /\ meta[p].owner_id = tc[t]
        /\ <<p, meta[p].free_list_head>> \in Slots
        /\ loc[<<p, meta[p].free_list_head>>] = "free"
    BY PopPage, Zenon
  <1>3. ptr[t][1] = p /\ ptr[t][2] = meta[p].free_list_head
    BY <1>1
  <1> HIDE DEF p
  <1>4. QED
    BY <1>1, <1>2, <1>3 DEF OwnerOf, p

(* The load half of alloc. *)
LEMMA PopLoadStep ==
  ASSUME IInv, NEW t \in Threads, PopLoad(t)
  PROVE  IInv'
  <1> DEFINE p == partial[t][cls[t]]
             s == <<p, meta[p].free_list_head>>
  <1>1. /\ pc[t] = "pop"
        /\ pc' = [pc EXCEPT ![t] = "pop_store"]
        /\ ptr' = [ptr EXCEPT ![t] = s]
        /\ reg' = [reg EXCEPT ![t] = cell[s]]
        /\ UNCHANGED <<next_free_page, meta, cell, partial, next_id, tc, registry>>
        /\ UNCHANGED <<remote_frees, lock, cls, stack, loc>>
    BY DEF PopLoad, Goto, Load, slabVars, threadVars
  <1>2. s \in Slots /\ loc[s] = "free"
    BY <1>1, PopPage
  <1>3. /\ p # NULL
        /\ cls[t] # NULL
        /\ tc[t] # NULL
    BY <1>1 DEF IInv, ThreadsInv, ThreadInv, MallocSteps
  <1>4. \A u \in Threads : /\ pc'[u] = IF u = t THEN "pop_store" ELSE pc[u]
                           /\ ptr'[u] = IF u = t THEN s ELSE ptr[u]
                           /\ reg'[u] = IF u = t THEN cell[s] ELSE reg[u]
    BY <1>1 DEF IInv, TypeOK
  <1>5. TypeOK'
    BY <1>1, <1>2 DEF IInv, TypeOK, PCs
  <1>6. ThreadsInv'
    <2>1. ThreadInv(t)'
      <3>1. /\ pc'[t] = "pop_store"
            /\ ptr'[t] = <<partial'[t][cls'[t]], meta'[partial'[t][cls'[t]]].free_list_head>>
            /\ reg'[t] = cell'[ptr'[t]]
        BY <1>1, <1>4
      <3>2. /\ partial'[t][cls'[t]] # NULL
            /\ cls'[t] # NULL
            /\ tc'[t] # NULL
        BY <1>1, <1>3
      <3>3. QED
        BY <3>1, <3>2 DEF ThreadInv, FreeSteps, MallocSteps
    <2>2. ASSUME NEW u \in Threads, u # t PROVE ThreadInv(u)'
      BY <1>1, <1>4, <2>2, OtherThreadFrame DEF IInv, ThreadsInv
    <2>3. ASSUME NEW u \in Threads, NEW v \in Threads, u # v,
                 ptr'[u] # NULL, ptr'[u] = ptr'[v]
          PROVE  "pop_store" \in {pc'[u], pc'[v]}
      <3>1. CASE t \in {u, v}
        BY <1>4, <3>1
      <3>2. CASE t \notin {u, v}
        BY <1>4, <2>3, <3>2 DEF IInv, ThreadsInv
      <3>3. QED
        BY <3>1, <3>2
    <2>4. QED
      BY <2>1, <2>2, <2>3 DEF ThreadsInv
  <1>7. IdsInv' /\ PagesInv' /\ FreeInv' /\ ListsInv'
    BY <1>1, IdsFrame, PagesFrame, FreeFrame, ListsFrame DEF IInv, threadVars
  <1>8. StacksInv'
    BY <1>1, <1>4, StacksFrame DEF IInv
  <1>9. QED
    BY <1>5, <1>6, <1>7, <1>8 DEF IInv

(* free finds that the page is the caller's own. *)
LEMMA RouteLocalStep ==
  ASSUME IInv, NEW t \in Threads, RouteLocal(t)
  PROVE  IInv'
  <1> USE DEF RouteLocal, slabVars, threadVars, locals
  <1>1. /\ pc[t] = "route"
        /\ \A u \in Threads : pc'[u] = IF u = t THEN "free_load" ELSE pc[u]
    BY DEF IInv, TypeOK, Goto
  <1>2. TypeOK'
    BY DEF IInv, TypeOK, PCs, Goto
  <1>3. IdsInv'
    BY IdsFrame DEF IInv
  <1>4. ThreadsInv'
    <2>1. ThreadInv(t)'
      BY <1>1 DEF IInv, ThreadsInv, ThreadInv, FreeSteps, MallocSteps, OwnerOf
    <2>2. ASSUME NEW u \in Threads, u # t PROVE ThreadInv(u)'
      BY <1>1, <2>2, OtherThreadFrame DEF IInv, ThreadsInv
    <2>3. QED
      BY <2>1, <2>2, <1>1 DEF IInv, ThreadsInv
  <1>5. PagesInv' /\ FreeInv' /\ ListsInv'
    BY PagesFrame, FreeFrame, ListsFrame DEF IInv
  <1>6. StacksInv'
    BY <1>1, StacksFrame DEF IInv
  <1>7. QED
    BY <1>2, <1>3, <1>4, <1>5, <1>6 DEF IInv

(* The slot a thread frees lies in a carved page, whose owner the registry
   leads to. *)
LEMMA OwnerRegistered ==
  ASSUME IInv, NEW s \in Slots, loc[s] # "raw"
  PROVE  /\ meta[s[1]].size_class \in Classes
         /\ \E u \in Threads : /\ OwnerOf(s) = tc[u]
                               /\ tc[u] \in CacheIds
                               /\ registry[OwnerOf(s)] = u
  <1>1. s \in SlotsIn(s[1]) /\ s[1] \in Pages
    BY SlotParts DEF IInv, PagesInv
  <1>2. Carved(s[1])
    BY <1>1 DEF SlotsIn
  <1>3. meta[s[1]] # EmptyMeta /\ meta[s[1]].size_class \in Classes
    BY <1>1, <1>2 DEF Carved, EmptyMeta, IInv, TypeOK, Metas
  <1>4. PICK u \in Threads : meta[s[1]].owner_id = tc[u]
    BY <1>1, <1>3 DEF IInv, PagesInv
  <1>5. tc[u] # NULL
    BY <1>1, <1>4, SlabAssumption DEF IInv, TypeOK, Metas, CacheIds, NO_OWNER
  <1>6. QED
    BY <1>3, <1>4, <1>5 DEF IInv, TypeOK, IdsInv, Cached, OwnerOf

(* free finds that the page is another thread's. *)
LEMMA RouteRemoteStep ==
  ASSUME IInv, NEW t \in Threads, RouteRemote(t)
  PROVE  IInv'
  <1> USE DEF RouteRemote, slabVars, threadVars
  <1>1. /\ pc[t] = "route"
        /\ \A u \in Threads : pc'[u] = IF u = t THEN "push_load" ELSE pc[u]
    BY DEF IInv, TypeOK, Goto
  <1>2. ptr[t] \in Slots /\ loc[ptr[t]] = "freeing"
    BY <1>1 DEF IInv, TypeOK, ThreadsInv, ThreadInv
  <1>3. PICK v \in Threads : OwnerOf(ptr[t]) = tc[v] /\ registry[OwnerOf(ptr[t])] = v
    BY <1>2, OwnerRegistered
  <1>4. \A u \in Threads : stack'[u] = IF u = t THEN v ELSE stack[u]
    BY <1>3 DEF IInv, TypeOK
  <1>5. TypeOK'
    BY <1>3 DEF IInv, TypeOK, PCs, Goto
  <1>6. IdsInv'
    BY IdsFrame DEF IInv
  <1>7. ThreadsInv'
    <2>1. ThreadInv(t)'
      BY <1>1, <1>3, <1>4, CacheOfThread DEF IInv, ThreadsInv, ThreadInv, FreeSteps, MallocSteps, OwnerOf
    <2>2. ASSUME NEW u \in Threads, u # t PROVE ThreadInv(u)'
      BY <1>1, <1>4, <2>2, OtherThreadFrame DEF IInv, ThreadsInv
    <2>3. QED
      BY <2>1, <2>2, <1>1 DEF IInv, ThreadsInv
  <1>8. PagesInv' /\ FreeInv' /\ ListsInv'
    BY PagesFrame, FreeFrame, ListsFrame DEF IInv
  <1>9. StacksInv'
    BY <1>1, StacksFrame DEF IInv
  <1>10. QED
    BY <1>5, <1>6, <1>7, <1>8, <1>9 DEF IInv

(* The load half of a local free. *)
LEMMA FreeLoadStep ==
  ASSUME IInv, NEW t \in Threads, FreeLoad(t)
  PROVE  IInv'
  <1> USE DEF FreeLoad, slabVars, threadVars
  <1>1. ptr[t] \in Slots /\ ptr[t][1] \in Pages
    BY SlotParts DEF IInv, TypeOK, ThreadsInv, ThreadInv, Goto, FreeSteps
  <1>2. U16(meta[ptr[t][1]].free_list_head) \in Links
    BY <1>1 DEF IInv, TypeOK, Metas, Links, U16
  <1>3. /\ pc[t] = "free_load"
        /\ \A u \in Threads : /\ pc'[u] = IF u = t THEN "free_store" ELSE pc[u]
                              /\ reg'[u] = IF u = t THEN U16(meta[ptr[t][1]].free_list_head) ELSE reg[u]
    BY DEF IInv, TypeOK, Goto, Load
  <1>4. TypeOK'
    BY <1>2 DEF IInv, TypeOK, PCs, Goto, Load
  <1>5. IdsInv'
    BY IdsFrame DEF IInv
  <1>6. ThreadsInv'
    <2>1. ThreadInv(t)'
      BY <1>3 DEF IInv, ThreadsInv, ThreadInv, FreeSteps, MallocSteps, OwnerOf
    <2>2. ASSUME NEW u \in Threads, u # t PROVE ThreadInv(u)'
      BY <1>3, <2>2, OtherThreadFrame DEF IInv, ThreadsInv
    <2>3. QED
      BY <2>1, <2>2, <1>3 DEF IInv, ThreadsInv
  <1>7. PagesInv' /\ FreeInv' /\ ListsInv'
    BY PagesFrame, FreeFrame, ListsFrame DEF IInv
  <1>8. StacksInv'
    BY <1>3, StacksFrame DEF IInv
  <1>9. QED
    BY <1>4, <1>5, <1>6, <1>7, <1>8 DEF IInv

(* PushLoad and PushFails: the slot being freed, which no list holds, is
   linked to the head of a stack. *)
LEMMA LinkStep ==
  ASSUME IInv, NEW t \in Threads, pc[t] \in {"push_load", "push_cas"},
         pc' = [pc EXCEPT ![t] = "push_cas"], LinkTo(t, remote_frees[stack[t]]),
         UNCHANGED <<next_free_page, meta, partial, threadVars, remote_frees, lock, cls, ptr, stack, loc>>
  PROVE  IInv'
  <1> USE DEF threadVars
  <1> DEFINE link == Ptr(remote_frees[stack[t]])
  <1>1. /\ ptr[t] \in Slots
        /\ loc[ptr[t]] = "freeing"
        /\ stack[t] \in Threads
        /\ link \in Links
        /\ link[1] = "ptr"
    BY DEF IInv, TypeOK, ThreadsInv, ThreadInv, FreeSteps, Links, Ptr
  <1>2. /\ \A u \in Threads : /\ pc'[u] = IF u = t THEN "push_cas" ELSE pc[u]
                              /\ reg'[u] = IF u = t THEN link ELSE reg[u]
        /\ \A s \in Slots : cell'[s] = IF s = ptr[t] THEN link ELSE cell[s]
    BY DEF IInv, TypeOK, LinkTo, Load
  <1>3. TypeOK'
    BY <1>1 DEF IInv, TypeOK, PCs, LinkTo, Load
  <1>4. IdsInv'
    BY IdsFrame DEF IInv
  <1>5. ThreadsInv'
    <2>1. ThreadInv(t)'
      BY <1>1, <1>2 DEF IInv, ThreadsInv, ThreadInv, FreeSteps, MallocSteps, OwnerOf
    <2>2. ASSUME NEW u \in Threads, u # t PROVE ThreadInv(u)'
      <3>1. pc[u] \in {"push_cas", "pop_store"} => ptr[u] \in Slots /\ ptr[u] # ptr[t]
        <4>1. CASE pc[u] = "push_cas"
          BY <1>1, <2>2, <4>1 DEF IInv, TypeOK, ThreadsInv, ThreadInv, FreeSteps
        <4>2. CASE pc[u] = "pop_store"
          BY <1>1, <4>2, PopSlot
        <4>3. QED
          BY <4>1, <4>2
      <3>2. pc[u] \in {"push_cas", "pop_store"} => cell'[ptr[u]] = cell[ptr[u]]
        BY <1>2, <3>1
      <3>3. pc'[u] = pc[u] /\ reg'[u] = reg[u]
        BY <1>2, <2>2
      <3>4. QED
        BY <3>2, <3>3 DEF IInv, ThreadsInv, ThreadInv, OwnerOf
    <2>3. QED
      BY <2>1, <2>2, <1>2 DEF IInv, ThreadsInv
  <1>6. PagesInv' /\ ListsInv'
    BY PagesFrame, ListsFrame DEF IInv
  <1>7. FreeInv'
    BY <1>1, <1>2 DEF IInv, FreeInv, FreeSlot, Open
  <1>8. StacksInv'
    <2>1. ASSUME NEW u \in Threads PROVE TopInv(u)'
      BY DEF IInv, StacksInv, TopInv, OwnerOf
    <2>2. ASSUME NEW s \in Slots, loc'[s] = "parked" PROVE NodeInv(s)'
      BY <1>1, <1>2, <2>2 DEF IInv, StacksInv, NodeInv, OwnerOf
    <2>3. ASSUME NEW u \in Threads, pc'[u] = "drain" PROVE DrainInv(u)'
      BY <1>2, <2>3 DEF IInv, StacksInv, DrainInv, OwnerOf
    <2>4. QED
      BY <2>1, <2>2, <2>3 DEF StacksInv
  <1>9. QED
    BY <1>3, <1>4, <1>5, <1>6, <1>7, <1>8 DEF IInv

(* The first turn of the push loop. *)
LEMMA PushLoadStep ==
  ASSUME IInv, NEW t \in Threads, PushLoad(t)
  PROVE  IInv'
  BY LinkStep DEF PushLoad, Goto

(* Another turn of the push loop. *)
LEMMA PushFailsStep ==
  ASSUME IInv, NEW t \in Threads, PushFails(t)
  PROVE  IInv'
  <1>1. pc' = [pc EXCEPT ![t] = "push_cas"]
    BY DEF PushFails, IInv, TypeOK
  <1>2. QED
    BY <1>1, LinkStep DEF PushFails

(* The exchange of the push loop: the slot becomes the top of its owner's stack. *)
LEMMA PushSucceedsStep ==
  ASSUME IInv, NEW t \in Threads, PushSucceeds(t)
  PROVE  IInv'
  <1> USE DEF PushSucceeds, Return, slabVars, threadVars
  <1> PICK s, v : s = ptr[t] /\ v = stack[t]
    OBVIOUS
  <1>1. /\ pc[t] = "push_cas"
        /\ s = ptr[t] /\ s \in Slots
        /\ loc[s] = "freeing"
        /\ v = stack[t] /\ v \in Threads
        /\ OwnerOf(s) = tc[v]
        /\ cell[s] = <<"ptr", remote_frees[v]>>
    BY DEF IInv, TypeOK, ThreadsInv, ThreadInv, FreeSteps, Goto, Ptr
  <1>2. /\ \A u \in Threads : /\ pc'[u] = IF u = t THEN "idle" ELSE pc[u]
                              /\ ptr'[u] = IF u = t THEN NULL ELSE ptr[u]
                              /\ reg'[u] = IF u = t THEN UserData ELSE reg[u]
                              /\ u # t => stack'[u] = stack[u] /\ cls'[u] = cls[u]
                              /\ remote_frees'[u] = IF u = v THEN s ELSE remote_frees[u]
        /\ \A r \in Slots : loc'[r] = IF r = s THEN "parked" ELSE loc[r]
    BY DEF IInv, TypeOK, Goto, Move
  <1>3. TypeOK'
    BY <1>1, UserDataType DEF IInv, TypeOK, PCs, Goto, Move
  <1>4. IdsInv'
    BY IdsFrame DEF IInv
  <1>5. ThreadsInv'
    <2>1. ThreadInv(t)'
      BY <1>2 DEF IInv, ThreadsInv, ThreadInv, FreeSteps, MallocSteps
    <2>2. ASSUME NEW u \in Threads, u # t PROVE ThreadInv(u)'
      <3>1. ptr[u] # NULL /\ pc[u] # "pop_store" => ptr[u] \in Slots /\ ptr[u] # s
        BY <1>1, <2>2 DEF IInv, TypeOK, ThreadsInv
      <3>2. QED
        BY <1>2, <2>2, <3>1, OtherThreadFrame DEF IInv, ThreadsInv
    <2>3. QED
      BY <2>1, <2>2, <1>2 DEF IInv, ThreadsInv
  <1>6. PagesInv' /\ FreeInv' /\ ListsInv'
    BY <1>1, <1>2, PagesFrame, FreeFrame, ListsFrame DEF IInv
  <1>7. StacksInv'
    <2>1. ASSUME NEW u \in Threads PROVE TopInv(u)'
      BY <1>1, <1>2 DEF IInv, TypeOK, StacksInv, TopInv, OwnerOf
    <2>2. ASSUME NEW r \in Slots, loc'[r] = "parked" PROVE NodeInv(r)'
      <3>1. CASE r = s
        <4> PICK old : old = remote_frees[v]
          OBVIOUS
        <4>1. \A u \in Threads : tc[u] = tc[v] => u = v
          <5>1. tc[v] # NULL
            BY <1>1, OwnerRegistered, SlabAssumption DEF CacheIds
          <5>2. QED
            BY <1>1, <5>1, IdsDistinct DEF IInv
        <4>2. ASSUME old # NULL
              PROVE  /\ old \in Slots
                     /\ loc'[old] = "parked"
                     /\ old # s
                     /\ OwnerOf(old) = OwnerOf(s)
          <5>1. old \in Slots
            BY <1>1, <4>2 DEF IInv, TypeOK
          <5>2. loc[old] = "parked" /\ OwnerOf(old) = tc[v]
            BY <1>1, <4>2 DEF IInv, StacksInv, TopInv
          <5>3. QED
            BY <1>1, <1>2, <5>1, <5>2
        <4>3. ASSUME old # NULL, NEW u \in Threads
              PROVE  old # remote_frees'[u] /\ (pc'[u] = "drain" => cell[s] # reg'[u])
          <5>1. CASE u = v
            BY <1>1, <1>2, <4>2, <4>3, <5>1 DEF IInv, StacksInv, DrainInv
          <5>2. CASE u # v
            BY <1>1, <1>2, <4>1, <4>3, <5>2 DEF IInv, StacksInv, DrainInv, TopInv
          <5>3. QED
            BY <5>1, <5>2
        <4>4. ASSUME old # NULL, NEW q \in Slots, loc'[q] = "parked", cell[q] = cell[s]
              PROVE  q = s
          BY <1>1, <1>2, <4>4 DEF IInv, StacksInv, NodeInv
        <4>5. cell' = cell /\ cell[s][1] = "ptr" /\ cell[s][2] = old
          BY <1>1
        <4>6. NodeInv(s)'
          BY <4>2, <4>3, <4>4, <4>5 DEF NodeInv, OwnerOf
        <4>7. QED
          BY <3>1, <4>6
      <3>2. CASE r # s
        BY <1>1, <1>2, <2>2, <3>2, LinkTypes DEF IInv, StacksInv, NodeInv, OwnerOf
      <3>3. QED
        BY <3>1, <3>2
    <2>3. ASSUME NEW u \in Threads, pc'[u] = "drain" PROVE DrainInv(u)'
      BY <1>1, <1>2, <2>3, LinkTypes DEF IInv, StacksInv, DrainInv, OwnerOf
    <2>4. QED
      BY <2>1, <2>2, <2>3 DEF StacksInv
  <1>8. QED
    BY <1>3, <1>4, <1>5, <1>6, <1>7 DEF IInv
-----------------------------------------------------------------------------
(* The steps on a page of the thread's own cache. *)

(* What another thread knows survives. *)
LEMMA OtherThreadSlab ==
  ASSUME IInv, NEW t \in Threads, NEW u \in Threads, u # t,
         NEW s \in Slots, tc[t] # NULL, OwnerOf(s) = tc[t],
         \A q \in Pages : meta'[q].owner_id = meta[q].owner_id,
         \A q \in Pages : q # s[1] => meta'[q].free_list_head = meta[q].free_list_head,
         \A r \in Slots : r # s => cell'[r] = cell[r],
         pc[u] = "push_cas" => ptr[u] # s,
         UNCHANGED <<tc, partial[u], pc[u], cls[u], ptr[u], reg[u], stack[u]>>,
         ptr[u] # NULL /\ pc[u] # "pop_store" => loc'[ptr[u]] = loc[ptr[u]],
         pc[u] = "drain" => lock' = lock
  PROVE  ThreadInv(u)'
  <1>1. tc[u] # tc[t]
    BY IdsDistinct DEF IInv
  <1>2. pc[u] \in FreeSteps \cup {"pop_store"} => ptr[u] \in Slots /\ ptr[u][1] \in Pages
    BY SlotParts, PopSlot DEF IInv, TypeOK, ThreadsInv, ThreadInv
  <1>3. ptr[u] \in Slots => OwnerOf(ptr[u])' = OwnerOf(ptr[u])
    BY SlotParts DEF OwnerOf
  <1>4. pc[u] \in {"free_store", "pop_store"} => ptr[u][1] # s[1]
    BY <1>1, PopSlot DEF IInv, ThreadsInv, ThreadInv, OwnerOf
  <1>5. pc[u] \in {"free_store", "pop_store"} =>
           meta'[ptr[u][1]].free_list_head = meta[ptr[u][1]].free_list_head
    BY <1>2, <1>4 DEF FreeSteps
  <1>6. pc[u] \in {"push_cas", "pop_store"} => cell'[ptr[u]] = cell[ptr[u]]
    BY <1>2, <1>4 DEF FreeSteps
  <1>7. pc[u] = "pop_store" => ptr[u][1] = partial[u][cls[u]]
    BY PopSlot
  <1>8. QED
    BY <1>2, <1>3, <1>5, <1>6, <1>7 DEF IInv, ThreadsInv, ThreadInv, FreeSteps

(* A slot that goes back to its page's free list: no free slot, no list and
   no page's head leads to it, so the lists stay well formed. *)
LEMMA ReturnSlotInv ==
  ASSUME IInv, NEW t \in Threads, NEW s \in Slots, tc[t] # NULL, OwnerOf(s) = tc[t],
         loc[s] \in {"freeing", "parked"},
         ReturnSlot(t, s, meta[s[1]].free_list_head), Move(s, "free"), UNCHANGED tc
  PROVE  PagesInv' /\ FreeInv' /\ ListsInv'
  <1> PICK p, head, c, first : /\ p = s[1] /\ head = meta[p].free_list_head
                               /\ c = meta[p].size_class /\ first = partial[t][c]
    OBVIOUS
  <1>1. /\ p = s[1] /\ p \in Pages /\ s = <<p, s[2]>> /\ s[2] \in 0..(MaxSlots - 1)
        /\ head = meta[p].free_list_head /\ head \in Indices
        /\ c = meta[p].size_class /\ c \in Classes
        /\ first = partial[t][c] /\ first \in Pages \cup {NULL}
        /\ meta[p].owner_id = tc[t]
    BY SlotParts, OwnerRegistered, CacheOfThread DEF IInv, TypeOK, Metas, OwnerOf
  <1>2. \A r \in Slots : /\ loc'[r] = IF r = s THEN "free" ELSE loc[r]
                         /\ cell'[r] = IF r = s THEN U16(head) ELSE cell[r]
    BY <1>1 DEF IInv, TypeOK, Move, ReturnSlot
  <1>3. \A q \in Pages :
           /\ meta'[q].owner_id = meta[q].owner_id
           /\ meta'[q].size_class = meta[q].size_class
           /\ meta'[q].free_list_head = IF q = p THEN s[2] ELSE meta[q].free_list_head
           /\ meta'[q].next_page = IF head = NULL_SLOT /\ q = p THEN first ELSE meta[q].next_page
           /\ meta'[q].prev_page = IF head = NULL_SLOT /\ q = p THEN NULL
                                   ELSE IF head = NULL_SLOT /\ q = first THEN p
                                   ELSE meta[q].prev_page
    BY <1>1, ReturnSlotEffect, CacheOfThread DEF IInv
  <1>4. s[2] # NULL_SLOT
    BY <1>1, IndexNotNull, SMTT(30)
  <1>5. first # NULL => /\ meta[first].owner_id = tc[t]
                        /\ meta[first].size_class = c
                        /\ Open(first)
                        /\ meta[first].prev_page = NULL
    BY <1>1 DEF IInv, ListsInv
  <1>6. PagesInv'
    <2>1. \A q \in Pages : ~Carved(q) => q # p /\ ~Open(q)
      BY <1>1, SlabAssumption, SMTT(30) DEF Carved, Open, IInv, PagesInv, EmptyMeta
    <2>2. \A q \in Pages : ~Carved(q) => meta'[q] = meta[q]
      BY <1>1, <1>5, <2>1, NullFacts DEF ReturnSlot
    <2>3. next_free_page' = next_free_page
      BY DEF ReturnSlot
    <2>4. \A q \in Pages : IF q < next_free_page'
                           THEN Carved(q)' /\ \E u \in Threads : meta'[q].owner_id = tc'[u]
                           ELSE meta'[q] = EmptyMeta
      BY <1>3, <2>2, <2>3 DEF IInv, PagesInv, Carved, EmptyMeta
    <2>5. \A r \in Slots : SlotsIn(r[1])' = SlotsIn(r[1])
      BY <1>3, SlotParts DEF SlotsIn, Carved
    <2>6. QED
      BY <1>2, <2>4, <2>5 DEF IInv, PagesInv
  <1>7. FreeInv'
    <2>1. \A q \in Pages : meta'[q].free_list_head = IF q = p THEN s[2] ELSE meta[q].free_list_head
      BY <1>3
    <2>2. ASSUME NEW q \in Pages, Open(q)' PROVE FreeSlot(q, meta[q].free_list_head)'
      BY <1>1, <1>2, <2>1, <2>2 DEF IInv, FreeInv, FreeSlot, Open
    <2>3. \A q, i : FreeSlot(q, i) => FreeSlot(q, i)' /\ <<q, i>> # s
      BY <1>2 DEF FreeSlot
    <2>4. /\ cell'[s][1] = "u16"
          /\ cell'[s][2] = head
          /\ head # NULL_SLOT => FreeSlot(p, head)
          /\ meta'[p].free_list_head = s[2]
          /\ s \in Slots
      BY <1>1, <1>2, <2>1 DEF IInv, FreeInv, Open, U16
    <2>5. ASSUME NEW r \in Slots, r # s, r[1] = p, loc[r] = "free"
          PROVE  cell[r] = cell'[s] => head = NULL_SLOT
      BY <1>1, <2>4, <2>5 DEF IInv, FreeInv
    <2>6. ASSUME NEW r \in Slots, loc'[r] = "free"
          PROVE  /\ cell'[r][1] = "u16"
                 /\ cell'[r][2] # NULL_SLOT =>
                        /\ FreeSlot(r[1], cell[r][2])'
                        /\ cell'[r][2] # meta'[r[1]].free_list_head
                 /\ \A q \in Slots : q # r /\ q[1] = r[1] /\ loc'[q] = "free" /\ cell'[q] = cell'[r]
                                      => cell'[r][2] = NULL_SLOT
      <3>1. CASE r = s
        <4>1. head # NULL_SLOT => FreeSlot(p, head)' /\ head # s[2]
          BY <1>1, <2>3, <2>4
        <4>2. ASSUME NEW q \in Slots, q # s, q[1] = p, loc'[q] = "free", cell'[q] = cell'[s]
              PROVE  head = NULL_SLOT
          BY <1>2, <2>5, <4>2
        <4>3. QED
          BY <1>1, <2>4, <3>1, <4>1, <4>2
      <3>2. CASE r # s
        <4>1. loc[r] = "free" /\ cell'[r] = cell[r] /\ r[1] \in Pages
          BY <1>2, <2>6, <3>2, SlotParts
        <4>2. /\ cell[r][1] = "u16"
              /\ cell[r][2] # NULL_SLOT => FreeSlot(r[1], cell[r][2])
                                           /\ cell[r][2] # meta[r[1]].free_list_head
          BY <4>1 DEF IInv, FreeInv
        <4>3. cell[r][2] # NULL_SLOT => cell[r][2] # meta'[r[1]].free_list_head
          BY <1>1, <2>1, <2>3, <4>1, <4>2
        <4>4. ASSUME NEW q \in Slots, q # r, q[1] = r[1], loc'[q] = "free", cell'[q] = cell[r]
              PROVE  cell[r][2] = NULL_SLOT
          <5>1. CASE q = s
            BY <1>1, <2>4, <2>5, <3>2, <4>1, <4>4, <5>1
          <5>2. CASE q # s
            BY <1>2, <4>1, <4>4, <5>2 DEF IInv, FreeInv
          <5>3. QED
            BY <5>1, <5>2
        <4>5. QED
          BY <2>3, <4>1, <4>2, <4>3, <4>4
      <3>3. QED
        BY <3>1, <3>2
    <2>7. QED
      BY <2>2, <2>6 DEF FreeInv
  <1>8. ListsInv'
    <2>1. \A q \in Pages : Open(q) \/ q = p => Open(q)'
      BY <1>3, <1>4 DEF Open
    <2>2. \A q, r \in Pages : Same(q, r) => Same(q, r)'
      BY <1>3 DEF Same
    <2>3. \A q \in Pages : meta[q].next_page \in Pages \cup {NULL} /\ meta[q].prev_page \in Pages \cup {NULL}
      BY DEF IInv, TypeOK, Metas
    <2>4. CASE head # NULL_SLOT
      <3>1. partial' = partial
        BY <1>1, <2>4 DEF ReturnSlot
      <3>2. \A q \in Pages : meta'[q].next_page = meta[q].next_page /\ meta'[q].prev_page = meta[q].prev_page
        BY <1>3, <2>4
      <3>3. \A u \in Threads, d \in Classes : partial[u][d] \in Pages \cup {NULL}
        BY CacheOfThread DEF IInv, TypeOK
      <3>4. QED
        BY <1>3, <2>1, <2>2, <2>3, <3>1, <3>2, <3>3 DEF IInv, ListsInv
    <2>5. CASE head = NULL_SLOT
      <3>1. /\ ~Open(p)
            /\ \A q \in Pages : meta[q].next_page # p /\ meta[q].prev_page # p
            /\ first # p
        <4>1. ~Open(p)
          BY <1>1, <2>5 DEF Open
        <4>2. first # p
          BY <1>1, <1>5, <4>1, NullFacts
        <4>3. ASSUME NEW q \in Pages PROVE meta[q].next_page # p
          BY <1>1, <4>1, NullFacts DEF IInv, ListsInv
        <4>4. ASSUME NEW q \in Pages PROVE meta[q].prev_page # p
          BY <1>1, <4>1, NullFacts DEF IInv, ListsInv
        <4>5. QED
          BY <4>1, <4>2, <4>3, <4>4
      <3>2. \A q \in Pages :
               /\ meta'[q].next_page = IF q = p THEN first ELSE meta[q].next_page
               /\ meta'[q].prev_page = IF q = p THEN NULL ELSE IF q = first THEN p ELSE meta[q].prev_page
        BY <1>3, <2>5
      <3>3. \A u \in Threads, d \in Classes :
               partial'[u][d] = IF u = t /\ d = c THEN p ELSE partial[u][d]
        BY <1>1, <2>5, CacheOfThread DEF IInv, TypeOK, ReturnSlot
      <3>4. ASSUME NEW u \in Threads, NEW d \in Classes, NEW q, q = partial'[u][d], q # NULL
            PROVE  /\ meta'[q].owner_id = tc'[u]
                   /\ meta'[q].size_class = d
                   /\ Open(q)'
                   /\ meta'[q].prev_page = NULL
        <4>1. CASE u = t /\ d = c
          BY <1>1, <1>3, <2>1, <3>2, <3>3, <3>4, <4>1, SMTT(30)
        <4>2. CASE ~(u = t /\ d = c)
          <5>1. q = partial[u][d] /\ q \in Pages
            BY <3>3, <3>4, <4>2, CacheOfThread DEF IInv, TypeOK
          <5>2. /\ meta[q].owner_id = tc[u]
                /\ meta[q].size_class = d
                /\ Open(q)
                /\ meta[q].prev_page = NULL
            BY <3>4, <5>1 DEF IInv, ListsInv
          <5>3. q # first
            <6>1. SUFFICES ASSUME q = first PROVE FALSE
              BY Zenon
            <6>2. tc[u] = tc[t] /\ d = c
              BY <1>5, <3>4, <5>2, <6>1
            <6>3. u = t
              BY <6>2, IdsDistinct DEF IInv
            <6>4. QED
              BY <4>2, <6>2, <6>3
          <5>4. QED
            BY <1>3, <2>1, <3>1, <3>2, <5>1, <5>2, <5>3
        <4>3. QED
          BY <4>1, <4>2, Zenon
      <3>5. ASSUME NEW q \in Pages, NEW n, n = meta'[q].next_page, n # NULL
            PROVE  Open(q)' /\ Open(n)' /\ Same(q, n)' /\ meta'[n].prev_page = q
        <4>1. CASE q = p
          BY <1>1, <1>3, <1>5, <2>1, <3>1, <3>2, <3>5, <4>1, SMTT(30) DEF Same
        <4>2. CASE q # p
          <5>1. n = meta[q].next_page /\ n \in Pages /\ n # p
            BY <2>3, <3>1, <3>2, <3>5, <4>2
          <5>2. Open(q) /\ Open(n) /\ Same(q, n) /\ meta[n].prev_page = q
            BY <3>5, <5>1, SMTT(30) DEF IInv, ListsInv
          <5>3. n # first
            BY <1>5, <5>2, <3>5, NullFacts
          <5>4. QED
            BY <2>1, <2>2, <3>2, <5>1, <5>2, <5>3
        <4>3. QED
          BY <4>1, <4>2, Zenon
      <3>6. ASSUME NEW q \in Pages, NEW n, n = meta'[q].prev_page, n # NULL
            PROVE  meta'[n].next_page = q
        <4>1. CASE q = first
          BY <1>1, <3>1, <3>2, <3>6, <4>1
        <4>2. CASE q # first
          BY <2>3, <3>1, <3>2, <3>6, <4>2 DEF IInv, ListsInv
        <4>3. QED
          BY <4>1, <4>2, Zenon
      <3>7. QED
        BY <3>4, <3>5, <3>6 DEF ListsInv
    <2>6. QED
      BY <2>4, <2>5
  <1>9. QED
    BY <1>6, <1>7, <1>8

(* The stacks survive what happens to slots that are on none of them. *)
LEMMA StacksKept ==
  ASSUME TypeOK, StacksInv, UNCHANGED <<tc, remote_frees>>,
         \A r \in Slots : loc'[r] = "parked" <=> loc[r] = "parked",
         \A r \in Slots : loc[r] = "parked" => cell'[r] = cell[r] /\ OwnerOf(r)' = OwnerOf(r),
         \A u \in Threads : pc'[u] = "drain" => pc[u] = "drain" /\ reg'[u] = reg[u]
  PROVE  StacksInv'
  <1>1. ASSUME NEW u \in Threads PROVE TopInv(u)'
    <2>1. remote_frees[u] # NULL => remote_frees[u] \in Slots
      BY DEF TypeOK
    <2>2. remote_frees'[u] # NULL => OwnerOf(remote_frees[u])' = OwnerOf(remote_frees[u])
      BY <2>1 DEF StacksInv, TopInv
    <2>3. QED
      BY <2>1, <2>2 DEF StacksInv, TopInv
  <1>2. ASSUME NEW s \in Slots, loc'[s] = "parked" PROVE NodeInv(s)'
    <2>1. /\ loc[s] = "parked" /\ cell'[s] = cell[s] /\ OwnerOf(s)' = OwnerOf(s)
          /\ NodeInv(s)
      BY <1>2 DEF StacksInv
    <2>2. cell[s][2] # NULL => /\ cell[s][2] \in Slots
                               /\ OwnerOf(cell[s][2])' = OwnerOf(cell[s][2])
      BY <2>1, LinkTypes DEF NodeInv
    <2>3. cell[s][2] # NULL => \A u \in Threads : pc'[u] = "drain" => cell[s] # reg'[u]
      BY <2>1 DEF NodeInv
    <2>4. cell[s][2] # NULL => \A r \in Slots : loc'[r] = "parked" /\ cell'[r] = cell[s] => r = s
      BY <2>1 DEF NodeInv
    <2>5. QED
      BY <2>1, <2>2, <2>3, <2>4 DEF NodeInv
  <1>3. ASSUME NEW t \in Threads, pc'[t] = "drain" PROVE DrainInv(t)'
    <2>1. reg'[t] = reg[t] /\ DrainInv(t)
      BY <1>3 DEF StacksInv
    <2>2. reg[t][2] # NULL => /\ reg[t][2] \in Slots
                              /\ OwnerOf(reg[t][2])' = OwnerOf(reg[t][2])
      BY <2>1, LinkTypes DEF DrainInv
    <2>3. QED
      BY <2>1, <2>2 DEF DrainInv
  <1>4. QED
    BY <1>1, <1>2, <1>3 DEF StacksInv

(* The store half of a local free. *)
LEMMA FreeStoreStep ==
  ASSUME IInv, NEW t \in Threads, FreeStore(t)
  PROVE  IInv'
  <1> USE DEF FreeStore, Return, threadVars
  <1> PICK s : s = ptr[t]
    OBVIOUS
  <1>1. /\ pc[t] = "free_store" /\ tc[t] # NULL
        /\ s = ptr[t] /\ s \in Slots /\ loc[s] = "freeing"
        /\ OwnerOf(s) = tc[t]
        /\ reg[t][2] = meta[s[1]].free_list_head
    BY DEF IInv, TypeOK, ThreadsInv, ThreadInv, FreeSteps, Goto, U16
  <1>2. /\ \A u \in Threads : /\ pc'[u] = IF u = t THEN "idle" ELSE pc[u]
                              /\ ptr'[u] = IF u = t THEN NULL ELSE ptr[u]
                              /\ u # t => UNCHANGED <<reg[u], stack[u], cls[u]>>
        /\ \A r \in Slots : loc'[r] = IF r = s THEN "free" ELSE loc[r]
    BY DEF IInv, TypeOK, Goto, Move
  <1>3. meta[s[1]].size_class \in Classes /\ s[1] \in Pages
    BY <1>1, OwnerRegistered, SlotParts
  <1>4. meta[s[1]].free_list_head \in Indices
    BY <1>3 DEF IInv, TypeOK, Metas
  <1>5. /\ meta' \in [Pages -> Metas]
        /\ cell' \in [Slots -> Links]
        /\ partial' \in [Caches -> [Classes -> Pages \cup {NULL}]]
        /\ \A q \in Pages : /\ meta'[q].owner_id = meta[q].owner_id
                            /\ q # s[1] => meta'[q].free_list_head = meta[q].free_list_head
    BY <1>1, <1>3, <1>4, ReturnSlotEffect, CacheOfThread, SMTT(30) DEF IInv
  <1>6. /\ next_free_page' = next_free_page
        /\ \A r \in Slots : r # s => cell'[r] = cell[r]
        /\ \A u \in Threads : u # t => partial'[u] = partial[u]
    BY <1>1, <1>3, CacheOfThread DEF ReturnSlot, IInv, TypeOK
  <1>7. TypeOK'
    BY <1>1, <1>5, <1>6, UserDataType DEF IInv, TypeOK, PCs, Goto, Move
  <1>8. IdsInv'
    BY IdsFrame DEF IInv
  <1>9. ThreadsInv'
    <2>1. ThreadInv(t)'
      BY <1>2 DEF IInv, ThreadsInv, ThreadInv, FreeSteps, MallocSteps
    <2>2. ASSUME NEW u \in Threads, u # t PROVE ThreadInv(u)'
      <3>1. ptr[u] # NULL /\ pc[u] # "pop_store" => ptr[u] \in Slots /\ ptr[u] # s
        BY <1>1, <2>2 DEF IInv, TypeOK, ThreadsInv
      <3>2. pc[u] = "push_cas" => ptr[u] # s
        BY <1>1, <3>1, ThreadCacheAssumption
      <3>3. UNCHANGED <<tc, partial[u], pc[u], cls[u], ptr[u], reg[u], stack[u], lock>>
        BY <1>2, <1>6, <2>2
      <3>4. ptr[u] # NULL /\ pc[u] # "pop_store" => loc'[ptr[u]] = loc[ptr[u]]
        BY <1>2, <3>1
      <3>5. QED
        BY <1>1, <1>5, <1>6, <2>2, <3>2, <3>3, <3>4, OtherThreadSlab
    <2>3. QED
      BY <2>1, <2>2, <1>2 DEF IInv, ThreadsInv
  <1>10. PagesInv' /\ FreeInv' /\ ListsInv'
    BY <1>1, ReturnSlotInv
  <1>11. StacksInv'
    <2>1. \A r \in Slots : OwnerOf(r)' = OwnerOf(r)
      BY <1>5, SlotParts DEF OwnerOf
    <2>2. QED
      BY <1>1, <1>2, <1>6, <2>1, StacksKept DEF IInv
  <1>12. QED
    BY <1>7, <1>8, <1>9, <1>10, <1>11 DEF IInv

(* One slot of a detached stack goes back to its page. *)
LEMMA DrainNodeStep ==
  ASSUME IInv, NEW t \in Threads, DrainNode(t)
  PROVE  IInv'
  <1> USE DEF DrainNode, threadVars
  <1> PICK s : s = reg[t][2]
    OBVIOUS
  <1>1. /\ pc[t] = "drain" /\ tc[t] # NULL /\ lock = t
        /\ s = reg[t][2] /\ s # NULL /\ s \in Slots
        /\ reg[t] = <<"ptr", s>>
        /\ loc[s] = "parked"
        /\ OwnerOf(s) = tc[t]
        /\ s # remote_frees[t]
        /\ NodeInv(s)
    BY LinkTypes DEF IInv, ThreadsInv, ThreadInv, StacksInv, DrainInv
  <1>2. /\ \A u \in Threads : reg'[u] = IF u = t THEN cell[s] ELSE reg[u]
        /\ \A r \in Slots : loc'[r] = IF r = s THEN "free" ELSE loc[r]
        /\ ReturnSlot(t, s, meta[s[1]].free_list_head)
        /\ Move(s, "free")
    BY <1>1 DEF IInv, TypeOK, Load, Move
  <1>3. meta[s[1]].size_class \in Classes /\ s[1] \in Pages
    BY <1>1, OwnerRegistered, SlotParts
  <1>4. meta[s[1]].free_list_head \in Indices
    BY <1>3, SMTT(30) DEF IInv, TypeOK, Metas
  <1>5. /\ meta' \in [Pages -> Metas]
        /\ cell' \in [Slots -> Links]
        /\ partial' \in [Caches -> [Classes -> Pages \cup {NULL}]]
        /\ \A q \in Pages : /\ meta'[q].owner_id = meta[q].owner_id
                            /\ q # s[1] => meta'[q].free_list_head = meta[q].free_list_head
    BY <1>1, <1>2, <1>3, <1>4, ReturnSlotEffect, CacheOfThread, SMTT(60) DEF IInv
  <1>6. /\ next_free_page' = next_free_page
        /\ \A r \in Slots : r # s => cell'[r] = cell[r]
        /\ \A u \in Threads : u # t => partial'[u] = partial[u]
    BY <1>2, <1>3, CacheOfThread, ZenonT(40) DEF ReturnSlot, IInv, TypeOK
  <1>7. TypeOK'
    <2>1. cell[s] \in Links
      BY <1>1 DEF IInv, TypeOK
    <2>2. reg' = [reg EXCEPT ![t] = cell[s]] /\ loc' = [loc EXCEPT ![s] = "free"]
      BY <1>1, <1>2 DEF Load, Move
    <2>3. QED
      BY <2>1, <2>2, <1>5, <1>6 DEF IInv, TypeOK
  <1>8. IdsInv'
    BY IdsFrame DEF IInv
  <1>9. ThreadsInv'
    <2>1. ThreadInv(t)'
      BY <1>1 DEF IInv, ThreadsInv, ThreadInv, FreeSteps, MallocSteps
    <2>2. ASSUME NEW u \in Threads, u # t PROVE ThreadInv(u)'
      <3>1. ptr[u] # NULL /\ pc[u] # "pop_store" => ptr[u] \in Slots /\ ptr[u] # s
        BY <1>1, <2>2 DEF IInv, TypeOK, ThreadsInv, ThreadInv
      <3>2. pc[u] = "push_cas" => ptr[u] # s
        BY <1>1, <3>1 DEF IInv, TypeOK
      <3>3. UNCHANGED <<tc, partial[u], pc[u], cls[u], ptr[u], reg[u], stack[u], lock>>
        BY <1>2, <1>6, <2>2
      <3>4. ptr[u] # NULL /\ pc[u] # "pop_store" => loc'[ptr[u]] = loc[ptr[u]]
        BY <1>2, <3>1
      <3>5. QED
        BY <1>1, <1>5, <1>6, <2>2, <3>2, <3>3, <3>4, OtherThreadSlab
    <2>3. QED
      BY <2>1, <2>2 DEF IInv, ThreadsInv
  <1>10. PagesInv' /\ FreeInv' /\ ListsInv'
    BY <1>1, <1>2, ReturnSlotInv
  <1>11. StacksInv'
    <2>1. \A r \in Slots : OwnerOf(r)' = OwnerOf(r)
      BY <1>5, SlotParts DEF OwnerOf
    <2>2. ASSUME NEW u \in Threads PROVE TopInv(u)'
      <3>1. remote_frees[u] # NULL => /\ remote_frees[u] \in Slots
                                      /\ loc[remote_frees[u]] = "parked"
                                      /\ OwnerOf(remote_frees[u]) = tc[u]
        BY DEF IInv, TypeOK, StacksInv, TopInv
      <3>2. remote_frees[u] # s
        BY <1>1, <3>1, IdsDistinct DEF IInv
      <3>3. QED
        BY <1>2, <2>1, <3>1, <3>2 DEF TopInv
    <2>3. ASSUME NEW r \in Slots, loc'[r] = "parked" PROVE NodeInv(r)'
      <3>1. r # s /\ loc[r] = "parked" /\ cell'[r] = cell[r] /\ NodeInv(r)
        BY <1>2, <1>6, <2>3 DEF IInv, StacksInv
      <3>2. ASSUME cell[r][2] # NULL
            PROVE  /\ loc'[cell[r][2]] = "parked"
                   /\ OwnerOf(cell[r][2])' = OwnerOf(r)
          <4>1. cell[r][2] \in Slots /\ cell[r] = <<"ptr", cell[r][2]>>
            BY <3>1, <3>2, LinkTypes DEF IInv, NodeInv
          <4>2. cell[r][2] # s
            BY <1>1, <3>1, <3>2, <4>1 DEF NodeInv
          <4>3. QED
            BY <1>2, <2>1, <3>1, <3>2, <4>1, <4>2 DEF NodeInv
      <3>3. ASSUME cell[r][2] # NULL, NEW u \in Threads, pc[u] = "drain" PROVE cell[r] # reg'[u]
        <4>1. CASE u = t
          BY <1>1, <1>2, <3>1, <3>3, <4>1 DEF NodeInv
        <4>2. CASE u # t
          BY <1>2, <3>1, <3>3, <4>2 DEF NodeInv
        <4>3. QED
          BY <4>1, <4>2
      <3>4. ASSUME cell[r][2] # NULL, NEW q \in Slots, loc'[q] = "parked", cell'[q] = cell[r]
            PROVE  q = r
        BY <1>2, <1>6, <3>1, <3>4 DEF NodeInv
      <3>5. QED
        BY <2>1, <3>1, <3>2, <3>3, <3>4 DEF NodeInv
    <2>4. ASSUME NEW u \in Threads, pc'[u] = "drain" PROVE DrainInv(u)'
      <3>1. u = t
        BY <1>1, <2>4, SMTT(30) DEF IInv, ThreadsInv, ThreadInv
      <3>2. reg'[t] = cell[s] /\ cell[s][1] = "ptr"
        BY <1>1, <1>2, SMTT(30) DEF NodeInv
      <3>3. ASSUME cell[s][2] # NULL
            PROVE  /\ cell[s][2] \in Slots
                   /\ loc'[cell[s][2]] = "parked"
                   /\ OwnerOf(cell[s][2]) = tc[t]
                   /\ cell[s][2] # remote_frees[t]
        <4>1. cell[s][2] \in Slots /\ cell[s] = <<"ptr", cell[s][2]>>
          BY <1>1, <3>2, <3>3, LinkTypes DEF IInv
        <4>2. cell[s][2] # s
          BY <1>1, <3>3, <4>1 DEF NodeInv
        <4>3. QED
          BY <1>1, <1>2, <3>3, <4>1, <4>2 DEF NodeInv
      <3>4. QED
        BY <2>1, <3>1, <3>2, <3>3 DEF DrainInv
    <2>5. QED
      BY <2>2, <2>3, <2>4 DEF StacksInv
  <1>12. QED
    BY <1>7, <1>8, <1>9, <1>10, <1>11 DEF IInv

(* A slot that leaves the head of its page's free list, and a page that
   leaves the front of its cache's list when that was its last free slot. *)
LEMMA TakeSlotInv ==
  ASSUME IInv, NEW t \in Threads, pc[t] = "pop_store",
         TakeSlot(t, cls[t], ptr[t], reg[t][2]), Move(ptr[t], "live"), UNCHANGED tc
  PROVE  /\ PagesInv' /\ FreeInv' /\ ListsInv'
         /\ meta' \in [Pages -> Metas]
         /\ cell' \in [Slots -> Links]
         /\ partial' \in [Caches -> [Classes -> Pages \cup {NULL}]]
         /\ \A q \in Pages : /\ meta'[q].owner_id = meta[q].owner_id
                             /\ q # ptr[t][1] => meta'[q].free_list_head = meta[q].free_list_head
  <1> PICK s, p, next, c, after : /\ s = ptr[t] /\ p = s[1] /\ next = reg[t][2]
                                  /\ c = cls[t] /\ after = meta[p].next_page
    OBVIOUS
  <1>1. /\ s = ptr[t] /\ s \in Slots /\ loc[s] = "free"
        /\ p = s[1] /\ p \in Pages /\ p = partial[t][c]
        /\ s = <<p, s[2]>> /\ s[2] = meta[p].free_list_head
        /\ c = cls[t] /\ c \in Classes
        /\ next = reg[t][2] /\ next = cell[s][2]
        /\ after = meta[p].next_page
        /\ Open(p) /\ meta[p].prev_page = NULL
        /\ meta[p].owner_id = tc[t] /\ meta[p].size_class = c
    BY PopSlot, PopPage, SlotParts
  <1>2. /\ cell[s] = <<"u16", next>> /\ next \in Indices
        /\ next # NULL_SLOT => FreeSlot(p, next) /\ next # s[2]
    BY <1>1, LinkTypes DEF IInv, FreeInv
  <1>3. \A r \in Slots : /\ loc'[r] = IF r = s THEN "live" ELSE loc[r]
                         /\ r # s => cell'[r] = cell[r]
    <2>1. DOMAIN loc = Slots /\ DOMAIN cell = Slots
      BY DEF IInv, TypeOK
    <2>2. QED
      BY <1>1, <2>1 DEF Move, TakeSlot
  <1>4. /\ meta' \in [Pages -> Metas]
        /\ cell' \in [Slots -> Links]
        /\ partial' \in [Caches -> [Classes -> Pages \cup {NULL}]]
        /\ \A q \in Pages :
           /\ meta'[q].owner_id = meta[q].owner_id
           /\ meta'[q].size_class = meta[q].size_class
           /\ meta'[q].free_list_head = IF q = p THEN next ELSE meta[q].free_list_head
           /\ meta'[q].next_page = IF next = NULL_SLOT /\ q = p THEN NULL ELSE meta[q].next_page
           /\ meta'[q].prev_page = IF next = NULL_SLOT /\ (q = p \/ q = after) THEN NULL
                                   ELSE meta[q].prev_page
    <2>1. /\ TypeOK /\ t \in Caches /\ c \in Classes /\ s \in Slots /\ next \in Indices
          /\ TakeSlot(t, c, s, next) /\ meta[s[1]].prev_page = NULL
      BY <1>1, <1>2, CacheOfThread DEF IInv
    <2>2. /\ meta' \in [Pages -> Metas]
          /\ cell' \in [Slots -> Links]
          /\ partial' \in [Caches -> [Classes -> Pages \cup {NULL}]]
      BY <2>1, TakeSlotEffect
    <2>3. \A q \in Pages :
           /\ meta'[q].owner_id = meta[q].owner_id
           /\ meta'[q].size_class = meta[q].size_class
           /\ meta'[q].free_list_head = IF q = s[1] THEN next ELSE meta[q].free_list_head
      BY <2>1, TakeSlotEffect
    <2>4. \A q \in Pages :
           /\ meta'[q].next_page = IF next = NULL_SLOT /\ q = s[1] THEN NULL ELSE meta[q].next_page
           /\ meta'[q].prev_page = IF next = NULL_SLOT /\ (q = s[1] \/ q = meta[s[1]].next_page) THEN NULL
                                   ELSE meta[q].prev_page
      BY <2>1, TakeSlotEffect
    <2>5. QED
      <3>1. p = s[1] /\ after = meta[s[1]].next_page
        BY <1>1
      <3>2. QED
        BY <2>2, <2>3, <2>4, <3>1
  <1>5. after # NULL => /\ after \in Pages /\ after # p
                        /\ Open(after) /\ Same(p, after) /\ meta[after].prev_page = p
    BY <1>1, NullFacts, SMTT(60) DEF IInv, TypeOK, Metas, ListsInv
  <1>6. PagesInv'
    <2>1. \A q \in Pages : ~Carved(q) => q # p /\ ~Open(q)
      BY <1>1, SlabAssumption, SMTT(30) DEF Carved, Open, IInv, PagesInv, EmptyMeta
    <2>2. ASSUME NEW q \in Pages, ~Carved(q) PROVE meta'[q] = meta[q]
      <3>1. q # p /\ q # NULL /\ (next = NULL_SLOT => q # after)
        BY <1>5, <2>1, <2>2, NullFacts
      <3>2. /\ s[1] = p /\ meta[p].prev_page = NULL /\ meta[p].next_page = after
            /\ reg[t][2] = next /\ ptr[t] = s
        BY <1>1
      <3>3. QED
        BY <3>1, <3>2, SMTT(60) DEF TakeSlot
    <2>3. next_free_page' = next_free_page
      BY DEF TakeSlot
    <2>4. \A q \in Pages : IF q < next_free_page'
                           THEN Carved(q)' /\ \E u \in Threads : meta'[q].owner_id = tc'[u]
                           ELSE meta'[q] = EmptyMeta
      BY <1>4, <2>2, <2>3 DEF IInv, PagesInv, Carved, EmptyMeta
    <2>5. \A r \in Slots : SlotsIn(r[1])' = SlotsIn(r[1])
      BY <1>4, SlotParts DEF SlotsIn, Carved
    <2>6. QED
      BY <1>1, <1>3, <2>4, <2>5 DEF IInv, PagesInv
  <1>7. FreeInv'
    <2>1. \A q \in Pages : meta'[q].free_list_head = IF q = p THEN next ELSE meta[q].free_list_head
      BY <1>4
    <2>2. \A q, i : FreeSlot(q, i) /\ <<q, i>> # s => FreeSlot(q, i)'
      BY <1>3 DEF FreeSlot
    <2>3. ASSUME NEW q \in Pages, Open(q)' PROVE FreeSlot(q, meta[q].free_list_head)'
      <3>1. CASE q = p
        BY <1>1, <1>2, <2>1, <2>2, <2>3, <3>1 DEF Open
      <3>2. CASE q # p
        BY <1>1, <2>1, <2>2, <2>3, <3>2 DEF IInv, FreeInv, Open
      <3>3. QED
        BY <3>1, <3>2
    <2>4. ASSUME NEW r \in Slots, loc'[r] = "free"
          PROVE  /\ cell'[r][1] = "u16"
                 /\ cell'[r][2] # NULL_SLOT =>
                        /\ FreeSlot(r[1], cell[r][2])'
                        /\ cell'[r][2] # meta'[r[1]].free_list_head
                 /\ \A q \in Slots : q # r /\ q[1] = r[1] /\ loc'[q] = "free" /\ cell'[q] = cell'[r]
                                      => cell'[r][2] = NULL_SLOT
      <3>1. r # s /\ loc[r] = "free" /\ cell'[r] = cell[r] /\ r[1] \in Pages
        BY <1>3, <2>4, SlotParts
      <3>2. /\ cell[r] = <<"u16", cell[r][2]>>
            /\ cell[r][2] # NULL_SLOT => FreeSlot(r[1], cell[r][2])
                                         /\ cell[r][2] # meta[r[1]].free_list_head
        BY <3>1, LinkTypes DEF IInv, FreeInv
      <3>3. ASSUME cell[r][2] # NULL_SLOT PROVE FreeSlot(r[1], cell[r][2])'
        <4>1. PICK i : i = cell[r][2]
          OBVIOUS
        <4>2. FreeSlot(r[1], i) /\ <<r[1], i>> # s
          BY <1>1, <3>2, <3>3, <4>1
        <4>3. QED
          BY <2>2, <3>1, <4>1, <4>2
      <3>4. ASSUME cell[r][2] # NULL_SLOT PROVE cell[r][2] # meta'[r[1]].free_list_head
        <4>1. CASE r[1] = p
          <5>1. cell[r] # cell[s]
            BY <1>1, <3>1, <3>4, <4>1 DEF IInv, FreeInv
          <5>2. QED
            BY <1>1, <1>2, <2>1, <3>2, <4>1, <5>1
        <4>2. CASE r[1] # p
          BY <2>1, <3>1, <3>2, <3>4, <4>2
        <4>3. QED
          BY <4>1, <4>2
      <3>5. ASSUME NEW q \in Slots, q # r, q[1] = r[1], loc'[q] = "free", cell'[q] = cell[r]
            PROVE  cell[r][2] = NULL_SLOT
        BY <1>3, <3>1, <3>5 DEF IInv, FreeInv
      <3>6. QED
        BY <3>1, <3>2, <3>3, <3>4, <3>5
    <2>5. QED
      BY <2>3, <2>4 DEF FreeInv
  <1>8. ListsInv'
    <2>1. \A q \in Pages : meta[q].next_page \in Pages \cup {NULL} /\ meta[q].prev_page \in Pages \cup {NULL}
      BY DEF IInv, TypeOK, Metas
    <2>2. \A q, r \in Pages : Same(q, r) => Same(q, r)'
      BY <1>4 DEF Same
    <2>3. \A q \in Pages : Open(q) /\ (q # p \/ next # NULL_SLOT) => Open(q)'
      BY <1>4 DEF Open
    <2>4. \A u \in Threads, d \in Classes :
             /\ partial[u][d] \in Pages \cup {NULL}
             /\ partial'[u][d] = IF next = NULL_SLOT /\ u = t /\ d = c THEN after ELSE partial[u][d]
      BY <1>1, CacheOfThread DEF IInv, TypeOK, TakeSlot
    <2>5. CASE next # NULL_SLOT
      <3>1. \A q \in Pages : meta'[q].next_page = meta[q].next_page /\ meta'[q].prev_page = meta[q].prev_page
        BY <1>4, <2>5
      <3>2. QED
        BY <1>4, <2>1, <2>2, <2>3, <2>4, <2>5, <3>1 DEF IInv, ListsInv
    <2>6. CASE next = NULL_SLOT
      <3>1. \A q \in Pages :
               /\ meta'[q].next_page = IF q = p THEN NULL ELSE meta[q].next_page
               /\ meta'[q].prev_page = IF q = p \/ q = after THEN NULL ELSE meta[q].prev_page
        BY <1>4, <2>6
      <3>2. ASSUME NEW u \in Threads, NEW d \in Classes, NEW q, q = partial'[u][d], q # NULL
            PROVE  /\ meta'[q].owner_id = tc'[u]
                   /\ meta'[q].size_class = d
                   /\ Open(q)'
                   /\ meta'[q].prev_page = NULL
        <4>1. CASE u = t /\ d = c
          <5>1. q = after
            BY <2>4, <2>6, <3>2, <4>1
          <5>2. QED
            BY <1>1, <1>4, <1>5, <2>3, <3>1, <3>2, <4>1, <5>1, ZenonT(40) DEF Same
        <4>2. CASE ~(u = t /\ d = c)
          <5>1. q = partial[u][d] /\ q \in Pages
            BY <2>4, <3>2, <4>2
          <5>2. /\ meta[q].owner_id = tc[u]
                /\ meta[q].size_class = d
                /\ Open(q)
                /\ meta[q].prev_page = NULL
            BY <3>2, <5>1 DEF IInv, ListsInv
          <5>3. q # p
            <6>1. SUFFICES ASSUME q = p PROVE FALSE
              OBVIOUS
            <6>2. tc[u] = tc[t] /\ d = c /\ tc[t] # NULL
              BY <1>1, <5>2, <6>1 DEF IInv, ThreadsInv, ThreadInv
            <6>3. u = t
              BY <6>2, IdsDistinct DEF IInv
            <6>4. QED
              BY <4>2, <6>2, <6>3
          <5>4. QED
            BY <1>4, <2>3, <3>1, <5>1, <5>2, <5>3
        <4>3. QED
          BY <4>1, <4>2, Zenon
      <3>3. ASSUME NEW q \in Pages, NEW n, n = meta'[q].next_page, n # NULL
            PROVE  Open(q)' /\ Open(n)' /\ Same(q, n)' /\ meta'[n].prev_page = q
        <4>1. q # p /\ n = meta[q].next_page /\ n \in Pages
          BY <2>1, <3>1, <3>3
        <4>2. Open(q) /\ Open(n) /\ Same(q, n) /\ meta[n].prev_page = q
          BY <3>3, <4>1 DEF IInv, ListsInv
        <4>3. n # p /\ n # after
          BY <1>1, <1>5, <3>3, <4>1, <4>2, NullFacts
        <4>4. QED
          BY <2>2, <2>3, <3>1, <4>1, <4>2, <4>3
      <3>4. ASSUME NEW q \in Pages, NEW n, n = meta'[q].prev_page, n # NULL
            PROVE  meta'[n].next_page = q
        <4>1. q # after /\ n = meta[q].prev_page /\ n \in Pages
          BY <2>1, <3>1, <3>4
        <4>2. meta[n].next_page = q
          BY <3>4, <4>1 DEF IInv, ListsInv
        <4>3. n # p
          BY <1>1, <4>1, <4>2
        <4>4. QED
          BY <3>1, <4>1, <4>2, <4>3
      <3>5. QED
        BY <3>2, <3>3, <3>4 DEF ListsInv
    <2>7. QED
      BY <2>5, <2>6
  <1>9. QED
    BY <1>1, <1>4, <1>6, <1>7, <1>8

(* The store half of alloc: the slot is the application's. *)
LEMMA PopStoreStep ==
  ASSUME IInv, NEW t \in Threads, PopStore(t)
  PROVE  IInv'
  <1> USE DEF PopStore, Return, threadVars
  <1> PICK s : s = ptr[t]
    OBVIOUS
  <1>1. /\ pc[t] = "pop_store" /\ tc[t] # NULL
        /\ s = ptr[t] /\ s \in Slots /\ loc[s] = "free"
        /\ OwnerOf(s) = tc[t]
    BY PopSlot DEF IInv, ThreadsInv, ThreadInv, Goto
  <1>2. /\ \A u \in Threads : /\ pc'[u] = IF u = t THEN "idle" ELSE pc[u]
                              /\ ptr'[u] = IF u = t THEN NULL ELSE ptr[u]
                              /\ u # t => UNCHANGED <<reg[u], stack[u], cls[u]>>
        /\ \A r \in Slots : loc'[r] = IF r = s THEN "live" ELSE loc[r]
    BY <1>1 DEF IInv, TypeOK, Goto, Move
  <1>3. s[1] \in Pages
    BY <1>1, SlotParts
  <1>4. PagesInv' /\ FreeInv' /\ ListsInv'
    BY <1>1, TakeSlotInv
  <1>5. /\ meta' \in [Pages -> Metas]
        /\ cell' \in [Slots -> Links]
        /\ partial' \in [Caches -> [Classes -> Pages \cup {NULL}]]
        /\ \A q \in Pages : /\ meta'[q].owner_id = meta[q].owner_id
                            /\ q # s[1] => meta'[q].free_list_head = meta[q].free_list_head
    BY <1>1, TakeSlotInv
  <1>6. /\ next_free_page' = next_free_page
        /\ \A r \in Slots : r # s => cell'[r] = cell[r]
        /\ \A u \in Threads : u # t => partial'[u] = partial[u]
    BY <1>1, CacheOfThread DEF TakeSlot, IInv, TypeOK
  <1>7. TypeOK'
    <2>1. lock' \in Threads \cup {NULL}
      BY DEF IInv, TypeOK, Release
    <2>2. QED
      BY <1>1, <1>5, <1>6, <2>1, UserDataType DEF IInv, TypeOK, PCs, Goto, Move
  <1>8. IdsInv'
    BY IdsFrame DEF IInv
  <1>9. ThreadsInv'
    <2>1. ThreadInv(t)'
      BY <1>2 DEF IInv, ThreadsInv, ThreadInv, FreeSteps, MallocSteps
    <2>2. ASSUME NEW u \in Threads, u # t PROVE ThreadInv(u)'
      <3>1. ptr[u] # NULL /\ pc[u] # "pop_store" => ptr[u] \in Slots /\ ptr[u] # s
        BY <1>1, <2>2 DEF IInv, TypeOK, ThreadsInv, ThreadInv
      <3>2. pc[u] = "push_cas" => ptr[u] # s
        BY <1>1, <3>1, ThreadCacheAssumption
      <3>3. UNCHANGED <<tc, partial[u], pc[u], cls[u], ptr[u], reg[u], stack[u]>>
        BY <1>2, <1>6, <2>2
      <3>4. ptr[u] # NULL /\ pc[u] # "pop_store" => loc'[ptr[u]] = loc[ptr[u]]
        BY <1>2, <3>1
      <3>5. pc[u] = "drain" => lock' = lock
        BY <2>2 DEF IInv, ThreadsInv, ThreadInv, Release
      <3>6. QED
        BY <1>1, <1>5, <1>6, <2>2, <3>2, <3>3, <3>4, <3>5, OtherThreadSlab
    <2>3. QED
      BY <2>1, <2>2, <1>2 DEF IInv, ThreadsInv
  <1>10. StacksInv'
    <2>1. \A r \in Slots : OwnerOf(r)' = OwnerOf(r)
      BY <1>5, SlotParts DEF OwnerOf
    <2>2. QED
      BY <1>1, <1>2, <1>6, <2>1, StacksKept DEF IInv
  <1>11. QED
    BY <1>4, <1>7, <1>8, <1>9, <1>10 DEF IInv

(* A page fresh from the arena: its slots are raw, so that no thread, no
   stack and no other page's list knows any of them. *)
LEMMA NewPageStep ==
  ASSUME IInv, NEW t \in Threads, NewPage(t)
  PROVE  IInv'
  <1> USE DEF NewPage, threadVars, locals
  <1> PICK p, c, n : p = next_free_page /\ c = cls[t] /\ n = SlotsOf[c]
    OBVIOUS
  <1>1. /\ p = next_free_page /\ p \in Pages /\ p \in Int
        /\ meta[p] = EmptyMeta /\ next_free_page' = p + 1
        /\ c = cls[t] /\ c \in Classes
        /\ tc[t] \in CacheIds /\ tc[t] # NULL
        /\ pc[t] = "new_page" /\ ptr[t] = NULL
        /\ n = SlotsOf[c] /\ n \in 2..MaxSlots
        /\ lock = NULL /\ lock' = t
    BY SlabAssumption DEF IInv, TypeOK, ThreadsInv, ThreadInv, MallocSteps, PagesInv,
                          CarvePage, ArenaFull, Pages, Goto, Acquire
  <1>2. /\ 0 # NULL_SLOT /\ 0 \in Indices /\ <<p, 0>> \in Slots
        /\ c # NO_CLASS
    BY <1>1, SlabAssumption DEF NULL_SLOT, Indices, Slots
  <1>3. /\ \A u \in Threads : /\ pc'[u] = IF u = t THEN "pop" ELSE pc[u]
                              /\ \A d \in Classes : partial'[u][d] = IF u = t /\ d = c THEN p
                                                                     ELSE partial[u][d]
                              /\ u # t => partial'[u] = partial[u]
        /\ \A s \in Slots : /\ loc'[s] = IF s[1] = p /\ s[2] < n THEN "free" ELSE loc[s]
                            /\ cell'[s] = IF s[1] = p /\ s[2] < n THEN NewLink(c, s[2]) ELSE cell[s]
    BY <1>1, CacheOfThread DEF IInv, TypeOK, Goto, CarvePage
  <1>4. /\ meta' = [meta EXCEPT ![p] = meta'[p]]
        /\ meta'[p] \in Metas
        /\ meta'[p].owner_id = tc[t]
        /\ meta'[p].size_class = c
        /\ meta'[p].free_list_head = 0
        /\ meta'[p].next_page = NULL
        /\ meta'[p].prev_page = NULL
    BY <1>1, <1>2, ZenonT(40) DEF CarvePage, EmptyMeta, Metas, IInv, TypeOK
  <1>5. \A q \in Pages : q # p => meta'[q] = meta[q]
    BY <1>4 DEF IInv, TypeOK
  <1>6. /\ ~Carved(p) /\ ~Open(p)
        /\ \A s \in Slots : s[1] = p => loc[s] = "raw"
    BY <1>1 DEF Carved, Open, EmptyMeta, IInv, PagesInv, SlotsIn
  <1>7. \A s \in Slots : s[1] = p /\ s[2] < n =>
           /\ cell'[s] = U16(IF s[2] = n - 1 THEN NULL_SLOT ELSE s[2] + 1)
           /\ s[2] \in 0..(n - 1)
    BY <1>1, <1>3, SlotParts DEF NewLink
  <1>8. TypeOK'
    <2>1. \A s \in Slots : cell'[s] \in Links
      <3>1. ASSUME NEW s \in Slots, s[1] = p, s[2] < n
            PROVE  (IF s[2] = n - 1 THEN NULL_SLOT ELSE s[2] + 1) \in Indices
        BY <1>1, <1>7, <3>1, SlabAssumption DEF Indices
      <3>2. TAKE s \in Slots
      <3>3. CASE s[1] = p /\ s[2] < n
        <4>1. \A j \in Indices : U16(j) \in Links
          BY DEF Links, U16
        <4>2. PICK j : j = IF s[2] = n - 1 THEN NULL_SLOT ELSE s[2] + 1
          OBVIOUS
        <4>3. j \in Indices /\ cell'[s] = U16(j)
          BY <1>7, <3>1, <3>3, <4>2
        <4>4. QED
          BY <4>1, <4>3
      <3>4. CASE ~(s[1] = p /\ s[2] < n)
        BY <1>3, <3>4 DEF IInv, TypeOK
      <3>5. QED
        BY <3>3, <3>4
    <2>2. cell' \in [Slots -> Links]
      BY <2>1 DEF CarvePage
    <2>3. next_free_page' \in 1..(NumPages + 1)
      BY <1>1, SlabAssumption DEF Pages
    <2>4. meta' \in [Pages -> Metas]
      BY <1>4 DEF IInv, TypeOK
    <2>5. partial' \in [Caches -> [Classes -> Pages \cup {NULL}]]
      BY <1>1 DEF CarvePage, IInv, TypeOK
    <2>6. loc' \in [Slots -> {"raw", "free", "live", "freeing", "parked"}]
      BY DEF IInv, TypeOK
    <2>7. QED
      BY <1>1, <2>2, <2>3, <2>4, <2>5, <2>6 DEF IInv, TypeOK, PCs, Goto
  <1>9. IdsInv'
    BY IdsFrame DEF IInv
  <1>10. \A s \in Slots : loc[s] # "raw" =>
            /\ s[1] \in Pages /\ s[1] # p /\ cell'[s] = cell[s] /\ loc'[s] = loc[s]
            /\ OwnerOf(s)' = OwnerOf(s) /\ meta'[s[1]] = meta[s[1]]
    BY <1>3, <1>5, <1>6, SlotParts DEF OwnerOf
  <1>11. ThreadsInv'
    <2>1. ThreadInv(t)'
      BY <1>1, <1>3, NullFacts DEF ThreadInv, FreeSteps, MallocSteps
    <2>2. ASSUME NEW u \in Threads, u # t PROVE ThreadInv(u)'
      <3>1. pc'[u] = pc[u] /\ partial'[u] = partial[u]
        BY <1>3, <2>2
      <3>2. pc[u] # "drain"
        BY <1>1, ThreadCacheAssumption DEF IInv, ThreadsInv, ThreadInv
      <3>3. ptr[u] # NULL => ptr[u] \in Slots /\ loc[ptr[u]] # "raw"
        BY PopSlot DEF IInv, TypeOK, ThreadsInv, ThreadInv
      <3>4. ptr[u] # NULL => /\ cell'[ptr[u]] = cell[ptr[u]]
                             /\ loc'[ptr[u]] = loc[ptr[u]]
                             /\ OwnerOf(ptr[u])' = OwnerOf(ptr[u])
                             /\ meta'[ptr[u][1]] = meta[ptr[u][1]]
        BY <1>10, <3>3
      <3>5. pc[u] = "pop_store" => /\ ptr[u] # NULL
                                   /\ ptr[u][1] = partial[u][cls[u]]
                                   /\ meta'[partial[u][cls[u]]] = meta[partial[u][cls[u]]]
        BY <3>4, PopSlot, ThreadCacheAssumption
      <3>6. ThreadInv(u)
        BY DEF IInv, ThreadsInv
      <3>7. QED
        BY <3>1, <3>2, <3>4, <3>5, <3>6 DEF ThreadInv, FreeSteps, MallocSteps
    <2>3. QED
      BY <1>1, <1>3, <2>1, <2>2 DEF IInv, ThreadsInv
  <1>12. PagesInv'
    <2>1. \A q \in Pages : IF q < next_free_page'
                           THEN Carved(q)' /\ \E u \in Threads : meta'[q].owner_id = tc'[u]
                           ELSE meta'[q] = EmptyMeta
      <3>1. TAKE q \in Pages
      <3>2. CASE q = p
        BY <1>1, <1>2, <1>4, <3>2 DEF Carved
      <3>3. CASE q # p
        BY <1>1, <1>5, <3>3 DEF IInv, PagesInv, Carved, Pages
      <3>4. QED
        BY <3>2, <3>3
    <2>2. ASSUME NEW s \in Slots PROVE loc'[s] # "raw" <=> s \in SlotsIn(s[1])'
      <3>1. CASE s[1] = p
        <4>1. SlotsIn(s[1])' = {p} \X (0..(n - 1))
          BY <1>1, <1>2, <1>4, <3>1 DEF SlotsIn, Carved
        <4>2. s = <<p, s[2]>> /\ s[2] \in 0..(MaxSlots - 1)
          BY <3>1, SlotParts
        <4>3. s \in {p} \X (0..(n - 1)) <=> s[2] < n
          BY <1>1, <4>2, SlabAssumption
        <4>4. QED
          BY <1>3, <1>6, <3>1, <4>1, <4>3
      <3>2. CASE s[1] # p
        BY <1>3, <1>5, <3>2, SlotParts DEF IInv, PagesInv, SlotsIn, Carved
      <3>3. QED
        BY <3>1, <3>2
    <2>3. QED
      BY <2>1, <2>2 DEF PagesInv
  <1>13. FreeInv'
    <2>1. \A q, i : FreeSlot(q, i) => FreeSlot(q, i)' /\ q # p
      BY <1>3, <1>6 DEF FreeSlot
    <2>2. \A i \in 0..(n - 1) : FreeSlot(p, i)'
      BY <1>1, <1>3, SlabAssumption DEF FreeSlot, Slots
    <2>3. ASSUME NEW q \in Pages, Open(q)' PROVE FreeSlot(q, meta[q].free_list_head)'
      <3>1. CASE q = p
        BY <1>1, <1>4, <2>2, <3>1
      <3>2. CASE q # p
        BY <1>5, <2>1, <2>3, <3>2 DEF IInv, FreeInv, Open
      <3>3. QED
        BY <3>1, <3>2
    <2>4. ASSUME NEW r \in Slots, loc'[r] = "free"
          PROVE  /\ cell'[r][1] = "u16"
                 /\ cell'[r][2] # NULL_SLOT =>
                        /\ FreeSlot(r[1], cell[r][2])'
                        /\ cell'[r][2] # meta'[r[1]].free_list_head
                 /\ \A q \in Slots : q # r /\ q[1] = r[1] /\ loc'[q] = "free" /\ cell'[q] = cell'[r]
                                      => cell'[r][2] = NULL_SLOT
      <3>1. CASE r[1] = p
        <4>1. PICK i, j : i = r[2] /\ j = IF i = n - 1 THEN NULL_SLOT ELSE i + 1
          OBVIOUS
        <4>2. r = <<p, i>> /\ i \in 0..(n - 1) /\ cell'[r] = <<"u16", j>>
          BY <1>3, <1>6, <1>7, <2>4, <3>1, <4>1, SlotParts DEF U16
        <4>3. j # NULL_SLOT => j \in 1..(n - 1) /\ j = i + 1
          BY <1>1, <4>1, <4>2
        <4>4. ASSUME NEW q \in Slots, q # r, q[1] = p, loc'[q] = "free", cell'[q] = cell'[r]
              PROVE  j = NULL_SLOT
          <5>1. /\ q = <<p, q[2]>> /\ q[2] \in 0..(n - 1)
                /\ cell'[q] = <<"u16", IF q[2] = n - 1 THEN NULL_SLOT ELSE q[2] + 1>>
            BY <1>3, <1>6, <1>7, <4>4, SlotParts DEF U16
          <5>2. q[2] # i
            BY <4>2, <4>4, <5>1
          <5>3. j = IF q[2] = n - 1 THEN NULL_SLOT ELSE q[2] + 1
            BY <4>2, <4>4, <5>1
          <5>4. QED
            BY <1>1, <4>1, <4>2, <4>3, <5>1, <5>2, <5>3
        <4>5. j # NULL_SLOT => FreeSlot(p, j)'
          BY <1>1, <2>2, <4>3
        <4>6. QED
          BY <1>1, <1>4, <3>1, <4>2, <4>3, <4>4, <4>5
      <3>2. CASE r[1] # p
        <4>1. /\ loc[r] = "free" /\ cell'[r] = cell[r] /\ r[1] \in Pages
              /\ meta'[r[1]] = meta[r[1]]
          BY <1>3, <1>5, <2>4, <3>2, SlotParts
        <4>2. /\ cell[r][1] = "u16"
              /\ cell[r][2] # NULL_SLOT => FreeSlot(r[1], cell[r][2])
                                           /\ cell[r][2] # meta[r[1]].free_list_head
          BY <4>1 DEF IInv, FreeInv
        <4>3. cell[r][2] # NULL_SLOT => FreeSlot(r[1], cell[r][2])'
          <5>1. PICK i : i = cell[r][2]
            OBVIOUS
          <5>2. QED
            BY <2>1, <4>1, <4>2, <5>1
        <4>4. ASSUME NEW q \in Slots, q # r, q[1] = r[1], loc'[q] = "free", cell'[q] = cell[r]
              PROVE  cell[r][2] = NULL_SLOT
          BY <1>3, <3>2, <4>1, <4>4 DEF IInv, FreeInv
        <4>5. QED
          BY <4>1, <4>2, <4>3, <4>4
      <3>3. QED
        BY <3>1, <3>2
    <2>5. QED
      BY <2>3, <2>4 DEF FreeInv
  <1>14. ListsInv'
    <2>1. \A q \in Pages : Open(q) => q # p /\ meta'[q] = meta[q]
      BY <1>5, <1>6
    <2>2. ASSUME NEW u \in Threads, NEW d \in Classes, NEW q, q = partial'[u][d], q # NULL
          PROVE  /\ meta'[q].owner_id = tc'[u]
                 /\ meta'[q].size_class = d
                 /\ Open(q)'
                 /\ meta'[q].prev_page = NULL
      <3>1. CASE u = t /\ d = c
        BY <1>1, <1>2, <1>3, <1>4, <2>2, <3>1 DEF Open
      <3>2. CASE ~(u = t /\ d = c)
        <4>1. q = partial[u][d] /\ q \in Pages
          BY <1>3, <2>2, <3>2, CacheOfThread DEF IInv, TypeOK
        <4>2. QED
          BY <2>1, <2>2, <4>1 DEF IInv, ListsInv, Open
      <3>3. QED
        BY <3>1, <3>2
    <2>3. ASSUME NEW q \in Pages, NEW r, r = meta'[q].next_page, r # NULL
          PROVE  Open(q)' /\ Open(r)' /\ Same(q, r)' /\ meta'[r].prev_page = q
      <3>1. r = meta[q].next_page /\ r \in Pages /\ meta'[q] = meta[q]
        BY <1>4, <1>5, <2>3 DEF IInv, TypeOK, Metas
      <3>2. Open(q) /\ Open(r) /\ Same(q, r) /\ meta[r].prev_page = q
        BY <2>3, <3>1 DEF IInv, ListsInv
      <3>3. QED
        BY <2>1, <3>1, <3>2 DEF Open, Same
    <2>4. ASSUME NEW q \in Pages, NEW r, r = meta'[q].prev_page, r # NULL
          PROVE  meta'[r].next_page = q
      <3>1. r = meta[q].prev_page /\ r \in Pages
        BY <1>4, <1>5, <2>4 DEF IInv, TypeOK, Metas
      <3>2. meta[r].next_page = q /\ Open(r)
        BY <2>4, <3>1, NullFacts DEF IInv, ListsInv
      <3>3. QED
        BY <2>1, <3>1, <3>2
    <2>5. QED
      BY <2>2, <2>3, <2>4 DEF ListsInv
  <1>15. StacksInv'
    <2>1. \A r \in Slots : loc'[r] = "parked" <=> loc[r] = "parked"
      BY <1>3, <1>6
    <2>2. QED
      BY <1>1, <1>3, <1>10, <2>1, StacksKept DEF IInv
  <1>16. QED
    BY <1>8, <1>9, <1>11, <1>12, <1>13, <1>14, <1>15 DEF IInv
-----------------------------------------------------------------------------
(* The threads never take the slow path of free: they all have a cache. *)
LEMMA LockedStep ==
  ASSUME IInv, NEW t \in Threads, LockedLoad(t) \/ LockedStore(t)
  PROVE  FALSE
  BY DEF IInv, ThreadsInv, ThreadInv, LockedLoad, LockedStore, Return, Goto, FreeSteps, MallocSteps

(* Every step of every thread preserves the invariant. *)
LEMMA Inductive ==
  ASSUME EnoughCaches, IInv, [Next]_vars
  PROVE  IInv'
  <1>1. CASE UNCHANGED vars
    <2>1. UNCHANGED <<next_free_page, meta, cell, partial, tc, pc, lock, loc>>
          /\ UNCHANGED <<next_id, registry, remote_frees, cls, ptr, reg, stack>>
      BY <1>1 DEF vars, slabVars, threadVars, locals
    <2>2. TypeOK'
      BY <2>1 DEF IInv, TypeOK
    <2>3. ThreadsInv'
      BY <2>1 DEF IInv, ThreadsInv, ThreadInv, OwnerOf
    <2>4. IdsInv' /\ PagesInv' /\ FreeInv' /\ ListsInv' /\ StacksInv'
      BY <2>1, IdsFrame, PagesFrame, FreeFrame, ListsFrame, StacksFrame DEF IInv, threadVars
    <2>5. QED
      BY <2>2, <2>3, <2>4 DEF IInv
  <1>2. ASSUME NEW t \in Threads, Call(t) PROVE IInv'
    BY <1>2, MallocCallStep, FreeCallStep DEF Call
  <1>3. ASSUME NEW t \in Threads, Malloc(t) PROVE IInv'
    BY <1>3, CheckRemoteStep, DetachStackStep, DrainNodeStep, DrainEndStep, NewPageStep,
       OutOfPagesStep, PopLoadStep, PopStoreStep DEF Malloc
  <1>4. ASSUME NEW t \in Threads, Free(t) PROVE IInv'
    BY <1>4, RouteLocalStep, RouteRemoteStep, FreeLoadStep, FreeStoreStep, PushLoadStep,
       PushSucceedsStep, PushFailsStep, LockedStep DEF Free
  <1>5. ASSUME NEW t \in Threads, CreateCache(t) \/ DenyCache(t) PROVE IInv'
    BY <1>5, CreateCacheStep, DenyCacheStep
  <1>6. QED
    BY <1>1, <1>2, <1>3, <1>4, <1>5 DEF Next, Step
-----------------------------------------------------------------------------
(* The lists, the stacks and what every thread knows about them stay well
   formed in all interleavings of the fast paths of ferrum_malloc and
   ferrum_free. *)
THEOREM Invariance == ASSUME EnoughCaches PROVE Spec => []IInv
  <1>1. Init => IInv
    BY Initially
  <1>2. IInv /\ [Next]_vars => IInv'
    BY Inductive
  <1>3. QED
    BY <1>1, <1>2, PTL DEF Spec

(* No free list, page list or Treiber stack ever leads through a link of
   another kind or out of its page: TypeOK of ThreadCacheProps. *)
THEOREM TypeCorrect == ASSUME EnoughCaches PROVE Spec => []TypeOK
  <1>1. IInv => TypeOK
    BY DEF IInv
  <1>2. QED
    BY <1>1, Invariance, PTL

(* get_or_create gives every cache an id of its own, and CACHE_REGISTRY
   leads from it to the cache. *)
THEOREM UniqueIds == ASSUME EnoughCaches PROVE Spec => []CacheIdsUnique
  <1>1. IInv => CacheIdsUnique
    BY DEF IInv, IdsInv, Cached, CacheIdsUnique
  <1>2. QED
    BY <1>1, Invariance, PTL

(* What the ids in use have to do with the counter, whoever is refused a
   cache: they are below it. *)
IdsTaken ==
  /\ DOMAIN tc = Threads /\ DOMAIN registry = CacheIds
  /\ next_id \in Nat
  /\ \A t \in Cached : tc[t] \in CacheIds /\ tc[t] < next_id /\ registry[tc[t]] = t

(* A step that does not wrap the counter keeps it so. *)
LEMMA IdsStep ==
  ASSUME IdsTaken, NEW t \in Threads, Call(t) \/ Step(t), next_id' # 0 \/ next_id' = next_id
  PROVE  IdsTaken'
  <1>1. CASE UNCHANGED threadVars
    BY <1>1 DEF IdsTaken, Cached, threadVars
  <1>2. CASE CreateCache(t)
    <2>1. /\ next_id \in CacheIds /\ next_id' = next_id + 1
          /\ tc' = [tc EXCEPT ![t] = next_id] /\ registry' = [registry EXCEPT ![next_id] = t]
      BY <1>2, ThreadCacheAssumption DEF CreateCache, FetchAdd, IdsTaken, CacheIds
    <2>2. CacheIds \subseteq Nat
      BY DEF CacheIds
    <2>3. DOMAIN tc' = Threads /\ DOMAIN registry' = CacheIds /\ next_id' \in Nat
      BY <2>1 DEF IdsTaken
    <2>4. ASSUME NEW u \in Cached'
          PROVE  tc'[u] \in CacheIds /\ tc'[u] < next_id' /\ registry'[tc'[u]] = u
      <3>1. CASE u = t
        BY <2>1, <2>2, <3>1 DEF IdsTaken
      <3>2. CASE u # t
        <4>1. u \in Cached /\ tc'[u] = tc[u]
          BY <2>1, <2>4, <3>2 DEF Cached, IdsTaken
        <4>2. tc[u] \in CacheIds /\ tc[u] < next_id /\ registry[tc[u]] = u
          BY <4>1 DEF IdsTaken
        <4>3. tc[u] # next_id /\ tc[u] < next_id + 1
          <5>1. \A i, n \in Nat : i < n => i # n /\ i < n + 1
            OBVIOUS
          <5>2. tc[u] \in Nat /\ next_id \in Nat
            BY <2>2, <4>2 DEF IdsTaken
          <5>3. QED
            BY <4>2, <5>1, <5>2
        <4>4. registry'[tc[u]] = u
          BY <2>1, <4>2, <4>3 DEF IdsTaken
        <4>5. QED
          BY <2>1, <4>1, <4>2, <4>3, <4>4
      <3>3. QED
        BY <3>1, <3>2
    <2>5. QED
      BY <2>3, <2>4 DEF IdsTaken
  <1>3. CASE DenyCache(t)
    <2>1. next_id' \in {0, next_id + 1} /\ UNCHANGED <<tc, registry>>
      BY <1>3 DEF DenyCache, FetchAdd
    <2>2. next_id' = next_id + 1 \/ next_id' = next_id
      BY <2>1
    <2>3. \A u \in Cached : tc[u] \in Nat
      BY DEF IdsTaken, CacheIds
    <2>4. QED
      BY <2>1, <2>2, <2>3 DEF IdsTaken, Cached
  <1>4. QED
    BY <1>1, <1>2, <1>3
       DEF Call, Step, Malloc, Free, MallocCall, FreeCall, CheckRemote, DetachStack, DrainNode,
           DrainEnd, NewPage, OutOfPages, PopLoad, PopStore, RouteLocal, RouteRemote, FreeLoad,
           FreeStore, PushLoad, PushSucceeds, PushFails, LockedLoad, LockedStore

(* thread_cache.rs: "Unique ID".  However many threads there are and whoever
   is refused a cache, ids are unique until NEXT_THREAD_ID wraps to 0. *)
THEOREM UniqueUntilWrap == Spec /\ [][next_id' # 0]_next_id => []CacheIdsUnique
  <1>1. Init => IdsTaken
    BY DEF Init, IdsTaken, Cached
  <1>2. IdsTaken /\ [Next]_vars /\ [next_id' # 0]_next_id => IdsTaken'
    <2>1. SUFFICES ASSUME IdsTaken, [Next]_vars, [next_id' # 0]_next_id PROVE IdsTaken'
      OBVIOUS
    <2>2. CASE UNCHANGED vars
      BY <2>1, <2>2 DEF vars, threadVars, IdsTaken, Cached
    <2>3. CASE Next
      BY <2>1, <2>3, IdsStep DEF Next
    <2>4. QED
      BY <2>1, <2>2, <2>3
  <1>3. IdsTaken => CacheIdsUnique
    BY DEF IdsTaken, Cached, CacheIdsUnique
  <1>4. QED
    BY <1>1, <1>2, <1>3, PTL DEF Spec

(* alloc_no_arena and alloc hand out a slot that nobody holds: not the
   application, no thread that is freeing it and no stack. *)
THEOREM NoDoubleAllocation == ASSUME EnoughCaches PROVE Spec => []HandsOutFree
  <1>1. IInv => HandsOutFree
    BY PopSlot DEF HandsOutFree
  <1>2. QED
    BY <1>1, Invariance, PTL

-----------------------------------------------------------------------------
(* The lists of the global slab.  With a cache for every thread nothing is
   ever put there. *)
GlobalListsEmpty == \A c \in Classes : partial[GlobalSlab][c] = NULL

LEMMA GlobalStep ==
  ASSUME EnoughCaches, IInv, GlobalListsEmpty, [Next]_vars
  PROVE  GlobalListsEmpty'
  <1>1. CASE UNCHANGED partial
    BY <1>1 DEF GlobalListsEmpty
  <1>2. ASSUME NEW t \in Threads, NEW c, NEW p, partial' = [partial EXCEPT ![t][c] = p]
        PROVE  GlobalListsEmpty'
    <2>1. t # GlobalSlab /\ GlobalSlab \in Caches
      BY ThreadCacheAssumption
    <2>2. partial'[GlobalSlab] = partial[GlobalSlab]
      BY <1>2, <2>1 DEF IInv, TypeOK
    <2>3. QED
      BY <2>2 DEF GlobalListsEmpty
  <1>3. CASE UNCHANGED vars
    BY <1>1, <1>3 DEF vars, slabVars
  <1>4. ASSUME NEW t \in Threads, Call(t) \/ Step(t) PROVE GlobalListsEmpty'
    <2>1. ~LockedLoad(t) /\ ~LockedStore(t)
      BY LockedStep
    <2>2. CASE DrainNode(t)
      BY <1>1, <1>2, <2>2 DEF DrainNode, ReturnSlot
    <2>3. CASE FreeStore(t)
      BY <1>1, <1>2, <2>3 DEF FreeStore, ReturnSlot
    <2>4. CASE PopStore(t)
      BY <1>1, <1>2, <2>4 DEF PopStore, TakeSlot
    <2>5. CASE NewPage(t)
      BY <1>2, <2>5 DEF NewPage, CarvePage
    <2>6. QED
      BY <1>1, <1>4, <2>1, <2>2, <2>3, <2>4, <2>5
         DEF Call, Step, Malloc, Free, MallocCall, FreeCall, CreateCache, DenyCache, CheckRemote,
             DetachStack, DrainEnd, OutOfPages, PopLoad, RouteLocal, RouteRemote, FreeLoad,
             PushLoad, PushSucceeds, PushFails, slabVars
  <1>5. QED
    BY <1>3, <1>4 DEF Next

(* Which pages a step on the lists of a cache touches. *)
LEMMA ReturnTouches ==
  ASSUME IInv, NEW t \in Threads, NEW s \in Slots, NEW head, OwnerOf(s) = tc[t],
         loc[s] # "raw", ReturnSlot(t, s, head),
         NEW q \in Pages, meta'[q] # meta[q]
  PROVE  meta[q].owner_id = tc[t]
  <1>1. q = s[1] \/ q = partial[t][meta[s[1]].size_class]
    BY DEF ReturnSlot
  <1>2. meta[s[1]].size_class \in Classes
    BY OwnerRegistered
  <1>3. q # NULL
    BY NullFacts
  <1>4. QED
    BY <1>1, <1>2, <1>3 DEF IInv, ListsInv, OwnerOf

(* Taking a slot changes the metadata of pages of one owner only. *)
LEMMA TakeTouches ==
  ASSUME IInv, NEW t \in Threads, pc[t] = "pop_store",
         TakeSlot(t, cls[t], ptr[t], reg[t][2]),
         NEW q \in Pages, meta'[q] # meta[q]
  PROVE  meta[q].owner_id = tc[t]
  <1>1. /\ ptr[t][1] \in Pages
        /\ meta[ptr[t][1]].prev_page = NULL
        /\ meta[ptr[t][1]].owner_id = tc[t]
    BY PopSlot, PopPage, ZenonT(40)
  <1>2. q = ptr[t][1] \/ q = meta[ptr[t][1]].next_page
    BY <1>1, NullFacts DEF TakeSlot
  <1>3. q # NULL
    BY NullFacts
  <1>4. QED
    BY <1>1, <1>2, <1>3 DEF IInv, ListsInv, Same

(* A step that changes the metadata of a carved page is one of its owner's. *)
LEMMA OwnerOnly ==
  ASSUME EnoughCaches, IInv, Next, NEW q \in Pages, Carved(q), meta'[q] # meta[q]
  PROVE  Malloc(Owner(q)) \/ Free(Owner(q))
  <1> USE DEF slabVars
  <1>1. PICK t \in Threads : Call(t) \/ Step(t)
    BY DEF Next
  <1>2. ~Call(t) /\ ~CreateCache(t) /\ ~DenyCache(t)
    BY DEF Call, MallocCall, FreeCall, CreateCache, DenyCache
  <1>3. Malloc(t) \/ Free(t)
    BY <1>1, <1>2 DEF Step
  <1>4. ASSUME tc[t] # NULL, meta[q].owner_id = tc[t] PROVE Owner(q) = t
    BY <1>4 DEF Owner, IInv, IdsInv, Cached
  <1>5. CASE DrainNode(t)
    <2>1. PICK s : s = reg[t][2]
      OBVIOUS
    <2>2. /\ tc[t] # NULL /\ s \in Slots /\ loc[s] = "parked" /\ OwnerOf(s) = tc[t]
          /\ ReturnSlot(t, s, meta[s[1]].free_list_head)
      BY <1>5, <2>1, LinkTypes DEF DrainNode, IInv, ThreadsInv, ThreadInv, StacksInv, DrainInv
    <2>3. QED
      BY <1>3, <1>4, <2>2, ReturnTouches
  <1>6. CASE FreeStore(t)
    <2>1. PICK s : s = ptr[t]
      OBVIOUS
    <2>2. /\ tc[t] # NULL /\ s \in Slots /\ loc[s] = "freeing" /\ OwnerOf(s) = tc[t]
          /\ ReturnSlot(t, s, reg[t][2])
      BY <1>6, <2>1 DEF FreeStore, Return, Goto, IInv, TypeOK, ThreadsInv, ThreadInv, FreeSteps
    <2>3. QED
      BY <1>3, <1>4, <2>2, ReturnTouches
  <1>7. CASE PopStore(t)
    <2>1. pc[t] = "pop_store" /\ tc[t] # NULL /\ TakeSlot(t, cls[t], ptr[t], reg[t][2])
      BY <1>7 DEF PopStore, Return, Goto, IInv, ThreadsInv, ThreadInv
    <2>2. QED
      BY <1>3, <1>4, <2>1, TakeTouches
  <1>8. ~NewPage(t)
    <2>1. SUFFICES ASSUME NewPage(t) PROVE FALSE
      OBVIOUS
    <2>2. q = next_free_page
      BY <2>1 DEF NewPage, CarvePage, IInv, TypeOK
    <2>3. meta[q] = EmptyMeta
      BY <2>2 DEF IInv, PagesInv, TypeOK, Pages
    <2>4. QED
      BY <2>3 DEF Carved, EmptyMeta
  <1>9. ~LockedLoad(t) /\ ~LockedStore(t)
    BY LockedStep
  <1>10. QED
    BY <1>3, <1>5, <1>6, <1>7, <1>8, <1>9
       DEF Malloc, Free, CheckRemote, DetachStack, DrainEnd, OutOfPages, PopLoad, RouteLocal,
           RouteRemote, FreeLoad, PushLoad, PushSucceeds, PushFails

(* thread_cache.rs: "Thread-local slab allocator (NO lock needed!)".  Only
   the owner of a page changes the page's metadata. *)
THEOREM OwnerWritesAlone == ASSUME EnoughCaches PROVE Spec => OwnerExclusive
  <1>1. IInv /\ [Next]_vars =>
          [\A p \in Pages : Carved(p) /\ meta'[p] # meta[p]
                              => Malloc(Owner(p)) \/ Free(Owner(p))]_vars
    BY OwnerOnly
  <1>2. QED
    BY <1>1, Invariance, PTL DEF Spec, OwnerExclusive
====
