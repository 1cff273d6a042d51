------------------------ MODULE ThreadCacheListProofs ------------------------
(***************************************************************************)
(* What a traversal of the small-object path's lists meets, for every      *)
(* number of threads, pages, classes and slots, under EnoughCaches: the    *)
(* free list of a page is its free slots, a Treiber stack and the one its  *)
(* owner drains are the slots given back to that owner, and the partial    *)
(* list of a cache is its pages with a free slot.  With that, the path     *)
(* implements SlotPool.                                                    *)
(*                                                                         *)
(* IInv says that the links form disjoint chains; that the chains leave    *)
(* nothing out is Reached, which is inductive on top of IInv.  Walks says  *)
(* what follows for a traversal.                                           *)
(***************************************************************************)
EXTENDS ThreadCacheProofs, Walks

(* The step that gives slot s back to its page, field by field. *)
LEMMA ReturnEffect ==
  ASSUME IInv, NEW t \in Threads, NEW s \in Slots, loc[s] # "raw",
         NEW head, head = meta[s[1]].free_list_head,
         NEW c, c = meta[s[1]].size_class,
         NEW first, first = partial[t][c],
         ReturnSlot(t, s, head), Move(s, "free")
  PROVE  /\ c \in Classes /\ first \in Pages \cup {NULL}
         /\ \A r \in Slots : /\ loc'[r] = IF r = s THEN "free" ELSE loc[r]
                             /\ cell'[r] = IF r = s THEN <<"u16", head>> ELSE cell[r]
         /\ \A q \in Pages :
               /\ meta'[q].owner_id = meta[q].owner_id
               /\ meta'[q].size_class = meta[q].size_class
               /\ meta'[q].free_list_head = IF q = s[1] THEN s[2] ELSE meta[q].free_list_head
               /\ meta'[q].used_slots = IF q = s[1] THEN meta[q].used_slots - 1 ELSE meta[q].used_slots
               /\ meta'[q].prev_page = IF head = NULL_SLOT /\ q = s[1] THEN NULL
                                       ELSE IF head = NULL_SLOT /\ q = first THEN s[1]
                                       ELSE meta[q].prev_page
         /\ \A u \in Threads, d \in Classes :
               partial'[u][d] = IF head = NULL_SLOT /\ u = t /\ d = c THEN s[1] ELSE partial[u][d]
  <1>1. /\ s[1] \in Pages /\ c \in Classes /\ head \in Indices /\ first \in Pages \cup {NULL}
        /\ t \in Caches
    BY SlotParts, OwnerRegistered, CacheOfThread DEF IInv, TypeOK, Metas
  <1>2. \A r \in Slots : /\ loc'[r] = IF r = s THEN "free" ELSE loc[r]
                         /\ cell'[r] = IF r = s THEN <<"u16", head>> ELSE cell[r]
    BY DEF IInv, TypeOK, Move, ReturnSlot, U16
  <1>3. \A q \in Pages :
               /\ meta'[q].owner_id = meta[q].owner_id
               /\ meta'[q].size_class = meta[q].size_class
               /\ meta'[q].free_list_head = IF q = s[1] THEN s[2] ELSE meta[q].free_list_head
               /\ meta'[q].prev_page = IF head = NULL_SLOT /\ q = s[1] THEN NULL
                                       ELSE IF head = NULL_SLOT /\ q = first THEN s[1]
                                       ELSE meta[q].prev_page
    BY <1>1, ReturnSlotEffect, SMTT(30) DEF IInv
  <1>4. ASSUME NEW q \in Pages
        PROVE  meta'[q].used_slots = IF q = s[1] THEN meta[q].used_slots - 1 ELSE meta[q].used_slots
    <2>1. meta[q] \in Metas
      BY DEF IInv, TypeOK
    <2>2. CASE q = s[1]
      <3>1. meta'[q] = Returned(meta[q], s[2], head, first)
        BY <1>1, <2>2 DEF ReturnSlot
      <3>2. QED
        BY <2>1, <2>2, <3>1 DEF Returned, Metas
    <2>3. CASE q # s[1]
      <3>1. meta'[q] = IF head = NULL_SLOT /\ q = first
                       THEN [meta[q] EXCEPT !.prev_page = s[1]] ELSE meta[q]
        BY <1>1, <2>3 DEF ReturnSlot
      <3>2. QED
        BY <2>1, <2>3, <3>1 DEF Metas
    <2>4. QED
      BY <2>2, <2>3
  <1>5. \A u \in Threads, d \in Classes :
           partial'[u][d] = IF head = NULL_SLOT /\ u = t /\ d = c THEN s[1] ELSE partial[u][d]
    BY <1>1, CacheOfThread DEF IInv, TypeOK, ReturnSlot
  <1>6. QED
    BY <1>1, <1>2, <1>3, <1>4, <1>5

(* The step that takes slot s off its page, field by field. *)
Popped(t, s, c, next, after) ==
    /\ s \in Slots /\ c \in Classes /\ loc[s] = "free"
    /\ s[1] = partial[t][c] /\ s[2] = meta[s[1]].free_list_head /\ meta[s[1]].size_class = c
    /\ cell[s] = <<"u16", next>>
    /\ \A r \in Slots : /\ loc'[r] = IF r = s THEN "live" ELSE loc[r]
                        /\ r # s => cell'[r] = cell[r]
    /\ \A q \in Pages :
          /\ meta'[q].size_class = meta[q].size_class
          /\ meta'[q].free_list_head = IF q = s[1] THEN next ELSE meta[q].free_list_head
          /\ meta'[q].used_slots = IF q = s[1] THEN meta[q].used_slots + 1 ELSE meta[q].used_slots
          /\ meta'[q].prev_page = IF next = NULL_SLOT /\ (q = s[1] \/ q = after)
                                  THEN NULL ELSE meta[q].prev_page
    /\ \A u \in Threads, d \in Classes :
          partial'[u][d] = IF next = NULL_SLOT /\ u = t /\ d = c THEN after ELSE partial[u][d]

(* The step that takes a slot from its page, field by field. *)
LEMMA TakeEffect ==
  ASSUME IInv, NEW t \in Threads, PopStore(t), NEW s, s = ptr[t], NEW c, c = cls[t],
         NEW next, next = reg[t][2], NEW after, after = meta[s[1]].next_page
  PROVE  Popped(t, s, c, next, after)
  <1> pc[t] = "pop_store" /\ TakeSlot(t, c, s, next) /\ Move(s, "live")
    BY DEF PopStore, Return, Goto
  <1>1. /\ s \in Slots /\ loc[s] = "free" /\ s[1] \in Pages
        /\ s[1] = partial[t][c] /\ s[2] = meta[s[1]].free_list_head
        /\ reg[t] = cell[s]
    BY PopSlot, SlotParts
  <1>2. c \in Classes /\ t \in Caches /\ meta[s[1]].prev_page = NULL /\ meta[s[1]].size_class = c
    BY <1>1, PopPage, CacheOfThread, Zenon
  <1>3. cell[s] = <<"u16", next>> /\ next \in Indices
    BY <1>1, LinkTypes DEF IInv, FreeInv
  <1>4. after \in Pages \cup {NULL}
    BY <1>1 DEF IInv, TypeOK, Metas
  <1>5. \A r \in Slots : /\ loc'[r] = IF r = s THEN "live" ELSE loc[r]
                         /\ r # s => cell'[r] = cell[r]
    BY <1>1 DEF IInv, TypeOK, Move, TakeSlot
  <1>6. \A q \in Pages :
               /\ meta'[q].owner_id = meta[q].owner_id
               /\ meta'[q].size_class = meta[q].size_class
               /\ meta'[q].free_list_head = IF q = s[1] THEN next ELSE meta[q].free_list_head
               /\ meta'[q].prev_page = IF next = NULL_SLOT /\ (q = s[1] \/ q = after)
                                       THEN NULL ELSE meta[q].prev_page
    BY <1>1, <1>2, <1>3, TakeSlotEffect, SMTT(30) DEF IInv
  <1>7. ASSUME NEW q \in Pages
        PROVE  meta'[q].used_slots = IF q = s[1] THEN meta[q].used_slots + 1 ELSE meta[q].used_slots
    <2>1. meta[q] \in Metas
      BY DEF IInv, TypeOK
    <2>2. CASE q = s[1]
      <3>1. meta'[q] = Taken(meta[q], next)
        BY <1>1, <2>2 DEF TakeSlot
      <3>2. QED
        BY <2>1, <2>2, <3>1 DEF Taken, Metas
    <2>3. CASE q # s[1]
      <3>1. meta'[q] = IF next = NULL_SLOT /\ q = after
                       THEN [meta[q] EXCEPT !.prev_page = NULL] ELSE meta[q]
        BY <1>1, <1>2, <2>3, NullFacts DEF TakeSlot
      <3>2. QED
        BY <2>1, <2>3, <3>1 DEF Metas
    <2>4. QED
      BY <2>2, <2>3
  <1>8. \A u \in Threads, d \in Classes :
           partial'[u][d] = IF next = NULL_SLOT /\ u = t /\ d = c THEN after ELSE partial[u][d]
    BY <1>1, <1>2, CacheOfThread DEF IInv, TypeOK, TakeSlot
  <1>9. QED
    BY <1>1, <1>2, <1>3, <1>5, <1>6, <1>7, <1>8 DEF Popped

(* The step that carves page p, field by field. *)
LEMMA NewPageEffect ==
  ASSUME IInv, NEW t \in Threads, NewPage(t),
         NEW p, p = next_free_page, NEW c, c = cls[t], NEW n, n = SlotsOf[c]
  PROVE  /\ p \in Pages /\ c \in Classes /\ n \in 1..MaxSlots
         /\ ~Open(p) /\ ~Carved(p) /\ \A s \in Slots : s[1] = p => loc[s] = "raw"
         /\ \A s \in Slots : /\ loc'[s] = IF s[1] = p /\ s[2] < n THEN "free" ELSE loc[s]
                             /\ cell'[s] = IF s[1] = p /\ s[2] < n
                                           THEN <<"u16", IF s[2] = n - 1 THEN NULL_SLOT ELSE s[2] + 1>>
                                           ELSE cell[s]
         /\ meta'[p].size_class = c /\ meta'[p].free_list_head = 0
         /\ meta'[p].used_slots = 0 /\ meta'[p].prev_page = NULL
         /\ \A q \in Pages : q # p => meta'[q] = meta[q]
         /\ \A u \in Threads, d \in Classes :
               partial'[u][d] = IF u = t /\ d = c THEN p ELSE partial[u][d]
  <1> USE DEF NewPage
  <1>1. /\ p \in Pages /\ meta[p] = EmptyMeta /\ c \in Classes /\ t \in Caches
        /\ n \in 1..MaxSlots
    BY SlabAssumption, CacheOfThread
       DEF IInv, TypeOK, ThreadsInv, ThreadInv, MallocSteps, PagesInv, CarvePage, ArenaFull, Pages, Goto
  <1>2. ~Open(p) /\ ~Carved(p) /\ \A s \in Slots : s[1] = p => loc[s] = "raw"
    BY <1>1 DEF Carved, Open, EmptyMeta, IInv, PagesInv, SlotsIn
  <1>3. \A s \in Slots : /\ loc'[s] = IF s[1] = p /\ s[2] < n THEN "free" ELSE loc[s]
                         /\ cell'[s] = IF s[1] = p /\ s[2] < n THEN NewLink(c, s[2]) ELSE cell[s]
    BY <1>1 DEF IInv, TypeOK, CarvePage
  <1>4. \A s \in Slots : s[1] = p /\ s[2] < n =>
           cell'[s] = <<"u16", IF s[2] = n - 1 THEN NULL_SLOT ELSE s[2] + 1>>
    BY <1>3 DEF NewLink, U16
  <1>5. /\ meta'[p].size_class = c /\ meta'[p].free_list_head = 0
        /\ meta'[p].used_slots = 0 /\ meta'[p].prev_page = NULL
        /\ \A q \in Pages : q # p => meta'[q] = meta[q]
    BY <1>1, ZenonT(40) DEF CarvePage, EmptyMeta, IInv, TypeOK
  <1>6. \A u \in Threads, d \in Classes :
           partial'[u][d] = IF u = t /\ d = c THEN p ELSE partial[u][d]
    BY <1>1, CacheOfThread DEF IInv, TypeOK, CarvePage
  <1>7. QED
    BY <1>1, <1>2, <1>3, <1>4, <1>5, <1>6
-----------------------------------------------------------------------------
(* Free lists: nothing that is free is out of reach of its page's head. *)

(* A step that leaves free lists and free slots alone loses none of them. *)
LEMMA FreeReachedFrame ==
  ASSUME FreeReached,
         \A q \in Pages : meta'[q].free_list_head = meta[q].free_list_head,
         \A r \in Slots : /\ loc'[r] = "free" <=> loc[r] = "free"
                          /\ loc[r] = "free" => cell'[r] = cell[r]
  PROVE  FreeReached'
  <1>1. \A p \in Pages : FreeIn(p)' = FreeIn(p)
    BY DEF FreeIn
  <1>2. ASSUME NEW p \in Pages, NEW S \in SUBSET FreeIn(p), S # {}
        PROVE  \E s \in S : \/ s[2] = meta'[p].free_list_head
                            \/ \E r \in FreeIn(p) \ S : cell'[r][2] = s[2]
    BY <1>2 DEF FreeReached, FreeIn
  <1>3. QED
    BY <1>1, <1>2 DEF FreeReached

(* Nor does putting a slot in front of a free list... *)
LEMMA FreeReachedReturn ==
  ASSUME FreeReached, NEW s0 \in Slots,
         \A q \in Pages : meta'[q].free_list_head = IF q = s0[1] THEN s0[2] ELSE meta[q].free_list_head,
         \A r \in Slots : /\ loc'[r] = IF r = s0 THEN "free" ELSE loc[r]
                          /\ cell'[r] = IF r = s0 THEN <<"u16", meta[s0[1]].free_list_head>> ELSE cell[r],
         loc[s0] # "free"
  PROVE  FreeReached'
  <1> SUFFICES ASSUME NEW p \in Pages, NEW S \in SUBSET FreeIn(p)', S # {}
               PROVE  \E s \in S : \/ s[2] = meta'[p].free_list_head
                                   \/ \E r \in FreeIn(p)' \ S : cell'[r][2] = s[2]
    BY DEF FreeReached
  <1>1. /\ FreeIn(p)' = IF p = s0[1] THEN FreeIn(p) \cup {s0} ELSE FreeIn(p)
        /\ s0 \notin FreeIn(p)
    BY DEF FreeIn
  <1>2. CASE p = s0[1] /\ s0 \in S
    BY <1>2
  <1>3. CASE ~(p = s0[1] /\ s0 \in S)
    <2>1. S \in SUBSET FreeIn(p)
      BY <1>1, <1>3
    <2>2. PICK s \in S : \/ s[2] = meta[p].free_list_head
                         \/ \E r \in FreeIn(p) \ S : cell[r][2] = s[2]
      BY <2>1 DEF FreeReached
    <2>3. CASE s[2] = meta[p].free_list_head
      <3>1. CASE p = s0[1]
        <4>1. s0 \in FreeIn(p)' \ S /\ cell'[s0][2] = s[2]
          BY <1>1, <1>3, <2>3, <3>1
        <4>2. QED
          BY <4>1
      <3>2. CASE p # s0[1]
        BY <2>3, <3>2
      <3>3. QED
        BY <3>1, <3>2
    <2>4. CASE \E r \in FreeIn(p) \ S : cell[r][2] = s[2]
      <3>1. PICK r \in FreeIn(p) \ S : cell[r][2] = s[2]
        BY <2>4
      <3>2. r \in FreeIn(p)' \ S /\ cell'[r] = cell[r]
        BY <1>1, <3>1 DEF FreeIn
      <3>3. QED
        BY <3>1, <3>2
    <2>5. QED
      BY <2>2, <2>3, <2>4
  <1>4. QED
    BY <1>2, <1>3

(* ...or taking the first slot of one. *)
LEMMA FreeReachedTake ==
  ASSUME FreeReached, NEW s0 \in Slots, NEW next,
         \A q \in Pages : meta'[q].free_list_head = IF q = s0[1] THEN next ELSE meta[q].free_list_head,
         \A r \in Slots : /\ loc'[r] = IF r = s0 THEN "live" ELSE loc[r]
                          /\ r # s0 => cell'[r] = cell[r],
         loc[s0] = "free", cell[s0] = <<"u16", next>>, s0[2] = meta[s0[1]].free_list_head
  PROVE  FreeReached'
  <1> SUFFICES ASSUME NEW p \in Pages, NEW S \in SUBSET FreeIn(p)', S # {}
               PROVE  \E s \in S : \/ s[2] = meta'[p].free_list_head
                                   \/ \E r \in FreeIn(p)' \ S : cell'[r][2] = s[2]
    BY DEF FreeReached
  <1>1. FreeIn(p)' = FreeIn(p) \ {s0}
    BY DEF FreeIn
  <1>2. S \in SUBSET FreeIn(p)
    BY <1>1
  <1>3. PICK s \in S : \/ s[2] = meta[p].free_list_head
                       \/ \E r \in FreeIn(p) \ S : cell[r][2] = s[2]
    BY <1>2 DEF FreeReached
  <1>4. s \in Slots /\ s[1] = p /\ s # s0
    BY <1>1 DEF FreeIn
  <1>5. CASE s[2] = meta[p].free_list_head
    <2>1. p # s0[1]
      <3>1. SUFFICES ASSUME p = s0[1] PROVE s = s0
        BY <1>4
      <3>2. QED
        BY <1>4, <1>5, <3>1, SlotParts
    <2>2. QED
      BY <1>5, <2>1
  <1>6. CASE \E r \in FreeIn(p) \ S : cell[r][2] = s[2]
    <2>1. PICK r \in FreeIn(p) \ S : cell[r][2] = s[2]
      BY <1>6
    <2>2. CASE r = s0
      <3>1. s0[1] = p
        BY <2>1, <2>2 DEF FreeIn
      <3>2. QED
        BY <2>1, <2>2, <3>1
    <2>3. CASE r # s0
      <3>1. r \in FreeIn(p)' \ S /\ cell'[r] = cell[r]
        BY <1>1, <2>1, <2>3 DEF FreeIn
      <3>2. QED
        BY <2>1, <3>1
    <2>4. QED
      BY <2>2, <2>3
  <1>7. QED
    BY <1>3, <1>5, <1>6

(* The slots of a new page are chained in order, so that the first of any set
   of them is the page's first slot or comes behind one outside the set. *)
LEMMA FreeReachedNewPage ==
  ASSUME FreeReached, NEW p0 \in Pages, NEW n \in 1..MaxSlots,
         \A s \in Slots : s[1] = p0 => loc[s] = "raw",
         \A s \in Slots : /\ loc'[s] = IF s[1] = p0 /\ s[2] < n THEN "free" ELSE loc[s]
                          /\ cell'[s] = IF s[1] = p0 /\ s[2] < n
                                        THEN <<"u16", IF s[2] = n - 1 THEN NULL_SLOT ELSE s[2] + 1>>
                                        ELSE cell[s],
         meta'[p0].free_list_head = 0,
         \A q \in Pages : q # p0 => meta'[q] = meta[q]
  PROVE  FreeReached'
  <1> SUFFICES ASSUME NEW p \in Pages, NEW S \in SUBSET FreeIn(p)', S # {}
               PROVE  \E s \in S : \/ s[2] = meta'[p].free_list_head
                                   \/ \E r \in FreeIn(p)' \ S : cell'[r][2] = s[2]
    BY DEF FreeReached
  <1>1. CASE p # p0
    <2>1. \A r \in Slots : r[1] = p => loc'[r] = loc[r] /\ cell'[r] = cell[r]
      BY <1>1
    <2>2. FreeIn(p)' = FreeIn(p) /\ \A r \in FreeIn(p) : cell'[r] = cell[r]
      BY <2>1 DEF FreeIn
    <2>3. QED
      BY <1>1, <2>2 DEF FreeReached
  <1>2. CASE p = p0
    <2>1. \A r \in Slots : r \in FreeIn(p)' <=> r[1] = p /\ r[2] < n
      BY <1>2 DEF FreeIn
    <2>2. \A r \in FreeIn(p)' : r \in Slots /\ r[2] \in 0..(n - 1) /\ r = <<p, r[2]>>
      BY <2>1, SlotParts DEF FreeIn
    <2> DEFINE I == {r[2] : r \in S}
    <2>3. PICK i \in I : \A j \in I : i <= j
      <3>1. I \subseteq Nat /\ I # {}
        BY <2>2
      <3> HIDE DEF I
      <3>2. QED
        BY <3>1, Least
    <2>4. PICK s \in S : s[2] = i
      OBVIOUS
    <2>5. CASE i = 0
      BY <1>2, <2>4, <2>5
    <2>6. CASE i # 0
      <3>1. i - 1 \in 0..(n - 1) /\ i - 1 \in 0..(MaxSlots - 1) /\ i - 1 # n - 1 /\ i - 1 < n /\ i - 1 + 1 = i
        BY <2>2, <2>4, <2>6, SlabAssumption
      <3>2. PICK r : r = <<p, i - 1>>
        OBVIOUS
      <3>3. r \in Slots /\ r[1] = p /\ r[2] = i - 1
        BY <3>1, <3>2 DEF Slots
      <3>4. r \in FreeIn(p)'
        BY <2>1, <3>1, <3>3
      <3>5. r \notin S
        <4>1. ~(i <= i - 1)
          BY <2>2, <2>4
        <4>2. QED
          BY <2>3, <3>3, <4>1
      <3>6. cell'[r] = <<"u16", i>>
        BY <1>2, <3>1, <3>3, ZenonT(40)
      <3>7. QED
        BY <2>4, <3>4, <3>5, <3>6
    <2>7. QED
      BY <2>5, <2>6
  <1>3. QED
    BY <1>1, <1>2
-----------------------------------------------------------------------------
(* used_slots counts the slots of a page that are not free. *)

(* There are finitely many slots. *)
LEMMA SlotSetsFinite ==
  /\ IsFiniteSet(Slots)
  /\ \A p \in Pages : IsFiniteSet(FreeIn(p))
  <1>1. IsFiniteSet(1..NumPages) /\ IsFiniteSet(0..(MaxSlots - 1))
    BY SlabAssumption, FS_Interval
  <1>2. IsFiniteSet(Slots)
    BY <1>1, FS_Product DEF Slots, Pages
  <1>3. \A p \in Pages : FreeIn(p) \subseteq Slots
    BY DEF FreeIn
  <1>4. QED
    BY <1>2, <1>3, FS_Subset

(* The numbers of slots that Counted compares are numbers. *)
LEMMA SlotCounts ==
  ASSUME TypeOK, NEW p \in Pages
  PROVE  Cardinality(FreeIn(p)) \in Nat /\ Cardinality(SlotsIn(p)) \in Nat
  <1>1. Carved(p) => SlotsOf[meta[p].size_class] \in 2..MaxSlots
    BY SlabAssumption DEF TypeOK, Metas, Carved
  <1>2. SlotsIn(p) \subseteq Slots
    BY <1>1, SlabAssumption DEF SlotsIn, Slots
  <1>3. QED
    BY <1>2, SlotSetsFinite, FS_Subset, FS_CardinalityType

(* used_slots stays right when no slot becomes free or stops being free... *)
LEMMA CountedFrame ==
  ASSUME Counted,
         \A q \in Pages : /\ meta'[q].used_slots = meta[q].used_slots
                          /\ meta'[q].size_class = meta[q].size_class,
         \A r \in Slots : loc'[r] = "free" <=> loc[r] = "free"
  PROVE  Counted'
  <1>1. \A p \in Pages : FreeIn(p)' = FreeIn(p) /\ SlotsIn(p)' = SlotsIn(p) /\ Carved(p)' = Carved(p)
    BY DEF FreeIn, SlotsIn, Carved
  <1>2. QED
    BY <1>1 DEF Counted

(* ...when one is given back... *)
LEMMA CountedReturn ==
  ASSUME TypeOK, Counted, NEW s \in Slots, loc[s] # "free",
         \A q \in Pages :
            /\ meta'[q].used_slots = IF q = s[1] THEN meta[q].used_slots - 1 ELSE meta[q].used_slots
            /\ meta'[q].size_class = meta[q].size_class,
         \A r \in Slots : loc'[r] = IF r = s THEN "free" ELSE loc[r]
  PROVE  Counted'
  <1> SUFFICES ASSUME NEW p \in Pages, Carved(p)'
               PROVE  meta'[p].used_slots = Cardinality(SlotsIn(p)') - Cardinality(FreeIn(p)')
    BY DEF Counted
  <1>1. Carved(p) /\ SlotsIn(p)' = SlotsIn(p)
    BY DEF SlotsIn, Carved
  <1>2. meta[p].used_slots = Cardinality(SlotsIn(p)) - Cardinality(FreeIn(p))
    BY <1>1 DEF Counted
  <1>3. CASE p # s[1]
    <2>1. FreeIn(p)' = FreeIn(p)
      BY <1>3 DEF FreeIn
    <2>2. QED
      BY <1>1, <1>2, <1>3, <2>1
  <1>4. CASE p = s[1]
    <2>1. FreeIn(p)' = FreeIn(p) \cup {s} /\ s \notin FreeIn(p)
      BY <1>4 DEF FreeIn
    <2>2. Cardinality(FreeIn(p)') = Cardinality(FreeIn(p)) + 1
      BY <2>1, SlotSetsFinite, FS_AddElement
    <2>3. Cardinality(FreeIn(p)) \in Nat /\ Cardinality(SlotsIn(p)) \in Nat
      BY SlotCounts
    <2>4. QED
      BY <1>1, <1>2, <1>4, <2>2, <2>3
  <1>5. QED
    BY <1>3, <1>4

(* ...when one is taken... *)
LEMMA CountedTake ==
  ASSUME TypeOK, Counted, NEW s \in Slots, loc[s] = "free",
         \A q \in Pages :
            /\ meta'[q].used_slots = IF q = s[1] THEN meta[q].used_slots + 1 ELSE meta[q].used_slots
            /\ meta'[q].size_class = meta[q].size_class,
         \A r \in Slots : loc'[r] = IF r = s THEN "live" ELSE loc[r]
  PROVE  Counted'
  <1> SUFFICES ASSUME NEW p \in Pages, Carved(p)'
               PROVE  meta'[p].used_slots = Cardinality(SlotsIn(p)') - Cardinality(FreeIn(p)')
    BY DEF Counted
  <1>1. Carved(p) /\ SlotsIn(p)' = SlotsIn(p)
    BY DEF SlotsIn, Carved
  <1>2. meta[p].used_slots = Cardinality(SlotsIn(p)) - Cardinality(FreeIn(p))
    BY <1>1 DEF Counted
  <1>3. CASE p # s[1]
    <2>1. FreeIn(p)' = FreeIn(p)
      BY <1>3 DEF FreeIn
    <2>2. QED
      BY <1>1, <1>2, <1>3, <2>1
  <1>4. CASE p = s[1]
    <2>1. FreeIn(p)' = FreeIn(p) \ {s} /\ s \in FreeIn(p)
      BY <1>4 DEF FreeIn
    <2>2. Cardinality(FreeIn(p)') = Cardinality(FreeIn(p)) - 1
      BY <2>1, SlotSetsFinite, FS_RemoveElement
    <2>3. Cardinality(FreeIn(p)) \in Nat /\ Cardinality(SlotsIn(p)) \in Nat
      BY SlotCounts
    <2>4. QED
      BY <1>1, <1>2, <1>4, <2>2, <2>3
  <1>5. QED
    BY <1>3, <1>4

(* ...and on a new page. *)
LEMMA CountedNewPage ==
  ASSUME Counted, NEW p0 \in Pages, NEW c \in Classes,
         \A s \in Slots : s[1] = p0 => loc[s] = "raw",
         \A s \in Slots : loc'[s] = IF s[1] = p0 /\ s[2] < SlotsOf[c] THEN "free" ELSE loc[s],
         meta'[p0].used_slots = 0, meta'[p0].size_class = c,
         \A q \in Pages : q # p0 => meta'[q] = meta[q]
  PROVE  Counted'
  <1> SUFFICES ASSUME NEW p \in Pages, Carved(p)'
               PROVE  meta'[p].used_slots = Cardinality(SlotsIn(p)') - Cardinality(FreeIn(p)')
    BY DEF Counted
  <1>1. CASE p # p0
    <2>1. \A r \in Slots : r[1] = p => loc'[r] = loc[r]
      BY <1>1
    <2>2. FreeIn(p)' = FreeIn(p)
      BY <2>1 DEF FreeIn
    <2>3. SlotsIn(p)' = SlotsIn(p) /\ Carved(p) /\ meta'[p].used_slots = meta[p].used_slots
      BY <1>1 DEF SlotsIn, Carved
    <2>4. QED
      BY <2>2, <2>3 DEF Counted
  <1>2. CASE p = p0
    <2>1. SlotsOf[c] \in 2..MaxSlots
      BY SlabAssumption
    <2>2. SlotsIn(p)' = {p} \X (0..(SlotsOf[c] - 1))
      BY <1>2 DEF SlotsIn
    <2>3. \A r \in Slots : r \in FreeIn(p)' <=> r[1] = p /\ r[2] < SlotsOf[c]
      BY <1>2 DEF FreeIn
    <2>4. FreeIn(p)' \subseteq Slots
      BY DEF FreeIn
    <2>5. SlotsIn(p)' \subseteq Slots
      BY <2>1, <2>2, SlabAssumption DEF Slots
    <2>6. \A r \in Slots : r \in SlotsIn(p)' <=> r[1] = p /\ r[2] < SlotsOf[c]
      BY <2>1, <2>2, SlabAssumption DEF Slots
    <2>7. FreeIn(p)' = SlotsIn(p)'
      BY <2>3, <2>4, <2>5, <2>6
    <2>8. Cardinality(SlotsIn(p)') \in Nat
      BY <2>5, SlotSetsFinite, FS_Subset, FS_CardinalityType
    <2>9. QED
      BY <1>2, <2>7, <2>8
  <1>3. QED
    BY <1>1, <1>2
-----------------------------------------------------------------------------
(* The list of pages. *)

(* The open pages of a cache can be reached from the cache's list. *)
PagesLinked ==
    /\ \A S \in SUBSET OpenPages : S # {} => \E p \in S : meta[p].prev_page \notin S
    /\ \A p \in OpenPages : meta[p].prev_page = NULL =>
           \E t \in Threads : partial[t][meta[p].size_class] = p

(* malloc asks for a page only when its list is empty. *)
NoneLeft == \A t \in Threads : pc[t] = "new_page" => partial[t][cls[t]] = NULL

(* The two parts of PagesReached: what the lists lead to, and what a thread
   about to carve a page knows. *)
LEMMA PagesParts == PagesReached <=> PagesLinked /\ NoneLeft
  BY DEF PagesReached, PagesLinked, NoneLeft

(* A step that leaves the partial lists alone loses no page of them. *)
LEMMA PagesLinkedFrame ==
  ASSUME PagesLinked,
         \A q \in Pages : /\ meta'[q].size_class = meta[q].size_class
                          /\ meta'[q].prev_page = meta[q].prev_page
                          /\ Open(q)' <=> Open(q),
         \A u \in Threads, d \in Classes : partial'[u][d] = partial[u][d],
         \A q \in Pages : Open(q) => meta[q].size_class \in Classes
  PROVE  PagesLinked'
  <1>1. OpenPages' = OpenPages
    BY DEF OpenPages
  <1>2. ASSUME NEW S \in SUBSET OpenPages, S # {} PROVE \E p \in S : meta'[p].prev_page \notin S
    BY <1>2 DEF PagesLinked, OpenPages
  <1>3. ASSUME NEW p \in OpenPages, meta'[p].prev_page = NULL
        PROVE  \E t \in Threads : partial'[t][meta'[p].size_class] = p
    BY <1>3 DEF PagesLinked, OpenPages
  <1>4. QED
    BY <1>1, <1>2, <1>3 DEF PagesLinked

(* A page that was full is put before the first page of its cache's list. *)
LEMMA PagesLinkedPush ==
  ASSUME PagesLinked, NEW p \in Pages, ~Open(p), NEW t \in Threads, NEW c \in Classes,
         NEW first, first = partial[t][c],
         \A q \in Pages : /\ meta'[q].size_class = meta[q].size_class
                          /\ meta'[q].prev_page = IF q = p THEN NULL ELSE IF q = first THEN p
                                                  ELSE meta[q].prev_page
                          /\ Open(q)' <=> Open(q) \/ q = p,
         meta[p].size_class = c,
         \A u \in Threads, d \in Classes :
             partial'[u][d] = IF u = t /\ d = c THEN p ELSE partial[u][d],
         \A q \in Pages : Open(q) => meta[q].size_class \in Classes
  PROVE  PagesLinked'
  <1>1. OpenPages' = OpenPages \cup {p} /\ p \notin OpenPages
    BY DEF OpenPages
  <1>2. ASSUME NEW S \in SUBSET OpenPages', S # {} PROVE \E q \in S : meta'[q].prev_page \notin S
    <2>1. CASE p \in S
      <3>1. meta'[p].prev_page = NULL /\ \A q \in S : q # NULL
        BY <1>1, NullFacts DEF OpenPages
      <3>2. QED
        BY <2>1, <3>1
    <2>2. CASE p \notin S
      <3>1. S \in SUBSET OpenPages
        BY <1>1, <2>2
      <3>2. PICK q \in S : meta[q].prev_page \notin S
        BY <1>2, <3>1 DEF PagesLinked
      <3>3. q \in Pages /\ q # p
        BY <2>2, <3>1 DEF OpenPages
      <3>4. QED
        BY <2>2, <3>2, <3>3
    <2>3. QED
      BY <2>1, <2>2
  <1>3. ASSUME NEW q \in OpenPages', meta'[q].prev_page = NULL
        PROVE  \E u \in Threads : partial'[u][meta'[q].size_class] = q
    <2>1. CASE q = p
      BY <2>1
    <2>2. CASE q # p
      <3>1. q \in OpenPages /\ q \in Pages
        BY <1>1, <2>2 DEF OpenPages
      <3>2. q # first /\ meta[q].prev_page = NULL
        BY <1>3, <2>2, <3>1, NullFacts
      <3>3. PICK u \in Threads : partial[u][meta[q].size_class] = q
        BY <3>1, <3>2 DEF PagesLinked
      <3>4. meta[q].size_class \in Classes /\ meta'[q].size_class = meta[q].size_class
        BY <3>1 DEF OpenPages
      <3>5. ~(u = t /\ meta[q].size_class = c)
        BY <3>2, <3>3
      <3>6. QED
        BY <3>3, <3>4, <3>5
    <2>3. QED
      BY <2>1, <2>2
  <1>4. QED
    BY <1>2, <1>3 DEF PagesLinked

(* The first page of a list is taken off it. *)
Unlisted(t, c, p, after) ==
    /\ p = partial[t][c] /\ (after # NULL => meta[after].size_class = c)
    /\ \A q \in Pages : /\ meta'[q].size_class = meta[q].size_class
                        /\ meta'[q].prev_page = IF q = p \/ q = after THEN NULL
                                                ELSE meta[q].prev_page
                        /\ Open(q)' <=> Open(q) /\ q # p
    /\ \A u \in Threads, d \in Classes :
          partial'[u][d] = IF u = t /\ d = c THEN after ELSE partial[u][d]

(* Nor does unlinking a page that has become full. *)
LEMMA PagesLinkedPop ==
  ASSUME PagesLinked, NEW p \in Pages, NEW t \in Threads, NEW c \in Classes, NEW after,
         Unlisted(t, c, p, after),
         \A q \in Pages : Open(q) => meta[q].size_class \in Classes
  PROVE  PagesLinked'
  <1> USE DEF Unlisted
  <1>1. OpenPages' = OpenPages \ {p}
    BY DEF OpenPages
  <1>2. ASSUME NEW S \in SUBSET OpenPages', S # {} PROVE \E q \in S : meta'[q].prev_page \notin S
    <2>1. PICK q \in S : meta[q].prev_page \notin S
      BY <1>1, <1>2 DEF PagesLinked
    <2>2. q \in Pages /\ q # p /\ NULL \notin S
      BY <1>1, NullFacts DEF OpenPages
    <2>3. QED
      BY <2>1, <2>2
  <1>3. ASSUME NEW q \in OpenPages', meta'[q].prev_page = NULL
        PROVE  \E u \in Threads : partial'[u][meta'[q].size_class] = q
    <2>1. q \in OpenPages /\ q \in Pages /\ q # p /\ q # NULL
      BY <1>1, NullFacts DEF OpenPages
    <2>2. CASE q = after
      BY <2>1, <2>2
    <2>3. CASE q # after
      <3>1. meta[q].prev_page = NULL
        BY <1>3, <2>1, <2>3
      <3>2. PICK u \in Threads : partial[u][meta[q].size_class] = q
        BY <2>1, <3>1 DEF PagesLinked
      <3>3. meta[q].size_class \in Classes /\ meta'[q].size_class = meta[q].size_class
        BY <2>1 DEF OpenPages
      <3>4. ~(u = t /\ meta[q].size_class = c)
        BY <2>1, <3>2
      <3>5. QED
        BY <3>2, <3>3, <3>4
    <2>4. QED
      BY <2>2, <2>3
  <1>4. QED
    BY <1>2, <1>3 DEF PagesLinked

(* A new page becomes the list that was empty. *)
LEMMA PagesLinkedNew ==
  ASSUME PagesLinked, NEW p \in Pages, ~Open(p), NEW t \in Threads, NEW c \in Classes,
         partial[t][c] = NULL,
         \A q \in Pages : q # p => meta'[q] = meta[q],
         meta'[p].size_class = c, meta'[p].prev_page = NULL, Open(p)',
         \A u \in Threads, d \in Classes :
             partial'[u][d] = IF u = t /\ d = c THEN p ELSE partial[u][d],
         \A q \in Pages : Open(q) => meta[q].size_class \in Classes
  PROVE  PagesLinked'
  <1>1. OpenPages' = OpenPages \cup {p} /\ p \notin OpenPages
    BY DEF OpenPages, Open
  <1>2. ASSUME NEW S \in SUBSET OpenPages', S # {} PROVE \E q \in S : meta'[q].prev_page \notin S
    <2>1. CASE p \in S
      <3>1. \A q \in S : q # NULL
        BY <1>1, NullFacts DEF OpenPages
      <3>2. QED
        BY <2>1, <3>1
    <2>2. CASE p \notin S
      <3>1. S \in SUBSET OpenPages
        BY <1>1, <2>2
      <3>2. PICK q \in S : meta[q].prev_page \notin S
        BY <1>2, <3>1 DEF PagesLinked
      <3>3. q \in Pages /\ q # p
        BY <2>2, <3>1 DEF OpenPages
      <3>4. QED
        BY <3>2, <3>3
    <2>3. QED
      BY <2>1, <2>2
  <1>3. ASSUME NEW q \in OpenPages', meta'[q].prev_page = NULL
        PROVE  \E u \in Threads : partial'[u][meta'[q].size_class] = q
    <2>1. CASE q = p
      BY <2>1
    <2>2. CASE q # p
      <3>1. q \in OpenPages /\ q \in Pages /\ q # NULL
        BY <1>1, <2>2, NullFacts DEF OpenPages
      <3>2. meta'[q] = meta[q]
        BY <2>2, <3>1
      <3>3. PICK u \in Threads : partial[u][meta[q].size_class] = q
        BY <1>3, <3>1, <3>2 DEF PagesLinked
      <3>4. meta[q].size_class \in Classes
        BY <3>1 DEF OpenPages
      <3>5. ~(u = t /\ meta[q].size_class = c)
        BY <3>1, <3>3
      <3>6. QED
        BY <3>2, <3>3, <3>4, <3>5
    <2>3. QED
      BY <2>1, <2>2
  <1>4. QED
    BY <1>2, <1>3 DEF PagesLinked

(* A page with a free slot is carved, and its owner is a thread's cache. *)
LEMMA OpenPage ==
  ASSUME IInv, NEW p \in Pages, Open(p)
  PROVE  /\ meta[p].size_class \in Classes
         /\ \E u \in Threads : meta[p].owner_id = tc[u] /\ tc[u] \in CacheIds /\ Owner(p) = u
  <1>1. PICK s : s = <<p, meta[p].free_list_head>>
    OBVIOUS
  <1>2. s \in Slots /\ loc[s] # "raw" /\ s[1] = p
    BY <1>1 DEF IInv, FreeInv, FreeSlot
  <1>3. QED
    BY <1>2, OwnerRegistered DEF OwnerOf, Owner
-----------------------------------------------------------------------------
(* The Treiber stacks. *)

(* A step that leaves the parked slots and the stacks' first nodes alone loses
   none of them. *)
LEMMA StacksReachedFrame ==
  ASSUME StacksReached, NULL \notin Slots,
         \A r \in Slots : /\ loc'[r] = "parked" <=> loc[r] = "parked"
                          /\ loc[r] = "parked" => cell'[r] = cell[r],
         \A s \in Slots : StackRoot(s) => StackRoot(s)'
  PROVE  StacksReached'
  <1>1. ParkedSlots' = ParkedSlots
    BY DEF ParkedSlots
  <1>2. ASSUME NEW S \in SUBSET ParkedSlots, S # {}
        PROVE  \E s \in S : StackRoot(s)' \/ \E r \in ParkedSlots \ S : cell'[r][2] = s
    <2>1. PICK s \in S : StackRoot(s) \/ \E r \in ParkedSlots \ S : cell[r][2] = s
      BY <1>2 DEF StacksReached
    <2>2. s \in Slots /\ \A r \in ParkedSlots : cell'[r] = cell[r]
      BY DEF ParkedSlots
    <2>3. QED
      BY <2>1, <2>2
  <1>3. QED
    BY <1>1, <1>2 DEF StacksReached

(* A slot is pushed: it is the head, and leads to the old head. *)
LEMMA StacksReachedPush ==
  ASSUME StacksReached, NEW s0 \in Slots, NEW old,
         \A r \in Slots : loc'[r] = IF r = s0 THEN "parked" ELSE loc[r],
         UNCHANGED cell, cell[s0][2] = old,
         \A s \in Slots : StackRoot(s) /\ s # old => StackRoot(s)',
         StackRoot(s0)', loc[s0] # "parked"
  PROVE  StacksReached'
  <1>1. ParkedSlots' = ParkedSlots \cup {s0} /\ s0 \notin ParkedSlots
    BY DEF ParkedSlots
  <1>2. ASSUME NEW S \in SUBSET ParkedSlots', S # {}
        PROVE  \E s \in S : StackRoot(s)' \/ \E r \in ParkedSlots' \ S : cell'[r][2] = s
    <2>1. CASE s0 \in S
      BY <2>1
    <2>2. CASE s0 \notin S
      <3>1. S \in SUBSET ParkedSlots
        BY <1>1, <2>2
      <3>2. PICK s \in S : StackRoot(s) \/ \E r \in ParkedSlots \ S : cell[r][2] = s
        BY <1>2, <3>1 DEF StacksReached
      <3>3. s \in Slots /\ s0 \in ParkedSlots' \ S
        BY <1>1, <2>2, <3>1 DEF ParkedSlots
      <3>4. CASE s = old
        BY <3>3, <3>4
      <3>5. CASE s # old
        BY <1>1, <3>2, <3>3, <3>5
      <3>6. QED
        BY <3>4, <3>5
    <2>3. QED
      BY <2>1, <2>2
  <1>3. QED
    BY <1>2 DEF StacksReached

(* The first node is freed by the thread that drains, which goes on with the
   next. *)
LEMMA StacksReachedPop ==
  ASSUME StacksReached, NEW s0 \in Slots, NEW next,
         \A r \in Slots : /\ loc'[r] = IF r = s0 THEN "free" ELSE loc[r]
                          /\ r # s0 => cell'[r] = cell[r],
         cell[s0][2] = next, next \in Slots => StackRoot(next)',
         \A s \in Slots : StackRoot(s) /\ s # s0 => StackRoot(s)'
  PROVE  StacksReached'
  <1>1. ParkedSlots' = ParkedSlots \ {s0}
    BY DEF ParkedSlots
  <1>2. ASSUME NEW S \in SUBSET ParkedSlots', S # {}
        PROVE  \E s \in S : StackRoot(s)' \/ \E r \in ParkedSlots' \ S : cell'[r][2] = s
    <2>1. S \in SUBSET ParkedSlots
      BY <1>1
    <2>2. PICK s \in S : StackRoot(s) \/ \E r \in ParkedSlots \ S : cell[r][2] = s
      BY <1>2, <2>1 DEF StacksReached
    <2>3. s \in Slots /\ s # s0
      BY <1>1 DEF ParkedSlots
    <2>4. CASE StackRoot(s)
      BY <2>3, <2>4
    <2>5. CASE \E r \in ParkedSlots \ S : cell[r][2] = s
      <3>1. PICK r \in ParkedSlots \ S : cell[r][2] = s
        BY <2>5
      <3>2. CASE r = s0
        BY <2>3, <3>1, <3>2
      <3>3. CASE r # s0
        <4>1. r \in ParkedSlots' \ S /\ cell'[r] = cell[r]
          BY <1>1, <3>1, <3>3 DEF ParkedSlots
        <4>2. QED
          BY <3>1, <4>1
      <3>4. QED
        BY <3>2, <3>3
    <2>6. QED
      BY <2>2, <2>4, <2>5
  <1>3. QED
    BY <1>2 DEF StacksReached
-----------------------------------------------------------------------------
(* Reached is inductive: the steps one by one. *)

(* The steps that move no slot to or from a list. *)
LEMMA ReachedFrame ==
  ASSUME IInv, Reached, UNCHANGED <<meta, partial>>,
         \A r \in Slots : /\ loc'[r] = "free" <=> loc[r] = "free"
                          /\ loc'[r] = "parked" <=> loc[r] = "parked"
                          /\ loc[r] \in {"free", "parked"} => cell'[r] = cell[r],
         UNCHANGED remote_frees,
         \A u \in Threads : pc[u] = "drain" /\ reg[u][2] # NULL => pc'[u] = "drain" /\ reg'[u] = reg[u],
         \A u \in Threads : pc'[u] = "new_page" => partial[u][cls'[u]] = NULL
  PROVE  Reached'
  <1>1. FreeReached'
    BY FreeReachedFrame DEF Reached
  <1>2. Counted'
    BY CountedFrame DEF Reached
  <1>3. StacksReached'
    <2>1. NULL \notin Slots
      BY ThreadCacheAssumption
    <2>2. \A s \in Slots : StackRoot(s) => StackRoot(s)'
      BY <2>1 DEF StackRoot
    <2>3. QED
      BY <2>1, <2>2, StacksReachedFrame DEF Reached
  <1>4. PagesLinked'
    <2>1. \A q \in Pages : Open(q)' <=> Open(q)
      BY DEF Open
    <2>2. QED
      BY <2>1, PagesLinkedFrame, PagesParts, OpenPage DEF Reached
  <1>5. NoneLeft'
    BY DEF NoneLeft
  <1>6. PagesReached'
    BY <1>4, <1>5 DEF PagesReached, PagesLinked, NoneLeft
  <1>7. QED
    BY <1>1, <1>2, <1>3, <1>6 DEF Reached

(* Starting a call and creating a cache lose nothing. *)
LEMMA ReachedCalls ==
  ASSUME IInv, Reached, NEW t \in Threads, Call(t) \/ CreateCache(t)
  PROVE  Reached'
  <1> USE DEF slabVars, threadVars, locals
  <1>1. NoneLeft
    BY PagesParts DEF Reached
  <1>2. ASSUME NEW c \in Classes, MallocCall(t, c) PROVE Reached'
    BY <1>1, <1>2, ReachedFrame DEF MallocCall, Goto, FirstStep, IInv, TypeOK, NoneLeft
  <1>3. ASSUME NEW s \in Slots, FreeCall(t, s) PROVE Reached'
    <2>1. \A r \in Slots : loc'[r] = IF r = s THEN "freeing" ELSE loc[r]
      BY <1>3 DEF FreeCall, Move, IInv, TypeOK
    <2>2. QED
      BY <1>1, <1>3, <2>1, ReachedFrame DEF FreeCall, Goto, FirstStep, IInv, TypeOK, NoneLeft
  <1>4. CASE CreateCache(t)
    BY <1>1, <1>4, ReachedFrame DEF CreateCache, Goto, IInv, TypeOK, NoneLeft
  <1>5. QED
    BY <1>2, <1>3, <1>4 DEF Call

(* Nor do the steps that only load, compare, or move a thread on. *)
LEMMA ReachedQuiet ==
  ASSUME IInv, Reached, NEW t \in Threads,
         \/ CheckRemote(t) \/ DrainEnd(t) \/ OutOfPages(t) \/ PopLoad(t)
         \/ RouteLocal(t) \/ RouteRemote(t) \/ FreeLoad(t) \/ PushLoad(t) \/ PushFails(t)
  PROVE  Reached'
  <1> USE DEF slabVars, threadVars, locals
  <1>1. NoneLeft
    BY PagesParts DEF Reached
  <1>2. \A u \in Threads : u # t => pc'[u] = pc[u] /\ cls'[u] = cls[u] /\ reg'[u] = reg[u]
    BY DEF CheckRemote, DrainEnd, OutOfPages, PopLoad, RouteLocal, RouteRemote, FreeLoad,
           PushLoad, PushFails, LinkTo, Load, Return, Goto, IInv, TypeOK
  <1>3. pc'[t] = "new_page" => partial[t][cls'[t]] = NULL
    BY DEF CheckRemote, DrainEnd, OutOfPages, PopLoad, RouteLocal, RouteRemote, FreeLoad,
           PushLoad, PushFails, Return, Goto, IInv, TypeOK, AfterDrain
  <1>4. pc[t] = "drain" => reg[t][2] = NULL
    BY DEF CheckRemote, DrainEnd, OutOfPages, PopLoad, RouteLocal, RouteRemote, FreeLoad,
           PushLoad, PushFails, Return, Goto
  <1>5. UNCHANGED <<meta, partial, remote_frees, loc>>
    BY DEF CheckRemote, DrainEnd, OutOfPages, PopLoad, RouteLocal, RouteRemote, FreeLoad,
           PushLoad, PushFails
  <1>6. \A r \in Slots : loc[r] \in {"free", "parked"} => cell'[r] = cell[r]
    <2>1. CASE PushLoad(t) \/ PushFails(t)
      <3>1. ptr[t] \in Slots /\ loc[ptr[t]] = "freeing"
        BY <2>1 DEF PushLoad, PushFails, Goto, IInv, TypeOK, ThreadsInv, ThreadInv, FreeSteps
      <3>2. \A r \in Slots : r # ptr[t] => cell'[r] = cell[r]
        BY <2>1 DEF PushLoad, PushFails, LinkTo, IInv, TypeOK
      <3>3. QED
        BY <3>1, <3>2
    <2>2. CASE ~(PushLoad(t) \/ PushFails(t))
      BY <2>2 DEF CheckRemote, DrainEnd, OutOfPages, PopLoad, RouteLocal, RouteRemote, FreeLoad
    <2>3. QED
      BY <2>1, <2>2
  <1>7. QED
    BY <1>1, <1>2, <1>3, <1>4, <1>5, <1>6, ReachedFrame DEF NoneLeft

(* DetachStack: the head moves from the cache to the thread that drains. *)
LEMMA ReachedDetach ==
  ASSUME IInv, Reached, NEW t \in Threads, DetachStack(t)
  PROVE  Reached'
  <1> USE DEF DetachStack, slabVars, threadVars
  <1>1. /\ pc[t] = "swap" /\ pc'[t] = "drain"
        /\ reg'[t][2] = remote_frees[t]
        /\ \A u \in Threads : u # t => /\ pc'[u] = pc[u] /\ reg'[u] = reg[u]
                                       /\ remote_frees'[u] = remote_frees[u]
    BY DEF Goto, Load, Ptr, IInv, TypeOK
  <1>2. FreeReached' /\ Counted'
    BY FreeReachedFrame, CountedFrame DEF Reached
  <1>3. StacksReached'
    <2>1. \A s \in Slots : StackRoot(s) => StackRoot(s)'
      <3>1. ASSUME NEW s \in Slots, NEW u \in Threads,
                   s = remote_frees[u] \/ (pc[u] = "drain" /\ s = reg[u][2])
            PROVE  s = remote_frees'[u] \/ (pc'[u] = "drain" /\ s = reg'[u][2])
        BY <1>1, <3>1
      <3>2. QED
        BY <3>1 DEF StackRoot
    <2>2. QED
      BY <2>1, StacksReachedFrame, ThreadCacheAssumption DEF Reached
  <1>4. PagesReached'
    <2>1. OpenPages' = OpenPages
      BY DEF OpenPages, Open
    <2>2. \A u \in Threads : pc'[u] = "new_page" => pc[u] = "new_page"
      BY <1>1
    <2>3. QED
      BY <2>1, <2>2 DEF PagesReached, Reached
  <1>5. QED
    BY <1>2, <1>3, <1>4 DEF Reached

(* PushSucceeds: the slot is the head, in front of the old one. *)
LEMMA ReachedPush ==
  ASSUME IInv, Reached, NEW t \in Threads, PushSucceeds(t)
  PROVE  Reached'
  <1> USE DEF PushSucceeds, Return, slabVars, threadVars
  <1>1. PICK s, u : s = ptr[t] /\ u = stack[t]
    OBVIOUS
  <1>2. /\ s \in Slots /\ u \in Threads /\ pc[t] = "push_cas"
        /\ loc[s] = "freeing" /\ cell[s] = reg[t]
        /\ cell[s][2] = remote_frees[u]
    BY <1>1 DEF Goto, Ptr, IInv, TypeOK, ThreadsInv, ThreadInv, FreeSteps
  <1>3. /\ \A r \in Slots : loc'[r] = IF r = s THEN "parked" ELSE loc[r]
        /\ \A v \in Threads : /\ remote_frees'[v] = IF v = u THEN s ELSE remote_frees[v]
                              /\ v # t => UNCHANGED <<pc[v], reg[v], cls[v]>>
        /\ pc'[t] = "idle"
    BY <1>1, <1>2 DEF Goto, Move, IInv, TypeOK
  <1>4. FreeReached' /\ Counted'
    <2>1. \A r \in Slots : loc'[r] = "free" <=> loc[r] = "free"
      BY <1>2, <1>3
    <2>2. QED
      BY <2>1, FreeReachedFrame, CountedFrame DEF Reached
  <1>5. StacksReached'
    <2>1. ASSUME NEW r \in Slots, StackRoot(r), r # remote_frees[u] PROVE StackRoot(r)'
      <3>1. PICK v \in Threads : r = remote_frees[v] \/ (pc[v] = "drain" /\ r = reg[v][2])
        BY <2>1 DEF StackRoot
      <3>2. r = remote_frees'[v] \/ (pc'[v] = "drain" /\ r = reg'[v][2])
        BY <1>2, <1>3, <2>1, <3>1
      <3>3. QED
        BY <3>2 DEF StackRoot
    <2>2. StackRoot(s)'
      BY <1>2, <1>3 DEF StackRoot
    <2>3. QED
      BY <1>2, <1>3, <2>1, <2>2, StacksReachedPush DEF Reached
  <1>6. PagesReached'
    <2>1. OpenPages' = OpenPages
      BY DEF OpenPages, Open
    <2>2. \A v \in Threads : pc'[v] = "new_page" => pc[v] = "new_page" /\ cls'[v] = cls[v]
      BY <1>3
    <2>3. QED
      BY <2>1, <2>2 DEF PagesReached, Reached
  <1>7. QED
    BY <1>4, <1>5, <1>6 DEF Reached

(* A slot goes back to its page. *)
LEMMA ReachedReturn ==
  ASSUME IInv, Reached, NEW t \in Threads, NEW s \in Slots, loc[s] \in {"freeing", "parked"},
         ReturnSlot(t, s, meta[s[1]].free_list_head), Move(s, "free")
  PROVE  FreeReached' /\ Counted' /\ PagesLinked'
  <1> PICK p, head, c, first : /\ p = s[1] /\ head = meta[p].free_list_head
                               /\ c = meta[p].size_class /\ first = partial[t][c]
    OBVIOUS
  <1>1. /\ c \in Classes /\ first \in Pages \cup {NULL}
        /\ \A r \in Slots : /\ loc'[r] = IF r = s THEN "free" ELSE loc[r]
                            /\ cell'[r] = IF r = s THEN <<"u16", head>> ELSE cell[r]
        /\ \A q \in Pages :
               /\ meta'[q].size_class = meta[q].size_class
               /\ meta'[q].free_list_head = IF q = p THEN s[2] ELSE meta[q].free_list_head
               /\ meta'[q].used_slots = IF q = p THEN meta[q].used_slots - 1 ELSE meta[q].used_slots
               /\ meta'[q].prev_page = IF head = NULL_SLOT /\ q = p THEN NULL
                                       ELSE IF head = NULL_SLOT /\ q = first THEN p
                                       ELSE meta[q].prev_page
        /\ \A u \in Threads, d \in Classes :
               partial'[u][d] = IF head = NULL_SLOT /\ u = t /\ d = c THEN p ELSE partial[u][d]
    BY ReturnEffect
  <1>2. p \in Pages /\ s[2] # NULL_SLOT
    BY SlotParts, IndexNotNull
  <1>3. FreeReached'
    BY <1>1, FreeReachedReturn DEF Reached
  <1>4. Counted'
    BY <1>1, CountedReturn DEF Reached, IInv
  <1>5. PagesLinked'
    <2>1. \A q \in Pages : Open(q)' <=> Open(q) \/ q = p
      BY <1>1, <1>2 DEF Open
    <2>2. PagesLinked /\ \A q \in Pages : Open(q) => meta[q].size_class \in Classes
      BY OpenPage, PagesParts DEF Reached
    <2>3. CASE head = NULL_SLOT
      <3>1. ~Open(p)
        BY <2>3 DEF Open
      <3>2. \A q \in Pages : /\ meta'[q].size_class = meta[q].size_class
                             /\ meta'[q].prev_page = IF q = p THEN NULL ELSE IF q = first THEN p
                                                     ELSE meta[q].prev_page
        BY <1>1, <2>3
      <3>3. \A u \in Threads, d \in Classes :
                partial'[u][d] = IF u = t /\ d = c THEN p ELSE partial[u][d]
        BY <1>1, <2>3
      <3>4. QED
        BY <1>1, <1>2, <2>1, <2>2, <3>1, <3>2, <3>3, PagesLinkedPush
    <2>4. CASE head # NULL_SLOT
      <3>1. Open(p)
        BY <2>4 DEF Open
      <3>2. \A q \in Pages : /\ meta'[q].size_class = meta[q].size_class
                             /\ meta'[q].prev_page = meta[q].prev_page
                             /\ Open(q)' <=> Open(q)
        BY <1>1, <2>1, <2>4, <3>1
      <3>3. QED
        BY <1>1, <2>2, <2>4, <3>2, PagesLinkedFrame
    <2>5. QED
      BY <2>3, <2>4
  <1>6. QED
    BY <1>3, <1>4, <1>5

(* DrainNode: the first node of the detached stack goes back to its page. *)
LEMMA ReachedDrain ==
  ASSUME IInv, Reached, NEW t \in Threads, DrainNode(t)
  PROVE  Reached'
  <1> USE DEF DrainNode, threadVars
  <1> PICK s : s = reg[t][2]
    OBVIOUS
  <1>1. /\ s \in Slots /\ loc[s] = "parked" /\ pc[t] = "drain"
        /\ s # NULL /\ OwnerOf(s) = tc[t] /\ s # remote_frees[t] /\ tc[t] # NULL
    BY LinkTypes DEF IInv, ThreadsInv, ThreadInv, StacksInv, DrainInv
  <1>2. ReturnSlot(t, s, meta[s[1]].free_list_head) /\ Move(s, "free")
    OBVIOUS
  <1>3. FreeReached' /\ Counted' /\ PagesLinked'
    BY <1>1, <1>2, ReachedReturn
  <1>4. /\ \A r \in Slots : /\ loc'[r] = IF r = s THEN "free" ELSE loc[r]
                            /\ r # s => cell'[r] = cell[r]
        /\ \A u \in Threads, d \in Classes :
               u # t => partial'[u][d] = partial[u][d]
    <2>1. PICK head, c, first : /\ head = meta[s[1]].free_list_head
                                /\ c = meta[s[1]].size_class /\ first = partial[t][c]
      OBVIOUS
    <2>2. loc[s] # "raw" /\ ReturnSlot(t, s, head) /\ Move(s, "free")
      BY <1>1, <1>2, <2>1
    <2> HIDE DEF DrainNode, FreeStore, Return, threadVars
    <2>3. /\ \A r \in Slots : /\ loc'[r] = IF r = s THEN "free" ELSE loc[r]
                              /\ cell'[r] = IF r = s THEN <<"u16", head>> ELSE cell[r]
          /\ \A u \in Threads, d \in Classes :
                partial'[u][d] = IF head = NULL_SLOT /\ u = t /\ d = c THEN s[1] ELSE partial[u][d]
      BY <1>1, <2>1, <2>2, ReturnEffect, SMTT(60)
    <2>4. QED
      BY <2>3
  <1>5. reg'[t] = cell[s] /\ \A u \in Threads : u # t => reg'[u] = reg[u]
    BY DEF Load, IInv, TypeOK
  <1>6. StacksReached'
    <2>1. ASSUME NEW r \in Slots, StackRoot(r), r # s PROVE StackRoot(r)'
      <3>1. PICK u \in Threads : r = remote_frees[u] \/ (pc[u] = "drain" /\ r = reg[u][2])
        BY <2>1 DEF StackRoot
      <3>2. r = remote_frees'[u] \/ (pc'[u] = "drain" /\ r = reg'[u][2])
        BY <1>5, <2>1, <3>1
      <3>3. QED
        BY <3>2 DEF StackRoot
    <2>2. \A r \in Slots : r = cell[s][2] => StackRoot(r)'
      BY <1>1, <1>5 DEF StackRoot
    <2>3. QED
      BY <1>1, <1>4, <2>1, <2>2, StacksReachedPop DEF Reached
  <1>7. PagesReached'
    <2>1. ASSUME NEW u \in Threads, pc'[u] = "new_page" PROVE partial'[u][cls'[u]] = NULL
      <3>1. u # t /\ pc[u] = "new_page" /\ partial[u][cls[u]] = NULL
        BY <1>1, <2>1 DEF Reached, PagesReached
      <3>2. cls[u] \in Classes
        BY <3>1 DEF IInv, TypeOK, ThreadsInv, ThreadInv, MallocSteps
      <3>3. QED
        BY <1>4, <3>1, <3>2
    <2>2. QED
      BY <1>3, <2>1 DEF PagesReached, PagesLinked
  <1>8. QED
    BY <1>3, <1>6, <1>7 DEF Reached

(* FreeStore: the slot goes back to a page of the caller's own. *)
LEMMA ReachedFreeStore ==
  ASSUME IInv, Reached, NEW t \in Threads, FreeStore(t)
  PROVE  Reached'
  <1> USE DEF FreeStore, Return, threadVars
  <1> PICK s : s = ptr[t]
    OBVIOUS
  <1>1. /\ s \in Slots /\ loc[s] = "freeing" /\ pc[t] = "free_store"
        /\ OwnerOf(s) = tc[t] /\ tc[t] # NULL
        /\ reg[t][2] = meta[s[1]].free_list_head
    BY DEF Goto, U16, IInv, TypeOK, ThreadsInv, ThreadInv, FreeSteps
  <1>2. ReturnSlot(t, s, meta[s[1]].free_list_head) /\ Move(s, "free")
    BY <1>1
  <1>3. FreeReached' /\ Counted' /\ PagesLinked'
    BY <1>1, <1>2, ReachedReturn
  <1>4. /\ \A r \in Slots : /\ loc'[r] = IF r = s THEN "free" ELSE loc[r]
                            /\ r # s => cell'[r] = cell[r]
        /\ \A u \in Threads, d \in Classes :
               u # t => partial'[u][d] = partial[u][d]
    <2>1. PICK head, c, first : /\ head = meta[s[1]].free_list_head
                                /\ c = meta[s[1]].size_class /\ first = partial[t][c]
      OBVIOUS
    <2>2. loc[s] # "raw" /\ ReturnSlot(t, s, head) /\ Move(s, "free")
      BY <1>1, <1>2, <2>1
    <2> HIDE DEF DrainNode, FreeStore, Return, threadVars
    <2>3. /\ \A r \in Slots : /\ loc'[r] = IF r = s THEN "free" ELSE loc[r]
                              /\ cell'[r] = IF r = s THEN <<"u16", head>> ELSE cell[r]
          /\ \A u \in Threads, d \in Classes :
                partial'[u][d] = IF head = NULL_SLOT /\ u = t /\ d = c THEN s[1] ELSE partial[u][d]
      BY <1>1, <2>1, <2>2, ReturnEffect, SMTT(60)
    <2>4. QED
      BY <2>3
  <1>5. pc'[t] = "idle" /\ \A u \in Threads : u # t => UNCHANGED <<pc[u], reg[u], cls[u]>>
    BY DEF Goto, IInv, TypeOK
  <1>6. StacksReached'
    <2>1. ASSUME NEW r \in Slots, StackRoot(r) PROVE StackRoot(r)'
      <3>1. PICK u \in Threads : r = remote_frees[u] \/ (pc[u] = "drain" /\ r = reg[u][2])
        BY <2>1 DEF StackRoot
      <3>2. r = remote_frees'[u] \/ (pc'[u] = "drain" /\ r = reg'[u][2])
        BY <1>1, <1>5, <3>1
      <3>3. QED
        BY <3>2 DEF StackRoot
    <2>2. \A r \in Slots : /\ loc'[r] = "parked" <=> loc[r] = "parked"
                           /\ loc[r] = "parked" => cell'[r] = cell[r]
      BY <1>1, <1>4
    <2>3. QED
      BY <2>1, <2>2, StacksReachedFrame, ThreadCacheAssumption DEF Reached
  <1>7. PagesReached'
    <2>1. ASSUME NEW u \in Threads, pc'[u] = "new_page" PROVE partial'[u][cls'[u]] = NULL
      <3>1. u # t /\ pc[u] = "new_page" /\ partial[u][cls[u]] = NULL /\ cls'[u] = cls[u]
        BY <1>5, <2>1 DEF Reached, PagesReached
      <3>2. cls[u] \in Classes
        BY <3>1 DEF IInv, TypeOK, ThreadsInv, ThreadInv, MallocSteps
      <3>3. QED
        BY <1>4, <3>1, <3>2
    <2>2. QED
      BY <1>3, <2>1 DEF PagesReached, PagesLinked
  <1>8. QED
    BY <1>3, <1>6, <1>7 DEF Reached

(* PopStore: the head of the first page's list is handed out. *)
LEMMA ReachedPop ==
  ASSUME IInv, Reached, NEW t \in Threads, PopStore(t)
  PROVE  Reached'
  <1> USE DEF PopStore, Return, threadVars
  <1> PICK s, c, next, after : /\ s = ptr[t] /\ c = cls[t]
                           /\ next = reg[t][2] /\ after = meta[s[1]].next_page
    OBVIOUS
  <1>1. pc[t] = "pop_store" /\ TakeSlot(t, c, s, next) /\ Move(s, "live")
    BY DEF Goto
  <1>2. /\ s \in Slots /\ c \in Classes /\ loc[s] = "free"
        /\ s[1] = partial[t][c] /\ s[2] = meta[s[1]].free_list_head /\ meta[s[1]].size_class = c
        /\ cell[s] = <<"u16", next>>
        /\ \A r \in Slots : /\ loc'[r] = IF r = s THEN "live" ELSE loc[r]
                            /\ r # s => cell'[r] = cell[r]
        /\ \A q \in Pages :
               /\ meta'[q].size_class = meta[q].size_class
               /\ meta'[q].free_list_head = IF q = s[1] THEN next ELSE meta[q].free_list_head
               /\ meta'[q].used_slots = IF q = s[1] THEN meta[q].used_slots + 1 ELSE meta[q].used_slots
               /\ meta'[q].prev_page = IF next = NULL_SLOT /\ (q = s[1] \/ q = after)
                                       THEN NULL ELSE meta[q].prev_page
        /\ \A u \in Threads, d \in Classes :
               partial'[u][d] = IF next = NULL_SLOT /\ u = t /\ d = c THEN after ELSE partial[u][d]
    <2>1. Popped(t, s, c, next, after)
      <3> HIDE DEF PopStore, Return, threadVars
      <3>1. QED
        BY TakeEffect
    <2>2. QED
      BY <2>1 DEF Popped
  <1>3. s[1] \in Pages /\ s[2] # NULL_SLOT /\ Open(s[1]) /\ meta[s[1]].size_class = c
    <2>1. s[1] \in Pages /\ s[2] # NULL_SLOT
      BY <1>2, SlotParts, IndexNotNull
    <2>2. QED
      BY <1>2, <2>1 DEF Open
  <1>4. pc'[t] = "idle" /\ \A u \in Threads : u # t => UNCHANGED <<pc[u], reg[u], cls[u]>>
    BY DEF Goto, IInv, TypeOK
  <1>5. FreeReached'
    BY <1>2, FreeReachedTake DEF Reached
  <1>6. Counted'
    BY <1>2, CountedTake DEF Reached, IInv
  <1>7. StacksReached'
    <2>1. ASSUME NEW r \in Slots, StackRoot(r) PROVE StackRoot(r)'
      <3>1. PICK u \in Threads : r = remote_frees[u] \/ (pc[u] = "drain" /\ r = reg[u][2])
        BY <2>1 DEF StackRoot
      <3>2. r = remote_frees'[u] \/ (pc'[u] = "drain" /\ r = reg'[u][2])
        BY <1>1, <1>4, <3>1
      <3>3. QED
        BY <3>2 DEF StackRoot
    <2>2. \A r \in Slots : /\ loc'[r] = "parked" <=> loc[r] = "parked"
                           /\ loc[r] = "parked" => cell'[r] = cell[r]
      BY <1>2
    <2>3. QED
      BY <2>1, <2>2, StacksReachedFrame, ThreadCacheAssumption DEF Reached
  <1>8. PagesLinked'
    <2>1. PagesLinked /\ \A q \in Pages : Open(q) => meta[q].size_class \in Classes
      BY OpenPage, PagesParts DEF Reached
    <2>2. CASE next = NULL_SLOT
      <3> PICK p : p = s[1]
        OBVIOUS
      <3>1. \A q \in Pages : /\ meta'[q].size_class = meta[q].size_class
                             /\ meta'[q].prev_page = IF q = p \/ q = after THEN NULL
                                                     ELSE meta[q].prev_page
                             /\ Open(q)' <=> Open(q) /\ q # p
        BY <1>2, <2>2 DEF Open
      <3>2. after # NULL => meta[after].size_class = c
        BY <1>3 DEF IInv, ListsInv, Same
      <3>3. \A u \in Threads, d \in Classes :
                partial'[u][d] = IF u = t /\ d = c THEN after ELSE partial[u][d]
        BY <1>2, <2>2
      <3>4. p \in Pages /\ c \in Classes /\ p = partial[t][c]
        BY <1>2, <1>3
      <3>5. Unlisted(t, c, p, after)
        BY <3>1, <3>2, <3>3, <3>4 DEF Unlisted
      <3>6. QED
        BY <2>1, <3>4, <3>5, PagesLinkedPop
    <2>3. CASE next # NULL_SLOT
      <3>1. \A q \in Pages : /\ meta'[q].size_class = meta[q].size_class
                             /\ meta'[q].prev_page = meta[q].prev_page
                             /\ Open(q)' <=> Open(q)
        BY <1>2, <1>3, <2>3 DEF Open
      <3>2. QED
        BY <1>2, <2>1, <2>3, <3>1, PagesLinkedFrame
    <2>4. QED
      BY <2>2, <2>3
  <1>9. PagesReached'
    <2>1. ASSUME NEW u \in Threads, pc'[u] = "new_page" PROVE partial'[u][cls'[u]] = NULL
      <3>1. u # t /\ pc[u] = "new_page" /\ partial[u][cls[u]] = NULL /\ cls'[u] = cls[u]
        BY <1>4, <2>1 DEF Reached, PagesReached
      <3>2. cls[u] \in Classes
        BY <3>1 DEF IInv, TypeOK, ThreadsInv, ThreadInv, MallocSteps
      <3>3. QED
        BY <1>2, <3>1, <3>2
    <2>2. QED
      BY <1>8, <2>1 DEF PagesReached, PagesLinked
  <1>10. QED
    BY <1>5, <1>6, <1>7, <1>9 DEF Reached

(* NewPage: the slots of the page are raw, so that nothing known moves. *)
LEMMA ReachedNewPage ==
  ASSUME IInv, Reached, NEW t \in Threads, NewPage(t)
  PROVE  Reached'
  <1> USE DEF NewPage, threadVars, locals
  <1> PICK p, c, n : p = next_free_page /\ c = cls[t] /\ n = SlotsOf[c]
    OBVIOUS
  <1>1. /\ p \in Pages /\ c \in Classes /\ n \in 1..MaxSlots
        /\ ~Open(p) /\ ~Carved(p) /\ \A s \in Slots : s[1] = p => loc[s] = "raw"
        /\ \A s \in Slots : /\ loc'[s] = IF s[1] = p /\ s[2] < n THEN "free" ELSE loc[s]
                            /\ cell'[s] = IF s[1] = p /\ s[2] < n
                                          THEN <<"u16", IF s[2] = n - 1 THEN NULL_SLOT ELSE s[2] + 1>>
                                          ELSE cell[s]
        /\ meta'[p].size_class = c /\ meta'[p].free_list_head = 0
        /\ meta'[p].used_slots = 0 /\ meta'[p].prev_page = NULL
        /\ \A q \in Pages : q # p => meta'[q] = meta[q]
        /\ \A u \in Threads, d \in Classes :
              partial'[u][d] = IF u = t /\ d = c THEN p ELSE partial[u][d]
    BY NewPageEffect
  <1>2. /\ pc[t] = "new_page" /\ pc'[t] = "pop" /\ partial[t][c] = NULL
        /\ \A u \in Threads : u # t => pc'[u] = pc[u]
    BY DEF Goto, IInv, TypeOK, Reached, PagesReached
  <1>3. FreeReached'
    BY <1>1, FreeReachedNewPage DEF Reached
  <1>4. Counted'
    BY <1>1, CountedNewPage DEF Reached
  <1>5. StacksReached'
    <2>1. \A r \in Slots : /\ loc'[r] = "parked" <=> loc[r] = "parked"
                           /\ loc[r] = "parked" => cell'[r] = cell[r]
      BY <1>1
    <2>2. ASSUME NEW r \in Slots, StackRoot(r) PROVE StackRoot(r)'
      <3>1. PICK u \in Threads : r = remote_frees[u] \/ (pc[u] = "drain" /\ r = reg[u][2])
        BY <2>2 DEF StackRoot
      <3>2. r = remote_frees'[u] \/ (pc'[u] = "drain" /\ r = reg'[u][2])
        BY <1>2, <3>1
      <3>3. QED
        BY <3>2 DEF StackRoot
    <2>3. QED
      BY <2>1, <2>2, StacksReachedFrame, ThreadCacheAssumption DEF Reached
  <1>6. PagesLinked'
    <2>1. PagesLinked /\ \A q \in Pages : Open(q) => meta[q].size_class \in Classes
      BY OpenPage, PagesParts DEF Reached
    <2>2. Open(p)'
      BY <1>1, SlabAssumption DEF Open, NULL_SLOT
    <2>3. QED
      BY <1>1, <1>2, <2>1, <2>2, PagesLinkedNew
  <1>7. PagesReached'
    <2>1. ASSUME NEW u \in Threads, pc'[u] = "new_page" PROVE partial'[u][cls'[u]] = NULL
      <3>1. u # t /\ pc[u] = "new_page" /\ partial[u][cls[u]] = NULL
        BY <1>2, <2>1 DEF Reached, PagesReached
      <3>2. cls[u] \in Classes
        BY <3>1 DEF IInv, TypeOK, ThreadsInv, ThreadInv, MallocSteps
      <3>3. QED
        BY <1>1, <3>1, <3>2
    <2>2. QED
      BY <1>6, <2>1 DEF PagesReached, PagesLinked
  <1>8. QED
    BY <1>3, <1>4, <1>5, <1>7 DEF Reached

(* Nothing is free, parked or open when the program starts. *)
LEMMA ReachedInitially == Init => Reached
  <1> SUFFICES ASSUME Init PROVE Reached
    OBVIOUS
  <1>1. \A p \in Pages : ~Open(p) /\ ~Carved(p)
    BY DEF Init, SlabInit, EmptyMeta, Open, Carved
  <1>2. OpenPages = {} /\ ParkedSlots = {} /\ \A p \in Pages : FreeIn(p) = {}
    BY <1>1 DEF Init, OpenPages, ParkedSlots, FreeIn
  <1>3. QED
    BY <1>1, <1>2 DEF Init, Reached, FreeReached, Counted, StacksReached, PagesReached

(* Every step of every thread preserves it. *)
LEMMA ReachedInductive ==
  ASSUME EnoughCaches, IInv, Reached, [Next]_vars
  PROVE  Reached'
  <1>1. CASE UNCHANGED vars
    <2>1. UNCHANGED <<meta, cell, partial, pc, cls, reg, remote_frees, loc>>
      BY <1>1 DEF vars, slabVars, locals
    <2>2. QED
      BY <2>1, ReachedFrame DEF Reached, PagesReached
  <1>2. ASSUME NEW t \in Threads, Call(t) PROVE Reached'
    BY <1>2, ReachedCalls
  <1>3. ASSUME NEW t \in Threads, Malloc(t) PROVE Reached'
    BY <1>3, ReachedQuiet, ReachedDetach, ReachedDrain, ReachedNewPage, ReachedPop DEF Malloc
  <1>4. ASSUME NEW t \in Threads, Free(t) PROVE Reached'
    BY <1>4, ReachedQuiet, ReachedFreeStore, ReachedPush, LockedStep DEF Free
  <1>5. ASSUME NEW t \in Threads, CreateCache(t) \/ DenyCache(t) PROVE Reached'
    BY <1>5, ReachedCalls, DenyCacheStep
  <1>6. QED
    BY <1>1, <1>2, <1>3, <1>4, <1>5 DEF Next, Step

(* No free slot, no slot on a stack and no page with a free slot is ever out
   of the reach of the list it belongs to. *)
THEOREM Reachability == ASSUME EnoughCaches PROVE Spec => []Reached
  <1>1. Init => Reached
    BY ReachedInitially
  <1>2. IInv /\ Reached /\ [Next]_vars => Reached'
    BY ReachedInductive
  <1>3. QED
    BY <1>1, <1>2, Invariance, PTL DEF Spec
-----------------------------------------------------------------------------
(* FreeWalk is the walk along the free list: from the head of the page, along
   the indices in the cells of its free slots. *)
FreeIndices(p) == {i \in 0..(MaxSlots - 1) : FreeSlot(p, i)}
FreeLinks(p)   == [i \in FreeIndices(p) |-> cell[<<p, i>>][2]]
FreeStep(p, i) ==
  IF i \notin 0..(MaxSlots - 1) THEN NULL_SLOT
  ELSE LET link == cell[<<p, i>>] IN IF link[1] = "u16" THEN link[2] ELSE NULL_SLOT
IsFreeWalk(p, w) ==
  w = [n \in 0..MaxSlots |-> IF n = 0 THEN meta[p].free_list_head ELSE FreeStep(p, w[n-1])]

(* The free slots of a page are an unshared list that starts at its head. *)
LEMMA FreeLinked ==
  ASSUME IInv, NEW p \in Pages
  PROVE  /\ LinksWithin(FreeIndices(p), NULL_SLOT, FreeLinks(p))
         /\ meta[p].free_list_head \in FreeIndices(p) \cup {NULL_SLOT}
         /\ Unshared(FreeIndices(p), NULL_SLOT, FreeLinks(p))
         /\ Unlinked(FreeIndices(p), NULL_SLOT, FreeLinks(p), meta[p].free_list_head)
         /\ \A i \in FreeIndices(p) : FreeStep(p, i) = FreeLinks(p)[i]
         /\ FreeStep(p, NULL_SLOT) = NULL_SLOT
<1> DEFINE T == FreeIndices(p)
           g == FreeLinks(p)
<1>1. \A i \in T : /\ i \in 0..(MaxSlots - 1) /\ i # NULL_SLOT /\ <<p, i>> \in Slots
                   /\ loc[<<p, i>>] = "free" /\ g[i] = cell[<<p, i>>][2]
  BY IndexNotNull DEF FreeIndices, FreeLinks, FreeSlot
<1>2. \A i \in Int : FreeSlot(p, i) => i \in T
  BY DEF FreeIndices, FreeSlot, Slots
<1>3. ASSUME NEW i \in T
      PROVE  /\ g[i] \in T \cup {NULL_SLOT}
             /\ g[i] # NULL_SLOT => g[i] # meta[p].free_list_head
             /\ FreeStep(p, i) = g[i] /\ cell[<<p, i>>] = <<"u16", g[i]>>
  <2>1. /\ cell[<<p, i>>][1] = "u16" /\ cell[<<p, i>>] \in Links
        /\ cell[<<p, i>>][2] # NULL_SLOT => FreeSlot(p, cell[<<p, i>>][2])
                                            /\ cell[<<p, i>>][2] # meta[p].free_list_head
    BY <1>1 DEF IInv, FreeInv, TypeOK
  <2>2. cell[<<p, i>>] = <<"u16", g[i]>> /\ g[i] \in Indices
    BY <1>1, <2>1 DEF Links
  <2>3. g[i] \in T \cup {NULL_SLOT}
    BY <1>2, <2>1, <2>2 DEF Indices
  <2> QED BY <1>1, <2>1, <2>2, <2>3 DEF FreeStep
<1>4. LinksWithin(T, NULL_SLOT, g)
  BY <1>1, <1>3 DEF LinksWithin
<1>5. meta[p].free_list_head \in T \cup {NULL_SLOT}
  BY <1>2 DEF IInv, FreeInv, Open, TypeOK, Metas, Indices
<1>6. Unshared(T, NULL_SLOT, g)
  <2>1. ASSUME NEW i \in T, NEW j \in T, g[i] = g[j], g[i] # NULL_SLOT, i # j PROVE FALSE
    <3>1. cell[<<p, i>>] = cell[<<p, j>>] /\ cell[<<p, i>>][2] # NULL_SLOT
      BY <1>3, <2>1
    <3>2. <<p, i>> \in Slots /\ <<p, j>> \in Slots /\ <<p, j>> # <<p, i>>
          /\ loc[<<p, i>>] = "free" /\ loc[<<p, j>>] = "free"
      BY <1>1, <2>1
    <3> QED BY <3>1, <3>2 DEF IInv, FreeInv
  <2> QED BY <2>1 DEF Unshared
<1>7. Unlinked(T, NULL_SLOT, g, meta[p].free_list_head)
  <2> SUFFICES ASSUME meta[p].free_list_head # NULL_SLOT, NEW i \in T
               PROVE  g[i] # meta[p].free_list_head
    BY DEF Unlinked
  <2> QED BY <1>3
<1>8. FreeStep(p, NULL_SLOT) = NULL_SLOT
  BY IndexNotNull DEF FreeStep
<1> QED BY <1>3, <1>4, <1>5, <1>6, <1>7, <1>8

(* A walk along a page's free list, and FreeWalk, meet its free slots. *)
LEMMA FreeWalkWalks ==
  ASSUME IInv, FreeReached, NEW p \in Pages
  PROVE  /\ FreeWalk(p)[MaxSlots] = NULL_SLOT
         /\ Met(FreeWalk(p), MaxSlots, NULL_SLOT) = FreeIndices(p)
<1> DEFINE T == FreeIndices(p)
           g == FreeLinks(p)
           top == meta[p].free_list_head
<1>1. /\ LinksWithin(T, NULL_SLOT, g) /\ top \in T \cup {NULL_SLOT}
      /\ Unshared(T, NULL_SLOT, g) /\ Unlinked(T, NULL_SLOT, g, top)
      /\ \A i \in T : FreeStep(p, i) = g[i]
      /\ FreeStep(p, NULL_SLOT) = NULL_SLOT
      /\ MaxSlots \in Nat
  BY FreeLinked, SlabAssumption
<1>2. \E w : IsFreeWalk(p, w)
  <2>1. PICK v \in [0..MaxSlots -> T \cup {NULL_SLOT}] : IsWalk(v, MaxSlots, NULL_SLOT, g, top)
    <3> HIDE DEF T, g, top
    <3> QED BY <1>1, WalkExists
  <2>2. ASSUME NEW n \in 0..MaxSlots
        PROVE  v[n] = IF n = 0 THEN top ELSE FreeStep(p, v[n-1])
    <3>1. CASE n = 0
      BY <2>1, <3>1 DEF IsWalk
    <3>2. CASE n # 0
      <4>1. n - 1 \in 0..(MaxSlots - 1) /\ n - 1 \in 0..MaxSlots /\ n - 1 + 1 = n
        BY <3>2, <1>1
      <4>2. v[n-1] \in T \cup {NULL_SLOT} /\ v[n] = IF v[n-1] = NULL_SLOT THEN NULL_SLOT ELSE g[v[n-1]]
        <5> HIDE DEF T, g, top
        <5> QED BY <2>1, <4>1 DEF IsWalk
      <4> HIDE DEF T, g, top
      <4> QED BY <1>1, <3>2, <4>2
    <3> QED BY <3>1, <3>2
  <2>3. v = [n \in 0..MaxSlots |-> v[n]]
    BY <2>1
  <2> QED BY <2>2, <2>3 DEF IsFreeWalk
<1>3. IsFreeWalk(p, FreeWalk(p))
  BY <1>2, Zenon DEF FreeWalk, IsFreeWalk, FreeStep
<1> DEFINE w == FreeWalk(p)
<1>4. w[0] = top /\ \A n \in 0..(MaxSlots - 1) : w[n+1] = FreeStep(p, w[n])
  <2>1. \A n \in 0..MaxSlots : w[n] = IF n = 0 THEN top ELSE FreeStep(p, w[n-1])
    <3> HIDE DEF w
    <3> QED BY <1>3 DEF IsFreeWalk, w
  <2>2. ASSUME NEW n \in 0..(MaxSlots - 1) PROVE w[n+1] = FreeStep(p, w[n])
    <3>1. n + 1 \in 0..MaxSlots /\ n + 1 # 0 /\ n + 1 - 1 = n
      BY <1>1
    <3> HIDE DEF w
    <3> QED BY <2>1, <3>1
  <2>3. 0 \in 0..MaxSlots
    BY <1>1
  <2> HIDE DEF w
  <2> QED BY <2>1, <2>2, <2>3
<1>5. \A n \in 0..(MaxSlots - 1) :
        w[n] \in T \cup {NULL_SLOT} => w[n+1] = IF w[n] = NULL_SLOT THEN NULL_SLOT ELSE g[w[n]]
  <2> HIDE DEF w, T, g, top
  <2> QED BY <1>1, <1>4
<1>6. /\ IsWalk(w, MaxSlots, NULL_SLOT, g, top)
      /\ \A n \in 0..MaxSlots : w[n] \in T \cup {NULL_SLOT}
  <2> HIDE DEF w, T, g, top
  <2> QED BY <1>1, <1>4, <1>5, WalkStays
<1>7. IsFiniteSet(T) /\ Cardinality(T) <= MaxSlots
  <2>1. IsFiniteSet(0..(MaxSlots - 1)) /\ Cardinality(0..(MaxSlots - 1)) = MaxSlots
    BY <1>1, FS_Interval, SlabAssumption
  <2>2. T \subseteq 0..(MaxSlots - 1)
    BY DEF FreeIndices
  <2> HIDE DEF T
  <2> QED BY <2>1, <2>2, FS_Subset
<1>8. w[MaxSlots] = NULL_SLOT
  <2> HIDE DEF w, T, g, top
  <2> QED BY <1>1, <1>6, <1>7, WalkEnds
<1>9. ASSUME NEW S \in SUBSET T, S # {}
      PROVE  \E s \in S : s = top \/ \E r \in T \ S : g[r] = s
  <2> DEFINE Q == {<<p, i>> : i \in S}
  <2>1. Q \in SUBSET FreeIn(p) /\ Q # {}
    <3>1. \A i \in S : <<p, i>> \in Slots /\ loc[<<p, i>>] = "free"
      BY DEF FreeIndices, FreeSlot
    <3>2. Q # {}
      BY <1>9
    <3> QED BY <3>1, <3>2 DEF FreeIn
  <2>2. PICK s \in Q : s[2] = top \/ \E r \in FreeIn(p) \ Q : cell[r][2] = s[2]
    <3> HIDE DEF Q
    <3> QED BY <2>1 DEF FreeReached
  <2>3. s[2] \in S
    OBVIOUS
  <2>4. CASE s[2] = top
    BY <2>3, <2>4
  <2>5. ASSUME NEW r \in FreeIn(p) \ Q, cell[r][2] = s[2] PROVE r[2] \in T \ S /\ g[r[2]] = s[2]
    <3>1. r = <<p, r[2]>> /\ r[2] \in 0..(MaxSlots - 1) /\ r \in Slots /\ loc[r] = "free"
      BY DEF FreeIn, Slots
    <3>2. r[2] \in T
      BY <3>1 DEF FreeIndices, FreeSlot
    <3>3. r[2] \notin S
      BY <3>1
    <3> QED BY <2>5, <3>1, <3>2, <3>3 DEF FreeLinks
  <2> QED BY <2>2, <2>3, <2>4, <2>5
<1>10. Met(w, MaxSlots, NULL_SLOT) \cup Met(w, MaxSlots, NULL_SLOT) = T
  <2> HIDE DEF w, T, g, top
  <2>1. AllInReach(T, g, top, top)
    BY <1>9 DEF AllInReach
  <2> QED BY <1>1, <1>6, <1>8, <2>1, AllMet
<1> QED BY <1>8, <1>10

(* A traversal of a page's free list finds the page's free slots. *)
LEMMA FreeListedExact ==
  ASSUME IInv, FreeReached, NEW p \in Pages
  PROVE  FreeListed(p) = FreeIn(p)
<1> DEFINE w == FreeWalk(p)
           B == {m \in 0..(MaxSlots - 1) : w[m] # NULL_SLOT}
<1>1. /\ w[MaxSlots] = NULL_SLOT
      /\ Met(w, MaxSlots, NULL_SLOT) = FreeIndices(p)
  BY FreeWalkWalks
<1>2. FreeListed(p) = {<<p, w[n]>> : n \in B}
  BY DEF FreeListed
<1> HIDE DEF w
<1>3. ASSUME NEW n \in B PROVE <<p, w[n]>> \in FreeIn(p)
  <2>1. n \in 0..MaxSlots
    BY SlabAssumption
  <2>2. w[n] \in FreeIndices(p)
    BY <1>1, <2>1 DEF Met
  <2> QED BY <2>2 DEF FreeIndices, FreeSlot, FreeIn
<1>4. ASSUME NEW s \in FreeIn(p) PROVE \E n \in B : s = <<p, w[n]>>
  <2>1. s = <<p, s[2]>> /\ s[2] \in 0..(MaxSlots - 1) /\ s \in Slots /\ loc[s] = "free"
    BY DEF FreeIn, Slots
  <2>2. s[2] \in FreeIndices(p)
    BY <2>1 DEF FreeIndices, FreeSlot
  <2>3. PICK n \in 0..MaxSlots : s[2] = w[n] /\ w[n] # NULL_SLOT
    BY <1>1, <2>2 DEF Met
  <2>4. n \in B
    BY <1>1, <2>3, SlabAssumption
  <2> QED BY <2>1, <2>3, <2>4
<1> HIDE DEF B
<1> QED BY <1>2, <1>3, <1>4

(* Every free list holds each free slot of its page once, ends, and
   used_slots counts the rest: FreeListsExact of ThreadCacheProps. *)
THEOREM FreeLists == ASSUME EnoughCaches PROVE Spec => []FreeListsExact
<1>1. IInv /\ Reached => FreeListsExact
  <2> SUFFICES ASSUME IInv, Reached, NEW p \in Pages, Carved(p)
               PROVE  /\ FreeListed(p) = {s \in SlotsIn(p) : loc[s] = "free"}
                      /\ FreeWalk(p)[MaxSlots] = NULL_SLOT
                      /\ meta[p].used_slots = Cardinality(SlotsIn(p)) - Cardinality(FreeListed(p))
    BY DEF FreeListsExact
  <2>1. FreeListed(p) = FreeIn(p) /\ FreeWalk(p)[MaxSlots] = NULL_SLOT
    BY FreeListedExact, FreeWalkWalks DEF Reached
  <2>2. FreeIn(p) = {s \in SlotsIn(p) : loc[s] = "free"}
    <3>1. \A s \in SlotsIn(p) : s \in Slots /\ s[1] = p
      <4>1. SlotsOf[meta[p].size_class] \in 2..MaxSlots
        BY SlabAssumption DEF Carved, IInv, TypeOK, Metas
      <4> QED BY <4>1, SlabAssumption DEF SlotsIn, Slots
    <3>2. \A s \in Slots : loc[s] = "free" => s \in SlotsIn(s[1])
      BY DEF IInv, PagesInv
    <3> QED BY <3>1, <3>2 DEF FreeIn
  <2> QED BY <2>1, <2>2 DEF Reached, Counted
<1> QED BY <1>1, Invariance, Reachability, PTL
-----------------------------------------------------------------------------
(* StackWalk is the walk along a Treiber stack: along the pointers in the
   cells of the slots parked for a cache. *)
NodeLinks(u) == [s \in Parked(u) |-> cell[s][2]]
NodeStep(x)  == IF x \in Slots THEN cell[x][2] ELSE NULL
StackBound == NumPages * MaxSlots
IsStackWalk(top, w) ==
  w = [n \in 0..StackBound |-> IF n = 0 THEN top ELSE NodeStep(w[n-1])]

(* Where the walks along u's stack, and along the one it drains, start. *)
DrainTop(u) == IF pc[u] = "drain" THEN reg[u][2] ELSE NULL

(* The owner of a page is the cache its owner_id is the id of. *)
LEMMA ParkedOwner ==
  ASSUME IInv, NEW s \in Slots, loc[s] # "raw", NEW u \in Threads
  PROVE  Owner(s[1]) = u <=> OwnerOf(s) = tc[u]
<1>1. s[1] \in Pages /\ Carved(s[1]) /\ meta[s[1]].owner_id \in CacheIds \cup {NO_OWNER}
  BY SlotParts DEF IInv, PagesInv, SlotsIn, TypeOK, Metas
<1>2. PICK x \in Threads : meta[s[1]].owner_id = tc[x]
  BY <1>1 DEF IInv, PagesInv, Carved, EmptyMeta
<1>3. tc[x] # NULL
  BY <1>1, <1>2, SlabAssumption, ThreadCacheAssumption DEF CacheIds, NO_OWNER
<1>4. tc[u] # NULL => registry[tc[u]] = u
  BY <1>3 DEF IInv, IdsInv, Cached
<1>5. registry[tc[x]] = x
  BY <1>3 DEF IInv, IdsInv, Cached
<1> QED BY <1>2, <1>3, <1>4, <1>5 DEF Owner, OwnerOf

(* The slots parked for u are an unshared list, with one or two first nodes. *)
LEMMA NodesLinked ==
  ASSUME IInv, NEW u \in Threads
  PROVE  /\ Parked(u) \subseteq Slots /\ \A s \in Parked(u) : loc[s] = "parked" /\ NodeLinks(u)[s] = cell[s][2]
         /\ LinksWithin(Parked(u), NULL, NodeLinks(u))
         /\ Unshared(Parked(u), NULL, NodeLinks(u))
         /\ \A top \in {remote_frees[u], DrainTop(u)} :
                top \in Parked(u) \cup {NULL} /\ Unlinked(Parked(u), NULL, NodeLinks(u), top)
         /\ remote_frees[u] # DrainTop(u) \/ remote_frees[u] = NULL
<1>1. \A s \in Slots : s \in Parked(u) <=> loc[s] = "parked" /\ OwnerOf(s) = tc[u]
  BY ParkedOwner DEF Parked
<1>2. Parked(u) \subseteq Slots /\ NULL \notin Slots
  BY ThreadCacheAssumption DEF Parked
<1>3. ASSUME NEW s \in Parked(u)
      PROVE  /\ s \in Slots /\ loc[s] = "parked" /\ NodeInv(s)
             /\ cell[s][2] \in Slots \cup {NULL}
             /\ cell[s] = <<"ptr", cell[s][2]>>
             /\ NodeLinks(u)[s] = cell[s][2]
  <2>1. s \in Slots /\ loc[s] = "parked" /\ NodeInv(s)
    BY <1>1, <1>2 DEF IInv, StacksInv
  <2>2. cell[s] \in Links /\ cell[s][1] = "ptr"
    BY <2>1 DEF IInv, TypeOK, NodeInv
  <2> QED BY <2>1, <2>2 DEF Links, NodeLinks
<1>4. \A s \in Parked(u) : cell[s][2] \in Parked(u) \cup {NULL}
  <2> SUFFICES ASSUME NEW s \in Parked(u), cell[s][2] # NULL PROVE cell[s][2] \in Parked(u)
    OBVIOUS
  <2>1. loc[cell[s][2]] = "parked" /\ OwnerOf(cell[s][2]) = OwnerOf(s) /\ cell[s][2] \in Slots
    BY <1>3 DEF NodeInv
  <2> QED BY <1>1, <1>3, <2>1
<1>5. LinksWithin(Parked(u), NULL, NodeLinks(u))
  BY <1>2, <1>3, <1>4 DEF LinksWithin
<1>6. Unshared(Parked(u), NULL, NodeLinks(u))
  BY <1>3 DEF Unshared, NodeInv
<1>7. pc[u] = "drain" => DrainInv(u)
  BY DEF IInv, StacksInv
<1>8. TopInv(u)
  BY DEF IInv, StacksInv
<1>9. pc[u] = "drain" => reg[u] = <<"ptr", reg[u][2]>> /\ reg[u][2] \in Slots \cup {NULL}
  BY <1>7 DEF IInv, TypeOK, DrainInv, Links
<1>10. remote_frees[u] \in Slots \cup {NULL}
  BY DEF IInv, TypeOK
<1>11. remote_frees[u] \in Parked(u) \cup {NULL} /\ DrainTop(u) \in Parked(u) \cup {NULL}
  BY <1>1, <1>7, <1>8, <1>9, <1>10 DEF TopInv, DrainInv, DrainTop
<1>12. ASSUME NEW s \in Parked(u), cell[s][2] # NULL
       PROVE  cell[s][2] # remote_frees[u] /\ cell[s][2] # DrainTop(u)
  <2>1. cell[s][2] # remote_frees[u] /\ (pc[u] = "drain" => cell[s] # reg[u])
    BY <1>3, <1>12 DEF NodeInv
  <2>2. cell[s] = <<"ptr", cell[s][2]>>
    BY <1>3
  <2> QED BY <1>9, <1>12, <2>1, <2>2 DEF DrainTop
<1>13. \A top \in {remote_frees[u], DrainTop(u)} : Unlinked(Parked(u), NULL, NodeLinks(u), top)
  BY <1>3, <1>12 DEF Unlinked
<1>14. remote_frees[u] # DrainTop(u) \/ remote_frees[u] = NULL
  BY <1>7 DEF DrainInv, DrainTop
<1> QED BY <1>2, <1>3, <1>5, <1>6, <1>11, <1>13, <1>14

(* Nothing parked for u is out of reach of those first nodes. *)
LEMMA NodesInReach ==
  ASSUME IInv, StacksReached, NEW u \in Threads
  PROVE  AllInReach(Parked(u), NodeLinks(u), remote_frees[u], DrainTop(u))
<1> SUFFICES ASSUME NEW S \in SUBSET Parked(u), S # {}
             PROVE  \E s \in S : \/ s = remote_frees[u] \/ s = DrainTop(u)
                                 \/ \E r \in Parked(u) \ S : NodeLinks(u)[r] = s
  BY DEF AllInReach
<1>1. \A s \in Slots : s \in Parked(u) <=> loc[s] = "parked" /\ OwnerOf(s) = tc[u]
  BY ParkedOwner DEF Parked
<1>2. S \in SUBSET ParkedSlots
  BY DEF Parked, ParkedSlots
<1>3. PICK s \in S : StackRoot(s) \/ \E r \in ParkedSlots \ S : cell[r][2] = s
  BY <1>2 DEF StacksReached
<1>4. s \in Slots /\ s # NULL /\ OwnerOf(s) = tc[u] /\ loc[s] = "parked" /\ Owner(s[1]) = u
  BY <1>1, ThreadCacheAssumption DEF Parked
<1>5. CASE StackRoot(s)
  <2>1. PICK x \in Threads : s = remote_frees[x] \/ (pc[x] = "drain" /\ s = reg[x][2])
    BY <1>5 DEF StackRoot
  <2>2. OwnerOf(s) = tc[x]
    BY <1>4, <2>1 DEF IInv, StacksInv, TopInv, DrainInv
  <2>3. x = u
    BY <1>4, <2>2, ParkedOwner
  <2> QED BY <2>1, <2>3 DEF DrainTop
<1>6. ASSUME NEW r \in ParkedSlots \ S, cell[r][2] = s PROVE r \in Parked(u) /\ NodeLinks(u)[r] = s
  <2>1. r \in Slots /\ loc[r] = "parked" /\ NodeInv(r)
    BY DEF ParkedSlots, IInv, StacksInv
  <2>2. OwnerOf(r) = tc[u]
    BY <1>4, <1>6, <2>1 DEF NodeInv
  <2> QED BY <1>1, <1>6, <2>1, <2>2 DEF NodeLinks
<1> QED BY <1>3, <1>5, <1>6

NodesLinkedBy(T, g) ==
  /\ T \subseteq Slots /\ NULL \notin Slots
  /\ LinksWithin(T, NULL, g)
  /\ \A s \in T : g[s] = cell[s][2]

NodesMet(T, g, N, top, w) ==
  /\ IsWalk(w, N, NULL, g, top)
  /\ \A n \in 0..N : w[n] \in T \cup {NULL}
  /\ Stacked(top) = Met(w, N, NULL)

(* StackWalk follows the links between nodes, and Stacked is what it meets. *)
LEMMA StackWalkWalks ==
  ASSUME NEW T, NEW g, NodesLinkedBy(T, g), NEW top \in T \cup {NULL},
         NEW N \in Nat, N = StackBound, NEW w, w = StackWalk(top)
  PROVE  NodesMet(T, g, N, top, w)
<1> USE DEF NodesLinkedBy
<1>1. \A s \in T \cup {NULL} : NodeStep(s) = IF s = NULL THEN NULL ELSE g[s]
  BY DEF NodeStep
<1>2. \E x : IsStackWalk(top, x)
  <2>1. PICK v \in [0..N -> T \cup {NULL}] : IsWalk(v, N, NULL, g, top)
    BY WalkExists
  <2>2. ASSUME NEW n \in 0..N
        PROVE  v[n] = IF n = 0 THEN top ELSE NodeStep(v[n-1])
    <3>1. CASE n = 0
      BY <2>1, <3>1 DEF IsWalk
    <3>2. CASE n # 0
      <4>1. n - 1 \in 0..(N-1) /\ n - 1 \in 0..N /\ n - 1 + 1 = n
        BY <3>2
      <4>2. v[n-1] \in T \cup {NULL} /\ v[n] = IF v[n-1] = NULL THEN NULL ELSE g[v[n-1]]
        BY <2>1, <4>1 DEF IsWalk
      <4> QED BY <1>1, <3>2, <4>2
    <3> QED BY <3>1, <3>2
  <2>3. v = [n \in 0..N |-> v[n]]
    BY <2>1
  <2>4. v = [n \in 0..N |-> IF n = 0 THEN top ELSE NodeStep(v[n-1])]
    BY <2>2, <2>3
  <2> QED BY <2>4 DEF IsStackWalk
<1>3. IsStackWalk(top, StackWalk(top))
  BY <1>2, Zenon DEF StackWalk, IsStackWalk, NodeStep, StackBound
<1>4. w = [n \in 0..N |-> IF n = 0 THEN top ELSE NodeStep(w[n-1])]
  BY <1>3 DEF IsStackWalk
<1>5. DOMAIN w = 0..N
  BY <1>4
<1>6. Stacked(top) = Met(w, N, NULL)
  BY <1>5, Zenon DEF Stacked, Met
<1>7. w[0] = top /\ \A n \in 0..(N-1) : w[n+1] = NodeStep(w[n])
  <2>1. \A n \in 0..N : w[n] = IF n = 0 THEN top ELSE NodeStep(w[n-1])
    BY <1>4
  <2>2. ASSUME NEW n \in 0..(N-1) PROVE w[n+1] = NodeStep(w[n])
    <3>1. n + 1 \in 0..N /\ n + 1 # 0 /\ n + 1 - 1 = n
      OBVIOUS
    <3> QED BY <2>1, <3>1
  <2>3. 0 \in 0..N
    OBVIOUS
  <2> QED BY <2>1, <2>2, <2>3
<1>8. \A n \in 0..(N-1) : w[n] \in T \cup {NULL} => w[n+1] = IF w[n] = NULL THEN NULL ELSE g[w[n]]
  BY <1>1, <1>7
<1>9. /\ IsWalk(w, N, NULL, g, top)
      /\ \A n \in 0..N : w[n] \in T \cup {NULL}
  BY <1>7, <1>8, WalkStays
<1> QED BY <1>6, <1>9 DEF NodesMet

(* So it does from either of the first nodes of what is parked for u. *)
LEMMA NodesWalked ==
  ASSUME IInv, NEW u \in Threads, NEW N \in Nat, N = StackBound,
         NEW top \in {remote_frees[u], DrainTop(u)}
  PROVE  NodesMet(Parked(u), NodeLinks(u), N, top, StackWalk(top))
<1>1. NodesLinkedBy(Parked(u), NodeLinks(u)) /\ top \in Parked(u) \cup {NULL}
  BY NodesLinked, ThreadCacheAssumption DEF NodesLinkedBy
<1> QED BY <1>1, StackWalkWalks

(* There are NumPages pages. *)
LEMMA PagesFinite == IsFiniteSet(Pages) /\ Cardinality(Pages) = NumPages
<1>1. IsFiniteSet(1..NumPages) /\ Cardinality(1..NumPages) = NumPages
  BY SlabAssumption, FS_Interval
<1> QED BY <1>1 DEF Pages

(* There are StackBound slots. *)
LEMMA SlotsFinite == StackBound \in Nat /\ IsFiniteSet(Slots) /\ Cardinality(Slots) = StackBound
<1>1. IsFiniteSet(0..(MaxSlots - 1)) /\ Cardinality(0..(MaxSlots - 1)) = MaxSlots
  BY SlabAssumption, FS_Interval
<1>2. /\ IsFiniteSet(Pages \X (0..(MaxSlots - 1)))
      /\ Cardinality(Pages \X (0..(MaxSlots - 1)))
             = Cardinality(Pages) * Cardinality(0..(MaxSlots - 1))
  BY <1>1, PagesFinite, FS_Product, Zenon
<1>3. IsFiniteSet(Slots) /\ Cardinality(Slots) = StackBound
  BY <1>1, <1>2, PagesFinite, Zenon DEF Slots, StackBound
<1> QED BY <1>3, FS_CardinalityType

(* Whatever interleaves, a slot given back by another thread is on its owner's
   stack, or on the stack its owner drains, once: StacksExact of
   ThreadCacheProps. *)
THEOREM Stacks == ASSUME EnoughCaches PROVE Spec => []StacksExact
<1>1. IInv /\ Reached => StacksExact
  <2> SUFFICES ASSUME IInv, Reached, NEW u \in Threads
               PROVE  /\ Stacked(remote_frees[u]) \cup Draining(u) = Parked(u)
                      /\ Stacked(remote_frees[u]) \cap Draining(u) = {}
                      /\ StackWalk(remote_frees[u])[StackBound] = NULL
    BY DEF StacksExact, StackBound
  <2> PICK N, T, g, top, pot, w, v :
        /\ N = StackBound
        /\ T = Parked(u) /\ g = NodeLinks(u)
        /\ top = remote_frees[u] /\ pot = DrainTop(u)
        /\ w = StackWalk(top) /\ v = StackWalk(pot)
    OBVIOUS
  <2>1. N \in Nat /\ IsFiniteSet(T) /\ Cardinality(T) <= N
    <3>1. T \subseteq Slots
      BY NodesLinked
    <3> QED BY <3>1, SlotsFinite, FS_Subset
  <2>2. /\ T \subseteq Slots /\ NULL \notin Slots /\ \A s \in T : g[s] = cell[s][2]
        /\ LinksWithin(T, NULL, g) /\ Unshared(T, NULL, g)
        /\ top \in T \cup {NULL} /\ Unlinked(T, NULL, g, top)
        /\ pot \in T \cup {NULL} /\ Unlinked(T, NULL, g, pot)
        /\ top # pot \/ top = NULL
    BY NodesLinked, ThreadCacheAssumption
  <2>3. /\ IsWalk(w, N, NULL, g, top) /\ \A n \in 0..N : w[n] \in T \cup {NULL}
        /\ Stacked(top) = Met(w, N, NULL)
    BY <2>1, NodesWalked DEF NodesMet
  <2>4. /\ IsWalk(v, N, NULL, g, pot) /\ \A n \in 0..N : v[n] \in T \cup {NULL}
        /\ Stacked(pot) = Met(v, N, NULL)
    BY <2>1, NodesWalked DEF NodesMet
  <2>5. w[N] = NULL /\ v[N] = NULL
    BY <2>1, <2>2, <2>3, <2>4, WalkEnds
  <2>6. AllInReach(T, g, top, pot)
    BY NodesInReach DEF Reached
  <2>7. Met(w, N, NULL) \cup Met(v, N, NULL) = T
    BY <2>1, <2>2, <2>3, <2>4, <2>5, <2>6, AllMet
  <2>8. Met(w, N, NULL) \cap Met(v, N, NULL) = {}
    BY <2>1, <2>2, <2>3, <2>4, WalksApart
  <2>9. Draining(u) = Met(v, N, NULL)
    <3>1. CASE pc[u] = "drain"
      BY <2>4, <3>1 DEF Draining, DrainTop
    <3>2. CASE pc[u] # "drain"
      <4>1. pot = NULL /\ 0 \in 0..N
        BY <2>1, <3>2 DEF DrainTop
      <4>2. v[0] = NULL
        BY <2>4, <4>1 DEF IsWalk
      <4>3. \A n \in 0..N : v[n] = NULL
        BY <2>1, <2>4, <4>1, <4>2, WalkOver
      <4> QED BY <3>2, <4>3 DEF Draining, Met
    <3> QED BY <3>1, <3>2
  <2> QED BY <2>3, <2>5, <2>7, <2>8, <2>9
<1> QED BY <1>1, Invariance, Reachability, PTL
-----------------------------------------------------------------------------
(* PageWalk is the walk along a partial list: along next_page of the pages of
   the cache and class that have a free slot. *)
OpenOf(t, c)   == {p \in Pages : meta[p].size_class = c /\ Owner(p) = t /\ Open(p)}
NextPages      == [p \in Pages |-> meta[p].next_page]
PageStep(x)    == IF x = NULL THEN NULL ELSE meta[x].next_page
IsPageWalk(t, c, w) ==
  w = [n \in 0..NumPages |-> IF n = 0 THEN partial[t][c] ELSE PageStep(w[n-1])]

(* That of an open page too. *)
LEMMA OpenOwner ==
  ASSUME IInv, NEW p \in Pages, Open(p), NEW t \in Threads, meta[p].owner_id = tc[t]
  PROVE  Owner(p) = t
<1>1. tc[t] \in CacheIds
  BY OpenPage
<1>2. tc[t] # NULL
  BY <1>1, SlabAssumption, ThreadCacheAssumption DEF CacheIds
<1> QED BY <1>2 DEF Owner, IInv, IdsInv, Cached

(* The open pages of a cache and class are an unshared list whose prev_page
   leads back, and none is out of reach of its first page. *)
LEMMA PagesChained ==
  ASSUME IInv, PagesReached, NEW t \in Threads, NEW c \in Classes,
         NEW T, T = OpenOf(t, c), NEW top, top = partial[t][c]
  PROVE  /\ LinksWithin(T, NULL, NextPages) /\ top \in T \cup {NULL}
         /\ Unshared(T, NULL, NextPages) /\ Unlinked(T, NULL, NextPages, top)
         /\ AllInReach(T, NextPages, top, top)
         /\ top # NULL => meta[top].prev_page = NULL
         /\ \A p \in T : meta[p].next_page # NULL => meta[meta[p].next_page].prev_page = p
<1>1. NULL \notin Pages /\ T \subseteq Pages
  BY NullFacts DEF OpenOf
<1>2. ASSUME NEW p \in Pages, meta[p].next_page # NULL
      PROVE  /\ meta[p].next_page \in Pages /\ Open(p) /\ Open(meta[p].next_page)
             /\ meta[meta[p].next_page].prev_page = p
             /\ p \in T <=> meta[p].next_page \in T
  <2>1. meta[p].next_page \in Pages
    BY <1>2 DEF IInv, TypeOK, Metas
  <2>2. /\ Open(p) /\ Open(meta[p].next_page) /\ Same(p, meta[p].next_page)
        /\ meta[meta[p].next_page].prev_page = p
    BY <1>2 DEF IInv, ListsInv
  <2> QED BY <2>1, <2>2 DEF Same, OpenOf, Owner
<1>3. LinksWithin(T, NULL, NextPages)
  BY <1>1, <1>2 DEF LinksWithin, NextPages
<1>4. top # NULL => /\ top \in T /\ meta[top].prev_page = NULL
  <2>1. SUFFICES ASSUME top # NULL PROVE top \in T /\ meta[top].prev_page = NULL
    OBVIOUS
  <2>2. top \in Pages
    BY <2>1, CacheOfThread DEF IInv, TypeOK
  <2>3. /\ meta[top].owner_id = tc[t] /\ meta[top].size_class = c
        /\ Open(top) /\ meta[top].prev_page = NULL
    BY <2>1 DEF IInv, ListsInv
  <2> QED BY <2>2, <2>3, OpenOwner DEF OpenOf
<1>5. Unshared(T, NULL, NextPages)
  BY <1>1, <1>2 DEF Unshared, NextPages
<1>6. Unlinked(T, NULL, NextPages, top)
  <2>1. ASSUME top # NULL, NEW p \in T, meta[p].next_page = top PROVE FALSE
    BY <1>1, <1>2, <1>4, <2>1
  <2> QED BY <1>1, <2>1 DEF Unlinked, NextPages
<1>7. AllInReach(T, NextPages, top, top)
  <2> SUFFICES ASSUME NEW S \in SUBSET T, S # {}
               PROVE  \E s \in S : s = top \/ \E r \in T \ S : NextPages[r] = s
    BY DEF AllInReach
  <2>1. S \in SUBSET OpenPages
    BY DEF OpenPages, OpenOf
  <2>2. PICK p \in S : meta[p].prev_page \notin S
    BY <2>1 DEF PagesReached
  <2>3. p \in T /\ p \in Pages /\ p \in OpenPages /\ Open(p) /\ meta[p].size_class = c /\ Owner(p) = t
    BY <2>1 DEF OpenOf, OpenPages
  <2>4. CASE meta[p].prev_page = NULL
    <3>1. PICK u \in Threads : partial[u][c] = p
      BY <2>3, <2>4 DEF PagesReached
    <3>2. meta[p].owner_id = tc[u]
      BY <1>1, <2>3, <3>1 DEF IInv, ListsInv
    <3>3. u = t
      BY <2>3, <3>2, OpenOwner
    <3> QED BY <3>1, <3>3
  <2>5. CASE meta[p].prev_page # NULL
    <3> PICK q : q = meta[p].prev_page
      OBVIOUS
    <3>1. q \in Pages /\ meta[q].next_page = p
      BY <2>3, <2>5 DEF IInv, TypeOK, Metas, ListsInv
    <3>2. q \in T
      BY <1>1, <1>2, <2>3, <3>1
    <3> QED BY <2>2, <3>1, <3>2 DEF NextPages
  <2> QED BY <2>4, <2>5
<1> QED BY <1>1, <1>2, <1>3, <1>4, <1>5, <1>6, <1>7

(* PageWalk follows next_page. *)
LEMMA PageWalkWalks ==
  ASSUME IInv, PagesReached, NEW t \in Threads, NEW c \in Classes,
         NEW T, T = OpenOf(t, c), NEW w, w = PageWalk(t, c)
  PROVE  /\ IsWalk(w, NumPages, NULL, NextPages, partial[t][c])
         /\ \A n \in 0..NumPages : w[n] \in T \cup {NULL}
<1> PICK g, N, top : g = NextPages /\ N = NumPages /\ top = partial[t][c]
  OBVIOUS
<1>1. LinksWithin(T, NULL, g) /\ top \in T \cup {NULL} /\ N \in Nat
  BY PagesChained, SlabAssumption
<1>2. \A x \in T \cup {NULL} : PageStep(x) = IF x = NULL THEN NULL ELSE g[x]
  BY DEF PageStep, NextPages, OpenOf
<1>3. \E v : IsPageWalk(t, c, v)
  <2>1. PICK v \in [0..N -> T \cup {NULL}] : IsWalk(v, N, NULL, g, top)
    BY <1>1, WalkExists
  <2>2. ASSUME NEW n \in 0..N
        PROVE  v[n] = IF n = 0 THEN top ELSE PageStep(v[n-1])
    <3>1. CASE n = 0
      BY <2>1, <3>1 DEF IsWalk
    <3>2. CASE n # 0
      <4>1. n - 1 \in 0..(N-1) /\ n - 1 \in 0..N /\ n - 1 + 1 = n
        BY <1>1, <3>2
      <4>2. v[n-1] \in T \cup {NULL} /\ v[n] = IF v[n-1] = NULL THEN NULL ELSE g[v[n-1]]
        BY <2>1, <4>1 DEF IsWalk
      <4> QED BY <1>2, <3>2, <4>2
    <3> QED BY <3>1, <3>2
  <2>3. v = [n \in 0..N |-> v[n]]
    BY <2>1
  <2>4. v = [n \in 0..N |-> IF n = 0 THEN top ELSE PageStep(v[n-1])]
    BY <2>2, <2>3
  <2> QED BY <2>4 DEF IsPageWalk
<1>4. IsPageWalk(t, c, w)
  BY <1>3, Zenon DEF PageWalk, IsPageWalk, PageStep
<1>5. w = [n \in 0..N |-> IF n = 0 THEN top ELSE PageStep(w[n-1])]
  BY <1>4 DEF IsPageWalk
<1>6. w[0] = top /\ \A n \in 0..(N-1) : w[n+1] = PageStep(w[n])
  <2>1. \A n \in 0..N : w[n] = IF n = 0 THEN top ELSE PageStep(w[n-1])
    BY <1>5
  <2>2. ASSUME NEW n \in 0..(N-1) PROVE w[n+1] = PageStep(w[n])
    <3>1. n + 1 \in 0..N /\ n + 1 # 0 /\ n + 1 - 1 = n
      BY <1>1
    <3> QED BY <2>1, <3>1
  <2>3. 0 \in 0..N
    BY <1>1
  <2> QED BY <2>1, <2>2, <2>3
<1>7. \A n \in 0..(N-1) : w[n] \in T \cup {NULL} => w[n+1] = IF w[n] = NULL THEN NULL ELSE g[w[n]]
  BY <1>2, <1>6
<1> QED BY <1>1, <1>6, <1>7, WalkStays

(* What traversals of the partial lists meet. *)
LEMMA ListsExactly == IInv /\ Reached => PartialListsExact
<1> SUFFICES ASSUME IInv, Reached, NEW t \in Threads, NEW c \in Classes,
                    NEW w, w = PageWalk(t, c)
             PROVE  /\ PartialPages(t, c) = OpenOf(t, c)
                    /\ w[NumPages] = NULL
                    /\ \A n \in 0..NumPages :
                          w[n] # NULL => meta[w[n]].prev_page = IF n = 0 THEN NULL ELSE w[n-1]
  BY DEF PartialListsExact, OpenOf, Open
<1> PICK T, N, g, top : T = OpenOf(t, c) /\ N = NumPages /\ g = NextPages /\ top = partial[t][c]
  OBVIOUS
<1>1. /\ LinksWithin(T, NULL, g) /\ Unshared(T, NULL, g) /\ Unlinked(T, NULL, g, top)
      /\ AllInReach(T, g, top, top)
      /\ top # NULL => meta[top].prev_page = NULL
      /\ \A p \in T : meta[p].next_page # NULL => meta[meta[p].next_page].prev_page = p
  BY PagesChained DEF Reached
<1>2. IsWalk(w, N, NULL, g, top) /\ \A n \in 0..N : w[n] \in T \cup {NULL}
  BY PageWalkWalks DEF Reached
<1>3. N \in Nat /\ IsFiniteSet(T) /\ Cardinality(T) <= N
  <2>1. T \subseteq Pages
    BY DEF OpenOf
  <2>2. IsFiniteSet(T) /\ Cardinality(T) <= Cardinality(Pages)
    BY <2>1, PagesFinite, FS_Subset
  <2> QED BY <2>2, PagesFinite, SlabAssumption
<1>4. w[N] = NULL
  BY <1>1, <1>2, <1>3, WalkEnds
<1>5. Met(w, N, NULL) \cup Met(w, N, NULL) = T
  BY <1>1, <1>2, <1>3, <1>4, AllMet
<1>6. PartialPages(t, c) = T
  <2>1. PartialPages(t, c) = Met(w, N, NULL)
    BY DEF PartialPages, Met
  <2> QED BY <1>5, <2>1
<1>7. ASSUME NEW n \in 0..N, w[n] # NULL
      PROVE  meta[w[n]].prev_page = IF n = 0 THEN NULL ELSE w[n-1]
  <2>1. CASE n = 0
    BY <1>1, <1>2, <1>7, <2>1 DEF IsWalk
  <2>2. CASE n # 0
    <3>1. n - 1 \in 0..(N-1) /\ n - 1 \in 0..N /\ n - 1 + 1 = n
      BY <1>3, <2>2
    <3>2. w[n-1] \in T /\ w[n] = g[w[n-1]]
      BY <1>2, <1>7, <3>1 DEF IsWalk
    <3>3. w[n] = meta[w[n-1]].next_page
      BY <3>2 DEF NextPages, OpenOf
    <3> QED BY <1>1, <1>7, <2>2, <3>2, <3>3
  <2> QED BY <2>1, <2>2
<1> QED BY <1>4, <1>6, <1>7

(* The partial lists hold a cache's pages with a free slot, doubly linked:
   PartialListsExact of ThreadCacheProps. *)
THEOREM PartialLists == ASSUME EnoughCaches PROVE Spec => []PartialListsExact
  BY ListsExactly, Invariance, Reachability, PTL

(* api.rs: "Fallback to global slab if not owned by a ThreadCache".  As long as
   every thread can have a cache no page gets there: GlobalSlabUnowned of
   ThreadCacheProps. *)
THEOREM GlobalSlabUnused == ASSUME EnoughCaches PROVE Spec => []GlobalSlabUnowned
<1>1. Init => GlobalListsEmpty
  BY ThreadCacheAssumption DEF Init, SlabInit, GlobalListsEmpty
<1>2. IInv /\ GlobalListsEmpty /\ [Next]_vars => GlobalListsEmpty'
  BY GlobalStep
<1>3. GlobalListsEmpty => GlobalSlabUnowned
  <2> SUFFICES ASSUME GlobalListsEmpty, NEW c \in Classes PROVE PartialPages(GlobalSlab, c) = {}
    BY DEF GlobalSlabUnowned
  <2> PICK N, w : N = NumPages /\ w = PageWalk(GlobalSlab, c)
    OBVIOUS
  <2>1. N \in Nat /\ partial[GlobalSlab][c] = NULL
    BY SlabAssumption DEF GlobalListsEmpty
  <2>2. \E v : IsPageWalk(GlobalSlab, c, v)
    <3> DEFINE v == [n \in 0..N |-> NULL]
    <3>1. \A n \in 0..N : n # 0 => v[n-1] = NULL
      BY <2>1
    <3>2. v = [n \in 0..N |-> IF n = 0 THEN NULL ELSE PageStep(v[n-1])]
      BY <3>1 DEF PageStep
    <3> HIDE DEF v
    <3> QED BY <2>1, <3>2 DEF IsPageWalk
  <2>3. IsPageWalk(GlobalSlab, c, w)
    BY <2>2, Zenon DEF PageWalk, IsPageWalk, PageStep
  <2>4. \A n \in 0..N : w[n] = IF n = 0 THEN NULL ELSE PageStep(w[n-1])
    BY <2>1, <2>3 DEF IsPageWalk
  <2>5. \A n \in 0..N : w[n] = NULL
    <3> DEFINE S == {n \in 0..N : w[n] # NULL}
    <3>1. SUFFICES ASSUME S # {} PROVE FALSE
      OBVIOUS
    <3>2. S \subseteq Nat
      BY <2>1
    <3>3. PICK m \in S : \A k \in S : m <= k
      <4> HIDE DEF S
      <4> QED BY <3>1, <3>2, Least
    <3>4. m # 0 /\ m - 1 \in 0..N /\ m - 1 \notin S
      BY <2>1, <2>4, <3>3
    <3> QED BY <2>4, <3>3, <3>4 DEF PageStep
  <2> QED BY <2>5 DEF PartialPages
<1> QED BY <1>1, <1>2, <1>3, Invariance, PTL DEF Spec

-----------------------------------------------------------------------------
(* What a step does to the place of a slot: the only moves there are. *)
Moved(s, from, to) ==
  /\ s \in Slots /\ loc[s] \in from
  /\ \A r \in Slots : loc'[r] = IF r = s THEN to ELSE loc[r]

SlotMoves ==
  \/ \A r \in Slots : loc'[r] = loc[r]
  \/ \A r \in Slots : loc'[r] = loc[r] \/ (loc[r] = "raw" /\ loc'[r] = "free")
  \/ \E s \in Slots : \/ Moved(s, {"free"}, "live")
                      \/ Moved(s, {"live"}, "freeing")
                      \/ Moved(s, {"freeing"}, "parked")
                      \/ Moved(s, {"freeing", "parked"}, "free")

(* No step moves a slot otherwise. *)
LEMMA EveryMove ==
  ASSUME EnoughCaches, IInv, [Next]_vars
  PROVE  SlotMoves
<1> USE DEF SlotMoves, Moved
<1>1. CASE UNCHANGED loc
  BY <1>1
<1>2. \A s \in Slots : loc[s] \in {"raw", "free", "live", "freeing", "parked"}
      /\ loc = [r \in Slots |-> loc[r]]
  BY DEF IInv, TypeOK
<1>3. ASSUME NEW t \in Threads, NEW s \in Slots, FreeCall(t, s) PROVE SlotMoves
  BY <1>2, <1>3 DEF FreeCall, Move
<1>4. ASSUME NEW t \in Threads, PushSucceeds(t) PROVE SlotMoves
  <2>1. ptr[t] \in Slots /\ loc[ptr[t]] = "freeing"
    BY <1>4, LinkTypes DEF PushSucceeds, Return, Goto, IInv, ThreadsInv, ThreadInv, FreeSteps, TypeOK
  <2> QED BY <1>2, <1>4, <2>1 DEF PushSucceeds, Move
<1>5. ASSUME NEW t \in Threads, FreeStore(t) PROVE SlotMoves
  <2>1. ptr[t] \in Slots /\ loc[ptr[t]] = "freeing"
    BY <1>5 DEF FreeStore, Return, Goto, IInv, ThreadsInv, ThreadInv, FreeSteps, TypeOK
  <2> QED BY <1>2, <1>5, <2>1 DEF FreeStore, Move
<1>6. ASSUME NEW t \in Threads, DrainNode(t) PROVE SlotMoves
  <2>1. reg[t][2] \in Slots /\ loc[reg[t][2]] = "parked"
    <3>1. DrainInv(t) /\ reg[t] \in Links /\ reg[t][2] # NULL
      BY <1>6 DEF DrainNode, IInv, StacksInv, TypeOK
    <3> QED BY <3>1 DEF DrainInv, Links
  <2> QED BY <1>2, <1>6, <2>1 DEF DrainNode, Move
<1>7. ASSUME NEW t \in Threads, PopStore(t) PROVE SlotMoves
  <2>1. ptr[t] \in Slots /\ loc[ptr[t]] = "free"
    BY <1>7, PopSlot DEF PopStore, Return, Goto
  <2> QED BY <1>2, <1>7, <2>1 DEF PopStore, Move
<1>8. ASSUME NEW t \in Threads, NewPage(t) PROVE SlotMoves
  <2> PICK p, c, n : p = next_free_page /\ c = cls[t] /\ n = SlotsOf[c]
    OBVIOUS
  <2>1. \A s \in Slots : s[1] = p => loc[s] = "raw"
    BY <1>8, NewPageEffect
  <2>2. \A s \in Slots : loc'[s] = IF s[1] = p /\ s[2] < n THEN "free" ELSE loc[s]
    BY <1>8 DEF NewPage
  <2> QED BY <2>1, <2>2
<1>9. ASSUME NEW t \in Threads, LockedLoad(t) \/ LockedStore(t) PROVE FALSE
  BY <1>9 DEF LockedLoad, LockedStore, Return, Goto, IInv, ThreadsInv, ThreadInv, FreeSteps, MallocSteps
<1>10. ASSUME NEW t \in Threads,
              \/ \E c \in Classes : MallocCall(t, c)
              \/ CreateCache(t) \/ DenyCache(t)
              \/ CheckRemote(t) \/ DetachStack(t) \/ DrainEnd(t) \/ OutOfPages(t) \/ PopLoad(t)
              \/ RouteLocal(t) \/ RouteRemote(t) \/ FreeLoad(t) \/ PushLoad(t) \/ PushFails(t)
       PROVE  UNCHANGED loc
  BY <1>10 DEF MallocCall, CreateCache, DenyCache, CheckRemote, DetachStack, DrainEnd, OutOfPages,
               PopLoad, RouteLocal, RouteRemote, FreeLoad, PushLoad, PushFails
<1> HIDE DEF SlotMoves
<1>11. ASSUME NEW t \in Threads, Call(t) \/ Step(t) PROVE SlotMoves
  BY <1>1, <1>3, <1>4, <1>5, <1>6, <1>7, <1>8, <1>9, <1>10, <1>11, Zenon DEF Call, Step, Malloc, Free
<1> QED BY <1>1, <1>11 DEF Next, vars

(* What a malloc can find: a traversal of the caches' partial lists, and of
   the free lists of the pages on them. *)
Available == UNION {FreeListed(p) : p \in PagesListed}
FreeSlots == {s \in Slots : loc[s] = "free"}
LiveSlots == {s \in Slots : loc[s] = "live"}
PendingSlots == {s \in Slots : loc[s] \in {"freeing", "parked"}}

Accurate == Available = FreeSlots

(* A page with a free slot has a head. *)
LEMMA FreeSlotOpen ==
  ASSUME IInv, FreeReached, NEW s \in FreeSlots
  PROVE  s[1] \in OpenPages
<1>1. s \in Slots /\ s[1] \in Pages /\ s \in FreeIn(s[1])
  BY SlotParts DEF FreeSlots, FreeIn
<1>2. PICK r \in FreeIn(s[1]) : r[2] = meta[s[1]].free_list_head
  <2> PICK p \in Pages, S \in SUBSET FreeIn(s[1]) : p = s[1] /\ S = FreeIn(p)
    BY <1>1
  <2>1. S \in SUBSET FreeIn(p) /\ S # {}
    BY <1>1
  <2>2. \E r \in S : r[2] = meta[p].free_list_head \/ \E q \in FreeIn(p) \ S : cell[q][2] = r[2]
    BY <2>1, Zenon DEF FreeReached
  <2> QED BY <2>2
<1>3. r[2] # NULL_SLOT
  <2>1. r \in Slots
    BY DEF FreeIn
  <2> QED BY <2>1, SlotParts, IndexNotNull
<1> QED BY <1>1, <1>2, <1>3 DEF OpenPages, Open

(* All open pages are on the lists of caches, and no other page is. *)
LEMMA ListedOpen ==
  ASSUME IInv, PartialListsExact
  PROVE  PagesListed = OpenPages
<1>1. \A t \in Threads, c \in Classes : PartialPages(t, c) = OpenOf(t, c)
  BY Zenon DEF PartialListsExact, OpenOf, Open
<1>2. ASSUME NEW p \in OpenPages
      PROVE  \E t \in Threads, c \in Classes : p \in OpenOf(t, c)
  BY OpenPage DEF OpenPages, OpenOf
<1>3. \A t \in Threads, c \in Classes : OpenOf(t, c) \subseteq OpenPages
  BY DEF OpenOf, OpenPages
<1>4. \A p : p \in PagesListed <=> \E t \in Threads, c \in Classes : p \in PartialPages(t, c)
  BY DEF PagesListed
<1>5. ASSUME NEW p \in OpenPages PROVE p \in PagesListed
  BY <1>1, <1>2, <1>4
<1>6. ASSUME NEW p \in PagesListed PROVE p \in OpenPages
  BY <1>1, <1>3, <1>4
<1> QED BY <1>5, <1>6

(* So what is free can be had: by FreeListedExact, page by page. *)
LEMMA AvailableExact ==
  ASSUME IInv, FreeReached, PartialListsExact
  PROVE  Available = FreeSlots
<1>1. PagesListed = OpenPages /\ OpenPages \subseteq Pages
  BY ListedOpen DEF OpenPages
<1>2. \A p \in OpenPages : FreeListed(p) = FreeIn(p)
  BY <1>1, FreeListedExact
<1>3. \A s : s \in Available <=> \E p \in OpenPages : s \in FreeIn(p)
  BY <1>1, <1>2, Zenon DEF Available
<1>4. ASSUME NEW s \in FreeSlots PROVE s[1] \in OpenPages /\ s \in FreeIn(s[1])
  BY FreeSlotOpen, SlotParts DEF FreeIn, FreeSlots
<1>5. \A p \in OpenPages : FreeIn(p) \subseteq FreeSlots
  BY DEF FreeIn, FreeSlots
<1> QED BY <1>3, <1>4, <1>5

(* Every move of a slot is a step of the pool, or none. *)
LEMMA PoolStep ==
  ASSUME SlotMoves, \A s \in Slots : loc[s] \in {"raw", "free", "live", "freeing", "parked"},
         Available = FreeSlots, Available' = FreeSlots'
  PROVE  [Pool!Next]_(Pool!vars)
<1> USE DEF FreeSlots, LiveSlots, PendingSlots
<1> SUFFICES \/ UNCHANGED <<FreeSlots, LiveSlots, PendingSlots>>
             \/ /\ FreeSlots \subseteq FreeSlots' /\ FreeSlots' \subseteq Slots
                /\ (FreeSlots' \ FreeSlots) \cap (FreeSlots \cup LiveSlots \cup PendingSlots) = {}
                /\ UNCHANGED <<LiveSlots, PendingSlots>>
             \/ \E s \in Slots :
                   \/ /\ s \in FreeSlots /\ FreeSlots' = FreeSlots \ {s}
                      /\ LiveSlots' = LiveSlots \cup {s} /\ UNCHANGED PendingSlots
                   \/ /\ s \in LiveSlots /\ LiveSlots' = LiveSlots \ {s}
                      /\ PendingSlots' = PendingSlots \cup {s} /\ UNCHANGED FreeSlots
                   \/ /\ s \in PendingSlots /\ PendingSlots' = PendingSlots \ {s}
                      /\ FreeSlots' = FreeSlots \cup {s} /\ UNCHANGED LiveSlots
  BY DEF Pool!Next, Pool!Carve, Pool!Malloc, Pool!Free, Pool!Reclaim, Pool!Known, Pool!vars,
         Available
<1>1. CASE \A r \in Slots : loc'[r] = loc[r]
  BY <1>1
<1>2. CASE \A r \in Slots : loc'[r] = loc[r] \/ (loc[r] = "raw" /\ loc'[r] = "free")
  BY <1>2
<1>3. ASSUME NEW s \in Slots, Moved(s, {"free"}, "live")
      PROVE  /\ s \in FreeSlots /\ FreeSlots' = FreeSlots \ {s}
             /\ LiveSlots' = LiveSlots \cup {s} /\ UNCHANGED PendingSlots
  BY <1>3 DEF Moved
<1>4. ASSUME NEW s \in Slots, Moved(s, {"live"}, "freeing")
      PROVE  /\ s \in LiveSlots /\ LiveSlots' = LiveSlots \ {s}
             /\ PendingSlots' = PendingSlots \cup {s} /\ UNCHANGED FreeSlots
  BY <1>4 DEF Moved
<1>5. ASSUME NEW s \in Slots, Moved(s, {"freeing"}, "parked")
      PROVE  UNCHANGED <<FreeSlots, LiveSlots, PendingSlots>>
  BY <1>5 DEF Moved
<1>6. ASSUME NEW s \in Slots, Moved(s, {"freeing", "parked"}, "free")
      PROVE  /\ s \in PendingSlots /\ PendingSlots' = PendingSlots \ {s}
             /\ FreeSlots' = FreeSlots \cup {s} /\ UNCHANGED LiveSlots
  BY <1>6 DEF Moved
<1> QED BY <1>1, <1>2, <1>3, <1>4, <1>5, <1>6, Zenon DEF SlotMoves

(* malloc hands out an available slot that nobody holds, and every slot freed
   can be had again, once, whatever traversals find: the small-object path
   implements the pool of SlotPool, PoolSpec of ThreadCacheProps. *)
THEOREM Pooling == ASSUME EnoughCaches PROVE Spec => PoolSpec
<1>1. Init => Pool!Init
  <2> SUFFICES ASSUME Init PROVE Pool!Init
    OBVIOUS
  <2>1. IInv /\ Reached
    BY Initially, ReachedInitially
  <2>2. Available = FreeSlots
    BY <2>1, ListsExactly, AvailableExact DEF Reached
  <2>3. \A s \in Slots : loc[s] = "raw"
    BY DEF Init
  <2> QED BY <2>2, <2>3 DEF Pool!Init, Available, FreeSlots
<1>2. IInv /\ Reached => Accurate
  BY ListsExactly, AvailableExact DEF Reached, Accurate
<1>3. IInv /\ [Next]_vars /\ Accurate /\ Accurate'
        => [Pool!Next]_(Pool!vars)
  <2>1. IInv => \A s \in Slots : loc[s] \in {"raw", "free", "live", "freeing", "parked"}
    BY DEF IInv, TypeOK
  <2> QED BY <2>1, EveryMove, PoolStep DEF Accurate
<1>4. Spec => []Accurate
  BY <1>2, Invariance, Reachability, PTL
<1> QED BY <1>1, <1>3, <1>4, Invariance, PTL DEF Spec, PoolSpec, Pool!Spec
=============================================================================
