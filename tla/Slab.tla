-------------------------------- MODULE Slab --------------------------------
(***************************************************************************)
(* The slab allocator (src/src/slab.rs) over the pages of the one arena    *)
(* (src/src/arena.rs): page metadata, the free list threaded through the   *)
(* free slots of a page, and each cache's list of partially free pages.    *)
(* The operators are the effects of its functions; ThreadCache says which  *)
(* thread runs them, and when.                                             *)
(*                                                                         *)
(* A slot is <<page, index>>: its address is page_addr + index * slot_size *)
(* and the division in free() recovers the index.  The first bytes of a    *)
(* slot are a cell that holds, in turn, the u16 index of the next free     *)
(* slot, the next pointer of a RemoteFreeNode, or whatever the application *)
(* wrote there; a cell is a tagged pair so that reading one kind of link   *)
(* as another is an error and not a coincidence.                           *)
(***************************************************************************)
EXTENDS Integers

CONSTANTS
    NumPages,    \* data pages of the arena: PAGES_PER_ARENA - META_PAGES
    Classes,     \* size classes
    SlotsOf,     \* slots_per_page of each class
    MaxSlots,    \* the largest of them
    Caches,      \* the SlabAllocator instances
    NULL         \* null pointer

NULL_SLOT == 65535
NO_CLASS  == 255
NO_OWNER  == 65535

ASSUME SlabAssumption ==
    /\ NumPages \in Nat
    /\ MaxSlots \in Nat
    /\ 2 <= MaxSlots
    /\ MaxSlots <= NULL_SLOT
    /\ SlotsOf \in [Classes -> 2..MaxSlots]
    /\ NO_CLASS \notin Classes
    /\ NULL \notin Int \cup Classes

Pages == 1..NumPages
Slots == Pages \X (0..(MaxSlots - 1))

U16(i)  == <<"u16", i>>
Ptr(s)  == <<"ptr", s>>
UserData == <<"user", 0>>

VARIABLES
    next_free_page,  \* ArenaMeta.next_free_page, counted from the first data page
    meta,            \* PageMeta of every data page
    cell,            \* first bytes of every slot
    partial          \* partial_pages of every SlabAllocator

slabVars == <<next_free_page, meta, cell, partial>>

EmptyMeta ==
    [size_class     |-> NO_CLASS,
     owner_id       |-> NO_OWNER,
     used_slots     |-> 0,
     free_list_head |-> NULL_SLOT,
     next_page      |-> NULL,
     prev_page      |-> NULL]

SlabInit ==
    /\ next_free_page = 1
    /\ meta = [p \in Pages |-> EmptyMeta]
    /\ cell = [s \in Slots |-> UserData]
    /\ partial = [k \in Caches |-> [c \in Classes |-> NULL]]

Carved(p) == meta[p].size_class # NO_CLASS
SlotsIn(p) == IF Carved(p) THEN {p} \X (0..(SlotsOf[meta[p].size_class] - 1)) ELSE {}
-----------------------------------------------------------------------------
(* Mutant: one page too many. *)
ArenaFullLate == next_free_page > NumPages + 1

ArenaFull == next_free_page > NumPages

(* Mutant: the chain of a new page runs past its last slot. *)
NewLinkUnterminated(c, i) == U16(IF i = SlotsOf[c] THEN NULL_SLOT ELSE i + 1)

NewLink(c, i) == U16(IF i = SlotsOf[c] - 1 THEN NULL_SLOT ELSE i + 1)

(* alloc_page, init_page and push_partial_page, in alloc() of cache k whose
   list for class c is empty: the page's slots are chained in order. *)
CarvePage(k, c, owner) ==
    LET p == next_free_page IN
    /\ ~ArenaFull
    /\ next_free_page' = p + 1
    /\ meta' = [meta EXCEPT ![p] =
                    [EmptyMeta EXCEPT !.size_class = c,
                                      !.owner_id = owner,
                                      !.free_list_head = 0]]
    /\ cell' = [s \in Slots |->
                    IF s[1] = p /\ s[2] < SlotsOf[c] THEN NewLink(c, s[2]) ELSE cell[s]]
    /\ partial' = [partial EXCEPT ![k][c] = p]

(* The metadata of a page one of whose slots is taken, resp. given back.
   remove_partial_page clears the links of a page that becomes full;
   push_partial_page puts one that was full before page `first`. *)
Taken(m, next) ==
    LET full == next = NULL_SLOT IN
    [m EXCEPT !.free_list_head = next,
              !.used_slots = @ + 1,
              !.prev_page = IF full THEN NULL ELSE @,
              !.next_page = IF full THEN NULL ELSE @]

Returned(m, idx, head, first) ==
    LET was_full == head = NULL_SLOT IN
    [m EXCEPT !.free_list_head = idx,
              !.used_slots = @ - 1,
              !.prev_page = IF was_full THEN NULL ELSE @,
              !.next_page = IF was_full THEN first ELSE @]

(* The store half of alloc_no_arena() and alloc(): slot s leaves the free
   list of its page, whose next free slot was read as `next`; a page that
   has become full is unlinked by remove_partial_page.  The caller
   overwrites the slot. *)
TakeSlot(k, c, s, next) ==
    LET p == s[1]
        full == next = NULL_SLOT
        before == meta[p].prev_page
        after  == meta[p].next_page IN
    /\ cell' = [cell EXCEPT ![s] = UserData]
    /\ meta' = [q \in Pages |->
            IF q = p THEN Taken(meta[p], next)
            ELSE IF full /\ q = before THEN [meta[q] EXCEPT !.next_page = after]
            ELSE IF full /\ q = after  THEN [meta[q] EXCEPT !.prev_page = before]
            ELSE meta[q]]
    /\ partial' = IF full /\ before = NULL
                  THEN [partial EXCEPT ![k][c] = after]
                  ELSE partial
    /\ UNCHANGED next_free_page

(* Mutant: whether the page was full is asked after the head was stored. *)
ReturnSlotFullLate(k, s, head) ==
    /\ cell' = [cell EXCEPT ![s] = U16(head)]
    /\ meta' = [meta EXCEPT ![s[1]].free_list_head = s[2], ![s[1]].used_slots = @ - 1]
    /\ UNCHANGED <<partial, next_free_page>>

(* The store half of free() and free_no_arena(): slot s becomes the head of
   its page's free list, whose head was read as `head`; push_partial_page
   puts a page that was full at the front of cache k's list. *)
ReturnSlot(k, s, head) ==
    LET p == s[1]
        c == meta[p].size_class
        was_full == head = NULL_SLOT
        first == partial[k][c] IN
    /\ cell' = [cell EXCEPT ![s] = U16(head)]
    /\ meta' = [q \in Pages |->
            IF q = p THEN Returned(meta[p], s[2], head, first)
            ELSE IF was_full /\ q = first THEN [meta[q] EXCEPT !.prev_page = p]
            ELSE meta[q]]
    /\ partial' = IF was_full THEN [partial EXCEPT ![k][c] = p] ELSE partial
    /\ UNCHANGED next_free_page
-----------------------------------------------------------------------------
(* Views: what a traversal of the linked structures would meet.  Each walk
   is cut off after as many steps as there are elements, so that a cycle
   shows as a walk that has not ended. *)

FreeWalk(p) ==
    LET walk[n \in 0..MaxSlots] ==
            IF n = 0 THEN meta[p].free_list_head
            ELSE IF walk[n-1] \notin 0..(MaxSlots - 1) THEN NULL_SLOT
            ELSE LET link == cell[<<p, walk[n-1]>>]
                 IN  IF link[1] = "u16" THEN link[2] ELSE NULL_SLOT
    IN  walk

FreeListed(p) == {<<p, FreeWalk(p)[n]>> : n \in {m \in 0..(MaxSlots-1) : FreeWalk(p)[m] # NULL_SLOT}}

PageWalk(k, c) ==
    LET walk[n \in 0..NumPages] ==
            IF n = 0 THEN partial[k][c]
            ELSE IF walk[n-1] = NULL THEN NULL
            ELSE meta[walk[n-1]].next_page
    IN  walk

PartialPages(k, c) == {PageWalk(k, c)[n] : n \in 0..NumPages} \ {NULL}
=============================================================================
