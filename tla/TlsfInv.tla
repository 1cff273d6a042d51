------------------------------ MODULE TlsfInv ------------------------------
(***************************************************************************)
(* The inductive invariant of the TLSF allocator.                          *)
(*                                                                         *)
(* alloc and free take a heap apart and put it together again.  Between    *)
(* their parts one block is being worked on: its flags need not agree with *)
(* its neighbours', it may have free neighbours, and it is in no list.     *)
(* The invariant is therefore stated with the set of blocks it makes an    *)
(* exception for and with the set of blocks that are listed; a call starts *)
(* and ends with no exception and every free block listed.                 *)
(***************************************************************************)
EXTENDS Tlsf

(* The words of the pool. *)
HeaderWords ==
    [kind : {"header"}, size : Sizes, free : BOOLEAN, prev_free : BOOLEAN, prev_phys_size : Sizes]
LinksWords == [kind : {"links"}, prev : Units \cup {NULL}, next : Units \cup {NULL}]
Words == HeaderWords \cup LinksWords \cup {Data}

(* The blocks, all but the sentinel, and the free ones among them. *)
BlocksOf(m) == {b \in Units \ {Sentinel} : m[b].kind = "header"}
FreeOf(m)   == {b \in BlocksOf(m) : m[b].free}

(* The blocks tile the pool: from a header the next one is reached, with
   none in between, and every header but the first leads back to the block
   that ends in front of it. *)
Tiled(m) ==
    /\ DOMAIN m = Units
    /\ \A a \in Units : m[a] \in Words
    /\ m[0].kind = "header" /\ m[0].prev_free = FALSE
    /\ m[Sentinel].kind = "header" /\ m[Sentinel].free = FALSE /\ m[Sentinel].size = 0
    /\ \A b \in BlocksOf(m) :
        /\ m[b].size >= 1
        /\ NextPhys(m, b) \in BlocksOf(m) \cup {Sentinel}
        /\ \A a \in Units : b < a /\ a < NextPhys(m, b) => m[a].kind # "header"
    /\ \A b \in BlocksOf(m) \cup {Sentinel} : b # 0 =>
        /\ PrevPhys(m, b) \in BlocksOf(m)
        /\ NextPhys(m, PrevPhys(m, b)) = b

(* Each header says whether the block in front of it is free. *)
Flagged(m, X) ==
    \A b \in BlocksOf(m) \ X : m[NextPhys(m, b)].prev_free = m[b].free

(* No two free blocks are neighbours. *)
Merged(m, X) ==
    \A b \in FreeOf(m) \ X : NextPhys(m, b) \notin X => m[NextPhys(m, b)].free = FALSE

(* The lists hold the blocks F and no others, each in the list of its size;
   they are doubly linked and end in both directions, the bitmaps know which
   are not empty, and there are no links but those of the blocks listed. *)
Bins == FirstLevels \X SecondLevels

LinkedIn(m, l, F, b) ==
    /\ m[Payload(b)].kind = "links"
    /\ m[Payload(b)].prev = NULL => l[Bin(m, b)] = b
    /\ m[Payload(b)].prev # NULL =>
        m[Payload(b)].prev \in F /\ m[Payload(m[Payload(b)].prev)].next = b
    /\ m[Payload(b)].next # NULL =>
        /\ m[Payload(b)].next \in F
        /\ Bin(m, m[Payload(b)].next) = Bin(m, b)
        /\ m[Payload(m[Payload(b)].next)].prev = b

Linked(m, l, F) ==
    /\ F \subseteq BlocksOf(m)
    /\ \A b \in F : LinkedIn(m, l, F, b)
    /\ \A a \in Units : m[a].kind = "links" => FromPayload(a) \in F
    /\ DOMAIN l = Bins
    /\ \A bin \in Bins : l[bin] # NULL =>
        l[bin] \in F /\ Bin(m, l[bin]) = bin /\ m[Payload(l[bin])].prev = NULL
    /\ \A S \in SUBSET F : S # {} => \E b \in S : m[Payload(b)].prev \notin S

Mapped(l, fl, sl) ==
    /\ fl \subseteq FirstLevels
    /\ DOMAIN sl = FirstLevels
    /\ \A i \in FirstLevels : sl[i] \subseteq SecondLevels
    /\ \A i \in FirstLevels, j \in SecondLevels : j \in sl[i] <=> l[<<i, j>>] # NULL
    /\ \A i \in FirstLevels : i \in fl <=> sl[i] # {}

Fields == {"mem", "lists", "fl", "sl"}

(* A heap with the blocks X excepted from the rules about neighbours, and
   the blocks F in its lists. *)
HeapOK(h, X, F) ==
    /\ DOMAIN h = Fields
    /\ h = [mem |-> h.mem, lists |-> h.lists, fl |-> h.fl, sl |-> h.sl]
    /\ Tiled(h.mem)
    /\ Flagged(h.mem, X)
    /\ Merged(h.mem, X)
    /\ Linked(h.mem, h.lists, F)
    /\ Mapped(h.lists, h.fl, h.sl)

(* What the application holds are the used blocks, each once and long enough. *)
HeldOK(m, H) ==
    /\ H \subseteq Units \X Requests
    /\ \A e \in H : /\ FromPayload(e[1]) \in BlocksOf(m) \ FreeOf(m)
                    /\ e[2] <= ALIGN * m[FromPayload(e[1])].size
    /\ \A b \in BlocksOf(m) \ FreeOf(m) : \E e \in H : e[1] = Payload(b)
    /\ \A e, f \in H : e[1] = f[1] => e = f

(* What every call of the allocator finds and leaves: the blocks tile the
   pool and know their neighbours, the free ones are merged and listed, and
   the application holds the others. *)
HeapInv == HeapOK(heap, {}, FreeOf(mem)) /\ HeldOK(mem, held)
=============================================================================
