--------------------------- MODULE TlsfListProofs ---------------------------
(***************************************************************************)
(* The parts of the TLSF allocator that leave the blocks alone: taking a   *)
(* block out of its list, putting one into it, and finding one for a       *)
(* request.  Each is a lemma from one set of blocks listed to the next.    *)
(***************************************************************************)
EXTENDS TlsfInv, TlsfMappingProofs

(* Words, and the addresses of blocks. *)
LEMMA Pool ==
    /\ PoolUnits \in Nat /\ PoolUnits >= 3
    /\ Units = 0..(PoolUnits - 1) /\ Sizes = 0..(PoolUnits - 2) /\ Sentinel = PoolUnits - 1
    /\ Sentinel \in Units /\ 0 \in Units /\ Sentinel # 0
    /\ NULL \notin Units /\ Units \subseteq Int
BY TlsfAssumption DEF Units, Sizes, Sentinel

LEMMA HeaderWord ==
    ASSUME NEW w \in Words, w.kind = "header"
    PROVE  /\ w \in HeaderWords
           /\ w.size \in Sizes /\ w.free \in BOOLEAN
           /\ w.prev_free \in BOOLEAN /\ w.prev_phys_size \in Sizes
BY DEF Words, HeaderWords, LinksWords, Data

LEMMA LinksWord ==
    ASSUME NEW w \in Words, w.kind = "links"
    PROVE  /\ w \in LinksWords
           /\ w.prev \in Units \cup {NULL} /\ w.next \in Units \cup {NULL}
BY DEF Words, HeaderWords, LinksWords, Data

LEMMA NewWords ==
    /\ Data \in Words /\ Data.kind = "data"
    /\ \A p, n \in Units \cup {NULL} :
        /\ Links(p, n) \in Words
        /\ Links(p, n).kind = "links" /\ Links(p, n).prev = p /\ Links(p, n).next = n
    /\ \A s, q \in Sizes, f, g \in BOOLEAN :
        /\ Header(s, f, g, q) \in Words
        /\ Header(s, f, g, q).kind = "header"
        /\ Header(s, f, g, q).size = s /\ Header(s, f, g, q).free = f
        /\ Header(s, f, g, q).prev_free = g /\ Header(s, f, g, q).prev_phys_size = q
BY DEF Words, HeaderWords, LinksWords, Data, Links, Header

LEMMA Relinked ==
    ASSUME NEW w \in Words, w.kind = "links", NEW p \in Units \cup {NULL}
    PROVE  /\ [w EXCEPT !.prev = p] \in Words
           /\ [w EXCEPT !.prev = p].kind = "links"
           /\ [w EXCEPT !.prev = p].prev = p
           /\ [w EXCEPT !.prev = p].next = w.next
           /\ [w EXCEPT !.next = p] \in Words
           /\ [w EXCEPT !.next = p].kind = "links"
           /\ [w EXCEPT !.next = p].prev = w.prev
           /\ [w EXCEPT !.next = p].next = p
<1>1. w \in LinksWords
  BY LinksWord
<1> QED BY <1>1 DEF Words, LinksWords

LEMMA BlockPlace ==
    ASSUME NEW m, Tiled(m), NEW b \in BlocksOf(m)
    PROVE  /\ b \in Units /\ b < Sentinel /\ m[b].kind = "header"
           /\ m[b] \in HeaderWords
           /\ m[b].size \in Sizes /\ m[b].size >= 1
           /\ NextPhys(m, b) = b + 1 + m[b].size
           /\ NextPhys(m, b) \in BlocksOf(m) \cup {Sentinel}
           /\ NextPhys(m, b) \in Units /\ NextPhys(m, b) # 0
           /\ m[NextPhys(m, b)].kind = "header"
           /\ Payload(b) = b + 1 /\ Payload(b) \in Units
           /\ b < Payload(b) /\ Payload(b) < NextPhys(m, b)
           /\ m[Payload(b)].kind # "header"
<1>1. b \in Units /\ b < Sentinel /\ m[b].kind = "header"
  BY Pool DEF BlocksOf
<1>2. m[b].size \in Sizes /\ m[b] \in HeaderWords
  BY <1>1, HeaderWord DEF Tiled
<1>3. m[b].size >= 1 /\ NextPhys(m, b) \in BlocksOf(m) \cup {Sentinel}
  BY DEF Tiled
<1>4. NextPhys(m, b) = b + 1 + m[b].size /\ Payload(b) = b + 1
  BY DEF NextPhys, Payload
<1>5. NextPhys(m, b) \in Units /\ m[NextPhys(m, b)].kind = "header"
  BY <1>3, Pool DEF BlocksOf, Tiled
<1>6. Payload(b) < NextPhys(m, b) /\ b < Payload(b) /\ NextPhys(m, b) # 0
  BY <1>1, <1>2, <1>3, <1>4, Pool
<1>7. Payload(b) \in Units
  BY <1>1, <1>4, <1>5, <1>6, Pool
<1>8. m[Payload(b)].kind # "header"
  BY <1>6, <1>7 DEF Tiled
<1> QED BY <1>1, <1>2, <1>3, <1>4, <1>5, <1>6, <1>7, <1>8

(* A block is in one of the lists. *)
LEMMA BlockSize ==
    ASSUME NEW m, Tiled(m), NEW b \in BlocksOf(m)
    PROVE  /\ ALIGN * m[b].size \in Nat
           /\ ALIGN * m[b].size >= MIN_PAYLOAD
           /\ ALIGN * m[b].size < P2(FL_MAX + 1)
           /\ Bin(m, b) \in Bins
           /\ Bin(m, b) = <<Bin(m, b)[1], Bin(m, b)[2]>>
           /\ Bin(m, b)[1] \in FirstLevels /\ Bin(m, b)[2] \in SecondLevels
<1>1. ALIGN * PoolUnits < P2(FL_MAX + 1) /\ P2(FL_MAX + 1) \in Nat
  BY TlsfAssumption, NextPower DEF P2
<1>2. m[b].size \in 1..PoolUnits
  BY BlockPlace, Pool
<1>3. /\ ALIGN * m[b].size \in Nat /\ ALIGN * m[b].size >= MIN_PAYLOAD
      /\ ALIGN * m[b].size < P2(FL_MAX + 1)
  BY <1>1, <1>2, Pool DEF ALIGN, MIN_PAYLOAD
<1>4. Bin(m, b) \in Bins
  BY <1>3, MappingInRange DEF Bin, Bins
<1> QED BY <1>3, <1>4 DEF Bins
-----------------------------------------------------------------------------
(* What only moves links about leaves the blocks alone. *)
SameHeaders(m2, m) ==
    /\ DOMAIN m2 = Units
    /\ \A a \in Units :
        /\ m2[a] \in Words
        /\ m2[a].kind = "header" <=> m[a].kind = "header"
        /\ m[a].kind = "header" => m2[a] = m[a]

LEMMA BlocksKept ==
    ASSUME NEW m, Tiled(m), NEW m2, SameHeaders(m2, m)
    PROVE  /\ Tiled(m2)
           /\ BlocksOf(m2) = BlocksOf(m)
           /\ FreeOf(m2) = FreeOf(m)
           /\ \A b \in BlocksOf(m) \cup {Sentinel} : m2[b] = m[b]
           /\ \A b \in BlocksOf(m) : NextPhys(m2, b) = NextPhys(m, b) /\ Bin(m2, b) = Bin(m, b)
           /\ \A X : Flagged(m, X) => Flagged(m2, X)
           /\ \A X : Merged(m, X) => Merged(m2, X)
<1>1. BlocksOf(m2) = BlocksOf(m)
  BY DEF SameHeaders, BlocksOf
<1>2. \A b \in BlocksOf(m) \cup {Sentinel} : m2[b] = m[b]
  BY Pool DEF SameHeaders, BlocksOf, Tiled
<1>3. FreeOf(m2) = FreeOf(m)
  BY <1>1, <1>2 DEF FreeOf
<1>4. \A b \in BlocksOf(m) : NextPhys(m2, b) = NextPhys(m, b) /\ Bin(m2, b) = Bin(m, b)
  BY <1>2 DEF NextPhys, Bin
<1>5. \A b \in BlocksOf(m) \cup {Sentinel} : PrevPhys(m2, b) = PrevPhys(m, b)
  BY <1>2 DEF PrevPhys
<1>6. Tiled(m2)
  <2>1. \A b \in BlocksOf(m) : NextPhys(m, b) \in BlocksOf(m) \cup {Sentinel}
    BY DEF Tiled
  <2>2. m2[0] = m[0] /\ m2[Sentinel] = m[Sentinel]
    BY Pool DEF SameHeaders, Tiled
  <2> QED BY <1>1, <1>2, <1>4, <1>5, <2>2 DEF Tiled, SameHeaders
<1>7. \A b \in BlocksOf(m) : m2[NextPhys(m2, b)] = m[NextPhys(m, b)]
  BY <1>2, <1>4 DEF Tiled
<1>8. ASSUME NEW X, Flagged(m, X) PROVE Flagged(m2, X)
  BY <1>1, <1>2, <1>7, <1>8 DEF Flagged
<1>9. ASSUME NEW X, Merged(m, X) PROVE Merged(m2, X)
  BY <1>3, <1>4, <1>7, <1>9 DEF Merged, FreeOf
<1> QED BY <1>1, <1>2, <1>3, <1>4, <1>6, <1>8, <1>9
-----------------------------------------------------------------------------
(* The free lists. *)

(* A listed block and those before and behind it are three. *)
LEMMA Neighbours ==
    ASSUME NEW m, NEW l, NEW F, Tiled(m), Linked(m, l, F), NEW b \in F,
           NEW prev, prev = m[Payload(b)].prev,
           NEW next, next = m[Payload(b)].next
    PROVE  /\ b \in BlocksOf(m) /\ Payload(b) \in Units /\ b \in Units
           /\ m[Payload(b)].kind = "links"
           /\ prev \in Units \cup {NULL} /\ next \in Units \cup {NULL}
           /\ prev = NULL => l[Bin(m, b)] = b
           /\ prev # NULL => /\ prev \in F /\ prev # b
                             /\ m[Payload(prev)].next = b
                             /\ Bin(m, prev) = Bin(m, b)
                             /\ l[Bin(m, b)] # b
           /\ next # NULL => /\ next \in F /\ next # b
                             /\ m[Payload(next)].prev = b
                             /\ Bin(m, next) = Bin(m, b)
                             /\ l[Bin(m, b)] # next
           /\ prev # NULL /\ next # NULL => prev # next
<1>1. b \in BlocksOf(m) /\ m[Payload(b)].kind = "links" /\ LinkedIn(m, l, F, b)
  BY DEF Linked, LinkedIn
<1>2. Payload(b) \in Units /\ b \in Units /\ b # NULL
  BY <1>1, BlockPlace, Pool
<1>3. prev \in Units \cup {NULL} /\ next \in Units \cup {NULL}
  BY <1>1, <1>2, LinksWord DEF Tiled
<1>4. Bin(m, b) \in Bins
  BY <1>1, BlockSize
<1>5. ASSUME prev # NULL
      PROVE  prev \in F /\ prev # b /\ m[Payload(prev)].next = b /\ Bin(m, prev) = Bin(m, b) /\ l[Bin(m, b)] # b
  <2>1. prev \in F /\ m[Payload(prev)].next = b
    BY <1>1, <1>5 DEF LinkedIn
  <2>2. LinkedIn(m, l, F, prev)
    BY <2>1 DEF Linked
  <2>3. Bin(m, prev) = Bin(m, b)
    BY <1>2, <2>1, <2>2 DEF LinkedIn
  <2>4. prev # b
    <3>1. {b} \in SUBSET F
      OBVIOUS
    <3>2. \E c \in {b} : m[Payload(c)].prev \notin {b}
      BY <3>1, Zenon DEF Linked
    <3> QED BY <3>2
  <2>5. l[Bin(m, b)] # b
    BY <1>2, <1>4, <1>5 DEF Linked
  <2> QED BY <2>1, <2>3, <2>4, <2>5
<1>6. ASSUME next # NULL
      PROVE  next \in F /\ next # b /\ m[Payload(next)].prev = b /\ Bin(m, next) = Bin(m, b) /\ l[Bin(m, b)] # next
  <2>1. next \in F /\ m[Payload(next)].prev = b /\ Bin(m, next) = Bin(m, b)
    BY <1>1, <1>6 DEF LinkedIn
  <2>2. next # b
    <3>1. {b} \in SUBSET F
      OBVIOUS
    <3>2. \E c \in {b} : m[Payload(c)].prev \notin {b}
      BY <3>1, Zenon DEF Linked
    <3> QED BY <2>1, <3>2
  <2>3. l[Bin(m, b)] # next
    BY <1>2, <1>4, <1>6, <2>1 DEF Linked
  <2> QED BY <2>1, <2>2, <2>3
<1>7. ASSUME prev # NULL, next # NULL, prev = next PROVE FALSE
  <2>1. {b, prev} \in SUBSET F
    BY <1>5, <1>7
  <2>2. \E c \in {b, prev} : m[Payload(c)].prev \notin {b, prev}
    BY <2>1, Zenon DEF Linked
  <2> QED BY <1>6, <1>7, <2>2
<1> QED BY <1>1, <1>2, <1>3, <1>5, <1>6, <1>7 DEF LinkedIn

LEMMA RemoveFreeOK ==
    ASSUME NEW h, NEW X, NEW F, HeapOK(h, X, F), NEW b \in F,
           NEW r, r = RemoveFree(h, b)
    PROVE  /\ HeapOK(r, X, F \ {b})
           /\ SameHeaders(r.mem, h.mem)
<1> DEFINE m == h.mem
           l == h.lists
           bin == Bin(m, b)
           prev == m[Payload(b)].prev
           next == m[Payload(b)].next
           first == IF prev = NULL THEN next ELSE l[bin]
           m2 == r.mem
           l2 == r.lists
           G == F \ {b}
<1>1. /\ DOMAIN h = Fields /\ Tiled(m) /\ Linked(m, l, F) /\ Mapped(l, h.fl, h.sl)
      /\ Flagged(m, X) /\ Merged(m, X)
  BY DEF HeapOK
<1>2. /\ DOMAIN r = Fields
      /\ r = [mem |-> r.mem, lists |-> r.lists, fl |-> r.fl, sl |-> r.sl]
      /\ DOMAIN m2 = Units
      /\ \A a \in Units : m2[a] =
           IF a = Payload(b) THEN Data
           ELSE IF prev # NULL /\ a = Payload(prev) THEN [m[a] EXCEPT !.next = next]
           ELSE IF next # NULL /\ a = Payload(next) THEN [m[a] EXCEPT !.prev = prev]
           ELSE m[a]
      /\ l2 = [l EXCEPT ![bin] = first]
      /\ r.sl = [h.sl EXCEPT ![bin[1]] = IF first = NULL THEN h.sl[bin[1]] \ {bin[2]} ELSE h.sl[bin[1]]]
      /\ r.fl = IF first = NULL /\ r.sl[bin[1]] = {} THEN h.fl \ {bin[1]} ELSE h.fl
  <2> DEFINE sl == IF first = NULL THEN h.sl[bin[1]] \ {bin[2]} ELSE h.sl[bin[1]]
             new == [a \in Units |->
                       IF a = Payload(b) THEN Data
                       ELSE IF prev # NULL /\ a = Payload(prev) THEN [m[a] EXCEPT !.next = next]
                       ELSE IF next # NULL /\ a = Payload(next) THEN [m[a] EXCEPT !.prev = prev]
                       ELSE m[a]]
  <2>1. h = [mem |-> m, lists |-> l, fl |-> h.fl, sl |-> h.sl]
    BY DEF HeapOK
  <2>2. bin[1] \in FirstLevels /\ DOMAIN h.sl = FirstLevels
    BY <1>1, BlockSize DEF Linked, Mapped
  <2>3. r = [mem |-> new, lists |-> [l EXCEPT ![bin] = first],
             fl |-> IF first = NULL /\ sl = {} THEN h.fl \ {bin[1]} ELSE h.fl,
             sl |-> [h.sl EXCEPT ![bin[1]] = sl]]
    BY <2>1 DEF RemoveFree
  <2> HIDE DEF new, sl
  <2>4. /\ DOMAIN r = Fields
        /\ r.mem = new /\ r.lists = [l EXCEPT ![bin] = first]
        /\ r.fl = IF first = NULL /\ sl = {} THEN h.fl \ {bin[1]} ELSE h.fl
        /\ r.sl = [h.sl EXCEPT ![bin[1]] = sl]
    BY <2>3 DEF Fields
  <2>5. r.sl[bin[1]] = sl
    BY <2>2, <2>4
  <2>6. r = [mem |-> r.mem, lists |-> r.lists, fl |-> r.fl, sl |-> r.sl]
    BY <2>3, <2>4
  <2> QED BY <2>4, <2>5, <2>6 DEF new, sl
<1>3. \A c \in F : /\ c \in BlocksOf(m) /\ c \in Units /\ c # NULL /\ Payload(c) \in Units /\ Payload(c) = c + 1
                   /\ m[Payload(c)].kind = "links" /\ m[Payload(c)] \in Words
                   /\ Bin(m, c) \in Bins
  <2> TAKE c \in F
  <2>1. c \in BlocksOf(m) /\ m[Payload(c)].kind = "links"
    BY <1>1 DEF Linked, LinkedIn
  <2>2. c \in Units /\ Payload(c) \in Units /\ Payload(c) = c + 1 /\ Bin(m, c) \in Bins
    BY <1>1, <2>1, BlockPlace, BlockSize
  <2>3. m[Payload(c)] \in Words
    BY <1>1, <2>2 DEF Tiled
  <2> QED BY <2>1, <2>2, <2>3, Pool
<1>4. /\ prev \in Units \cup {NULL} /\ next \in Units \cup {NULL}
      /\ prev = NULL => l[bin] = b
      /\ prev # NULL => prev \in G /\ m[Payload(prev)].next = b /\ Bin(m, prev) = bin /\ l[bin] # b
      /\ next # NULL => next \in G /\ m[Payload(next)].prev = b /\ Bin(m, next) = bin /\ l[bin] # next
      /\ prev # NULL /\ next # NULL => prev # next
  BY <1>1, Neighbours
<1> HIDE DEF m, l, bin, prev, next, m2, l2
<1>5. \A c, d \in F : Payload(c) = Payload(d) => c = d
  BY <1>3, Pool
<1>6. m2[Payload(b)] = Data
  BY <1>2, <1>3
<1>7. \A c \in G : /\ m2[Payload(c)].kind = "links" /\ m2[Payload(c)] \in Words
                   /\ m2[Payload(c)].next = IF c = prev THEN next ELSE m[Payload(c)].next
                   /\ m2[Payload(c)].prev = IF c = next THEN prev ELSE m[Payload(c)].prev
  <2> TAKE c \in G
  <2>1. Payload(c) # Payload(b) /\ Payload(c) \in Units /\ m[Payload(c)] \in Words /\ m[Payload(c)].kind = "links"
    BY <1>3, <1>5
  <2>2. CASE c = prev
    <3>1. m2[Payload(c)] = [m[Payload(c)] EXCEPT !.next = next] /\ c # next
      BY <1>2, <1>3, <1>4, <2>1, <2>2
    <3>2. /\ [m[Payload(c)] EXCEPT !.next = next] \in Words
          /\ [m[Payload(c)] EXCEPT !.next = next].kind = "links"
          /\ [m[Payload(c)] EXCEPT !.next = next].next = next
          /\ [m[Payload(c)] EXCEPT !.next = next].prev = m[Payload(c)].prev
      BY <1>4, <2>1, Relinked
    <3> QED BY <2>2, <3>1, <3>2
  <2>3. CASE c # prev /\ c = next
    <3>1. prev # NULL => Payload(c) # Payload(prev)
      BY <1>4, <1>5, <2>3
    <3>2. m2[Payload(c)] = [m[Payload(c)] EXCEPT !.prev = prev]
      BY <1>2, <1>3, <2>1, <2>3, <3>1
    <3>3. /\ [m[Payload(c)] EXCEPT !.prev = prev] \in Words
          /\ [m[Payload(c)] EXCEPT !.prev = prev].kind = "links"
          /\ [m[Payload(c)] EXCEPT !.prev = prev].prev = prev
          /\ [m[Payload(c)] EXCEPT !.prev = prev].next = m[Payload(c)].next
      BY <1>4, <2>1, Relinked, ZenonT(40)
    <3> QED BY <2>3, <3>2, <3>3
  <2>4. CASE c # prev /\ c # next
    <3>1. (prev # NULL => Payload(c) # Payload(prev)) /\ (next # NULL => Payload(c) # Payload(next))
      BY <1>4, <1>5, <2>4
    <3>2. m2[Payload(c)] = m[Payload(c)]
      BY <1>2, <2>1, <3>1
    <3> QED BY <2>1, <2>4, <3>2
  <2> QED BY <2>2, <2>3, <2>4
<1>8. \A a \in Units : (\A c \in F : a # Payload(c)) => m2[a] = m[a]
  BY <1>2, <1>4
<1>9. SameHeaders(m2, m)
  <2> SUFFICES ASSUME NEW a \in Units
               PROVE  /\ m2[a] \in Words
                      /\ m2[a].kind = "header" <=> m[a].kind = "header"
                      /\ m[a].kind = "header" => m2[a] = m[a]
    BY <1>2 DEF SameHeaders
  <2>1. CASE \A c \in F : a # Payload(c)
    BY <1>1, <1>8, <2>1 DEF Tiled
  <2>2. CASE \E c \in F : a = Payload(c)
    BY <1>3, <1>6, <1>7, <2>2, NewWords
  <2> QED BY <2>1, <2>2
<1>10. \A c \in BlocksOf(m) : Bin(m2, c) = Bin(m, c)
  BY <1>1, <1>9, BlocksKept
<1>11. /\ DOMAIN l2 = Bins /\ bin \in Bins
       /\ \A i \in Bins : l2[i] = IF i = bin THEN first ELSE l[i]
       /\ l2[bin] = first
  BY <1>1, <1>2, <1>3 DEF bin, Linked
<1>12. Linked(m2, l2, G)
  <2>1. G \subseteq BlocksOf(m2)
    BY <1>1, <1>3, <1>9, BlocksKept
  <2>2. ASSUME NEW c \in G PROVE LinkedIn(m2, l2, G, c)
    <3> DEFINE p == m[Payload(c)].prev
               n == m[Payload(c)].next
    <3>1. /\ c \in F /\ c # b
          /\ p = NULL => l[Bin(m, c)] = c
          /\ p # NULL => p \in F /\ m[Payload(p)].next = c /\ p # c /\ Bin(m, p) = Bin(m, c)
          /\ n # NULL => n \in F /\ m[Payload(n)].prev = c /\ n # c /\ Bin(m, n) = Bin(m, c)
      BY <1>1, Neighbours
    <3> HIDE DEF p, n
    <3>2. /\ m2[Payload(c)].next = IF c = prev THEN next ELSE n
          /\ m2[Payload(c)].prev = IF c = next THEN prev ELSE p
      BY <1>7 DEF p, n
    <3>3. (p = b => c = next) /\ (n = b => c = prev)
      BY <1>3, <3>1 DEF next, prev, m
    <3>4. m2[Payload(c)].prev = NULL => l2[Bin(m2, c)] = c
      <4>1. CASE c = next
        BY <1>3, <1>4, <1>10, <1>11, <3>1, <3>2, <4>1
      <4>2. CASE c # next /\ p = NULL
        <5>1. Bin(m, c) = bin => prev # NULL
          BY <1>4, <3>1, <4>2
        <5> QED BY <1>3, <1>10, <1>11, <3>1, <4>2, <5>1
      <4> QED BY <3>2, <4>1, <4>2
    <3>5. m2[Payload(c)].prev # NULL =>
            m2[Payload(c)].prev \in G /\ m2[Payload(m2[Payload(c)].prev)].next = c
      <4>1. CASE c = next
        BY <1>3, <1>4, <1>7, <3>2, <4>1
      <4>2. CASE c # next
        <5>1. p # NULL => p \in G /\ p # prev
          BY <1>4, <3>1, <3>3, <4>2
        <5> QED BY <1>7, <3>1, <3>2, <4>2, <5>1 DEF n, p
      <4> QED BY <4>1, <4>2
    <3>6. m2[Payload(c)].next # NULL =>
            /\ m2[Payload(c)].next \in G
            /\ Bin(m2, m2[Payload(c)].next) = Bin(m2, c)
            /\ m2[Payload(m2[Payload(c)].next)].prev = c
      <4>1. CASE c = prev
        BY <1>3, <1>4, <1>7, <1>10, <3>2, <4>1
      <4>2. CASE c # prev
        <5>1. n # NULL => n \in G /\ n # next
          BY <1>4, <3>1, <3>3, <4>2
        <5> QED BY <1>3, <1>7, <1>10, <3>1, <3>2, <4>2, <5>1 DEF n, p
      <4> QED BY <4>1, <4>2
    <3> QED BY <1>7, <3>4, <3>5, <3>6 DEF LinkedIn
  <2>3. ASSUME NEW a \in Units, m2[a].kind = "links" PROVE FromPayload(a) \in G
    <3>1. CASE \A c \in F : a # Payload(c)
      <4>1. m[a].kind = "links"
        BY <1>8, <2>3, <3>1
      <4>2. FromPayload(a) \in F
        BY <1>1, <4>1 DEF Linked
      <4>3. Payload(FromPayload(a)) = a
        BY Pool DEF Payload, FromPayload
      <4> QED BY <3>1, <4>2, <4>3
    <3>2. CASE \E c \in F : a = Payload(c)
      <4>1. PICK c \in F : a = Payload(c)
        BY <3>2
      <4>2. c # b
        BY <1>6, <2>3, <4>1, NewWords
      <4>3. FromPayload(a) = c
        BY <1>3, <4>1, Pool DEF FromPayload
      <4> QED BY <4>2, <4>3
    <3> QED BY <3>1, <3>2
  <2>4. ASSUME NEW i \in Bins, l2[i] # NULL
        PROVE  l2[i] \in G /\ Bin(m2, l2[i]) = i /\ m2[Payload(l2[i])].prev = NULL
    <3>1. CASE i = bin /\ prev = NULL
      BY <1>3, <1>4, <1>7, <1>10, <1>11, <2>4, <3>1
    <3>2. CASE i # bin \/ prev # NULL
      <4>1. l2[i] = l[i]
        BY <1>11, <3>2
      <4>2. l[i] \in F /\ Bin(m, l[i]) = i /\ m[Payload(l[i])].prev = NULL
        BY <1>1, <2>4, <4>1 DEF Linked
      <4>3. l[i] # b
        BY <1>4, <3>2, <4>2 DEF bin, prev
      <4>4. l[i] # next
        BY <1>3, <1>4, <4>2
      <4> QED BY <1>3, <1>7, <1>10, <4>1, <4>2, <4>3, <4>4
    <3> QED BY <3>1, <3>2
  <2>5. ASSUME NEW S \in SUBSET G, S # {} PROVE \E c \in S : m2[Payload(c)].prev \notin S
    <3>1. CASE next \notin S
      <4>1. PICK c \in S : m[Payload(c)].prev \notin S
        BY <1>1, <2>5 DEF Linked
      <4> QED BY <1>7, <3>1, <4>1
    <3>2. CASE next \in S
      <4>1. S \cup {b} \in SUBSET F
        OBVIOUS
      <4>2. PICK c \in S \cup {b} : m[Payload(c)].prev \notin S \cup {b}
        BY <1>1, <4>1 DEF Linked
      <4>3. CASE c = b
        BY <1>7, <3>2, <4>2, <4>3 DEF prev, m
      <4>4. CASE c # b
        <5>1. c # next
          BY <1>3, <1>4, <3>2, <4>2
        <5> QED BY <1>7, <4>2, <4>4, <5>1
      <4> QED BY <4>3, <4>4
    <3> QED BY <3>1, <3>2
  <2> QED BY <1>11, <2>1, <2>2, <2>3, <2>4, <2>5 DEF Linked
<1>13. Mapped(l2, r.fl, r.sl)
  <2>1. bin = <<bin[1], bin[2]>> /\ bin[1] \in FirstLevels /\ bin[2] \in SecondLevels
    BY <1>11 DEF Bins
  <2>2. /\ DOMAIN r.sl = FirstLevels
        /\ \A i \in FirstLevels : r.sl[i] =
             IF i = bin[1] /\ first = NULL THEN h.sl[i] \ {bin[2]} ELSE h.sl[i]
    <3>1. DOMAIN h.sl = FirstLevels
      BY <1>1 DEF Mapped
    <3> QED BY <1>2, <2>1, <3>1
  <2>3. \A i \in FirstLevels, j \in SecondLevels :
          l2[<<i, j>>] = IF i = bin[1] /\ j = bin[2] THEN first ELSE l[<<i, j>>]
    <3> TAKE i \in FirstLevels, j \in SecondLevels
    <3>1. <<i, j>> \in Bins /\ (<<i, j>> = bin <=> i = bin[1] /\ j = bin[2])
      BY <2>1 DEF Bins
    <3> QED BY <1>11, <3>1
  <2>4. first # NULL => l[<<bin[1], bin[2]>>] # NULL
    BY <1>3, <1>4, <2>1
  <2>5. \A i \in FirstLevels, j \in SecondLevels : j \in r.sl[i] <=> l2[<<i, j>>] # NULL
    <3> TAKE i \in FirstLevels, j \in SecondLevels
    <3>1. j \in h.sl[i] <=> l[<<i, j>>] # NULL
      BY <1>1 DEF Mapped
    <3> HIDE DEF first
    <3>2. CASE i = bin[1] /\ j = bin[2]
      BY <2>2, <2>3, <2>4, <3>1, <3>2
    <3>3. CASE i # bin[1] \/ j # bin[2]
      BY <2>2, <2>3, <3>1, <3>3, ZenonT(40)
    <3> QED BY <3>2, <3>3
  <2>6. \A i \in FirstLevels : r.sl[i] \subseteq SecondLevels
    BY <1>1, <2>2 DEF Mapped
  <2>7. r.fl \subseteq FirstLevels
    BY <1>1, <1>2 DEF Mapped
  <2>8. \A i \in FirstLevels : i \in r.fl <=> r.sl[i] # {}
    <3> TAKE i \in FirstLevels
    <3>1. i \in h.fl <=> h.sl[i] # {}
      BY <1>1 DEF Mapped
    <3> QED BY <1>2, <2>1, <2>2, <3>1
  <2> QED BY <2>2, <2>5, <2>6, <2>7, <2>8 DEF Mapped
<1> QED BY <1>1, <1>2, <1>9, <1>12, <1>13, BlocksKept DEF HeapOK, m, m2, l2

LEMMA InsertFreeOK ==
    ASSUME NEW h, NEW X, NEW F, HeapOK(h, X, F), NEW b \in BlocksOf(h.mem) \ F,
           NEW r, r = InsertFree(h, b)
    PROVE  /\ HeapOK(r, X, F \cup {b})
           /\ SameHeaders(r.mem, h.mem)
<1> DEFINE m == h.mem
           l == h.lists
           bin == Bin(m, b)
           head == l[bin]
           m2 == r.mem
           l2 == r.lists
           G == F \cup {b}
<1>1. /\ DOMAIN h = Fields /\ Tiled(m) /\ Linked(m, l, F) /\ Mapped(l, h.fl, h.sl)
      /\ Flagged(m, X) /\ Merged(m, X)
  BY DEF HeapOK
<1>2. /\ DOMAIN r = Fields
      /\ r = [mem |-> r.mem, lists |-> r.lists, fl |-> r.fl, sl |-> r.sl]
      /\ DOMAIN m2 = Units
      /\ \A a \in Units : m2[a] =
           IF a = Payload(b) THEN Links(NULL, head)
           ELSE IF head # NULL /\ a = Payload(head) THEN [m[a] EXCEPT !.prev = b]
           ELSE m[a]
      /\ l2 = [l EXCEPT ![bin] = b]
      /\ r.sl = [h.sl EXCEPT ![bin[1]] = @ \cup {bin[2]}]
      /\ r.fl = h.fl \cup {bin[1]}
  <2> DEFINE new == [a \in Units |->
                       IF a = Payload(b) THEN Links(NULL, head)
                       ELSE IF head # NULL /\ a = Payload(head) THEN [m[a] EXCEPT !.prev = b]
                       ELSE m[a]]
  <2>1. h = [mem |-> m, lists |-> l, fl |-> h.fl, sl |-> h.sl]
    BY DEF HeapOK
  <2>2. r = [mem |-> new, lists |-> [l EXCEPT ![bin] = b],
             fl |-> h.fl \cup {bin[1]}, sl |-> [h.sl EXCEPT ![bin[1]] = @ \cup {bin[2]}]]
    BY <2>1 DEF InsertFree
  <2> HIDE DEF new
  <2>3. /\ DOMAIN r = Fields
        /\ r.mem = new /\ r.lists = [l EXCEPT ![bin] = b]
        /\ r.fl = h.fl \cup {bin[1]}
        /\ r.sl = [h.sl EXCEPT ![bin[1]] = @ \cup {bin[2]}]
    BY <2>2 DEF Fields
  <2>4. r = [mem |-> r.mem, lists |-> r.lists, fl |-> r.fl, sl |-> r.sl]
    BY <2>2, <2>3
  <2> QED BY <2>3, <2>4 DEF new
<1>3. \A c \in G : /\ c \in BlocksOf(m) /\ c \in Units /\ c # NULL /\ Payload(c) \in Units /\ Payload(c) = c + 1
                   /\ Bin(m, c) \in Bins
  <2> TAKE c \in G
  <2>1. c \in BlocksOf(m)
    BY <1>1 DEF Linked
  <2>2. c \in Units /\ Payload(c) \in Units /\ Payload(c) = c + 1 /\ Bin(m, c) \in Bins
    BY <1>1, <2>1, BlockPlace, BlockSize
  <2> QED BY <2>1, <2>2, Pool
<1>4. \A c \in F : m[Payload(c)].kind = "links" /\ m[Payload(c)] \in Words
  BY <1>1, <1>3 DEF Linked, LinkedIn, Tiled
<1>5. /\ bin \in Bins
      /\ head # NULL => head \in F /\ head # b /\ Bin(m, head) = bin /\ m[Payload(head)].prev = NULL
  BY <1>1, <1>3 DEF Linked
<1>6. m[Payload(b)].kind # "header"
  BY <1>1, BlockPlace
<1> HIDE DEF m, l, bin, head, m2, l2
<1>7. \A c, d \in G : Payload(c) = Payload(d) => c = d
  BY <1>3, Pool
<1>8. head \in Units \cup {NULL}
  BY <1>3, <1>5
<1>9. /\ m2[Payload(b)] \in Words /\ m2[Payload(b)].kind = "links"
      /\ m2[Payload(b)].prev = NULL /\ m2[Payload(b)].next = head
  <2>1. m2[Payload(b)] = Links(NULL, head)
    BY <1>2, <1>3
  <2>2. /\ Links(NULL, head) \in Words /\ Links(NULL, head).kind = "links"
        /\ Links(NULL, head).prev = NULL /\ Links(NULL, head).next = head
    BY <1>8, NewWords
  <2> QED BY <2>1, <2>2
<1>10. \A c \in F : /\ m2[Payload(c)].kind = "links" /\ m2[Payload(c)] \in Words
                    /\ m2[Payload(c)].next = m[Payload(c)].next
                    /\ m2[Payload(c)].prev = IF c = head THEN b ELSE m[Payload(c)].prev
  <2> TAKE c \in F
  <2>1. Payload(c) # Payload(b) /\ Payload(c) \in Units /\ m[Payload(c)] \in Words /\ m[Payload(c)].kind = "links"
    BY <1>3, <1>4, <1>7
  <2>2. CASE c = head
    <3>1. m2[Payload(c)] = [m[Payload(c)] EXCEPT !.prev = b]
      <4>1. head # NULL
        BY <1>3, <2>2
      <4> QED BY <1>2, <2>1, <2>2, <4>1
    <3>2. /\ [m[Payload(c)] EXCEPT !.prev = b] \in Words
          /\ [m[Payload(c)] EXCEPT !.prev = b].kind = "links"
          /\ [m[Payload(c)] EXCEPT !.prev = b].prev = b
          /\ [m[Payload(c)] EXCEPT !.prev = b].next = m[Payload(c)].next
      <4>1. b \in Units \cup {NULL}
        BY <1>3
      <4> QED BY <2>1, <4>1, Relinked
    <3> QED BY <2>2, <3>1, <3>2
  <2>3. CASE c # head
    <3>1. head # NULL => Payload(c) # Payload(head)
      BY <1>5, <1>7, <2>3
    <3>2. m2[Payload(c)] = m[Payload(c)]
      BY <1>2, <2>1, <3>1
    <3> QED BY <2>1, <2>3, <3>2
  <2> QED BY <2>2, <2>3
<1>11. \A a \in Units : (\A c \in G : a # Payload(c)) => m2[a] = m[a]
  BY <1>2, <1>5
<1>12. SameHeaders(m2, m)
  <2> SUFFICES ASSUME NEW a \in Units
               PROVE  /\ m2[a] \in Words
                      /\ m2[a].kind = "header" <=> m[a].kind = "header"
                      /\ m[a].kind = "header" => m2[a] = m[a]
    BY <1>2 DEF SameHeaders
  <2>1. CASE \A c \in G : a # Payload(c)
    BY <1>1, <1>11, <2>1 DEF Tiled
  <2>2. CASE \E c \in G : a = Payload(c)
    BY <1>4, <1>6, <1>9, <1>10, <2>2 DEF m
  <2> QED BY <2>1, <2>2
<1>13. \A c \in BlocksOf(m) : Bin(m2, c) = Bin(m, c)
  BY <1>1, <1>12, BlocksKept
<1>14. /\ DOMAIN l2 = Bins
       /\ \A i \in Bins : l2[i] = IF i = bin THEN b ELSE l[i]
       /\ l2[bin] = b
  BY <1>1, <1>2, <1>5 DEF Linked
<1>15. Linked(m2, l2, G)
  <2>1. G \subseteq BlocksOf(m2)
    BY <1>1, <1>3, <1>12, BlocksKept
  <2>2. LinkedIn(m2, l2, G, b)
    BY <1>3, <1>5, <1>9, <1>10, <1>13, <1>14 DEF LinkedIn, bin, m
  <2>3. ASSUME NEW c \in F PROVE LinkedIn(m2, l2, G, c)
    <3> DEFINE p == m[Payload(c)].prev
               n == m[Payload(c)].next
    <3>1. /\ p = NULL => l[Bin(m, c)] = c
          /\ p # NULL => p \in F /\ m[Payload(p)].next = c
          /\ n # NULL => n \in F /\ m[Payload(n)].prev = c /\ Bin(m, n) = Bin(m, c)
      BY <1>1 DEF Linked, LinkedIn
    <3> HIDE DEF p, n
    <3>2. /\ m2[Payload(c)].next = n
          /\ m2[Payload(c)].prev = IF c = head THEN b ELSE p
      BY <1>10 DEF p, n
    <3>3. m2[Payload(c)].prev = NULL => l2[Bin(m2, c)] = c
      <4>1. c # head /\ p = NULL => Bin(m, c) # bin
        BY <3>1 DEF head
      <4> QED BY <1>3, <1>13, <1>14, <3>1, <3>2, <4>1
    <3>4. m2[Payload(c)].prev # NULL =>
            m2[Payload(c)].prev \in G /\ m2[Payload(m2[Payload(c)].prev)].next = c
      BY <1>9, <1>10, <3>1, <3>2
    <3>5. m2[Payload(c)].next # NULL =>
            /\ m2[Payload(c)].next \in G
            /\ Bin(m2, m2[Payload(c)].next) = Bin(m2, c)
            /\ m2[Payload(m2[Payload(c)].next)].prev = c
      <4>1. n # NULL => n # head
        BY <1>3, <1>5, <3>1
      <4> QED BY <1>3, <1>10, <1>13, <3>1, <3>2, <4>1
    <3> QED BY <1>10, <3>3, <3>4, <3>5 DEF LinkedIn
  <2>4. ASSUME NEW a \in Units, m2[a].kind = "links" PROVE FromPayload(a) \in G
    <3>1. CASE \A c \in G : a # Payload(c)
      BY <1>1, <1>11, <2>4, <3>1 DEF Linked
    <3>2. CASE \E c \in G : a = Payload(c)
      <4>1. PICK c \in G : a = Payload(c)
        BY <3>2
      <4>2. FromPayload(a) = c
        BY <1>3, <4>1, Pool DEF FromPayload
      <4> QED BY <4>2
    <3> QED BY <3>1, <3>2
  <2>5. ASSUME NEW i \in Bins, l2[i] # NULL
        PROVE  l2[i] \in G /\ Bin(m2, l2[i]) = i /\ m2[Payload(l2[i])].prev = NULL
    <3>1. CASE i = bin
      BY <1>3, <1>9, <1>13, <1>14, <3>1 DEF bin
    <3>2. CASE i # bin
      <4>1. l2[i] = l[i]
        BY <1>14, <3>2
      <4>2. l[i] \in F /\ Bin(m, l[i]) = i /\ m[Payload(l[i])].prev = NULL
        BY <1>1, <2>5, <4>1 DEF Linked
      <4>3. l[i] # head
        BY <1>3, <1>5, <3>2, <4>2
      <4> QED BY <1>3, <1>10, <1>13, <4>1, <4>2, <4>3
    <3> QED BY <3>1, <3>2
  <2>6. ASSUME NEW S \in SUBSET G, S # {} PROVE \E c \in S : m2[Payload(c)].prev \notin S
    <3>1. CASE b \in S
      <4>1. NULL \notin S
        BY <1>3
      <4> QED BY <1>9, <3>1, <4>1
    <3>2. CASE b \notin S
      <4>1. S \in SUBSET F
        BY <3>2
      <4>2. PICK c \in S : m[Payload(c)].prev \notin S
        BY <1>1, <2>6, <4>1 DEF Linked
      <4> QED BY <1>10, <3>2, <4>1, <4>2
    <3> QED BY <3>1, <3>2
  <2> QED BY <1>14, <2>1, <2>2, <2>3, <2>4, <2>5, <2>6 DEF Linked
<1>16. Mapped(l2, r.fl, r.sl)
  <2>1. bin = <<bin[1], bin[2]>> /\ bin[1] \in FirstLevels /\ bin[2] \in SecondLevels
    BY <1>5 DEF Bins
  <2>2. /\ DOMAIN r.sl = FirstLevels
        /\ \A i \in FirstLevels : r.sl[i] = IF i = bin[1] THEN h.sl[i] \cup {bin[2]} ELSE h.sl[i]
    <3>1. DOMAIN h.sl = FirstLevels
      BY <1>1 DEF Mapped
    <3> QED BY <1>2, <2>1, <3>1
  <2>3. \A i \in FirstLevels, j \in SecondLevels :
          l2[<<i, j>>] = IF i = bin[1] /\ j = bin[2] THEN b ELSE l[<<i, j>>]
    <3> TAKE i \in FirstLevels, j \in SecondLevels
    <3>1. <<i, j>> \in Bins /\ (<<i, j>> = bin <=> i = bin[1] /\ j = bin[2])
      BY <2>1 DEF Bins
    <3>2. l2[<<i, j>>] = IF <<i, j>> = bin THEN b ELSE l[<<i, j>>]
      BY <1>14, <3>1
    <3> QED BY <3>1, <3>2
  <2>4. \A i \in FirstLevels, j \in SecondLevels : j \in r.sl[i] <=> l2[<<i, j>>] # NULL
    <3> TAKE i \in FirstLevels, j \in SecondLevels
    <3>1. j \in h.sl[i] <=> l[<<i, j>>] # NULL
      BY <1>1 DEF Mapped
    <3>2. b # NULL
      BY <1>3
    <3>3. CASE i = bin[1]
      <4>1. r.sl[i] = h.sl[i] \cup {bin[2]}
        BY <2>2, <3>3
      <4>2. l2[<<i, j>>] = IF j = bin[2] THEN b ELSE l[<<i, j>>]
        BY <2>3, <3>3
      <4> QED BY <3>1, <3>2, <4>1, <4>2
    <3>4. CASE i # bin[1]
      <4>1. r.sl[i] = h.sl[i]
        BY <2>2, <3>4
      <4>2. l2[<<i, j>>] = l[<<i, j>>]
        BY <2>3, <3>4
      <4> QED BY <3>1, <4>1, <4>2
    <3> QED BY <3>3, <3>4
  <2>5. \A i \in FirstLevels : r.sl[i] \subseteq SecondLevels
    <3> TAKE i \in FirstLevels
    <3>1. h.sl[i] \subseteq SecondLevels
      BY <1>1 DEF Mapped
    <3>2. r.sl[i] = h.sl[i] \cup {bin[2]} \/ r.sl[i] = h.sl[i]
      BY <2>2
    <3> QED BY <2>1, <3>1, <3>2
  <2>6. r.fl \subseteq FirstLevels
    BY <1>1, <1>2, <2>1 DEF Mapped
  <2>7. \A i \in FirstLevels : i \in r.fl <=> r.sl[i] # {}
    <3> TAKE i \in FirstLevels
    <3>1. i \in h.fl <=> h.sl[i] # {}
      BY <1>1 DEF Mapped
    <3> QED BY <1>2, <2>1, <2>2, <3>1
  <2> QED BY <2>2, <2>4, <2>5, <2>6, <2>7 DEF Mapped
<1> QED BY <1>1, <1>2, <1>12, <1>15, <1>16, BlocksKept DEF HeapOK, m, m2, l2

(* The list of a free block has a first block: otherwise its blocks would
   all have one in front. *)
LEMMA ListNotEmpty ==
    ASSUME NEW m, NEW l, NEW F, Tiled(m), Linked(m, l, F), NEW f \in F
    PROVE  l[Bin(m, f)] # NULL
<1> DEFINE S == {c \in F : Bin(m, c) = Bin(m, f)}
<1>1. S \in SUBSET F /\ S # {}
  OBVIOUS
<1>2. PICK c \in S : m[Payload(c)].prev \notin S
  <2> HIDE DEF S
  <2> QED BY <1>1 DEF Linked
<1>3. c \in F /\ Bin(m, c) = Bin(m, f)
  BY <1>2
<1>4. m[Payload(c)].prev = NULL
  <2> SUFFICES ASSUME m[Payload(c)].prev # NULL PROVE FALSE
    OBVIOUS
  <2>1. m[Payload(c)].prev \in F /\ Bin(m, m[Payload(c)].prev) = Bin(m, c)
    BY <1>3, Neighbours
  <2> QED BY <1>2, <1>3, <2>1
<1>5. l[Bin(m, c)] = c
  BY <1>3, <1>4 DEF Linked, LinkedIn
<1>6. c # NULL
  BY <1>3, Neighbours, Pool
<1> QED BY <1>3, <1>5, <1>6

LEMMA LowestIs ==
    ASSUME NEW S, S \subseteq Nat, S # {}
    PROVE  Lowest(S) \in S
<1>1. \E i \in S : \A j \in S : i <= j
  BY Least
<1> QED BY <1>1 DEF Lowest

(* find_suitable: what is found is free and long enough, and nothing is
   found only if no free block is as long as the request rounded up. *)
LEMMA FindSuitableOK ==
    ASSUME NEW h, NEW X, NEW F, HeapOK(h, X, F),
           NEW n \in Nat, n >= MIN_PAYLOAD, n < P2(FL_MAX + 1),
           NEW b, b = FindSuitable(h, n)
    PROVE  /\ b # NULL => b \in F /\ n <= ALIGN * h.mem[b].size
           /\ b = NULL => \A f \in F : ALIGN * h.mem[f].size < n + SearchRound(n)
<1> DEFINE start == mapping_search(n)
           same  == {j \in h.sl[start[1]] : j >= start[2]}
           above == {i \in h.fl : i > start[1]}
           fl    == Lowest(above)
<1>1. Tiled(h.mem) /\ Linked(h.mem, h.lists, F) /\ Mapped(h.lists, h.fl, h.sl)
  BY DEF HeapOK
<1>2. /\ start[1] \in Int /\ start[1] + 4 \in 4..(FL_MAX + 1) /\ start[2] \in SecondLevels
  BY SearchStart
<1>3. FL_COUNT = FL_MAX - 3 /\ FirstLevels = 0..(FL_COUNT - 1) /\ FL_MAX \in Nat
      /\ FirstLevels \subseteq Nat /\ SecondLevels \subseteq Nat
  BY P2Laws DEF FL_COUNT, FL_SHIFT, FirstLevels, SecondLevels
<1>4. b = IF start[1] >= FL_COUNT THEN NULL
          ELSE IF same # {} THEN h.lists[<<start[1], Lowest(same)>>]
          ELSE IF above # {} THEN h.lists[<<fl, Lowest(h.sl[fl])>>]
          ELSE NULL
  BY DEF FindSuitable
<1>5. ASSUME NEW i \in FirstLevels, NEW j \in h.sl[i], AtOrAfter(<<i, j>>, start),
             b = h.lists[<<i, j>>]
      PROVE  b # NULL /\ b \in F /\ n <= ALIGN * h.mem[b].size
  <2>1. j \in SecondLevels /\ b # NULL /\ <<i, j>> \in Bins
    BY <1>1, <1>5 DEF Mapped, Bins
  <2>2. b \in F /\ Bin(h.mem, b) = <<i, j>>
    BY <1>1, <1>5, <2>1 DEF Linked
  <2>3. b \in BlocksOf(h.mem)
    BY <1>1, <2>2 DEF Linked
  <2>4. AtOrAfter(mapping(ALIGN * h.mem[b].size), mapping_search(n))
    BY <1>5, <2>2 DEF Bin
  <2> QED BY <1>1, <2>1, <2>2, <2>3, <2>4, BlockSize, Served
<1>6. ASSUME start[1] < FL_COUNT, same # {}
      PROVE  b # NULL /\ b \in F /\ n <= ALIGN * h.mem[b].size
  <2>1. start[1] \in FirstLevels
    BY <1>2, <1>3, <1>6
  <2>2. same \subseteq Nat
    BY <1>1, <1>3, <2>1 DEF Mapped
  <2>3. Lowest(same) \in same
    <3> HIDE DEF same
    <3> QED BY <1>6, <2>2, LowestIs
  <2>4. Lowest(same) \in h.sl[start[1]] /\ AtOrAfter(<<start[1], Lowest(same)>>, start)
    BY <2>3 DEF AtOrAfter
  <2>5. b = h.lists[<<start[1], Lowest(same)>>]
    <3>1. ~ (start[1] >= FL_COUNT)
      BY <1>2, <1>3, <1>6
    <3> QED BY <1>4, <1>6, <3>1
  <2> QED BY <1>5, <2>1, <2>4, <2>5
<1>7. ASSUME start[1] < FL_COUNT, same = {}, above # {}
      PROVE  b # NULL /\ b \in F /\ n <= ALIGN * h.mem[b].size
  <2>1. above \subseteq Nat
    BY <1>1, <1>3 DEF Mapped
  <2>2. fl \in above
    <3> HIDE DEF above
    <3> QED BY <1>7, <2>1, LowestIs
  <2>3. fl \in FirstLevels /\ fl > start[1] /\ h.sl[fl] # {} /\ h.sl[fl] \subseteq SecondLevels
    <3>1. fl \in h.fl /\ fl > start[1]
      BY <2>2
    <3> HIDE DEF fl
    <3> QED BY <1>1, <3>1 DEF Mapped
  <2>4. Lowest(h.sl[fl]) \in h.sl[fl]
    BY <1>3, <2>3, LowestIs
  <2>5. AtOrAfter(<<fl, Lowest(h.sl[fl])>>, start)
    BY <2>3 DEF AtOrAfter
  <2>6. b = h.lists[<<fl, Lowest(h.sl[fl])>>]
    <3>1. ~ (start[1] >= FL_COUNT)
      BY <1>2, <1>3, <1>7
    <3> QED BY <1>4, <1>7, <3>1
  <2> QED BY <1>5, <2>3, <2>4, <2>5, <2>6
<1>8. ASSUME NEW f \in F, n + SearchRound(n) <= ALIGN * h.mem[f].size
      PROVE  start[1] < FL_COUNT /\ (same # {} \/ above # {})
  <2> DEFINE bin == Bin(h.mem, f)
  <2>1. f \in BlocksOf(h.mem)
    BY <1>1 DEF Linked
  <2>2. start[1] < FL_COUNT /\ AtOrAfter(bin, start)
    BY <1>1, <1>8, <2>1, BlockSize, Missed DEF Bin
  <2>3. bin[1] \in FirstLevels /\ bin[2] \in SecondLevels /\ bin = <<bin[1], bin[2]>>
    BY <1>1, <2>1, BlockSize
  <2>4. h.lists[<<bin[1], bin[2]>>] # NULL
    BY <1>1, <2>3, ListNotEmpty
  <2> HIDE DEF bin
  <2>5. bin[2] \in h.sl[bin[1]] /\ bin[1] \in h.fl
    BY <1>1, <2>3, <2>4 DEF Mapped
  <2> QED BY <2>2, <2>5 DEF AtOrAfter
<1>9. ASSUME b = NULL, NEW f \in F
      PROVE  ALIGN * h.mem[f].size < n + SearchRound(n)
  <2>1. ~ (n + SearchRound(n) <= ALIGN * h.mem[f].size)
    BY <1>6, <1>7, <1>8, <1>9
  <2>2. f \in BlocksOf(h.mem)
    BY <1>1 DEF Linked
  <2>3. ALIGN * h.mem[f].size \in Nat /\ n + SearchRound(n) \in Nat
    BY <1>1, <2>2, BlockSize, Rounded
  <2> QED BY <2>1, <2>3
<1>10. ASSUME b # NULL PROVE b \in F /\ n <= ALIGN * h.mem[b].size
  <2>1. start[1] < FL_COUNT
    BY <1>2, <1>3, <1>4, <1>10
  <2>2. same # {} \/ above # {}
    <3> HIDE DEF start, same, above, fl
    <3> QED BY <1>4, <1>10
  <2> QED BY <1>6, <1>7, <2>1, <2>2
<1> QED BY <1>9, <1>10
=============================================================================
