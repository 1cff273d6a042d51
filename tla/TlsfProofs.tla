----------------------------- MODULE TlsfProofs -----------------------------
(***************************************************************************)
(* The calls of the TLSF allocator: how each part of alloc and free        *)
(* changes the blocks, that the calls keep the invariant HeapInv, and what *)
(* follows from it: the properties of the run tlsf, the refinement of the  *)
(* abstract heap included, for every pool and every set of requests.       *)
(***************************************************************************)
EXTENDS TlsfListProofs

(* The blocks in use: what the application holds. *)
UsedOf(m) == BlocksOf(m) \ FreeOf(m)
-----------------------------------------------------------------------------
(* A block starts where an earlier one has ended. *)
LEMMA InOrder ==
    ASSUME NEW m, Tiled(m), NEW b \in BlocksOf(m), NEW c \in BlocksOf(m) \cup {Sentinel}, b < c
    PROVE  NextPhys(m, b) <= c
<1>1. c \in Units /\ m[c].kind = "header" /\ c \in Int
  BY Pool DEF BlocksOf, Tiled
<1>2. ~ (c < NextPhys(m, b))
  BY <1>1 DEF Tiled
<1>3. NextPhys(m, b) \in Int
  BY BlockPlace, Pool
<1> QED BY <1>1, <1>2, <1>3

LEMMA NextOnce ==
    ASSUME NEW m, Tiled(m), NEW b \in BlocksOf(m), NEW c \in BlocksOf(m),
           NextPhys(m, b) = NextPhys(m, c)
    PROVE  b = c
<1>1. b \in Int /\ c \in Int /\ b < NextPhys(m, b) /\ c < NextPhys(m, c) /\ NextPhys(m, b) \in Int
  BY BlockPlace, Pool
<1>2. ~ (b < c) /\ ~ (c < b)
  BY <1>1, InOrder
<1> QED BY <1>1, <1>2

(* The block behind another leads back to it. *)
LEMMA Back ==
    ASSUME NEW m, Tiled(m), NEW b \in BlocksOf(m)
    PROVE  /\ PrevPhys(m, NextPhys(m, b)) = b
           /\ m[NextPhys(m, b)].prev_phys_size = m[b].size
<1> DEFINE n == NextPhys(m, b)
<1>1. n \in BlocksOf(m) \cup {Sentinel} /\ n # 0 /\ n = b + 1 + m[b].size /\ n \in Units /\ b \in Units
      /\ m[b].size \in Sizes /\ m[n].kind = "header"
  BY BlockPlace
<1>2. PrevPhys(m, n) \in BlocksOf(m) /\ NextPhys(m, PrevPhys(m, n)) = n
  BY <1>1 DEF Tiled
<1>3. PrevPhys(m, n) = b
  BY <1>2, NextOnce
<1>4. m[n].prev_phys_size \in Sizes
  BY <1>1, HeaderWord DEF Tiled
<1>5. PrevPhys(m, n) = n - (m[n].prev_phys_size + 1)
  BY DEF PrevPhys
<1> HIDE DEF n
<1>6. m[n].prev_phys_size = m[b].size
  <2>1. b \in Int /\ n \in Int /\ m[b].size \in Int /\ m[n].prev_phys_size \in Int
    BY <1>1, <1>4, Pool
  <2>2. n = b + 1 + m[b].size /\ b = n - (m[n].prev_phys_size + 1)
    BY <1>1, <1>3, <1>5
  <2>3. \A x, y, i, j \in Int : i = j + 1 + x /\ j = i - (y + 1) => y = x
    OBVIOUS
  <2> QED BY <2>1, <2>2, <2>3
<1> QED BY <1>3, <1>6 DEF n

(* A header of which some fields are written. *)
LEMMA SizeWritten ==
    ASSUME NEW w \in Words, w.kind = "header", NEW s \in Sizes,
           NEW v, v = [w EXCEPT !.size = s]
    PROVE  /\ v \in Words /\ v.kind = "header"
           /\ v.size = s
           /\ v.free = w.free
           /\ v.prev_free = w.prev_free
           /\ v.prev_phys_size = w.prev_phys_size
<1>1. w \in HeaderWords
  BY HeaderWord
<1> QED BY <1>1 DEF Words, HeaderWords

LEMMA PrevSizeWritten ==
    ASSUME NEW w \in Words, w.kind = "header", NEW s \in Sizes,
           NEW v, v = [w EXCEPT !.prev_phys_size = s]
    PROVE  /\ v \in Words /\ v.kind = "header"
           /\ v.size = w.size
           /\ v.free = w.free
           /\ v.prev_free = w.prev_free
           /\ v.prev_phys_size = s
<1>1. w \in HeaderWords
  BY HeaderWord
<1> QED BY <1>1 DEF Words, HeaderWords

(* The lists do not change where the listed blocks keep their size and their
   links, and no other links appear. *)
LEMMA ListsKept ==
    ASSUME NEW m, NEW l, NEW F, Linked(m, l, F), NEW m2,
           F \subseteq BlocksOf(m2),
           \A b \in F : m2[b].size = m[b].size /\ m2[Payload(b)] = m[Payload(b)],
           \A a \in Units : m2[a].kind = "links" => m[a].kind = "links"
    PROVE  Linked(m2, l, F)
<1>1. \A b \in F : Bin(m2, b) = Bin(m, b)
  BY DEF Bin
<1>2. ASSUME NEW b \in F PROVE LinkedIn(m2, l, F, b)
  <2>1. LinkedIn(m, l, F, b)
    BY DEF Linked
  <2> QED BY <1>1, <2>1 DEF LinkedIn
<1>3. ASSUME NEW S \in SUBSET F, S # {} PROVE \E b \in S : m2[Payload(b)].prev \notin S
  BY <1>3 DEF Linked
<1>4. \A bin \in Bins : l[bin] # NULL =>
        l[bin] \in F /\ Bin(m2, l[bin]) = bin /\ m2[Payload(l[bin])].prev = NULL
  BY <1>1 DEF Linked
<1> QED BY <1>2, <1>3, <1>4 DEF Linked

(* What only writes the flags of headers leaves the blocks where they are. *)
Reflagged(m2, m) ==
    /\ DOMAIN m2 = Units
    /\ \A a \in Units :
        /\ m2[a] \in Words
        /\ m2[a].kind = m[a].kind
        /\ m[a].kind # "header" => m2[a] = m[a]
        /\ m[a].kind = "header" =>
            m2[a].size = m[a].size /\ m2[a].prev_phys_size = m[a].prev_phys_size
    /\ m2[0].prev_free = FALSE /\ m2[Sentinel].free = FALSE

LEMMA BlocksStay ==
    ASSUME NEW m, Tiled(m), NEW m2, Reflagged(m2, m)
    PROVE  /\ Tiled(m2)
           /\ BlocksOf(m2) = BlocksOf(m)
           /\ \A b \in BlocksOf(m) : NextPhys(m2, b) = NextPhys(m, b) /\ m2[b].size = m[b].size
           /\ \A l, F : Linked(m, l, F) => Linked(m2, l, F)
<1>1. BlocksOf(m2) = BlocksOf(m)
  BY DEF Reflagged, BlocksOf
<1>2. \A b \in BlocksOf(m) \cup {Sentinel} : m2[b].size = m[b].size /\ m2[b].prev_phys_size = m[b].prev_phys_size
  BY Pool DEF Reflagged, BlocksOf, Tiled
<1>3. \A b \in BlocksOf(m) : NextPhys(m2, b) = NextPhys(m, b)
  BY <1>2 DEF NextPhys
<1>4. \A b \in BlocksOf(m) \cup {Sentinel} : PrevPhys(m2, b) = PrevPhys(m, b)
  BY <1>2 DEF PrevPhys
<1>5. Tiled(m2)
  <2>1. m2[0].kind = "header" /\ m2[Sentinel].kind = "header" /\ m2[Sentinel].size = 0
    BY <1>2, Pool DEF Reflagged, Tiled
  <2>2. \A a \in Units : m2[a].kind # "header" <=> m[a].kind # "header"
    BY DEF Reflagged
  <2> QED BY <1>1, <1>2, <1>3, <1>4, <2>1, <2>2 DEF Tiled, Reflagged
<1>6. ASSUME NEW l, NEW F, Linked(m, l, F) PROVE Linked(m2, l, F)
  <2>1. F \subseteq BlocksOf(m)
    BY <1>6 DEF Linked
  <2>2. \A b \in F : m2[b].size = m[b].size /\ m2[Payload(b)] = m[Payload(b)]
    BY <1>2, <2>1, BlockPlace DEF Reflagged
  <2> QED BY <1>1, <1>6, <2>1, <2>2, ListsKept DEF Reflagged
<1> QED BY <1>1, <1>2, <1>3, <1>5, <1>6
-----------------------------------------------------------------------------
(* Two blocks become one: p takes in the block q behind it. *)
Absorbed(m2, m, p, q) ==
    /\ DOMAIN m2 = Units
    /\ m2[p] = [m[p] EXCEPT !.size = m[p].size + 1 + m[q].size]
    /\ m2[q] = Data
    /\ m2[NextPhys(m, q)] = [m[NextPhys(m, q)] EXCEPT !.prev_phys_size = m[p].size + 1 + m[q].size]
    /\ \A a \in Units : a \notin {p, q, NextPhys(m, q)} => m2[a] = m[a]

LEMMA AbsorbedBlocks ==
    ASSUME NEW m, Tiled(m), NEW p \in BlocksOf(m), NEW q \in BlocksOf(m), q = NextPhys(m, p),
           NEW m2, Absorbed(m2, m, p, q)
    PROVE  /\ Tiled(m2)
           /\ BlocksOf(m2) = BlocksOf(m) \ {q}
           /\ FreeOf(m2) = FreeOf(m) \ {q}
           /\ p # q
           /\ NextPhys(m2, p) = NextPhys(m, q)
           /\ m2[p].size > m[p].size
           /\ \A c \in BlocksOf(m) \ {p, q} :
                /\ NextPhys(m2, c) = NextPhys(m, c)
                /\ NextPhys(m, c) # q
                /\ m2[c].size = m[c].size
           /\ \A c \in (BlocksOf(m) \cup {Sentinel}) \ {q} :
                m2[c].free = m[c].free /\ m2[c].prev_free = m[c].prev_free
           /\ \A a \in Units : a \notin {p, q, NextPhys(m, q)} => m2[a] = m[a]
<1> DEFINE n == NextPhys(m, q)
           s == m[p].size + 1 + m[q].size
<1>1. /\ p \in Units /\ q \in Units /\ n \in Units /\ m[p] \in Words /\ m[q] \in Words /\ m[n] \in Words
      /\ m[p].kind = "header" /\ m[q].kind = "header" /\ m[n].kind = "header"
      /\ n \in BlocksOf(m) \cup {Sentinel} /\ n # 0 /\ q # Sentinel
  BY BlockPlace DEF Tiled, BlocksOf
<1>2. /\ p < q /\ q < n /\ m[p].size \in Nat /\ m[q].size \in Nat /\ m[p].size >= 1 /\ m[q].size >= 1
      /\ q = p + 1 + m[p].size /\ n = q + 1 + m[q].size
      /\ p \in Nat /\ q \in Nat /\ n \in Nat /\ n <= PoolUnits - 1
  <2>1. /\ p \in BlocksOf(m) /\ q \in BlocksOf(m) /\ q = NextPhys(m, p)
    BY DEF BlocksOf
  <2>2. /\ m[p].size \in Sizes /\ m[p].size >= 1 /\ q = p + 1 + m[p].size
        /\ m[q].size \in Sizes /\ m[q].size >= 1 /\ n = q + 1 + m[q].size
    BY <2>1, BlockPlace
  <2>3. n <= PoolUnits - 1 /\ p \in Nat
    BY <1>1, Pool
  <2>4. m[p].size \in Nat /\ m[q].size \in Nat
    BY <2>2, Pool
  <2> QED BY <2>2, <2>3, <2>4
<1>3. s \in Sizes /\ n = p + 1 + s /\ s > m[p].size
  <2> DEFINE x == m[p].size
             y == m[q].size
  <2>1. x \in Nat /\ y \in Nat /\ x >= 1 /\ y >= 1 /\ q = p + 1 + x /\ n = q + 1 + y
        /\ p \in Nat /\ n <= PoolUnits - 1 /\ s = x + 1 + y
    BY <1>2
  <2> HIDE DEF x, y, n, s
  <2>2. s \in 0..(PoolUnits - 2) /\ n = p + 1 + s /\ s > x
    BY <2>1, Pool
  <2> QED BY <2>2, Pool DEF x
<1> HIDE DEF n, s
<1>4. /\ m2[p] \in Words /\ m2[p].kind = "header" /\ m2[p].size = s
      /\ m2[p].free = m[p].free /\ m2[p].prev_free = m[p].prev_free
      /\ m2[p].prev_phys_size = m[p].prev_phys_size
  <2>1. m2[p] = [m[p] EXCEPT !.size = s]
    BY DEF Absorbed, s
  <2> QED BY <1>1, <1>3, <2>1, SizeWritten
<1>5. /\ m2[n] \in Words /\ m2[n].kind = "header" /\ m2[n].size = m[n].size
      /\ m2[n].free = m[n].free /\ m2[n].prev_free = m[n].prev_free
      /\ m2[n].prev_phys_size = s
  <2>1. m2[n] = [m[n] EXCEPT !.prev_phys_size = s]
    BY DEF Absorbed, s, n
  <2> QED BY <1>1, <1>3, <2>1, PrevSizeWritten
<1>6. m2[q] = Data /\ Data.kind = "data" /\ Data \in Words
  BY NewWords DEF Absorbed
<1>7. \A a \in Units : a \notin {p, q, n} => m2[a] = m[a]
  BY DEF Absorbed, n
<1>8. p # q /\ q # n /\ p # n
  BY <1>2
<1>9. \A a \in Units : m2[a] \in Words /\ (m2[a].kind = "header" <=> m[a].kind = "header" /\ a # q)
  BY <1>1, <1>4, <1>5, <1>6, <1>7 DEF Tiled
<1>10. BlocksOf(m2) = BlocksOf(m) \ {q}
  BY <1>9 DEF BlocksOf
<1>11. \A c \in (BlocksOf(m) \cup {Sentinel}) \ {p, q} : m2[c].size = m[c].size
  <2> TAKE c \in (BlocksOf(m) \cup {Sentinel}) \ {p, q}
  <2>1. c \in Units /\ c \notin {p, q}
    BY Pool DEF BlocksOf
  <2>2. CASE c = n
    BY <1>5, <2>2
  <2>3. CASE c # n
    BY <1>7, <2>1, <2>3
  <2> QED BY <2>2, <2>3
<1>12. \A c \in (BlocksOf(m) \cup {Sentinel}) \ {q} :
         m2[c].free = m[c].free /\ m2[c].prev_free = m[c].prev_free
  BY <1>4, <1>5, <1>7, Pool DEF BlocksOf
<1>13. \A c \in BlocksOf(m) \ {p, q} : NextPhys(m2, c) = NextPhys(m, c) /\ NextPhys(m, c) # q
  BY <1>11, NextOnce DEF NextPhys
<1>14. NextPhys(m2, p) = n /\ PrevPhys(m2, n) = p
  <2>1. NextPhys(m2, p) = p + 1 + s /\ PrevPhys(m2, n) = n - (s + 1)
    BY <1>4, <1>5 DEF NextPhys, PrevPhys, Payload
  <2>2. \A i, j, x \in Int : j = i + 1 + x => i = j - (x + 1)
    OBVIOUS
  <2>3. p \in Int /\ n \in Int /\ s \in Int
    BY <1>2, <1>3, Pool
  <2> QED BY <1>3, <2>1, <2>2, <2>3
<1>15. Tiled(m2)
  <2>1. /\ DOMAIN m2 = Units /\ \A a \in Units : m2[a] \in Words
        /\ m2[0].kind = "header" /\ m2[0].prev_free = FALSE
        /\ m2[Sentinel].kind = "header" /\ m2[Sentinel].free = FALSE /\ m2[Sentinel].size = 0
    <3>1. q # 0 /\ q # Sentinel /\ p # Sentinel
      BY <1>1, <1>2 DEF BlocksOf
    <3>2. 0 \in BlocksOf(m)
      BY Pool DEF BlocksOf, Tiled
    <3>3. Sentinel \in Units /\ 0 \in Units
      BY Pool
    <3>4. m2[Sentinel].size = m[Sentinel].size /\ m2[Sentinel].free = m[Sentinel].free
          /\ m2[0].prev_free = m[0].prev_free
      BY <1>11, <1>12, <3>1, <3>2
    <3> QED BY <1>9, <3>1, <3>3, <3>4 DEF Absorbed, Tiled
  <2>2. ASSUME NEW b \in BlocksOf(m2)
        PROVE  /\ m2[b].size >= 1
               /\ NextPhys(m2, b) \in BlocksOf(m2) \cup {Sentinel}
               /\ \A a \in Units : b < a /\ a < NextPhys(m2, b) => m2[a].kind # "header"
    <3>1. CASE b = p
      <4>1. \A a \in Units : p < a /\ a < n => m2[a].kind # "header"
        <5> TAKE a \in Units
        <5>1. a \in Int
          BY Pool
        <5>2. p < a /\ a < n => (p < a /\ a < q) \/ a = q \/ (q < a /\ a < n)
          BY <1>2, <5>1
        <5>3. p < a /\ a < q => m[a].kind # "header"
          BY DEF Tiled
        <5>4. q < a /\ a < n => m[a].kind # "header"
          BY DEF Tiled, n
        <5> QED BY <1>9, <5>2, <5>3, <5>4
      <4>2. m2[p].size >= 1
        BY <1>2, <1>3, <1>4, Pool
      <4>3. n \in BlocksOf(m2) \cup {Sentinel}
        BY <1>1, <1>8, <1>10
      <4> QED BY <1>14, <3>1, <4>1, <4>2, <4>3
    <3>2. CASE b # p
      <4>1. b \in BlocksOf(m) \ {p, q}
        BY <1>10, <3>2
      <4>2. NextPhys(m2, b) = NextPhys(m, b) /\ NextPhys(m, b) # q /\ m2[b].size = m[b].size
        BY <1>11, <1>13, <4>1
      <4>3. /\ m[b].size >= 1
            /\ NextPhys(m, b) \in BlocksOf(m) \cup {Sentinel}
            /\ \A a \in Units : b < a /\ a < NextPhys(m, b) => m[a].kind # "header"
        BY <4>1 DEF Tiled
      <4> QED BY <1>9, <1>10, <4>1, <4>2, <4>3
    <3> QED BY <3>1, <3>2
  <2>3. ASSUME NEW b \in BlocksOf(m2) \cup {Sentinel}, b # 0
        PROVE  PrevPhys(m2, b) \in BlocksOf(m2) /\ NextPhys(m2, PrevPhys(m2, b)) = b
    <3>1. CASE b = n
      BY <1>8, <1>10, <1>14, <3>1
    <3>2. CASE b # n
      <4> DEFINE c == PrevPhys(m, b)
      <4>1. b \in BlocksOf(m) \cup {Sentinel} /\ b # q /\ b \in Units
        BY <1>1, <1>10, Pool DEF BlocksOf
      <4>2. c \in BlocksOf(m) /\ NextPhys(m, c) = b
        BY <2>3, <4>1 DEF Tiled
      <4> HIDE DEF c
      <4>3. c # q /\ c # p
        BY <3>2, <4>1, <4>2 DEF n
      <4>4. m2[b].prev_phys_size = m[b].prev_phys_size
        BY <1>4, <1>7, <3>2, <4>1
      <4>5. PrevPhys(m2, b) = c
        BY <4>4 DEF PrevPhys, c
      <4> QED BY <1>10, <1>13, <4>2, <4>3, <4>5
    <3> QED BY <3>1, <3>2
  <2> QED BY <2>1, <2>2, <2>3 DEF Tiled
<1>16. FreeOf(m2) = FreeOf(m) \ {q}
  BY <1>10, <1>12 DEF FreeOf
<1> QED BY <1>3, <1>4, <1>7, <1>8, <1>10, <1>11, <1>12, <1>13, <1>14, <1>15, <1>16 DEF n

(* A heap of which only the blocks have changed. *)
SameLists(r, h) ==
    /\ DOMAIN r = Fields
    /\ r = [mem |-> r.mem, lists |-> r.lists, fl |-> r.fl, sl |-> r.sl]
    /\ r.lists = h.lists /\ r.fl = h.fl /\ r.sl = h.sl

LEMMA FreeBlock ==
    ASSUME NEW m, Tiled(m), NEW b \in FreeOf(m)
    PROVE  b \in BlocksOf(m) /\ m[b].free = TRUE /\ b # Sentinel /\ b \in Units
<1>1. b \in BlocksOf(m) /\ m[b].free
  BY DEF FreeOf
<1>2. m[b].free \in BOOLEAN
  BY <1>1, BlockPlace, HeaderWord DEF Tiled
<1> QED BY <1>1, <1>2 DEF BlocksOf

LEMMA UsedBlock ==
    ASSUME NEW m, Tiled(m), NEW b \in BlocksOf(m) \cup {Sentinel}
    PROVE  /\ m[b].free \in BOOLEAN
           /\ m[b].free = FALSE <=> b \notin FreeOf(m)
           /\ m[b].free = TRUE <=> b \in FreeOf(m)
<1>1. b \in Units /\ m[b].kind = "header" /\ m[b] \in Words
  BY Pool DEF Tiled, BlocksOf
<1>2. m[b].free \in BOOLEAN
  BY <1>1, HeaderWord
<1>3. b = Sentinel => m[b].free = FALSE /\ b \notin FreeOf(m)
  BY DEF Tiled, FreeOf, BlocksOf
<1> QED BY <1>2, <1>3 DEF FreeOf

(* Two free neighbours that are in no list; X is the one being worked on. *)
Mergeable(h, X, p, q) ==
    /\ p \in FreeOf(h.mem) /\ q \in FreeOf(h.mem) /\ q = NextPhys(h.mem, p)
    /\ X = {p} \/ X = {q}
    /\ HeapOK(h, X, FreeOf(h.mem) \ {p, q})

LEMMA AbsorbedOK ==
    ASSUME NEW h, NEW X, NEW p, NEW q, Mergeable(h, X, p, q),
           NEW r, SameLists(r, h), Absorbed(r.mem, h.mem, p, q)
    PROVE  HeapOK(r, {p}, FreeOf(r.mem) \ {p})
<1> DEFINE m == h.mem
           m2 == r.mem
           F == FreeOf(m) \ {p, q}
<1>0. p \in FreeOf(m) /\ q \in FreeOf(m) /\ q = NextPhys(m, p) /\ (X = {p} \/ X = {q})
  BY DEF Mergeable
<1>1. Tiled(m) /\ Flagged(m, X) /\ Merged(m, X) /\ Linked(m, h.lists, F) /\ Mapped(h.lists, h.fl, h.sl)
  BY DEF HeapOK, Mergeable
<1>2. p \in BlocksOf(m) /\ q \in BlocksOf(m)
  BY <1>0 DEF FreeOf
<1>3. /\ Tiled(m2)
      /\ BlocksOf(m2) = BlocksOf(m) \ {q}
      /\ p # q
      /\ NextPhys(m2, p) = NextPhys(m, q)
      /\ \A c \in BlocksOf(m) \ {p, q} :
           /\ NextPhys(m2, c) = NextPhys(m, c)
           /\ NextPhys(m, c) # q
           /\ m2[c].size = m[c].size
      /\ \A c \in (BlocksOf(m) \cup {Sentinel}) \ {q} :
           m2[c].free = m[c].free /\ m2[c].prev_free = m[c].prev_free
      /\ \A a \in Units : a \notin {p, q, NextPhys(m, q)} => m2[a] = m[a]
  BY <1>0, <1>1, <1>2, AbsorbedBlocks
<1>4. FreeOf(m2) = FreeOf(m) \ {q}
  BY <1>3 DEF FreeOf
<1>5. p \in FreeOf(m2) /\ FreeOf(m2) \ {p} = F
  BY <1>0, <1>3, <1>4
<1>6. Flagged(m2, {p})
  <2> SUFFICES ASSUME NEW c \in BlocksOf(m) \ {p, q}
               PROVE  m2[NextPhys(m2, c)].prev_free = m2[c].free
    BY <1>3 DEF Flagged
  <2>1. NextPhys(m2, c) = NextPhys(m, c) /\ NextPhys(m, c) # q
    BY <1>3
  <2>2. NextPhys(m, c) \in BlocksOf(m) \cup {Sentinel}
    BY <1>1 DEF Tiled
  <2>3. m[NextPhys(m, c)].prev_free = m[c].free
    BY <1>0, <1>1 DEF Flagged
  <2> QED BY <1>3, <2>1, <2>2, <2>3
<1>7. Merged(m2, {p})
  <2> SUFFICES ASSUME NEW f \in F, NextPhys(m2, f) # p
               PROVE  m2[NextPhys(m2, f)].free = FALSE
    BY <1>5 DEF Merged
  <2>1. f \in FreeOf(m) /\ f \in BlocksOf(m) /\ f # p /\ f # q
    BY DEF FreeOf
  <2>2. NextPhys(m2, f) = NextPhys(m, f) /\ NextPhys(m, f) # q
    BY <1>3, <2>1
  <2>3. NextPhys(m, f) \in BlocksOf(m) \cup {Sentinel}
    BY <1>1, <2>1 DEF Tiled
  <2>4. m[NextPhys(m, f)].free = FALSE
    BY <1>0, <1>1, <2>1, <2>2 DEF Merged
  <2> QED BY <1>3, <2>2, <2>3, <2>4
<1>8. Linked(m2, h.lists, F)
  <2>1. F \subseteq BlocksOf(m2) /\ \A c \in F : m2[c].size = m[c].size
    BY <1>3, <1>4, <1>5 DEF FreeOf
  <2>2. ASSUME NEW c \in F PROVE m2[Payload(c)] = m[Payload(c)]
    <3>1. c \in BlocksOf(m)
      BY <1>1 DEF Linked
    <3>2. Payload(c) \in Units /\ m[Payload(c)].kind # "header"
      BY <1>1, <3>1, BlockPlace
    <3>3. m[p].kind = "header" /\ m[q].kind = "header" /\ m[NextPhys(m, q)].kind = "header"
      BY <1>1, <1>2, BlockPlace
    <3> QED BY <1>3, <3>2, <3>3
  <2>3. ASSUME NEW a \in Units, m2[a].kind = "links" PROVE m[a].kind = "links"
    <3>1. CASE a \in {p, NextPhys(m, q)}
      <4>1. p \in BlocksOf(m2) /\ NextPhys(m2, p) \in BlocksOf(m2) \cup {Sentinel}
        BY <1>2, <1>3 DEF Tiled
      <4>2. m2[a].kind = "header"
        BY <1>3, <3>1, <4>1 DEF BlocksOf, Tiled
      <4> QED BY <2>3, <4>2
    <3>2. CASE a = q
      BY <2>3, <3>2, NewWords DEF Absorbed
    <3> QED BY <1>3, <2>3, <3>1, <3>2
  <2> HIDE DEF F
  <2> QED BY <1>1, <2>1, <2>2, <2>3, ListsKept
<1> QED BY <1>1, <1>3, <1>4, <1>5, <1>6, <1>7, <1>8 DEF HeapOK, SameLists

(* The same blocks are in use, and none of them has changed its size. *)
SameUsed(m2, m) ==
    /\ UsedOf(m2) = UsedOf(m)
    /\ \A b \in UsedOf(m) : m2[b].size = m[b].size

(* The merge of free: the block behind, if it is free, leaves its list and
   is taken in. *)
LEMMA MergeNextOK ==
    ASSUME NEW h, NEW b \in FreeOf(h.mem), HeapOK(h, {b}, FreeOf(h.mem) \ {b}),
           NEW r, r = MergeNext(h, b)
    PROVE  /\ HeapOK(r, {b}, FreeOf(r.mem) \ {b})
           /\ b \in FreeOf(r.mem)
           /\ r.mem[NextPhys(r.mem, b)].free = FALSE
           /\ SameUsed(r.mem, h.mem)
<1> DEFINE m == h.mem
           q == NextPhys(m, b)
           F == FreeOf(m) \ {b}
           g == RemoveFree(h, q)
<1>1. Tiled(m) /\ Merged(m, {b}) /\ b \in BlocksOf(m)
  BY DEF HeapOK, FreeOf
<1>2. q \in BlocksOf(m) \cup {Sentinel} /\ q # b /\ q \in Units
  BY <1>1, BlockPlace, Pool
<1>3. CASE m[q].free = FALSE
  <2>1. r = h
    BY <1>3 DEF MergeNext
  <2> QED BY <1>3, <2>1 DEF SameUsed
<1>4. CASE m[q].free # FALSE
  <2>1. q \in FreeOf(m) /\ m[q].free = TRUE /\ q \in F
    BY <1>1, <1>2, <1>4, UsedBlock
  <2>2. HeapOK(g, {b}, F \ {q}) /\ SameHeaders(g.mem, m)
    <3> HIDE DEF q, F, g
    <3>1. HeapOK(h, {b}, F) /\ g = RemoveFree(h, q)
      BY DEF F, g
    <3> QED BY <2>1, <3>1, RemoveFreeOK
  <2>3. /\ BlocksOf(g.mem) = BlocksOf(m) /\ FreeOf(g.mem) = FreeOf(m)
        /\ NextPhys(g.mem, b) = q /\ NextPhys(g.mem, q) = NextPhys(m, q)
        /\ \A c \in BlocksOf(m) \cup {Sentinel} : g.mem[c] = m[c]
    <3> HIDE DEF g
    <3>1. q \in BlocksOf(m)
      BY <1>1, <2>1, FreeBlock
    <3> QED BY <1>1, <2>2, <3>1, BlocksKept
  <2> DEFINE s == m[b].size + 1 + m[q].size
             n == NextPhys(m, q)
  <2>4. r = [g EXCEPT !.mem[b].size = s, !.mem[q] = Data, !.mem[n].prev_phys_size = s]
    BY <2>1 DEF MergeNext
  <2> HIDE DEF g, q, s, n
  <2>5. DOMAIN g = Fields /\ DOMAIN g.mem = Units
        /\ g = [mem |-> g.mem, lists |-> g.lists, fl |-> g.fl, sl |-> g.sl]
    BY <2>2 DEF HeapOK, Tiled
  <2>6. b \in Units /\ q \in Units /\ n \in Units /\ b # q /\ n # b /\ n # q
    <3>1. q \in BlocksOf(m)
      BY <1>1, <2>1, FreeBlock
    <3>2. b \in Int /\ b < q /\ q \in Int /\ q < n /\ n \in Int /\ b \in Units /\ q \in Units /\ n \in Units
      BY <1>1, <3>1, BlockPlace, Pool DEF q, n
    <3> QED BY <3>2
  <2>7. SameLists(r, g) /\ r.mem = [[[g.mem EXCEPT ![b].size = s] EXCEPT ![q] = Data] EXCEPT ![n].prev_phys_size = s]
    BY <2>4, <2>5 DEF Fields, SameLists
  <2>8. Absorbed(r.mem, g.mem, b, q)
    <3>1. g.mem[b] = m[b] /\ g.mem[q] = m[q] /\ NextPhys(g.mem, q) = n
      BY <1>1, <1>2, <2>3 DEF n
    <3>2. s = g.mem[b].size + 1 + g.mem[q].size
      BY <3>1 DEF s
    <3>3. /\ DOMAIN r.mem = Units
          /\ r.mem[b] = [g.mem[b] EXCEPT !.size = s]
          /\ r.mem[q] = Data
          /\ r.mem[n] = [g.mem[n] EXCEPT !.prev_phys_size = s]
          /\ \A a \in Units : a \notin {b, q, n} => r.mem[a] = g.mem[a]
      BY <2>5, <2>6, <2>7
    <3> QED BY <3>1, <3>2, <3>3 DEF Absorbed
  <2>9. /\ HeapOK(r, {b}, FreeOf(r.mem) \ {b})
        /\ BlocksOf(r.mem) = BlocksOf(m) \ {q}
        /\ FreeOf(r.mem) = FreeOf(m) \ {q}
        /\ b \in FreeOf(r.mem)
    <3>0. SameLists(r, g)
      BY <2>7
    <3>1. b \in FreeOf(g.mem) /\ q \in FreeOf(g.mem) /\ q = NextPhys(g.mem, b)
      BY <2>1, <2>3
    <3>2. HeapOK(g, {b}, F \ {q}) /\ F \ {q} = FreeOf(g.mem) \ {b, q}
      BY <2>2, <2>3
    <3>3. HeapOK(r, {b}, FreeOf(r.mem) \ {b})
      <4>1. Mergeable(g, {b}, b, q)
        BY <3>1, <3>2 DEF Mergeable
      <4> QED BY <2>8, <3>0, <4>1, AbsorbedOK
    <3>4. BlocksOf(r.mem) = BlocksOf(g.mem) \ {q} /\ FreeOf(r.mem) = FreeOf(g.mem) \ {q} /\ b # q
      <4>1. Tiled(g.mem) /\ b \in BlocksOf(g.mem) /\ q \in BlocksOf(g.mem)
        BY <2>2, <3>1 DEF HeapOK, FreeOf
      <4> QED BY <2>8, <3>1, <4>1, AbsorbedBlocks
    <3> QED BY <2>3, <3>1, <3>3, <3>4
  <2>10. /\ NextPhys(r.mem, b) = n
         /\ \A c \in BlocksOf(m) \ {b, q} : r.mem[c].size = m[c].size
         /\ \A c \in (BlocksOf(m) \cup {Sentinel}) \ {q} : r.mem[c].free = m[c].free
    <3>1. Tiled(g.mem) /\ b \in BlocksOf(g.mem) /\ q \in BlocksOf(g.mem) /\ q = NextPhys(g.mem, b)
      BY <1>1, <2>1, <2>2, <2>3, FreeBlock DEF HeapOK
    <3> QED BY <2>3, <2>8, <3>1, AbsorbedBlocks DEF n
  <2>11. r.mem[n].free = FALSE
    <3>1. q \in BlocksOf(m)
      BY <1>1, <2>1, FreeBlock
    <3>2. m[n].free = FALSE
      BY <1>1, <2>1, <2>6 DEF Merged, n
    <3>3. n \in BlocksOf(m) \cup {Sentinel}
      BY <1>1, <3>1, BlockPlace DEF n
    <3> QED BY <2>6, <2>10, <3>2, <3>3
  <2>12. SameUsed(r.mem, m)
    <3>1. UsedOf(r.mem) = UsedOf(m)
      <4>1. \A B, G : q \in G => (B \ {q}) \ (G \ {q}) = B \ G
        OBVIOUS
      <4> QED BY <2>1, <2>9, <4>1 DEF UsedOf
    <3> QED BY <2>1, <2>10, <3>1 DEF SameUsed, UsedOf
  <2> QED BY <2>9, <2>10, <2>11, <2>12
<1> QED BY <1>3, <1>4

(* The merge of free with the block in front: what comes of it has a used
   block in front and a used block behind. *)
LEMMA MergePrevOK ==
    ASSUME NEW h, NEW b \in FreeOf(h.mem), HeapOK(h, {b}, FreeOf(h.mem) \ {b}),
           h.mem[NextPhys(h.mem, b)].free = FALSE,
           NEW r, r = MergePrev(h, b),
           NEW c, c = MergedInto(h, b)
    PROVE  /\ HeapOK(r, {c}, FreeOf(r.mem) \ {c})
           /\ c \in FreeOf(r.mem)
           /\ r.mem[NextPhys(r.mem, c)].free = FALSE
           /\ \A f \in FreeOf(r.mem) : NextPhys(r.mem, f) # c
           /\ SameUsed(r.mem, h.mem)
<1> DEFINE m == h.mem
           p == PrevPhys(m, b)
           F == FreeOf(m) \ {b}
           g == RemoveFree(h, p)
           s == m[p].size + 1 + m[b].size
           n == NextPhys(m, b)
<1>1. Tiled(m) /\ Merged(m, {b}) /\ Flagged(m, {b}) /\ b \in BlocksOf(m)
  BY DEF HeapOK, FreeOf
<1>2. b \in Int /\ b < n /\ n \in Int /\ b \in Units /\ n \in Units /\ n \in BlocksOf(m) \cup {Sentinel}
      /\ m[n].free = FALSE /\ m[b].prev_free \in BOOLEAN
  <2>1. b \in Int /\ b < n /\ n \in Int /\ b \in Units /\ n \in Units /\ n \in BlocksOf(m) \cup {Sentinel}
    BY <1>1, BlockPlace, Pool
  <2>2. m[b].prev_free \in BOOLEAN
    BY <1>1, <2>1, BlockPlace, HeaderWord DEF Tiled
  <2> QED BY <2>1, <2>2
<1>3. CASE m[b].prev_free = FALSE
  <2>1. r = h /\ c = b
    BY <1>3 DEF MergePrev, MergedInto
  <2>2. ASSUME NEW f \in FreeOf(m), NextPhys(m, f) = b PROVE FALSE
    <3>1. f \in BlocksOf(m) /\ m[f].free = TRUE
      BY <1>1, FreeBlock
    <3>2. f # b
      BY <1>2, <2>2
    <3>3. m[b].prev_free = m[f].free
      BY <1>1, <2>2, <3>1, <3>2 DEF Flagged
    <3> QED BY <1>3, <3>1, <3>3
  <2> QED BY <2>1, <2>2 DEF SameUsed
<1>4. CASE m[b].prev_free = TRUE
  <2>1. b # 0
    BY <1>1, <1>4 DEF Tiled
  <2>2. p \in BlocksOf(m) /\ NextPhys(m, p) = b
    BY <1>1, <2>1 DEF Tiled
  <2>3. p \in Int /\ p < b /\ p \in Units /\ p # b /\ p # n
    <3>1. p \in Int /\ p < b /\ p \in Units
      BY <1>1, <2>2, BlockPlace, Pool
    <3> HIDE DEF p, n
    <3> QED BY <1>2, <3>1
  <2>4. p \in FreeOf(m) /\ p \in F
    <3>1. m[b].prev_free = m[p].free
      BY <1>1, <2>2, <2>3 DEF Flagged
    <3> QED BY <1>4, <2>2, <2>3, <3>1 DEF FreeOf
  <2>5. HeapOK(g, {b}, F \ {p}) /\ SameHeaders(g.mem, m)
    <3> HIDE DEF p, F, g
    <3>1. HeapOK(h, {b}, F) /\ g = RemoveFree(h, p)
      BY DEF F, g
    <3> QED BY <2>4, <3>1, RemoveFreeOK
  <2>6. /\ BlocksOf(g.mem) = BlocksOf(m) /\ FreeOf(g.mem) = FreeOf(m)
        /\ NextPhys(g.mem, p) = b /\ NextPhys(g.mem, b) = n
        /\ \A a \in BlocksOf(m) \cup {Sentinel} : g.mem[a] = m[a]
    <3> HIDE DEF g
    <3> QED BY <1>1, <2>2, <2>5, BlocksKept
  <2>7. r = [g EXCEPT !.mem[p].size = s, !.mem[b] = Data, !.mem[n].prev_phys_size = s] /\ c = p
    BY <1>4 DEF MergePrev, MergedInto
  <2> HIDE DEF g, p, s, n
  <2>8. DOMAIN g = Fields /\ DOMAIN g.mem = Units
        /\ g = [mem |-> g.mem, lists |-> g.lists, fl |-> g.fl, sl |-> g.sl]
    BY <2>5 DEF HeapOK, Tiled
  <2>9. b # n
    BY <1>2
  <2>10. SameLists(r, g) /\ r.mem = [[[g.mem EXCEPT ![p].size = s] EXCEPT ![b] = Data] EXCEPT ![n].prev_phys_size = s]
    BY <2>7, <2>8 DEF Fields, SameLists
  <2>11. Absorbed(r.mem, g.mem, p, b)
    <3>1. g.mem[p] = m[p] /\ g.mem[b] = m[b] /\ NextPhys(g.mem, b) = n
      BY <1>1, <2>2, <2>6
    <3>2. s = g.mem[p].size + 1 + g.mem[b].size
      BY <3>1 DEF s
    <3>3. /\ DOMAIN r.mem = Units
          /\ r.mem[p] = [g.mem[p] EXCEPT !.size = s]
          /\ r.mem[b] = Data
          /\ r.mem[n] = [g.mem[n] EXCEPT !.prev_phys_size = s]
          /\ \A a \in Units : a \notin {p, b, n} => r.mem[a] = g.mem[a]
      BY <1>2, <2>3, <2>8, <2>9, <2>10
    <3> QED BY <3>1, <3>2, <3>3 DEF Absorbed
  <2>12. /\ HeapOK(r, {p}, FreeOf(r.mem) \ {p})
         /\ BlocksOf(r.mem) = BlocksOf(m) \ {b}
         /\ FreeOf(r.mem) = FreeOf(m) \ {b}
         /\ p \in FreeOf(r.mem)
    <3>0. SameLists(r, g)
      BY <2>10
    <3>1. p \in FreeOf(g.mem) /\ b \in FreeOf(g.mem) /\ b = NextPhys(g.mem, p)
      BY <2>4, <2>6
    <3>2. HeapOK(g, {b}, F \ {p}) /\ F \ {p} = FreeOf(g.mem) \ {p, b}
      BY <2>5, <2>6
    <3>3. HeapOK(r, {p}, FreeOf(r.mem) \ {p})
      <4>1. Mergeable(g, {b}, p, b)
        BY <3>1, <3>2 DEF Mergeable
      <4> QED BY <2>11, <3>0, <4>1, AbsorbedOK
    <3>4. BlocksOf(r.mem) = BlocksOf(g.mem) \ {b} /\ FreeOf(r.mem) = FreeOf(g.mem) \ {b} /\ p # b
      <4>1. Tiled(g.mem) /\ p \in BlocksOf(g.mem) /\ b \in BlocksOf(g.mem)
        BY <2>5, <3>1 DEF HeapOK, FreeOf
      <4> QED BY <2>11, <3>1, <4>1, AbsorbedBlocks
    <3> QED BY <2>6, <3>1, <3>3, <3>4
  <2>13. /\ NextPhys(r.mem, p) = n
         /\ \A a \in BlocksOf(m) \ {p, b} :
              r.mem[a].size = m[a].size /\ NextPhys(r.mem, a) = NextPhys(m, a)
         /\ \A a \in (BlocksOf(m) \cup {Sentinel}) \ {b} : r.mem[a].free = m[a].free
    <3>1. Tiled(g.mem) /\ p \in BlocksOf(g.mem) /\ b \in BlocksOf(g.mem) /\ b = NextPhys(g.mem, p)
      BY <1>1, <2>2, <2>5, <2>6 DEF HeapOK
    <3>2. /\ NextPhys(r.mem, p) = NextPhys(g.mem, b)
          /\ \A a \in BlocksOf(g.mem) \ {p, b} :
               r.mem[a].size = g.mem[a].size /\ NextPhys(r.mem, a) = NextPhys(g.mem, a)
          /\ \A a \in (BlocksOf(g.mem) \cup {Sentinel}) \ {b} : r.mem[a].free = g.mem[a].free
      BY <2>11, <3>1, AbsorbedBlocks
    <3>3. \A a \in BlocksOf(m) : NextPhys(g.mem, a) = NextPhys(m, a)
      BY <2>6 DEF NextPhys
    <3> QED BY <2>6, <3>2, <3>3
  <2>14. r.mem[n].free = FALSE
    BY <1>2, <2>9, <2>13
  <2>15. ASSUME NEW f \in FreeOf(r.mem), NextPhys(r.mem, f) = p PROVE FALSE
    <3>1. f # p
      BY <1>2, <2>3, <2>13, <2>15
    <3>2. f \in FreeOf(m) /\ f # b /\ f \in BlocksOf(m)
      BY <2>12 DEF FreeOf
    <3>3. NextPhys(m, f) = p
      BY <2>13, <2>15, <3>1, <3>2
    <3>4. m[p].free = FALSE
      BY <1>1, <2>3, <3>2, <3>3 DEF Merged
    <3> QED BY <1>1, <2>4, <3>4, FreeBlock
  <2>16. SameUsed(r.mem, m)
    <3>1. UsedOf(r.mem) = UsedOf(m)
      <4>1. \A B, G : b \in G => (B \ {b}) \ (G \ {b}) = B \ G
        OBVIOUS
      <4> QED BY <2>12, <4>1 DEF UsedOf
    <3> QED BY <2>4, <2>13, <3>1 DEF SameUsed, UsedOf
  <2> QED BY <2>7, <2>12, <2>13, <2>14, <2>15, <2>16
<1> QED BY <1>2, <1>3, <1>4
-----------------------------------------------------------------------------
(* A block becomes two: b keeps s units, and the rest is a free block. *)
Halved(m2, m, b, s, split, after) ==
    LET left == m[b].size - s IN
    /\ s \in Nat /\ s >= 1 /\ left >= 2
    /\ split = Payload(b) + s
    /\ after = NextPhys(m, b)
    /\ DOMAIN m2 = Units
    /\ m2[b] = [m[b] EXCEPT !.size = s]
    /\ m2[split] = Header(left - 1, TRUE, FALSE, s)
    /\ m2[after] = [[m[after] EXCEPT !.prev_phys_size = left - 1] EXCEPT !.prev_free = TRUE]
    /\ \A a \in Units : a \notin {b, split, after} => m2[a] = m[a]

(* What that makes of the blocks. *)
InTwo(m2, m, b, s, p, n) ==
    /\ Tiled(m2)
    /\ BlocksOf(m2) = BlocksOf(m) \cup {p}
    /\ p \in Units /\ p \notin BlocksOf(m) /\ b < p /\ p < n /\ m[p].kind # "header"
    /\ NextPhys(m2, b) = p /\ NextPhys(m2, p) = n
    /\ m2[b].size = s
    /\ m2[p].free = TRUE
    /\ m2[n].prev_free = TRUE
    /\ \A c \in BlocksOf(m) \ {b} : NextPhys(m2, c) = NextPhys(m, c) /\ m2[c].size = m[c].size
    /\ \A c \in BlocksOf(m) \cup {Sentinel} : m2[c].free = m[c].free
    /\ \A c \in (BlocksOf(m) \cup {Sentinel}) \ {n} : m2[c].prev_free = m[c].prev_free
    /\ \A a \in Units : a \notin {b, p, n} => m2[a] = m[a]
    /\ m2[b].kind = "header" /\ m2[p].kind = "header" /\ m2[n].kind = "header"

LEMMA HalvedBlocks ==
    ASSUME NEW m, Tiled(m), NEW b \in BlocksOf(m),
           NEW m2, NEW s, NEW p, NEW n, Halved(m2, m, b, s, p, n)
    PROVE  InTwo(m2, m, b, s, p, n)
<1> DEFINE z == m[b].size
           t == z - s - 1
<1>0. p = Payload(b) + s /\ n = NextPhys(m, b) /\ s \in Nat /\ s >= 1 /\ m[b].size - s >= 2
  BY DEF Halved
<1>1. /\ b \in Units /\ n \in Units /\ m[b] \in Words /\ m[n] \in Words
      /\ m[b].kind = "header" /\ m[n].kind = "header"
      /\ n \in BlocksOf(m) \cup {Sentinel} /\ n # 0 /\ b # Sentinel
      /\ n = b + 1 + z /\ z \in Nat /\ b \in Nat /\ n \in Nat /\ n <= PoolUnits - 1
      /\ p = b + 1 + s
  <2>1. Payload(b) = b + 1 /\ b \in Nat /\ n \in Nat /\ z \in Nat /\ n <= PoolUnits - 1 /\ n = b + 1 + z
    BY <1>0, BlockPlace, Pool
  <2>2. /\ b \in Units /\ n \in Units /\ m[b].kind = "header" /\ m[n].kind = "header"
        /\ n \in BlocksOf(m) \cup {Sentinel} /\ n # 0 /\ b # Sentinel
    BY <1>0, BlockPlace DEF BlocksOf
  <2>3. m[b] \in Words /\ m[n] \in Words
    BY <2>2 DEF Tiled
  <2> QED BY <1>0, <2>1, <2>2, <2>3
<1> HIDE DEF z
<1>2. /\ z - s >= 2 /\ t \in Int /\ t = z - s - 1 /\ z - s - 1 = (z - s) - 1
  BY <1>0, <1>1 DEF z
<1> HIDE DEF t
<1>3. /\ b < p /\ p < n /\ n = p + 1 + t /\ t >= 1 /\ t \in Sizes /\ s \in Sizes /\ p \in Nat /\ p \in Units
      /\ s \in Nat /\ s >= 1
  BY <1>0, <1>1, <1>2, Pool
<1>4. /\ m2[b] \in Words /\ m2[b].kind = "header" /\ m2[b].size = s
      /\ m2[b].free = m[b].free /\ m2[b].prev_free = m[b].prev_free
      /\ m2[b].prev_phys_size = m[b].prev_phys_size
  <2>1. m2[b] = [m[b] EXCEPT !.size = s]
    BY DEF Halved
  <2> QED BY <1>1, <1>3, <2>1, SizeWritten
<1>5. /\ m2[p] \in Words /\ m2[p].kind = "header" /\ m2[p].size = t
      /\ m2[p].free = TRUE /\ m2[p].prev_free = FALSE /\ m2[p].prev_phys_size = s
  <2>1. m2[p] = Header(z - s - 1, TRUE, FALSE, s)
    BY DEF Halved, z
  <2>2. m2[p] = Header(t, TRUE, FALSE, s)
    BY <1>2, <2>1
  <2>3. /\ Header(t, TRUE, FALSE, s) \in Words /\ Header(t, TRUE, FALSE, s).kind = "header"
        /\ Header(t, TRUE, FALSE, s).size = t /\ Header(t, TRUE, FALSE, s).free = TRUE
        /\ Header(t, TRUE, FALSE, s).prev_free = FALSE
        /\ Header(t, TRUE, FALSE, s).prev_phys_size = s
    BY <1>3 DEF Header, Words, HeaderWords
  <2> QED BY <2>2, <2>3
<1>6. /\ m2[n] \in Words /\ m2[n].kind = "header" /\ m2[n].size = m[n].size
      /\ m2[n].free = m[n].free /\ m2[n].prev_free = TRUE
      /\ m2[n].prev_phys_size = t
  <2> PICK v : v = [m[n] EXCEPT !.prev_phys_size = t]
    OBVIOUS
  <2>1. m2[n] = [v EXCEPT !.prev_free = TRUE]
    <3>1. m2[n] = [[m[n] EXCEPT !.prev_phys_size = z - s - 1] EXCEPT !.prev_free = TRUE]
      BY DEF Halved, z
    <3> QED BY <1>2, <3>1
  <2>2. v \in Words /\ v.kind = "header" /\ v.size = m[n].size /\ v.free = m[n].free
        /\ v.prev_phys_size = t
    BY <1>1, <1>3, PrevSizeWritten
  <2>3. v \in HeaderWords
    BY <2>2, HeaderWord
  <2> QED BY <2>1, <2>2, <2>3 DEF Words, HeaderWords
<1>7. \A a \in Units : a \notin {b, p, n} => m2[a] = m[a]
  BY DEF Halved
<1>8. b # p /\ p # n /\ b # n
  BY <1>1, <1>3
<1>9. m[p].kind # "header" /\ p \notin BlocksOf(m) /\ p # Sentinel
  <2>1. p < NextPhys(m, b)
    BY <1>0, <1>3
  <2>2. m[p].kind # "header"
    BY <1>3, <2>1 DEF Tiled
  <2> QED BY <1>1, <1>3, <2>2, Pool DEF BlocksOf
<1>10. \A a \in Units : m2[a] \in Words /\ (m2[a].kind = "header" <=> m[a].kind = "header" \/ a = p)
  <2> TAKE a \in Units
  <2>1. CASE a \in {b, p, n}
    BY <1>1, <1>4, <1>5, <1>6, <2>1
  <2>2. CASE a \notin {b, p, n}
    BY <1>7, <2>2 DEF Tiled
  <2> QED BY <2>1, <2>2
<1>11. BlocksOf(m2) = BlocksOf(m) \cup {p}
  BY <1>3, <1>9, <1>10 DEF BlocksOf
<1>12. \A c \in (BlocksOf(m) \cup {Sentinel}) \ {b} : m2[c].size = m[c].size
  <2> TAKE c \in (BlocksOf(m) \cup {Sentinel}) \ {b}
  <2>1. c \in Units /\ c # p /\ c # b
    BY <1>9, Pool DEF BlocksOf
  <2>2. CASE c = n
    BY <1>6, <2>2
  <2>3. CASE c # n
    BY <1>7, <2>1, <2>3
  <2> QED BY <2>2, <2>3
<1>13. \A c \in BlocksOf(m) \cup {Sentinel} :
         m2[c].free = m[c].free /\ (c # n => m2[c].prev_free = m[c].prev_free)
  <2> TAKE c \in BlocksOf(m) \cup {Sentinel}
  <2>1. c \in Units /\ c # p
    BY <1>9, Pool DEF BlocksOf
  <2>2. CASE c \in {b, n}
    BY <1>4, <1>6, <2>2
  <2>3. CASE c \notin {b, n}
    BY <1>7, <2>1, <2>3
  <2> QED BY <2>2, <2>3
<1>14. \A c \in BlocksOf(m) \ {b} : NextPhys(m2, c) = NextPhys(m, c)
  BY <1>12 DEF NextPhys
<1>15. NextPhys(m2, b) = p /\ NextPhys(m2, p) = n /\ PrevPhys(m2, n) = p /\ PrevPhys(m2, p) = b
  <2>1. /\ NextPhys(m2, b) = b + 1 + s /\ NextPhys(m2, p) = p + 1 + t
        /\ PrevPhys(m2, n) = n - (t + 1) /\ PrevPhys(m2, p) = p - (s + 1)
    BY <1>4, <1>5, <1>6 DEF NextPhys, PrevPhys, Payload
  <2>2. \A i, j, x \in Int : j = i + 1 + x => i = j - (x + 1)
    OBVIOUS
  <2> QED BY <1>1, <1>2, <1>3, <2>1, <2>2
<1>16. Tiled(m2)
  <2>1. /\ DOMAIN m2 = Units /\ \A a \in Units : m2[a] \in Words
        /\ m2[0].kind = "header" /\ m2[0].prev_free = FALSE
        /\ m2[Sentinel].kind = "header" /\ m2[Sentinel].free = FALSE /\ m2[Sentinel].size = 0
    <3>1. 0 \in BlocksOf(m) /\ 0 \in Units /\ Sentinel \in Units
      BY Pool DEF BlocksOf, Tiled
    <3>2. m2[Sentinel].size = m[Sentinel].size /\ m2[Sentinel].free = m[Sentinel].free
          /\ m2[0].prev_free = m[0].prev_free
      BY <1>1, <1>12, <1>13, <3>1
    <3> QED BY <1>10, <3>1, <3>2 DEF Halved, Tiled
  <2>2. ASSUME NEW c \in BlocksOf(m2)
        PROVE  /\ m2[c].size >= 1
               /\ NextPhys(m2, c) \in BlocksOf(m2) \cup {Sentinel}
               /\ \A a \in Units : c < a /\ a < NextPhys(m2, c) => m2[a].kind # "header"
    <3>1. \A a \in Units : b < a /\ a < n => m[a].kind # "header"
      BY <1>0 DEF Tiled
    <3>2. \A a \in Units : a \in Int
      BY Pool
    <3>3. CASE c = b
      <4>1. \A a \in Units : b < a /\ a < p => m2[a].kind # "header"
        <5>1. \A a \in Units : a < p => a < n /\ a # p
          BY <1>1, <1>3, <3>2
        <5> QED BY <1>10, <3>1, <5>1
      <4> QED BY <1>3, <1>4, <1>11, <1>15, <3>3, <4>1
    <3>4. CASE c = p
      <4>1. \A a \in Units : p < a /\ a < n => m2[a].kind # "header"
        BY <1>1, <1>3, <1>10, <3>1, <3>2
      <4> QED BY <1>1, <1>3, <1>5, <1>11, <1>15, <3>4, <4>1
    <3>5. CASE c # b /\ c # p
      <4>1. c \in BlocksOf(m) \ {b}
        BY <1>11, <3>5
      <4>2. NextPhys(m2, c) = NextPhys(m, c) /\ m2[c].size = m[c].size
        BY <1>12, <1>14, <4>1
      <4>3. /\ m[c].size >= 1
            /\ NextPhys(m, c) \in BlocksOf(m) \cup {Sentinel}
            /\ \A a \in Units : c < a /\ a < NextPhys(m, c) => m[a].kind # "header"
        BY <4>1 DEF Tiled
      <4>4. ~ (c < p /\ p < NextPhys(m, c))
        <5>1. c \in Int /\ NextPhys(m, c) \in Int /\ (c < b => NextPhys(m, c) <= b)
          BY <1>1, <4>1, BlockPlace, InOrder, Pool
        <5>2. b < c => n <= c
          BY <1>0, <4>1, InOrder
        <5> QED BY <1>1, <1>3, <3>5, <5>1, <5>2
      <4> QED BY <1>10, <1>11, <4>1, <4>2, <4>3, <4>4
    <3> QED BY <3>3, <3>4, <3>5
  <2>3. ASSUME NEW c \in BlocksOf(m2) \cup {Sentinel}, c # 0
        PROVE  PrevPhys(m2, c) \in BlocksOf(m2) /\ NextPhys(m2, PrevPhys(m2, c)) = c
    <3>1. CASE c = n
      BY <1>11, <1>15, <3>1
    <3>2. CASE c = p
      BY <1>11, <1>15, <3>2
    <3>3. CASE c # n /\ c # p
      <4> DEFINE d == PrevPhys(m, c)
      <4>1. c \in BlocksOf(m) \cup {Sentinel} /\ c \in Units
        BY <1>11, <3>3, Pool DEF BlocksOf
      <4>2. d \in BlocksOf(m) /\ NextPhys(m, d) = c
        BY <2>3, <4>1 DEF Tiled
      <4> HIDE DEF d
      <4>3. d # b
        BY <1>0, <3>3, <4>2
      <4>4. m2[c].prev_phys_size = m[c].prev_phys_size
        BY <1>4, <1>7, <3>3, <4>1
      <4>5. PrevPhys(m2, c) = d
        BY <4>4 DEF PrevPhys, d
      <4> QED BY <1>11, <1>14, <4>2, <4>3, <4>5
    <3> QED BY <3>1, <3>2, <3>3
  <2> QED BY <2>1, <2>2, <2>3 DEF Tiled
<1> QED BY <1>3, <1>4, <1>5, <1>6, <1>7, <1>9, <1>11, <1>12, <1>13, <1>14, <1>15, <1>16 DEF InTwo

(* prepare_used: what the block does not need becomes a free block in the
   list of its size.  The block itself is still marked free and excepted. *)
LEMMA SplitOK ==
    ASSUME NEW h, NEW b \in FreeOf(h.mem), HeapOK(h, {b}, FreeOf(h.mem) \ {b}),
           h.mem[NextPhys(h.mem, b)].free = FALSE,
           NEW s \in Nat, s >= 1, s <= h.mem[b].size,
           NEW r, r = Split(h, b, s)
    PROVE  /\ HeapOK(r, {b}, FreeOf(r.mem) \ {b})
           /\ b \in FreeOf(r.mem)
           /\ r.mem[b].size >= s
           /\ SameUsed(r.mem, h.mem)
<1> DEFINE m == h.mem
           left == m[b].size - s
           p == Payload(b) + s
           n == NextPhys(m, b)
           F == FreeOf(m) \ {b}
<1>1. Tiled(m) /\ Merged(m, {b}) /\ Flagged(m, {b}) /\ Linked(m, h.lists, F) /\ Mapped(h.lists, h.fl, h.sl)
      /\ DOMAIN h = Fields /\ h = [mem |-> h.mem, lists |-> h.lists, fl |-> h.fl, sl |-> h.sl]
      /\ b \in BlocksOf(m)
  BY DEF HeapOK, FreeOf
<1>2. m[b].size \in Nat
  BY <1>1, BlockPlace, Pool
<1>3. CASE left < 2
  <2>1. r = h
    BY <1>3 DEF Split
  <2> QED BY <1>2, <2>1 DEF SameUsed
<1>4. CASE left >= 2
  <2> DEFINE g == [h EXCEPT !.mem[b].size = s,
                            !.mem[p] = Header(left - 1, TRUE, FALSE, s),
                            !.mem[n].prev_phys_size = left - 1,
                            !.mem[n].prev_free = TRUE]
             m2 == g.mem
  <2>1. r = InsertFree(g, p)
    BY <1>2, <1>4 DEF Split
  <2>2. b \in Units /\ p \in Units /\ n \in Units /\ b # p /\ n # b /\ n # p
    <3>1. b \in Int /\ b \in Units /\ n \in Int /\ n \in Units /\ Payload(b) = b + 1 /\ n = b + 1 + m[b].size
      BY <1>1, BlockPlace, Pool
    <3> HIDE DEF n
    <3>2. p = b + 1 + s
      BY <3>1
    <3> HIDE DEF p
    <3>3. b < p /\ p < n
      BY <1>2, <1>4, <3>1, <3>2
    <3> QED BY <3>1, <3>2, <3>3, Pool
  <2>3. DOMAIN m = Units
    BY <1>1 DEF Tiled
  <2> HIDE DEF m, p, n
  <2> DEFINE w == Header(left - 1, TRUE, FALSE, s)
             t == left - 1
  <2> HIDE DEF w, t
  <2>4. /\ SameLists(g, h)
        /\ m2 = [[[[m EXCEPT ![b].size = s] EXCEPT ![p] = w]
                    EXCEPT ![n].prev_phys_size = t] EXCEPT ![n].prev_free = TRUE]
    <3>1. g = [h EXCEPT !.mem[b].size = s, !.mem[p] = w,
                        !.mem[n].prev_phys_size = t, !.mem[n].prev_free = TRUE]
      BY DEF w, t
    <3> HIDE DEF g
    <3> QED BY <1>1, <3>1 DEF Fields, SameLists, m
  <2> HIDE DEF g, m2
  <2>5. Halved(m2, m, b, s, p, n)
    <3>1. /\ DOMAIN m2 = Units
          /\ m2[b] = [m[b] EXCEPT !.size = s]
          /\ m2[p] = w
          /\ m2[n] = [[m[n] EXCEPT !.prev_phys_size = t] EXCEPT !.prev_free = TRUE]
          /\ \A a \in Units : a \notin {b, p, n} => m2[a] = m[a]
      BY <2>2, <2>3, <2>4
    <3>2. m[b].size - s >= 2 /\ s \in Nat /\ s >= 1
      BY <1>4
    <3> QED BY <3>1, <3>2 DEF Halved, p, n, w, t
  <2>6. /\ Tiled(m2)
        /\ BlocksOf(m2) = BlocksOf(m) \cup {p}
        /\ p \in Units /\ p \notin BlocksOf(m) /\ b < p /\ p < n /\ m[p].kind # "header"
        /\ NextPhys(m2, b) = p /\ NextPhys(m2, p) = n
        /\ m2[b].size = s
        /\ m2[p].free = TRUE
        /\ m2[n].prev_free = TRUE
        /\ \A c \in BlocksOf(m) \ {b} : NextPhys(m2, c) = NextPhys(m, c) /\ m2[c].size = m[c].size
        /\ \A c \in BlocksOf(m) \cup {Sentinel} : m2[c].free = m[c].free
        /\ \A c \in (BlocksOf(m) \cup {Sentinel}) \ {n} : m2[c].prev_free = m[c].prev_free
        /\ \A a \in Units : a \notin {b, p, n} => m2[a] = m[a]
        /\ m2[b].kind = "header" /\ m2[p].kind = "header" /\ m2[n].kind = "header"
    <3>1. Tiled(m) /\ b \in BlocksOf(m)
      BY <1>1 DEF m
    <3>2. InTwo(m2, m, b, s, p, n)
      BY <2>5, <3>1, HalvedBlocks
    <3> QED BY <3>2, Zenon DEF InTwo
  <2>7. FreeOf(m2) = FreeOf(m) \cup {p}
    BY <2>6 DEF FreeOf
  <2>8. /\ Tiled(m) /\ Merged(m, {b}) /\ Flagged(m, {b}) /\ Linked(m, h.lists, F)
        /\ b \in BlocksOf(m) /\ b \in FreeOf(m) /\ m[n].free = FALSE
        /\ n \in BlocksOf(m) \cup {Sentinel} /\ n = NextPhys(m, b)
    <3>1. NextPhys(m, b) \in BlocksOf(m) \cup {Sentinel}
      BY <1>1, BlockPlace DEF m
    <3> QED BY <1>1, <3>1 DEF m, n
  <2>9. Flagged(m2, {b})
    <3> SUFFICES ASSUME NEW c \in BlocksOf(m2), c # b
                 PROVE  m2[NextPhys(m2, c)].prev_free = m2[c].free
      BY DEF Flagged
    <3>1. CASE c = p
      BY <2>6, <3>1
    <3>2. CASE c # p
      <4>1. c \in BlocksOf(m) \ {b} /\ NextPhys(m2, c) = NextPhys(m, c) /\ m2[c].free = m[c].free
        BY <2>6, <3>2
      <4>2. NextPhys(m, c) # n
        BY <2>8, <4>1, NextOnce
      <4>3. NextPhys(m, c) \in BlocksOf(m) \cup {Sentinel} /\ m[NextPhys(m, c)].prev_free = m[c].free
        BY <2>8, <4>1 DEF Tiled, Flagged
      <4> QED BY <2>6, <4>1, <4>2, <4>3
    <3> QED BY <3>1, <3>2
  <2>10. Merged(m2, {b})
    <3> SUFFICES ASSUME NEW c \in FreeOf(m2), c # b, NextPhys(m2, c) # b
                 PROVE  m2[NextPhys(m2, c)].free = FALSE
      BY DEF Merged
    <3>1. CASE c = p
      BY <2>6, <2>8, <3>1
    <3>2. CASE c # p
      <4>1. c \in FreeOf(m) /\ c \in BlocksOf(m) \ {b} /\ NextPhys(m2, c) = NextPhys(m, c)
        BY <2>6, <2>7, <3>2 DEF FreeOf
      <4>2. NextPhys(m, c) \in BlocksOf(m) \cup {Sentinel} /\ m[NextPhys(m, c)].free = FALSE
        BY <2>8, <4>1 DEF Tiled, Merged
      <4> QED BY <2>6, <4>1, <4>2
    <3> QED BY <3>1, <3>2
  <2>11. Linked(m2, h.lists, F)
    <3>1. F \subseteq BlocksOf(m2) /\ \A c \in F : c \in BlocksOf(m) /\ m2[c].size = m[c].size
      BY <2>6, <2>8 DEF Linked, m
    <3>2. ASSUME NEW c \in F PROVE m2[Payload(c)] = m[Payload(c)]
      <4>1. Payload(c) \in Units /\ m[Payload(c)].kind # "header" /\ Payload(c) = c + 1 /\ c \in Int /\ c \in Units
            /\ m[c].kind = "header"
        BY <2>8, <3>1, BlockPlace, Pool
      <4>2. m[b].kind = "header" /\ m[n].kind = "header"
        BY <2>8, BlockPlace
      <4>3. Payload(c) # p
        <5>1. c # b
          BY DEF F
        <5>2. \A a \in Units : b < a /\ a < n => m[a].kind # "header"
          BY <2>8 DEF Tiled
        <5>3. b \in Int /\ p = b + 1 + s /\ p < n /\ n \in Int
          BY <2>6, <2>8, BlockPlace, Pool DEF p
        <5> QED BY <4>1, <5>1, <5>2, <5>3
      <4> QED BY <2>6, <4>1, <4>2, <4>3
    <3>3. ASSUME NEW a \in Units, m2[a].kind = "links" PROVE m[a].kind = "links"
      BY <2>6, <3>3
    <3> HIDE DEF F
    <3> QED BY <2>8, <3>1, <3>2, <3>3, ListsKept
  <2>12. HeapOK(g, {b}, F)
    <3>1. DOMAIN g = Fields /\ g = [mem |-> g.mem, lists |-> g.lists, fl |-> g.fl, sl |-> g.sl]
          /\ g.lists = h.lists /\ g.fl = h.fl /\ g.sl = h.sl
      BY <2>4 DEF SameLists
    <3>2. Mapped(g.lists, g.fl, g.sl) /\ Linked(g.mem, g.lists, F)
      BY <1>1, <2>11, <3>1 DEF m2
    <3> HIDE DEF F
    <3> QED BY <2>6, <2>9, <2>10, <3>1, <3>2 DEF HeapOK, m2
  <2>13. HeapOK(r, {b}, F \cup {p}) /\ SameHeaders(r.mem, m2)
    <3>1. p \in BlocksOf(g.mem) \ F
      BY <2>6 DEF m2, F, FreeOf, m
    <3> HIDE DEF F
    <3> QED BY <2>1, <2>12, <3>1, InsertFreeOK DEF m2
  <2>14. /\ BlocksOf(r.mem) = BlocksOf(m2) /\ FreeOf(r.mem) = FreeOf(m2)
         /\ \A c \in BlocksOf(m2) \cup {Sentinel} : r.mem[c] = m2[c]
    BY <2>6, <2>13, BlocksKept
  <2>15. F \cup {p} = FreeOf(r.mem) \ {b}
    BY <2>2, <2>7, <2>14 DEF m
  <2>16. SameUsed(r.mem, m)
    <3>1. UsedOf(r.mem) = UsedOf(m)
      <4>1. \A B, G : p \notin B => (B \cup {p}) \ (G \cup {p}) = B \ G
        OBVIOUS
      <4> QED BY <2>6, <2>7, <2>14, <4>1 DEF UsedOf
    <3> QED BY <2>6, <2>8, <2>14, <3>1 DEF SameUsed, UsedOf
  <2>17. b \in FreeOf(r.mem) /\ r.mem[b].size = s
    BY <2>6, <2>7, <2>8, <2>14
  <2>18. HeapOK(r, {b}, FreeOf(r.mem) \ {b})
    BY <2>13, <2>15
  <2> QED BY <2>16, <2>17, <2>18 DEF m
<1> QED BY <1>2, <1>3, <1>4
-----------------------------------------------------------------------------
(* The flags. *)

(* alloc: the block taken is marked used, and nothing is excepted any more. *)
LEMMA MarkUsedOK ==
    ASSUME NEW h, NEW b \in FreeOf(h.mem), HeapOK(h, {b}, FreeOf(h.mem) \ {b}),
           NEW r, r = MarkUsed(h, b)
    PROVE  /\ HeapOK(r, {}, FreeOf(r.mem))
           /\ UsedOf(r.mem) = UsedOf(h.mem) \cup {b}
           /\ b \notin UsedOf(h.mem)
           /\ \A c \in UsedOf(r.mem) : r.mem[c].size = h.mem[c].size
<1> DEFINE m == h.mem
           n == NextPhys(m, b)
           m2 == r.mem
           F == FreeOf(m) \ {b}
<1>1. /\ Tiled(m) /\ Merged(m, {b}) /\ Flagged(m, {b}) /\ Linked(m, h.lists, F) /\ Mapped(h.lists, h.fl, h.sl)
      /\ DOMAIN h = Fields /\ h = [mem |-> h.mem, lists |-> h.lists, fl |-> h.fl, sl |-> h.sl]
      /\ b \in BlocksOf(m) /\ DOMAIN m = Units
  BY DEF HeapOK, FreeOf, Tiled
<1>2. /\ b \in Units /\ n \in Units /\ b # n /\ m[b].kind = "header" /\ m[n].kind = "header"
      /\ n \in BlocksOf(m) \cup {Sentinel} /\ n # 0 /\ b # Sentinel
      /\ m[b] \in Words /\ m[n] \in Words
  <2>1. b \in Int /\ n \in Int /\ b < n
    BY <1>1, BlockPlace, Pool
  <2>2. /\ b \in Units /\ n \in Units /\ m[b].kind = "header" /\ m[n].kind = "header"
        /\ n \in BlocksOf(m) \cup {Sentinel} /\ n # 0 /\ b # Sentinel
    BY <1>1, BlockPlace DEF BlocksOf
  <2> QED BY <1>1, <2>1, <2>2 DEF Tiled
<1> HIDE DEF n
<1>3. SameLists(r, h) /\ m2 = [[m EXCEPT ![b].free = FALSE] EXCEPT ![n].prev_free = FALSE]
  BY <1>1 DEF MarkUsed, Fields, SameLists, n
<1> HIDE DEF m2
<1>4. /\ DOMAIN m2 = Units
      /\ m2[b] = [m[b] EXCEPT !.free = FALSE]
      /\ m2[n] = [m[n] EXCEPT !.prev_free = FALSE]
      /\ \A a \in Units : a \notin {b, n} => m2[a] = m[a]
  BY <1>1, <1>2, <1>3
<1>5. /\ m2[b] \in Words /\ m2[b].kind = "header" /\ m2[b].size = m[b].size /\ m2[b].free = FALSE
      /\ m2[b].prev_free = m[b].prev_free /\ m2[b].prev_phys_size = m[b].prev_phys_size
      /\ m2[n] \in Words /\ m2[n].kind = "header" /\ m2[n].size = m[n].size /\ m2[n].free = m[n].free
      /\ m2[n].prev_free = FALSE /\ m2[n].prev_phys_size = m[n].prev_phys_size
  <2>1. m[b] \in HeaderWords /\ m[n] \in HeaderWords
    BY <1>2, HeaderWord
  <2>2. /\ m2[b] \in HeaderWords /\ m2[b].kind = "header" /\ m2[b].size = m[b].size /\ m2[b].free = FALSE
        /\ m2[b].prev_free = m[b].prev_free /\ m2[b].prev_phys_size = m[b].prev_phys_size
    BY <1>4, <2>1 DEF HeaderWords
  <2>3. /\ m2[n] \in HeaderWords /\ m2[n].kind = "header" /\ m2[n].size = m[n].size /\ m2[n].free = m[n].free
        /\ m2[n].prev_free = FALSE /\ m2[n].prev_phys_size = m[n].prev_phys_size
    BY <1>4, <2>1 DEF HeaderWords
  <2> QED BY <2>2, <2>3 DEF Words
<1>6. Reflagged(m2, m)
  <2>1. \A a \in Units :
          /\ m2[a] \in Words /\ m2[a].kind = m[a].kind
          /\ m[a].kind # "header" => m2[a] = m[a]
          /\ m[a].kind = "header" =>
               m2[a].size = m[a].size /\ m2[a].prev_phys_size = m[a].prev_phys_size
    <3> TAKE a \in Units
    <3>1. CASE a \in {b, n}
      BY <1>2, <1>5, <3>1
    <3>2. CASE a \notin {b, n}
      BY <1>1, <1>4, <3>2 DEF Tiled
    <3> QED BY <3>1, <3>2
  <2>2. m2[0].prev_free = FALSE /\ m2[Sentinel].free = FALSE
    <3>1. m[0].prev_free = FALSE /\ m[Sentinel].free = FALSE /\ 0 \in Units /\ Sentinel \in Units /\ Sentinel # 0
      BY <1>1, Pool DEF Tiled
    <3>2. m2[0].prev_free = m[0].prev_free
      BY <1>2, <1>4, <1>5, <3>1
    <3>3. m2[Sentinel].free = m[Sentinel].free
      BY <1>2, <1>4, <1>5, <3>1
    <3> QED BY <3>1, <3>2, <3>3
  <2> QED BY <1>4, <2>1, <2>2 DEF Reflagged
<1>7. /\ Tiled(m2) /\ BlocksOf(m2) = BlocksOf(m)
      /\ \A c \in BlocksOf(m) : NextPhys(m2, c) = NextPhys(m, c) /\ m2[c].size = m[c].size
      /\ Linked(m2, h.lists, F)
  BY <1>1, <1>6, BlocksStay
<1>8. \A c \in BlocksOf(m) \cup {Sentinel} :
        /\ c # b => m2[c].free = m[c].free
        /\ c # n => m2[c].prev_free = m[c].prev_free
  <2> TAKE c \in BlocksOf(m) \cup {Sentinel}
  <2>1. c \in Units
    BY Pool DEF BlocksOf
  <2>2. CASE c \in {b, n}
    BY <1>5, <2>2
  <2>3. CASE c \notin {b, n}
    BY <1>4, <2>1, <2>3
  <2> QED BY <2>2, <2>3
<1>9. FreeOf(m2) = F
  BY <1>5, <1>7, <1>8 DEF FreeOf
<1>10. Flagged(m2, {})
  <2> SUFFICES ASSUME NEW c \in BlocksOf(m) PROVE m2[NextPhys(m, c)].prev_free = m2[c].free
    BY <1>7 DEF Flagged
  <2>1. CASE c = b
    BY <1>5, <2>1 DEF n
  <2>2. CASE c # b
    <3>1. NextPhys(m, c) # n /\ NextPhys(m, c) \in BlocksOf(m) \cup {Sentinel}
      BY <1>1, <2>2, NextOnce, BlockPlace DEF n
    <3>2. m[NextPhys(m, c)].prev_free = m[c].free
      BY <1>1, <2>2 DEF Flagged
    <3> QED BY <1>8, <2>2, <3>1, <3>2
  <2> QED BY <2>1, <2>2
<1>11. Merged(m2, {})
  <2> SUFFICES ASSUME NEW c \in F PROVE m2[NextPhys(m, c)].free = FALSE
    BY <1>7, <1>9 DEF Merged, FreeOf
  <2>1. c \in FreeOf(m) /\ c # b /\ c \in BlocksOf(m) /\ NextPhys(m, c) \in BlocksOf(m) \cup {Sentinel}
    BY <1>1, BlockPlace DEF FreeOf
  <2>2. CASE NextPhys(m, c) = b
    BY <1>5, <2>2
  <2>3. CASE NextPhys(m, c) # b
    <3>1. m[NextPhys(m, c)].free = FALSE
      BY <1>1, <2>1, <2>3 DEF Merged
    <3> QED BY <1>8, <2>1, <2>3, <3>1
  <2> QED BY <2>2, <2>3
<1>12. HeapOK(r, {}, F)
  <2> HIDE DEF F
  <2> QED BY <1>1, <1>3, <1>7, <1>10, <1>11 DEF HeapOK, SameLists, m2
<1>13. UsedOf(m2) = UsedOf(m) \cup {b} /\ b \notin UsedOf(m)
  BY <1>1, <1>7, <1>9 DEF UsedOf
<1>14. \A c \in UsedOf(m2) : m2[c].size = m[c].size
  BY <1>7 DEF UsedOf
<1> QED BY <1>9, <1>12, <1>13, <1>14 DEF m2

(* free: the block given back is marked free, and is the one worked on. *)
MarkFree(h, b) == [h EXCEPT !.mem[b].free = TRUE]

UsedBut(m2, m, b) ==
    /\ UsedOf(m2) = UsedOf(m) \ {b}
    /\ \A c \in UsedOf(m2) : m2[c].size = m[c].size

LEMMA MarkFreeOK ==
    ASSUME NEW h, HeapOK(h, {}, FreeOf(h.mem)), NEW b \in UsedOf(h.mem),
           NEW r, r = MarkFree(h, b)
    PROVE  /\ HeapOK(r, {b}, FreeOf(r.mem) \ {b})
           /\ b \in FreeOf(r.mem)
           /\ UsedBut(r.mem, h.mem, b)
<1> DEFINE m == h.mem
           m2 == r.mem
           F == FreeOf(m)
<1>1. /\ Tiled(m) /\ Merged(m, {}) /\ Flagged(m, {}) /\ Linked(m, h.lists, F) /\ Mapped(h.lists, h.fl, h.sl)
      /\ DOMAIN h = Fields /\ h = [mem |-> h.mem, lists |-> h.lists, fl |-> h.fl, sl |-> h.sl]
      /\ b \in BlocksOf(m) /\ b \notin F /\ DOMAIN m = Units
  BY DEF HeapOK, UsedOf, Tiled
<1>2. b \in Units /\ m[b].kind = "header" /\ b # Sentinel /\ m[b] \in Words
  BY <1>1, BlockPlace DEF BlocksOf, Tiled
<1>3. SameLists(r, h) /\ m2 = [m EXCEPT ![b].free = TRUE]
  BY <1>1 DEF Fields, SameLists, MarkFree
<1> HIDE DEF m2
<1>4. /\ DOMAIN m2 = Units
      /\ m2[b] = [m[b] EXCEPT !.free = TRUE]
      /\ \A a \in Units : a # b => m2[a] = m[a]
  BY <1>1, <1>2, <1>3
<1>5. /\ m2[b] \in Words /\ m2[b].kind = "header" /\ m2[b].size = m[b].size /\ m2[b].free = TRUE
      /\ m2[b].prev_free = m[b].prev_free /\ m2[b].prev_phys_size = m[b].prev_phys_size
  <2>1. m[b] \in HeaderWords
    BY <1>2, HeaderWord
  <2> QED BY <1>4, <2>1 DEF HeaderWords, Words
<1>6. Reflagged(m2, m)
  <2>1. \A a \in Units :
          /\ m2[a] \in Words /\ m2[a].kind = m[a].kind
          /\ m[a].kind # "header" => m2[a] = m[a]
          /\ m[a].kind = "header" =>
               m2[a].size = m[a].size /\ m2[a].prev_phys_size = m[a].prev_phys_size
    <3> TAKE a \in Units
    <3>1. CASE a = b
      BY <1>2, <1>5, <3>1
    <3>2. CASE a # b
      BY <1>1, <1>4, <3>2 DEF Tiled
    <3> QED BY <3>1, <3>2
  <2>2. m2[0].prev_free = FALSE /\ m2[Sentinel].free = FALSE
    <3>1. m[0].prev_free = FALSE /\ m[Sentinel].free = FALSE /\ 0 \in Units /\ Sentinel \in Units
      BY <1>1, Pool DEF Tiled
    <3> QED BY <1>2, <1>4, <1>5, <3>1
  <2> QED BY <1>4, <2>1, <2>2 DEF Reflagged
<1>7. /\ Tiled(m2) /\ BlocksOf(m2) = BlocksOf(m)
      /\ \A c \in BlocksOf(m) : NextPhys(m2, c) = NextPhys(m, c) /\ m2[c].size = m[c].size
      /\ Linked(m2, h.lists, F)
  BY <1>1, <1>6, BlocksStay
<1>8. \A c \in BlocksOf(m) \cup {Sentinel} :
        /\ c # b => m2[c].free = m[c].free
        /\ m2[c].prev_free = m[c].prev_free
  <2> TAKE c \in BlocksOf(m) \cup {Sentinel}
  <2>1. c \in Units
    BY Pool DEF BlocksOf
  <2> QED BY <1>4, <1>5, <2>1
<1>9. FreeOf(m2) = F \cup {b} /\ FreeOf(m2) \ {b} = F
  BY <1>1, <1>5, <1>7, <1>8 DEF FreeOf
<1>10. Flagged(m2, {b})
  <2> SUFFICES ASSUME NEW c \in BlocksOf(m), c # b PROVE m2[NextPhys(m, c)].prev_free = m2[c].free
    BY <1>7 DEF Flagged
  <2>1. NextPhys(m, c) \in BlocksOf(m) \cup {Sentinel}
    BY <1>1, BlockPlace
  <2>2. m[NextPhys(m, c)].prev_free = m[c].free
    BY <1>1 DEF Flagged
  <2> QED BY <1>8, <2>1, <2>2
<1>11. Merged(m2, {b})
  <2> SUFFICES ASSUME NEW c \in F, NextPhys(m2, c) # b PROVE m2[NextPhys(m2, c)].free = FALSE
    BY <1>9 DEF Merged
  <2>1. c \in BlocksOf(m)
    BY DEF FreeOf
  <2>2. NextPhys(m2, c) = NextPhys(m, c) /\ NextPhys(m, c) \in BlocksOf(m) \cup {Sentinel}
    BY <1>1, <1>7, <2>1, BlockPlace
  <2>3. m[NextPhys(m, c)].free = FALSE
    BY <1>1 DEF Merged
  <2> QED BY <1>8, <2>2, <2>3
<1>12. HeapOK(r, {b}, F)
  <2> HIDE DEF F
  <2> QED BY <1>1, <1>3, <1>7, <1>10, <1>11 DEF HeapOK, SameLists, m2
<1>13. UsedOf(m2) = UsedOf(m) \ {b}
  BY <1>7, <1>9 DEF UsedOf
<1>14. \A c \in UsedOf(m2) : m2[c].size = m[c].size
  BY <1>7 DEF UsedOf
<1> QED BY <1>9, <1>12, <1>13, <1>14 DEF m2, UsedBut

(* The end of free: the block behind is told and the free block listed. *)
LEMMA TellNextOK ==
    ASSUME NEW h, NEW b \in FreeOf(h.mem), HeapOK(h, {b}, FreeOf(h.mem) \ {b}),
           h.mem[NextPhys(h.mem, b)].free = FALSE,
           \A f \in FreeOf(h.mem) : NextPhys(h.mem, f) # b,
           NEW r, r = InsertFree(TellNext(h, b), b)
    PROVE  /\ HeapOK(r, {}, FreeOf(r.mem))
           /\ SameUsed(r.mem, h.mem)
<1> DEFINE m == h.mem
           n == NextPhys(m, b)
           g == TellNext(h, b)
           m2 == g.mem
           F == FreeOf(m) \ {b}
<1>1. /\ Tiled(m) /\ Merged(m, {b}) /\ Flagged(m, {b}) /\ Linked(m, h.lists, F) /\ Mapped(h.lists, h.fl, h.sl)
      /\ DOMAIN h = Fields /\ h = [mem |-> h.mem, lists |-> h.lists, fl |-> h.fl, sl |-> h.sl]
      /\ b \in BlocksOf(m) /\ DOMAIN m = Units
  BY DEF HeapOK, FreeOf, Tiled
<1>2. /\ b \in Units /\ n \in Units /\ b # n /\ m[n].kind = "header"
      /\ n \in BlocksOf(m) \cup {Sentinel} /\ n # 0 /\ m[n] \in Words
      /\ m[n].prev_phys_size = m[b].size /\ m[b].free = TRUE
  <2>1. b \in Int /\ n \in Int /\ b < n
    BY <1>1, BlockPlace, Pool
  <2>2. m[n].prev_phys_size = m[b].size
    BY <1>1, Back
  <2>3. m[b].free = TRUE
    BY <1>1, FreeBlock
  <2> QED BY <1>1, <2>1, <2>2, <2>3, BlockPlace DEF BlocksOf, Tiled
<1> HIDE DEF n
<1>3. SameLists(g, h) /\ m2 = [[m EXCEPT ![n].prev_free = TRUE] EXCEPT ![n].prev_phys_size = m[b].size]
  <2> DEFINE z == m[b].size
  <2>1. g = [h EXCEPT !.mem[n].prev_free = TRUE, !.mem[n].prev_phys_size = z]
    BY DEF TellNext, n
  <2> HIDE DEF z, g
  <2>2. SameLists(g, h) /\ m2 = [[m EXCEPT ![n].prev_free = TRUE] EXCEPT ![n].prev_phys_size = z]
    BY <1>1, <2>1 DEF Fields, SameLists
  <2> QED BY <2>2 DEF z
<1> HIDE DEF m2, g
<1>4. /\ DOMAIN m2 = Units
      /\ m2[n] = [[m[n] EXCEPT !.prev_free = TRUE] EXCEPT !.prev_phys_size = m[b].size]
      /\ \A a \in Units : a # n => m2[a] = m[a]
  BY <1>1, <1>2, <1>3
<1>5. /\ m2[n] \in Words /\ m2[n].kind = "header" /\ m2[n].size = m[n].size /\ m2[n].free = m[n].free
      /\ m2[n].prev_free = TRUE /\ m2[n].prev_phys_size = m[n].prev_phys_size
  <2>1. m[n] \in HeaderWords /\ m[b].size \in Sizes
    BY <1>1, <1>2, HeaderWord, BlockPlace
  <2> QED BY <1>2, <1>4, <2>1 DEF HeaderWords, Words
<1>6. Reflagged(m2, m)
  <2>1. \A a \in Units :
          /\ m2[a] \in Words /\ m2[a].kind = m[a].kind
          /\ m[a].kind # "header" => m2[a] = m[a]
          /\ m[a].kind = "header" =>
               m2[a].size = m[a].size /\ m2[a].prev_phys_size = m[a].prev_phys_size
    <3> TAKE a \in Units
    <3>1. CASE a = n
      BY <1>2, <1>5, <3>1
    <3>2. CASE a # n
      BY <1>1, <1>4, <3>2 DEF Tiled
    <3> QED BY <3>1, <3>2
  <2>2. m2[0].prev_free = FALSE /\ m2[Sentinel].free = FALSE
    <3>1. m[0].prev_free = FALSE /\ m[Sentinel].free = FALSE /\ 0 \in Units /\ Sentinel \in Units
      BY <1>1, Pool DEF Tiled
    <3> QED BY <1>2, <1>4, <1>5, <3>1
  <2> QED BY <1>4, <2>1, <2>2 DEF Reflagged
<1>7. /\ Tiled(m2) /\ BlocksOf(m2) = BlocksOf(m)
      /\ \A c \in BlocksOf(m) : NextPhys(m2, c) = NextPhys(m, c) /\ m2[c].size = m[c].size
      /\ Linked(m2, h.lists, F)
  BY <1>1, <1>6, BlocksStay
<1>8. \A c \in BlocksOf(m) \cup {Sentinel} :
        /\ m2[c].free = m[c].free
        /\ c # n => m2[c].prev_free = m[c].prev_free
  <2> TAKE c \in BlocksOf(m) \cup {Sentinel}
  <2>1. c \in Units
    BY Pool DEF BlocksOf
  <2> QED BY <1>4, <1>5, <2>1
<1>9. FreeOf(m2) = FreeOf(m)
  BY <1>7, <1>8 DEF FreeOf
<1>10. Flagged(m2, {})
  <2> SUFFICES ASSUME NEW c \in BlocksOf(m) PROVE m2[NextPhys(m, c)].prev_free = m2[c].free
    BY <1>7 DEF Flagged
  <2>1. CASE c = b
    BY <1>2, <1>5, <1>8, <2>1 DEF n
  <2>2. CASE c # b
    <3>1. NextPhys(m, c) # n /\ NextPhys(m, c) \in BlocksOf(m) \cup {Sentinel}
      BY <1>1, <2>2, NextOnce, BlockPlace DEF n
    <3>2. m[NextPhys(m, c)].prev_free = m[c].free
      BY <1>1, <2>2 DEF Flagged
    <3> QED BY <1>8, <2>2, <3>1, <3>2
  <2> QED BY <2>1, <2>2
<1>11. Merged(m2, {})
  <2> SUFFICES ASSUME NEW c \in FreeOf(m) PROVE m2[NextPhys(m, c)].free = FALSE
    BY <1>7, <1>9 DEF Merged, FreeOf
  <2>1. c \in BlocksOf(m) /\ NextPhys(m, c) \in BlocksOf(m) \cup {Sentinel} /\ NextPhys(m, c) # b
    BY <1>1, BlockPlace DEF FreeOf
  <2>2. m[NextPhys(m, c)].free = FALSE
    BY <1>1, <2>1 DEF Merged
  <2> QED BY <1>8, <2>1, <2>2
<1>12. HeapOK(g, {}, F)
  <2> HIDE DEF F
  <2> QED BY <1>1, <1>3, <1>7, <1>10, <1>11 DEF HeapOK, SameLists, m2
<1>13. HeapOK(r, {}, F \cup {b}) /\ SameHeaders(r.mem, m2)
  <2>1. b \in BlocksOf(g.mem) \ F
    BY <1>1, <1>7 DEF m2
  <2>2. r = InsertFree(g, b)
    BY DEF g
  <2> HIDE DEF F
  <2> QED BY <1>12, <2>1, <2>2, InsertFreeOK DEF m2
<1>14. /\ BlocksOf(r.mem) = BlocksOf(m) /\ FreeOf(r.mem) = FreeOf(m)
       /\ \A c \in BlocksOf(m) : r.mem[c].size = m[c].size
  <2>1. /\ BlocksOf(r.mem) = BlocksOf(m2) /\ FreeOf(r.mem) = FreeOf(m2)
        /\ \A c \in BlocksOf(m2) \cup {Sentinel} : r.mem[c] = m2[c]
    BY <1>7, <1>13, BlocksKept
  <2> QED BY <1>7, <1>9, <2>1
<1>15. F \cup {b} = FreeOf(r.mem)
  BY <1>14
<1> QED BY <1>13, <1>14, <1>15 DEF SameUsed, UsedOf
-----------------------------------------------------------------------------
(* The sizes asked for. *)
LEMMA AdjustedIs ==
    ASSUME NEW n \in Requests
    PROVE  /\ n \in Nat /\ Adjusted(n) \in Nat /\ Adjusted(n) >= MIN_PAYLOAD
           /\ Adjusted(n) < P2(FL_MAX + 1)
           /\ n <= Adjusted(n)
           /\ Adjusted(n) \div ALIGN \in Nat /\ Adjusted(n) \div ALIGN >= 1
           /\ Adjusted(n) = ALIGN * (Adjusted(n) \div ALIGN)
<1> DEFINE top == P2(FL_MAX + 1)
           u == (n + ALIGN - 1) \div ALIGN
<1>1. n \in Nat /\ n >= 1 /\ n <= top - 16 /\ top \in Nat
  <2>1. n \in 1..(top - 16)
    BY TlsfAssumption DEF P2, ALIGN
  <2> QED BY <2>1, NextPower
<1>2. ALIGN = 16 /\ MIN_PAYLOAD = 16
  BY DEF ALIGN, MIN_PAYLOAD
<1>3. n + ALIGN - 1 = n + 15
  BY <1>1, <1>2
<1>4. u \in Nat /\ 16 * u <= n + 15 /\ n + 15 < 16 * u + 16
  BY <1>1, <1>2, <1>3
<1>5. align_up_size(n) = 16 * u
  BY <1>2, <1>4 DEF align_up_size
<1> HIDE DEF u, top
<1>6. u >= 1 /\ 16 * u >= n /\ 16 * u >= 16 /\ 16 * u < top
  BY <1>1, <1>4
<1>7. Adjusted(n) = 16 * u
  <2>1. ~ (align_up_size(n) < MIN_PAYLOAD)
    BY <1>2, <1>4, <1>5, <1>6
  <2> QED BY <1>5, <2>1 DEF Adjusted
<1>8. (16 * u) \div 16 = u
  BY <1>4
<1> QED BY <1>1, <1>2, <1>4, <1>6, <1>7, <1>8 DEF top
-----------------------------------------------------------------------------
(* alloc. *)
LEMMA AllocOK ==
    ASSUME NEW h, HeapOK(h, {}, FreeOf(h.mem)), NEW n \in Requests,
           NEW b, b = FindSuitable(h, Adjusted(n)), b # NULL,
           NEW r, r = MarkUsed(Split(RemoveFree(h, b), b, Adjusted(n) \div ALIGN), b)
    PROVE  /\ HeapOK(r, {}, FreeOf(r.mem))
           /\ UsedOf(r.mem) = UsedOf(h.mem) \cup {b}
           /\ b \notin UsedOf(h.mem)
           /\ \A c \in UsedOf(h.mem) : r.mem[c].size = h.mem[c].size
           /\ r.mem[b].size >= Adjusted(n) \div ALIGN
<1> DEFINE m == h.mem
           s == Adjusted(n) \div ALIGN
           g == RemoveFree(h, b)
           k == Split(g, b, s)
<1>1. /\ Adjusted(n) \in Nat /\ Adjusted(n) >= MIN_PAYLOAD /\ Adjusted(n) < P2(FL_MAX + 1)
      /\ s \in Nat /\ s >= 1 /\ Adjusted(n) = ALIGN * s
  BY AdjustedIs
<1>2. b \in FreeOf(m) /\ Adjusted(n) <= ALIGN * m[b].size
  BY <1>1, FindSuitableOK
<1>3. Tiled(m) /\ Flagged(m, {}) /\ Merged(m, {})
  BY DEF HeapOK
<1>4. b \in BlocksOf(m) /\ NextPhys(m, b) \in BlocksOf(m) \cup {Sentinel} /\ m[NextPhys(m, b)].free = FALSE
      /\ m[b].size \in Nat
  <2>1. b \in BlocksOf(m) /\ m[NextPhys(m, b)].free = FALSE
    BY <1>2, <1>3 DEF FreeOf, Merged
  <2> QED BY <1>3, <2>1, BlockPlace, Pool
<1>5. s <= m[b].size
  <2> DEFINE z == m[b].size
  <2>1. 16 * s <= 16 * z /\ z \in Nat
    BY <1>1, <1>2, <1>4 DEF ALIGN
  <2> HIDE DEF s, z
  <2>2. s <= z
    BY <1>1, <2>1
  <2> QED BY <2>2 DEF z
<1> HIDE DEF g
<1>6. HeapOK(g, {}, FreeOf(m) \ {b}) /\ SameHeaders(g.mem, m)
  BY <1>2, RemoveFreeOK DEF g
<1>7. /\ FreeOf(g.mem) = FreeOf(m) /\ BlocksOf(g.mem) = BlocksOf(m)
      /\ NextPhys(g.mem, b) = NextPhys(m, b)
      /\ \A c \in BlocksOf(m) \cup {Sentinel} : g.mem[c] = m[c]
  BY <1>3, <1>4, <1>6, BlocksKept
<1>8. HeapOK(g, {b}, FreeOf(g.mem) \ {b})
  <2>1. Flagged(g.mem, {b}) /\ Merged(g.mem, {b})
    BY <1>6 DEF HeapOK, Flagged, Merged
  <2>2. HeapOK(g, {b}, FreeOf(m) \ {b})
    <3> DEFINE F == FreeOf(m) \ {b}
    <3>1. HeapOK(g, {}, F)
      BY <1>6
    <3> HIDE DEF F
    <3>2. HeapOK(g, {b}, F)
      BY <2>1, <3>1 DEF HeapOK
    <3> QED BY <3>2 DEF F
  <2> QED BY <1>7, <2>2
<1>9. g.mem[NextPhys(g.mem, b)].free = FALSE /\ b \in FreeOf(g.mem) /\ s <= g.mem[b].size
  BY <1>2, <1>4, <1>5, <1>7
<1> HIDE DEF k, s
<1>10. /\ HeapOK(k, {b}, FreeOf(k.mem) \ {b}) /\ b \in FreeOf(k.mem)
       /\ k.mem[b].size >= s /\ SameUsed(k.mem, g.mem)
  BY <1>1, <1>8, <1>9, SplitOK DEF k
<1>11. r = MarkUsed(k, b)
  BY DEF k, g, s
<1>12. /\ HeapOK(r, {}, FreeOf(r.mem))
       /\ UsedOf(r.mem) = UsedOf(k.mem) \cup {b}
       /\ b \notin UsedOf(k.mem)
       /\ \A c \in UsedOf(r.mem) : r.mem[c].size = k.mem[c].size
  BY <1>10, <1>11, MarkUsedOK
<1>13. UsedOf(k.mem) = UsedOf(m) /\ \A c \in UsedOf(m) : k.mem[c].size = m[c].size
  BY <1>7, <1>10 DEF SameUsed, UsedOf
<1>14. r.mem[b].size >= s
  BY <1>10, <1>12
<1> QED BY <1>12, <1>13, <1>14 DEF s

(* free. *)
LEMMA FreeOK ==
    ASSUME NEW h, HeapOK(h, {}, FreeOf(h.mem)), NEW b \in UsedOf(h.mem),
           NEW r, r = InsertFree(TellNext(MergePrev(MergeNext([h EXCEPT !.mem[b].free = TRUE], b), b),
                                          MergedInto(MergeNext([h EXCEPT !.mem[b].free = TRUE], b), b)),
                                 MergedInto(MergeNext([h EXCEPT !.mem[b].free = TRUE], b), b))
    PROVE  /\ HeapOK(r, {}, FreeOf(r.mem))
           /\ UsedBut(r.mem, h.mem, b)
<1> DEFINE g == [h EXCEPT !.mem[b].free = TRUE]
           n == MergeNext(g, b)
           p == MergePrev(n, b)
           c == MergedInto(n, b)
<1>0. r = InsertFree(TellNext(p, c), c)
  OBVIOUS
<1> HIDE DEF g, n, p, c
<1>1. /\ HeapOK(g, {b}, FreeOf(g.mem) \ {b})
      /\ b \in FreeOf(g.mem)
      /\ UsedBut(g.mem, h.mem, b)
  <2>1. g = MarkFree(h, b)
    BY DEF g, MarkFree
  <2> QED BY <2>1, MarkFreeOK
<1>2. /\ HeapOK(n, {b}, FreeOf(n.mem) \ {b})
      /\ b \in FreeOf(n.mem)
      /\ n.mem[NextPhys(n.mem, b)].free = FALSE
      /\ SameUsed(n.mem, g.mem)
  BY <1>1, MergeNextOK DEF n
<1>3. /\ HeapOK(p, {c}, FreeOf(p.mem) \ {c})
      /\ c \in FreeOf(p.mem)
      /\ p.mem[NextPhys(p.mem, c)].free = FALSE
      /\ \A f \in FreeOf(p.mem) : NextPhys(p.mem, f) # c
      /\ SameUsed(p.mem, n.mem)
  BY <1>2, MergePrevOK DEF p, c
<1>4. HeapOK(r, {}, FreeOf(r.mem)) /\ SameUsed(r.mem, p.mem)
  BY <1>0, <1>3, TellNextOK
<1> QED BY <1>1, <1>2, <1>3, <1>4, ZenonT(40) DEF SameUsed, UsedBut
-----------------------------------------------------------------------------
(* What the application holds. *)
LEMMA Held ==
    ASSUME NEW m, Tiled(m), NEW H, HeldOK(m, H), NEW e \in H
    PROVE  /\ e[1] \in Units /\ e[2] \in Requests
           /\ FromPayload(e[1]) \in UsedOf(m) /\ FromPayload(e[1]) \in BlocksOf(m)
           /\ e[1] = Payload(FromPayload(e[1])) /\ e[1] = FromPayload(e[1]) + 1
           /\ e[2] \in Nat
           /\ e[2] <= ALIGN * m[FromPayload(e[1])].size
<1>1. e[1] \in Units /\ e[2] \in Requests
  BY DEF HeldOK
<1>2. e[1] \in Int
  BY <1>1, Pool
<1>3. FromPayload(e[1]) \in UsedOf(m) /\ e[2] <= ALIGN * m[FromPayload(e[1])].size
  BY DEF HeldOK, UsedOf
<1>4. e[2] \in Nat
  BY <1>1, AdjustedIs
<1> QED BY <1>1, <1>2, <1>3, <1>4 DEF FromPayload, Payload, UsedOf

LEMMA HeldMore ==
    ASSUME NEW m, Tiled(m), NEW H, HeldOK(m, H), NEW n \in Requests,
           NEW m2, Tiled(m2), NEW b,
           UsedOf(m2) = UsedOf(m) \cup {b}, b \notin UsedOf(m),
           \A c \in UsedOf(m) : m2[c].size = m[c].size,
           m2[b].size >= Adjusted(n) \div ALIGN
    PROVE  HeldOK(m2, H \cup {<<Payload(b), n>>})
<1> DEFINE new == <<Payload(b), n>>
           G == H \cup {new}
<1>1. b \in BlocksOf(m2)
  BY DEF UsedOf
<1>2. Payload(b) \in Units /\ Payload(b) = b + 1 /\ b \in Int /\ m2[b].size \in Int
  BY <1>1, BlockPlace, Pool
<1>3. FromPayload(Payload(b)) = b
  BY <1>2 DEF FromPayload
<1>4. n <= ALIGN * m2[b].size
  <2> DEFINE s == Adjusted(n) \div ALIGN
             z == m2[b].size
  <2>1. n \in Nat /\ s \in Nat /\ n <= 16 * s /\ z \in Int /\ z >= s
    BY <1>2, AdjustedIs DEF ALIGN
  <2> HIDE DEF s, z
  <2>2. n <= 16 * z
    BY <2>1
  <2> QED BY <2>2 DEF ALIGN, z
<1>5. new[1] = Payload(b) /\ new[2] = n
  OBVIOUS
<1> HIDE DEF new
<1>6. \A e \in H : /\ FromPayload(e[1]) \in UsedOf(m) /\ e[2] <= ALIGN * m2[FromPayload(e[1])].size
                   /\ e[1] = Payload(FromPayload(e[1]))
  BY Held
<1>7. \A e \in H : e[1] # Payload(b)
  <2> SUFFICES ASSUME NEW e \in H, e[1] = Payload(b) PROVE FALSE
    OBVIOUS
  <2> QED BY <1>3, <1>6
<1>8. G \subseteq Units \X Requests
  <2>1. new \in Units \X Requests
    BY <1>2 DEF new
  <2>2. H \subseteq Units \X Requests
    BY DEF HeldOK
  <2> QED BY <2>1, <2>2
<1>9. \A e \in G : /\ FromPayload(e[1]) \in UsedOf(m2)
                   /\ e[2] <= ALIGN * m2[FromPayload(e[1])].size
  BY <1>3, <1>4, <1>5, <1>6
<1>10. \A c \in UsedOf(m2) : \E e \in G : e[1] = Payload(c)
  <2>1. \A c \in UsedOf(m) : \E e \in H : e[1] = Payload(c)
    BY DEF HeldOK, UsedOf
  <2> QED BY <1>5, <2>1
<1>11. \A e, f \in G : e[1] = f[1] => e = f
  <2>1. \A e, f \in H : e[1] = f[1] => e = f
    BY DEF HeldOK
  <2> QED BY <1>5, <1>7, <2>1
<1> QED BY <1>8, <1>9, <1>10, <1>11 DEF HeldOK, UsedOf, new

LEMMA HeldLess ==
    ASSUME NEW m, Tiled(m), NEW H, HeldOK(m, H), NEW e \in H,
           NEW m2, UsedBut(m2, m, FromPayload(e[1]))
    PROVE  HeldOK(m2, H \ {e})
<1> DEFINE b == FromPayload(e[1])
           G == H \ {e}
<1>1. UsedOf(m2) = UsedOf(m) \ {b} /\ \A c \in UsedOf(m2) : m2[c].size = m[c].size
  BY DEF UsedBut
<1>2. /\ \A f \in H : f[1] = e[1] => f = e
      /\ \A f, g \in H : f[1] = g[1] => f = g
      /\ H \subseteq Units \X Requests
      /\ \A c \in UsedOf(m) : \E f \in H : f[1] = Payload(c)
  BY DEF HeldOK, UsedOf
<1>3. \A f \in H : /\ FromPayload(f[1]) \in UsedOf(m) /\ f[2] <= ALIGN * m[FromPayload(f[1])].size
                   /\ f[1] = Payload(FromPayload(f[1]))
  BY Held
<1> HIDE DEF b
<1>4. \A f \in G : FromPayload(f[1]) # b
  BY <1>2, <1>3 DEF b
<1>5. \A f \in G : FromPayload(f[1]) \in UsedOf(m2) /\ f[2] <= ALIGN * m2[FromPayload(f[1])].size
  BY <1>1, <1>3, <1>4
<1>6. e[1] = Payload(b)
  BY <1>3 DEF b
<1>7. \A c \in UsedOf(m2) : Payload(c) # Payload(b)
  <2> SUFFICES ASSUME NEW c \in UsedOf(m2), Payload(c) = Payload(b) PROVE FALSE
    OBVIOUS
  <2>1. c \in UsedOf(m) /\ c # b /\ b \in UsedOf(m)
    BY <1>1, <1>3 DEF b
  <2>2. c \in Int /\ b \in Int
    BY <2>1, Pool DEF UsedOf, BlocksOf
  <2> QED BY <2>1, <2>2 DEF Payload
<1>8. \A c \in UsedOf(m2) : \E f \in G : f[1] = Payload(c)
  BY <1>1, <1>2, <1>6, <1>7
<1> QED BY <1>2, <1>5, <1>8 DEF HeldOK, UsedOf
-----------------------------------------------------------------------------
(* The invariant. *)

(* add_pool: before the one block is put in its list. *)
LEMMA EmptyHeapOK == HeapOK(EmptyHeap, {}, {}) /\ BlocksOf(EmptyHeap.mem) = {0} /\ FreeOf(EmptyHeap.mem) = {0}
<1> DEFINE m == EmptyHeap.mem
           first == Header(PoolUnits - 2, TRUE, FALSE, 0)
           last == Header(0, FALSE, TRUE, PoolUnits - 2)
<1>1. PoolUnits - 2 \in Sizes /\ 0 \in Sizes
  BY Pool
<1>2. /\ first \in Words /\ first.kind = "header" /\ first.size = PoolUnits - 2
      /\ first.free = TRUE /\ first.prev_free = FALSE
      /\ last \in Words /\ last.kind = "header" /\ last.size = 0 /\ last.free = FALSE
      /\ last.prev_free = TRUE /\ last.prev_phys_size = PoolUnits - 2
      /\ Data \in Words /\ Data.kind = "data"
  <2>1. PICK yes \in BOOLEAN : yes = TRUE
    OBVIOUS
  <2>2. PICK no \in BOOLEAN : no = FALSE
    OBVIOUS
  <2>3. PICK all \in Sizes : all = PoolUnits - 2
    BY <1>1
  <2>4. /\ Header(all, yes, no, 0) \in Words /\ Header(all, yes, no, 0).kind = "header"
        /\ Header(all, yes, no, 0).size = all /\ Header(all, yes, no, 0).free = yes
        /\ Header(all, yes, no, 0).prev_free = no
    BY <1>1, NewWords
  <2>5. /\ Header(0, no, yes, all) \in Words /\ Header(0, no, yes, all).kind = "header"
        /\ Header(0, no, yes, all).size = 0 /\ Header(0, no, yes, all).free = no
        /\ Header(0, no, yes, all).prev_free = yes
        /\ Header(0, no, yes, all).prev_phys_size = all
    BY <1>1, NewWords
  <2>6. first = Header(all, yes, no, 0) /\ last = Header(0, no, yes, all)
    BY <2>1, <2>2, <2>3
  <2> HIDE DEF first, last
  <2> QED BY <2>1, <2>2, <2>3, <2>4, <2>5, <2>6, NewWords
<1>3. /\ DOMAIN EmptyHeap = Fields
      /\ EmptyHeap = [mem |-> EmptyHeap.mem, lists |-> EmptyHeap.lists, fl |-> EmptyHeap.fl, sl |-> EmptyHeap.sl]
      /\ DOMAIN m = Units
      /\ \A a \in Units : m[a] = IF a = 0 THEN first ELSE IF a = Sentinel THEN last ELSE Data
      /\ DOMAIN EmptyHeap.lists = Bins /\ \A bin \in Bins : EmptyHeap.lists[bin] = NULL
      /\ EmptyHeap.fl = {}
      /\ DOMAIN EmptyHeap.sl = FirstLevels /\ \A i \in FirstLevels : EmptyHeap.sl[i] = {}
  BY DEF EmptyHeap, Fields, Bins
<1> HIDE DEF m, first, last
<1>4. m[0] = first /\ m[Sentinel] = last
  BY <1>3, Pool
<1>5. \A a \in Units : a # 0 /\ a # Sentinel => m[a] = Data
  BY <1>3
<1>6. BlocksOf(m) = {0}
  BY <1>2, <1>4, <1>5, Pool DEF BlocksOf
<1>7. FreeOf(m) = {0}
  BY <1>2, <1>4, <1>6 DEF FreeOf
<1>8. NextPhys(m, 0) = Sentinel /\ PrevPhys(m, Sentinel) = 0 /\ 1 <= PoolUnits - 2
  BY <1>2, <1>4, Pool DEF NextPhys, PrevPhys, Payload
<1>9. Tiled(m)
  <2>1. \A a \in Units : m[a] \in Words
    BY <1>2, <1>3
  <2>2. \A a \in Units : 0 < a /\ a < Sentinel => m[a].kind # "header"
    BY <1>2, <1>5, Pool
  <2>3. \A b \in BlocksOf(m) : /\ m[b].size >= 1 /\ NextPhys(m, b) \in BlocksOf(m) \cup {Sentinel}
                               /\ \A a \in Units : b < a /\ a < NextPhys(m, b) => m[a].kind # "header"
    BY <1>2, <1>4, <1>6, <1>8, <2>2, Pool
  <2>4. \A b \in BlocksOf(m) \cup {Sentinel} : b # 0 =>
            PrevPhys(m, b) \in BlocksOf(m) /\ NextPhys(m, PrevPhys(m, b)) = b
    BY <1>6, <1>8
  <2> QED BY <1>2, <1>3, <1>4, <2>1, <2>3, <2>4 DEF Tiled
<1>10. Flagged(m, {}) /\ Merged(m, {})
  BY <1>2, <1>4, <1>6, <1>7, <1>8 DEF Flagged, Merged
<1>11. Linked(m, EmptyHeap.lists, {})
  <2>1. \A a \in Units : m[a].kind # "links"
    BY <1>2, <1>3
  <2>2. \A S \in SUBSET {} : S = {}
    OBVIOUS
  <2> QED BY <1>3, <2>1, <2>2 DEF Linked
<1>12. Mapped(EmptyHeap.lists, EmptyHeap.fl, EmptyHeap.sl)
  BY <1>3 DEF Mapped, Bins
<1> QED BY <1>3, <1>6, <1>7, <1>9, <1>10, <1>11, <1>12 DEF HeapOK, m

LEMMA InitInv == Init => HeapInv
<1> SUFFICES ASSUME Init PROVE HeapInv
  OBVIOUS
<1> DEFINE h == InsertFree(EmptyHeap, 0)
<1>1. mem = h.mem /\ lists = h.lists /\ fl_bitmap = h.fl /\ sl_bitmaps = h.sl /\ held = {}
  BY DEF Init
<1> HIDE DEF h
<1>2. HeapOK(h, {}, {0}) /\ SameHeaders(h.mem, EmptyHeap.mem)
  <2>1. 0 \in BlocksOf(EmptyHeap.mem) \ {}
    BY EmptyHeapOK
  <2>2. HeapOK(h, {}, {} \cup {0}) /\ SameHeaders(h.mem, EmptyHeap.mem)
    BY <2>1, EmptyHeapOK, InsertFreeOK DEF h
  <2>3. {} \cup {0} = {0}
    OBVIOUS
  <2> QED BY <2>2, <2>3
<1>3. BlocksOf(h.mem) = {0} /\ FreeOf(h.mem) = {0}
  <2>1. Tiled(EmptyHeap.mem)
    BY EmptyHeapOK DEF HeapOK
  <2> QED BY <1>2, <2>1, EmptyHeapOK, BlocksKept
<1>4. heap = h
  <2>1. h = [mem |-> h.mem, lists |-> h.lists, fl |-> h.fl, sl |-> h.sl]
    BY <1>2 DEF HeapOK
  <2> QED BY <1>1, <2>1 DEF heap
<1>5. HeldOK(mem, held)
  BY <1>1, <1>3 DEF HeldOK
<1> QED BY <1>1, <1>2, <1>3, <1>4, <1>5 DEF HeapInv

(* The variables are the fields of a heap that has been set. *)
LEMMA HeapIs ==
    ASSUME NEW r, r = [mem |-> r.mem, lists |-> r.lists, fl |-> r.fl, sl |-> r.sl], SetHeap(r)
    PROVE  heap' = r /\ mem' = r.mem
BY DEF SetHeap, heap

LEMMA HeapMem == heap.mem = mem /\ heap.lists = lists /\ heap.fl = fl_bitmap /\ heap.sl = sl_bitmaps
BY DEF heap

LEMMA AllocStep ==
    ASSUME HeapInv, NEW n \in Requests, Alloc(n)
    PROVE  /\ HeapInv'
           /\ \E b : /\ b \notin UsedOf(mem)
                     /\ UsedOf(mem') = UsedOf(mem) \cup {b}
                     /\ \A c \in UsedOf(mem) : mem'[c].size = mem[c].size
                     /\ held' = held \cup {<<Payload(b), n>>}
<1> DEFINE b == FindSuitable(heap, Adjusted(n))
           r == MarkUsed(Split(RemoveFree(heap, b), b, Adjusted(n) \div ALIGN), b)
<1>1. b # NULL /\ SetHeap(r) /\ held' = held \cup {<<Payload(b), n>>}
  BY DEF Alloc
<1>2. HeapOK(heap, {}, FreeOf(heap.mem)) /\ HeldOK(mem, held)
  BY HeapMem DEF HeapInv
<1>3. PICK c : c = b
  OBVIOUS
<1>4. PICK q : q = MarkUsed(Split(RemoveFree(heap, c), c, Adjusted(n) \div ALIGN), c)
  OBVIOUS
<1>5. c = FindSuitable(heap, Adjusted(n)) /\ c # NULL /\ SetHeap(q) /\ held' = held \cup {<<Payload(c), n>>}
  BY <1>1, <1>3, <1>4
<1> HIDE DEF b, r
<1>6. /\ HeapOK(q, {}, FreeOf(q.mem))
      /\ UsedOf(q.mem) = UsedOf(mem) \cup {c}
      /\ c \notin UsedOf(mem)
      /\ \A d \in UsedOf(mem) : q.mem[d].size = mem[d].size
      /\ q.mem[c].size >= Adjusted(n) \div ALIGN
  BY <1>2, <1>4, <1>5, AllocOK, HeapMem
<1>7. heap' = q /\ mem' = q.mem
  BY <1>5, <1>6, HeapIs DEF HeapOK
<1>8. HeldOK(mem', held')
  <2>1. Tiled(mem) /\ Tiled(q.mem)
    BY <1>2, <1>6, HeapMem DEF HeapOK
  <2>2. HeldOK(q.mem, held \cup {<<Payload(c), n>>})
    BY <1>2, <1>6, <2>1, HeldMore
  <2> QED BY <1>5, <1>7, <2>2
<1>9. HeapInv'
  BY <1>6, <1>7, <1>8 DEF HeapInv
<1> QED BY <1>5, <1>6, <1>7, <1>9

LEMMA FreeStep ==
    ASSUME HeapInv, NEW e \in held, Free(e)
    PROVE  /\ HeapInv'
           /\ UsedBut(mem', mem, FromPayload(e[1]))
           /\ held' = held \ {e}
<1>1. PICK b : b = FromPayload(e[1])
  OBVIOUS
<1>2. PICK r : r = InsertFree(TellNext(MergePrev(MergeNext([heap EXCEPT !.mem[b].free = TRUE], b), b),
                                       MergedInto(MergeNext([heap EXCEPT !.mem[b].free = TRUE], b), b)),
                              MergedInto(MergeNext([heap EXCEPT !.mem[b].free = TRUE], b), b))
  OBVIOUS
<1>3. SetHeap(r) /\ held' = held \ {e}
  BY <1>1, <1>2 DEF Free
<1>4. HeapOK(heap, {}, FreeOf(heap.mem)) /\ HeldOK(mem, held)
  BY HeapMem DEF HeapInv
<1>5. Tiled(mem)
  BY <1>4, HeapMem DEF HeapOK
<1>6. b \in UsedOf(heap.mem)
  BY <1>1, <1>4, <1>5, Held, HeapMem
<1>7. HeapOK(r, {}, FreeOf(r.mem)) /\ UsedBut(r.mem, mem, b)
  BY <1>2, <1>4, <1>6, FreeOK, HeapMem
<1>8. heap' = r /\ mem' = r.mem
  BY <1>3, <1>7, HeapIs DEF HeapOK
<1>9. HeldOK(mem', held')
  BY <1>1, <1>3, <1>4, <1>5, <1>7, <1>8, HeldLess
<1>10. HeapInv'
  BY <1>7, <1>8, <1>9 DEF HeapInv
<1> QED BY <1>1, <1>3, <1>7, <1>8, <1>10

(* The pool stays tiled with blocks that know their neighbours, free ones
   are merged and listed, and the application holds the others. *)
THEOREM Invariance == Spec => []HeapInv
<1>1. HeapInv /\ [Next]_vars => HeapInv'
  <2> SUFFICES ASSUME HeapInv, [Next]_vars PROVE HeapInv'
    OBVIOUS
  <2>1. CASE Next
    <3>1. CASE \E n \in Requests : Alloc(n)
      BY <3>1, AllocStep
    <3>2. CASE \E e \in held : Free(e)
      BY <3>2, FreeStep
    <3> QED BY <2>1, <3>1, <3>2 DEF Next
  <2>2. CASE UNCHANGED vars
    BY <2>2 DEF vars, HeapInv, heap
  <2> QED BY <2>1, <2>2
<1> QED BY <1>1, InitInv, PTL DEF Spec
-----------------------------------------------------------------------------
(* What the invariant means for the properties of the runs. *)
LEMMA SameBlocks ==
    ASSUME Tiled(mem)
    PROVE  /\ Headers = BlocksOf(mem) \cup {Sentinel}
           /\ Blocks = BlocksOf(mem) /\ FreeBlocks = FreeOf(mem)
           /\ Blocks \ FreeBlocks = UsedOf(mem)
<1>1. mem[Sentinel].kind = "header" /\ mem[Sentinel].free = FALSE
  BY DEF Tiled
<1>2. Headers = BlocksOf(mem) \cup {Sentinel} /\ Blocks = BlocksOf(mem)
  BY <1>1, Pool DEF Headers, Blocks, BlocksOf
<1>3. FreeBlocks = FreeOf(mem)
  BY <1>1, <1>2 DEF FreeBlocks, FreeOf
<1> QED BY <1>2, <1>3 DEF UsedOf

LEMMA InvParts ==
    ASSUME HeapInv
    PROVE  /\ HeapOK(heap, {}, FreeOf(heap.mem))
           /\ Tiled(mem) /\ Flagged(mem, {}) /\ Merged(mem, {})
           /\ Linked(mem, lists, FreeOf(mem)) /\ Mapped(lists, fl_bitmap, sl_bitmaps)
           /\ HeldOK(mem, held)
BY HeapMem DEF HeapInv, HeapOK

(* From every block the next is reached right behind its payload, which
   holds no header, and the two agree on the size and the state of the
   first: the boundary tags that free's merges rely on. *)
THEOREM Tags == Spec => []BoundaryTags
<1>1. ASSUME HeapInv PROVE BoundaryTags
  <2>1. Tiled(mem) /\ Flagged(mem, {})
    BY <1>1, InvParts
  <2>2. Headers = BlocksOf(mem) \cup {Sentinel} /\ Blocks = BlocksOf(mem)
    BY <2>1, SameBlocks
  <2>3. ~mem[Sentinel].free /\ mem[Sentinel].size = 0 /\ {0, Sentinel} \subseteq Headers
    BY <2>1, Pool DEF Tiled, Headers
  <2>4. ASSUME NEW b \in Blocks
        PROVE  LET next == NextPhys(mem, b) IN
               /\ next \in Headers
               /\ (b + 1)..(next - 1) \cap Headers = {}
               /\ mem[next].prev_phys_size = mem[b].size
               /\ mem[next].prev_free = mem[b].free
    <3> DEFINE next == NextPhys(mem, b)
    <3>1. b \in BlocksOf(mem) /\ next \in Headers
      BY <2>1, <2>2, <2>4, BlockPlace
    <3>2. mem[next].prev_phys_size = mem[b].size
      BY <2>1, <3>1, Back
    <3>3. mem[next].prev_free = mem[b].free
      BY <2>1, <3>1 DEF Flagged
    <3>4. b \in Int /\ next \in Int
      BY <2>1, <3>1, BlockPlace, Pool
    <3> HIDE DEF next
    <3>5. ASSUME NEW a \in (b + 1)..(next - 1), a \in Headers PROVE FALSE
      <4>1. b < a /\ a < next
        BY <3>4, <3>5
      <4>2. a \in Units /\ mem[a].kind = "header"
        BY <3>5 DEF Headers
      <4> QED BY <2>1, <3>1, <4>1, <4>2 DEF Tiled, next
    <3> QED BY <3>1, <3>2, <3>3, <3>5 DEF next
  <2> QED BY <2>3, <2>4 DEF BoundaryTags
<1> QED BY <1>1, Invariance, PTL

(* No two free blocks are neighbours: free merges with both sides, and
   alloc splits only off the front of a free block. *)
THEOREM Coalescing == Spec => []Coalesced
<1>1. ASSUME HeapInv PROVE Coalesced
  <2>1. Tiled(mem) /\ Flagged(mem, {}) /\ Merged(mem, {})
    BY <1>1, InvParts
  <2>2. FreeBlocks = FreeOf(mem)
    BY <2>1, SameBlocks
  <2>3. ASSUME NEW b \in FreeOf(mem) PROVE ~mem[NextPhys(mem, b)].free /\ ~mem[b].prev_free
    <3>1. mem[NextPhys(mem, b)].free = FALSE
      BY <2>1 DEF Merged
    <3>2. b \in BlocksOf(mem) /\ mem[b].free = TRUE
      BY <2>1, FreeBlock
    <3>3. CASE b = 0
      BY <2>1, <3>1, <3>3 DEF Tiled
    <3>4. CASE b # 0
      <4> DEFINE p == PrevPhys(mem, b)
      <4>1. p \in BlocksOf(mem) /\ NextPhys(mem, p) = b
        BY <2>1, <3>2, <3>4 DEF Tiled
      <4>2. p \notin FreeOf(mem)
        BY <2>1, <3>2, <4>1 DEF Merged
      <4>3. mem[p].free = FALSE
        BY <2>1, <4>1, <4>2, UsedBlock
      <4>4. mem[b].prev_free = FALSE
        BY <2>1, <4>1, <4>3 DEF Flagged
      <4> QED BY <3>1, <4>4
    <3> QED BY <3>3, <3>4
  <2> QED BY <2>2, <2>3 DEF Coalesced
<1> QED BY <1>1, Invariance, PTL

(* Every free block is in the list of its size, the lists are doubly linked
   and have no cycle, and the bitmaps say exactly which are not empty. *)
THEOREM Lists == Spec => []ListsExact
<1>1. ASSUME HeapInv PROVE ListsExact
  <2>1. Tiled(mem) /\ Linked(mem, lists, FreeOf(mem)) /\ Mapped(lists, fl_bitmap, sl_bitmaps)
    BY <1>1, InvParts
  <2>2. FreeBlocks = FreeOf(mem)
    BY <2>1, SameBlocks
  <2>3. \A b \in FreeBlocks : LinkedIn(mem, lists, FreeBlocks, b)
    BY <2>1, <2>2 DEF Linked
  <2>4. \A b \in FreeBlocks :
          LET l == mem[Payload(b)] IN
          /\ l.kind = "links"
          /\ IF l.prev = NULL THEN lists[Bin(mem, b)] = b
             ELSE l.prev \in FreeBlocks /\ mem[Payload(l.prev)].next = b
          /\ l.next # NULL => /\ l.next \in FreeBlocks
                              /\ Bin(mem, l.next) = Bin(mem, b)
                              /\ mem[Payload(l.next)].prev = b
    BY <2>3 DEF LinkedIn
  <2>5. DOMAIN lists = Bins
    BY <2>1 DEF Linked
  <2>6. \A bin \in Bins : lists[bin] # NULL => /\ lists[bin] \in FreeBlocks
                                               /\ Bin(mem, lists[bin]) = bin
                                               /\ Before(lists[bin]) = NULL
    BY <2>1, <2>2 DEF Linked, Before
  <2>7. \A bin \in Bins : /\ bin[2] \in sl_bitmaps[bin[1]] <=> lists[bin] # NULL
                          /\ bin[1] \in fl_bitmap <=> sl_bitmaps[bin[1]] # {}
    <3> TAKE bin \in Bins
    <3>1. bin[1] \in FirstLevels /\ bin[2] \in SecondLevels /\ bin = <<bin[1], bin[2]>>
      BY DEF Bins
    <3>2. bin[2] \in sl_bitmaps[bin[1]] <=> lists[<<bin[1], bin[2]>>] # NULL
      BY <2>1, <3>1 DEF Mapped
    <3>3. bin[1] \in fl_bitmap <=> sl_bitmaps[bin[1]] # {}
      BY <2>1, <3>1 DEF Mapped
    <3> QED BY <3>1, <3>2, <3>3
  <2>8. \A S \in SUBSET FreeBlocks : S # {} => \E b \in S : Before(b) \notin S
    BY <2>1, <2>2 DEF Linked, Before
  <2> QED BY <2>4, <2>5, <2>6, <2>7, <2>8 DEF ListsExact
<1> QED BY <1>1, Invariance, PTL

(* find_suitable never returns a block that is too short, and returns none
   only when every free block is shorter than the request rounded up. *)
THEOREM Fit == Spec => []GoodFit
<1>1. ASSUME HeapInv PROVE GoodFit
  <2>1. HeapOK(heap, {}, FreeOf(heap.mem)) /\ Tiled(mem)
    BY <1>1, InvParts
  <2>2. FreeBlocks = FreeOf(mem)
    BY <2>1, SameBlocks
  <2>3. ASSUME NEW n \in Requests, NEW want, want = Adjusted(n),
               NEW b, b = FindSuitable(heap, want)
        PROVE  /\ b # NULL => b \in FreeBlocks /\ ALIGN * mem[b].size >= want
               /\ b = NULL => \A f \in FreeBlocks : ALIGN * mem[f].size < want + SearchRound(want)
    <3>1. want \in Nat /\ want >= MIN_PAYLOAD /\ want < P2(FL_MAX + 1)
      BY <2>3, AdjustedIs
    <3>2. /\ b # NULL => b \in FreeOf(mem) /\ want <= ALIGN * mem[b].size
          /\ b = NULL => \A f \in FreeOf(mem) : ALIGN * mem[f].size < want + SearchRound(want)
      BY <2>1, <2>3, <3>1, FindSuitableOK, HeapMem
    <3>3. \A f \in FreeOf(mem) : ALIGN * mem[f].size \in Int
      BY <2>1, BlockSize DEF FreeOf
    <3> QED BY <2>2, <3>1, <3>2, <3>3
  <2> QED BY <2>3 DEF GoodFit
<1> QED BY <1>1, Invariance, PTL

(* A unit inside a block in use is data: no header, no links. *)
LEMMA PayloadIsData ==
    ASSUME NEW m, NEW l, Tiled(m), Linked(m, l, FreeOf(m)), NEW b \in UsedOf(m),
           NEW a \in (b + 1)..(NextPhys(m, b) - 1)
    PROVE  a \in Units /\ m[a] = Data
<1>1. b \in BlocksOf(m) /\ b \notin FreeOf(m)
  BY DEF UsedOf
<1>2. b \in Units /\ NextPhys(m, b) \in Units
  BY <1>1, BlockPlace
<1>3. a \in Units /\ b < a /\ a < NextPhys(m, b) /\ a \in Int
  BY <1>2, Pool
<1>4. m[a].kind # "header"
  BY <1>1, <1>3 DEF Tiled
<1>5. m[a].kind # "links"
  <2> SUFFICES ASSUME m[a].kind = "links" PROVE FALSE
    OBVIOUS
  <2> DEFINE c == FromPayload(a)
  <2>1. c \in FreeOf(m)
    BY <1>3 DEF Linked
  <2>2. c = a - 1 /\ c # b /\ c \in Units /\ m[c].kind = "header"
    BY <1>1, <2>1 DEF FromPayload, FreeOf, BlocksOf
  <2>3. b < c /\ c < NextPhys(m, b)
    BY <1>2, <1>3, <2>2, Pool
  <2> QED BY <1>1, <2>2, <2>3 DEF Tiled
<1>6. m[a] \in Words
  BY <1>3 DEF Tiled
<1> QED BY <1>3, <1>4, <1>5, <1>6 DEF Words, HeaderWords, LinksWords

(* The blocks handed out and not yet given back are the blocks in use, and
   the allocator keeps nothing of its own inside them. *)
THEOREM Intact == Spec => []HeldIntact
<1>1. ASSUME HeapInv PROVE HeldIntact
  <2>1. Tiled(mem) /\ HeldOK(mem, held) /\ Linked(mem, lists, FreeOf(mem))
    BY <1>1, InvParts
  <2>2. Blocks \ FreeBlocks = UsedOf(mem)
    BY <2>1, SameBlocks
  <2>3. \A e \in held : /\ FromPayload(e[1]) \in UsedOf(mem) /\ FromPayload(e[1]) \in BlocksOf(mem)
                        /\ e[1] = Payload(FromPayload(e[1])) /\ e[1] = FromPayload(e[1]) + 1
    BY <2>1, Held
  <2>4. \A b \in UsedOf(mem) : \E e \in held : e[1] = Payload(b)
    BY <2>1 DEF HeldOK, UsedOf
  <2>5. {e[1] : e \in held} = {Payload(b) : b \in UsedOf(mem)}
    BY <2>3, <2>4
  <2>6. ASSUME NEW e \in held, NEW a \in e[1]..(e[1] + UsableSize(e[1]) - 1)
        PROVE  mem[a] = Data
    <3> DEFINE b == FromPayload(e[1])
    <3>1. b \in UsedOf(mem) /\ b \in BlocksOf(mem) /\ e[1] = b + 1
      BY <2>3
    <3>2. NextPhys(mem, b) = b + 1 + mem[b].size /\ b \in Int /\ mem[b].size \in Int
      BY <2>1, <3>1, BlockPlace, Pool
    <3>3. UsableSize(e[1]) = mem[b].size
      BY DEF UsableSize
    <3> HIDE DEF b
    <3>4. a \in (b + 1)..(NextPhys(mem, b) - 1)
      BY <3>1, <3>2, <3>3
    <3> QED BY <2>1, <3>1, <3>4, PayloadIsData
  <2> QED BY <2>2, <2>5, <2>6 DEF HeldIntact
<1> QED BY <1>1, Invariance, PTL
-----------------------------------------------------------------------------
(* The memory, the lists and the bitmaps are functions: what an update with
   EXCEPT, or a new function, always leaves. *)
Functions(h) ==
    /\ h = [mem |-> h.mem, lists |-> h.lists, fl |-> h.fl, sl |-> h.sl]
    /\ h.mem = [a \in Units |-> h.mem[a]]
    /\ h.lists = [bin \in Bins |-> h.lists[bin]]
    /\ h.sl = [i \in FirstLevels |-> h.sl[i]]

LEMMA FunctionsChanged ==
    ASSUME NEW h, Functions(h),
           NEW m, m = [a \in Units |-> m[a]],
           NEW l, l = [bin \in Bins |-> l[bin]],
           NEW fl,
           NEW sl, sl = [i \in FirstLevels |-> sl[i]],
           NEW r, r = [mem |-> m, lists |-> l, fl |-> fl, sl |-> sl]
    PROVE  Functions(r)
<1>1. r.mem = m /\ r.lists = l /\ r.fl = fl /\ r.sl = sl
  OBVIOUS
<1> QED BY <1>1 DEF Functions

LEMMA InsertFreeFunctions ==
    ASSUME NEW h, Functions(h), NEW b, NEW r, r = InsertFree(h, b)
    PROVE  Functions(r)
<1> DEFINE bin == Bin(h.mem, b)
           head == h.lists[bin]
           m == [a \in Units |->
                   IF a = Payload(b) THEN Links(NULL, head)
                   ELSE IF head # NULL /\ a = Payload(head) THEN [h.mem[a] EXCEPT !.prev = b]
                   ELSE h.mem[a]]
           l == [h.lists EXCEPT ![bin] = b]
           sl == [h.sl EXCEPT ![bin[1]] = @ \cup {bin[2]}]
<1>0. h = [mem |-> h.mem, lists |-> h.lists, fl |-> h.fl, sl |-> h.sl]
  BY DEF Functions
<1>1. r = [mem |-> m, lists |-> l, fl |-> h.fl \cup {bin[1]}, sl |-> sl]
  BY <1>0 DEF InsertFree
<1>2. m = [a \in Units |-> m[a]]
  OBVIOUS
<1>3. l = [x \in Bins |-> l[x]]
  BY DEF Functions
<1>4. sl = [i \in FirstLevels |-> sl[i]]
  BY DEF Functions
<1> HIDE DEF m, l, sl, bin
<1> QED BY <1>1, <1>2, <1>3, <1>4, FunctionsChanged

LEMMA RemoveFreeFunctions ==
    ASSUME NEW h, Functions(h), NEW b, NEW r, r = RemoveFree(h, b)
    PROVE  Functions(r)
<1> DEFINE bin == Bin(h.mem, b)
           prev == h.mem[Payload(b)].prev
           next == h.mem[Payload(b)].next
           first == IF prev = NULL THEN next ELSE h.lists[bin]
           level == IF first = NULL THEN h.sl[bin[1]] \ {bin[2]} ELSE h.sl[bin[1]]
           m == [a \in Units |->
                   IF a = Payload(b) THEN Data
                   ELSE IF prev # NULL /\ a = Payload(prev) THEN [h.mem[a] EXCEPT !.next = next]
                   ELSE IF next # NULL /\ a = Payload(next) THEN [h.mem[a] EXCEPT !.prev = prev]
                   ELSE h.mem[a]]
           l == [h.lists EXCEPT ![bin] = first]
           fl == IF first = NULL /\ level = {} THEN h.fl \ {bin[1]} ELSE h.fl
           sl == [h.sl EXCEPT ![bin[1]] = level]
<1>1. h = [mem |-> h.mem, lists |-> h.lists, fl |-> h.fl, sl |-> h.sl]
  BY DEF Functions
<1>2. r = [mem |-> m, lists |-> l, fl |-> fl, sl |-> sl]
  BY <1>1 DEF RemoveFree
<1>3. m = [a \in Units |-> m[a]]
  OBVIOUS
<1> HIDE DEF m, first, level, bin, fl
<1>4. l = [x \in Bins |-> l[x]]
  BY DEF Functions
<1>5. sl = [i \in FirstLevels |-> sl[i]]
  BY DEF Functions
<1> HIDE DEF l, sl
<1> QED BY <1>2, <1>3, <1>4, <1>5, FunctionsChanged

LEMMA StillFunction ==
    ASSUME NEW f, f = [a \in Units |-> f[a]], NEW x, NEW y, NEW g, g = [f EXCEPT ![x] = y]
    PROVE  g = [a \in Units |-> g[a]]
OBVIOUS

(* Writing the memory only. *)
LEMMA MemFunctions ==
    ASSUME NEW h, Functions(h), NEW m, m = [a \in Units |-> m[a]],
           NEW r, r = [mem |-> m, lists |-> h.lists, fl |-> h.fl, sl |-> h.sl]
    PROVE  Functions(r)
BY FunctionsChanged DEF Functions

(* The writes of a split, all at once and one after the other. *)
SplitWrites(g, h, b, v, c, new, d, w) ==
    g = [h EXCEPT !.mem[b].size = v, !.mem[c] = new,
                  !.mem[d].prev_phys_size = w, !.mem[d].prev_free = TRUE]

MemWrites(m1, m2, m3, m4, m, b, v, c, new, d, w) ==
    /\ m1 = [m EXCEPT ![b].size = v]
    /\ m2 = [m1 EXCEPT ![c] = new]
    /\ m3 = [m2 EXCEPT ![d].prev_phys_size = w]
    /\ m4 = [m3 EXCEPT ![d].prev_free = TRUE]

LEMMA SplitWritten ==
    ASSUME NEW h, NEW m, NEW l, NEW f, NEW s, h = [mem |-> m, lists |-> l, fl |-> f, sl |-> s],
           NEW b, NEW v, NEW c, NEW new, NEW d, NEW w, NEW g, NEW m1, NEW m2, NEW m3, NEW m4,
           SplitWrites(g, h, b, v, c, new, d, w),
           MemWrites(m1, m2, m3, m4, m, b, v, c, new, d, w)
    PROVE  g = [mem |-> m4, lists |-> l, fl |-> f, sl |-> s]
<1>1. PICK yes : yes = TRUE
  OBVIOUS
<1>2. /\ g = [h EXCEPT !.mem[b].size = v, !.mem[c] = new,
                         !.mem[d].prev_phys_size = w, !.mem[d].prev_free = yes]
      /\ m1 = [m EXCEPT ![b].size = v]
      /\ m2 = [m1 EXCEPT ![c] = new]
      /\ m3 = [m2 EXCEPT ![d].prev_phys_size = w]
      /\ m4 = [m3 EXCEPT ![d].prev_free = yes]
  BY <1>1, Zenon DEF SplitWrites, MemWrites
<1>3. g.mem = m4
  BY <1>2
<1>4. g = [mem |-> g.mem, lists |-> l, fl |-> f, sl |-> s]
  BY <1>2
<1> QED BY <1>3, <1>4

LEMMA SplitFunctions ==
    ASSUME NEW h, Functions(h), NEW b, NEW size, NEW r, r = Split(h, b, size)
    PROVE  Functions(r)
<1> DEFINE left == h.mem[b].size - size
           split == Payload(b) + size
           after == NextPhys(h.mem, b)
           m1 == [h.mem EXCEPT ![b].size = size]
           m2 == [m1 EXCEPT ![split] = Header(left - 1, TRUE, FALSE, size)]
           m3 == [m2 EXCEPT ![after].prev_phys_size = left - 1]
           m4 == [m3 EXCEPT ![after].prev_free = TRUE]
           g == [h EXCEPT !.mem[b].size = size,
                          !.mem[split] = Header(left - 1, TRUE, FALSE, size),
                          !.mem[after].prev_phys_size = left - 1,
                          !.mem[after].prev_free = TRUE]
<1>1. h = [mem |-> h.mem, lists |-> h.lists, fl |-> h.fl, sl |-> h.sl]
      /\ h.mem = [a \in Units |-> h.mem[a]]
  BY DEF Functions
<1>2. r = h \/ r = InsertFree(g, split)
  BY DEF Split
<1> HIDE DEF left, split, after
<1>3. g = [mem |-> m4, lists |-> h.lists, fl |-> h.fl, sl |-> h.sl]
  <2>1. PICK m, new, rest : /\ m = h.mem
                            /\ new = Header(left - 1, TRUE, FALSE, size)
                            /\ rest = left - 1
    OBVIOUS
  <2>2. h = [mem |-> m, lists |-> h.lists, fl |-> h.fl, sl |-> h.sl]
    BY <1>1, <2>1
  <2>3. MemWrites(m1, m2, m3, m4, m, b, size, split, new, after, rest)
    BY <2>1, Zenon DEF MemWrites
  <2>4. SplitWrites(g, h, b, size, split, new, after, rest)
    BY <2>1, Zenon DEF SplitWrites
  <2> HIDE DEF g, m1, m2, m3, m4
  <2> QED BY <2>2, <2>3, <2>4, SplitWritten
<1> HIDE DEF g
<1>4. m1 = [a \in Units |-> m1[a]]
  BY <1>1, StillFunction
<1> HIDE DEF m1
<1>5. m2 = [a \in Units |-> m2[a]]
  BY <1>4, StillFunction
<1> HIDE DEF m2
<1>6. m3 = [a \in Units |-> m3[a]]
  BY <1>5, StillFunction
<1> HIDE DEF m3
<1>7. m4 = [a \in Units |-> m4[a]]
  BY <1>6, StillFunction
<1> HIDE DEF m4
<1>8. Functions(g)
  BY <1>3, <1>7, MemFunctions
<1> QED BY <1>2, <1>8, InsertFreeFunctions

LEMMA MarkUsedFunctions ==
    ASSUME NEW h, Functions(h), NEW b, NEW r, r = MarkUsed(h, b)
    PROVE  Functions(r)
<1> DEFINE next == NextPhys(h.mem, b)
           m1 == [h.mem EXCEPT ![b].free = FALSE]
           m2 == [m1 EXCEPT ![next].prev_free = FALSE]
<1>1. h = [mem |-> h.mem, lists |-> h.lists, fl |-> h.fl, sl |-> h.sl]
      /\ h.mem = [a \in Units |-> h.mem[a]]
  BY DEF Functions
<1>2. r = [h EXCEPT !.mem[b].free = FALSE, !.mem[next].prev_free = FALSE]
  BY DEF MarkUsed
<1> HIDE DEF next
<1>3. r = [mem |-> m2, lists |-> h.lists, fl |-> h.fl, sl |-> h.sl]
  BY <1>1, <1>2
<1>4. m1 = [a \in Units |-> m1[a]]
  BY <1>1, StillFunction
<1> HIDE DEF m1
<1>5. m2 = [a \in Units |-> m2[a]]
  BY <1>4, StillFunction
<1> HIDE DEF m2
<1> QED BY <1>3, <1>5, MemFunctions

LEMMA MarkFreeFunctions ==
    ASSUME NEW h, Functions(h), NEW b, NEW r, r = [h EXCEPT !.mem[b].free = TRUE]
    PROVE  Functions(r)
<1> DEFINE m1 == [h.mem EXCEPT ![b].free = TRUE]
<1>1. h = [mem |-> h.mem, lists |-> h.lists, fl |-> h.fl, sl |-> h.sl]
      /\ h.mem = [a \in Units |-> h.mem[a]]
  BY DEF Functions
<1>2. r = [mem |-> m1, lists |-> h.lists, fl |-> h.fl, sl |-> h.sl]
  BY <1>1
<1>3. m1 = [a \in Units |-> m1[a]]
  BY <1>1, StillFunction
<1> HIDE DEF m1
<1> QED BY <1>2, <1>3, MemFunctions

LEMMA TellNextFunctions ==
    ASSUME NEW h, Functions(h), NEW b, NEW r, r = TellNext(h, b)
    PROVE  Functions(r)
<1> DEFINE next == NextPhys(h.mem, b)
           m1 == [h.mem EXCEPT ![next].prev_free = TRUE]
           m2 == [m1 EXCEPT ![next].prev_phys_size = h.mem[b].size]
<1>1. h = [mem |-> h.mem, lists |-> h.lists, fl |-> h.fl, sl |-> h.sl]
      /\ h.mem = [a \in Units |-> h.mem[a]]
  BY DEF Functions
<1>2. r = [h EXCEPT !.mem[next].prev_free = TRUE, !.mem[next].prev_phys_size = h.mem[b].size]
  BY DEF TellNext
<1> HIDE DEF next
<1>3. r = [mem |-> m2, lists |-> h.lists, fl |-> h.fl, sl |-> h.sl]
  BY <1>1, <1>2
<1>4. m1 = [a \in Units |-> m1[a]]
  BY <1>1, StillFunction
<1> HIDE DEF m1
<1>5. m2 = [a \in Units |-> m2[a]]
  BY <1>4, StillFunction
<1> HIDE DEF m2
<1> QED BY <1>3, <1>5, MemFunctions

(* The write that both merges make. *)
LEMMA AbsorbFunctions ==
    ASSUME NEW h, Functions(h), NEW p, NEW q, NEW n, NEW size,
           NEW r, r = [h EXCEPT !.mem[p].size = size, !.mem[q] = Data, !.mem[n].prev_phys_size = size]
    PROVE  Functions(r)
<1> DEFINE m1 == [h.mem EXCEPT ![p].size = size]
           m2 == [m1 EXCEPT ![q] = Data]
           m3 == [m2 EXCEPT ![n].prev_phys_size = size]
<1>1. h = [mem |-> h.mem, lists |-> h.lists, fl |-> h.fl, sl |-> h.sl]
      /\ h.mem = [a \in Units |-> h.mem[a]]
  BY DEF Functions
<1>2. r = [mem |-> m3, lists |-> h.lists, fl |-> h.fl, sl |-> h.sl]
  BY <1>1
<1>3. m1 = [a \in Units |-> m1[a]]
  BY <1>1, StillFunction
<1> HIDE DEF m1
<1>4. m2 = [a \in Units |-> m2[a]]
  BY <1>3, StillFunction
<1> HIDE DEF m2
<1>5. m3 = [a \in Units |-> m3[a]]
  BY <1>4, StillFunction
<1> HIDE DEF m3
<1> QED BY <1>2, <1>5, MemFunctions

LEMMA MergeFunctions ==
    ASSUME NEW h, Functions(h), NEW b
    PROVE  Functions(MergeNext(h, b)) /\ Functions(MergePrev(h, b))
<1>1. Functions(MergeNext(h, b))
  <2> DEFINE q == NextPhys(h.mem, b)
             n == NextPhys(h.mem, q)
             size == h.mem[b].size + 1 + h.mem[q].size
             g == RemoveFree(h, q)
             r == [g EXCEPT !.mem[b].size = size, !.mem[q] = Data, !.mem[n].prev_phys_size = size]
  <2>1. MergeNext(h, b) = h \/ MergeNext(h, b) = r
    BY DEF MergeNext
  <2>2. Functions(g)
    BY RemoveFreeFunctions
  <2> HIDE DEF q, n, size, g
  <2>3. Functions(r)
    BY <2>2, AbsorbFunctions
  <2> QED BY <2>1, <2>3
<1>2. Functions(MergePrev(h, b))
  <2> DEFINE p == PrevPhys(h.mem, b)
             n == NextPhys(h.mem, b)
             size == h.mem[p].size + 1 + h.mem[b].size
             g == RemoveFree(h, p)
             r == [g EXCEPT !.mem[p].size = size, !.mem[b] = Data, !.mem[n].prev_phys_size = size]
  <2>1. MergePrev(h, b) = h \/ MergePrev(h, b) = r
    BY DEF MergePrev
  <2>2. Functions(g)
    BY RemoveFreeFunctions
  <2> HIDE DEF p, n, size, g
  <2>3. Functions(r)
    BY <2>2, AbsorbFunctions
  <2> QED BY <2>1, <2>3
<1> QED BY <1>1, <1>2

LEMMA FunctionsInvariant == Spec => []Functions(heap)
<1>1. Init => Functions(heap)
  <2> SUFFICES ASSUME Init PROVE Functions(heap)
    OBVIOUS
  <2>1. Functions(EmptyHeap)
    BY DEF Functions, EmptyHeap, Bins
  <2> DEFINE h == InsertFree(EmptyHeap, 0)
  <2>2. Functions(h)
    BY <2>1, InsertFreeFunctions
  <2>3. mem = h.mem /\ lists = h.lists /\ fl_bitmap = h.fl /\ sl_bitmaps = h.sl
    BY DEF Init
  <2> HIDE DEF h
  <2>4. heap = h
    BY <2>2, <2>3 DEF heap, Functions
  <2> QED BY <2>2, <2>4
<1>2. Functions(heap) /\ [Next]_vars => Functions(heap)'
  <2> SUFFICES ASSUME Functions(heap), [Next]_vars PROVE Functions(heap')
    OBVIOUS
  <2>1. ASSUME NEW r, Functions(r), SetHeap(r) PROVE Functions(heap')
    <3>1. heap' = r
      BY <2>1, HeapIs DEF Functions
    <3> QED BY <2>1, <3>1
  <2>2. CASE \E n \in Requests : Alloc(n)
    <3>1. PICK n \in Requests : Alloc(n)
      BY <2>2
    <3>2. PICK b : b = FindSuitable(heap, Adjusted(n))
      OBVIOUS
    <3> DEFINE g == RemoveFree(heap, b)
               k == Split(g, b, Adjusted(n) \div ALIGN)
               r == MarkUsed(k, b)
    <3>3. SetHeap(r)
      BY <3>1, <3>2 DEF Alloc
    <3> HIDE DEF g, k, r
    <3>4. Functions(g)
      BY RemoveFreeFunctions DEF g
    <3>5. Functions(k)
      BY <3>4, SplitFunctions DEF k
    <3>6. Functions(r)
      BY <3>5, MarkUsedFunctions DEF r
    <3> QED BY <2>1, <3>3, <3>6
  <2>3. CASE \E e \in held : Free(e)
    <3>1. PICK e \in held : Free(e)
      BY <2>3
    <3>2. PICK b : b = FromPayload(e[1])
      OBVIOUS
    <3> DEFINE g == [heap EXCEPT !.mem[b].free = TRUE]
               n == MergeNext(g, b)
               p == MergePrev(n, b)
               c == MergedInto(n, b)
               t == TellNext(p, c)
               r == InsertFree(t, c)
    <3>3. SetHeap(r)
      BY <3>1, <3>2 DEF Free
    <3> HIDE DEF g, n, p, c, t, r
    <3>4. Functions(g)
      BY MarkFreeFunctions DEF g
    <3>5. Functions(n)
      BY <3>4, MergeFunctions DEF n
    <3>6. Functions(p)
      BY <3>5, MergeFunctions DEF p
    <3>7. Functions(t)
      BY <3>6, TellNextFunctions DEF t
    <3>8. Functions(r)
      BY <3>7, InsertFreeFunctions DEF r
    <3> QED BY <2>1, <3>3, <3>8
  <2>4. CASE UNCHANGED vars
    BY <2>4 DEF vars, heap
  <2> QED BY <2>2, <2>3, <2>4 DEF Next
<1> QED BY <1>1, <1>2, PTL DEF Spec

(* Types.  A unit of the pool always is a header, links or data, as the last
   call that wrote it left it. *)
THEOREM Types == Spec => []TypeOK
<1>1. ASSUME HeapInv, Functions(heap) PROVE TypeOK
  <2>1. /\ Tiled(mem) /\ Linked(mem, lists, FreeOf(mem)) /\ Mapped(lists, fl_bitmap, sl_bitmaps)
        /\ HeldOK(mem, held)
    BY <1>1, InvParts
  <2>2. /\ mem = [a \in Units |-> mem[a]]
        /\ lists = [bin \in Bins |-> lists[bin]]
        /\ sl_bitmaps = [i \in FirstLevels |-> sl_bitmaps[i]]
    BY <1>1, HeapMem DEF Functions
  <2>3. mem \in [Units -> Words]
    BY <2>1, <2>2 DEF Tiled
  <2>4. lists \in [Bins -> Units \cup {NULL}]
    <3>1. \A bin \in Bins : lists[bin] \in Units \cup {NULL}
      BY <2>1 DEF Linked, FreeOf, BlocksOf
    <3> QED BY <2>2, <3>1
  <2>5. sl_bitmaps \in [FirstLevels -> SUBSET SecondLevels] /\ fl_bitmap \subseteq FirstLevels
    BY <2>1, <2>2 DEF Mapped
  <2>6. held \subseteq Units \X Requests
    BY <2>1 DEF HeldOK
  <2> QED BY <2>3, <2>4, <2>5, <2>6 DEF TypeOK, Words, HeaderWords, LinksWords, Bins
<1> QED BY <1>1, Invariance, FunctionsInvariant, PTL
-----------------------------------------------------------------------------
(* The abstract heap. *)
Block(m, e) == <<e[1], UnitsFor(e[2]), m[FromPayload(e[1])].size>>
BlocksHeld(m, H) == {Block(m, e) : e \in H}
Place(m, c) == (c + 1)..(c + 1 + m[c].size - 1)

LEMMA UnitsForIs ==
    ASSUME NEW n \in Nat, NEW s \in Nat, n <= ALIGN * s
    PROVE  UnitsFor(n) <= s
BY DEF UnitsFor, ALIGN

(* Two blocks share no unit, and none reaches beyond the pool. *)
LEMMA Apart ==
    ASSUME NEW m, Tiled(m), NEW b \in BlocksOf(m)
    PROVE  /\ Place(m, b) \subseteq Units
           /\ \A c \in BlocksOf(m) : c # b => Place(m, c) \cap Place(m, b) = {}
<1>1. \A c \in BlocksOf(m) : /\ c \in Int /\ m[c].size \in Int /\ c \in Units
                             /\ NextPhys(m, c) = c + 1 + m[c].size
                             /\ NextPhys(m, c) \in Units /\ c < NextPhys(m, c)
  BY BlockPlace, Pool
<1>2. Place(m, b) \subseteq Units
  <2> SUFFICES ASSUME NEW a \in Place(m, b) PROVE a \in Units
    OBVIOUS
  <2>1. a \in Int /\ b < a /\ a < NextPhys(m, b)
    BY <1>1 DEF Place
  <2> QED BY <1>1, <2>1, Pool
<1>3. ASSUME NEW c \in BlocksOf(m), c # b, NEW a \in Place(m, c), a \in Place(m, b)
      PROVE  FALSE
  <2>1. a \in Int /\ b < a /\ a < NextPhys(m, b) /\ c < a /\ a < NextPhys(m, c)
    BY <1>1, <1>3 DEF Place
  <2>2. CASE b < c
    <3>1. NextPhys(m, b) <= c
      BY <2>2, InOrder
    <3> QED BY <1>1, <2>1, <3>1
  <2>3. CASE c < b
    <3>1. NextPhys(m, c) <= b
      BY <2>3, InOrder
    <3> QED BY <1>1, <2>1, <3>1
  <2> QED BY <1>1, <1>3, <2>2, <2>3
<1> QED BY <1>2, <1>3

LEMMA AllocMalloc ==
    ASSUME HeapInv, NEW n \in Requests, Alloc(n)
    PROVE  HeapOfBlocks!Malloc
<1> DEFINE B == BlocksHeld(mem, held)
           B2 == BlocksHeld(mem', held')
<1>1. PICK b : /\ HeapInv'
               /\ b \notin UsedOf(mem)
               /\ UsedOf(mem') = UsedOf(mem) \cup {b}
               /\ \A c \in UsedOf(mem) : mem'[c].size = mem[c].size
               /\ held' = held \cup {<<Payload(b), n>>}
  BY AllocStep
<1>2. Tiled(mem) /\ HeldOK(mem, held)
  BY InvParts
<1>3. Tiled(mem') /\ HeldOK(mem', held')
  BY <1>1 DEF HeapInv, HeapOK, heap
<1> DEFINE e == <<Payload(b), n>>
           new == Block(mem', e)
<1>4. e[1] = Payload(b) /\ e[2] = n /\ e \in held'
  BY <1>1
<1>5. b \in BlocksOf(mem') /\ b \in Int /\ Payload(b) = b + 1 /\ FromPayload(Payload(b)) = b
      /\ mem'[b].size \in Nat
  <2>1. b \in BlocksOf(mem')
    BY <1>1 DEF UsedOf
  <2>2. b \in Units /\ Payload(b) = b + 1 /\ mem'[b].size \in Sizes
    BY <1>3, <2>1, BlockPlace
  <2> QED BY <2>1, <2>2, Pool DEF FromPayload
<1> HIDE DEF e
<1>6. \A f \in held : /\ FromPayload(f[1]) \in UsedOf(mem)
                      /\ f[1] = Payload(FromPayload(f[1]))
                      /\ f[1] = FromPayload(f[1]) + 1
  BY <1>2, Held
<1>7. \A f \in held : Block(mem', f) = Block(mem, f)
  BY <1>1, <1>6 DEF Block
<1>8. B2 = B \cup {new}
  BY <1>1, <1>7 DEF BlocksHeld, e
<1>9. new[1] = b + 1 /\ new[2] = UnitsFor(n) /\ new[3] = mem'[b].size
  BY <1>4, <1>5 DEF Block
<1>10. new \notin B
  <2> SUFFICES ASSUME NEW f \in held, new = Block(mem, f) PROVE FALSE
    BY DEF BlocksHeld
  <2>1. new[1] = f[1]
    BY DEF Block
  <2>2. f[1] = Payload(b)
    BY <1>5, <1>9, <2>1
  <2> QED BY <1>1, <1>5, <1>6, <2>2
<1>11. new[2] <= new[3]
  <2>1. n \in Nat /\ n <= ALIGN * mem'[b].size
    BY <1>3, <1>4, <1>5, Held
  <2> QED BY <1>5, <1>9, <2>1, UnitsForIs
<1>12. HeapOfBlocks!Bytes(new) = Place(mem', b)
  BY <1>9 DEF HeapOfBlocks!Bytes, Place
<1>13. HeapOfBlocks!Bytes(new) \subseteq Units
  BY <1>3, <1>5, <1>12, Apart
<1>14. \A old \in B : HeapOfBlocks!Bytes(old) \cap HeapOfBlocks!Bytes(new) = {}
  <2> SUFFICES ASSUME NEW f \in held
               PROVE  HeapOfBlocks!Bytes(Block(mem, f)) \cap HeapOfBlocks!Bytes(new) = {}
    BY DEF BlocksHeld
  <2> DEFINE c == FromPayload(f[1])
  <2>1. c \in UsedOf(mem) /\ f[1] = c + 1
    BY <1>6
  <2>2. c \in BlocksOf(mem') /\ c # b /\ mem'[c].size = mem[c].size
    BY <1>1, <2>1 DEF UsedOf
  <2>3. Block(mem, f)[1] = c + 1 /\ Block(mem, f)[3] = mem'[c].size
    BY <2>1, <2>2 DEF Block
  <2>4. HeapOfBlocks!Bytes(Block(mem, f)) = Place(mem', c)
    BY <2>3 DEF HeapOfBlocks!Bytes, Place
  <2>5. Place(mem', c) \cap Place(mem', b) = {}
    BY <1>3, <1>5, <2>2, Apart
  <2> QED BY <1>12, <2>4, <2>5
<1>15. B = {<<f[1], UnitsFor(f[2]), UsableSize(f[1])>> : f \in held}
  BY DEF BlocksHeld, Block, UsableSize
<1>16. B2 = {<<f[1], UnitsFor(f[2]), UsableSize(f[1])>> : f \in held}'
  BY DEF BlocksHeld, Block, UsableSize
<1> HIDE DEF B, B2, new
<1>17. /\ new \in B2 \ B
       /\ new[2] <= new[3]
       /\ HeapOfBlocks!Bytes(new) \subseteq Units
       /\ \A old \in B : HeapOfBlocks!Bytes(old) \cap HeapOfBlocks!Bytes(new) = {}
       /\ B2 = B \cup {new}
  BY <1>8, <1>10, <1>11, <1>13, <1>14
<1> QED BY <1>15, <1>16, <1>17 DEF HeapOfBlocks!Malloc

LEMMA FreeFrees ==
    ASSUME HeapInv, NEW e \in held, Free(e)
    PROVE  HeapOfBlocks!Free
<1> DEFINE B == BlocksHeld(mem, held)
           B2 == BlocksHeld(mem', held')
           old == Block(mem, e)
           b == FromPayload(e[1])
<1>1. HeapInv' /\ UsedBut(mem', mem, b) /\ held' = held \ {e}
  BY FreeStep
<1>2. Tiled(mem) /\ HeldOK(mem, held)
  BY InvParts
<1>3. Tiled(mem') /\ HeldOK(mem', held')
  BY <1>1 DEF HeapInv, HeapOK, heap
<1>4. \A f \in held' : Block(mem', f) = Block(mem, f)
  <2> SUFFICES ASSUME NEW f \in held' PROVE Block(mem', f) = Block(mem, f)
    OBVIOUS
  <2>1. FromPayload(f[1]) \in UsedOf(mem')
    BY <1>3, Held
  <2> QED BY <1>1, <2>1 DEF UsedBut, Block
<1>5. \A f \in held' : Block(mem, f) # old
  <2> SUFFICES ASSUME NEW f \in held', Block(mem, f) = old PROVE FALSE
    OBVIOUS
  <2>1. f[1] = e[1] /\ f \in held /\ f # e
    BY <1>1 DEF Block
  <2> QED BY <1>2, <2>1 DEF HeldOK
<1>6. B2 = B \ {old}
  <2>1. B2 = {Block(mem, f) : f \in held'}
    BY <1>4 DEF BlocksHeld
  <2>2. B = {Block(mem, f) : f \in held}
    BY DEF BlocksHeld
  <2> HIDE DEF B, B2, old, b
  <2>3. \A x \in B \ {old} : x \in B2
    BY <1>1, <2>1, <2>2 DEF old
  <2>4. \A x \in B2 : x \in B \ {old}
    BY <1>1, <1>5, <2>1, <2>2
  <2> QED BY <2>3, <2>4
<1>7. old \in B
  BY DEF BlocksHeld
<1>8. B = {<<f[1], UnitsFor(f[2]), UsableSize(f[1])>> : f \in held}
  BY DEF BlocksHeld, Block, UsableSize
<1>9. B2 = {<<f[1], UnitsFor(f[2]), UsableSize(f[1])>> : f \in held}'
  BY DEF BlocksHeld, Block, UsableSize
<1> HIDE DEF B, B2, old
<1> QED BY <1>6, <1>7, <1>8, <1>9 DEF HeapOfBlocks!Free

(* alloc and free do to the blocks held what the abstract heap's malloc and
   free do: a block handed out is long enough, inside the pool and apart
   from every block still held. *)
THEOREM Refinement == Spec => HeapSpec
<1>1. Init => HeapOfBlocks!Init
  BY DEF Init, HeapOfBlocks!Init
<1>2. HeapInv /\ [Next]_vars
        => [HeapOfBlocks!Next]_{<<e[1], UnitsFor(e[2]), UsableSize(e[1])>> : e \in held}
  <2> SUFFICES ASSUME HeapInv, [Next]_vars
               PROVE  \/ HeapOfBlocks!Next
                      \/ UNCHANGED {<<e[1], UnitsFor(e[2]), UsableSize(e[1])>> : e \in held}
    OBVIOUS
  <2>1. CASE \E n \in Requests : Alloc(n)
    BY <2>1, AllocMalloc DEF HeapOfBlocks!Next
  <2>2. CASE \E e \in held : Free(e)
    BY <2>2, FreeFrees DEF HeapOfBlocks!Next
  <2>3. CASE UNCHANGED vars
    BY <2>3 DEF vars, UsableSize
  <2> QED BY <2>1, <2>2, <2>3 DEF Next
<1> QED BY <1>1, <1>2, Invariance, PTL DEF Spec, HeapSpec, HeapOfBlocks!Spec
=============================================================================
