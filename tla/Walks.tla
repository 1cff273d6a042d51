-------------------------------- MODULE Walks --------------------------------
(***************************************************************************)
(* A walk along a linked list, cut off after N links: where it starts, it  *)
(* follows the link of the node it is at, and once past the last node it   *)
(* stays at nil.  What the lists of the allocators have in common: in a    *)
(* list no two of whose nodes link to the same node, and none to the       *)
(* first, the walk meets every node once and ends.                         *)
(***************************************************************************)
EXTENDS Integers, FiniteSetTheorems, WellFoundedInduction, TLAPS

(* A set of naturals has a least element.  Every induction is an argument
   about the least number for which a statement would fail. *)
LessThan == {ss \in Nat \X Nat : ss[1] < ss[2]}

LEMMA LessThanWellFounded == IsWellFoundedOn(LessThan, Nat)
BY NatLessThanWellFounded, Zenon DEF OpToRel, LessThan

LEMMA Least ==
    ASSUME NEW S, S \subseteq Nat, S # {}
    PROVE  \E i \in S : \A j \in S : i <= j
<1>1. PICK i \in S : \A j \in S : ~ (<<j, i>> \in LessThan)
  BY LessThanWellFounded, WFMin
<1>2. \A k, j \in Nat : j < k => <<j, k>> \in LessThan
  BY DEF LessThan
<1>3. \A j \in S : ~ (j < i)
  BY <1>1, <1>2, Zenon
<1> QED BY <1>3
-----------------------------------------------------------------------------
(* Links lead from nodes to nodes, or nowhere. *)
LinksWithin(T, nil, g) == nil \notin T /\ \A x \in T : g[x] \in T \cup {nil}

(* No two nodes link to the same node. *)
Unshared(T, nil, g) == \A x, y \in T : g[x] = g[y] /\ g[x] # nil => x = y

(* Nothing links to the node the walk starts at, if it has one. *)
Unlinked(T, nil, g, top) == top # nil => \A x \in T : g[x] # top

IsWalk(w, N, nil, g, top) ==
    /\ w[0] = top
    /\ \A n \in 0..(N-1) : w[n+1] = IF w[n] = nil THEN nil ELSE g[w[n]]

Met(w, N, nil) == {w[n] : n \in 0..N} \ {nil}

(* No set of nodes is out of reach of two walks: it has one that a walk starts
   at, or that a node outside the set links to. *)
AllInReach(T, g, top, pot) ==
    \A S \in SUBSET T : S # {} =>
        \E s \in S : s = top \/ s = pot \/ \E r \in T \ S : g[r] = s

(* There is a walk of every length. *)
LEMMA WalkExists ==
    ASSUME NEW T, NEW nil, NEW g, LinksWithin(T, nil, g), NEW top \in T \cup {nil}, NEW N \in Nat
    PROVE  \E w \in [0..N -> T \cup {nil}] : IsWalk(w, N, nil, g, top)
<1> DEFINE V == T \cup {nil}
           Short(m) == \E w \in [0..m -> V] : IsWalk(w, m, nil, g, top)
           S == {m \in Nat : ~ Short(m)}
<1>1. SUFFICES ASSUME S # {} PROVE FALSE
  OBVIOUS
<1>2. PICK m \in S : \A k \in S : m <= k
  <2> HIDE DEF Short
  <2> QED BY <1>1, Least
<1>3. m # 0
  <2> DEFINE w == [n \in 0..0 |-> top]
  <2>1. w \in [0..0 -> V] /\ IsWalk(w, 0, nil, g, top)
    BY DEF IsWalk
  <2>2. Short(0)
    <3> HIDE DEF w
    <3> QED BY <2>1
  <2> QED BY <2>2
<1>4. m - 1 \in Nat /\ Short(m - 1)
  <2>1. m \in Nat /\ m - 1 \in Nat
    BY <1>3
  <2>2. m - 1 \notin S
    <3> HIDE DEF S
    <3> QED BY <1>2, <2>1
  <2> QED BY <2>1, <2>2
<1>5. PICK v \in [0..(m-1) -> V] : IsWalk(v, m - 1, nil, g, top)
  BY <1>4
<1>6. PICK y \in V : y = IF v[m-1] = nil THEN nil ELSE g[v[m-1]]
  BY <1>4, <1>5 DEF LinksWithin
<1> DEFINE w == [n \in 0..m |-> IF n = m THEN y ELSE v[n]]
<1>7. w \in [0..m -> V]
  BY <1>4
<1>8. w[m] = y /\ \A n \in 0..(m-1) : w[n] = v[n]
  BY <1>4
<1> HIDE DEF w
<1>9. IsWalk(w, m, nil, g, top)
  <2>1. w[0] = top
    BY <1>4, <1>5, <1>8 DEF IsWalk
  <2>2. ASSUME NEW n \in 0..(m-1) PROVE w[n+1] = IF w[n] = nil THEN nil ELSE g[w[n]]
    <3>1. CASE n = m - 1
      BY <1>4, <1>6, <1>8, <3>1
    <3>2. CASE n # m - 1
      <4>1. n \in 0..(m - 1 - 1) /\ n + 1 \in 0..(m-1)
        BY <1>4, <3>2
      <4> QED BY <1>5, <1>8, <4>1 DEF IsWalk
    <3> QED BY <3>1, <3>2
  <2> QED BY <2>1, <2>2 DEF IsWalk
<1> QED BY <1>2, <1>7, <1>9

(* A sequence that makes the step of a walk from every node is a walk, and
   never leaves the nodes. *)
LEMMA WalkStays ==
    ASSUME NEW T, NEW nil, NEW g, LinksWithin(T, nil, g), NEW top \in T \cup {nil}, NEW N \in Nat,
           NEW w, w[0] = top,
           \A n \in 0..(N-1) : w[n] \in T \cup {nil}
                                 => w[n+1] = IF w[n] = nil THEN nil ELSE g[w[n]]
    PROVE  /\ IsWalk(w, N, nil, g, top)
           /\ \A n \in 0..N : w[n] \in T \cup {nil}
<1> DEFINE S == {n \in 0..N : w[n] \notin T \cup {nil}}
<1>1. S = {}
  <2>1. SUFFICES ASSUME S # {} PROVE FALSE
    OBVIOUS
  <2>2. PICK m \in S : \A k \in S : m <= k
    <3>1. S \subseteq Nat
      OBVIOUS
    <3> HIDE DEF S
    <3> QED BY <2>1, <3>1, Least
  <2>3. m # 0
    OBVIOUS
  <2>4. m - 1 \in 0..(N-1) /\ m - 1 \in 0..N
    BY <2>3
  <2>5. w[m-1] \in T \cup {nil}
    BY <2>2, <2>4
  <2>6. w[m - 1 + 1] \in T \cup {nil}
    BY <2>4, <2>5 DEF LinksWithin
  <2> QED BY <2>2, <2>6
<1>2. \A n \in 0..(N-1) : n \in 0..N
  OBVIOUS
<1> QED BY <1>1, <1>2 DEF IsWalk

(* No node is met twice. *)
LEMMA WalkDistinct ==
    ASSUME NEW T, NEW nil, NEW g, NEW top, NEW N \in Nat, NEW w,
           IsWalk(w, N, nil, g, top), \A n \in 0..N : w[n] \in T \cup {nil},
           Unshared(T, nil, g), Unlinked(T, nil, g, top),
           NEW m \in 0..N, NEW n \in 0..N, m < n, w[m] = w[n]
    PROVE  w[m] = nil
<1> DEFINE S == {i \in 0..N : w[i] # nil /\ \E j \in 0..N : i < j /\ w[i] = w[j]}
<1>1. SUFFICES ASSUME S # {} PROVE FALSE
  OBVIOUS
<1>2. PICK i \in S : \A k \in S : i <= k
  <2>1. S \subseteq Nat
    OBVIOUS
  <2> HIDE DEF S
  <2> QED BY <1>1, <2>1, Least
<1>3. PICK j \in 0..N : i < j /\ w[i] = w[j] /\ w[i] # nil
  OBVIOUS
<1>4. j - 1 \in 0..(N-1) /\ j - 1 \in 0..N /\ j - 1 + 1 = j
  BY <1>3
<1>5. w[j-1] # nil /\ g[w[j-1]] = w[i] /\ w[j-1] \in T
  BY <1>3, <1>4 DEF IsWalk
<1>6. i # 0
  BY <1>5 DEF IsWalk, Unlinked
<1>7. i - 1 \in 0..(N-1) /\ i - 1 \in 0..N /\ i - 1 + 1 = i /\ i - 1 < j - 1
  BY <1>3, <1>6
<1>8. w[i-1] # nil /\ g[w[i-1]] = w[i] /\ w[i-1] \in T
  BY <1>3, <1>7 DEF IsWalk
<1>9. w[i-1] = w[j-1]
  BY <1>3, <1>5, <1>8 DEF Unshared
<1>10. i - 1 \in S
  BY <1>4, <1>7, <1>8, <1>9
<1> QED BY <1>2, <1>7, <1>10

(* Once at nil, always at nil. *)
LEMMA WalkOver ==
    ASSUME NEW nil, NEW g, NEW top, NEW N \in Nat, NEW w, IsWalk(w, N, nil, g, top),
           NEW m \in 0..N, w[m] = nil, NEW n \in m..N
    PROVE  w[n] = nil
<1> DEFINE S == {i \in m..N : w[i] # nil}
<1>1. SUFFICES ASSUME S # {} PROVE FALSE
  OBVIOUS
<1>2. PICK i \in S : \A k \in S : i <= k
  <2>1. S \subseteq Nat
    OBVIOUS
  <2> HIDE DEF S
  <2> QED BY <1>1, <2>1, Least
<1>3. i - 1 \in 0..(N-1) /\ i - 1 \in m..N /\ i - 1 + 1 = i
  OBVIOUS
<1>4. w[i-1] = nil
  BY <1>2, <1>3
<1> QED BY <1>3, <1>4 DEF IsWalk

(* A walk as long as there are nodes has come to the end of its list. *)
LEMMA WalkEnds ==
    ASSUME NEW T, NEW nil, NEW g, NEW top, NEW N \in Nat, NEW w,
           IsWalk(w, N, nil, g, top), \A n \in 0..N : w[n] \in T \cup {nil},
           Unshared(T, nil, g), Unlinked(T, nil, g, top),
           IsFiniteSet(T), Cardinality(T) <= N
    PROVE  w[N] = nil
<1>1. SUFFICES ASSUME w[N] # nil PROVE FALSE
  OBVIOUS
<1>2. \A n \in 0..N : w[n] \in T
  BY <1>1, WalkOver
<1> DEFINE f == [n \in 0..N |-> w[n]]
<1>3. f \in [0..N -> T]
  BY <1>2
<1>4. IsFiniteSet(0..N) /\ Cardinality(0..N) = N + 1
  BY FS_Interval
<1>5. Cardinality(T) < Cardinality(0..N)
  BY <1>4, FS_CardinalityType
<1>6. PICK x, y \in 0..N : x # y /\ f[x] = f[y]
  <2> HIDE DEF f
  <2> QED BY <1>3, <1>4, <1>5, FS_PigeonHole
<1>7. w[x] = w[y] /\ w[x] # nil /\ (x < y \/ y < x)
  BY <1>1, <1>6, WalkOver
<1> QED BY <1>7, WalkDistinct

(* Two walks from different first nodes never meet. *)
LEMMA WalksApart ==
    ASSUME NEW T, NEW nil, NEW g, NEW top, NEW pot, NEW N \in Nat, NEW w, NEW v,
           IsWalk(w, N, nil, g, top), \A n \in 0..N : w[n] \in T \cup {nil},
           IsWalk(v, N, nil, g, pot), \A n \in 0..N : v[n] \in T \cup {nil},
           Unshared(T, nil, g), Unlinked(T, nil, g, top), Unlinked(T, nil, g, pot),
           top # pot \/ top = nil
    PROVE  Met(w, N, nil) \cap Met(v, N, nil) = {}
<1> DEFINE S == {i \in 0..N : w[i] # nil /\ \E j \in 0..N : w[i] = v[j]}
<1>1. SUFFICES ASSUME S # {} PROVE FALSE
  BY DEF Met
<1>2. PICK i \in S : \A k \in S : i <= k
  <2>1. S \subseteq Nat
    OBVIOUS
  <2> HIDE DEF S
  <2> QED BY <1>1, <2>1, Least
<1>3. PICK j \in 0..N : w[i] = v[j] /\ w[i] # nil
  OBVIOUS
<1>4. CASE i = 0
  <2>1. j # 0
    BY <1>3, <1>4 DEF IsWalk
  <2>2. j - 1 \in 0..(N-1) /\ j - 1 \in 0..N /\ j - 1 + 1 = j
    BY <2>1
  <2>3. v[j-1] \in T /\ g[v[j-1]] = w[i]
    BY <1>3, <2>2 DEF IsWalk
  <2> QED BY <1>4, <2>3 DEF IsWalk, Unlinked
<1>5. CASE i # 0
  <2>1. i - 1 \in 0..(N-1) /\ i - 1 \in 0..N /\ i - 1 + 1 = i
    BY <1>5
  <2>2. w[i-1] \in T /\ w[i-1] # nil /\ g[w[i-1]] = w[i]
    BY <1>3, <2>1 DEF IsWalk
  <2>3. j # 0
    BY <1>3, <2>2 DEF IsWalk, Unlinked
  <2>4. j - 1 \in 0..(N-1) /\ j - 1 \in 0..N /\ j - 1 + 1 = j
    BY <2>3
  <2>5. v[j-1] \in T /\ g[v[j-1]] = w[i]
    BY <1>3, <2>4 DEF IsWalk
  <2>6. w[i-1] = v[j-1]
    BY <1>3, <2>2, <2>5 DEF Unshared
  <2>7. i - 1 \in S
    BY <2>1, <2>2, <2>4, <2>6
  <2> QED BY <1>2, <2>1, <2>7
<1> QED BY <1>4, <1>5

(* What follows a node met is met, if the walk has ended. *)
LEMMA MetClosed ==
    ASSUME NEW nil, NEW g, NEW top, NEW N \in Nat, NEW w, IsWalk(w, N, nil, g, top), w[N] = nil,
           NEW x \in Met(w, N, nil), g[x] # nil
    PROVE  g[x] \in Met(w, N, nil)
<1>1. PICK n \in 0..N : x = w[n] /\ x # nil
  BY DEF Met
<1>2. n \in 0..(N-1) /\ n + 1 \in 0..N
  BY <1>1
<1> QED BY <1>1, <1>2 DEF IsWalk, Met

(* Two walks that have ended met every node between them, if no set of nodes
   is out of reach. *)
LEMMA AllMet ==
    ASSUME NEW T, NEW nil, NEW g, NEW top, NEW pot, NEW N \in Nat, NEW w, NEW v,
           IsWalk(w, N, nil, g, top), \A n \in 0..N : w[n] \in T \cup {nil}, w[N] = nil,
           IsWalk(v, N, nil, g, pot), \A n \in 0..N : v[n] \in T \cup {nil}, v[N] = nil,
           LinksWithin(T, nil, g), AllInReach(T, g, top, pot)
    PROVE  Met(w, N, nil) \cup Met(v, N, nil) = T
<1>1. Met(w, N, nil) \cup Met(v, N, nil) \subseteq T
  BY DEF Met
<1> DEFINE S == T \ (Met(w, N, nil) \cup Met(v, N, nil))
<1>2. SUFFICES ASSUME S # {} PROVE FALSE
  BY <1>1
<1>3. PICK s \in S : s = top \/ s = pot \/ \E r \in T \ S : g[r] = s
  <2>1. S \in SUBSET T
    OBVIOUS
  <2> HIDE DEF S
  <2> QED BY <1>2, <2>1 DEF AllInReach
<1>4. s \in T /\ s # nil /\ s \notin Met(w, N, nil) /\ s \notin Met(v, N, nil)
  BY DEF LinksWithin
<1>5. s # top /\ s # pot
  <2>1. 0 \in 0..N
    OBVIOUS
  <2> QED BY <1>4, <2>1 DEF IsWalk, Met
<1>6. PICK r \in T \ S : g[r] = s
  BY <1>3, <1>5
<1>7. CASE r \in Met(w, N, nil)
  BY <1>4, <1>6, <1>7, MetClosed
<1>8. CASE r \in Met(v, N, nil)
  BY <1>4, <1>6, <1>8, MetClosed
<1> QED BY <1>6, <1>7, <1>8
=============================================================================
