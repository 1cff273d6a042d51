---------------------------- MODULE NumericsProofs ----------------------------
(***************************************************************************)
(* The sizes the run numerics tries one by one, for every largest size and *)
(* every division of the classes into lists.                               *)
(***************************************************************************)
EXTENDS MCNumerics, TlsfMappingProofs

InRange == size \in Nat /\ size >= 1 /\ size < P2(FL_MAX + 1)

LEMMA SizesInRange == Spec => []InRange
<1>1. /\ MaxSize \in Nat /\ MaxSize >= 1024 /\ MaxSize + 16 < P2(FL_MAX + 1)
      /\ SLAB_MAX_SIZE = 1024 /\ ALIGN = 16 /\ P2(FL_MAX + 1) \in Nat
  BY NumericsAssumption, NextPower DEF SLAB_MAX_SIZE, ALIGN, P2
<1>2. Init => InRange
  BY <1>1 DEF Init, InRange
<1>3. InRange /\ [Next]_size => InRange'
  <2> SUFFICES ASSUME InRange, [Next]_size PROVE InRange'
    OBVIOUS
  <2>1. CASE NextSmall
    BY <1>1, <2>1 DEF NextSmall, InRange
  <2>2. CASE NextLarge
    BY <1>1, <2>2 DEF NextLarge, InRange
  <2>3. CASE UNCHANGED size
    BY <2>3 DEF InRange
  <2> QED BY <2>1, <2>2, <2>3 DEF Next
<1> QED BY <1>2, <1>3, PTL DEF Spec

(* mapping: a block is put in the list whose bounds its size lies between. *)
THEOREM Lists == Spec => []BlockInItsList
<1>1. ASSUME InRange PROVE BlockInItsList
  <2> SUFFICES ASSUME size >= MIN_PAYLOAD
               PROVE  /\ mapping(size) \in FirstLevels \X SecondLevels
                      /\ LowerBound(mapping(size)) <= size
                      /\ size < UpperBound(mapping(size))
    BY DEF BlockInItsList, Block
  <2> QED BY <1>1, MappingInRange, MappingBounds DEF InRange
<1> QED BY <1>1, SizesInRange, PTL

(* mapping_search: no block of the list a request is sent to is shorter than
   the request, and it is the first list of which that is certain. *)
THEOREM Requests == Spec => []RequestRoundsUp
<1>1. ASSUME InRange PROVE RequestRoundsUp
  <2> DEFINE bin == mapping_search(size)
             up == size + SearchRound(size)
             top == P2(FL_MAX + 1)
  <2> SUFFICES ASSUME size >= MIN_PAYLOAD
               PROVE  /\ LowerBound(bin) >= size
                      /\ AtOrAfter(bin, mapping(size))
                      /\ LowerBound(bin) <= up
    BY DEF RequestRoundsUp, Block
  <2>1. size \in Nat /\ size >= MIN_PAYLOAD /\ size < top
    BY <1>1 DEF InRange
  <2>2. LowerBound(bin) \in Nat /\ size <= LowerBound(bin)
    BY <2>1, SearchStart
  <2>3. up \in Nat /\ size <= up /\ up >= MIN_PAYLOAD
    BY <2>1, Rounded
  <2>4. CASE up < top /\ bin = mapping(up)
    <3>1. AtOrAfter(mapping(up), mapping(size))
      BY <2>1, <2>3, <2>4, MappingMonotone
    <3>2. LowerBound(mapping(up)) <= up
      BY <2>3, <2>4, MappingBounds
    <3> QED BY <2>2, <2>4, <3>1, <3>2
  <2>5. CASE up >= top /\ bin = <<FL_COUNT, 0>>
    <3>1. bin[1] = FL_COUNT /\ bin[2] = 0
      BY <2>5
    <3>2. FL_COUNT = FL_MAX - 3 /\ FirstLevels = 0..(FL_COUNT - 1) /\ FL_MAX \in Nat /\ FL_MAX >= 4
      BY P2Laws DEF FL_COUNT, FL_SHIFT, FirstLevels
    <3>3. mapping(size)[1] \in FirstLevels
      BY <2>1, InLevels
    <3>4. AtOrAfter(bin, mapping(size))
      BY <3>1, <3>2, <3>3 DEF AtOrAfter
    <3>5. LowerBound(bin) = Width(FL_MAX + 1) * (SL_COUNT + 0)
      <4>1. bin[1] \in Int /\ bin[2] \in Int /\ bin[1] + 4 = FL_MAX + 1 /\ bin[1] + 4 \in 4..(FL_MAX + 1)
        BY <3>1, <3>2
      <4> QED BY <3>1, <4>1, Bounds
    <3>6. Width(FL_MAX + 1) * (SL_COUNT + 0) = top
      BY <3>2, Classes
    <3> QED BY <2>2, <2>3, <2>5, <3>4, <3>5, <3>6, NextPower
  <2> QED BY <2>1, <2>4, <2>5, SearchIs
<1> QED BY <1>1, SizesInRange, PTL
-----------------------------------------------------------------------------
(* The table of size classes, entry by entry. *)
LEMMA ClassSizes ==
  /\ SizeClasses = 1..22
  /\ \A c \in 1..22 : SIZE_CLASSES[c] \in 8..1024 /\ SIZE_CLASSES[c] \in Int
  /\ SIZE_CLASSES[22] = 1024
BY DEF SizeClasses, NUM_SIZE_CLASSES, SIZE_CLASSES

(* The lookup table serves every size up to SLAB_MAX_SIZE. *)
LEMMA ClassFound ==
  ASSUME NEW n \in 1..1024
  PROVE  size_to_class(n) \in SizeClasses /\ class_to_size(size_to_class(n)) >= n
<1> DEFINE S == {c \in 1..22 : SIZE_CLASSES[c] >= n}
<1> n \in Int /\ n <= 1024
  OBVIOUS
<1>1. S \subseteq Nat /\ 22 \in S
  BY ClassSizes
<1>2. PICK m \in S : \A c \in S : m <= c
  <2> HIDE DEF S
  <2> QED BY <1>1, Least
<1>3. \A d \in 1..(m - 1) : SIZE_CLASSES[d] < n
  <2> SUFFICES ASSUME NEW d \in 1..(m - 1) PROVE SIZE_CLASSES[d] < n
    OBVIOUS
  <2>1. d \in 1..22 /\ d < m
    BY <1>2
  <2>2. d \notin S
    <3> HIDE DEF S
    <3>1. \A x \in Int : x < m => ~(m <= x)
      BY <1>1, <1>2
    <3> QED BY <1>1, <1>2, <2>1, <3>1
  <2>3. SIZE_CLASSES[d] \in Int
    BY <2>1, ClassSizes
  <2> QED BY <2>1, <2>2, <2>3
<1>4. m \in SizeClasses /\ SIZE_CLASSES[m] >= n
  BY <1>2, ClassSizes
<1>5. \E c \in SizeClasses : /\ SIZE_CLASSES[c] >= n
                             /\ \A d \in 1..(c - 1) : SIZE_CLASSES[d] < n
  BY <1>3, <1>4, Zenon
<1> QED BY <1>5, Zenon DEF size_to_class, class_to_size

(* As many slots as fit into a page. *)
LEMMA SlotsFit ==
  ASSUME NEW c \in SizeClasses, NEW s, s = class_to_size(c), NEW k, k = slots_per_page(c)
  PROVE  /\ s \in Nat /\ s >= 8 /\ s <= 1024
         /\ k \in Nat /\ k >= 4 /\ k <= 512
         /\ k * s <= 4096 /\ (k + 1) * s > 4096
         /\ \A i \in 0..(k - 1) : i * s \in Nat /\ i * s + s <= 4096
<1>1. s \in 8..1024 /\ k = 4096 \div s
  BY ClassSizes DEF class_to_size, slots_per_page, PAGE_SIZE
<1>2. \A x \in 8..1024 : /\ 4096 \div x \in 4..512
                         /\ (4096 \div x) * x <= 4096
                         /\ ((4096 \div x) + 1) * x > 4096
  OBVIOUS
<1>3. k \in 4..512 /\ k * s <= 4096 /\ (k + 1) * s > 4096
  BY <1>1, <1>2
<1>4. ASSUME NEW i \in 0..(k - 1) PROVE i * s \in Nat /\ i * s + s <= 4096
  <2>1. i \in Nat /\ i + 1 <= k
    BY <1>3
  <2>2. i * s \in Nat /\ s * i = i * s /\ s * k = k * s
    BY <1>1, <1>3, <2>1
  <2>3. s * i + s <= s * k
    <3>1. s \in Nat /\ s >= 1 /\ i \in Int /\ k \in Int /\ i < k
      BY <1>1, <1>3
    <3> QED BY <3>1, Multiples
  <2> QED BY <1>1, <1>3, <2>2, <2>3
<1>5. s \in Nat /\ s >= 8 /\ s <= 1024
  BY <1>1
<1>6. k \in Nat /\ k >= 4 /\ k <= 512
  BY <1>3
<1> QED BY <1>3, <1>4, <1>5, <1>6

LEMMA SlotsFill ==
  ASSUME NEW c \in SizeClasses
  PROVE  /\ class_to_size(c) >= POINTER_SIZE
         /\ slots_per_page(c) \in 2..NullSlot
         /\ (slots_per_page(c) + 1) * class_to_size(c) > PAGE_SIZE
<1>1. PICK s, k \in Nat :
          /\ s = class_to_size(c) /\ k = slots_per_page(c)
          /\ s >= 8 /\ k >= 4 /\ k <= 512 /\ (k + 1) * s > 4096
  BY SlotsFit
<1>2. PICK n \in Nat : n = NullSlot /\ n >= 512
  BY DEF NullSlot
<1>3. k \in 2..n
  BY <1>1, <1>2
<1>4. s >= POINTER_SIZE /\ (k + 1) * s > PAGE_SIZE
  BY <1>1 DEF POINTER_SIZE, PAGE_SIZE
<1> QED BY <1>1, <1>2, <1>3, <1>4

(* The d-th unit of page p, and of a multiple. *)
LEMMA PageOfUnit ==
  ASSUME NEW p \in Nat, NEW d \in Nat, d < 4096
  PROVE  (p * 4096 + d) \div 4096 = p
OBVIOUS

LEMMA OfMultiple ==
  ASSUME NEW s \in Nat, s >= 1, NEW i \in Nat
  PROVE  (i * s) \div s = i
OBVIOUS

(* slab.rs: the address of a slot lies in its page and leads back to its
   index, from the first byte to the last, in every page. *)
THEOREM SlotAddresses ==
  ASSUME NEW p \in Nat, NEW c \in SizeClasses, NEW i \in 0..(slots_per_page(c) - 1)
  PROVE  /\ page_index(slot_addr(p, c, i)) = p
         /\ page_index(slot_addr(p, c, i) + class_to_size(c) - 1) = p
         /\ slot_index(slot_addr(p, c, i), c) = i
<1> PICK s, k, a : s = class_to_size(c) /\ k = slots_per_page(c) /\ a = slot_addr(p, c, i)
  OBVIOUS
<1>1. i \in Nat /\ i * s \in Nat /\ i * s + s <= 4096
  BY SlotsFit
<1>2. a = p * 4096 + i * s /\ p * 4096 \in Nat
  BY DEF slot_addr, PAGE_SIZE
<1>3. s \in Nat /\ s >= 8 /\ s <= 1024
  BY SlotsFit
<1>4. PICK d, q \in Nat : d = i * s /\ q = p * 4096
  BY <1>1, <1>2
<1>5. a = q + d /\ d + s <= 4096
  BY <1>1, <1>2, <1>4
<1>6. PICK e \in Nat : e = d + s - 1
  BY <1>3, <1>4
<1>7. d < 4096 /\ e < 4096 /\ a + s - 1 = q + e /\ a - q = d
  BY <1>3, <1>4, <1>5, <1>6
<1>8. (q + d) \div 4096 = p /\ (q + e) \div 4096 = p
  BY <1>4, <1>6, <1>7, PageOfUnit
<1>9. (i * s) \div s = i
  <2>1. s \in Nat /\ s >= 1
    BY <1>3
  <2> QED BY <1>1, <2>1, OfMultiple
<1>10. page_index(a) = p /\ page_index(a + s - 1) = p
  BY <1>5, <1>7, <1>8 DEF page_index, PAGE_SIZE
<1>11. slot_index(a, c) = (a - q) \div s
  BY <1>4, <1>10 DEF slot_index, PAGE_SIZE
<1> QED BY <1>4, <1>7, <1>9, <1>10, <1>11

(* size_class.rs, slab.rs: every size up to SLAB_MAX_SIZE has a class whose
   slots are as long, and their addresses lead back to them. *)
THEOREM SlotsServe == Spec => []SlotsRoundTrip
<1>1. ASSUME InRange PROVE SlotsRoundTrip
  <2> SUFFICES ASSUME Slab, NEW c, c = size_to_class(size)
               PROVE  /\ class_to_size(c) >= size
                      /\ class_to_size(c) >= POINTER_SIZE
                      /\ slots_per_page(c) \in 2..NullSlot
                      /\ (slots_per_page(c) + 1) * class_to_size(c) > PAGE_SIZE
                      /\ \A i \in 0..(slots_per_page(c) - 1) :
                            /\ page_index(slot_addr(META_PAGES, c, i) + class_to_size(c) - 1) = META_PAGES
                            /\ slot_index(slot_addr(META_PAGES, c, i), c) = i
                      /\ PAGE_SIZE + PAGES_PER_ARENA * PAGE_META_SIZE <= META_PAGES * PAGE_SIZE
    BY DEF SlotsRoundTrip
  <2>1. size \in 1..1024
    BY <1>1 DEF InRange, Slab, SLAB_MAX_SIZE
  <2>2. c \in SizeClasses /\ class_to_size(c) >= size
    BY <2>1, ClassFound
  <2>3. /\ class_to_size(c) >= POINTER_SIZE
        /\ slots_per_page(c) \in 2..NullSlot
        /\ (slots_per_page(c) + 1) * class_to_size(c) > PAGE_SIZE
    BY <2>2, SlotsFill
  <2>4. META_PAGES \in Nat
    BY DEF META_PAGES
  <2>5. PAGE_SIZE + PAGES_PER_ARENA * PAGE_META_SIZE <= META_PAGES * PAGE_SIZE
    BY DEF PAGE_SIZE, PAGES_PER_ARENA, PAGE_META_SIZE, META_PAGES
  <2>6. ASSUME NEW i \in 0..(slots_per_page(c) - 1)
        PROVE  /\ page_index(slot_addr(META_PAGES, c, i) + class_to_size(c) - 1) = META_PAGES
               /\ slot_index(slot_addr(META_PAGES, c, i), c) = i
    BY <2>2, <2>4, SlotAddresses, Zenon
  <2> QED BY <2>2, <2>3, <2>5, <2>6, Zenon
<1> QED BY <1>1, SizesInRange, PTL
=============================================================================
