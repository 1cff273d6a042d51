------------------------- MODULE TlsfMappingProofs -------------------------
(***************************************************************************)
(* What the two-level mapping of the TLSF allocator computes, for every    *)
(* number of lists and every size up to the largest class: a block is in   *)
(* the list its size lies in, and whatever list a request is sent to, each *)
(* block of it and of the lists behind it can serve the request.           *)
(***************************************************************************)
EXTENDS TlsfMapping, Walks

(* Powers of two. *)
P2(k) == 2^k
Exponents == 0..(FL_MAX + 3)

LEMMA P2Laws ==
    /\ FL_MAX \in Nat /\ FL_MAX >= 4 /\ SL_LOG2 \in 1..4
    /\ P2(0) = 1
    /\ \A k \in Exponents : P2(k) \in Nat
    /\ \A k \in Exponents : k + 1 \in Exponents => P2(k + 1) = 2 * P2(k)
<1>1. FL_MAX \in Nat /\ FL_MAX >= 4 /\ SL_LOG2 \in 1..4
  BY TlsfMappingAssumption DEF FL_SHIFT
<1>2. P2(0) = 1
  BY PowersOfTwo DEF P2
<1>3. \A k \in 0..(FL_MAX + 2) : P2(k) \in Nat /\ P2(k + 1) = 2 * P2(k)
  BY PowersOfTwo DEF P2
<1>4. P2(FL_MAX + 2 + 1) \in Nat
  BY <1>1, <1>3
<1>5. FL_MAX + 2 + 1 = FL_MAX + 3
  BY <1>1
<1>6. P2(FL_MAX + 3) \in Nat
  BY <1>4, <1>5
<1> QED BY <1>1, <1>2, <1>3, <1>6 DEF Exponents

LEMMA P2Step ==
    ASSUME NEW k \in Exponents, k > 0
    PROVE  k - 1 \in Exponents /\ P2(k) = 2 * P2(k - 1)
<1>1. k - 1 \in Exponents /\ k - 1 + 1 = k
  BY P2Laws DEF Exponents
<1> QED BY <1>1, P2Laws

LEMMA P2Positive == \A k \in Exponents : P2(k) \in Nat /\ P2(k) >= 1
<1> DEFINE S == {k \in Exponents : P2(k) = 0}
<1>1. SUFFICES ASSUME S # {} PROVE FALSE
  BY P2Laws
<1>2. PICK k \in S : \A j \in S : k <= j
  <2>1. S \subseteq Nat
    BY DEF Exponents
  <2> HIDE DEF S
  <2> QED BY <1>1, <2>1, Least
<1>3. k # 0
  BY P2Laws
<1>4. k - 1 \in Exponents /\ P2(k) = 2 * P2(k - 1)
  BY <1>3, P2Step DEF Exponents
<1>5. k - 1 \notin S
  BY <1>2, <1>4 DEF Exponents
<1> QED BY <1>4, <1>5, P2Laws

LEMMA P2Monotone ==
    ASSUME NEW i \in Exponents, NEW j \in Exponents, i <= j
    PROVE  P2(i) <= P2(j)
<1> DEFINE S == {k \in Exponents : i <= k /\ P2(k) < P2(i)}
<1>1. SUFFICES ASSUME S # {} PROVE FALSE
  BY P2Laws
<1>2. PICK k \in S : \A l \in S : k <= l
  <2>1. S \subseteq Nat
    BY DEF Exponents
  <2> HIDE DEF S
  <2> QED BY <1>1, <2>1, Least
<1>3. k # i
  BY P2Laws
<1>4. k - 1 \in Exponents /\ P2(k) = 2 * P2(k - 1)
  BY <1>3, P2Step DEF Exponents
<1>5. k - 1 \notin S
  BY <1>2, <1>4 DEF Exponents
<1>6. i <= k - 1
  BY <1>3 DEF Exponents
<1> QED BY <1>4, <1>5, <1>6, P2Positive

LEMMA P2Sum ==
    ASSUME NEW i \in Exponents, NEW j \in Exponents, i + j \in Exponents
    PROVE  P2(i + j) = P2(i) * P2(j)
<1> DEFINE S == {k \in Exponents : i + k \in Exponents /\ P2(i + k) # P2(i) * P2(k)}
<1>1. SUFFICES ASSUME S # {} PROVE FALSE
  OBVIOUS
<1>2. PICK k \in S : \A l \in S : k <= l
  <2>1. S \subseteq Nat
    BY DEF Exponents
  <2> HIDE DEF S
  <2> QED BY <1>1, <2>1, Least
<1>3. k # 0
  <2>1. i + 0 = i
    BY DEF Exponents
  <2>2. P2(i) * P2(0) = P2(i)
    BY P2Laws
  <2> QED BY <2>1, <2>2
<1>4. k - 1 \in Exponents /\ P2(k) = 2 * P2(k - 1)
  BY <1>3, P2Step DEF Exponents
<1>5. i + k - 1 \in Exponents /\ P2(i + k) = 2 * P2(i + k - 1)
  BY <1>3, P2Step DEF Exponents
<1>6. i + (k - 1) = i + k - 1
  BY DEF Exponents
<1>7. P2(i + k - 1) = P2(i) * P2(k - 1)
  BY <1>2, <1>4, <1>5, <1>6 DEF Exponents
<1>8. 2 * (P2(i) * P2(k - 1)) = P2(i) * (2 * P2(k - 1))
  BY <1>4, P2Laws
<1> QED BY <1>4, <1>5, <1>7, <1>8
-----------------------------------------------------------------------------
(* Division, by any d > 0: the quotient q of n has d * q <= n < d * (q + 1). *)
LEMMA Quotient ==
    ASSUME NEW n \in Nat, NEW d \in Nat, d >= 1
    PROVE  /\ n \div d \in Nat
           /\ d * (n \div d) <= n
           /\ n < d * (n \div d) + d
OBVIOUS

(* Multiples of d that a < b bound are at least d apart. *)
LEMMA Multiples ==
    ASSUME NEW d \in Nat, d >= 1, NEW a \in Int, NEW b \in Int, a < b
    PROVE  d * a \in Int /\ d * b \in Int /\ d * a + d <= d * b
<1>1. d * (b - a) >= d
  <2>1. PICK e \in Nat : b - a = e + 1
    <3>1. b - a - 1 \in Nat /\ b - a = (b - a - 1) + 1
      OBVIOUS
    <3> QED BY <3>1
  <2>2. d * (e + 1) = d * e + d /\ d * e >= 0
    OBVIOUS
  <2> QED BY <2>1, <2>2
<1>2. d * (b - a) = d * b - d * a
  OBVIOUS
<1> QED BY <1>1, <1>2

LEMMA QuotientBelow ==
    ASSUME NEW n \in Nat, NEW d \in Nat, d >= 1, NEW q \in Int, n < d * q
    PROVE  n \div d < q
<1>1. SUFFICES ASSUME n \div d >= q PROVE FALSE
  BY Quotient
<1>2. d * q <= d * (n \div d)
  BY <1>1, Quotient, Multiples
<1> QED BY <1>2, Quotient

LEMMA QuotientFrom ==
    ASSUME NEW n \in Nat, NEW d \in Nat, d >= 1, NEW q \in Int, d * q <= n
    PROVE  q <= n \div d
<1>1. SUFFICES ASSUME n \div d < q PROVE FALSE
  BY Quotient
<1>2. d * (n \div d) + d <= d * q
  BY <1>1, Quotient, Multiples
<1> QED BY <1>2, Quotient

LEMMA QuotientMonotone ==
    ASSUME NEW m \in Nat, NEW n \in Nat, m <= n, NEW d \in Nat, d >= 1
    PROVE  m \div d <= n \div d
<1>1. d * (m \div d) <= n
  BY Quotient
<1> QED BY <1>1, Quotient, QuotientFrom
-----------------------------------------------------------------------------
(* The highest bit. *)
LEMMA HighestBitIs ==
    ASSUME NEW n \in Nat, n >= 1, n < P2(FL_MAX + 2)
    PROVE  /\ HighestBit(n) \in 0..(FL_MAX + 1)
           /\ HighestBit(n) \in Exponents
           /\ HighestBit(n) + 1 \in Exponents
           /\ P2(HighestBit(n)) <= n
           /\ n < 2 * P2(HighestBit(n))
           /\ P2(HighestBit(n) + 1) = 2 * P2(HighestBit(n))
<1> DEFINE S == {k \in 0..(FL_MAX + 2) : n < P2(k)}
<1>1. PICK k \in S : \A l \in S : k <= l
  <2>1. S \subseteq Nat /\ S # {}
    BY P2Laws
  <2> HIDE DEF S
  <2> QED BY <2>1, Least
<1>2. k # 0
  BY P2Laws
<1>3. k - 1 \in 0..(FL_MAX + 1) /\ k - 1 + 1 = k
  BY <1>2, P2Laws
<1>4. k - 1 \notin S
  BY <1>1, <1>3
<1>5. k - 1 \in Exponents /\ k \in Exponents
  BY <1>3, P2Laws DEF Exponents
<1>6. P2(k - 1) <= n
  BY <1>3, <1>4, <1>5, P2Laws
<1>7. \E h \in 0..(FL_MAX + 1) : P2(h) <= n /\ n < P2(h + 1)
  BY <1>3, <1>6
<1>8. /\ HighestBit(n) \in 0..(FL_MAX + 1)
      /\ P2(HighestBit(n)) <= n
      /\ n < P2(HighestBit(n) + 1)
  BY <1>7 DEF HighestBit, P2
<1>9. HighestBit(n) \in Exponents /\ HighestBit(n) + 1 \in Exponents
  BY <1>8, P2Laws DEF Exponents
<1> QED BY <1>8, <1>9, P2Laws

LEMMA HighestBitAtMost ==
    ASSUME NEW n \in Nat, n >= 1, n < P2(FL_MAX + 2),
           NEW k \in Exponents, n < P2(k)
    PROVE  HighestBit(n) < k
<1>1. SUFFICES ASSUME k <= HighestBit(n) PROVE FALSE
  BY HighestBitIs DEF Exponents
<1>2. P2(k) <= P2(HighestBit(n))
  BY <1>1, HighestBitIs, P2Monotone
<1> QED BY <1>2, HighestBitIs, P2Laws

LEMMA HighestBitAtLeast ==
    ASSUME NEW n \in Nat, n >= 1, n < P2(FL_MAX + 2),
           NEW k \in Exponents, P2(k) <= n
    PROVE  k <= HighestBit(n)
<1>1. SUFFICES ASSUME HighestBit(n) + 1 <= k PROVE FALSE
  BY HighestBitIs DEF Exponents
<1>2. P2(HighestBit(n) + 1) <= P2(k)
  BY <1>1, HighestBitIs, P2Monotone
<1> QED BY <1>2, HighestBitIs, P2Laws

LEMMA HighestBitMonotone ==
    ASSUME NEW m \in Nat, m >= 1, NEW n \in Nat, m <= n, n < P2(FL_MAX + 2)
    PROVE  HighestBit(m) <= HighestBit(n)
<1>1. P2(FL_MAX + 2) \in Nat
  BY P2Laws DEF Exponents
<1>2. m < P2(FL_MAX + 2) /\ n >= 1
  BY <1>1
<1>3. P2(HighestBit(m)) <= n
  BY <1>2, HighestBitIs, P2Laws
<1> QED BY <1>2, <1>3, HighestBitIs, HighestBitAtLeast
-----------------------------------------------------------------------------
(* The classes: P2(fl) to P2(fl + 1), in SL_COUNT lists of equal width. *)
Width(fl) == P2(fl - SL_LOG2)

LEMMA Classes ==
    ASSUME NEW fl \in 4..(FL_MAX + 1)
    PROVE  /\ fl \in Exponents /\ fl - SL_LOG2 \in Exponents /\ fl + 1 \in Exponents
           /\ SL_COUNT \in Nat /\ SL_COUNT >= 1
           /\ Width(fl) \in Nat /\ Width(fl) >= 1
           /\ Width(fl) * SL_COUNT = P2(fl)
           /\ P2(fl) \in Nat
           /\ P2(fl + 1) = 2 * P2(fl)
<1>1. fl \in Exponents /\ fl - SL_LOG2 \in Exponents /\ fl + 1 \in Exponents /\ SL_LOG2 \in Exponents
  BY P2Laws DEF Exponents
<1>2. SL_COUNT = P2(SL_LOG2)
  BY DEF SL_COUNT, P2
<1>3. fl - SL_LOG2 + SL_LOG2 = fl
  BY P2Laws
<1>4. Width(fl) * SL_COUNT = P2(fl)
  BY <1>1, <1>2, <1>3, P2Sum DEF Width
<1> QED BY <1>1, <1>2, <1>4, P2Positive, P2Laws DEF Width

LEMMA Level ==
    ASSUME NEW n \in Nat, n >= MIN_PAYLOAD, n < P2(FL_MAX + 2)
    PROVE  /\ HighestBit(n) \in 4..(FL_MAX + 1)
           /\ SecondLevel(n, HighestBit(n)) = n \div Width(HighestBit(n)) - SL_COUNT
           /\ SecondLevel(n, HighestBit(n)) \in SecondLevels
<1> DEFINE h == HighestBit(n)
           d == Width(h)
<1>1. P2(4) = 16
  BY DEF P2
<1>2. h \in 4..(FL_MAX + 1)
  <2>1. 4 \in Exponents
    BY P2Laws DEF Exponents
  <2>2. 4 <= h
    BY <1>1, <2>1, HighestBitAtLeast DEF MIN_PAYLOAD
  <2>3. h \in 0..(FL_MAX + 1)
    BY HighestBitIs DEF MIN_PAYLOAD
  <2> QED BY <2>2, <2>3, P2Laws
<1>3. P2(h) <= n /\ n < 2 * P2(h)
  BY HighestBitIs DEF MIN_PAYLOAD
<1>4. SecondLevel(n, h) = n \div d - SL_COUNT
  BY DEF SecondLevel, Width, P2
<1>5. d \in Nat /\ d >= 1 /\ d * SL_COUNT = P2(h) /\ SL_COUNT \in Nat
  BY <1>2, Classes
<1>6. n \div d >= SL_COUNT /\ n \div d \in Nat
  BY <1>3, <1>5, QuotientFrom, Quotient
<1>7. n \div d < SL_COUNT + SL_COUNT
  <2>1. d * (SL_COUNT + SL_COUNT) = d * SL_COUNT + d * SL_COUNT
    BY <1>5
  <2>2. n < d * (SL_COUNT + SL_COUNT)
    BY <1>3, <1>5, <2>1
  <2> QED BY <1>5, <2>2, QuotientBelow
<1>8. n \div d - SL_COUNT \in 0..(SL_COUNT - 1)
  BY <1>5, <1>6, <1>7
<1> QED BY <1>2, <1>4, <1>8 DEF SecondLevels

(* mapping: a block is in a list of the array, the one its size lies in. *)
LEMMA MappingInRange ==
    ASSUME NEW n \in Nat, n >= MIN_PAYLOAD, n < P2(FL_MAX + 1)
    PROVE  /\ mapping(n) \in FirstLevels \X SecondLevels
           /\ mapping(n)[1] = HighestBit(n) - 4
           /\ mapping(n)[2] = n \div Width(HighestBit(n)) - SL_COUNT
<1>1. n < P2(FL_MAX + 2) /\ FL_MAX + 1 \in Exponents
  <2>1. FL_MAX + 1 \in Exponents /\ FL_MAX + 1 + 1 \in Exponents /\ FL_MAX + 1 + 1 = FL_MAX + 2
    BY P2Laws DEF Exponents
  <2> QED BY <2>1, P2Laws
<1>2. HighestBit(n) < FL_MAX + 1
  BY <1>1, HighestBitAtMost DEF MIN_PAYLOAD
<1>3. HighestBit(n) \in 4..(FL_MAX + 1)
  BY <1>1, Level
<1>4. HighestBit(n) - 4 \in FirstLevels
  BY <1>2, <1>3, P2Laws DEF FirstLevels, FL_COUNT, FL_SHIFT
<1> QED BY <1>1, <1>4, Level DEF mapping, FL_SHIFT

LEMMA Bounds ==
    ASSUME NEW bin, bin[1] \in Int, bin[2] \in Int,
           bin[1] + 4 \in 4..(FL_MAX + 1)
    PROVE  /\ LowerBound(bin) = Width(bin[1] + 4) * (SL_COUNT + bin[2])
           /\ UpperBound(bin) = Width(bin[1] + 4) * (SL_COUNT + bin[2]) + Width(bin[1] + 4)
<1> DEFINE d == Width(bin[1] + 4)
           q == SL_COUNT + bin[2]
<1>1. d \in Nat /\ SL_COUNT \in Nat
  BY Classes
<1>2. LowerBound(bin) = q * d /\ UpperBound(bin) = (q + 1) * d
  <2>1. d = P2(bin[1] + FL_SHIFT - SL_LOG2)
    <3>1. bin[1] + 4 - SL_LOG2 = (bin[1] + 4) - SL_LOG2
      BY P2Laws
    <3> QED BY <3>1 DEF Width, FL_SHIFT
  <2>2. /\ LowerBound(bin) = q * P2(bin[1] + FL_SHIFT - SL_LOG2)
        /\ UpperBound(bin) = (q + 1) * P2(bin[1] + FL_SHIFT - SL_LOG2)
    BY Zenon DEF LowerBound, UpperBound, P2
  <2> QED BY <2>1, <2>2
<1>3. q \in Int
  BY <1>1
<1> HIDE DEF d, q
<1>4. q * d = d * q /\ (q + 1) * d = d * q + d
  BY <1>1, <1>3
<1> QED BY <1>2, <1>4 DEF d, q

(* Every block is in the list its size lies in. *)
LEMMA MappingBounds ==
    ASSUME NEW n \in Nat, n >= MIN_PAYLOAD, n < P2(FL_MAX + 1)
    PROVE  LowerBound(mapping(n)) <= n /\ n < UpperBound(mapping(n))
<1> DEFINE bin == mapping(n)
           d == Width(HighestBit(n))
<1>1. bin \in FirstLevels \X SecondLevels /\ bin[1] = HighestBit(n) - 4 /\ bin[2] = n \div d - SL_COUNT
  BY MappingInRange
<1>2. bin[1] \in 0..(FL_MAX - 4) /\ bin[2] \in Int /\ HighestBit(n) = bin[1] + 4
  <2>1. bin[1] \in 0..(FL_MAX - 4)
    BY <1>1, P2Laws DEF FirstLevels, FL_COUNT, FL_SHIFT
  <2>2. bin[2] \in Int
    BY <1>1 DEF SecondLevels
  <2>3. n < P2(FL_MAX + 2)
    <3>1. FL_MAX + 1 \in Exponents /\ FL_MAX + 1 + 1 \in Exponents /\ FL_MAX + 1 + 1 = FL_MAX + 2
      BY P2Laws DEF Exponents
    <3> QED BY <3>1, P2Laws
  <2>4. HighestBit(n) \in Int
    BY <2>3, HighestBitIs DEF MIN_PAYLOAD
  <2> QED BY <1>1, <2>1, <2>2, <2>4
<1>3. bin[1] + 4 \in 4..(FL_MAX + 1)
  BY <1>2, P2Laws
<1>4. d \in Nat /\ d >= 1 /\ SL_COUNT \in Nat
  BY <1>2, <1>3, Classes
<1>5. n \div d \in Nat
  BY <1>4, Quotient
<1>6. SL_COUNT + bin[2] = n \div d
  BY <1>1, <1>4, <1>5
<1>7. LowerBound(bin) = d * (n \div d) /\ UpperBound(bin) = d * (n \div d) + d
  BY <1>2, <1>3, <1>6, Bounds
<1> QED BY <1>4, <1>7, Quotient
-----------------------------------------------------------------------------
(* The lists are in order, and a larger block is not in an earlier list. *)
LEMMA Ordered ==
    ASSUME NEW a, a[1] \in Int, a[1] + 4 \in 4..(FL_MAX + 1), a[2] \in SecondLevels,
           NEW b, b[1] \in Int, b[1] + 4 \in 4..(FL_MAX + 1), b[2] \in SecondLevels,
           AtOrAfter(b, a)
    PROVE  LowerBound(a) \in Nat /\ LowerBound(b) \in Nat /\ LowerBound(a) <= LowerBound(b)
<1> DEFINE da == Width(a[1] + 4)
           db == Width(b[1] + 4)
<1>1. /\ da \in Nat /\ da >= 1 /\ da * SL_COUNT = P2(a[1] + 4)
      /\ db \in Nat /\ db >= 1 /\ db * SL_COUNT = P2(b[1] + 4)
      /\ SL_COUNT \in Nat
  BY Classes
<1>2. a[2] \in 0..(SL_COUNT - 1) /\ b[2] \in 0..(SL_COUNT - 1)
  BY DEF SecondLevels
<1>3. LowerBound(a) = da * (SL_COUNT + a[2]) /\ LowerBound(b) = db * (SL_COUNT + b[2])
  BY <1>2, Bounds
<1> HIDE DEF da, db
<1>4. da * (SL_COUNT + a[2]) \in Nat /\ db * (SL_COUNT + b[2]) \in Nat
  BY <1>1, <1>2
<1>5. CASE b[1] = a[1]
  <2>1. da = db /\ SL_COUNT + a[2] <= SL_COUNT + b[2]
    BY <1>1, <1>2, <1>5 DEF AtOrAfter, da, db
  <2>2. da * (SL_COUNT + a[2]) <= da * (SL_COUNT + b[2])
    BY <1>1, <1>2, <2>1, Multiples
  <2> QED BY <1>3, <1>4, <2>1, <2>2
<1>6. CASE b[1] > a[1]
  <2>1. da * (SL_COUNT + a[2]) + da <= da * (SL_COUNT + SL_COUNT)
    BY <1>1, <1>2, Multiples
  <2>2. da * (SL_COUNT + SL_COUNT) = da * SL_COUNT + da * SL_COUNT
    BY <1>1
  <2>3. da * (SL_COUNT + a[2]) <= 2 * P2(a[1] + 4)
    BY <1>1, <1>4, <2>1, <2>2
  <2>4. P2(a[1] + 5) = 2 * P2(a[1] + 4)
    <3>1. a[1] + 4 + 1 = a[1] + 5
      OBVIOUS
    <3>2. P2(a[1] + 4 + 1) = 2 * P2(a[1] + 4)
      BY Classes
    <3> QED BY <3>1, <3>2
  <2>5. P2(a[1] + 5) <= P2(b[1] + 4) /\ P2(b[1] + 4) \in Nat /\ P2(a[1] + 4) \in Nat
    <3>1. a[1] + 5 \in Exponents /\ b[1] + 4 \in Exponents /\ a[1] + 4 \in Exponents
      BY P2Laws DEF Exponents
    <3> QED BY <1>6, <3>1, P2Monotone, P2Laws
  <2>6. db * SL_COUNT <= db * (SL_COUNT + b[2])
    <3>1. CASE b[2] = 0
      BY <1>1, <3>1
    <3>2. CASE b[2] > 0
      BY <1>1, <1>2, <3>2, Multiples
    <3> QED BY <1>2, <3>1, <3>2
  <2> QED BY <1>1, <1>3, <1>4, <2>3, <2>4, <2>5, <2>6
<1> QED BY <1>5, <1>6 DEF AtOrAfter

LEMMA NextPower == FL_MAX + 1 \in Exponents /\ P2(FL_MAX + 1) \in Nat /\ P2(FL_MAX + 2) = 2 * P2(FL_MAX + 1)
<1>1. FL_MAX + 1 \in Exponents /\ FL_MAX + 1 + 1 \in Exponents /\ FL_MAX + 1 + 1 = FL_MAX + 2
  BY P2Laws DEF Exponents
<1> QED BY <1>1, P2Laws

LEMMA MappingMonotone ==
    ASSUME NEW m \in Nat, m >= MIN_PAYLOAD,
           NEW n \in Nat, m <= n, n < P2(FL_MAX + 1)
    PROVE  AtOrAfter(mapping(n), mapping(m))
<1>1. m < P2(FL_MAX + 1) /\ m < P2(FL_MAX + 2) /\ n < P2(FL_MAX + 2) /\ n >= MIN_PAYLOAD
  BY NextPower DEF MIN_PAYLOAD
<1>2. /\ mapping(m)[1] = HighestBit(m) - 4 /\ mapping(m)[2] = m \div Width(HighestBit(m)) - SL_COUNT
      /\ mapping(n)[1] = HighestBit(n) - 4 /\ mapping(n)[2] = n \div Width(HighestBit(n)) - SL_COUNT
  BY <1>1, MappingInRange
<1>3. HighestBit(m) \in 4..(FL_MAX + 1) /\ HighestBit(n) \in 4..(FL_MAX + 1)
  BY <1>1, Level
<1>4. HighestBit(m) <= HighestBit(n)
  BY <1>1, HighestBitMonotone DEF MIN_PAYLOAD
<1>5. ASSUME HighestBit(m) = HighestBit(n)
      PROVE  mapping(n)[2] >= mapping(m)[2]
  <2> DEFINE d == Width(HighestBit(n))
  <2>1. d \in Nat /\ d >= 1 /\ SL_COUNT \in Nat
    BY <1>3, Classes
  <2>2. m \div d <= n \div d /\ m \div d \in Nat /\ n \div d \in Nat
    BY <2>1, QuotientMonotone, Quotient
  <2> HIDE DEF d
  <2>3. mapping(m)[2] = m \div d - SL_COUNT /\ mapping(n)[2] = n \div d - SL_COUNT
    BY <1>2, <1>5 DEF d
  <2> QED BY <2>1, <2>2, <2>3
<1> QED BY <1>2, <1>3, <1>4, <1>5 DEF AtOrAfter

(* The size a request is rounded up to, and where it leads. *)
LEMMA Rounded ==
    ASSUME NEW n \in Nat, n >= MIN_PAYLOAD, n < P2(FL_MAX + 1)
    PROVE  /\ HighestBit(n) \in 4..FL_MAX
           /\ SearchRound(n) = Width(HighestBit(n)) - 1
           /\ SearchRound(n) \in Nat
           /\ n + SearchRound(n) \in Nat
           /\ n + SearchRound(n) >= MIN_PAYLOAD
           /\ n + SearchRound(n) < P2(FL_MAX + 2)
<1> DEFINE h == HighestBit(n)
<1>1. h \in 4..(FL_MAX + 1) /\ P2(h) <= n
  BY NextPower, Level, HighestBitIs DEF MIN_PAYLOAD
<1>2. h < FL_MAX + 1
  BY NextPower, HighestBitAtMost DEF MIN_PAYLOAD
<1>3. h \in 4..FL_MAX
  BY <1>1, <1>2, P2Laws
<1>4. SearchRound(n) = Width(h) - 1
  BY DEF SearchRound, Width, P2
<1>5. Width(h) \in Nat /\ Width(h) >= 1
  BY <1>1, Classes
<1>6. Width(h) <= P2(h)
  <2>1. h - SL_LOG2 \in Exponents /\ h \in Exponents /\ h - SL_LOG2 <= h
    BY <1>1, Classes, P2Laws
  <2> QED BY <2>1, P2Monotone DEF Width
<1>7. P2(h) \in Nat
  BY <1>1, Classes
<1> QED BY <1>1, <1>3, <1>4, <1>5, <1>6, <1>7, NextPower DEF MIN_PAYLOAD

LEMMA SearchIs ==
    ASSUME NEW n \in Nat, n >= MIN_PAYLOAD, n < P2(FL_MAX + 1)
    PROVE  \/ /\ n + SearchRound(n) < P2(FL_MAX + 1)
              /\ mapping_search(n) = mapping(n + SearchRound(n))
           \/ /\ n + SearchRound(n) >= P2(FL_MAX + 1)
              /\ mapping_search(n) = <<FL_COUNT, 0>>
<1> DEFINE m == n + SearchRound(n)
<1>1. m \in Nat /\ m >= MIN_PAYLOAD /\ m < P2(FL_MAX + 2) /\ m >= 1
  BY Rounded DEF MIN_PAYLOAD
<1> HIDE DEF m
<1>2. HighestBit(m) \in 0..(FL_MAX + 1)
  BY <1>1, HighestBitIs
<1>3. ASSUME m < P2(FL_MAX + 1) PROVE ~ (HighestBit(m) > FL_MAX)
  BY <1>1, <1>2, <1>3, NextPower, HighestBitAtMost, P2Laws
<1>4. ASSUME m >= P2(FL_MAX + 1) PROVE HighestBit(m) > FL_MAX
  BY <1>1, <1>2, <1>4, NextPower, HighestBitAtLeast, P2Laws
<1>5. mapping_search(n) = IF HighestBit(m) > FL_MAX THEN <<FL_COUNT, 0>> ELSE mapping(m)
  BY DEF mapping_search, mapping, m
<1>6. m < P2(FL_MAX + 1) \/ m >= P2(FL_MAX + 1)
  BY <1>1, NextPower
<1> QED BY <1>3, <1>4, <1>5, <1>6 DEF m

LEMMA InLevels ==
    ASSUME NEW n \in Nat, n >= MIN_PAYLOAD, n < P2(FL_MAX + 1)
    PROVE  /\ mapping(n)[1] \in Int /\ mapping(n)[1] + 4 \in 4..(FL_MAX + 1)
           /\ mapping(n)[1] \in FirstLevels /\ mapping(n)[2] \in SecondLevels
<1>1. mapping(n)[1] \in FirstLevels /\ mapping(n)[2] \in SecondLevels
  BY MappingInRange
<1> QED BY <1>1, P2Laws DEF FirstLevels, FL_COUNT, FL_SHIFT

(* mapping_search: no block of the first list tried is shorter than the
   request. *)
LEMMA SearchStart ==
    ASSUME NEW n \in Nat, n >= MIN_PAYLOAD, n < P2(FL_MAX + 1)
    PROVE  /\ mapping_search(n)[1] \in Int
           /\ mapping_search(n)[1] + 4 \in 4..(FL_MAX + 1)
           /\ mapping_search(n)[2] \in SecondLevels
           /\ LowerBound(mapping_search(n)) \in Nat
           /\ n <= LowerBound(mapping_search(n))
<1> DEFINE m == n + SearchRound(n)
           bin == mapping_search(n)
           h == HighestBit(n)
<1>1. m \in Nat /\ m >= MIN_PAYLOAD /\ m < P2(FL_MAX + 2) /\ n <= m
  BY Rounded DEF MIN_PAYLOAD
<1>2. h \in 4..FL_MAX /\ h \in 4..(FL_MAX + 1) /\ SearchRound(n) = Width(h) - 1 /\ n < P2(h + 1)
  BY Rounded, NextPower, HighestBitIs, P2Laws DEF MIN_PAYLOAD
<1>3. CASE m < P2(FL_MAX + 1) /\ bin = mapping(m)
  <2>1. bin[1] \in Int /\ bin[1] + 4 \in 4..(FL_MAX + 1) /\ bin[2] \in SecondLevels
    BY <1>1, <1>3, InLevels
  <2>2. bin[1] = HighestBit(m) - 4 /\ bin[2] = m \div Width(HighestBit(m)) - SL_COUNT
    BY <1>1, <1>3, MappingInRange
  <2>3. HighestBit(m) \in 4..(FL_MAX + 1) /\ h <= HighestBit(m) /\ P2(HighestBit(m)) <= m
    BY <1>1, Level, HighestBitMonotone, HighestBitIs DEF MIN_PAYLOAD
  <2> DEFINE d == Width(HighestBit(m))
  <2>4. d \in Nat /\ d >= 1 /\ SL_COUNT \in Nat /\ d * SL_COUNT = P2(HighestBit(m))
    BY <2>3, Classes
  <2>5. m \div d \in Nat /\ m < d * (m \div d) + d
    BY <1>1, <2>4, Quotient
  <2>6. LowerBound(bin) = d * (m \div d)
    <3>1. HighestBit(m) = bin[1] + 4 /\ SL_COUNT + bin[2] = m \div d /\ bin[2] \in Int
      BY <2>2, <2>3, <2>4, <2>5 DEF SecondLevels
    <3> QED BY <2>1, <3>1, Bounds
  <2>7. CASE HighestBit(m) = h
    BY <1>2, <2>1, <2>4, <2>5, <2>6, <2>7
  <2>8. CASE h + 1 <= HighestBit(m)
    <3>1. P2(h + 1) <= P2(HighestBit(m)) /\ P2(h + 1) \in Nat
      BY <1>2, <2>3, <2>8, Classes, P2Monotone, P2Laws
    <3>2. SL_COUNT <= m \div d
      BY <1>1, <2>3, <2>4, QuotientFrom
    <3>3. d * SL_COUNT <= d * (m \div d)
      <4>1. CASE SL_COUNT = m \div d
        BY <2>4, <2>5, <4>1
      <4>2. CASE SL_COUNT < m \div d
        BY <2>4, <2>5, <4>2, Multiples
      <4> QED BY <2>4, <2>5, <3>2, <4>1, <4>2
    <3> HIDE DEF d
    <3>4. d * (m \div d) \in Nat
      BY <2>4, <2>5
    <3> QED BY <1>2, <2>1, <2>4, <2>6, <3>1, <3>3, <3>4
  <2> QED BY <1>2, <2>3, <2>7, <2>8
<1>4. CASE m >= P2(FL_MAX + 1) /\ bin = <<FL_COUNT, 0>>
  <2>1. bin[1] \in Int /\ bin[2] = 0 /\ bin[1] + 4 = FL_MAX + 1
    BY <1>4, P2Laws DEF FL_COUNT, FL_SHIFT
  <2>2. FL_MAX + 1 \in 4..(FL_MAX + 1)
    BY P2Laws
  <2>3. SL_COUNT \in Nat /\ SL_COUNT >= 1 /\ Width(FL_MAX + 1) * SL_COUNT = P2(FL_MAX + 1)
    BY <2>2, Classes
  <2>4. LowerBound(bin) = Width(FL_MAX + 1) * (SL_COUNT + 0)
    BY <2>1, <2>2, Bounds
  <2>5. LowerBound(bin) = P2(FL_MAX + 1)
    BY <2>3, <2>4
  <2> QED BY <2>1, <2>2, <2>3, <2>5, NextPower DEF SecondLevels
<1> QED BY <1>3, <1>4, SearchIs

(* tlsf.rs: "every block in the returned bin is guaranteed to be >= size",
   and so is every block in the lists behind it. *)
LEMMA Served ==
    ASSUME NEW n \in Nat, n >= MIN_PAYLOAD, n < P2(FL_MAX + 1),
           NEW s \in Nat, s >= MIN_PAYLOAD, s < P2(FL_MAX + 1),
           AtOrAfter(mapping(s), mapping_search(n))
    PROVE  n <= s
<1>1. LowerBound(mapping_search(n)) <= LowerBound(mapping(s)) /\ LowerBound(mapping(s)) \in Nat
  BY InLevels, SearchStart, Ordered
<1>2. LowerBound(mapping(s)) <= s
  BY MappingBounds
<1> QED BY <1>1, <1>2, SearchStart

(* A block as long as the request rounded up is never passed over. *)
LEMMA Missed ==
    ASSUME NEW n \in Nat, n >= MIN_PAYLOAD, n < P2(FL_MAX + 1),
           NEW s \in Nat, s < P2(FL_MAX + 1), n + SearchRound(n) <= s
    PROVE  /\ mapping_search(n)[1] < FL_COUNT
           /\ AtOrAfter(mapping(s), mapping_search(n))
<1>1. /\ n + SearchRound(n) \in Nat /\ n + SearchRound(n) >= MIN_PAYLOAD
      /\ n + SearchRound(n) < P2(FL_MAX + 1)
  BY Rounded, NextPower
<1>2. mapping_search(n) = mapping(n + SearchRound(n))
  BY <1>1, SearchIs, NextPower
<1>3. mapping(n + SearchRound(n))[1] \in FirstLevels
  BY <1>1, InLevels
<1> QED BY <1>1, <1>2, <1>3, MappingMonotone, P2Laws DEF FirstLevels, FL_COUNT, FL_SHIFT
=============================================================================
