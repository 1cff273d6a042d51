----------------------------- MODULE TlsfMapping -----------------------------
(***************************************************************************)
(* The two-level mapping of the TLSF allocator (src/src/tlsf.rs): from the *)
(* size of a block, in bytes, to the free list it belongs to, and from the *)
(* size of a request to the first list whose every block can serve it.     *)
(***************************************************************************)
EXTENDS Integers

CONSTANTS
    SL_LOG2,   \* log2 of the number of second-level lists
    FL_MAX     \* log2 of the largest first-level class

ALIGN       == 16
HEADER_SIZE == 16
MIN_PAYLOAD == 16
FL_SHIFT    == 4

ASSUME TlsfMappingAssumption ==
    /\ SL_LOG2 \in 1..FL_SHIFT
    /\ FL_MAX \in Int
    /\ FL_MAX >= FL_SHIFT

(* What the powers of two are, as far as the sizes reach: the provers have
   no law of exponentiation of their own. *)
ASSUME PowersOfTwo ==
    /\ 2^0 = 1
    /\ \A k \in 0..(FL_MAX + 2) : 2^k \in Nat /\ 2^(k + 1) = 2 * 2^k

SL_COUNT == 2^SL_LOG2
FL_COUNT == FL_MAX - FL_SHIFT + 1

FirstLevels  == 0..(FL_COUNT - 1)
SecondLevels == 0..(SL_COUNT - 1)

(* The position of the highest bit: usize::BITS - 1 - leading_zeros.  No
   size reaches two classes beyond the largest. *)
HighestBit(n) == CHOOSE k \in 0..(FL_MAX + 1) : 2^k <= n /\ n < 2^(k + 1)

(* Mutant: the second level rounds up. *)
SecondLevelUp(n, fl) == (n + 2^(fl - SL_LOG2) - 1) \div 2^(fl - SL_LOG2) - SL_COUNT

(* size >> (fl - SL_LOG2), with the bit that says SL_COUNT flipped off. *)
SecondLevel(n, fl) == n \div 2^(fl - SL_LOG2) - SL_COUNT

mapping(n) ==
    LET fl == HighestBit(n) IN <<fl - FL_SHIFT, SecondLevel(n, fl)>>

(* What mapping_search adds to reach the next boundary of a list. *)
SearchRound(n) == 2^(HighestBit(n) - SL_LOG2) - 1

(* Mutant: the request is not rounded up. *)
mapping_search_down(n) == mapping(n)

mapping_search(n) ==
    LET size2 == n + SearchRound(n)
        fl2   == HighestBit(size2) IN
    IF fl2 > FL_MAX THEN <<FL_COUNT, 0>> ELSE <<fl2 - FL_SHIFT, SecondLevel(size2, fl2)>>

(* Mutant: the size is rounded down. *)
align_down_size(n) == (n \div ALIGN) * ALIGN

align_up_size(n) == ((n + ALIGN - 1) \div ALIGN) * ALIGN

(* The sizes a list is for: from its lower to below its upper bound. *)
LowerBound(bin) == (SL_COUNT + bin[2]) * 2^(bin[1] + FL_SHIFT - SL_LOG2)
UpperBound(bin) == (SL_COUNT + bin[2] + 1) * 2^(bin[1] + FL_SHIFT - SL_LOG2)

(* The order in which find_suitable tries the lists. *)
AtOrAfter(bin, start) ==
    bin[1] > start[1] \/ (bin[1] = start[1] /\ bin[2] >= start[2])
=============================================================================
