------------------------------ MODULE SizeClass ------------------------------
(***************************************************************************)
(* Size classes (src/src/size_class.rs), the layout of the slots of a page *)
(* (src/src/slab.rs) and of the pages of the arena (src/src/arena.rs).     *)
(* Classes count from 1 here, slots from 0.                                *)
(***************************************************************************)
EXTENDS Integers, Sequences

SLAB_MAX_SIZE == 1024

SIZE_CLASSES ==
    <<8, 16, 24, 32, 48, 64, 80, 96, 112, 128, 160, 192, 224, 256,
      320, 384, 448, 512, 640, 768, 896, 1024>>

NUM_SIZE_CLASSES == Len(SIZE_CLASSES)
SizeClasses      == 1..NUM_SIZE_CLASSES

PAGE_SIZE       == 4096
PAGES_PER_ARENA == 512
META_PAGES      == 5
PAGE_META_SIZE  == 32
MAX_ALIGN       == 16
POINTER_SIZE    == 8      \* a RemoteFreeNode
NullSlot        == 65535

class_to_size(c) == SIZE_CLASSES[c]

(* SIZE_CLASS_LUT: the search stops at the first class that is not smaller. *)
size_to_class(n) ==
    CHOOSE c \in SizeClasses :
        /\ SIZE_CLASSES[c] >= n
        /\ \A d \in 1..(c - 1) : SIZE_CLASSES[d] < n

(* Mutant: the division rounds up. *)
slots_rounded_up(c) == (PAGE_SIZE + class_to_size(c) - 1) \div class_to_size(c)

slots_per_page(c) == PAGE_SIZE \div class_to_size(c)

(* Where slot i of page p is, and the way back that free() takes. *)
slot_addr(p, c, i)   == p * PAGE_SIZE + i * class_to_size(c)
page_index(addr)     == addr \div PAGE_SIZE
slot_index(addr, c)  == (addr - page_index(addr) * PAGE_SIZE) \div class_to_size(c)
=============================================================================
