-------------------------------- MODULE Heap --------------------------------
(***************************************************************************)
(* What an allocator of variable-size blocks promises: a block handed out  *)
(* lies inside the pool, is as long as was asked and shares no byte with   *)
(* any block still held; a block given back is gone.                       *)
(***************************************************************************)
EXTENDS Integers

CONSTANT Pool        \* the addresses that may be handed out

VARIABLE blocks      \* the blocks held: <<address, length asked for, length>>

Bytes(b) == b[1]..(b[1] + b[3] - 1)

Init == blocks = {}

(* What is new is one block that fits and overlaps none. *)
Malloc ==
    \E b \in blocks' \ blocks :
        /\ b[2] <= b[3]
        /\ Bytes(b) \subseteq Pool
        /\ \A held \in blocks : Bytes(held) \cap Bytes(b) = {}
        /\ blocks' = blocks \cup {b}

Free == \E b \in blocks : blocks' = blocks \ {b}

Next == Malloc \/ Free

Spec == Init /\ [][Next]_blocks
=============================================================================
