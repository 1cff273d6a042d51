---------------------------- MODULE MCThreadCache ----------------------------
EXTENDS ThreadCacheProps, TLC

CONSTANT MaxAttempts      \* bound on the ids that attempts to create a cache consume

MCCaches   == Threads \cup {GlobalSlab}
MCSlotsOf  == [c \in Classes |-> IF c = 0 THEN MaxSlots ELSE 2]
MCSymmetry == Permutations(Threads)

AttemptsBound == next_id <= MaxAttempts

(* Callers one at a time: no call starts while another is in progress. *)
OneCallAtATime ==
    \A t, u \in Threads : t # u => "idle" \in {pc'[t], pc'[u]}
=============================================================================
