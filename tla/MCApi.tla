-------------------------------- MODULE MCApi --------------------------------
EXTENDS ApiInv

MCOsPages == 1..12
MCBases == {1, 7}

(* Callers one at a time: no step leaves two threads inside a call. *)
InCall(t) == pc[t] \notin {"idle", "crashed", "ended"}
OneCallAtATime == \A t, u \in Threads : t # u => ~InCall(t)' \/ ~InCall(u)'
=============================================================================
