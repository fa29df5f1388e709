---------------------------- MODULE MCThreadSched ----------------------------
(* Instances of ThreadSched for TLC: the idle thread, the manager "main",  *)
(* a worker "w" of the manager's priority and a more urgent thread "s".    *)
EXTENDS ThreadSched

MCInitPrio == [t \in Thread |->
    CASE t = "idle" -> 2 [] t = "main" -> 1 [] t = "w" -> 1 [] t = "s" -> 0]
=============================================================================
