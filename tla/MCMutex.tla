------------------------------- MODULE MCMutex -------------------------------
(* Instances of Mutex for TLC: three threads of different urgency, each of *)
(* which takes and releases the mutexes and sleeps.                        *)
EXTENDS Mutex

MCInitPrio == [t \in Thread |->
    CASE t = "idle" -> 3 [] t = "low" -> 2 [] t = "mid" -> 1 [] t = "high" -> 0]
MCMsgFrom == << >>
=============================================================================
