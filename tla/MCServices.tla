------------------------------ MODULE MCServices ------------------------------
(***************************************************************************)
(* The heap and the timers for TLC: two independent parts, one of which is *)
(* chosen in the initial state.                                            *)
(***************************************************************************)
EXTENDS SmallMem, Timer

VARIABLE part        \* the part of this behaviour

vars == << part, heapVars, timerVars >>

Init == part \in {"heap", "timer"} /\ HeapInit /\ TimerInit

HeapStep == part = "heap" /\ HeapNext /\ UNCHANGED << part, timerVars >>

TimerStep == part = "timer" /\ TimerNext /\ UNCHANGED << part, heapVars >>

Next == HeapStep \/ TimerStep

Spec == Init /\ [][Next]_vars /\ TimerFairness

TypeOK == HeapTypeOK /\ TimerTypeOK
=============================================================================
