-------------------------------- MODULE MCIpc --------------------------------
(***************************************************************************)
(* The kernel objects for TLC: threads of three urgencies and the idle     *)
(* thread use one object, whose kind is chosen in the initial state, so    *)
(* that one run covers every kind with the same threads, times and flag.   *)
(***************************************************************************)
EXTENDS Sem, Mutex, Mailbox, MsgQueue, Event, MemPool

CONSTANT Kinds       \* the kinds of objects the run covers

VARIABLE kind        \* the object of this behaviour

vars ==
    << kind, ipcVars, semVars, mutexVars, mailVars, mqVars, eventVars, poolVars >>

MCInitPrio == [t \in Thread |->
    CASE t = "idle" -> 3 [] t = "low" -> 2 [] t = "mid" -> 1 [] t = "high" -> 0]

MCMsgFrom == [t \in Producers |-> IF t = "low" THEN "a" ELSE "b"]

MCRequest ==
    {[set |-> {1}, op |-> "OR", clear |-> TRUE],
     [set |-> {1, 2}, op |-> "AND", clear |-> TRUE],
     [set |-> {1, 2}, op |-> "OR", clear |-> TRUE],
     [set |-> {1, 2}, op |-> "OR", clear |-> FALSE]}

Init ==
    /\ kind \in Kinds /\ IpcInit
    /\ SemInit /\ MutexInit /\ MailInit /\ MqInit /\ EventInit /\ PoolInit

Only(o) ==
    /\ kind = o /\ UNCHANGED kind
    /\ o # "sem" => UNCHANGED semVars
    /\ o # "mutex" => UNCHANGED mutexVars
    /\ o # "mail" => UNCHANGED mailVars
    /\ o # "mq" => UNCHANGED mqVars
    /\ o # "event" => UNCHANGED eventVars
    /\ o # "pool" => UNCHANGED poolVars

Next ==
    \/ Only("sem") /\ SemNext
    \/ Only("mutex") /\ MutexNext
    \/ Only("mail") /\ MailNext
    \/ Only("mq") /\ MqNext
    \/ Only("event") /\ EventNext
    \/ Only("pool") /\ PoolNext

Spec == Init /\ [][Next]_vars

(* The clock ticks and its interrupt runs to its end.                      *)
FairSpec == Spec /\ IpcFairness

TypeOK ==
    /\ IpcTypeOK
    /\ SemTypeOK /\ MutexTypeOK /\ MailTypeOK /\ MqTypeOK /\ EventTypeOK /\ PoolTypeOK
=============================================================================
