-------------------------------- MODULE Event --------------------------------
(***************************************************************************)
(* The event object of ipc.c: a set of bits.  A receiver waits for all     *)
(* (AND) or for any (OR) of a set of bits and may clear what it received;  *)
(* a send walks the waiters in order and lets each see what the ones       *)
(* before it have left.                                                    *)
(***************************************************************************)
EXTENDS Ipc

CONSTANTS
    EventBit,    \* the bits the threads use
    Request      \* the requests receivers make: a set of bits, all or any
                 \* of them, and whether to clear what is received

VARIABLES
    event,       \* event->set, the set of its one bits
    info         \* thread->event_set and event_info while the thread waits

eventVars == << event, info >>
NoInfo == [set |-> {}, op |-> "OR", clear |-> FALSE]

ASSUME EventAssumption ==
    /\ "ev" \in Queue
    /\ Request \subseteq
         [set: (SUBSET EventBit) \ {{}}, op: {"AND", "OR"}, clear: BOOLEAN]

EventInit == event = {} /\ info = [t \in Thread |-> NoInfo]

Satisfied(set, r) ==
    IF r.op = "AND" THEN r.set \subseteq set ELSE r.set \cap set # {}

-----------------------------------------------------------------------------
(* rt_event_send.  One waiter of the walk: a.set is event->set so far, a.k *)
(* the kernel with the threads resumed so far.                             *)

(* Faulty Visit: what is received is not cleared.                          *)
VisitKeep(a, t) ==
    IF ~Satisfied(a.set, a.info[t])
    THEN a
    ELSE [a EXCEPT !.info[t].set = @ \cap a.set, !.k = Resume(a.k, t)]

(* Faulty Visit: the walk ends with the first thread it wakes.             *)
VisitOne(a, t) ==
    IF ~Satisfied(a.set, a.info[t]) \/ a.k # k
    THEN a
    ELSE [a EXCEPT !.info[t].set = @ \cap a.set, !.k = Resume(a.k, t),
                   !.set = IF a.info[t].clear THEN @ \ a.info[t].set ELSE @]

Visit(a, t) ==
    IF ~Satisfied(a.set, a.info[t])
    THEN a
    ELSE LET got == a.info[t].set \cap a.set
         IN  [k |-> Resume(a.k, t),
              set |-> IF a.info[t].clear THEN a.set \ got ELSE a.set,
              info |-> [a.info EXCEPT ![t].set = got]]

Walk(S) ==
    LET waiters == k.wait["ev"]
        after[i \in 0..Len(waiters)] ==
          IF i = 0 THEN [k |-> k, set |-> event \cup S, info |-> info]
                   ELSE Visit(after[i - 1], waiters[i])
    IN  after[Len(waiters)]

EventSend(t, S) ==
    /\ Calls(t, Producers)
    /\ LET a == Walk(S)
       IN  /\ k' = a.k /\ event' = a.set /\ info' = a.info
           /\ Goto(t, IF a.k = k THEN "run" ELSE "sched")
    /\ UNCHANGED << wild, alive, waitVars >>

EventSendFromIsr(S) ==
    /\ ~k.isr /\ Usable
    /\ LET a == Walk(S)
       IN  /\ k' = IF a.k = k THEN k ELSE Schedule(a.k)
           /\ event' = a.set /\ info' = a.info
    /\ UNCHANGED << pc, wild, alive, waitVars >>

-----------------------------------------------------------------------------
(* rt_event_recv.                                                          *)

EventTake(t, r) ==
    /\ Calls(t, Consumers) /\ Satisfied(event, r)
    /\ ClearError(t)
    /\ event' = IF r.clear THEN event \ r.set ELSE event
    /\ UNCHANGED << pc, wild, alive, waitVars, info >>

(* Time 0: the caller does not wait.                                       *)
EventTry(t, r) ==
    /\ Calls(t, Consumers) /\ ~Satisfied(event, r)
    /\ k' = [k EXCEPT !.error[t] = "ETIMEOUT"]
    /\ UNCHANGED << pc, wild, alive, waitVars, eventVars >>

EventBlock(t, r, w) ==
    /\ Calls(t, Consumers) /\ ~Satisfied(event, r)
    /\ k' = BlockOn(k, "ev", t, w) /\ info' = [info EXCEPT ![t] = r]
    /\ WaitOn(t, "ev") /\ UNCHANGED << wild, alive, budget, event >>

EventReturn(t) ==
    /\ At(t, "woken")
    /\ info' = [info EXCEPT ![t] = NoInfo]
    /\ Return(t) /\ UNCHANGED << k, wild, alive, event >>

-----------------------------------------------------------------------------
(* rt_event_control, RT_IPC_CMD_RESET.                                     *)
EventReset(t) ==
    /\ Calls(t, Controllers)
    /\ k' = ResumeAll(k, "ev") /\ event' = {}
    /\ Goto(t, "sched") /\ UNCHANGED << wild, alive, waitVars, info >>

(* rt_event_detach and rt_event_delete.                                    *)
EventDetach(t) ==
    /\ \/ FlushBegin(t, {"ev"}) /\ Usable
       \/ FlushLook(t, "ev", "flush", "flush1", "run")
       \/ FlushWake(t, "ev", "flush", "flush1")
    /\ UNCHANGED eventVars

(* rt_event_init and rt_event_create.                                      *)
EventCreate(t) ==
    /\ At(t, "run") /\ t \in Controllers /\ ~alive
    /\ alive' = TRUE /\ event' = {}
    /\ UNCHANGED << k, pc, wild, waitVars, info >>

-----------------------------------------------------------------------------
EventCall(t) ==
    \/ \E r \in Request : EventTake(t, r) \/ EventTry(t, r)
    \/ \E r \in Request, w \in WaitTime : EventBlock(t, r, w)
    \/ \E S \in (SUBSET EventBit) \ {{}} : EventSend(t, S)
    \/ EventReturn(t) \/ EventReset(t) \/ EventDetach(t) \/ EventCreate(t)

EventNext ==
    \/ \E t \in Thread : EventCall(t)
    \/ \E S \in (SUBSET EventBit) \ {{}} : EventSendFromIsr(S)
    \/ (ThreadStep \/ Sleep) /\ UNCHANGED eventVars

EventSpec == IpcInit /\ EventInit /\ [][EventNext]_<<ipcVars, eventVars>>

-----------------------------------------------------------------------------
(* Properties.                                                             *)

EventTypeOK ==
    /\ event \subseteq EventBit
    /\ info \in [Thread -> [set: SUBSET EventBit, op: {"AND", "OR"}, clear: BOOLEAN]]

(* Nobody waits for what has happened: whatever the waiters before it took *)
(* and cleared, the condition of a thread that still waits does not hold.  *)
EventNobodyStuck ==
    \A t \in Thread : Blocked("ev", t) => ~Satisfied(event, info[t])

(* A bit that a waiter receives and clears is not received by a waiter     *)
(* behind it in the same send.                                             *)
Ahead(t, u) ==
    \E i, j \in DOMAIN k.wait["ev"] :
        i < j /\ k.wait["ev"][i] = t /\ k.wait["ev"][j] = u

EventClearedOnce ==
    [][\A t, u \in Thread :
          /\ Ahead(t, u) /\ info[t].clear
          /\ {t, u} \subseteq Granted("ev")'
          => info'[t].set \cap info'[u].set = {}]_<<ipcVars, eventVars>>
=============================================================================
