-------------------------------- MODULE Mutex --------------------------------
(***************************************************************************)
(* The recursive mutex of ipc.c with priority inheritance: rt_mutex_init,  *)
(* rt_mutex_take, rt_mutex_release, rt_mutex_detach/delete                 *)
(* (rt_mutex_control does nothing).  A take that must wait lends its       *)
(* thread's priority to the owner; a release gives the owner the priority  *)
(* back that it had when it obtained the mutex, and hands the mutex to the *)
(* first waiter.  Each mutex is the name of its own wait queue.            *)
(***************************************************************************)
EXTENDS Ipc

CONSTANTS
    MutexId,     \* the mutexes
    HoldMod,     \* 2^8, mutex->hold is an rt_uint8_t
    MaxHold      \* bound on recursive takes

VARIABLES
    mutex,       \* mutex[m]: value, owner, original_priority and hold
    held         \* held[m][t]: the takes of m that have returned RT_EOK to t
                 \* and that t has not released

mutexVars == << mutex, held >>

NoOwner == Wild                   \* RT_NULL
NoPriority == NPrio               \* 0xFF

ASSUME MutexAssumption ==
    /\ MutexId \subseteq Queue /\ MutexId # {}
    /\ HoldMod \in Nat \ {0} /\ MaxHold \in 1..(HoldMod - 1)

(* rt_mutex_init and rt_mutex_create.                                      *)
FreeMutex ==
    [value |-> 1, owner |-> NoOwner, original_priority |-> NoPriority, hold |-> 0]

MutexInit ==
    /\ mutex = [m \in MutexId |-> FreeMutex]
    /\ held = [m \in MutexId |-> [t \in Thread |-> 0]]

-----------------------------------------------------------------------------
(* rt_mutex_take.                                                          *)

(* Faulty Own: the take is not counted.                                    *)
OwnUncounted(r, t, p) == [r EXCEPT !.owner = t, !.original_priority = p]

(* The owner of m becomes t, which holds it once more.                     *)
Own(r, t, p) ==
    [r EXCEPT !.owner = t, !.original_priority = p, !.hold = (@ + 1) % HoldMod]

Obtained(m, t) == held' = [held EXCEPT ![m][t] = @ + 1]

MutexTakeAgain(t, m) ==
    /\ Calls(t, Client) /\ mutex[m].owner = t /\ held[m][t] < MaxHold
    /\ ClearError(t)
    /\ mutex' = [mutex EXCEPT ![m].hold = (@ + 1) % HoldMod]
    /\ Obtained(m, t) /\ UNCHANGED << pc, wild, alive, waitVars >>

MutexTakeFree(t, m) ==
    /\ Calls(t, Client)
    /\ mutex[m].owner # t /\ mutex[m].value > 0
    /\ ClearError(t)
    /\ mutex' = [mutex EXCEPT ![m] = Own([mutex[m] EXCEPT !.value = @ - 1], t, k.prio[t])]
    /\ Obtained(m, t) /\ UNCHANGED << pc, wild, alive, waitVars >>

(* Time 0: the caller does not wait.                                       *)
MutexTakeFails(t, m) ==
    /\ Calls(t, Client)
    /\ mutex[m].owner # t /\ mutex[m].value = 0
    /\ k' = [k EXCEPT !.error[t] = "ETIMEOUT"]
    /\ UNCHANGED << pc, wild, alive, waitVars, mutexVars >>

(* Faulty Lend: no inheritance.                                            *)
LendNothing(s, t, owner) == s

Lend(s, t, owner) ==
    IF s.prio[t] < s.prio[owner] THEN ChangePriority(s, owner, s.prio[t]) ELSE s

MutexTakeBlock(t, m, w) ==
    /\ Calls(t, Client)
    /\ mutex[m].owner # t /\ mutex[m].value = 0
    /\ k' = BlockOn(Lend(k, t, mutex[m].owner), m, t, w)
    /\ WaitOn(t, m) /\ UNCHANGED << wild, alive, budget, mutexVars >>

MutexTakeReturn(t) ==
    /\ At(t, "woken")
    /\ IF k.error[t] = "EOK" THEN Obtained(want[t], t) ELSE UNCHANGED held
    /\ Return(t) /\ UNCHANGED << k, wild, alive, mutex >>

-----------------------------------------------------------------------------
(* rt_mutex_release.                                                       *)

MutexReleaseForeign(t, m) ==
    /\ Calls(t, Client) /\ mutex[m].owner # t
    /\ k' = [k EXCEPT !.error[t] = "ERROR"]
    /\ UNCHANGED << pc, wild, alive, waitVars, mutexVars >>

(* Faulty Restore: the inherited priority is kept.                         *)
RestoreNothing(s, t, p) == s

(* The owner's priority at the time of its take comes back.                *)
Restore(s, t, p) == IF s.prio[t] # p THEN ChangePriority(s, t, p) ELSE s

(* Faulty MutexReleaseLast: the mutex is freed although a thread waits.    *)
MutexReleaseToNobody(t, m) ==
    /\ k' = Restore(k, t, mutex[m].original_priority)
    /\ mutex' = [mutex EXCEPT ![m] = FreeMutex]
    /\ UNCHANGED pc

MutexReleaseLast(t, m) ==
    LET s == Restore(k, t, mutex[m].original_priority)
        r == [mutex[m] EXCEPT !.hold = 0]
        first == Head(s.wait[m])
    IN  IF s.wait[m] = << >>
        THEN /\ k' = s
             /\ mutex' = [mutex EXCEPT ![m] =
                   [r EXCEPT !.value = r.value + 1, !.owner = NoOwner,
                             !.original_priority = NoPriority]]
             /\ UNCHANGED pc
        ELSE /\ k' = ListResume(s, m)
             /\ mutex' = [mutex EXCEPT ![m] = Own(r, first, s.prio[first])]
             /\ Goto(t, "sched")

MutexRelease(t, m) ==
    /\ Calls(t, Client) /\ mutex[m].owner = t
    /\ IF mutex[m].hold = 1
       THEN MutexReleaseLast(t, m)
       ELSE /\ mutex' = [mutex EXCEPT ![m].hold = (@ - 1) % HoldMod]
            /\ UNCHANGED << k, pc >>
    /\ held' = [held EXCEPT ![m][t] = @ - 1]
    /\ UNCHANGED << wild, alive, waitVars >>

-----------------------------------------------------------------------------
(* rt_mutex_detach and rt_mutex_delete wake the waiters without looking at *)
(* the owner, and leave it with what it was lent.  The careful application *)
(* detaches a mutex that nobody owns, or that the caller owns without a    *)
(* lent priority; neither function has such a test.                        *)
MutexDetach(t, m) ==
    /\ \/ /\ FlushBegin(t, {m}) /\ Usable
          /\ CarefulFlush =>
                \/ mutex[m].owner = NoOwner
                \/ mutex[m].owner = t /\ mutex[m].original_priority = k.prio[t]
       \/ FlushLook(t, m, "flush", "flush1", "run")
       \/ FlushWake(t, m, "flush", "flush1")
    /\ UNCHANGED mutexVars

(* rt_mutex_init and rt_mutex_create.                                      *)
MutexCreate(t, m) ==
    /\ At(t, "run") /\ t \in Controllers /\ ~alive
    /\ alive' = TRUE
    /\ mutex' = [mutex EXCEPT ![m] = FreeMutex]
    /\ held' = [held EXCEPT ![m] = [u \in Thread |-> 0]]
    /\ UNCHANGED << k, pc, wild, waitVars >>

-----------------------------------------------------------------------------
MutexCall(t) ==
    \/ MutexTakeReturn(t)
    \/ \E m \in MutexId :
         \/ MutexTakeAgain(t, m) \/ MutexTakeFree(t, m) \/ MutexTakeFails(t, m)
         \/ \E w \in WaitTime : MutexTakeBlock(t, m, w)
         \/ MutexRelease(t, m) \/ MutexReleaseForeign(t, m)
         \/ MutexDetach(t, m) \/ MutexCreate(t, m)

MutexNext ==
    \/ \E t \in Thread : MutexCall(t)
    \/ (ThreadStep \/ Sleep) /\ UNCHANGED mutexVars

MutexSpec == IpcInit /\ MutexInit /\ [][MutexNext]_<<ipcVars, mutexVars>>

-----------------------------------------------------------------------------
(* Properties.                                                             *)

MutexTypeOK ==
    /\ mutex \in [MutexId -> [value: 0..1, owner: Thread \cup {NoOwner},
                              original_priority: Prio \cup {NoPriority},
                              hold: 0..(HoldMod - 1)]]
    /\ held \in [MutexId -> [Thread -> Nat]]

(* Mutual exclusion: a thread to which rt_mutex_take has returned RT_EOK,  *)
(* and that has not released as often, is the owner and the only holder,   *)
(* and hold counts its takes.  The one thread the mutex was handed to      *)
(* already owns it before its call returns.                                *)
OwnerExact ==
    \A m \in MutexId, t \in Thread :
        /\ held[m][t] > 0 => mutex[m].owner = t /\ mutex[m].hold = held[m][t]
        /\ mutex[m].owner = t /\ held[m][t] = 0 =>
              want[t] = m /\ t \in Granted(m) /\ mutex[m].hold = 1

(* No thread waits for a mutex nobody owns.                                *)
NobodyWaitsForFree ==
    \A m \in MutexId :
        /\ mutex[m].value = 1 <=> mutex[m].owner = NoOwner
        /\ mutex[m].value = 1 => k.wait[m] = << >>

(* "Mutex objects use inherited priority to prevent priority reversion":   *)
(* while a thread waits for a mutex whose owner could run, the processor   *)
(* is with the owner or with a thread at least as urgent as the waiter.    *)
NoPriorityReversion ==
    \A m \in MutexId, t \in Thread :
        LET o == mutex[m].owner
        IN  Blocked(m, t) /\ k.stat[o] = "READY" /\ ~k.isr /\ pc[k.cur] = "run"
              => k.cur = o \/ k.prio[k.cur] <= k.prio[t]

(* A thread that owns no mutex has its own priority again.                 *)
PriorityRestored ==
    \A t \in Thread :
        (\A m \in MutexId : mutex[m].owner # t) => k.prio[t] = InitPrio[t]

(* Full preemption: outside kernel calls no ready thread is more urgent    *)
(* than the running one.                                                   *)
FullyPreemptive ==
    ~k.isr /\ pc[k.cur] = "run" => \A p \in k.group : k.prio[k.cur] <= p
=============================================================================
