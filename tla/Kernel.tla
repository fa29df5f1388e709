------------------------------- MODULE Kernel -------------------------------
(***************************************************************************)
(* The state every part of the RT-Thread kernel shares - threads, ready    *)
(* queues, wait queues, thread timers, the scheduler lock - as ONE record  *)
(* k, and the kernel's internal functions as operators from such a record  *)
(* to the next.  An operator stands for a C function running with          *)
(* interrupts disabled; the modules that EXTEND this one decide where the  *)
(* interrupt-disabled sections of a call begin and end, and so what may    *)
(* interleave.  Definitions called faulty are mutations: each property is  *)
(* tested against one of them (PROJECT.json), and no specification uses it.*)
(*                                                                         *)
(*   k.stat[t]  thread->stat ("NONE": no such object exists)               *)
(*   k.prio[t]  thread->current_priority, 0 is the most urgent             *)
(*   k.mask[t]  thread->number_mask, the set of its one bits               *)
(*   k.error[t] thread->error                                              *)
(*   k.slice[t] thread->remaining_tick                                     *)
(*   k.rdy[p]   rt_thread_priority_table[p]                                *)
(*   k.group    rt_thread_ready_priority_group, the set of its one bits    *)
(*   k.wait[q]  the other lists a thread's tlist may be linked in          *)
(*   k.timers   rt_timer_list: the threads whose thread_timer is linked    *)
(*   k.left[t]  thread_timer.timeout_tick - rt_tick, never below 0         *)
(*   k.cur      rt_current_thread                                          *)
(*   k.nest     rt_scheduler_lock_nest                                     *)
(*   k.isr      the tick interrupt is inside rt_timer_check                *)
(*   k.owed     history: a priority was changed, or a thread made ready,   *)
(*              by a call that does not call rt_schedule, and no           *)
(*              rt_schedule has looked at the ready queues since           *)
(***************************************************************************)
EXTENDS Integers, Sequences, SequencesExt

CONSTANTS
    Thread,      \* thread control blocks
    Idle,        \* the idle thread "tidle"
    Wild,        \* what rt_list_entry yields on an empty list
    NPrio,       \* RT_THREAD_PRIORITY_MAX
    Slice,       \* init_tick of every thread, the round-robin time slice
    Queue        \* wait queues, and the list rt_thread_defunct

Prio == 0..(NPrio - 1)
Stat == {"NONE", "INIT", "READY", "SUSPEND", "CLOSE"}
Errno == {"EOK", "ETIMEOUT", "ERROR"}

ASSUME KernelAssumption ==
    /\ Idle \in Thread
    /\ Wild \notin Thread
    /\ NPrio \in Nat \ {0}
    /\ Slice \in Nat \ {0}

KernelType ==
    [stat: [Thread -> Stat], prio: [Thread -> Prio],
     mask: [Thread -> SUBSET Prio], error: [Thread -> Errno],
     slice: [Thread -> 1..Slice], rdy: [Prio -> Seq(Thread)],
     group: SUBSET Prio, wait: [Queue -> Seq(Thread)],
     timers: Seq(Thread), left: [Thread -> Nat],
     cur: Thread \cup {Wild}, nest: Nat, isr: BOOLEAN, owed: BOOLEAN]

-----------------------------------------------------------------------------
(* Lists.                                                                  *)

(* Walk the list and link e before the first of the nodes at positions I,  *)
(* at the tail when there is none.                                         *)
InsertBefore(s, e, I) ==
    IF I = {} THEN Append(s, e) ELSE InsertAt(s, Min(I), e)

(* The list without e's node.                                              *)
Without(s, e) ==
    IF Contains(s, e)
    THEN RemoveAt(s, CHOOSE i \in 1..Len(s) : s[i] = e)
    ELSE s

(* rt_list_remove(&thread->tlist): the node leaves whatever list it is on. *)
Unlink(k, t) ==
    [k EXCEPT !.rdy  = [p \in Prio |-> Without(k.rdy[p], t)],
              !.wait = [q \in Queue |-> Without(k.wait[q], t)]]

(* rt_list_insert_after(&list, &thread->tlist): t becomes the head.        *)
LinkFirst(k, q, t) == [k EXCEPT !.wait[q] = <<t>> \o @]

-----------------------------------------------------------------------------
(* Ready queues and the scheduler.                                         *)

InsertThread(k, t) ==
    [k EXCEPT !.stat[t] = "READY",
              !.rdy[k.prio[t]] = Append(@, t),
              !.group = @ \cup k.mask[t]]

(* Faulty RemoveThread: the group bit is never cleared.                    *)
RemoveKeepBit(k, t) == Unlink(k, t)

RemoveThread(k, t) ==
    LET u == Unlink(k, t)
    IN  [u EXCEPT !.group =
            IF u.rdy[k.prio[t]] = << >> THEN @ \ k.mask[t] ELSE @]

(* The head of the list the lowest bit of the group names.  No bit, or the *)
(* bit of an empty list, makes rt_list_entry return a pointer to no thread.*)
Highest(k) ==
    IF k.group = {} \/ k.rdy[Min(k.group)] = << >>
    THEN Wild
    ELSE Head(k.rdy[Min(k.group)])

(* Faulty Schedule: the lock is ignored.                                   *)
ScheduleUnlocked(k) == [k EXCEPT !.cur = Highest(k), !.owed = FALSE]

Schedule(k) ==
    IF k.nest = 0
    THEN [k EXCEPT !.cur = Highest(k), !.owed = FALSE]
    ELSE k

EnterCritical(k) == [k EXCEPT !.nest = @ + 1]

(* The first half of rt_exit_critical; rt_schedule follows at level 0.     *)
ExitCritical(k) == [k EXCEPT !.nest = IF @ <= 1 THEN 0 ELSE @ - 1]

-----------------------------------------------------------------------------
(* Thread timers.  The list is ordered by expiry, equal expiries in order  *)
(* of insertion.                                                           *)

TimerStop(k, t) ==
    [k EXCEPT !.timers = Without(@, t), !.left[t] = 0]

TimerStart(k, t, d) ==
    IF Contains(k.timers, t)
    THEN k
    ELSE [k EXCEPT !.timers = InsertBefore(@, t, {i \in 1..Len(@) : k.left[@[i]] > d}),
                   !.left[t] = d]

-----------------------------------------------------------------------------
(* Thread operations.                                                      *)

(* rt_thread_suspend is one interrupt-disabled section after its check.    *)
SuspendSection(k, t) == RemoveThread([k EXCEPT !.stat[t] = "SUSPEND"], t)

Suspend(k, t) == IF k.stat[t] # "READY" THEN k ELSE SuspendSection(k, t)

(* Faulty ResumeUnlink: the thread's timer keeps running.                  *)
ResumeKeepTimer(k, t) == Unlink(k, t)

(* rt_thread_resume is two interrupt-disabled sections after its check:    *)
(* the thread leaves its wait queue and its timer is stopped, then it is   *)
(* inserted in the ready queue.                                            *)
ResumeUnlink(k, t) == TimerStop(Unlink(k, t), t)

Resume(k, t) ==
    IF k.stat[t] # "SUSPEND"
    THEN k
    ELSE InsertThread(ResumeUnlink(k, t), t)

SetPriority(k, t, p) == [k EXCEPT !.prio[t] = p, !.mask[t] = {p}]

(* Faulty ChangePriority: a ready thread stays in its old list.            *)
ChangeInPlace(k, t, p) == [SetPriority(k, t, p) EXCEPT !.owed = TRUE]

ChangePriority(k, t, p) ==
    [IF k.stat[t] = "READY"
     THEN InsertThread(SetPriority(RemoveThread(k, t), t, p), t)
     ELSE SetPriority(k, t, p)
     EXCEPT !.owed = TRUE]

(* The section of rt_thread_exit.                                          *)
Close(k, t) == TimerStop([RemoveThread(k, t) EXCEPT !.stat[t] = "CLOSE"], t)

(* Faulty Timeout: no rt_schedule.                                         *)
TimeoutQuiet(k, t) ==
    InsertThread(Unlink([k EXCEPT !.error[t] = "ETIMEOUT"], t), t)

(* The thread timer's callback, called by rt_timer_check.                  *)
Timeout(k, t) ==
    LET u == [k EXCEPT !.error[t] = "ETIMEOUT"]
    IN  Schedule(InsertThread(Unlink(u, t), t))

(* rt_thread_yield before its rt_schedule: a READY thread that shares its  *)
(* list (tlist.next # tlist.prev) goes to the tail.                        *)
MustYield(k) ==
    /\ k.stat[k.cur] = "READY"
    /\ Len(k.rdy[k.prio[k.cur]]) > 1

(* Faulty YieldMove: linked again without being unlinked.                  *)
YieldTwice(k) == [k EXCEPT !.rdy[k.prio[k.cur]] = Append(@, k.cur)]

YieldMove(k) ==
    [Unlink(k, k.cur) EXCEPT !.rdy[k.prio[k.cur]] = Append(@, k.cur)]

-----------------------------------------------------------------------------
(* IPC wait queues.                                                        *)

(* Faulty ListSuspend: the flag is ignored.                                *)
ListSuspendFifo(k, q, t, flag) == [Suspend(k, t) EXCEPT !.wait[q] = Append(@, t)]

ListSuspend(k, q, t, flag) ==
    LET s == Suspend(k, t)
    IN  IF flag = "FIFO"
        THEN [s EXCEPT !.wait[q] = Append(@, t)]
        ELSE [s EXCEPT !.wait[q] =
                InsertBefore(@, t, {i \in 1..Len(@) : s.prio[t] < s.prio[@[i]]})]

ListResume(k, q) == Resume(k, Head(k.wait[q]))

-----------------------------------------------------------------------------
(* The clock interrupt: rt_tick_increase charges the tick to the running   *)
(* thread, yields when its slice is used up, and enters rt_timer_check,    *)
(* which pops the expired timers one by one (TimerExpire) until the head   *)
(* of the list lies in the future (TimerCheckDone).                        *)

(* Faulty TickIncrease: the slice is not reloaded, and it never yields.    *)
Elapse(k) == [t \in Thread |-> IF k.left[t] > 0 THEN k.left[t] - 1 ELSE 0]
TickNoReload(k) == [k EXCEPT !.slice[k.cur] = @ - 1, !.left = Elapse(k), !.isr = TRUE]
TickNoYield(k) ==
    [k EXCEPT !.slice[k.cur] = IF @ = 1 THEN Slice ELSE @ - 1, !.left = Elapse(k),
              !.isr = TRUE]

TickIncrease(k) ==
    LET used == k.slice[k.cur] = 1
        s == [k EXCEPT !.slice[k.cur] = IF used THEN Slice ELSE @ - 1,
                       !.left = [t \in Thread |->
                                   IF k.left[t] > 0 THEN k.left[t] - 1 ELSE 0],
                       !.isr = TRUE]
    IN  IF used /\ MustYield(s) THEN Schedule(YieldMove(s)) ELSE s

(* Faulty HeadExpired: a timer that expires now is left for later.         *)
HeadExpiredLate(k) == k.timers # << >> /\ k.left[Head(k.timers)] < 0

HeadExpired(k) == k.timers # << >> /\ k.left[Head(k.timers)] = 0

(* Faulty TimerExpire: the timer stays linked.                             *)
TimerExpireKeep(k) == Timeout(k, Head(k.timers))

TimerExpire(k) == Timeout(TimerStop(k, Head(k.timers)), Head(k.timers))

TimerCheckDone(k) == [k EXCEPT !.isr = FALSE]

-----------------------------------------------------------------------------
(* What the kernel's state owes its users.                                 *)

(* The bitmap rt_schedule searches has the bit of a priority exactly when  *)
(* that priority's list has a thread.                                      *)
GroupExact(k) == \A p \in Prio : p \in k.group <=> k.rdy[p] # << >>

(* No list holds a thread twice.                                           *)
NoRepeat(s) == \A i, j \in DOMAIN s : s[i] = s[j] => i = j

ListsExact(k) ==
    /\ \A p \in Prio : NoRepeat(k.rdy[p])
    /\ \A q \in Queue : NoRepeat(k.wait[q])
    /\ NoRepeat(k.timers)

(* A thread's only list node: the READY threads, but for those in D, are   *)
(* linked in the list of their priority, the others in no ready list, and  *)
(* what is READY or in D is in no wait queue.                              *)
LinksExact(k, D) ==
    \A t \in Thread :
        /\ \A p \in Prio : Contains(k.rdy[p], t) <=>
              k.stat[t] = "READY" /\ k.prio[t] = p /\ t \notin D
        /\ \A q \in Queue :
              Contains(k.wait[q], t) => k.stat[t] # "READY" /\ t \notin D

(* A started thread's mask names its priority, and a running thread timer  *)
(* belongs to a suspended thread.                                          *)
MasksExact(k) ==
    \A t \in Thread :
        k.stat[t] \in {"READY", "SUSPEND"} => k.mask[t] = {k.prio[t]}

TimersExact(k) ==
    \A t \in Thread : Contains(k.timers, t) => k.stat[t] = "SUSPEND"

KernelInv(k, D) ==
    /\ k \in KernelType
    /\ GroupExact(k)
    /\ ListsExact(k)
    /\ LinksExact(k, D)
    /\ MasksExact(k)
    /\ TimersExact(k)

-----------------------------------------------------------------------------
(* A system that has just left rt_system_scheduler_start with the threads  *)
(* of S started: each linked in the list of its priority.                  *)
Boot(S, prio) ==
    LET rdy == [p \in Prio |-> SetToSeq({t \in S : prio[t] = p})]
        group == {prio[t] : t \in S}
    IN  [stat   |-> [t \in Thread |-> IF t \in S THEN "READY" ELSE "NONE"],
         prio   |-> prio,
         mask   |-> [t \in Thread |-> IF t \in S THEN {prio[t]} ELSE {}],
         error  |-> [t \in Thread |-> "EOK"],
         slice  |-> [t \in Thread |-> Slice],
         rdy    |-> rdy,
         group  |-> group,
         wait   |-> [q \in Queue |-> << >>],
         timers |-> << >>,
         left   |-> [t \in Thread |-> 0],
         cur    |-> Head(rdy[Min(group)]),
         nest   |-> 0, isr |-> FALSE, owed |-> FALSE]
=============================================================================
