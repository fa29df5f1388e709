--------------------------------- MODULE Ipc ---------------------------------
(***************************************************************************)
(* What the IPC objects of ipc.c have in common: started threads that run, *)
(* sleep and block on wait queues, the clock interrupt that times them     *)
(* out, and the three helpers every object uses - rt_ipc_list_suspend and  *)
(* rt_ipc_list_resume (ListSuspend and ListResume of module Kernel) and    *)
(* rt_ipc_list_resume_all.  The modules that EXTEND this one add an object *)
(* and its calls; an action here says nothing of their variables.          *)
(*                                                                         *)
(* A call that blocks is three steps: its interrupt-disabled section       *)
(* ("run" to "block"), its rt_schedule ("block" to "woken"), and, when the *)
(* thread has the processor again, its look at thread->error ("woken" to   *)
(* "run").  No thread here locks the scheduler: k.nest stays 0.            *)
(***************************************************************************)
EXTENDS Kernel

CONSTANTS
    InitPrio,    \* the priority of each thread
    Sleepers,    \* threads that call rt_thread_delay
    MaxDelay,    \* the longest delay in ticks
    MaxWait,     \* the longest waiting time in ticks
    Flag,        \* "FIFO" or "PRIO", the flag of the objects
    CarefulFlush,\* an object is detached or deleted only when the waits on
                 \* it have no time limit, and is left alone meanwhile; a
                 \* mutex, only by its owner or when nobody owns it
    Consumers,   \* threads that take from a semaphore, or receive
    Producers,   \* threads that release, send or free
    Controllers, \* threads that reset, detach and initialise the object
    Msg,         \* messages, for the objects that carry some
    MsgFrom,     \* the message each producer sends
    IsrMsg,      \* the message an interrupt handler sends
    Watched      \* the threads whose timed waits TimedWaitEnds follows

VARIABLES
    k,           \* the kernel's state
    pc,          \* where each thread stands in a kernel call
    wild,        \* rt_list_entry has been applied to an empty list
    alive,       \* the object is initialised
    want,        \* the queue each thread's call waits on, or None
    budget       \* the variable timeout of a call that waits in a loop: what
                 \* is left of its waiting time now

waitVars == << want, budget >>
ipcVars == << k, pc, wild, alive, want, budget >>

Forever == -1                     \* RT_WAITING_FOREVER
None == "none"
WaitTime == {Forever} \cup 1..MaxWait

(* Outside a call, or past the last use a call makes of its object; in a   *)
(* wait; inside a call that detaches an object; with a message in hand.    *)
Outside == {"run", "sleep", "wake", "sched"}
Waiting == {"block", "woken"}
Flushes == {"flush", "flush1", "flush2", "flush3"}
Carrying == {"fill", "link", "ufill", "ulink", "copy", "give"}

ASSUME IpcAssumption ==
    /\ IsFiniteSet(Thread)
    /\ InitPrio \in [Thread -> Prio]
    /\ InitPrio[Idle] = NPrio - 1
    /\ \A t \in Thread \ {Idle} : InitPrio[t] < NPrio - 1
    /\ Sleepers \subseteq Thread \ {Idle}
    /\ None \notin Queue
    /\ MaxDelay \in Nat /\ MaxWait \in Nat
    /\ Flag \in {"FIFO", "PRIO"}
    /\ CarefulFlush \in BOOLEAN
    /\ Consumers \cup Producers \cup Controllers \subseteq Thread \ {Idle}
    /\ Watched \subseteq Thread /\ None \notin Msg
    /\ MsgFrom \in [Producers -> Msg] /\ IsrMsg \in Msg

Client == Thread \ {Idle}

IpcInit ==
    /\ k = Boot(Thread, InitPrio)
    /\ pc = [t \in Thread |-> "run"]
    /\ wild = FALSE
    /\ alive = TRUE
    /\ want = [t \in Thread |-> None]
    /\ budget = [t \in Thread |-> Forever]

Running(t) == k.cur = t /\ ~k.isr
At(t, l) == Running(t) /\ pc[t] = l
Goto(t, l) == pc' = [pc EXCEPT ![t] = l]

-----------------------------------------------------------------------------
(* Sleeping, and the rt_schedule that ends a section.                      *)

Delay(t, d) ==
    /\ At(t, "run") /\ t \in Sleepers
    /\ k' = TimerStart(Suspend(k, t), t, d)
    /\ Goto(t, "sleep") /\ UNCHANGED << wild, alive, waitVars >>

CallSchedule(t) ==
    /\ \/ At(t, "sleep") /\ Goto(t, "wake")
       \/ At(t, "block") /\ Goto(t, "woken")
       \/ At(t, "sched") /\ Goto(t, "run")
    /\ k' = Schedule(k)
    /\ UNCHANGED << wild, alive, waitVars >>

Wake(t) ==
    /\ At(t, "wake")
    /\ k' = [k EXCEPT !.error[t] = IF @ = "ETIMEOUT" THEN "EOK" ELSE @]
    /\ Goto(t, "run") /\ UNCHANGED << wild, alive, waitVars >>

(* The clock interrupt.                                                    *)
Tick ==
    /\ ~k.isr /\ k.cur \in Thread
    /\ k' = TickIncrease(k)
    /\ budget' = [t \in Thread |-> IF budget[t] > 0 THEN budget[t] - 1 ELSE budget[t]]
    /\ UNCHANGED << pc, wild, alive, want >>

TimerCheck ==
    /\ k.isr
    /\ k' = IF HeadExpired(k) THEN TimerExpire(k) ELSE TimerCheckDone(k)
    /\ UNCHANGED << pc, wild, alive, waitVars >>

ThreadStep == (\E t \in Thread : CallSchedule(t)) \/ Tick \/ TimerCheck

Sleep ==
    \/ \E t \in Thread, d \in 1..MaxDelay : Delay(t, d)
    \/ \E t \in Thread : Wake(t)

-----------------------------------------------------------------------------
(* Waiting on queue q, for ever or with the thread's timer running.        *)

BlockOn(s, q, t, w) ==
    LET b == ListSuspend([s EXCEPT !.error[t] = "EOK"], q, t, Flag)
    IN  IF w = Forever THEN b ELSE TimerStart(b, t, w)

ClearError(t) == k' = [k EXCEPT !.error[t] = "EOK"]

Blocked(q, t) == Contains(k.wait[q], t)

(* The call of t begins to wait on q; its waiting is over and it goes on   *)
(* to step l; it returns to its caller.                                    *)
WaitOn(t, q) == Goto(t, "block") /\ want' = [want EXCEPT ![t] = q]

EndWait(t, l) ==
    /\ Goto(t, l) /\ want' = [want EXCEPT ![t] = None]
    /\ budget' = [budget EXCEPT ![t] = Forever]

Return(t) == EndWait(t, "run")

(* A wait in the loop of a call that has w ticks left.                     *)
WaitInLoop(t, q, w) ==
    /\ k' = BlockOn(k, q, t, w)
    /\ WaitOn(t, q)
    /\ budget' = [budget EXCEPT ![t] = w]

(* A thread that was taken off its queue by the other side of the call and *)
(* has not looked at its error yet.                                        *)
Granted(q) ==
    {t \in Thread : /\ pc[t] \in Waiting /\ want[t] = q
                    /\ ~Blocked(q, t) /\ k.error[t] = "EOK"}

(* The end of a section that has woken the first waiter of q, if any: the  *)
(* caller goes on to rt_schedule exactly when it has.                      *)
ResumeFirst(s, q) == IF s.wait[q] = << >> THEN s ELSE ListResume(s, q)
AfterResume(q) == IF k.wait[q] = << >> THEN "run" ELSE "sched"

(* The same section entered by an interrupt handler, whose rt_schedule     *)
(* takes effect when the interrupt returns.                                *)
ResumeFromIsr(s, q) == IF s.wait[q] = << >> THEN s ELSE Schedule(ListResume(s, q))

-----------------------------------------------------------------------------
(* rt_ipc_list_resume_all: every waiter is woken with -RT_ERROR.           *)

ResumeWithError(s, t) == Resume([s EXCEPT !.error[t] = "ERROR"], t)

(* Faulty ResumeAll: nobody is woken.                                      *)
ResumeNone(s, q) == s

(* Called with interrupts disabled, it is one step, which wakes the        *)
(* waiters one by one ...                                                  *)
ResumeAll(s, q) ==
    LET after[i \in 0..Len(s.wait[q])] ==
          IF i = 0 THEN s ELSE ResumeWithError(after[i - 1], s.wait[q][i])
    IN  after[Len(s.wait[q])]

(* ... and called with interrupts enabled, as the detach and delete calls  *)
(* do, it looks at the list (step at), disables interrupts, and wakes the  *)
(* first entry without a second look (step wake), until the list is empty  *)
(* (then on to step next).  If the list has become empty in between the    *)
(* entry is no thread and what it overwrites is unknown: wild records      *)
(* that.  Neither it nor its callers call rt_schedule.  When the last list *)
(* is empty the object leaves the system.                                  *)
FlushBegin(t, Q) ==
    /\ At(t, "run") /\ t \in Controllers /\ alive
    /\ CarefulFlush => \A u \in Thread, q \in Q : Blocked(q, u) => ~Contains(k.timers, u)
    /\ Goto(t, "flush") /\ UNCHANGED << k, wild, alive, waitVars >>

(* Faulty FlushLook: it does not look.                                     *)
FlushBlind(t, q, at, wake, next) ==
    /\ At(t, at) /\ Goto(t, wake)
    /\ UNCHANGED << k, wild, alive, waitVars >>

FlushLook(t, q, at, wake, next) ==
    /\ At(t, at)
    /\ Goto(t, IF k.wait[q] = << >> THEN next ELSE wake)
    /\ alive' = (alive /\ pc'[t] # "run")
    /\ UNCHANGED << k, wild, waitVars >>

FlushWake(t, q, at, wake) ==
    /\ At(t, wake)
    /\ IF k.wait[q] = << >>
       THEN wild' = TRUE /\ UNCHANGED k
       ELSE /\ k' = [ResumeWithError(k, Head(k.wait[q])) EXCEPT !.owed = TRUE]
            /\ UNCHANGED wild
    /\ Goto(t, at) /\ UNCHANGED << alive, waitVars >>

(* May a call on the object begin?                                         *)
Flushing == \E t \in Thread : pc[t] \in Flushes
Usable == alive /\ (CarefulFlush => ~Flushing)
Calls(t, S) == At(t, "run") /\ t \in S /\ Usable

(* No thread but the waiters on the queues of Q is inside a call.          *)
NoOtherCall(Q) ==
    \A t \in Thread : pc[t] \in Outside \/ \E q \in Q : Blocked(q, t)

-----------------------------------------------------------------------------
(* Properties every object shares.                                         *)

IpcTypeOK ==
    /\ k \in KernelType
    /\ pc \in [Thread -> Outside \cup Waiting \cup Flushes \cup Carrying]
    /\ wild \in BOOLEAN /\ alive \in BOOLEAN
    /\ want \in [Thread -> Queue \cup {None}]
    /\ budget \in [Thread -> {Forever} \cup 0..MaxWait]

(* The kernel's lists stay exact whatever times out while calls wake and   *)
(* block threads: the bitmap names the non-empty ready lists, a thread's   *)
(* one node is linked once, where its state says, and only a suspended     *)
(* thread has its timer running.                                           *)
KernelExact ==
    /\ GroupExact(k) /\ ListsExact(k) /\ LinksExact(k, {}) /\ TimersExact(k)

(* The processor is with the first thread of the highest ready priority    *)
(* whenever a thread is outside kernel calls.                              *)
HighestRuns == ~k.isr /\ pc[k.cur] = "run" => k.cur = Highest(k)

(* The same, except after a change of priority or a flush that no          *)
(* rt_schedule has followed.                                               *)
HighestRunsIfAsked == ~k.owed => HighestRuns

(* rt_ipc_list_resume_all, and whatever else wakes the first thread of a   *)
(* list, wakes suspended threads and nothing else.                         *)
FlushWakesWaiters == ~wild

(* A thread whose call waits with a time limit is ready again, granted or  *)
(* timed out, some ticks later.                                            *)
TimedWaitEnds ==
    \A t \in Watched : Contains(k.timers, t) ~> k.stat[t] = "READY"

IpcFairness == WF_ipcVars(Tick \/ TimerCheck)
=============================================================================
