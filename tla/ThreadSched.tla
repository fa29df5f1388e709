----------------------------- MODULE ThreadSched -----------------------------
(***************************************************************************)
(* Thread management: scheduler.c, thread.c, clock.c and idle.c.  A thread *)
(* is the processor's only while k.cur names it and no interrupt is being  *)
(* served; pc[t] is where t stands inside a kernel call, so every point at *)
(* which the code has interrupts enabled between two of its sections is a  *)
(* state in which the clock interrupt, and through it other threads, may   *)
(* come in.  One thread, the Manager, creates, starts, suspends, resumes   *)
(* and deletes the others, as rt_application_init's "init" thread and the  *)
(* MQTT ping thread do.                                                    *)
(***************************************************************************)
EXTENDS Kernel

CONSTANTS
    Manager,      \* the thread that manages the others
    InitPrio,     \* init_priority of each thread
    Sleepers,     \* threads that call rt_thread_delay
    Exiters,      \* threads whose entry function returns
    Resumable,    \* threads that park themselves, or are suspended, and
                  \* are resumed by the Manager
    Detachable,   \* threads the Manager detaches or deletes
    DetachStats,  \* the states it does that in
    Dynamic,      \* threads that come from rt_thread_create
    HeapGarbage,  \* what number_mask of a created thread may hold
    Reprioritised,\* threads whose priority the Manager changes
    NewPrio,      \* the priorities it gives them
    MaxDelay,     \* the longest delay in ticks
    MaxNest       \* bound on nested rt_enter_critical

VARIABLES
    k,            \* the kernel's state
    pc,           \* where each thread stands in a kernel call
    tgt,          \* the thread the Manager's current call is about
    dead          \* the thread whose memory the idle thread is freeing,
                  \* Idle when there is none

vars == << k, pc, tgt, dead >>

Worker == Thread \ {Idle, Manager}
PC == {"run", "sleep", "wake", "sched", "suspend", "resume1", "resume2",
       "detach1", "detach2", "detach3", "free"}

ASSUME ThreadAssumption ==
    /\ Manager \in Thread \ {Idle}
    /\ InitPrio \in [Thread -> Prio]
    /\ InitPrio[Idle] = NPrio - 1
    /\ Sleepers \subseteq Thread \ {Idle}
    /\ Exiters \subseteq Worker
    /\ Resumable \subseteq Worker
    /\ Detachable \subseteq Worker
    /\ Dynamic \subseteq Worker
    /\ HeapGarbage \subseteq SUBSET Prio
    /\ Reprioritised \subseteq Thread \ {Idle}
    /\ NewPrio \subseteq Prio
    /\ "defunct" \in Queue
    /\ MaxDelay \in Nat
    /\ MaxNest \in Nat

Init ==
    /\ k = Boot({Idle, Manager}, InitPrio)
    /\ pc = [t \in Thread |-> "run"]
    /\ tgt = Manager
    /\ dead = Idle

Running(t) == k.cur = t /\ ~k.isr
At(t, l) == Running(t) /\ pc[t] = l
Goto(t, l) == pc' = [pc EXCEPT ![t] = l]

-----------------------------------------------------------------------------
(* Any thread, about itself.  A thread that has locked the scheduler does  *)
(* not block: rt_schedule would return to it although it is suspended.     *)

Delay(t, d) ==
    /\ At(t, "run") /\ t \in Sleepers /\ k.nest = 0
    /\ k' = TimerStart(Suspend(k, t), t, d)
    /\ Goto(t, "sleep") /\ UNCHANGED << tgt, dead >>

Park(t) ==
    /\ At(t, "run") /\ t \in Resumable /\ k.nest = 0
    /\ k' = Suspend(k, t)
    /\ Goto(t, "sched") /\ UNCHANGED << tgt, dead >>

Yield(t) ==
    /\ At(t, "run") /\ MustYield(k)
    /\ k' = YieldMove(k)
    /\ Goto(t, "sched") /\ UNCHANGED << tgt, dead >>

(* The rt_schedule that ends a call.  Control returns when t runs again.   *)
CallSchedule(t) ==
    /\ \/ At(t, "sleep") /\ Goto(t, "wake")
       \/ At(t, "sched") /\ Goto(t, "run")
    /\ k' = Schedule(k)
    /\ UNCHANGED << tgt, dead >>

(* rt_thread_sleep forgets the time-out that woke it.                      *)
Wake(t) ==
    /\ At(t, "wake")
    /\ k' = [k EXCEPT !.error[t] = IF @ = "ETIMEOUT" THEN "EOK" ELSE @]
    /\ Goto(t, "run") /\ UNCHANGED << tgt, dead >>

EnterLock(t) ==
    /\ At(t, "run") /\ k.nest < MaxNest
    /\ k' = EnterCritical(k)
    /\ UNCHANGED << pc, tgt, dead >>

ExitLock(t) ==
    /\ At(t, "run") /\ k.nest > 0
    /\ k' = ExitCritical(k)
    /\ IF k'.nest = 0 THEN Goto(t, "sched") ELSE UNCHANGED pc
    /\ UNCHANGED << tgt, dead >>

(* Faulty Bury: dead threads are forgotten.                                *)
BuryNone(s, t) == s

(* rt_list_insert_after(&rt_thread_defunct, &thread->tlist) for the        *)
(* threads whose memory the idle thread has to free.  thread->cleanup,     *)
(* which would send a static object there too, is RT_NULL for every thread *)
(* of this build: only components/pthreads, which is not built, sets it.   *)
Bury(s, t) ==
    IF t \in Dynamic THEN LinkFirst(s, "defunct", t) ELSE s

(* rt_thread_exit, where a thread's entry function returns to.             *)
Exit(t) ==
    /\ At(t, "run") /\ t \in Exiters /\ k.nest = 0
    /\ k' = Bury(Close(k, t), t)
    /\ Goto(t, "sched") /\ UNCHANGED << tgt, dead >>

-----------------------------------------------------------------------------
(* The Manager, about another thread t.                                    *)

(* rt_thread_init of a static object, rt_thread_create of a dynamic one.   *)
(* Neither writes number_mask: a static object keeps the one of its last   *)
(* life, a created one has what the heap left there.                       *)
ThreadInit(t) ==
    /\ At(Manager, "run") /\ t \in Worker
    /\ k.stat[t] \in {"NONE", "CLOSE"} /\ (t \in Dynamic => k.stat[t] = "NONE")
    /\ \E m \in IF t \in Dynamic THEN HeapGarbage ELSE {k.mask[t]} :
          k' = [k EXCEPT !.stat[t] = "INIT", !.prio[t] = InitPrio[t],
                         !.mask[t] = m, !.error[t] = "EOK",
                         !.slice[t] = Slice, !.left[t] = 0]
    /\ Goto(t, "run") /\ UNCHANGED << tgt, dead >>

(* rt_thread_startup up to its rt_thread_resume.                           *)
Startup(t) ==
    /\ At(Manager, "run") /\ t \in Worker /\ k.stat[t] = "INIT"
    /\ k' = [SetPriority(k, t, InitPrio[t]) EXCEPT !.stat[t] = "SUSPEND"]
    /\ tgt' = t /\ Goto(Manager, "resume1") /\ UNCHANGED dead

(* rt_thread_resume: the check of stat is not protected.                   *)
CallResume(t) ==
    /\ At(Manager, "run") /\ t \in Resumable /\ k.stat[t] = "SUSPEND"
    /\ tgt' = t /\ Goto(Manager, "resume1") /\ UNCHANGED << k, dead >>

ResumeFirst ==
    /\ At(Manager, "resume1")
    /\ k' = ResumeUnlink(k, tgt)
    /\ Goto(Manager, "resume2") /\ UNCHANGED << tgt, dead >>

(* The caller of rt_thread_resume calls rt_schedule next.                  *)
ResumeSecond ==
    /\ At(Manager, "resume2")
    /\ k' = InsertThread(k, tgt)
    /\ Goto(Manager, "sched") /\ UNCHANGED << tgt, dead >>

(* rt_thread_suspend of another thread: again an unprotected check, then   *)
(* one section that does not repeat it.                                    *)
CallSuspend(t) ==
    /\ At(Manager, "run") /\ t \in Resumable /\ k.stat[t] = "READY"
    /\ tgt' = t /\ Goto(Manager, "suspend") /\ UNCHANGED << k, dead >>

SuspendTarget ==
    /\ At(Manager, "suspend")
    /\ k' = SuspendSection(k, tgt)
    /\ Goto(Manager, "run") /\ UNCHANGED << tgt, dead >>

(* rt_thread_control(RT_THREAD_CTRL_CHANGE_PRIORITY); no rt_schedule.      *)
ControlPriority(t, p) ==
    /\ At(Manager, "run") /\ t \in Reprioritised
    /\ k.stat[t] \in {"INIT", "READY", "SUSPEND"}
    /\ k' = ChangePriority(k, t, p)
    /\ UNCHANGED << pc, tgt, dead >>

(* rt_thread_detach and rt_thread_delete: two sections, the unprotected    *)
(* store of the state and, for a deleted thread, a third section that      *)
(* hands it to the idle thread.                                            *)
DetachRemove(t) ==
    /\ At(Manager, "run") /\ t \in Detachable /\ k.stat[t] \in DetachStats
    /\ k' = RemoveThread(k, t)
    /\ tgt' = t /\ Goto(Manager, "detach1") /\ UNCHANGED dead

DetachTimer ==
    /\ At(Manager, "detach1")
    /\ k' = TimerStop(k, tgt)
    /\ Goto(Manager, "detach2") /\ UNCHANGED << tgt, dead >>

DetachClose ==
    /\ At(Manager, "detach2")
    /\ k' = [k EXCEPT !.stat[tgt] = "CLOSE"]
    /\ Goto(Manager, IF tgt \in Dynamic THEN "detach3" ELSE "run")
    /\ UNCHANGED << tgt, dead >>

DetachBury ==
    /\ At(Manager, "detach3")
    /\ k' = Bury(k, tgt)
    /\ Goto(Manager, "run") /\ UNCHANGED << tgt, dead >>

-----------------------------------------------------------------------------
(* The idle thread takes the first thread off the defunct list and, with   *)
(* interrupts enabled again, frees its stack and its object.               *)
IdleUnlink ==
    /\ At(Idle, "run") /\ k.wait["defunct"] # << >>
    /\ dead' = Head(k.wait["defunct"])
    /\ k' = Unlink(k, dead')
    /\ Goto(Idle, "free") /\ UNCHANGED tgt

IdleFree ==
    /\ At(Idle, "free")
    /\ k' = [k EXCEPT !.stat[dead] = "NONE"]
    /\ dead' = Idle
    /\ Goto(Idle, "run") /\ UNCHANGED tgt

-----------------------------------------------------------------------------
(* The clock interrupt.                                                    *)
Tick ==
    /\ ~k.isr /\ k.cur \in Thread
    /\ k' = TickIncrease(k)
    /\ UNCHANGED << pc, tgt, dead >>

TimerCheck ==
    /\ k.isr
    /\ k' = IF HeadExpired(k) THEN TimerExpire(k) ELSE TimerCheckDone(k)
    /\ UNCHANGED << pc, tgt, dead >>

-----------------------------------------------------------------------------
(* The steps that end what a thread has begun, and those that begin it.    *)
Finish(t) == CallSchedule(t) \/ Wake(t) \/ ExitLock(t)

FinishManager ==
    \/ ResumeFirst \/ ResumeSecond \/ SuspendTarget
    \/ DetachTimer \/ DetachClose \/ DetachBury

Begin(t) ==
    \/ \E d \in 0..MaxDelay : Delay(t, d)
    \/ Park(t) \/ Yield(t) \/ EnterLock(t) \/ Exit(t)

Manage(t) ==
    \/ ThreadInit(t) \/ Startup(t) \/ CallResume(t) \/ CallSuspend(t)
    \/ \E p \in NewPrio : ControlPriority(t, p)
    \/ DetachRemove(t)

Next ==
    \/ \E t \in Thread : Begin(t) \/ Finish(t) \/ Manage(t)
    \/ FinishManager \/ IdleUnlink \/ IdleFree \/ Tick \/ TimerCheck

(* The clock keeps ticking and its interrupt returns.  Between two ticks   *)
(* the processor executes the running thread, so that a call it has begun  *)
(* is completed, and a scheduler lock given back, when the thread has the  *)
(* processor again and again (strong: each tick takes it away for a        *)
(* while).  No thread need ever begin a call.                              *)
Fairness ==
    /\ WF_vars(Tick) /\ WF_vars(TimerCheck)
    /\ \A t \in Thread : SF_vars(CallSchedule(t) \/ Wake(t)) /\ SF_vars(ExitLock(t))
    /\ SF_vars(FinishManager)

Spec == Init /\ [][Next]_vars
FairSpec == Spec /\ Fairness

-----------------------------------------------------------------------------
(* Properties.                                                             *)

InResume(t) == tgt = t /\ pc[Manager] \in {"resume1", "resume2"}
InDetach(t) == tgt = t /\ pc[Manager] \in {"detach1", "detach2", "detach3"}
Detaching == {t \in Thread : InDetach(t)}

(* What the application must respect for the kernel's unprotected checks   *)
(* to be harmless: nobody suspends or resumes a thread whose timer may run *)
(* or that may exit by itself, nobody detaches one whose timer may run,    *)
(* and only a started thread is detached.                                  *)
Discipline ==
    /\ Resumable \cap (Sleepers \cup Exiters) = {}
    /\ Detachable \cap Sleepers = {}
    /\ DetachStats \subseteq {"READY", "SUSPEND"}

(* The type of the state.                                                  *)
TypeOK ==
    /\ k \in KernelType
    /\ pc \in [Thread -> PC]
    /\ tgt \in Thread
    /\ dead \in Thread

(* The bitmap rt_schedule searches has the bit of a priority exactly when  *)
(* that priority's list has a thread, so that no ready thread is invisible *)
(* and rt_list_entry is never applied to an empty list.                    *)
ReadyGroupExact == GroupExact(k) /\ k.cur \in Thread

(* A thread is in the list of its current priority when it is READY and in *)
(* no ready list otherwise - the one being detached has already left it -  *)
(* and its one list node is linked once, ready lists and wait queues       *)
(* together.                                                               *)
LinkedOnce == ListsExact(k) /\ LinksExact(k, Detaching)

(* The processor is with the first thread of the highest ready priority    *)
(* whenever a thread is outside kernel calls with the scheduler unlocked,  *)
(* except after a change of priority that no rt_schedule has followed.     *)
HighestRuns ==
    ~k.isr /\ k.nest = 0 /\ pc[k.cur] = "run" /\ ~k.owed => k.cur = Highest(k)

(* rt_thread_timeout's assertion: a running thread timer belongs to a      *)
(* suspended thread; and a sleeper that is suspended has its timer running *)
(* - it would never wake otherwise.                                        *)
SleepersTimed ==
    \A t \in Thread :
        /\ Contains(k.timers, t) => k.stat[t] = "SUSPEND"
        /\ t \in Sleepers /\ k.stat[t] = "SUSPEND" /\ ~InResume(t)
              => Contains(k.timers, t)

(* The dead threads whose memory has to be freed are the ones the idle     *)
(* thread can find, but for the one rt_thread_delete is about to hand over *)
(* and the one the idle thread holds: none leaks, none is freed twice or   *)
(* while it lives, and what the idle thread holds is dead and not reused.  *)
DefunctExact ==
    /\ \A t \in Thread :
          Contains(k.wait["defunct"], t) <=>
              t \in Dynamic /\ k.stat[t] = "CLOSE" /\ ~InDetach(t) /\ t # dead
    /\ dead # Idle => dead \in Dynamic /\ k.stat[dead] = "CLOSE" /\ ~InDetach(dead)

(* What the comment of rt_thread_detach promises: a thread that has been   *)
(* detached or deleted is out of the ready queues.                         *)
ClosedNotReady ==
    \A t \in Thread, p \in Prio : k.stat[t] = "CLOSE" => ~Contains(k.rdy[p], t)

(* A locked scheduler keeps the processor with the thread that locked it,  *)
(* whatever time-outs the clock interrupt serves meanwhile.                *)
LockHoldsProcessor == [][k.nest > 0 => k'.cur = k.cur]_vars

(* Round robin: a thread that stays ready at the highest ready priority    *)
(* gets the processor again and again.                                     *)
RoundRobin ==
    \A t \in Thread :
        <>[](k.stat[t] = "READY" /\ ~k.owed /\ k.prio[t] = Min(k.group))
            => []<>(k.cur = t)

(* A sleeping thread becomes ready.                                        *)
SleepEnds ==
    \A t \in Sleepers : Contains(k.timers, t) ~> ~Contains(k.timers, t)

-----------------------------------------------------------------------------
(* The inductive invariant that the safety properties follow from when the *)
(* application respects the Discipline.                                    *)

(* The running thread is READY, but for the moment between suspending      *)
(* itself and giving the processor away; the idle thread always is.        *)
RunnerReady ==
    /\ k.cur \in Thread \ Detaching
    /\ k.stat[Idle] = "READY"
    /\ \/ k.stat[k.cur] = "READY"
       \/ k.nest = 0 /\ pc[k.cur] \in {"sleep", "sched"}

(* The state in which the Manager's call found its target still holds      *)
(* where the rest of the call relies on it, and the idle thread holds a    *)
(* dead thread exactly while it frees one.                                 *)
CallValid ==
    /\ pc[Manager] \in {"resume1", "resume2"} =>
          /\ tgt \in Worker /\ k.stat[tgt] = "SUSPEND" /\ k.cur # tgt
          /\ ~Contains(k.timers, tgt)
    /\ pc[Manager] = "suspend" =>
          tgt \in Resumable /\ k.stat[tgt] \in {"READY", "SUSPEND"}
    /\ pc[Manager] \in {"detach1", "detach2"} =>
          tgt \in Detachable /\ k.stat[tgt] \in {"READY", "SUSPEND"}
    /\ pc[Manager] = "detach3" =>
          tgt \in Detachable \cap Dynamic /\ k.stat[tgt] = "CLOSE"
    /\ pc[Idle] = "free" <=> dead # Idle

OnlySleepersTimed == \A t \in Thread : Contains(k.timers, t) => t \in Sleepers

(* IPC wait queues are not used here.                                      *)
NobodyWaits ==
    \A q \in Queue \ {"defunct"}, t \in Thread : ~Contains(k.wait[q], t)

(* HighestRuns at every point where no rt_schedule is due.                 *)
Dispatched ==
    k.nest = 0 /\ ~k.owed /\ pc[k.cur] \notin {"sleep", "sched"}
        => k.cur = Highest(k)

IInv ==
    /\ KernelInv(k, Detaching)
    /\ pc \in [Thread -> PC]
    /\ tgt \in Thread
    /\ dead \in Thread
    /\ RunnerReady
    /\ CallValid
    /\ OnlySleepersTimed
    /\ SleepersTimed
    /\ NobodyWaits
    /\ DefunctExact
    /\ Dispatched
=============================================================================
