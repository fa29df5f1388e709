-------------------------- MODULE ThreadSchedProofs --------------------------
(***************************************************************************)
(* The safety of thread management for every set of threads, number of     *)
(* priorities, delay and nesting bound, when the application respects the  *)
(* Discipline: IInv is inductive, and the invariants of ThreadSched follow *)
(* from it.  One lemma per action; each gets the kernel's part from        *)
(* KernelProofs.                                                           *)
(***************************************************************************)
EXTENDS ThreadSched, KernelProofs

-----------------------------------------------------------------------------
(* Consequences of the invariant.                                          *)

(* At most the Manager's target is being detached, never Idle or Manager.  *)
LEMMA DetachingFacts ==
    ASSUME IInv
    PROVE  /\ pc[Manager] \notin {"detach1", "detach2", "detach3"} => Detaching = {}
           /\ pc[Manager] \in {"detach1", "detach2", "detach3"} => Detaching = {tgt}
           /\ Idle \notin Detaching /\ Manager \notin Detaching
           /\ \A t \in Detaching : t \in Detachable
BY ThreadAssumption DEF Detaching, InDetach, IInv, CallValid, Worker

(* The idle thread keeps the ready queues from being empty.                *)
LEMMA GroupNotEmpty ==
    ASSUME IInv
    PROVE  k.group # {}
<1>1. Idle \in Thread /\ Idle \notin Detaching
  BY KernelAssumption, DetachingFacts
<1>2. k.prio[Idle] \in Prio /\ k.rdy[k.prio[Idle]] \in Seq(Thread)
  BY <1>1 DEF IInv, KernelInv, KernelType
<1>3. Contains(k.rdy[k.prio[Idle]], Idle)
  BY <1>1, <1>2 DEF IInv, RunnerReady, KernelInv, LinksExact
<1>4. k.rdy[k.prio[Idle]] # << >>
  BY <1>1, <1>2, <1>3, EmptyFacts
<1> QED BY <1>2, <1>4 DEF IInv, KernelInv, GroupExact

(* A thread that is about to make a call is READY and on its list.         *)
LEMMA CallerFacts ==
    ASSUME IInv, NEW t \in Thread, NEW l, At(t, l), l \notin {"sleep", "sched"}
    PROVE  /\ k.cur = t /\ pc[t] = l /\ k.stat[t] = "READY" /\ t \notin Detaching
           /\ ~Contains(k.timers, t)
BY DEF At, Running, IInv, RunnerReady, KernelInv, TimersExact

-----------------------------------------------------------------------------
(* The initial state.                                                      *)
LEMMA InitInv == Init => IInv
<1> SUFFICES ASSUME Init PROVE IInv
  OBVIOUS
<1> DEFINE S == {Idle, Manager}
<1> USE KernelAssumption, ThreadAssumption
<1>1. S \in SUBSET Thread /\ S # {} /\ InitPrio \in [Thread -> Prio]
  OBVIOUS
<1>2. IsFiniteSet(S)
  <2>1. IsFiniteSet({Idle})
    BY FS_Singleton
  <2>2. IsFiniteSet({Idle} \cup {Manager})
    BY <2>1, FS_AddElement
  <2>3. S = {Idle} \cup {Manager}
    OBVIOUS
  <2> QED BY <2>2, <2>3
<1>3. KernelInv(k, {}) /\ k.cur = Highest(k) /\ k.cur \in S
  <2>1. k = Boot(S, InitPrio)
    BY DEF Init
  <2> HIDE DEF S
  <2> QED BY <1>1, <1>2, <2>1, BootFacts
<1>4. /\ k.stat = [t \in Thread |-> IF t \in S THEN "READY" ELSE "NONE"]
      /\ k.timers = << >> /\ k.wait = [q \in Queue |-> << >>]
      /\ k.nest = 0
  BY DEF Init, Boot
<1>5. /\ pc = [t \in Thread |-> "run"] /\ tgt = Manager /\ dead = Idle
  BY DEF Init
<1>6. Detaching = {}
  BY <1>5 DEF Detaching, InDetach
<1>7. \A q \in Queue, t \in Thread : ~Contains(k.wait[q], t)
  BY <1>4 DEF Contains
<1>8. \A t \in Thread : ~Contains(k.timers, t) /\ k.stat[t] # "SUSPEND" /\ k.stat[t] # "CLOSE"
  BY <1>4 DEF Contains
<1>9. RunnerReady /\ CallValid
  BY <1>3, <1>4, <1>5, <1>6 DEF RunnerReady, CallValid
<1>10. OnlySleepersTimed /\ SleepersTimed /\ NobodyWaits /\ DefunctExact /\ Dispatched
  BY <1>3, <1>5, <1>7, <1>8
     DEF OnlySleepersTimed, SleepersTimed, NobodyWaits, DefunctExact, Dispatched
<1> QED BY <1>3, <1>5, <1>6, <1>9, <1>10 DEF IInv, PC

-----------------------------------------------------------------------------
(* Calls a thread makes about itself.                                      *)

(* Where the thread goes does not concern the Manager's call.              *)
LEMMA OwnStep ==
    ASSUME IInv, NEW t \in Thread, pc[t] \in {"run", "sleep", "wake", "sched"},
           NEW l \in {"run", "sleep", "wake", "sched"}, Goto(t, l), tgt' = tgt
    PROVE  /\ Detaching' = Detaching
           /\ pc' \in [Thread -> PC] /\ tgt' \in Thread
           /\ \A x \in Thread : x # t => pc'[x] = pc[x]
           /\ pc'[t] = l
           /\ \A x : InResume(x)' = InResume(x)
           /\ \A c \in {"resume1", "resume2", "suspend",
                       "detach1", "detach2", "detach3"} :
                 pc'[Manager] = c <=> pc[Manager] = c
           /\ pc'[Idle] = "free" <=> pc[Idle] = "free"
<1>1. /\ pc \in [Thread -> PC] /\ tgt \in Thread /\ Manager \in Thread
      /\ Idle \in Thread
  BY KernelAssumption, ThreadAssumption DEF IInv
<1>2. /\ pc' \in [Thread -> PC] /\ tgt' \in Thread /\ pc'[t] = l
      /\ \A x \in Thread : x # t => pc'[x] = pc[x]
  BY <1>1 DEF Goto, PC
<1>3. \A c \in {"resume1", "resume2", "suspend", "detach1", "detach2", "detach3"} :
          pc'[Manager] = c <=> pc[Manager] = c
  BY <1>1, <1>2
<1>4. pc'[Idle] = "free" <=> pc[Idle] = "free"
  BY <1>1, <1>2
<1> QED BY <1>2, <1>3, <1>4 DEF Detaching, InDetach, InResume

(* What is left to show of a call in which the running thread t changes    *)
(* nothing but its own state.                                              *)
LEMMA OwnCall ==
    ASSUME IInv, NEW t \in Thread, k.cur = t, k'.cur = t,
           pc[t] \in {"run", "sleep", "wake", "sched"},
           NEW l \in {"run", "sleep", "wake", "sched"}, Goto(t, l), tgt' = tgt,
           dead' = dead, k.stat[t] = "READY",
           KernelInv(k', Detaching),
           \A x \in Thread : x # t =>
              /\ k'.stat[x] = k.stat[x]
              /\ Contains(k'.timers, x) <=> Contains(k.timers, x)
              /\ \A q \in Queue : Contains(k'.wait[q], x) <=> Contains(k.wait[q], x),
           \/ k'.stat[t] = "READY"
           \/ k'.nest = 0 /\ l \in {"sleep", "sched"} /\ t # Idle,
           Contains(k'.timers, t) => t \in Sleepers,
           t \in Sleepers /\ k'.stat[t] = "SUSPEND" => Contains(k'.timers, t),
           \A q \in Queue : Contains(k'.wait[q], t) <=>
              q = "defunct" /\ t \in Dynamic /\ k'.stat[t] = "CLOSE",
           t \in Resumable => k'.stat[t] \in {"READY", "SUSPEND"},
           k'.nest = 0 /\ ~k'.owed /\ l \notin {"sleep", "sched"}
              => k'.cur = Highest(k')
    PROVE  IInv'
<1> USE KernelAssumption, ThreadAssumption
<1>1. /\ Detaching' = Detaching
      /\ pc' \in [Thread -> PC] /\ tgt' \in Thread
      /\ \A x \in Thread : x # t => pc'[x] = pc[x]
      /\ pc'[t] = l
      /\ \A x : InResume(x)' = InResume(x)
      /\ \A c \in {"resume1", "resume2", "suspend", "detach1", "detach2", "detach3"} :
            pc'[Manager] = c <=> pc[Manager] = c
      /\ pc'[Idle] = "free" <=> pc[Idle] = "free"
  BY OwnStep
<1>2. t \notin Detaching /\ (dead # Idle => t # dead)
  BY DEF IInv, RunnerReady, DefunctExact
<1>3. RunnerReady'
  BY <1>1, <1>2 DEF IInv, RunnerReady
<1>4. CallValid'
  <2>1. ASSUME pc[Manager] \in {"resume1", "resume2"}
        PROVE  tgt # t
    BY <2>1 DEF IInv, CallValid
  <2>2. ASSUME pc[Manager] \in {"detach1", "detach2", "detach3"}
        PROVE  tgt # t
    BY <1>2, <2>2 DEF Detaching, InDetach
  <2>3. tgt \in Thread
    BY DEF IInv
  <2>4. pc'[Manager] \in {"resume1", "resume2"} =>
          /\ tgt' \in Worker /\ k'.stat[tgt'] = "SUSPEND" /\ k'.cur # tgt'
          /\ ~Contains(k'.timers, tgt')
    BY <1>1, <2>1, <2>3 DEF IInv, CallValid
  <2>5. pc'[Manager] = "suspend" =>
          tgt' \in Resumable /\ k'.stat[tgt'] \in {"READY", "SUSPEND"}
    BY <1>1, <2>3 DEF IInv, CallValid
  <2>6. pc'[Manager] \in {"detach1", "detach2"} =>
          tgt' \in Detachable /\ k'.stat[tgt'] \in {"READY", "SUSPEND"}
    BY <1>1, <2>2, <2>3 DEF IInv, CallValid
  <2>7. pc'[Manager] = "detach3" =>
          tgt' \in Detachable \cap Dynamic /\ k'.stat[tgt'] = "CLOSE"
    BY <1>1, <2>2, <2>3 DEF IInv, CallValid
  <2>8. pc'[Idle] = "free" <=> dead' # Idle
    BY <1>1 DEF IInv, CallValid
  <2> QED BY <2>4, <2>5, <2>6, <2>7, <2>8 DEF CallValid
<1>5. OnlySleepersTimed'
  BY DEF IInv, OnlySleepersTimed
<1>6. SleepersTimed'
  <2> SUFFICES ASSUME NEW x \in Thread
               PROVE  /\ Contains(k'.timers, x) => k'.stat[x] = "SUSPEND"
                      /\ x \in Sleepers /\ k'.stat[x] = "SUSPEND" /\ ~InResume(x)
                            => Contains(k'.timers, x)
    BY <1>1 DEF SleepersTimed
  <2>1. Contains(k'.timers, x) => k'.stat[x] = "SUSPEND"
    BY DEF KernelInv, TimersExact
  <2>2. CASE x = t
    BY <2>1, <2>2
  <2>3. CASE x # t
    BY <2>1, <2>3 DEF IInv, SleepersTimed
  <2> QED BY <2>2, <2>3
<1>7. NobodyWaits'
  BY DEF IInv, NobodyWaits
<1>8. DefunctExact'
  <2>1. \A x \in Thread : InDetach(x)' <=> InDetach(x)
    BY <1>1 DEF Detaching
  <2>2. ASSUME NEW x \in Thread, x # t
        PROVE  Contains(k'.wait["defunct"], x) <=>
                 x \in Dynamic /\ k'.stat[x] = "CLOSE" /\ ~InDetach(x)' /\ x # dead'
    BY <2>1, <2>2 DEF IInv, DefunctExact
  <2>3. Contains(k'.wait["defunct"], t) <=>
          t \in Dynamic /\ k'.stat[t] = "CLOSE" /\ ~InDetach(t)' /\ t # dead'
    BY <1>2, <2>1 DEF Detaching, Worker
  <2>4. dead' # Idle => dead' \in Dynamic /\ k'.stat[dead'] = "CLOSE" /\ ~InDetach(dead)'
    BY <1>2, <2>1 DEF IInv, DefunctExact
  <2> QED BY <2>2, <2>3, <2>4 DEF DefunctExact
<1>9. Dispatched'
  BY <1>1 DEF Dispatched
<1> QED BY <1>1, <1>3, <1>4, <1>5, <1>6, <1>7, <1>8, <1>9 DEF IInv

(* A thread that suspends itself, before it starts its timer.              *)
LEMMA SuspendSelf ==
    ASSUME IInv, NEW t \in Thread, At(t, "run")
    PROVE  LET s == Suspend(k, t)
           IN  /\ KernelInv(s, Detaching)
               /\ \A x \in Thread : s.stat[x] = IF x = t THEN "SUSPEND" ELSE k.stat[x]
               /\ s.timers = k.timers /\ s.cur = t /\ s.nest = k.nest
               /\ \A q \in Queue : \A x : Contains(s.wait[q], x) <=> Contains(k.wait[q], x)
               /\ \A q \in Queue : ~Contains(s.wait[q], t)
               /\ ~Contains(k.timers, t)
<1>1. k.cur = t /\ k.stat[t] = "READY" /\ t \notin Detaching /\ ~Contains(k.timers, t)
  BY CallerFacts
<1>2. KernelInv(k, Detaching)
  BY DEF IInv
<1>3. \A q \in Queue : ~Contains(k.wait[q], t)
  BY <1>1, <1>2 DEF KernelInv, LinksExact
<1>4. k.stat[t] \in {"READY", "SUSPEND"}
  BY <1>1
<1>5. Suspend(k, t) = SuspendSection(k, t)
  BY <1>1 DEF Suspend
<1> DEFINE r == SuspendSection(k, t)
<1>6. /\ KernelInv(r, Detaching)
      /\ \A x \in Thread : r.stat[x] = IF x = t THEN "SUSPEND" ELSE k.stat[x]
      /\ r.timers = k.timers /\ r.cur = k.cur /\ r.nest = k.nest
      /\ \A q \in Queue : \A x : Contains(r.wait[q], x) <=> Contains(k.wait[q], x)
  BY <1>1, <1>2, <1>3, <1>4, SuspendFacts
<1> HIDE DEF r
<1> QED BY <1>1, <1>3, <1>5, <1>6 DEF r

(* rt_thread_sleep up to its rt_schedule.                                  *)
LEMMA DelayInv ==
    ASSUME IInv, Discipline, NEW t \in Thread, NEW d \in 0..MaxDelay, Delay(t, d)
    PROVE  IInv'
<1> DEFINE s == Suspend(k, t)
<1>0. /\ At(t, "run") /\ t \in Sleepers /\ k.nest = 0 /\ Goto(t, "sleep")
      /\ tgt' = tgt /\ dead' = dead
      /\ k' = TimerStart(s, t, d) /\ d \in Nat
  BY ThreadAssumption DEF Delay
<1>1. /\ KernelInv(s, Detaching)
      /\ \A x \in Thread : s.stat[x] = IF x = t THEN "SUSPEND" ELSE k.stat[x]
      /\ s.timers = k.timers /\ s.cur = t /\ s.nest = k.nest
      /\ \A q \in Queue : \A x : Contains(s.wait[q], x) <=> Contains(k.wait[q], x)
      /\ \A q \in Queue : ~Contains(s.wait[q], t)
  BY <1>0, SuspendSelf
<1> HIDE DEF s
<1>2. s.stat[t] = "SUSPEND"
  BY <1>1
<1>3. d \in Nat
  BY <1>0
<1>4. /\ KernelInv(k', Detaching)
      /\ k'.stat = s.stat /\ k'.wait = s.wait /\ k'.cur = s.cur
      /\ k'.nest = s.nest
      /\ \A x : Contains(k'.timers, x) <=> Contains(s.timers, x) \/ x = t
  BY <1>0, <1>1, <1>2, <1>3, TimerStartFacts
<1>5. k.cur = t /\ pc[t] = "run" /\ t # Idle /\ t \notin Resumable /\ k.stat[t] = "READY"
  BY <1>0, ThreadAssumption, CallerFacts DEF Discipline
<1> QED BY <1>0, <1>1, <1>2, <1>4, <1>5, OwnCall

(* rt_thread_suspend(rt_thread_self()).                                    *)
LEMMA ParkInv ==
    ASSUME IInv, Discipline, NEW t \in Thread, Park(t)
    PROVE  IInv'
<1> USE KernelAssumption, ThreadAssumption
<1>0. /\ At(t, "run") /\ t \in Resumable /\ k.nest = 0 /\ Goto(t, "sched")
      /\ tgt' = tgt /\ dead' = dead
      /\ k' = Suspend(k, t)
  BY DEF Park
<1>1. /\ KernelInv(k', Detaching)
      /\ \A x \in Thread : k'.stat[x] = IF x = t THEN "SUSPEND" ELSE k.stat[x]
      /\ k'.timers = k.timers /\ k'.cur = t /\ k'.nest = k.nest
      /\ \A q \in Queue : \A x : Contains(k'.wait[q], x) <=> Contains(k.wait[q], x)
      /\ \A q \in Queue : ~Contains(k'.wait[q], t)
      /\ ~Contains(k.timers, t)
  BY <1>0, SuspendSelf
<1>2. k.cur = t /\ pc[t] = "run" /\ t # Idle /\ t \notin Sleepers /\ k.stat[t] = "READY"
  BY <1>0, CallerFacts DEF Discipline, Worker
<1>3. k'.stat[t] = "SUSPEND"
  BY <1>1
<1> QED BY <1>0, <1>1, <1>2, <1>3, OwnCall

(* Steps that change neither a list nor a thread's state.                  *)
LEMMA QuietCall ==
    ASSUME IInv, NEW t \in Thread, k.cur = t, k'.cur = t,
           pc[t] \in {"run", "sleep", "wake", "sched"},
           NEW l \in {"run", "sleep", "wake", "sched"}, Goto(t, l), tgt' = tgt,
           dead' = dead, k.stat[t] = "READY",
           KernelInv(k', Detaching),
           k'.stat = k.stat, k'.timers = k.timers, k'.wait = k.wait,
           k'.nest = 0 /\ ~k'.owed /\ l \notin {"sleep", "sched"}
              => k'.cur = Highest(k')
    PROVE  IInv'
<1>1. ~Contains(k.timers, t) /\ \A q \in Queue : ~Contains(k.wait[q], t)
  BY DEF IInv, KernelInv, TimersExact, LinksExact
<1>2. k'.stat[t] = "READY"
  OBVIOUS
<1> QED BY <1>1, <1>2, OwnCall

(* rt_thread_yield up to its rt_schedule.                                  *)
LEMMA YieldInv ==
    ASSUME IInv, NEW t \in Thread, Yield(t)
    PROVE  IInv'
<1>0. /\ At(t, "run") /\ MustYield(k) /\ Goto(t, "sched")
      /\ tgt' = tgt /\ dead' = dead /\ k' = YieldMove(k)
  BY DEF Yield
<1>1. k.cur = t /\ pc[t] = "run" /\ k.stat[t] = "READY" /\ t \notin Detaching
  BY <1>0, CallerFacts
<1>2. KernelInv(k, Detaching) /\ k.cur \in Thread /\ k.cur \notin Detaching
  BY <1>1 DEF IInv
<1>3. KernelInv(k', Detaching) /\ k' = [k EXCEPT !.rdy = k'.rdy]
  BY <1>0, <1>2, YieldFacts
<1>4. k'.stat = k.stat /\ k'.timers = k.timers /\ k'.wait = k.wait /\ k'.cur = k.cur
  BY <1>2, <1>3 DEF KernelInv, KernelType
<1> QED BY <1>0, <1>1, <1>3, <1>4, QuietCall

(* The end of rt_thread_sleep.                                             *)
LEMMA WakeInv ==
    ASSUME IInv, NEW t \in Thread, Wake(t)
    PROVE  IInv'
<1>0. At(t, "wake") /\ Goto(t, "run") /\ tgt' = tgt /\ dead' = dead
      /\ k' = [k EXCEPT !.error[t] = IF @ = "ETIMEOUT" THEN "EOK" ELSE @]
  BY DEF Wake
<1>1. k.cur = t /\ pc[t] = "wake" /\ k.stat[t] = "READY"
  BY <1>0, CallerFacts
<1>2. KernelInv(k, Detaching) /\ k \in KernelType
  BY DEF IInv, KernelInv
<1>3. /\ k' \in KernelType
      /\ k'.stat = k.stat /\ k'.prio = k.prio /\ k'.mask = k.mask /\ k'.rdy = k.rdy
      /\ k'.group = k.group /\ k'.wait = k.wait /\ k'.timers = k.timers
      /\ k'.cur = k.cur /\ k'.nest = k.nest /\ k'.owed = k.owed
  BY <1>0, <1>2 DEF KernelType, Errno
<1>4. KernelInv(k', Detaching)
  BY <1>2, <1>3, FrameFacts
<1>5. k'.nest = 0 /\ ~k'.owed => k'.cur = Highest(k')
  BY <1>1, <1>3 DEF IInv, Dispatched, Highest
<1> QED BY <1>0, <1>1, <1>3, <1>4, <1>5, QuietCall

(* rt_enter_critical.                                                      *)
LEMMA EnterLockInv ==
    ASSUME IInv, NEW t \in Thread, EnterLock(t)
    PROVE  IInv'
<1>0. /\ At(t, "run") /\ k' = [k EXCEPT !.nest = @ + 1] /\ pc' = pc
      /\ tgt' = tgt /\ dead' = dead
  BY DEF EnterLock, EnterCritical
<1>1. k.cur = t /\ pc[t] = "run" /\ k.stat[t] = "READY"
  BY <1>0, CallerFacts
<1>2. KernelInv(k, Detaching) /\ k.nest \in Nat
  BY DEF IInv, KernelInv, KernelType
<1>3. PICK n \in Nat : n = k.nest + 1 /\ n # 0
  BY <1>2
<1>4. k' = [k EXCEPT !.nest = n]
  BY <1>0, <1>3
<1>5. /\ KernelInv(k', Detaching)
      /\ k'.stat = k.stat /\ k'.timers = k.timers /\ k'.wait = k.wait
      /\ k'.cur = k.cur /\ k'.nest = n
  BY <1>2, <1>4, NestFacts
<1>6. Goto(t, "run")
  BY <1>0, <1>1 DEF Goto, IInv
<1> QED BY <1>0, <1>1, <1>3, <1>5, <1>6, QuietCall

(* rt_exit_critical up to its rt_schedule.                                 *)
LEMMA ExitLockInv ==
    ASSUME IInv, NEW t \in Thread, ExitLock(t)
    PROVE  IInv'
<1> DEFINE n == IF k.nest <= 1 THEN 0 ELSE k.nest - 1
<1>0. /\ At(t, "run") /\ k' = [k EXCEPT !.nest = n] /\ tgt' = tgt /\ dead' = dead
      /\ IF k'.nest = 0 THEN Goto(t, "sched") ELSE pc' = pc
  BY DEF ExitLock, ExitCritical
<1>1. k.cur = t /\ pc[t] = "run" /\ k.stat[t] = "READY"
  BY <1>0, CallerFacts
<1>2. KernelInv(k, Detaching) /\ n \in Nat
  <2>1. KernelInv(k, Detaching)
    BY DEF IInv
  <2>2. k.nest \in Nat
    BY <2>1 DEF KernelInv, KernelType
  <2> QED BY <2>1, <2>2
<1> HIDE DEF n
<1>3. /\ KernelInv(k', Detaching)
      /\ k'.stat = k.stat /\ k'.timers = k.timers /\ k'.wait = k.wait
      /\ k'.cur = k.cur
  BY <1>0, <1>2, NestFacts
<1>4. CASE k'.nest = 0
  BY <1>0, <1>1, <1>3, <1>4, QuietCall
<1>5. CASE k'.nest # 0
  <2>1. Goto(t, "run")
    BY <1>0, <1>1, <1>5 DEF Goto, IInv
  <2> QED BY <1>0, <1>1, <1>3, <1>5, <2>1, QuietCall
<1> QED BY <1>4, <1>5

(* Handing a dead thread to the idle thread.                               *)
LEMMA BuryFacts ==
    ASSUME NEW s, NEW D, KernelInv(s, D), NEW t \in Thread, t \notin D,
           s.stat[t] = "CLOSE", ~Contains(s.wait["defunct"], t)
    PROVE  /\ KernelInv(Bury(s, t), D)
           /\ Bury(s, t).stat = s.stat /\ Bury(s, t).timers = s.timers
           /\ Bury(s, t).cur = s.cur /\ Bury(s, t).nest = s.nest
           /\ Bury(s, t).rdy = s.rdy /\ Bury(s, t).group = s.group
           /\ Bury(s, t).owed = s.owed
           /\ \A q \in Queue : \A x : Contains(Bury(s, t).wait[q], x) <=>
                 Contains(s.wait[q], x) \/ (x = t /\ q = "defunct" /\ t \in Dynamic)
<1>1. CASE t \notin Dynamic
  BY <1>1 DEF Bury
<1>2. CASE t \in Dynamic
  <2> DEFINE b == LinkFirst(s, "defunct", t)
  <2>1. b = Bury(s, t) /\ "defunct" \in Queue /\ s.stat[t] # "READY"
    BY <1>2, ThreadAssumption DEF Bury
  <2>2. /\ KernelInv(b, D)
        /\ \A q \in Queue : \A x : Contains(b.wait[q], x) <=>
              Contains(s.wait[q], x) \/ (x = t /\ q = "defunct")
    BY <2>1, LinkFirstFacts
  <2>3. /\ b.stat = s.stat /\ b.timers = s.timers /\ b.cur = s.cur
        /\ b.nest = s.nest /\ b.rdy = s.rdy /\ b.group = s.group /\ b.owed = s.owed
    BY DEF LinkFirst, KernelInv, KernelType
  <2> HIDE DEF b
  <2> QED BY <1>2, <2>1, <2>2, <2>3
<1> QED BY <1>1, <1>2

(* rt_thread_exit up to its rt_schedule.                                   *)
LEMMA ExitInv ==
    ASSUME IInv, Discipline, NEW t \in Thread, Exit(t)
    PROVE  IInv'
<1> DEFINE s == Close(k, t)
<1>0. /\ At(t, "run") /\ t \in Exiters /\ k.nest = 0 /\ Goto(t, "sched")
      /\ tgt' = tgt /\ dead' = dead
      /\ k' = Bury(s, t)
  BY DEF Exit
<1>1. /\ k.cur = t /\ pc[t] = "run" /\ k.stat[t] = "READY" /\ t \notin Detaching
      /\ ~Contains(k.timers, t)
  BY <1>0, CallerFacts
<1>2. KernelInv(k, Detaching) /\ k.stat[t] \in {"READY", "SUSPEND"}
  BY <1>1 DEF IInv
<1>3. \A q \in Queue : ~Contains(k.wait[q], t)
  BY <1>1, <1>2 DEF KernelInv, LinksExact
<1>4. /\ KernelInv(s, Detaching)
      /\ \A x \in Thread : s.stat[x] = IF x = t THEN "CLOSE" ELSE k.stat[x]
      /\ s.cur = k.cur /\ s.nest = k.nest
      /\ \A x : Contains(s.timers, x) <=> Contains(k.timers, x) /\ x # t
      /\ \A q \in Queue : \A x :
            Contains(s.wait[q], x) <=> Contains(k.wait[q], x) /\ x # t
  BY <1>1, <1>2, CloseFacts
<1> HIDE DEF s
<1>5. s.stat[t] = "CLOSE" /\ ~Contains(s.wait["defunct"], t)
  BY <1>4, ThreadAssumption
<1>6. /\ KernelInv(k', Detaching)
      /\ k'.stat = s.stat /\ k'.timers = s.timers
      /\ k'.cur = s.cur /\ k'.nest = s.nest
      /\ \A q \in Queue : \A x : Contains(k'.wait[q], x) <=>
            Contains(s.wait[q], x) \/ (x = t /\ q = "defunct" /\ t \in Dynamic)
  BY <1>0, <1>1, <1>4, <1>5, BuryFacts
<1>7. t # Idle /\ t \notin Resumable
  BY <1>0, ThreadAssumption DEF Discipline, Worker
<1>8. \A x \in Thread : x # t =>
          /\ k'.stat[x] = k.stat[x]
          /\ Contains(k'.timers, x) <=> Contains(k.timers, x)
          /\ \A q \in Queue : Contains(k'.wait[q], x) <=> Contains(k.wait[q], x)
  BY <1>4, <1>6
<1>9. /\ k'.stat[t] = "CLOSE" /\ ~Contains(k'.timers, t)
      /\ \A q \in Queue : Contains(k'.wait[q], t) <=> q = "defunct" /\ t \in Dynamic
  BY <1>4, <1>5, <1>6
<1>10. k'.cur = t /\ k'.nest = 0
  BY <1>0, <1>1, <1>4, <1>6
<1> QED BY <1>0, <1>1, <1>6, <1>7, <1>8, <1>9, <1>10, OwnCall

-----------------------------------------------------------------------------
(* The Manager's calls about another thread.                               *)

(* What is left to show of a step of the Manager that changes nothing but  *)
(* the state of the thread t.                                              *)
LEMMA TargetCall ==
    ASSUME IInv, NEW t \in Worker, NEW l \in PC \ {"sleep", "wake"},
           k.cur = Manager, k.stat[Manager] = "READY", k'.cur = Manager,
           pc' \in [Thread -> PC], pc'[Manager] = l, tgt' \in Thread,
           l \in {"run", "sched"} \/ tgt' = t,
           pc[Manager] \in {"resume1", "resume2", "detach3"} => tgt = t,
           dead' = dead, t # dead, pc'[Idle] = pc[Idle], l # "free",
           KernelInv(k', Detaching'),
           \A x \in Thread : x # t =>
              /\ k'.stat[x] = k.stat[x]
              /\ Contains(k'.timers, x) <=> Contains(k.timers, x)
              /\ \A q \in Queue : Contains(k'.wait[q], x) <=> Contains(k.wait[q], x),
           Contains(k'.timers, t) => t \in Sleepers,
           t \in Sleepers /\ k'.stat[t] = "SUSPEND"
              => Contains(k'.timers, t) \/ l \in {"resume1", "resume2"},
           \A q \in Queue : Contains(k'.wait[q], t) <=>
              q = "defunct" /\ t \in Dynamic /\ k'.stat[t] = "CLOSE" /\ l # "detach3",
           l \in {"resume1", "resume2"} =>
              k'.stat[t] = "SUSPEND" /\ ~Contains(k'.timers, t),
           l = "suspend" => t \in Resumable /\ k'.stat[t] \in {"READY", "SUSPEND"},
           l \in {"detach1", "detach2"} =>
              t \in Detachable /\ k'.stat[t] \in {"READY", "SUSPEND"},
           l = "detach3" => t \in Detachable \cap Dynamic /\ k'.stat[t] = "CLOSE",
           k'.nest = 0 /\ ~k'.owed /\ l # "sched" => k'.cur = Highest(k')
    PROVE  IInv'
<1>0. /\ t \in Thread /\ t # Idle /\ t # Manager /\ Manager \in Thread /\ Idle \in Thread
  BY KernelAssumption, ThreadAssumption DEF Worker
<1>1. Manager \notin Detaching'
  BY <1>0 DEF Detaching, InDetach
<1>2. RunnerReady'
  BY <1>0, <1>1 DEF IInv, RunnerReady
<1>3. CallValid'
  BY <1>0 DEF IInv, CallValid
<1>4. OnlySleepersTimed'
  BY DEF IInv, OnlySleepersTimed
<1>5. SleepersTimed'
  <2> SUFFICES ASSUME NEW x \in Thread
               PROVE  /\ Contains(k'.timers, x) => k'.stat[x] = "SUSPEND"
                      /\ x \in Sleepers /\ k'.stat[x] = "SUSPEND" /\ ~InResume(x)'
                            => Contains(k'.timers, x)
    BY DEF SleepersTimed
  <2>1. Contains(k'.timers, x) => k'.stat[x] = "SUSPEND"
    BY DEF KernelInv, TimersExact
  <2>2. CASE x = t
    BY <2>1, <2>2 DEF InResume
  <2>3. CASE x # t
    <3>1. ~InResume(x)
      BY <2>3 DEF InResume
    <3> QED BY <2>1, <2>3, <3>1 DEF IInv, SleepersTimed
  <2> QED BY <2>2, <2>3
<1>6. NobodyWaits'
  BY DEF IInv, NobodyWaits
<1>7. DefunctExact'
  <2>1. ASSUME NEW x \in Thread, x # t
        PROVE  /\ ~InDetach(x)'
               /\ k.stat[x] = "CLOSE" => ~InDetach(x)
    BY <2>1 DEF IInv, CallValid, InDetach
  <2>2. ASSUME NEW x \in Thread, x # t
        PROVE  Contains(k'.wait["defunct"], x) <=>
                 x \in Dynamic /\ k'.stat[x] = "CLOSE" /\ ~InDetach(x)' /\ x # dead'
    BY <2>1, <2>2, ThreadAssumption DEF IInv, DefunctExact
  <2>3. InDetach(t)' /\ k'.stat[t] = "CLOSE" <=> l = "detach3" /\ k'.stat[t] = "CLOSE"
    BY <1>0 DEF InDetach
  <2>4. Contains(k'.wait["defunct"], t) <=>
          t \in Dynamic /\ k'.stat[t] = "CLOSE" /\ ~InDetach(t)' /\ t # dead'
    BY <2>3, ThreadAssumption
  <2>5. dead' # Idle => dead' \in Dynamic /\ k'.stat[dead'] = "CLOSE" /\ ~InDetach(dead)'
    BY <2>1 DEF IInv, DefunctExact
  <2> QED BY <2>2, <2>4, <2>5 DEF DefunctExact
<1>8. Dispatched'
  BY DEF Dispatched
<1> QED BY <1>2, <1>3, <1>4, <1>5, <1>6, <1>7, <1>8 DEF IInv

(* The Manager begins or continues a call.                                 *)
LEMMA ManagerStep ==
    ASSUME IInv, NEW c \in PC \ {"sleep", "sched"}, At(Manager, c),
           NEW l \in PC, Goto(Manager, l)
    PROVE  /\ Manager \in Thread
           /\ k.cur = Manager /\ pc[Manager] = c /\ k.stat[Manager] = "READY"
           /\ pc' \in [Thread -> PC] /\ pc'[Manager] = l
           /\ k.nest = 0 /\ ~k.owed => Manager = Highest(k)
           /\ pc'[Idle] = pc[Idle]
           /\ l \notin {"detach1", "detach2", "detach3"} => Detaching' = {}
           /\ l \in {"detach1", "detach2", "detach3"} /\ tgt' \in Thread
                 => Detaching' = {tgt'}
<1>0. /\ Manager \in Thread /\ pc \in [Thread -> PC]
      /\ Idle \in Thread /\ Idle # Manager
  BY KernelAssumption, ThreadAssumption DEF IInv
<1>1. k.cur = Manager /\ pc[Manager] = c /\ k.stat[Manager] = "READY"
  BY <1>0, CallerFacts
<1>2. pc' \in [Thread -> PC] /\ pc'[Manager] = l /\ pc'[Idle] = pc[Idle]
  BY <1>0 DEF Goto
<1>3. k.nest = 0 /\ ~k.owed => Manager = Highest(k)
  BY <1>1 DEF IInv, Dispatched
<1> QED BY <1>0, <1>1, <1>2, <1>3 DEF Detaching, InDetach

(* Where a worker that is not READY stands.                                *)
LEMMA WorkerFacts ==
    ASSUME IInv, NEW t \in Thread, k.stat[t] # "READY"
    PROVE  /\ t \notin Dynamic \/ k.stat[t] # "CLOSE"
                 => t # dead /\ \A q \in Queue : ~Contains(k.wait[q], t)
           /\ k.stat[t] # "SUSPEND" => ~Contains(k.timers, t)
           /\ Contains(k.timers, t) => t \in Sleepers
           /\ \A p \in Prio : ~Contains(k.rdy[p], t)
<1>1. k.stat[t] # "SUSPEND" => ~Contains(k.timers, t)
  BY DEF IInv, KernelInv, TimersExact
<1>2. \A p \in Prio : ~Contains(k.rdy[p], t)
  BY DEF IInv, KernelInv, LinksExact
<1>3. t \notin Dynamic \/ k.stat[t] # "CLOSE"
         => \A q \in Queue : ~Contains(k.wait[q], t)
  BY DEF IInv, NobodyWaits, DefunctExact
<1>4. dead # Idle /\ t = dead => t \in Dynamic /\ k.stat[t] = "CLOSE"
  BY DEF IInv, DefunctExact
<1>5. t # Idle
  BY DEF IInv, RunnerReady
<1> QED BY <1>1, <1>2, <1>3, <1>4, <1>5 DEF IInv, OnlySleepersTimed

(* rt_thread_init and rt_thread_create.                                    *)
LEMMA ThreadInitInv ==
    ASSUME IInv, Discipline, NEW t \in Thread, ThreadInit(t)
    PROVE  IInv'
<1>0. /\ At(Manager, "run") /\ t \in Worker /\ k.stat[t] \in {"NONE", "CLOSE"}
      /\ t \in Dynamic => k.stat[t] = "NONE"
      /\ Goto(t, "run") /\ tgt' = tgt /\ dead' = dead
  BY DEF ThreadInit
<1>1. Manager \in Thread /\ t # Manager /\ pc \in [Thread -> PC] /\ tgt \in Thread
  BY <1>0, ThreadAssumption DEF Worker, IInv
<1>2. /\ k.cur = Manager /\ pc[Manager] = "run" /\ k.stat[Manager] = "READY"
      /\ Detaching = {}
      /\ k.nest = 0 /\ ~k.owed => Manager = Highest(k)
  BY <1>0, <1>1, CallerFacts, DetachingFacts DEF IInv, Dispatched
<1>3. /\ pc' \in [Thread -> PC] /\ pc'[Manager] = "run" /\ pc'[Idle] = pc[Idle]
      /\ Detaching' = {}
  BY <1>0, <1>1, <1>2, KernelAssumption DEF Goto, PC, Detaching, InDetach, Worker
<1>4. PICK m \in SUBSET Prio :
          k' = [k EXCEPT !.stat[t] = "INIT", !.prio[t] = InitPrio[t],
                         !.mask[t] = m, !.error[t] = "EOK",
                         !.slice[t] = Slice, !.left[t] = 0]
  <2>1. k.mask[t] \in SUBSET Prio
    BY DEF IInv, KernelInv, KernelType
  <2> QED BY <2>1, ThreadAssumption DEF ThreadInit
<1>5. k \in KernelType /\ KernelInv(k, {})
  BY <1>2 DEF IInv, KernelInv
<1>6. /\ k'.stat = [k.stat EXCEPT ![t] = "INIT"]
      /\ k'.prio = [k.prio EXCEPT ![t] = InitPrio[t]]
      /\ k'.mask = [k.mask EXCEPT ![t] = m]
      /\ k'.error = [k.error EXCEPT ![t] = "EOK"]
      /\ k'.slice = [k.slice EXCEPT ![t] = Slice]
      /\ k'.left = [k.left EXCEPT ![t] = 0]
      /\ k'.rdy = k.rdy /\ k'.group = k.group /\ k'.wait = k.wait
      /\ k'.timers = k.timers /\ k'.cur = k.cur /\ k'.nest = k.nest
      /\ k'.owed = k.owed
      /\ k' = [k EXCEPT !.stat = k'.stat, !.prio = k'.prio, !.mask = k'.mask,
                        !.error = k'.error, !.slice = k'.slice, !.left = k'.left]
  BY <1>4, <1>5 DEF KernelType
<1>7. /\ k'.stat \in [Thread -> Stat] /\ k'.prio \in [Thread -> Prio]
      /\ k'.mask \in [Thread -> SUBSET Prio] /\ k'.error \in [Thread -> Errno]
      /\ k'.slice \in [Thread -> 1..Slice] /\ k'.left \in [Thread -> Nat]
  <2>1. Slice \in 1..Slice /\ InitPrio[t] \in Prio /\ 0 \in Nat
    BY KernelAssumption, ThreadAssumption
  <2> QED BY <1>5, <1>6, <2>1 DEF KernelType, Stat, Errno
<1>8. k' \in KernelType
  BY <1>5, <1>6, <1>7 DEF KernelType
<1>9. \A x \in Thread : x # t => k'.stat[x] = k.stat[x] /\ k'.prio[x] = k.prio[x]
                                 /\ k'.mask[x] = k.mask[x]
  BY <1>5, <1>6 DEF KernelType
<1>10. k'.stat[t] = "INIT" /\ k.stat[t] # "READY" /\ k.stat[t] # "SUSPEND"
  BY <1>0, <1>5, <1>6 DEF KernelType
<1>11. /\ \A q \in Queue : ~Contains(k.wait[q], t)
       /\ ~Contains(k.timers, t) /\ t # dead
       /\ \A p \in Prio : ~Contains(k.rdy[p], t)
  BY <1>0, <1>10, WorkerFacts
<1>12. KernelInv(k', {})
  <2>1. GroupExact(k') /\ ListsExact(k')
    BY <1>5, <1>6 DEF KernelInv, GroupExact, ListsExact
  <2>2. LinksExact(k', {})
    BY <1>5, <1>6, <1>9, <1>10, <1>11 DEF KernelInv, LinksExact
  <2>3. MasksExact(k') /\ TimersExact(k')
    BY <1>5, <1>6, <1>9, <1>10, <1>11 DEF KernelInv, MasksExact, TimersExact
  <2> QED BY <1>8, <2>1, <2>2, <2>3 DEF KernelInv
<1>13. k'.nest = 0 /\ ~k'.owed => k'.cur = Highest(k')
  BY <1>2, <1>6 DEF Highest
<1>14. "run" \in PC
  BY DEF PC
<1> QED BY <1>0, <1>1, <1>2, <1>3, <1>6, <1>9, <1>10, <1>11, <1>12, <1>13, <1>14, TargetCall

(* rt_thread_startup up to its rt_thread_resume.                           *)
LEMMA StartupInv ==
    ASSUME IInv, Discipline, NEW t \in Thread, Startup(t)
    PROVE  IInv'
<1> DEFINE s == SetPriority(k, t, InitPrio[t])
<1>0. /\ At(Manager, "run") /\ t \in Worker /\ k.stat[t] = "INIT"
      /\ tgt' = t /\ dead' = dead
      /\ Goto(Manager, "resume1") /\ k' = [s EXCEPT !.stat[t] = "SUSPEND"]
      /\ InitPrio[t] \in Prio
  BY ThreadAssumption DEF Startup
<1>1. /\ k.cur = Manager /\ pc[Manager] = "run" /\ k.stat[Manager] = "READY"
      /\ pc' \in [Thread -> PC] /\ pc'[Manager] = "resume1"
      /\ k.nest = 0 /\ ~k.owed => Manager = Highest(k)
      /\ pc'[Idle] = pc[Idle] /\ Detaching' = {}
  BY <1>0, ManagerStep DEF PC
<1>2. KernelInv(k, {}) /\ k \in KernelType
  BY <1>1, DetachingFacts DEF IInv, KernelInv
<1>3. /\ \A q \in Queue : ~Contains(k.wait[q], t)
      /\ ~Contains(k.timers, t) /\ t # dead
      /\ \A p \in Prio : ~Contains(k.rdy[p], t)
  BY <1>0, WorkerFacts
<1>4. KernelInv(s, {})
  BY <1>0, <1>2, SetPriorityFacts
<1>5. /\ s.prio = [k.prio EXCEPT ![t] = InitPrio[t]]
      /\ s.mask = [k.mask EXCEPT ![t] = {InitPrio[t]}]
      /\ s.stat = k.stat /\ s.rdy = k.rdy /\ s.group = k.group /\ s.wait = k.wait
      /\ s.timers = k.timers /\ s.cur = k.cur /\ s.nest = k.nest /\ s.owed = k.owed
  BY <1>2 DEF SetPriority, KernelType
<1> HIDE DEF s
<1>6. s.mask[t] = {s.prio[t]} /\ s \in KernelType
  <2>1. s \in KernelType
    BY <1>4 DEF KernelInv
  <2>2. k.prio \in [Thread -> Prio] /\ k.mask \in [Thread -> SUBSET Prio]
    BY <1>2 DEF KernelType
  <2>3. t \in Thread
    BY <1>0 DEF Worker
  <2>4. s.prio[t] = InitPrio[t] /\ s.mask[t] = {InitPrio[t]}
    BY <1>5, <2>2, <2>3
  <2> QED BY <2>1, <2>4
<1>7. /\ k'.stat = [s.stat EXCEPT ![t] = "SUSPEND"]
      /\ k'.rdy = s.rdy /\ k'.group = s.group /\ k'.wait = s.wait
      /\ k'.timers = s.timers /\ k'.cur = s.cur /\ k'.nest = s.nest /\ k'.owed = s.owed
      /\ k'.prio = s.prio /\ k'.mask = s.mask
      /\ k' \in KernelType
  BY <1>0, <1>6 DEF KernelType, Stat
<1>8. \A x \in Thread : k'.stat[x] = IF x = t THEN "SUSPEND" ELSE k.stat[x]
  <2>1. k.stat \in [Thread -> Stat] /\ k'.stat = [k.stat EXCEPT ![t] = "SUSPEND"]
    BY <1>2, <1>5, <1>7 DEF KernelType
  <2> QED BY <2>1
<1>9. KernelInv(k', {})
  <2>1. GroupExact(k') /\ ListsExact(k')
    BY <1>4, <1>7 DEF KernelInv, GroupExact, ListsExact
  <2>2. LinksExact(k', {})
    <3>1. \A x \in Thread : k'.stat[x] = "READY" <=> k.stat[x] = "READY"
      BY <1>0, <1>8
    <3>2. k'.rdy = s.rdy /\ k'.wait = s.wait /\ k'.prio = s.prio /\ s.stat = k.stat
      BY <1>5, <1>7
    <3> QED BY <1>4, <3>1, <3>2 DEF KernelInv, LinksExact
  <2>3. MasksExact(k') /\ TimersExact(k')
    BY <1>3, <1>4, <1>5, <1>6, <1>7, <1>8 DEF KernelInv, MasksExact, TimersExact
  <2> QED BY <1>7, <2>1, <2>2, <2>3 DEF KernelInv
<1>10. k'.nest = 0 /\ ~k'.owed => k'.cur = Highest(k')
  BY <1>1, <1>5, <1>7 DEF Highest
<1>11. k'.stat[t] = "SUSPEND" /\ ~Contains(k'.timers, t) /\ k'.cur = Manager
       /\ \A q \in Queue : ~Contains(k'.wait[q], t)
  BY <1>1, <1>3, <1>5, <1>7, <1>8
<1>12. \A x \in Thread : x # t =>
          /\ k'.stat[x] = k.stat[x]
          /\ Contains(k'.timers, x) <=> Contains(k.timers, x)
          /\ \A q \in Queue : Contains(k'.wait[q], x) <=> Contains(k.wait[q], x)
  BY <1>5, <1>7, <1>8
<1>13. "resume1" \in PC \ {"sleep", "wake"}
  BY DEF PC
<1> QED BY <1>0, <1>1, <1>3, <1>9, <1>10, <1>11, <1>12, <1>13, TargetCall

(* A call whose first step only looks at its target.                       *)
LEMMA CallInv ==
    ASSUME IInv, NEW t \in Resumable, At(Manager, "run"), Resumable \cap Sleepers = {},
           NEW l \in {"resume1", "suspend"}, Goto(Manager, l), tgt' = t, dead' = dead,
           k' = k,
           k.stat[t] = IF l = "resume1" THEN "SUSPEND" ELSE "READY"
    PROVE  IInv'
<1>0. t \in Worker /\ t \in Thread
  BY ThreadAssumption DEF Worker
<1>1. /\ k.cur = Manager /\ pc[Manager] = "run" /\ k.stat[Manager] = "READY"
      /\ pc' \in [Thread -> PC] /\ pc'[Manager] = l
      /\ k.nest = 0 /\ ~k.owed => Manager = Highest(k)
      /\ pc'[Idle] = pc[Idle] /\ Detaching' = {}
  BY ManagerStep DEF PC
<1>2. KernelInv(k, {})
  BY <1>1, DetachingFacts DEF IInv
<1>3. t # dead /\ \A q \in Queue : ~Contains(k.wait[q], t)
  BY <1>0 DEF IInv, NobodyWaits, DefunctExact, Worker
<1>4. ~Contains(k.timers, t) /\ t \notin Sleepers
  BY <1>0 DEF IInv, OnlySleepersTimed
<1>5. l \in PC \ {"sleep", "wake"}
  BY DEF PC
<1> QED BY <1>0, <1>1, <1>2, <1>3, <1>4, <1>5, TargetCall

(* rt_thread_resume, the section that unlinks the target.                  *)
LEMMA ResumeFirstInv ==
    ASSUME IInv, Discipline, ResumeFirst
    PROVE  IInv'
<1> DEFINE t == tgt
<1>0. /\ At(Manager, "resume1") /\ Goto(Manager, "resume2")
      /\ tgt' = tgt /\ dead' = dead
      /\ k' = ResumeUnlink(k, t)
  BY DEF ResumeFirst
<1>1. /\ k.cur = Manager /\ pc[Manager] = "resume1" /\ k.stat[Manager] = "READY"
      /\ pc' \in [Thread -> PC] /\ pc'[Manager] = "resume2"
      /\ k.nest = 0 /\ ~k.owed => Manager = Highest(k)
      /\ pc'[Idle] = pc[Idle] /\ Detaching' = {}
  BY <1>0, ManagerStep DEF PC
<1>2. KernelInv(k, {}) /\ k \in KernelType
  BY <1>1, DetachingFacts DEF IInv, KernelInv
<1>3. t \in Worker /\ t \in Thread /\ k.stat[t] = "SUSPEND" /\ k.stat[t] # "READY"
      /\ ~Contains(k.timers, t)
  BY <1>1 DEF IInv, CallValid, Worker
<1>4. t # dead /\ \A q \in Queue : ~Contains(k.wait[q], t)
  BY <1>3, WorkerFacts
<1> DEFINE r == ResumeUnlink(k, t)
<1>5. /\ KernelInv(r, {})
      /\ r = [k EXCEPT !.wait = r.wait, !.timers = r.timers, !.left = r.left]
      /\ \A q \in Queue : \A x :
            Contains(r.wait[q], x) <=> Contains(k.wait[q], x) /\ x # t
      /\ \A x : Contains(r.timers, x) <=> Contains(k.timers, x) /\ x # t
  BY <1>2, <1>3, ResumeUnlinkFacts
<1>6. k' = r
  BY <1>0
<1> HIDE DEF r
<1>7. /\ r.stat = k.stat /\ r.rdy = k.rdy /\ r.group = k.group /\ r.cur = k.cur
      /\ r.nest = k.nest /\ r.owed = k.owed
  BY <1>2, <1>5 DEF KernelType
<1>8. k'.nest = 0 /\ ~k'.owed => k'.cur = Highest(k')
  BY <1>1, <1>6, <1>7 DEF Highest
<1>9. "resume2" \in PC \ {"sleep", "wake"}
  BY DEF PC
<1> QED BY <1>0, <1>1, <1>3, <1>4, <1>5, <1>6, <1>7, <1>8, <1>9, TargetCall

(* rt_thread_resume, the section that makes the target ready.              *)
LEMMA ResumeSecondInv ==
    ASSUME IInv, Discipline, ResumeSecond
    PROVE  IInv'
<1> DEFINE t == tgt
<1>0. /\ At(Manager, "resume2") /\ Goto(Manager, "sched")
      /\ tgt' = tgt /\ dead' = dead
      /\ k' = InsertThread(k, t)
  BY DEF ResumeSecond
<1>1. /\ k.cur = Manager /\ pc[Manager] = "resume2" /\ k.stat[Manager] = "READY"
      /\ pc' \in [Thread -> PC] /\ pc'[Manager] = "sched"
      /\ pc'[Idle] = pc[Idle] /\ Detaching' = {}
  BY <1>0, ManagerStep DEF PC
<1>2. KernelInv(k, {}) /\ k \in KernelType
  BY <1>1, DetachingFacts DEF IInv, KernelInv
<1>3. t \in Worker /\ t \in Thread /\ k.stat[t] = "SUSPEND" /\ ~Contains(k.timers, t)
  BY <1>1 DEF IInv, CallValid, Worker
<1>4. /\ t # dead /\ \A q \in Queue : ~Contains(k.wait[q], t)
      /\ \A p \in Prio : ~Contains(k.rdy[p], t)
  BY <1>3, WorkerFacts
<1>5. k.mask[t] = {k.prio[t]}
  BY <1>2, <1>3 DEF KernelInv, MasksExact
<1>6. KernelInv(k', {} \ {t})
  BY <1>0, <1>2, <1>3, <1>4, <1>5, InsertFacts
<1>7. /\ k'.stat = [k.stat EXCEPT ![t] = "READY"] /\ k'.timers = k.timers
      /\ k'.wait = k.wait /\ k'.cur = k.cur
  BY <1>0, <1>2 DEF InsertThread, KernelType
<1>8. \A x \in Thread : k'.stat[x] = IF x = t THEN "READY" ELSE k.stat[x]
  BY <1>2, <1>7 DEF KernelType
<1>9. "sched" \in PC \ {"sleep", "wake"} /\ {} \ {t} = {}
  BY DEF PC
<1>10. k'.stat[t] = "READY" /\ \A x \in Thread : x # t => k'.stat[x] = k.stat[x]
  BY <1>3, <1>8
<1> QED BY <1>0, <1>1, <1>3, <1>4, <1>6, <1>7, <1>9, <1>10, TargetCall

(* The section of rt_thread_suspend on another thread.                     *)
LEMMA SuspendTargetInv ==
    ASSUME IInv, Discipline, SuspendTarget
    PROVE  IInv'
<1> DEFINE t == tgt
<1>0. /\ At(Manager, "suspend") /\ Goto(Manager, "run") /\ tgt' = tgt /\ dead' = dead
      /\ k' = SuspendSection(k, t)
  BY DEF SuspendTarget
<1>1. /\ k.cur = Manager /\ pc[Manager] = "suspend" /\ k.stat[Manager] = "READY"
      /\ pc' \in [Thread -> PC] /\ pc'[Manager] = "run"
      /\ k.nest = 0 /\ ~k.owed => Manager = Highest(k)
      /\ pc'[Idle] = pc[Idle] /\ Detaching' = {}
  BY <1>0, ManagerStep DEF PC
<1>2. KernelInv(k, {})
  BY <1>1, DetachingFacts DEF IInv
<1>3. /\ t \in Worker /\ t \in Thread /\ t \in Resumable /\ t # Manager
      /\ k.stat[t] \in {"READY", "SUSPEND"}
  BY <1>1, ThreadAssumption DEF IInv, CallValid, Worker
<1>4. t \notin Sleepers /\ ~Contains(k.timers, t)
  BY <1>3 DEF IInv, OnlySleepersTimed, Discipline
<1>5. t # dead /\ \A q \in Queue : ~Contains(k.wait[q], t)
  BY <1>3 DEF IInv, NobodyWaits, DefunctExact, Worker
<1> DEFINE r == SuspendSection(k, t)
<1>6. /\ KernelInv(r, {})
      /\ \A x \in Thread : r.stat[x] = IF x = t THEN "SUSPEND" ELSE k.stat[x]
      /\ r.timers = k.timers /\ r.cur = k.cur /\ r.nest = k.nest
      /\ r.isr = k.isr /\ r.owed = k.owed
      /\ \A q \in Queue : \A x : Contains(r.wait[q], x) <=> Contains(k.wait[q], x)
      /\ Highest(r) = Highest(RemoveThread(k, t))
  BY <1>2, <1>3, <1>5, SuspendFacts
<1>7. k' = r
  BY <1>0
<1> HIDE DEF r
<1>8. k'.nest = 0 /\ ~k'.owed => k'.cur = Highest(k')
  BY <1>1, <1>2, <1>3, <1>6, <1>7, GroupNotEmpty, RemoveOther
<1>9. "run" \in PC \ {"sleep", "wake"}
  BY DEF PC
<1>10. k'.stat[t] = "SUSPEND" /\ \A x \in Thread : x # t => k'.stat[x] = k.stat[x]
  BY <1>3, <1>6, <1>7
<1>11. /\ KernelInv(k', Detaching') /\ k'.cur = Manager /\ tgt' \in Thread
       /\ \A x : Contains(k'.timers, x) <=> Contains(k.timers, x)
       /\ \A q \in Queue : \A x : Contains(k'.wait[q], x) <=> Contains(k.wait[q], x)
  BY <1>0, <1>1, <1>3, <1>6, <1>7
<1> QED BY <1>0, <1>1, <1>3, <1>4, <1>5, <1>8, <1>9, <1>10, <1>11, TargetCall

(* rt_thread_control(RT_THREAD_CTRL_CHANGE_PRIORITY).                      *)
LEMMA ControlPriorityInv ==
    ASSUME IInv, NEW t \in Thread, NEW p \in NewPrio, ControlPriority(t, p)
    PROVE  IInv'
<1>0. /\ At(Manager, "run") /\ k' = ChangePriority(k, t, p) /\ pc' = pc
      /\ tgt' = tgt /\ dead' = dead
      /\ Manager \in Thread /\ p \in Prio
  BY ThreadAssumption DEF ControlPriority
<1>1. pc[Manager] = "run" /\ Detaching = {} /\ Detaching' = Detaching
  BY <1>0, DetachingFacts DEF At, Detaching, InDetach
<1>2. KernelInv(k, Detaching) /\ t \notin Detaching
  BY <1>1 DEF IInv
<1>3. /\ KernelInv(k', Detaching)
      /\ k'.stat = k.stat /\ k'.timers = k.timers
      /\ k'.cur = k.cur /\ k'.nest = k.nest
      /\ k'.owed = TRUE
      /\ \A q \in Queue : \A x : Contains(k'.wait[q], x) <=> Contains(k.wait[q], x)
  <2> DEFINE r == ChangePriority(k, t, p)
  <2>1. p \in Prio
    BY <1>0
  <2>2. /\ KernelInv(r, Detaching)
        /\ r.stat = k.stat /\ r.timers = k.timers
        /\ r.cur = k.cur /\ r.nest = k.nest /\ r.isr = k.isr
        /\ r.owed = TRUE
        /\ \A q \in Queue : \A x : Contains(r.wait[q], x) <=> Contains(k.wait[q], x)
    BY <1>2, <2>1, ChangePriorityFacts
  <2>3. k' = r
    BY <1>0
  <2> HIDE DEF r
  <2> QED BY <2>2, <2>3
<1>4. RunnerReady' /\ CallValid'
  BY <1>0, <1>1, <1>3 DEF IInv, RunnerReady, CallValid
<1>5. OnlySleepersTimed' /\ SleepersTimed'
  BY <1>0, <1>3 DEF IInv, OnlySleepersTimed, SleepersTimed, InResume
<1>6. NobodyWaits' /\ DefunctExact'
  BY <1>0, <1>3, ThreadAssumption DEF IInv, NobodyWaits, DefunctExact, InDetach
<1>7. Dispatched'
  BY <1>3 DEF Dispatched
<1> QED BY <1>0, <1>1, <1>3, <1>4, <1>5, <1>6, <1>7 DEF IInv

(* rt_thread_detach and rt_thread_delete: leaving the queues.              *)
LEMMA DetachRemoveInv ==
    ASSUME IInv, Discipline, NEW t \in Thread, DetachRemove(t)
    PROVE  IInv'
<1>0. /\ At(Manager, "run") /\ t \in Detachable /\ k.stat[t] \in {"READY", "SUSPEND"}
      /\ k' = RemoveThread(k, t) /\ tgt' = t /\ dead' = dead /\ Goto(Manager, "detach1")
      /\ t \in Worker /\ t # Manager
  BY ThreadAssumption DEF DetachRemove, Discipline, Worker
<1>1. /\ k.cur = Manager /\ pc[Manager] = "run" /\ k.stat[Manager] = "READY"
      /\ pc' \in [Thread -> PC] /\ pc'[Manager] = "detach1"
      /\ k.nest = 0 /\ ~k.owed => Manager = Highest(k)
      /\ pc'[Idle] = pc[Idle] /\ Detaching' = {t}
  BY <1>0, ManagerStep DEF PC
<1>2. KernelInv(k, {}) /\ k \in KernelType /\ ListsExact(k)
  BY <1>1, DetachingFacts DEF IInv, KernelInv
<1> DEFINE r == RemoveThread(k, t)
<1>3. /\ KernelInv(r, {} \cup {t})
      /\ r = [k EXCEPT !.rdy = r.rdy, !.wait = r.wait, !.group = r.group]
  BY <1>0, <1>2, RemoveFacts
<1>4. r.wait = Unlink(k, t).wait
  BY <1>2 DEF RemoveThread, Unlink, KernelType
<1>5. \A q \in Queue : \A x : Contains(r.wait[q], x) <=> Contains(k.wait[q], x) /\ x # t
  BY <1>2, <1>4, UnlinkFacts
<1>6. k' = r
  BY <1>0
<1>7. k'.nest = 0 /\ ~k'.owed => k'.cur = Highest(k')
  <2>1. k.nest = 0 /\ ~k.owed => Highest(r) = Manager
    BY <1>0, <1>1, <1>2, GroupNotEmpty, RemoveOther
  <2> HIDE DEF r
  <2>2. r.nest = k.nest /\ r.owed = k.owed /\ r.cur = k.cur
    BY <1>2, <1>3 DEF KernelType
  <2> QED BY <1>1, <1>6, <2>1, <2>2
<1> HIDE DEF r
<1>8. /\ k'.stat = k.stat /\ k'.timers = k.timers /\ k'.cur = k.cur
  BY <1>2, <1>3, <1>6 DEF KernelType
<1>9. t # dead /\ \A q \in Queue : ~Contains(k'.wait[q], t)
  BY <1>0, <1>5, <1>6 DEF IInv, DefunctExact, Worker
<1>10. /\ k'.stat[t] \in {"READY", "SUSPEND"}
       /\ ~Contains(k'.timers, t) /\ t \notin Sleepers
  BY <1>0, <1>8 DEF IInv, OnlySleepersTimed, Discipline
<1>11. \A x \in Thread : x # t =>
          /\ k'.stat[x] = k.stat[x]
          /\ Contains(k'.timers, x) <=> Contains(k.timers, x)
          /\ \A q \in Queue : Contains(k'.wait[q], x) <=> Contains(k.wait[q], x)
  BY <1>5, <1>6, <1>8
<1>12. KernelInv(k', Detaching')
  <2>1. {} \cup {t} = {t}
    OBVIOUS
  <2> QED BY <1>1, <1>3, <1>6, <2>1
<1>13. "detach1" \in PC \ {"sleep", "wake"}
  BY DEF PC
<1>14. \A q \in Queue : Contains(k'.wait[q], t) <=>
          q = "defunct" /\ t \in Dynamic /\ k'.stat[t] = "CLOSE"
  BY <1>9, <1>10
<1> QED BY <1>0, <1>1, <1>7, <1>8, <1>9, <1>10, <1>11, <1>12, <1>13, <1>14, TargetCall

(* rt_thread_detach and rt_thread_delete: the timer is removed.            *)
LEMMA DetachTimerInv ==
    ASSUME IInv, Discipline, DetachTimer
    PROVE  IInv'
<1> DEFINE t == tgt
           r == TimerStop(k, t)
<1>0. /\ At(Manager, "detach1") /\ Goto(Manager, "detach2")
      /\ tgt' = tgt /\ dead' = dead /\ k' = r
      /\ tgt \in Thread
  BY DEF DetachTimer, IInv
<1>1. /\ k.cur = Manager /\ pc[Manager] = "detach1" /\ k.stat[Manager] = "READY"
      /\ pc' \in [Thread -> PC] /\ pc'[Manager] = "detach2"
      /\ k.nest = 0 /\ ~k.owed => Manager = Highest(k)
      /\ pc'[Idle] = pc[Idle] /\ Detaching' = {t}
  BY <1>0, ManagerStep DEF PC
<1>2. KernelInv(k, {t}) /\ k \in KernelType
  BY <1>1, DetachingFacts DEF IInv, KernelInv
<1>3. t \in Worker /\ t \in Detachable /\ k.stat[t] \in {"READY", "SUSPEND"}
  BY <1>1, ThreadAssumption DEF IInv, CallValid
<1>4. /\ KernelInv(r, {t})
      /\ r = [k EXCEPT !.timers = r.timers, !.left = r.left]
      /\ \A x : Contains(r.timers, x) <=> Contains(k.timers, x) /\ x # t
  BY <1>0, <1>2, TimerStopFacts
<1> HIDE DEF r
<1>5. /\ r.stat = k.stat /\ r.wait = k.wait /\ r.rdy = k.rdy /\ r.group = k.group
      /\ r.cur = k.cur /\ r.nest = k.nest /\ r.owed = k.owed
  BY <1>2, <1>4 DEF KernelType
<1>6. k'.nest = 0 /\ ~k'.owed => k'.cur = Highest(k')
  BY <1>0, <1>1, <1>5 DEF Highest
<1>7. t \notin Sleepers
  BY <1>3 DEF Discipline
<1>8. "detach2" \in PC \ {"sleep", "wake"}
  BY DEF PC
<1>9. t # dead /\ \A q \in Queue : ~Contains(k.wait[q], t)
  BY <1>0, <1>3 DEF IInv, NobodyWaits, DefunctExact, Worker
<1> QED BY <1>0, <1>1, <1>3, <1>4, <1>5, <1>6, <1>7, <1>8, <1>9, TargetCall

(* A thread that is on no list can be counted as leaving its lists.        *)
LEMMA OffAllLists ==
    ASSUME NEW s, NEW D, NEW t \in Thread, s.stat[t] # "READY",
           \A q \in Queue : ~Contains(s.wait[q], t)
    PROVE  KernelInv(s, D) <=> KernelInv(s, D \cup {t})
<1>1. LinksExact(s, D) <=> LinksExact(s, D \cup {t})
  BY DEF LinksExact
<1> QED BY <1>1 DEF KernelInv

(* rt_thread_detach and rt_thread_delete: the thread is closed.            *)
LEMMA DetachCloseInv ==
    ASSUME IInv, Discipline, DetachClose
    PROVE  IInv'
<1> DEFINE t == tgt
           l == IF t \in Dynamic THEN "detach3" ELSE "run"
           n == [k EXCEPT !.stat[t] = "CLOSE"]
<1>0. /\ At(Manager, "detach2") /\ Goto(Manager, l) /\ tgt' = tgt /\ dead' = dead
      /\ k' = n /\ tgt \in Thread
  BY DEF DetachClose, IInv
<1>a. l \in PC \ {"sleep", "wake", "free"} /\ l \in {"detach3", "run"}
      /\ (l = "detach3" <=> t \in Dynamic)
  BY DEF PC
<1> HIDE DEF l
<1>1. /\ k.cur = Manager /\ pc[Manager] = "detach2" /\ k.stat[Manager] = "READY"
      /\ pc' \in [Thread -> PC] /\ pc'[Manager] = l
      /\ k.nest = 0 /\ ~k.owed => Manager = Highest(k)
      /\ pc'[Idle] = pc[Idle] /\ Detaching' = IF l = "detach3" THEN {t} ELSE {}
  BY <1>0, <1>a, ManagerStep DEF PC
<1>2. KernelInv(k, {} \cup {t}) /\ k \in KernelType
  BY <1>1, DetachingFacts DEF IInv, KernelInv
<1>3. t \in Worker /\ t \in Detachable /\ k.stat[t] \in {"READY", "SUSPEND"}
  BY <1>1, ThreadAssumption DEF IInv, CallValid
<1>4. /\ ~Contains(k.timers, t) /\ \A q \in Queue : ~Contains(k.wait[q], t)
      /\ t # dead /\ t \notin Sleepers
  BY <1>0, <1>3 DEF IInv, NobodyWaits, DefunctExact, OnlySleepersTimed, Discipline, Worker
<1>5. /\ n.stat = [k.stat EXCEPT ![t] = "CLOSE"] /\ n.timers = k.timers
      /\ n.wait = k.wait /\ n.rdy = k.rdy /\ n.group = k.group
      /\ n.cur = k.cur /\ n.nest = k.nest /\ n.owed = k.owed
  BY <1>2 DEF KernelType
<1>6. KernelInv(n, {} \ {t})
  <2>1. "CLOSE" \in Stat \ {"READY"}
    BY DEF Stat
  <2> HIDE DEF n, t
  <2>2. t \in Thread
    BY <1>0 DEF t
  <2> QED BY <1>2, <1>4, <2>1, <2>2, SetStatFacts DEF n
<1> HIDE DEF n
<1>7. \A x \in Thread : n.stat[x] = IF x = t THEN "CLOSE" ELSE k.stat[x]
  BY <1>2, <1>5 DEF KernelType
<1>8. k'.stat[t] = "CLOSE" /\ \A q \in Queue : ~Contains(k'.wait[q], t)
  BY <1>0, <1>4, <1>5, <1>7
<1>9. KernelInv(k', Detaching')
  <2>1. KernelInv(n, {})
    <3>1. {} \ {t} = {}
      OBVIOUS
    <3> QED BY <1>6, <3>1
  <2>2. KernelInv(n, {} \cup {t})
    <3>1. n.stat[t] # "READY" /\ \A q \in Queue : ~Contains(n.wait[q], t)
      BY <1>0, <1>8
    <3> QED BY <1>0, <2>1, <3>1, OffAllLists
  <2>3. {} \cup {t} = {t}
    OBVIOUS
  <2> QED BY <1>0, <1>1, <2>1, <2>2, <2>3
<1>10. k'.nest = 0 /\ ~k'.owed => k'.cur = Highest(k')
  BY <1>0, <1>1, <1>5 DEF Highest
<1>11. \A x \in Thread : x # t =>
          /\ k'.stat[x] = k.stat[x]
          /\ Contains(k'.timers, x) <=> Contains(k.timers, x)
          /\ \A q \in Queue : Contains(k'.wait[q], x) <=> Contains(k.wait[q], x)
  BY <1>0, <1>5, <1>7
<1>12. k'.cur = Manager /\ ~Contains(k'.timers, t) /\ tgt' = t
  BY <1>0, <1>1, <1>4, <1>5
<1>13. \A q \in Queue : Contains(k'.wait[q], t) <=>
          q = "defunct" /\ t \in Dynamic /\ k'.stat[t] = "CLOSE" /\ l # "detach3"
  BY <1>a, <1>8
<1> HIDE DEF t
<1> QED BY <1>0, <1>a, <1>1, <1>3, <1>4, <1>8, <1>9, <1>10, <1>11, <1>12, <1>13, TargetCall

(* rt_thread_delete: the thread is handed to the idle thread.              *)
LEMMA DetachBuryInv ==
    ASSUME IInv, Discipline, DetachBury
    PROVE  IInv'
<1> DEFINE t == tgt
<1>0. /\ At(Manager, "detach3") /\ Goto(Manager, "run") /\ tgt' = tgt /\ dead' = dead
      /\ k' = Bury(k, t) /\ tgt \in Thread
  BY DEF DetachBury, IInv
<1>1. /\ k.cur = Manager /\ pc[Manager] = "detach3" /\ k.stat[Manager] = "READY"
      /\ pc' \in [Thread -> PC] /\ pc'[Manager] = "run"
      /\ k.nest = 0 /\ ~k.owed => Manager = Highest(k)
      /\ pc'[Idle] = pc[Idle] /\ Detaching' = {}
  BY <1>0, ManagerStep DEF PC
<1>2. KernelInv(k, {} \cup {t})
  BY <1>1, DetachingFacts DEF IInv
<1>3. t \in Worker /\ t \in Detachable /\ t \in Dynamic /\ k.stat[t] = "CLOSE"
  BY <1>1, ThreadAssumption DEF IInv, CallValid
<1>4. /\ t # dead /\ t \notin Sleepers
      /\ ~Contains(k.timers, t) /\ \A q \in Queue : ~Contains(k.wait[q], t)
  <2>1. InDetach(t)
    BY <1>1 DEF InDetach
  <2> QED BY <1>0, <1>3, <2>1 DEF IInv, NobodyWaits, DefunctExact, OnlySleepersTimed,
           Discipline, Worker
<1>5. KernelInv(k, {})
  BY <1>0, <1>2, <1>3, <1>4, OffAllLists
<1>6. /\ KernelInv(k', {})
      /\ k'.stat = k.stat /\ k'.timers = k.timers /\ k'.cur = k.cur
      /\ k'.nest = k.nest /\ k'.rdy = k.rdy /\ k'.group = k.group /\ k'.owed = k.owed
      /\ \A q \in Queue : \A x : Contains(k'.wait[q], x) <=>
            Contains(k.wait[q], x) \/ (x = t /\ q = "defunct" /\ t \in Dynamic)
  <2>1. ~Contains(k.wait["defunct"], t)
    BY <1>4, ThreadAssumption
  <2> QED BY <1>0, <1>3, <1>5, <2>1, BuryFacts
<1>7. k'.nest = 0 /\ ~k'.owed => k'.cur = Highest(k')
  BY <1>1, <1>6 DEF Highest
<1>8. "run" \in PC \ {"sleep", "wake"}
  BY DEF PC
<1>9. \A x \in Thread : x # t =>
          /\ k'.stat[x] = k.stat[x]
          /\ Contains(k'.timers, x) <=> Contains(k.timers, x)
          /\ \A q \in Queue : Contains(k'.wait[q], x) <=> Contains(k.wait[q], x)
  BY <1>6
<1>10. /\ k'.stat[t] = "CLOSE" /\ ~Contains(k'.timers, t) /\ k'.cur = Manager
       /\ \A q \in Queue : Contains(k'.wait[q], t) <=> q = "defunct" /\ t \in Dynamic
  BY <1>1, <1>3, <1>4, <1>6
<1> QED BY <1>0, <1>1, <1>3, <1>4, <1>6, <1>7, <1>8, <1>9, <1>10, TargetCall

-----------------------------------------------------------------------------
(* The steps that move the processor: rt_schedule, the clock, time-outs.   *)

(* What is left to show of a step that wakes at most one sleeper, h, and   *)
(* otherwise only chooses who runs.                                        *)
LEMMA DispatchStep ==
    ASSUME IInv, NEW h, tgt' = tgt, dead' = dead, Detaching' = Detaching,
           pc'[Idle] = "free" <=> pc[Idle] = "free",
           pc' \in [Thread -> PC],
           \A x : InResume(x)' = InResume(x),
           \A c \in {"resume1", "resume2", "suspend", "detach1", "detach2", "detach3"} :
              pc'[Manager] = c <=> pc[Manager] = c,
           KernelInv(k', Detaching),
           \A x \in Thread : x # h =>
              /\ k'.stat[x] = k.stat[x]
              /\ Contains(k'.timers, x) <=> Contains(k.timers, x)
              /\ \A q \in Queue : Contains(k'.wait[q], x) <=> Contains(k.wait[q], x),
           h \in Thread =>
              /\ Contains(k.timers, h) /\ k'.stat[h] = "READY"
              /\ ~Contains(k'.timers, h)
              /\ \A q \in Queue : ~Contains(k'.wait[q], h),
           k'.cur \in Thread \ Detaching,
           \/ k'.stat[k'.cur] = "READY"
           \/ k'.nest = 0 /\ pc'[k'.cur] \in {"sleep", "sched"} /\ k'.cur = k.cur,
           k'.nest = 0 /\ ~k'.owed /\ pc'[k'.cur] \notin {"sleep", "sched"}
              => k'.cur = Highest(k')
    PROVE  IInv'
<1>0. Idle \in Thread /\ tgt \in Thread
  BY KernelAssumption DEF IInv
<1>1. RunnerReady'
  BY <1>0 DEF IInv, RunnerReady
<1>2. CallValid'
  <2>0. \A x \in Thread : k.stat[x] = "CLOSE" => x # h
    BY DEF IInv, SleepersTimed
  <2>1. pc[Manager] \in {"resume1", "resume2"} =>
          tgt # h /\ k.stat[tgt] = "SUSPEND" /\ k.cur # tgt /\ k'.cur # tgt
    BY <1>0 DEF IInv, CallValid
  <2>2. pc'[Manager] \in {"resume1", "resume2"} =>
          /\ tgt' \in Worker /\ k'.stat[tgt'] = "SUSPEND" /\ k'.cur # tgt'
          /\ ~Contains(k'.timers, tgt')
    BY <1>0, <2>1 DEF IInv, CallValid
  <2>3. pc'[Manager] = "suspend" =>
          tgt' \in Resumable /\ k'.stat[tgt'] \in {"READY", "SUSPEND"}
    BY <1>0 DEF IInv, CallValid
  <2>4. pc'[Manager] \in {"detach1", "detach2"} =>
          tgt' \in Detachable /\ k'.stat[tgt'] \in {"READY", "SUSPEND"}
    BY <1>0 DEF IInv, CallValid
  <2>5. pc'[Manager] = "detach3" =>
          tgt' \in Detachable \cap Dynamic /\ k'.stat[tgt'] = "CLOSE"
    BY <1>0, <2>0 DEF IInv, CallValid
  <2>6. pc'[Idle] = "free" <=> dead' # Idle
    BY DEF IInv, CallValid
  <2> QED BY <2>2, <2>3, <2>4, <2>5, <2>6 DEF CallValid
<1>3. OnlySleepersTimed'
  BY DEF IInv, OnlySleepersTimed
<1>4. SleepersTimed'
  BY DEF IInv, SleepersTimed
<1>5. NobodyWaits'
  BY DEF IInv, NobodyWaits
<1>6. DefunctExact'
  <2>1. \A x \in Thread : InDetach(x)' <=> InDetach(x)
    BY DEF Detaching
  <2>2. \A x \in Thread : k.stat[x] = "CLOSE" => x # h
    BY DEF IInv, SleepersTimed
  <2>3. \A x \in Thread : k'.stat[x] = "CLOSE" <=> k.stat[x] = "CLOSE"
    BY <2>2
  <2>4. ASSUME NEW x \in Thread
        PROVE  Contains(k'.wait["defunct"], x) <=> Contains(k.wait["defunct"], x)
    <3>1. CASE x = h
      <4>1. k.stat[x] # "CLOSE"
        BY <2>2, <3>1
      <4> QED BY <3>1, <4>1, ThreadAssumption DEF IInv, DefunctExact
    <3>2. CASE x # h
      BY <3>2, ThreadAssumption
    <3> QED BY <3>1, <3>2
  <2> QED BY <1>0, <2>1, <2>3, <2>4 DEF IInv, DefunctExact
<1>7. Dispatched'
  BY DEF Dispatched
<1> QED BY <1>0, <1>1, <1>2, <1>3, <1>4, <1>5, <1>6, <1>7 DEF IInv

(* The rt_schedule that ends a call.                                       *)
LEMMA CallScheduleInv ==
    ASSUME IInv, NEW t \in Thread, CallSchedule(t)
    PROVE  IInv'
<1>0. PICK l \in {"run", "wake"} : Goto(t, l)
  BY DEF CallSchedule
<1>1. /\ k.cur = t /\ pc[t] \in {"sleep", "sched"} /\ k' = Schedule(k)
      /\ tgt' = tgt /\ dead' = dead
  BY DEF CallSchedule, At, Running
<1>2. KernelInv(k, Detaching) /\ k \in KernelType /\ k.group # {}
  BY GroupNotEmpty DEF IInv, KernelInv
<1>3. /\ KernelInv(k', Detaching)
      /\ k' = [k EXCEPT !.cur = k'.cur, !.owed = k'.owed]
      /\ k.nest = 0 => k'.cur = Highest(k) /\ k'.owed = FALSE
      /\ k.nest # 0 => k' = k
  BY <1>1, <1>2, ScheduleFacts
<1>4. /\ k'.stat = k.stat /\ k'.timers = k.timers /\ k'.wait = k.wait
      /\ k'.nest = k.nest /\ k'.rdy = k.rdy /\ k'.group = k.group
  BY <1>2, <1>3 DEF KernelType
<1>5. Highest(k') = Highest(k)
  BY <1>4 DEF Highest
<1>6. Highest(k) \in Thread /\ k.stat[Highest(k)] = "READY" /\ Highest(k) \notin Detaching
  BY <1>2, HighestFacts
<1>7. k'.cur \in Thread \ Detaching /\ k'.stat[k'.cur] = "READY"
  BY <1>1, <1>3, <1>4, <1>6 DEF IInv, RunnerReady
<1>8. k'.nest = 0 => k'.cur = Highest(k')
  BY <1>3, <1>4, <1>5
<1>9. /\ Detaching' = Detaching /\ pc' \in [Thread -> PC]
      /\ pc'[Idle] = "free" <=> pc[Idle] = "free"
      /\ \A x : InResume(x)' = InResume(x)
      /\ \A c \in {"resume1", "resume2", "suspend", "detach1", "detach2", "detach3"} :
            pc'[Manager] = c <=> pc[Manager] = c
  BY <1>0, <1>1, OwnStep
<1>10. Wild \notin Thread
  BY KernelAssumption
<1> QED BY <1>1, <1>3, <1>4, <1>7, <1>8, <1>9, <1>10, DispatchStep

(* rt_thread_idle_excute takes the first defunct thread off the list.      *)
LEMMA IdleUnlinkInv ==
    ASSUME IInv, IdleUnlink
    PROVE  IInv'
<1> DEFINE h == Head(k.wait["defunct"])
           u == Unlink(k, h)
<1>0. /\ At(Idle, "run") /\ k.wait["defunct"] # << >> /\ k' = u /\ dead' = h
      /\ Goto(Idle, "free") /\ tgt' = tgt
  BY DEF IdleUnlink
<1>1. /\ "defunct" \in Queue /\ Idle \in Thread /\ Manager \in Thread /\ Idle # Manager
      /\ Idle \notin Dynamic
  BY KernelAssumption, ThreadAssumption DEF Worker
<1>2. KernelInv(k, Detaching) /\ k \in KernelType
  BY DEF IInv, KernelInv
<1>3. /\ h \in Thread /\ h \in Dynamic /\ k.stat[h] = "CLOSE" /\ k.stat[h] # "READY"
      /\ ~InDetach(h)
  <2>1. k.wait["defunct"] \in Seq(Thread)
    BY <1>1, <1>2 DEF KernelType
  <2>2. h \in Thread /\ Contains(k.wait["defunct"], h)
    BY <1>0, <2>1, EmptyFacts
  <2> QED BY <2>2 DEF IInv, DefunctExact
<1> HIDE DEF h
<1>4. /\ KernelInv(u, Detaching)
      /\ u = [k EXCEPT !.wait = u.wait]
      /\ \A q \in Queue : \A x :
            Contains(u.wait[q], x) <=> Contains(k.wait[q], x) /\ x # h
  BY <1>2, <1>3, UnlinkWaiter
<1> HIDE DEF u
<1>5. /\ k'.stat = k.stat /\ k'.timers = k.timers /\ k'.rdy = k.rdy
      /\ k'.group = k.group /\ k'.cur = k.cur /\ k'.nest = k.nest /\ k'.owed = k.owed
  BY <1>0, <1>2, <1>4 DEF KernelType
<1>6. /\ pc' \in [Thread -> PC] /\ pc'[Idle] = "free" /\ pc'[Manager] = pc[Manager]
      /\ k.cur = Idle /\ pc[Idle] = "run"
  BY <1>0, <1>1 DEF IInv, Goto, PC, At, Running
<1>7. dead = Idle
  BY <1>6 DEF IInv, CallValid
<1>8. /\ Detaching' = Detaching
      /\ \A x : (InDetach(x)' <=> InDetach(x)) /\ (InResume(x)' <=> InResume(x))
  BY <1>0, <1>6 DEF Detaching, InDetach, InResume
<1>9. RunnerReady'
  BY <1>5, <1>6, <1>8 DEF IInv, RunnerReady
<1>10. CallValid'
  BY <1>0, <1>1, <1>3, <1>5, <1>6 DEF IInv, CallValid
<1>11. OnlySleepersTimed' /\ SleepersTimed'
  BY <1>5, <1>8 DEF IInv, OnlySleepersTimed, SleepersTimed
<1>12. NobodyWaits'
  BY <1>0, <1>4 DEF IInv, NobodyWaits
<1>13. DefunctExact'
  <2>1. ASSUME NEW x \in Thread
        PROVE  Contains(k'.wait["defunct"], x) <=>
                 x \in Dynamic /\ k'.stat[x] = "CLOSE" /\ ~InDetach(x)' /\ x # dead'
    BY <1>0, <1>1, <1>4, <1>5, <1>7, <1>8 DEF IInv, DefunctExact
  <2>2. dead' \in Dynamic /\ k'.stat[dead'] = "CLOSE" /\ ~InDetach(dead)'
    BY <1>0, <1>3, <1>5, <1>6 DEF InDetach
  <2> QED BY <2>1, <2>2 DEF DefunctExact
<1>14. Dispatched'
  BY <1>5, <1>6 DEF IInv, Dispatched, Highest
<1>15. KernelInv(k', Detaching') /\ tgt' \in Thread /\ dead' \in Thread
  BY <1>0, <1>3, <1>4, <1>8 DEF IInv
<1> QED BY <1>6, <1>9, <1>10, <1>11, <1>12, <1>13, <1>14, <1>15 DEF IInv

(* rt_thread_idle_excute frees the thread it has taken.                    *)
LEMMA IdleFreeInv ==
    ASSUME IInv, IdleFree
    PROVE  IInv'
<1> DEFINE h == dead
           n == [k EXCEPT !.stat[h] = "NONE"]
<1>0. /\ At(Idle, "free") /\ k' = n /\ dead' = Idle
      /\ Goto(Idle, "run") /\ tgt' = tgt
  BY DEF IdleFree
<1>1. /\ "defunct" \in Queue /\ Idle \in Thread /\ Manager \in Thread /\ Idle # Manager
      /\ Idle \notin Dynamic
  BY KernelAssumption, ThreadAssumption DEF Worker
<1>2. KernelInv(k, Detaching) /\ k \in KernelType
  BY DEF IInv, KernelInv
<1>3. /\ pc' \in [Thread -> PC] /\ pc'[Idle] = "run" /\ pc'[Manager] = pc[Manager]
      /\ k.cur = Idle /\ pc[Idle] = "free"
  BY <1>0, <1>1 DEF IInv, Goto, PC, At, Running
<1>4. /\ h \in Thread /\ h # Idle /\ h \in Dynamic /\ k.stat[h] = "CLOSE" /\ ~InDetach(h)
      /\ h \notin Detaching
  BY <1>3 DEF IInv, CallValid, DefunctExact, Detaching
<1>5. /\ ~Contains(k.timers, h) /\ \A q \in Queue : ~Contains(k.wait[q], h)
  BY <1>4 DEF IInv, KernelInv, TimersExact, NobodyWaits, DefunctExact
<1>6. /\ n.stat = [k.stat EXCEPT ![h] = "NONE"] /\ n.timers = k.timers
      /\ n.wait = k.wait /\ n.rdy = k.rdy /\ n.group = k.group
      /\ n.cur = k.cur /\ n.nest = k.nest /\ n.owed = k.owed
  BY <1>2 DEF KernelType
<1>7. KernelInv(n, Detaching)
  <2> DEFINE D == Detaching
  <2>1. "NONE" \in Stat \ {"READY"}
    BY DEF Stat
  <2>2. D \ {h} = D /\ KernelInv(k, D)
    BY <1>2, <1>4
  <2> HIDE DEF n, h, D
  <2>3. KernelInv(k, D \cup {h})
    BY <1>4, <1>5, <2>2, OffAllLists
  <2>4. KernelInv(n, D \ {h})
    BY <1>4, <1>5, <2>1, <2>3, SetStatFacts DEF n
  <2> QED BY <2>2, <2>4 DEF D
<1> HIDE DEF n
<1>8. \A x \in Thread : k'.stat[x] = IF x = h THEN "NONE" ELSE k.stat[x]
  BY <1>0, <1>2, <1>6 DEF KernelType
<1>9. /\ Detaching' = Detaching
      /\ \A x : (InDetach(x)' <=> InDetach(x)) /\ (InResume(x)' <=> InResume(x))
  BY <1>0, <1>3 DEF Detaching, InDetach, InResume
<1>10. RunnerReady'
  BY <1>0, <1>1, <1>3, <1>4, <1>6, <1>8, <1>9 DEF IInv, RunnerReady
<1>11. CallValid'
  <2>1. pc[Manager] \in {"resume1", "resume2", "suspend", "detach1", "detach2", "detach3"}
           => tgt # h
    BY <1>4 DEF IInv, CallValid, InDetach
  <2>2. k'.stat[tgt] = IF tgt = h THEN "NONE" ELSE k.stat[tgt]
    BY <1>8 DEF IInv
  <2> QED BY <1>0, <1>3, <1>6, <2>1, <2>2 DEF IInv, CallValid
<1>12. OnlySleepersTimed' /\ SleepersTimed'
  BY <1>0, <1>5, <1>6, <1>8, <1>9 DEF IInv, OnlySleepersTimed, SleepersTimed
<1>13. NobodyWaits'
  BY <1>0, <1>6 DEF IInv, NobodyWaits
<1>14. DefunctExact'
  <2>1. ASSUME NEW x \in Thread
        PROVE  Contains(k'.wait["defunct"], x) <=>
                 x \in Dynamic /\ k'.stat[x] = "CLOSE" /\ ~InDetach(x)' /\ x # dead'
    BY <1>0, <1>1, <1>6, <1>8, <1>9 DEF IInv, DefunctExact
  <2> QED BY <1>0, <2>1 DEF DefunctExact
<1>15. Dispatched'
  BY <1>0, <1>3, <1>6 DEF IInv, Dispatched, Highest
<1>16. KernelInv(k', Detaching') /\ tgt' \in Thread /\ dead' \in Thread
  BY <1>0, <1>1, <1>7, <1>9 DEF IInv
<1> QED BY <1>3, <1>10, <1>11, <1>12, <1>13, <1>14, <1>15, <1>16 DEF IInv

(* Interrupts do not move any thread inside its call.                      *)
LEMMA InterruptStep ==
    ASSUME IInv, pc' = pc, tgt' = tgt
    PROVE  /\ Detaching' = Detaching /\ pc' \in [Thread -> PC]
           /\ pc'[Idle] = "free" <=> pc[Idle] = "free"
           /\ \A x : InResume(x)' = InResume(x)
           /\ \A c \in {"resume1", "resume2", "suspend",
                       "detach1", "detach2", "detach3"} :
                 pc'[Manager] = c <=> pc[Manager] = c
BY DEF IInv, Detaching, InDetach, InResume

(* rt_tick_increase up to rt_timer_check.                                  *)
LEMMA TickInv ==
    ASSUME IInv, Tick
    PROVE  IInv'
<1>0. k' = TickIncrease(k) /\ pc' = pc /\ tgt' = tgt /\ dead' = dead
  BY DEF Tick
<1>1. /\ KernelInv(k, Detaching) /\ k.cur \in Thread /\ k.cur \notin Detaching
      /\ k.group # {}
  BY GroupNotEmpty DEF IInv, RunnerReady
<1>2. /\ KernelInv(k', Detaching)
      /\ k'.stat = k.stat /\ k'.timers = k.timers /\ k'.wait = k.wait
      /\ k'.nest = k.nest /\ k'.group = k.group
      /\ k.nest # 0 => k'.cur = k.cur /\ k'.owed = k.owed
      /\ k.nest = 0 =>
            \/ k'.cur = k.cur /\ k'.owed = k.owed /\ k'.rdy = k.rdy
            \/ /\ k'.cur = Highest(k') /\ k'.owed = FALSE
               /\ k'.cur \in Thread \ Detaching /\ k'.stat[k'.cur] = "READY"
  BY <1>0, <1>1, TickFacts
<1>3. /\ Detaching' = Detaching /\ pc' \in [Thread -> PC]
      /\ pc'[Idle] = "free" <=> pc[Idle] = "free"
      /\ \A x : InResume(x)' = InResume(x)
      /\ \A c \in {"resume1", "resume2", "suspend", "detach1", "detach2", "detach3"} :
            pc'[Manager] = c <=> pc[Manager] = c
  BY <1>0, InterruptStep
<1>4. k'.cur \in Thread \ Detaching
  BY <1>1, <1>2
<1>5. \/ k'.stat[k'.cur] = "READY"
      \/ k'.nest = 0 /\ pc'[k'.cur] \in {"sleep", "sched"} /\ k'.cur = k.cur
  BY <1>0, <1>2 DEF IInv, RunnerReady
<1>6. k'.nest = 0 /\ ~k'.owed /\ pc'[k'.cur] \notin {"sleep", "sched"}
         => k'.cur = Highest(k')
  BY <1>0, <1>2 DEF IInv, Dispatched, Highest
<1>7. Wild \notin Thread
  BY KernelAssumption
<1> QED BY <1>0, <1>2, <1>3, <1>4, <1>5, <1>6, <1>7, DispatchStep

(* One round of rt_timer_check's loop, or its end.                         *)
LEMMA TimerCheckInv ==
    ASSUME IInv, Discipline, TimerCheck
    PROVE  IInv'
<1>0. /\ k' = IF HeadExpired(k) THEN TimerExpire(k) ELSE TimerCheckDone(k)
      /\ pc' = pc /\ tgt' = tgt /\ dead' = dead
  BY DEF TimerCheck
<1>1. /\ KernelInv(k, Detaching) /\ k \in KernelType
  BY DEF IInv, KernelInv
<1>2. /\ Detaching' = Detaching /\ pc' \in [Thread -> PC]
      /\ pc'[Idle] = "free" <=> pc[Idle] = "free"
      /\ \A x : InResume(x)' = InResume(x)
      /\ \A c \in {"resume1", "resume2", "suspend", "detach1", "detach2", "detach3"} :
            pc'[Manager] = c <=> pc[Manager] = c
  BY <1>0, InterruptStep
<1>3. CASE HeadExpired(k)
  <2> DEFINE h == Head(k.timers)
  <2>1. k.timers # << >> /\ k' = TimerExpire(k)
    BY <1>0, <1>3 DEF HeadExpired
  <2>2. h \in Thread /\ Contains(k.timers, h)
    <3>1. k.timers \in Seq(Thread)
      BY <1>1 DEF KernelType
    <3> QED BY <2>1, <3>1, EmptyFacts
  <2>3. h \notin Detaching
    BY <2>2, DetachingFacts DEF IInv, OnlySleepersTimed, Discipline
  <2>4. /\ KernelInv(k', Detaching)
        /\ k'.stat = [k.stat EXCEPT ![h] = "READY"]
        /\ \A x : Contains(k'.timers, x) <=> Contains(k.timers, x) /\ x # h
        /\ \A q \in Queue : \A x :
              Contains(k'.wait[q], x) <=> Contains(k.wait[q], x) /\ x # h
        /\ k'.nest = k.nest
        /\ k.nest # 0 => k'.cur = k.cur /\ k'.owed = k.owed
        /\ k.nest = 0 => k'.cur = Highest(k') /\ k'.owed = FALSE
        /\ k.nest = 0 => k'.cur \in Thread \ Detaching /\ k'.stat[k'.cur] = "READY"
    <3>1. KernelInv(k, Detaching) /\ k.timers # << >> /\ Head(k.timers) \notin Detaching
      BY <1>1, <2>1, <2>3
    <3> DEFINE D == Detaching
               r == TimerExpire(k)
    <3>2. r = k'
      BY <2>1
    <3>3. KernelInv(k, D) /\ Head(k.timers) \notin D
      BY <3>1
    <3> HIDE DEF D
    <3>4. /\ KernelInv(r, D)
          /\ r.stat = [k.stat EXCEPT ![h] = "READY"]
          /\ \A x : Contains(r.timers, x) <=> Contains(k.timers, x) /\ x # h
          /\ \A q \in Queue : \A x :
                Contains(r.wait[q], x) <=> Contains(k.wait[q], x) /\ x # h
          /\ r.nest = k.nest
          /\ k.nest # 0 => r.cur = k.cur /\ r.owed = k.owed
          /\ k.nest = 0 => r.cur = Highest(r) /\ r.owed = FALSE
          /\ k.nest = 0 => r.cur \in Thread \ D /\ r.stat[r.cur] = "READY"
      BY <3>1, <3>3, ExpireFacts
    <3> HIDE DEF r, h
    <3> QED BY <3>2, <3>4 DEF D
  <2> HIDE DEF h
  <2>5. \A x \in Thread : k'.stat[x] = IF x = h THEN "READY" ELSE k.stat[x]
    BY <1>1, <2>4 DEF KernelType
  <2>6. k'.cur \in Thread \ Detaching /\ k'.stat[k'.cur] = "READY"
    BY <2>4, <2>5 DEF IInv, RunnerReady
  <2>7. k'.nest = 0 => k'.cur = Highest(k')
    BY <2>4
  <2>8. k'.stat[h] = "READY" /\ \A x \in Thread : x # h => k'.stat[x] = k.stat[x]
    BY <2>2, <2>5
  <2>9. \A x \in Thread : x # h =>
          /\ k'.stat[x] = k.stat[x]
          /\ Contains(k'.timers, x) <=> Contains(k.timers, x)
          /\ \A q \in Queue : Contains(k'.wait[q], x) <=> Contains(k.wait[q], x)
    BY <2>4, <2>8
  <2>10. /\ Contains(k.timers, h) /\ k'.stat[h] = "READY"
         /\ ~Contains(k'.timers, h)
         /\ \A q \in Queue : ~Contains(k'.wait[q], h)
    BY <2>2, <2>4, <2>8
  <2>11. KernelInv(k', Detaching) /\ tgt' = tgt /\ dead' = dead
    BY <1>0, <2>4
  <2> QED BY <1>2, <2>6, <2>7, <2>9, <2>10, <2>11, DispatchStep, ZenonT(60)
<1>4. CASE ~HeadExpired(k)
  <2>1. k' = [k EXCEPT !.isr = FALSE]
    BY <1>0, <1>4 DEF TimerCheckDone
  <2>2. /\ k' \in KernelType
        /\ k'.stat = k.stat /\ k'.prio = k.prio /\ k'.mask = k.mask /\ k'.rdy = k.rdy
        /\ k'.group = k.group /\ k'.wait = k.wait /\ k'.timers = k.timers
        /\ k'.cur = k.cur /\ k'.nest = k.nest /\ k'.owed = k.owed
    BY <1>1, <2>1 DEF KernelType
  <2>3. KernelInv(k', Detaching)
    BY <1>1, <2>2, FrameFacts
  <2>4. Wild \notin Thread
    BY KernelAssumption
  <2>5. k'.nest = 0 /\ ~k'.owed /\ pc'[k'.cur] \notin {"sleep", "sched"}
           => k'.cur = Highest(k')
    BY <1>0, <2>2 DEF IInv, Dispatched, Highest
  <2>6. /\ k'.cur \in Thread \ Detaching
        /\ \/ k'.stat[k'.cur] = "READY"
           \/ k'.nest = 0 /\ pc'[k'.cur] \in {"sleep", "sched"} /\ k'.cur = k.cur
    BY <1>0, <2>2 DEF IInv, RunnerReady
  <2> QED BY <1>0, <1>2, <2>2, <2>3, <2>4, <2>5, <2>6, DispatchStep
<1> QED BY <1>3, <1>4

-----------------------------------------------------------------------------
(* The theorems.                                                           *)

(* Every step preserves the invariant.                                     *)
LEMMA NextInv ==
    ASSUME Discipline, IInv, [Next]_vars
    PROVE  IInv'
<1>1. CASE Next
  <2>1. ASSUME NEW t \in Thread, Begin(t) PROVE IInv'
    BY <2>1, DelayInv, ParkInv, YieldInv, EnterLockInv, ExitInv DEF Begin
  <2>2. ASSUME NEW t \in Thread, Finish(t) PROVE IInv'
    BY <2>2, CallScheduleInv, WakeInv, ExitLockInv DEF Finish
  <2>3. ASSUME NEW t \in Thread, Manage(t) PROVE IInv'
    <3>1. CASE ThreadInit(t)
      BY <3>1, ThreadInitInv
    <3>2. CASE Startup(t)
      BY <3>2, StartupInv
    <3>3. CASE CallResume(t)
      BY <3>3, CallInv DEF CallResume, Discipline
    <3>4. CASE CallSuspend(t)
      BY <3>4, CallInv DEF CallSuspend, Discipline
    <3>5. CASE \E p \in NewPrio : ControlPriority(t, p)
      BY <3>5, ControlPriorityInv
    <3>6. CASE DetachRemove(t)
      BY <3>6, DetachRemoveInv
    <3> QED BY <2>3, <3>1, <3>2, <3>3, <3>4, <3>5, <3>6 DEF Manage
  <2>4. CASE FinishManager
    BY <2>4, ResumeFirstInv, ResumeSecondInv, SuspendTargetInv, DetachTimerInv,
       DetachCloseInv, DetachBuryInv DEF FinishManager
  <2>5. CASE IdleUnlink \/ IdleFree
    BY <2>5, IdleUnlinkInv, IdleFreeInv
  <2>6. CASE Tick
    BY <2>6, TickInv
  <2>7. CASE TimerCheck
    BY <2>7, TimerCheckInv
  <2> QED BY <1>1, <2>1, <2>2, <2>3, <2>4, <2>5, <2>6, <2>7 DEF Next
<1>2. CASE UNCHANGED vars
  BY <1>2 DEF vars, IInv, RunnerReady, CallValid, OnlySleepersTimed, SleepersTimed,
     NobodyWaits, DefunctExact, Dispatched, Detaching, InDetach, InResume
<1> QED BY <1>1, <1>2

(* IInv holds in every reachable state of a disciplined application.       *)
THEOREM Invariance ==
    ASSUME Discipline
    PROVE  Spec => []IInv
<1>1. Init => IInv
  BY InitInv
<1>2. IInv /\ [Next]_vars => IInv'
  BY NextInv
<1> QED BY <1>1, <1>2, PTL DEF Spec

(* The state keeps its type: whatever the interleaving of calls and clock  *)
(* interrupts, no field of the kernel leaves its range.                    *)
THEOREM TypeCorrect ==
    ASSUME Discipline
    PROVE  Spec => []TypeOK
<1>1. IInv => TypeOK
  BY DEF IInv, KernelInv, TypeOK
<1> QED BY <1>1, Invariance, PTL

(* rt_schedule never finds an empty list behind a bit of the bitmap, never *)
(* misses a ready thread, and always has a thread to run.                  *)
THEOREM BitmapExact ==
    ASSUME Discipline
    PROVE  Spec => []ReadyGroupExact
<1>1. IInv => ReadyGroupExact
  BY DEF IInv, KernelInv, RunnerReady, ReadyGroupExact
<1> QED BY <1>1, Invariance, PTL

(* Every thread's list node is linked exactly where its state says.        *)
THEOREM ListNodesExact ==
    ASSUME Discipline
    PROVE  Spec => []LinkedOnce
<1>1. IInv => LinkedOnce
  BY DEF IInv, KernelInv, LinkedOnce
<1> QED BY <1>1, Invariance, PTL

(* Fixed-priority preemptive scheduling: outside kernel calls the running  *)
(* thread is the first of the most urgent ready ones.                      *)
THEOREM PriorityScheduling ==
    ASSUME Discipline
    PROVE  Spec => []HighestRuns
<1>1. IInv => HighestRuns
  BY DEF IInv, Dispatched, HighestRuns
<1> QED BY <1>1, Invariance, PTL

(* A sleeper's timer runs exactly while it sleeps, so that the assertion   *)
(* of rt_thread_timeout holds and no sleeper is forgotten.                 *)
THEOREM TimersMatchSleepers ==
    ASSUME Discipline
    PROVE  Spec => []SleepersTimed
<1>1. IInv => SleepersTimed
  BY DEF IInv
<1> QED BY <1>1, Invariance, PTL

(* No dead thread leaks and no living one is freed.                        *)
THEOREM ReclamationExact ==
    ASSUME Discipline
    PROVE  Spec => []DefunctExact
<1>1. IInv => DefunctExact
  BY DEF IInv
<1> QED BY <1>1, Invariance, PTL

(* Every step taken while the scheduler is locked leaves the processor     *)
(* where it is: the thread operations never touch rt_current_thread, and   *)
(* rt_schedule - called by the tick, by a time-out or by a thread - returns *)
(* at once.                                                                *)
LEMMA LockedStep ==
    ASSUME Discipline, IInv, Next, k.nest > 0
    PROVE  k'.cur = k.cur
<1>0. k \in KernelType /\ KernelInv(k, Detaching) /\ k.nest # 0 /\ k.nest \in Nat
  <2>1. KernelInv(k, Detaching)
    BY DEF IInv
  <2>2. k \in KernelType /\ k.nest \in Nat
    BY <2>1 DEF KernelInv, KernelType
  <2> QED BY <2>1, <2>2
<1>1. \A s \in KernelType, t \in Thread :
         /\ Unlink(s, t).cur = s.cur /\ TimerStop(s, t).cur = s.cur
         /\ InsertThread(s, t).cur = s.cur
  BY DEF Unlink, TimerStop, InsertThread, KernelType
<1>2. \A s \in KernelType, t \in Thread : RemoveThread(s, t).cur = s.cur
  BY DEF RemoveThread, Unlink, KernelType
<1>3. ASSUME NEW t \in Thread, Begin(t) PROVE k'.cur = k.cur
  BY <1>0, <1>3 DEF Begin, Delay, Park, Yield, EnterLock, Exit, At, EnterCritical,
     YieldMove, Unlink, KernelType
<1>4. ASSUME NEW t \in Thread, Finish(t) PROVE k'.cur = k.cur
  BY <1>0, <1>4 DEF Finish, CallSchedule, Wake, ExitLock, Schedule, ExitCritical,
     KernelType
<1>5. ASSUME NEW t \in Thread, Manage(t) PROVE k'.cur = k.cur
  <2>1. ASSUME NEW p, k' = ChangePriority(k, t, p) PROVE k'.cur = k.cur
    BY <1>0, <2>1 DEF ChangePriority, InsertThread, SetPriority, RemoveThread, Unlink,
       KernelType
  <2>2. CASE ThreadInit(t)
    BY <1>0, <2>2 DEF ThreadInit, KernelType
  <2>3. CASE Startup(t)
    BY <1>0, <2>3 DEF Startup, SetPriority, KernelType
  <2>4. CASE DetachRemove(t)
    BY <1>0, <1>2, <2>4 DEF DetachRemove
  <2> QED BY <1>5, <2>1, <2>2, <2>3, <2>4
       DEF Manage, CallResume, CallSuspend, ControlPriority
<1>6. CASE FinishManager
  <2>0. tgt \in Thread
    BY DEF IInv
  <2>1. CASE ResumeFirst
    BY <1>0, <2>0, <2>1 DEF ResumeFirst, ResumeUnlink, Unlink, TimerStop, KernelType
  <2>2. CASE ResumeSecond
    BY <1>0, <1>1, <2>0, <2>2 DEF ResumeSecond
  <2>3. CASE SuspendTarget
    BY <1>0, <2>0, <2>3 DEF SuspendTarget, SuspendSection, RemoveThread, Unlink, KernelType
  <2>4. CASE DetachTimer
    BY <1>0, <1>1, <2>0, <2>4 DEF DetachTimer
  <2>5. CASE DetachClose
    BY <1>0, <2>0, <2>5 DEF DetachClose, KernelType
  <2>6. CASE DetachBury
    BY <1>0, <2>0, <2>6 DEF DetachBury, Bury, LinkFirst, KernelType
  <2> QED BY <1>6, <2>1, <2>2, <2>3, <2>4, <2>5, <2>6 DEF FinishManager
<1>7. CASE IdleUnlink \/ IdleFree
  BY <1>0, <1>7 DEF IdleUnlink, IdleFree, Unlink, KernelType
<1>8. k.cur \in Thread \ Detaching /\ k.group # {}
  BY GroupNotEmpty DEF IInv, RunnerReady
<1>9. CASE Tick
  BY <1>0, <1>8, <1>9, TickFacts DEF Tick
<1>10. CASE TimerCheck
  <2>1. CASE HeadExpired(k)
    <3>1. k.timers # << >> /\ k.timers \in Seq(Thread) /\ k' = TimerExpire(k)
      BY <1>0, <1>10, <2>1 DEF TimerCheck, HeadExpired, KernelType
    <3>2. Head(k.timers) \in Thread /\ Contains(k.timers, Head(k.timers))
      BY <3>1, EmptyFacts
    <3>3. Head(k.timers) \notin Detaching
      BY <3>2, DetachingFacts DEF IInv, OnlySleepersTimed, Discipline
    <3> QED BY <1>0, <3>1, <3>3, ExpireFacts
  <2>2. CASE ~HeadExpired(k)
    BY <1>0, <1>10, <2>2 DEF TimerCheck, TimerCheckDone, KernelType
  <2> QED BY <2>1, <2>2
<1> QED BY <1>3, <1>4, <1>5, <1>6, <1>7, <1>9, <1>10 DEF Next

(* Between rt_enter_critical and rt_exit_critical no other thread gets the *)
(* processor.                                                              *)
THEOREM LockIsExclusive ==
    ASSUME Discipline
    PROVE  Spec => LockHoldsProcessor
<1>1. IInv /\ [Next]_vars => [k.nest > 0 => k'.cur = k.cur]_vars
  BY LockedStep
<1> QED BY <1>1, Invariance, PTL DEF Spec, LockHoldsProcessor
=============================================================================
