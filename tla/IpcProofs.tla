------------------------------ MODULE IpcProofs ------------------------------
(***************************************************************************)
(* What every object of ipc.c may rely on, for every set of threads: the   *)
(* invariant of threads that run, sleep and block on wait queues, and one  *)
(* lemma for each step the objects share.  The proofs about the objects    *)
(* cite these lemmas and look neither into the kernel's lists nor into its *)
(* record.                                                                 *)
(***************************************************************************)
EXTENDS Ipc, KernelProofs

-----------------------------------------------------------------------------
(* The invariant.                                                          *)

(* The kernel's lists are exact, every thread is started, the idle thread  *)
(* is always ready and a thread has the processor.                         *)
KernelOK(s) ==
    /\ KernelInv(s, {}) /\ s.nest = 0 /\ s.cur \in Thread
    /\ \A t \in Thread : s.stat[t] \in {"READY", "SUSPEND"}
    /\ s.stat[Idle] = "READY"

(* Where the threads stand (p) and what they wait for (w) agrees with the  *)
(* kernel: only a thread that sleeps or waits is suspended, a thread on a  *)
(* wait queue waits for that queue, one that is suspended while it waits   *)
(* is on its queue, and the running thread is the one rt_schedule would    *)
(* choose, unless it is about to call rt_schedule or has left that call    *)
(* out.                                                                    *)
ThreadsOK(s, p, w) ==
    /\ p[Idle] = "run"
    /\ \A t \in Thread : s.stat[t] = "SUSPEND" => p[t] \in {"sleep", "wake", "block", "woken"}
    /\ s.stat[s.cur] = "READY" \/ p[s.cur] \in {"block", "sleep"}
    /\ \A q \in Queue, t \in Thread : Contains(s.wait[q], t) => p[t] \in Waiting /\ w[t] = q
    /\ \A t \in Thread : p[t] \in Waiting => w[t] \in Queue
    /\ \A t \in Thread : s.stat[t] = "SUSPEND" /\ p[t] \in Waiting => Contains(s.wait[w[t]], t)
    /\ ~s.owed /\ p[s.cur] \notin {"sched", "block", "sleep"} => s.cur = Highest(s)

CallsType ==
    /\ pc \in [Thread -> Outside \cup Waiting \cup Flushes \cup Carrying]
    /\ wild \in BOOLEAN /\ alive \in BOOLEAN
    /\ want \in [Thread -> Queue \cup {None}]
    /\ budget \in [Thread -> {Forever} \cup 0..MaxWait]

IpcInv == CallsType /\ KernelOK(k) /\ ThreadsOK(k, pc, want)

(* The invariant says what the runs check.                                 *)
LEMMA IpcInvImplies ==
    ASSUME IpcInv
    PROVE  IpcTypeOK /\ KernelExact /\ HighestRunsIfAsked
<1>1. IpcTypeOK /\ KernelExact
  BY DEF IpcInv, CallsType, KernelOK, KernelInv, IpcTypeOK, KernelExact
<1>2. HighestRunsIfAsked
  BY DEF IpcInv, ThreadsOK, HighestRunsIfAsked, HighestRuns
<1> QED
  BY <1>1, <1>2

-----------------------------------------------------------------------------
(* What a step of the kernel does, as far as the objects can tell.         *)

(* Between s and r the threads of W have become ready and left their       *)
(* queues, and no other thread has moved.                                  *)
Woken(s, r, W) ==
    /\ KernelInv(r, {})
    /\ \A x \in Thread : r.stat[x] = IF x \in W THEN "READY" ELSE s.stat[x]
    /\ \A q \in Queue : \A x : Contains(r.wait[q], x) <=> Contains(s.wait[q], x) /\ x \notin W
    /\ \A x : Contains(r.timers, x) <=> Contains(s.timers, x) /\ x \notin W
    /\ r.prio = s.prio /\ r.nest = s.nest

(* The processor stays where it is.                                        *)
Stays(s, r) == r.cur = s.cur /\ r.owed = s.owed /\ r.isr = s.isr

(* rt_schedule has been called.                                            *)
Dispatched(r) == r.cur \in Thread /\ r.cur = Highest(r) /\ r.stat[r.cur] = "READY" /\ ~r.owed

(* The kernel's state is a record of its fields.                           *)
LEMMA RecordFacts ==
    ASSUME NEW s \in KernelType
    PROVE  /\ s.error \in [Thread -> Errno] /\ s.stat \in [Thread -> Stat]
           /\ s.prio \in [Thread -> Prio] /\ s.timers \in Seq(Thread)
           /\ s.wait \in [Queue -> Seq(Thread)] /\ s.isr \in BOOLEAN /\ s.owed \in BOOLEAN
  BY DEF KernelType

(* The idle thread keeps the ready queues from being empty.                *)
LEMMA ReadyGroup ==
    ASSUME NEW s, KernelInv(s, {}), s.stat[Idle] = "READY"
    PROVE  s.group # {}
<1>1. Idle \in Thread
  BY KernelAssumption
<1>2. s.prio[Idle] \in Prio /\ s.rdy[s.prio[Idle]] \in Seq(Thread)
  BY <1>1 DEF KernelInv, KernelType
<1>3. Contains(s.rdy[s.prio[Idle]], Idle)
  BY <1>1, <1>2 DEF KernelInv, LinksExact
<1>4. s.rdy[s.prio[Idle]] # << >>
  BY <1>1, <1>2, <1>3, EmptyFacts
<1> QED
  BY <1>2, <1>4 DEF KernelInv, GroupExact

LEMMA WokenKernelOK ==
    ASSUME NEW s, KernelOK(s), NEW r, NEW W, Woken(s, r, W), r.cur \in Thread
    PROVE  KernelOK(r)
  BY KernelAssumption DEF KernelOK, Woken

(* rt_schedule.                                                            *)
LEMMA ScheduleNow ==
    ASSUME NEW s, KernelOK(s)
    PROVE  LET r == Schedule(s)
           IN  /\ Woken(s, r, {}) /\ Dispatched(r)
               /\ r.error = s.error /\ r.wait = s.wait /\ r.isr = s.isr
<1> DEFINE r == Schedule(s)
<1>1. s \in KernelType /\ s.group # {} /\ s.nest = 0
  BY ReadyGroup DEF KernelOK, KernelInv
<1>2. /\ KernelInv(r, {})
      /\ r = [s EXCEPT !.cur = r.cur, !.owed = r.owed]
      /\ r.cur = Highest(s) /\ r.owed = FALSE
  BY <1>1, ScheduleFacts DEF KernelOK
<1> HIDE DEF r
<1>3. /\ r.stat = s.stat /\ r.wait = s.wait /\ r.timers = s.timers /\ r.prio = s.prio
      /\ r.nest = s.nest /\ r.error = s.error /\ r.isr = s.isr /\ r.rdy = s.rdy
      /\ r.group = s.group
  BY <1>1, <1>2 DEF KernelType
<1>4. Highest(r) = Highest(s)
  BY <1>3 DEF Highest
<1>5. Highest(s) \in Thread /\ s.stat[Highest(s)] = "READY"
  BY <1>1, HighestFacts DEF KernelOK
<1>6. Woken(s, r, {})
  BY <1>2, <1>3 DEF Woken
<1>7. Dispatched(r)
  BY <1>2, <1>3, <1>4, <1>5 DEF Dispatched
<1> QED
  BY <1>3, <1>6, <1>7 DEF r

(* An assignment to thread->error.                                         *)
LEMMA ErrorFacts ==
    ASSUME NEW s, KernelOK(s), NEW t \in Thread, NEW e \in Errno
    PROVE  LET r == [s EXCEPT !.error[t] = e]
           IN  /\ Woken(s, r, {}) /\ Stays(s, r)
               /\ r.error = [s.error EXCEPT ![t] = e] /\ r.wait = s.wait
               /\ r.stat = s.stat /\ Highest(r) = Highest(s)
<1> DEFINE r == [s EXCEPT !.error[t] = e]
<1>1. s \in KernelType
  BY DEF KernelOK, KernelInv
<1>2. /\ r \in KernelType
      /\ r.stat = s.stat /\ r.wait = s.wait /\ r.timers = s.timers /\ r.prio = s.prio
      /\ r.nest = s.nest /\ r.isr = s.isr /\ r.rdy = s.rdy /\ r.mask = s.mask
      /\ r.group = s.group /\ r.cur = s.cur /\ r.owed = s.owed
      /\ r.error = [s.error EXCEPT ![t] = e]
  BY <1>1 DEF KernelType
<1> HIDE DEF r
<1>3. KernelInv(r, {})
  BY <1>2, FrameFacts DEF KernelOK
<1>4. Highest(r) = Highest(s)
  BY <1>2 DEF Highest
<1>5. Woken(s, r, {}) /\ Stays(s, r)
  BY <1>2, <1>3 DEF Woken, Stays
<1> QED
  BY <1>2, <1>4, <1>5 DEF r

(* rt_thread_resume of a suspended thread.                                 *)
LEMMA ResumeFacts ==
    ASSUME NEW s, KernelOK(s), NEW t \in Thread, s.stat[t] = "SUSPEND"
    PROVE  LET r == Resume(s, t)
           IN  Woken(s, r, {t}) /\ Stays(s, r) /\ r.error = s.error
<1> DEFINE u == ResumeUnlink(s, t)
           r == InsertThread(u, t)
<1>1. r = Resume(s, t)
  BY DEF Resume
<1>2. s \in KernelType /\ KernelInv(s, {}) /\ s.stat[t] # "READY"
  BY DEF KernelOK, KernelInv
<1>3. /\ KernelInv(u, {})
      /\ u = [s EXCEPT !.wait = u.wait, !.timers = u.timers, !.left = u.left]
      /\ \A q \in Queue : \A x : Contains(u.wait[q], x) <=> Contains(s.wait[q], x) /\ x # t
      /\ \A x : Contains(u.timers, x) <=> Contains(s.timers, x) /\ x # t
      /\ \A p \in Prio : ~Contains(u.rdy[p], t)
  BY <1>2, ResumeUnlinkFacts
<1> HIDE DEF u
<1>4. u \in KernelType
  BY <1>3 DEF KernelInv
<1>5. /\ u.stat = s.stat /\ u.prio = s.prio /\ u.nest = s.nest /\ u.error = s.error
      /\ u.isr = s.isr /\ u.cur = s.cur /\ u.owed = s.owed
  BY <1>2, <1>3 DEF KernelType
<1>6. u.mask[t] = {u.prio[t]}
  BY <1>3, <1>5 DEF KernelInv, MasksExact
<1>7. KernelInv(r, {} \ {t})
  BY <1>3, <1>6, InsertFacts
<1>8. /\ r.stat = [u.stat EXCEPT ![t] = "READY"] /\ r.timers = u.timers
      /\ r.wait = u.wait /\ r.nest = u.nest /\ r.isr = u.isr /\ r.prio = u.prio
      /\ r.cur = u.cur /\ r.owed = u.owed /\ r.error = u.error
  BY <1>4 DEF InsertThread, KernelType
<1> HIDE DEF r
<1>9. {} \ {t} = {}
  OBVIOUS
<1>10. s.stat \in [Thread -> Stat]
  BY <1>2 DEF KernelType
<1>11. Woken(s, r, {t})
  BY <1>3, <1>5, <1>7, <1>8, <1>9, <1>10 DEF Woken
<1> QED
  BY <1>1, <1>5, <1>8, <1>11 DEF Stays

(* The first waiter of a queue is suspended.                               *)
LEMMA FirstWaiter ==
    ASSUME NEW s, KernelOK(s), NEW q \in Queue, s.wait[q] # << >>
    PROVE  /\ Head(s.wait[q]) \in Thread /\ Contains(s.wait[q], Head(s.wait[q]))
           /\ s.stat[Head(s.wait[q])] = "SUSPEND"
<1>1. s.wait[q] \in Seq(Thread)
  BY DEF KernelOK, KernelInv, KernelType
<1>2. Head(s.wait[q]) \in Thread /\ Contains(s.wait[q], Head(s.wait[q]))
  BY <1>1, EmptyFacts
<1> QED
  BY <1>2 DEF KernelOK, KernelInv, LinksExact

(* A list is empty when nobody waits.                                      *)
LEMMA NobodyWaits ==
    ASSUME NEW s, KernelOK(s), NEW q \in Queue
    PROVE  s.wait[q] = << >> <=> \A t \in Thread : ~Contains(s.wait[q], t)
<1>1. s.wait[q] \in Seq(Thread)
  BY DEF KernelOK, KernelInv, KernelType
<1> QED
  BY <1>1, EmptyFacts

(* The clock interrupt up to rt_timer_check.                               *)
LEMMA TickNow ==
    ASSUME NEW s, KernelOK(s)
    PROVE  LET r == TickIncrease(s)
           IN  /\ Woken(s, r, {}) /\ r.error = s.error /\ r.wait = s.wait /\ r.isr
               /\ \/ r.cur = s.cur /\ r.owed = s.owed /\ Highest(r) = Highest(s)
                  \/ Dispatched(r)
<1> DEFINE r == TickIncrease(s)
           used == s.slice[s.cur] = 1
           a == [s EXCEPT !.slice[s.cur] = IF used THEN Slice ELSE @ - 1,
                          !.left = [t \in Thread |-> IF s.left[t] > 0 THEN s.left[t] - 1 ELSE 0],
                          !.isr = TRUE]
<1>1. s \in KernelType /\ s.group # {} /\ s.cur \in Thread /\ s.cur \notin {}
  BY ReadyGroup DEF KernelOK, KernelInv
<1>2. /\ KernelInv(r, {})
      /\ r.stat = s.stat /\ r.timers = s.timers /\ r.wait = s.wait
      /\ r.nest = s.nest /\ r.group = s.group
      /\ \/ r.cur = s.cur /\ r.owed = s.owed /\ r.rdy = s.rdy
         \/ /\ r.cur = Highest(r) /\ r.owed = FALSE
            /\ r.cur \in Thread \ {} /\ r.stat[r.cur] = "READY"
  BY <1>1, TickFacts DEF KernelOK
<1>3. r = IF used /\ MustYield(a) THEN Schedule(YieldMove(a)) ELSE a
  BY DEF TickIncrease
<1>4. a.error = s.error /\ a.prio = s.prio /\ a.isr = TRUE
  BY <1>1 DEF KernelType
<1>5. YieldMove(a).error = a.error /\ YieldMove(a).prio = a.prio /\ YieldMove(a).isr = a.isr
  BY <1>1 DEF YieldMove, Unlink, KernelType
<1> HIDE DEF a
<1>6. \A b : Schedule(b).error = b.error /\ Schedule(b).prio = b.prio /\ Schedule(b).isr = b.isr
  BY DEF Schedule
<1>7. r.error = s.error /\ r.prio = s.prio /\ r.isr = TRUE
  BY <1>3, <1>4, <1>5, <1>6
<1> HIDE DEF r
<1>8. Woken(s, r, {})
  BY <1>2, <1>7 DEF Woken
<1>9. r.rdy = s.rdy => Highest(r) = Highest(s)
  BY <1>2 DEF Highest
<1> QED
  BY <1>2, <1>7, <1>8, <1>9 DEF r, Dispatched

(* rt_timer_check at an expired timer: the thread's error says so.         *)
LEMMA ExpireNow ==
    ASSUME NEW s, KernelOK(s), s.timers # << >>
    PROVE  LET t == Head(s.timers)
               r == TimerExpire(s)
           IN  /\ t \in Thread /\ Contains(s.timers, t) /\ s.stat[t] = "SUSPEND"
               /\ Woken(s, r, {t}) /\ Dispatched(r) /\ r.isr = s.isr
               /\ r.error = [s.error EXCEPT ![t] = "ETIMEOUT"]
<1> DEFINE t == Head(s.timers)
           r == TimerExpire(s)
           a == [TimerStop(s, t) EXCEPT !.error[t] = "ETIMEOUT"]
           b == InsertThread(Unlink(a, t), t)
<1>1. s \in KernelType /\ s.nest = 0 /\ t \notin {}
  BY DEF KernelOK, KernelInv
<1>2. /\ t \in Thread /\ Contains(s.timers, t) /\ s.stat[t] = "SUSPEND"
      /\ KernelInv(r, {})
      /\ r.stat = [s.stat EXCEPT ![t] = "READY"]
      /\ \A x : Contains(r.timers, x) <=> Contains(s.timers, x) /\ x # t
      /\ \A q \in Queue : \A x : Contains(r.wait[q], x) <=> Contains(s.wait[q], x) /\ x # t
      /\ r.nest = s.nest /\ r.isr = s.isr
      /\ r.cur = Highest(r) /\ r.owed = FALSE
      /\ r.cur \in Thread \ {} /\ r.stat[r.cur] = "READY"
  BY <1>1, ExpireFacts DEF KernelOK
<1>3. r = Schedule(b)
  BY DEF TimerExpire, Timeout
<1> HIDE DEF t
<1>4. a.error = [s.error EXCEPT ![t] = "ETIMEOUT"] /\ a.prio = s.prio
  BY <1>1 DEF TimerStop, KernelType
<1>5. \A c : Unlink(c, t).error = c.error /\ Unlink(c, t).prio = c.prio
  BY DEF Unlink
<1>6. \A c : InsertThread(c, t).error = c.error /\ InsertThread(c, t).prio = c.prio
  BY DEF InsertThread
<1>7. \A c : Schedule(c).error = c.error /\ Schedule(c).prio = c.prio
  BY DEF Schedule
<1> HIDE DEF a
<1>8. r.error = [s.error EXCEPT ![t] = "ETIMEOUT"] /\ r.prio = s.prio
  BY <1>3, <1>4, <1>5, <1>6, <1>7
<1> HIDE DEF r
<1>9. s.stat \in [Thread -> Stat]
  BY <1>1 DEF KernelType
<1>10. Woken(s, r, {t})
  BY <1>2, <1>8, <1>9 DEF Woken
<1> QED
  BY <1>2, <1>8, <1>10 DEF r, t, Dispatched

(* rt_timer_check at the end of its work.                                  *)
LEMMA CheckDoneNow ==
    ASSUME NEW s, KernelOK(s)
    PROVE  LET r == TimerCheckDone(s)
           IN  /\ Woken(s, r, {}) /\ r.error = s.error /\ r.wait = s.wait
               /\ r.cur = s.cur /\ r.owed = s.owed /\ Highest(r) = Highest(s)
<1> DEFINE r == TimerCheckDone(s)
<1>1. s \in KernelType
  BY DEF KernelOK, KernelInv
<1>2. /\ r \in KernelType
      /\ r.stat = s.stat /\ r.wait = s.wait /\ r.timers = s.timers /\ r.prio = s.prio
      /\ r.nest = s.nest /\ r.rdy = s.rdy /\ r.mask = s.mask
      /\ r.group = s.group /\ r.cur = s.cur /\ r.owed = s.owed /\ r.error = s.error
  BY <1>1 DEF KernelType, TimerCheckDone
<1> HIDE DEF r
<1>3. KernelInv(r, {})
  BY <1>2, FrameFacts DEF KernelOK
<1>4. Highest(r) = Highest(s)
  BY <1>2 DEF Highest
<1>5. Woken(s, r, {})
  BY <1>2, <1>3 DEF Woken
<1> QED
  BY <1>2, <1>4, <1>5 DEF r

-----------------------------------------------------------------------------
(* A thread gives up the processor.                                        *)

(* Between s and r thread t has been suspended and, when q is a queue and  *)
(* not None, has joined it.                                                *)
Parked(s, r, t, q) ==
    /\ KernelInv(r, {})
    /\ \A x \in Thread : r.stat[x] = IF x = t THEN "SUSPEND" ELSE s.stat[x]
    /\ \A y \in Queue : \A x : Contains(r.wait[y], x) <=>
          Contains(s.wait[y], x) \/ (x = t /\ y = q)
    /\ \A x : Contains(r.timers, x) => Contains(s.timers, x) \/ x = t
    /\ r.prio = s.prio /\ r.nest = s.nest

(* A thread that is READY is on no wait queue and its timer is stopped.    *)
LEMMA ReadyThread ==
    ASSUME NEW s, KernelOK(s), NEW t \in Thread, s.stat[t] = "READY"
    PROVE  ~Contains(s.timers, t) /\ \A q \in Queue : ~Contains(s.wait[q], t)
  BY DEF KernelOK, KernelInv, LinksExact, TimersExact

(* rt_thread_suspend of the caller.                                        *)
LEMMA SuspendNow ==
    ASSUME NEW s, KernelOK(s), NEW t \in Thread, s.stat[t] = "READY"
    PROVE  LET r == Suspend(s, t)
           IN  /\ Parked(s, r, t, None) /\ Stays(s, r) /\ r.error = s.error
               /\ ~Contains(r.timers, t)
<1> DEFINE r == Suspend(s, t)
           a == [s EXCEPT !.stat[t] = "SUSPEND"]
<1>1. r = SuspendSection(s, t)
  BY DEF Suspend
<1>2. s \in KernelType /\ KernelInv(s, {}) /\ t \notin {}
  BY DEF KernelOK, KernelInv
<1>3. /\ KernelInv(r, {})
      /\ \A x \in Thread : r.stat[x] = IF x = t THEN "SUSPEND" ELSE s.stat[x]
      /\ r.timers = s.timers /\ r.cur = s.cur /\ r.nest = s.nest
      /\ r.isr = s.isr /\ r.owed = s.owed
      /\ \A q \in Queue : \A x : Contains(r.wait[q], x) <=> Contains(s.wait[q], x)
  BY <1>1, <1>2, ReadyThread, SuspendFacts
<1>4. r = RemoveThread(a, t)
  BY <1>1 DEF SuspendSection
<1>5. a.error = s.error /\ a.prio = s.prio
  BY <1>2 DEF KernelType
<1> HIDE DEF a
<1>6. r.error = a.error /\ r.prio = a.prio
  BY <1>4 DEF RemoveThread, Unlink
<1> HIDE DEF r
<1>7. None \notin Queue
  BY IpcAssumption
<1>8. Parked(s, r, t, None)
  BY <1>3, <1>5, <1>6, <1>7 DEF Parked
<1> QED
  BY <1>3, <1>5, <1>6, <1>8, ReadyThread DEF r, Stays

(* rt_timer_start leaves everything but the timers.                        *)
LEMMA TimerStartNow ==
    ASSUME NEW s, KernelInv(s, {}), NEW t \in Thread, s.stat[t] = "SUSPEND", NEW d \in Nat
    PROVE  LET r == TimerStart(s, t, d)
           IN  /\ KernelInv(r, {}) /\ Stays(s, r)
               /\ r.stat = s.stat /\ r.wait = s.wait /\ r.nest = s.nest
               /\ r.prio = s.prio /\ r.error = s.error
               /\ \A x : Contains(r.timers, x) <=> Contains(s.timers, x) \/ x = t
<1> DEFINE r == TimerStart(s, t, d)
<1>1. /\ KernelInv(r, {})
      /\ r.stat = s.stat /\ r.wait = s.wait /\ r.cur = s.cur /\ r.nest = s.nest
      /\ \A x : Contains(r.timers, x) <=> Contains(s.timers, x) \/ x = t
  BY TimerStartFacts
<1>2. r.prio = s.prio /\ r.error = s.error /\ r.isr = s.isr /\ r.owed = s.owed
  BY DEF TimerStart
<1> HIDE DEF r
<1> QED
  BY <1>1, <1>2 DEF r, Stays

(* rt_thread_delay before its rt_schedule.                                 *)
LEMMA DelayNow ==
    ASSUME NEW s, KernelOK(s), NEW t \in Thread, s.stat[t] = "READY", NEW d \in Nat
    PROVE  LET r == TimerStart(Suspend(s, t), t, d)
           IN  Parked(s, r, t, None) /\ Stays(s, r) /\ r.error = s.error
<1> DEFINE a == Suspend(s, t)
           r == TimerStart(a, t, d)
<1>1. Parked(s, a, t, None) /\ Stays(s, a) /\ a.error = s.error
  BY SuspendNow
<1> HIDE DEF a
<1>2. KernelInv(a, {}) /\ a.stat[t] = "SUSPEND"
  BY <1>1 DEF Parked
<1>3. /\ KernelInv(r, {}) /\ Stays(a, r)
      /\ r.stat = a.stat /\ r.wait = a.wait /\ r.nest = a.nest
      /\ r.prio = a.prio /\ r.error = a.error
      /\ \A x : Contains(r.timers, x) <=> Contains(a.timers, x) \/ x = t
  BY <1>2, TimerStartNow
<1> HIDE DEF r
<1>4. Parked(s, r, t, None)
  BY <1>1, <1>3 DEF Parked
<1> QED
  BY <1>1, <1>3, <1>4 DEF r, a, Stays

(* rt_ipc_list_suspend: with either flag the caller joins the queue.       *)
LEMMA ListSuspendNow ==
    ASSUME NEW s, KernelOK(s), NEW t \in Thread, s.stat[t] = "READY", NEW q \in Queue
    PROVE  LET r == ListSuspend(s, q, t, Flag)
           IN  /\ Parked(s, r, t, q) /\ Stays(s, r) /\ r.error = s.error
               /\ ~Contains(r.timers, t)
<1> DEFINE a == Suspend(s, t)
           r == ListSuspend(s, q, t, Flag)
           I == {i \in 1..Len(a.wait[q]) : a.prio[t] < a.prio[a.wait[q][i]]}
           n == IF Flag = "FIFO" THEN Append(a.wait[q], t) ELSE InsertBefore(a.wait[q], t, I)
<1>1. /\ Parked(s, a, t, None) /\ Stays(s, a) /\ a.error = s.error
      /\ ~Contains(a.timers, t)
  BY SuspendNow
<1>2. r = [a EXCEPT !.wait = [a.wait EXCEPT ![q] = n]]
  BY DEF ListSuspend
<1> HIDE DEF a
<1>3. /\ a \in KernelType /\ ListsExact(a) /\ KernelInv(a, {})
      /\ a.stat[t] = "SUSPEND" /\ a.stat[t] # "READY"
      /\ a.wait[q] \in Seq(Thread) /\ NoRepeat(a.wait[q])
  BY <1>1 DEF Parked, KernelInv, KernelType, ListsExact
<1>4. ~Contains(a.wait[q], t)
  BY <1>1, ReadyThread, IpcAssumption DEF Parked
<1>5. /\ n \in Seq(Thread) /\ NoRepeat(n)
      /\ \A f : Contains(n, f) <=> Contains(a.wait[q], f) \/ f = t
  <2>1. CASE Flag = "FIFO"
    BY <1>3, <1>4, <2>1, AppendFacts
  <2>2. CASE Flag # "FIFO"
    <3>1. I \in SUBSET (1..Len(a.wait[q]))
      OBVIOUS
    <3> HIDE DEF I
    <3>2. n = InsertBefore(a.wait[q], t, I)
      BY <2>2
    <3> QED
      BY <1>3, <1>4, <3>1, <3>2, InsertBeforeFacts
  <2> QED
    BY <2>1, <2>2
<1> HIDE DEF n, r
<1>6. Linked(a, r, q, t)
  BY <1>2, <1>3, <1>5, LinkedList
<1>7. KernelInv(r, {})
  BY <1>3, <1>6, LinkFacts
<1>8. /\ r.cur = a.cur /\ r.owed = a.owed /\ r.isr = a.isr /\ r.nest = a.nest
      /\ r.error = a.error
  BY <1>2, <1>3 DEF KernelType
<1>9. None \notin Queue
  BY IpcAssumption
<1>10. Parked(s, r, t, q)
  BY <1>1, <1>6, <1>7, <1>8, <1>9 DEF Parked, Linked
<1> QED
  BY <1>1, <1>6, <1>8, <1>10 DEF r, Stays, Linked

(* The section of a call that begins to wait.                              *)
LEMMA BlockOnNow ==
    ASSUME NEW s, KernelOK(s), NEW t \in Thread, s.stat[t] = "READY", NEW q \in Queue,
           NEW w \in {Forever} \cup Nat
    PROVE  LET r == BlockOn(s, q, t, w)
           IN  /\ Parked(s, r, t, q) /\ Stays(s, r)
               /\ r.error = [s.error EXCEPT ![t] = "EOK"]
<1> DEFINE a == [s EXCEPT !.error[t] = "EOK"]
           b == ListSuspend(a, q, t, Flag)
           r == BlockOn(s, q, t, w)
<1>1. /\ Woken(s, a, {}) /\ Stays(s, a) /\ a.stat = s.stat /\ a.wait = s.wait
      /\ a.error = [s.error EXCEPT ![t] = "EOK"]
  BY ErrorFacts DEF Errno
<1>2. r = IF w = Forever THEN b ELSE TimerStart(b, t, w)
  BY DEF BlockOn
<1> HIDE DEF a
<1>3. KernelOK(a) /\ a.stat[t] = "READY"
  BY <1>1, WokenKernelOK DEF KernelOK, Stays
<1>4. Parked(a, b, t, q) /\ Stays(a, b) /\ b.error = a.error
  BY <1>3, ListSuspendNow
<1> HIDE DEF b
<1>5. Parked(s, b, t, q) /\ Stays(s, b)
  BY <1>1, <1>4 DEF Parked, Stays, Woken
<1> HIDE DEF r
<1>6. CASE w = Forever
  BY <1>1, <1>2, <1>4, <1>5, <1>6 DEF r
<1>7. CASE w # Forever
  <2> DEFINE c == TimerStart(b, t, w)
  <2>1. r = c /\ w \in Nat
    BY <1>2, <1>7
  <2>2. KernelInv(b, {}) /\ b.stat[t] = "SUSPEND"
    BY <1>5 DEF Parked
  <2>3. /\ KernelInv(c, {}) /\ Stays(b, c)
        /\ c.stat = b.stat /\ c.wait = b.wait /\ c.nest = b.nest
        /\ c.prio = b.prio /\ c.error = b.error
        /\ \A x : Contains(c.timers, x) <=> Contains(b.timers, x) \/ x = t
    BY <2>1, <2>2, TimerStartNow
  <2> HIDE DEF c
  <2>4. Parked(s, c, t, q)
    BY <1>5, <2>3 DEF Parked
  <2>5. Stays(s, c) /\ c.error = [s.error EXCEPT ![t] = "EOK"]
    BY <1>1, <1>4, <1>5, <2>3 DEF Stays
  <2> QED
    BY <2>1, <2>4, <2>5 DEF r
<1> QED
  BY <1>6, <1>7

-----------------------------------------------------------------------------
(* Waking one waiter, and waking all.                                      *)

LEMMA WokenNothing ==
    ASSUME NEW s, KernelOK(s)
    PROVE  Woken(s, s, {}) /\ Stays(s, s)
  BY DEF KernelOK, Woken, Stays

LEMMA WokenMore ==
    ASSUME NEW s, NEW a, NEW r, NEW V, NEW W, Woken(s, a, V), Woken(a, r, W)
    PROVE  Woken(s, r, V \cup W)
  BY DEF Woken

(* The first waiter of q, if any.                                          *)
First(s, q) == IF s.wait[q] = << >> THEN {} ELSE {Head(s.wait[q])}

LEMMA FirstFacts ==
    ASSUME NEW s, KernelOK(s), NEW q \in Queue
    PROVE  /\ First(s, q) \subseteq Thread
           /\ \A t \in First(s, q) : Contains(s.wait[q], t) /\ s.stat[t] = "SUSPEND"
           /\ First(s, q) = {} <=> s.wait[q] = << >>
           /\ \A t, u \in First(s, q) : t = u
  BY FirstWaiter DEF First

LEMMA ResumeFirstNow ==
    ASSUME NEW s, KernelOK(s), NEW q \in Queue
    PROVE  LET r == ResumeFirst(s, q)
           IN  /\ Woken(s, r, First(s, q)) /\ Stays(s, r) /\ r.error = s.error
               /\ s.wait[q] = << >> => r = s
<1>1. CASE s.wait[q] = << >>
  BY <1>1, WokenNothing DEF ResumeFirst, First
<1>2. CASE s.wait[q] # << >>
  <2> DEFINE t == Head(s.wait[q])
  <2>1. t \in Thread /\ s.stat[t] = "SUSPEND"
    BY <1>2, FirstWaiter
  <2>2. ResumeFirst(s, q) = Resume(s, t) /\ First(s, q) = {t}
    BY <1>2 DEF ResumeFirst, ListResume, First
  <2> HIDE DEF t
  <2> QED
    BY <1>2, <2>1, <2>2, ResumeFacts
<1> QED
  BY <1>1, <1>2

(* The same in an interrupt handler, whose rt_schedule is at once.         *)
LEMMA ResumeFromIsrNow ==
    ASSUME NEW s, KernelOK(s), NEW q \in Queue
    PROVE  LET r == ResumeFromIsr(s, q)
           IN  /\ Woken(s, r, First(s, q)) /\ r.error = s.error /\ r.isr = s.isr
               /\ s.wait[q] = << >> => r = s
               /\ s.wait[q] # << >> => Dispatched(r)
<1>1. CASE s.wait[q] = << >>
  BY <1>1, WokenNothing DEF ResumeFromIsr, First
<1>2. CASE s.wait[q] # << >>
  <2> DEFINE a == ResumeFirst(s, q)
             r == Schedule(a)
  <2>1. r = ResumeFromIsr(s, q)
    BY <1>2 DEF ResumeFromIsr, ResumeFirst
  <2>2. Woken(s, a, First(s, q)) /\ Stays(s, a) /\ a.error = s.error
    BY ResumeFirstNow
  <2> HIDE DEF a
  <2>3. KernelOK(a)
    BY <2>2, WokenKernelOK DEF KernelOK, Stays
  <2>4. Woken(a, r, {}) /\ Dispatched(r) /\ r.error = a.error /\ r.isr = a.isr
    BY <2>3, ScheduleNow
  <2> HIDE DEF r
  <2>5. Woken(s, r, First(s, q))
    <3>1. First(s, q) \cup {} = First(s, q)
      OBVIOUS
    <3> QED
      BY <2>2, <2>4, <3>1, WokenMore
  <2> QED
    BY <1>2, <2>1, <2>2, <2>4, <2>5 DEF Stays
<1> QED
  BY <1>1, <1>2

LEMMA ResumeWithErrorNow ==
    ASSUME NEW s, KernelOK(s), NEW t \in Thread, s.stat[t] = "SUSPEND"
    PROVE  LET r == ResumeWithError(s, t)
           IN  /\ Woken(s, r, {t}) /\ Stays(s, r)
               /\ r.error = [s.error EXCEPT ![t] = "ERROR"]
<1> DEFINE a == [s EXCEPT !.error[t] = "ERROR"]
           r == Resume(a, t)
<1>1. r = ResumeWithError(s, t)
  BY DEF ResumeWithError
<1>2. /\ Woken(s, a, {}) /\ Stays(s, a) /\ a.stat = s.stat
      /\ a.error = [s.error EXCEPT ![t] = "ERROR"]
  BY ErrorFacts DEF Errno
<1> HIDE DEF a
<1>3. KernelOK(a) /\ a.stat[t] = "SUSPEND"
  BY <1>2, WokenKernelOK DEF KernelOK, Stays
<1>4. Woken(a, r, {t}) /\ Stays(a, r) /\ r.error = a.error
  BY <1>3, ResumeFacts
<1> HIDE DEF r
<1>5. {} \cup {t} = {t}
  OBVIOUS
<1>6. Woken(s, r, {t})
  BY <1>2, <1>4, <1>5, WokenMore
<1> QED
  BY <1>1, <1>2, <1>4, <1>6 DEF Stays

(* A loop over a list, each round of which works on what the last one has  *)
(* left, runs to its end.                                                  *)
LEMMA ResumeAllRounds ==
    ASSUME NEW s, NEW q \in Queue, s.wait[q] \in Seq(Thread)
    PROVE  \E after :
              /\ after = [i \in 0..Len(s.wait[q]) |->
                            IF i = 0 THEN s ELSE ResumeWithError(after[i - 1], s.wait[q][i])]
              /\ ResumeAll(s, q) = after[Len(s.wait[q])]
<1> DEFINE l == s.wait[q]
           L == Len(s.wait[q])
           F(g, n) == [i \in 0..n |-> IF i = 0 THEN s ELSE ResumeWithError(g[i - 1], l[i])]
           Bad == {n \in 0..L : \A g : g # F(g, n)}
<1>1. L \in Nat
  BY LenProperties
<1>2. Bad = {}
  <2>1. SUFFICES ASSUME Bad # {} PROVE FALSE
    OBVIOUS
  <2>2. Bad \in SUBSET Nat
    BY <1>1
  <2>3. PICK m \in Bad : \A n \in Bad : m <= n
    BY <2>1, <2>2, MinOfNat
  <2>4. m \in 0..L /\ \A g : g # F(g, m)
    BY <2>3
  <2>5. CASE m = 0
    <3> DEFINE g == [i \in 0..0 |-> s]
    <3>1. g = F(g, 0)
      OBVIOUS
    <3> QED
      BY <2>4, <2>5, <3>1
  <2>6. CASE m # 0
    <3>1. m - 1 \in 0..L /\ ~(m <= m - 1) /\ m \in Nat
      BY <1>1, <2>4, <2>6
    <3>2. m - 1 \notin Bad
      BY <2>3, <3>1
    <3>3. PICK g : g = F(g, m - 1)
      BY <3>1, <3>2
    <3> DEFINE h == [i \in 0..m |-> IF i = m THEN ResumeWithError(g[m - 1], l[m]) ELSE g[i]]
    <3>4. \A i \in 0..(m - 1) : h[i] = g[i]
      BY <3>1
    <3>5. \A i \in 0..m : h[i] = IF i = 0 THEN s ELSE ResumeWithError(h[i - 1], l[i])
      <4>1. SUFFICES ASSUME NEW i \in 0..m
                     PROVE  h[i] = IF i = 0 THEN s ELSE ResumeWithError(h[i - 1], l[i])
        OBVIOUS
      <4>2. CASE i = m
        <5>1. h[m] = ResumeWithError(g[m - 1], l[m]) /\ h[m - 1] = g[m - 1] /\ m # 0
          BY <2>6, <3>1, <3>4
        <5> QED
          BY <4>2, <5>1
      <4>3. CASE i # m
        <5>1. i \in 0..(m - 1)
          BY <3>1, <4>3
        <5>2. h[i] = g[i]
          BY <3>4, <5>1
        <5>3. g[i] = IF i = 0 THEN s ELSE ResumeWithError(g[i - 1], l[i])
          BY <3>3, <5>1
        <5>4. CASE i = 0
          BY <5>2, <5>3, <5>4
        <5>5. CASE i # 0
          <6>1. i - 1 \in 0..(m - 1)
            BY <5>1, <5>5, <3>1
          <6>2. h[i - 1] = g[i - 1]
            BY <3>4, <6>1
          <6> QED
            BY <5>2, <5>3, <5>5, <6>2
        <5> QED
          BY <5>4, <5>5
      <4> QED
        BY <4>2, <4>3
    <3>6. h = [i \in 0..m |-> h[i]]
      OBVIOUS
    <3> HIDE DEF h
    <3>7. h = F(h, m)
      BY <3>5, <3>6
    <3> QED
      BY <2>4, <3>7
  <2> QED
    BY <2>5, <2>6
<1>3. \E g : g = F(g, L)
  <2>1. L \notin Bad /\ L \in 0..L
    BY <1>1, <1>2
  <2> QED
    BY <2>1
<1> DEFINE after == CHOOSE g : g = F(g, L)
<1>4. after = F(after, L)
  BY <1>3
<1>5. ResumeAll(s, q) = after[L]
  BY DEF ResumeAll
<1> QED
  BY <1>4, <1>5

(* rt_ipc_list_resume_all in one section: every waiter is woken, with an   *)
(* error, and nobody else.                                                 *)
Waiters(s, q) == {t \in Thread : Contains(s.wait[q], t)}

LEMMA ResumeAllNow ==
    ASSUME NEW s, KernelOK(s), NEW q \in Queue
    PROVE  LET r == ResumeAll(s, q)
           IN  /\ Woken(s, r, Waiters(s, q)) /\ Stays(s, r)
               /\ \A t \in Thread :
                     r.error[t] = IF t \in Waiters(s, q) THEN "ERROR" ELSE s.error[t]
<1> DEFINE l == s.wait[q]
           L == Len(s.wait[q])
           W(i) == {l[j] : j \in 1..i}
<1>1. s \in KernelType /\ l \in Seq(Thread) /\ NoRepeat(l)
  BY DEF KernelOK, KernelInv, KernelType, ListsExact
<1>2. L \in Nat /\ DOMAIN l = 1..L /\ \A i \in 1..L : l[i] \in Thread
  BY <1>1, LenProperties, ElementOfSeq
<1>3. PICK after :
         /\ after = [i \in 0..L |-> IF i = 0 THEN s ELSE ResumeWithError(after[i - 1], l[i])]
         /\ ResumeAll(s, q) = after[L]
  BY <1>1, ResumeAllRounds
<1>4. after[0] = s /\ \A i \in 1..L : after[i] = ResumeWithError(after[i - 1], l[i])
  <2>1. 0 \in 0..L /\ \A i \in 1..L : i \in 0..L /\ i # 0
    BY <1>2
  <2> QED
    BY <1>3, <2>1
<1>5. \A i \in 1..L : Contains(l, l[i]) /\ s.stat[l[i]] = "SUSPEND"
  <2>1. \A i \in 1..L : Contains(l, l[i])
    BY DEF Contains
  <2> QED
    BY <1>2, <2>1 DEF KernelOK, KernelInv, LinksExact
<1> DEFINE Good(i) ==
             /\ Woken(s, after[i], W(i)) /\ Stays(s, after[i])
             /\ \A t \in Thread : after[i].error[t] = IF t \in W(i) THEN "ERROR" ELSE s.error[t]
           Bad == {i \in 0..L : ~Good(i)}
<1>6. Good(0)
  <2>1. W(0) = {}
    OBVIOUS
  <2> HIDE DEF W
  <2> QED
    BY <1>4, <2>1, WokenNothing
<1>7. ASSUME NEW i \in 1..L, Good(i - 1)
      PROVE  Good(i)
  <2> DEFINE a == after[i - 1]
             t == l[i]
  <2>1. t \in Thread /\ after[i] = ResumeWithError(a, t) /\ s.stat[t] = "SUSPEND"
    BY <1>2, <1>4, <1>5
  <2>2. t \notin W(i - 1)
    <3>1. ASSUME NEW j \in 1..(i - 1), l[j] = l[i] PROVE FALSE
      <4>1. j \in 1..L /\ j # i
        BY <1>2
      <4> QED
        BY <1>1, <1>2, <3>1, <4>1 DEF NoRepeat
    <3> QED
      BY <3>1
  <2>3. W(i) = W(i - 1) \cup {t}
    <3>1. 1..i = 1..(i - 1) \cup {i}
      BY <1>2
    <3> QED
      BY <3>1
  <2> HIDE DEF W, t, a
  <2>4. Woken(s, a, W(i - 1)) /\ Stays(s, a)
    BY <1>7 DEF a
  <2>5. KernelOK(a) /\ a.stat[t] = "SUSPEND"
    BY <2>1, <2>2, <2>4, WokenKernelOK DEF KernelOK, Stays, Woken
  <2>6. /\ Woken(a, after[i], {t}) /\ Stays(a, after[i])
        /\ after[i].error = [a.error EXCEPT ![t] = "ERROR"]
    <3> DEFINE r == ResumeWithError(a, t)
    <3>1. t \in Thread /\ r = after[i]
      BY <2>1
    <3>2. Woken(a, r, {t}) /\ Stays(a, r) /\ r.error = [a.error EXCEPT ![t] = "ERROR"]
      BY <3>1, <2>5, ResumeWithErrorNow
    <3> HIDE DEF r
    <3> QED
      BY <3>1, <3>2
  <2>7. Woken(s, after[i], W(i)) /\ Stays(s, after[i])
    BY <2>3, <2>4, <2>6, WokenMore DEF Stays
  <2>8. a.error \in [Thread -> Errno]
    BY <2>4 DEF Woken, KernelInv, KernelType
  <2>9. \A x \in Thread : after[i].error[x] = IF x \in W(i) THEN "ERROR" ELSE s.error[x]
    BY <1>7, <2>1, <2>3, <2>6, <2>8 DEF a
  <2> QED
    BY <2>7, <2>9
<1> HIDE DEF Good
<1>8. Bad = {}
  <2>1. SUFFICES ASSUME Bad # {} PROVE FALSE
    OBVIOUS
  <2>2. Bad \in SUBSET Nat
    BY <1>2
  <2>3. PICK m \in Bad : \A n \in Bad : m <= n
    BY <2>1, <2>2, MinOfNat
  <2>4. m \in 0..L /\ ~Good(m)
    BY <2>3
  <2>5. m # 0
    BY <1>6, <2>4
  <2>6. m \in 1..L /\ m - 1 \in 0..L /\ ~(m <= m - 1)
    BY <1>2, <2>4, <2>5
  <2>7. Good(m - 1)
    BY <2>3, <2>6
  <2> QED
    BY <1>7, <2>4, <2>6, <2>7
<1>9. Good(L)
  BY <1>2, <1>8
<1>10. W(L) = Waiters(s, q)
  BY <1>2 DEF Waiters, Contains
<1> QED
  BY <1>3, <1>9, <1>10 DEF Good

-----------------------------------------------------------------------------
(* The steps of the calls, as seen by the threads.  A call may have changed*)
(* priorities or errors before it wakes or parks anybody, so each lemma is *)
(* about a state s of the kernel that agrees with pc and want.             *)

(* The running thread is ready unless it is on its way to rt_schedule.     *)
LEMMA RunnerReady ==
    ASSUME IpcInv, NEW t \in Thread, Running(t), pc[t] \notin {"block", "sleep"}
    PROVE  k.cur = t /\ k.stat[t] = "READY" /\ ~k.isr
  BY DEF IpcInv, ThreadsOK, Running

(* A call of the running thread t that wakes the threads of W and goes on  *)
(* to step l: to its rt_schedule, or nothing has changed for it.           *)
LEMMA WakeStep ==
    ASSUME CallsType, NEW s, KernelOK(s), ThreadsOK(s, pc, want), NEW t \in Client,
           s.cur = t, pc[t] \notin {"block", "sleep", "sched"},
           NEW r, NEW W, Woken(s, r, W), r.cur = t,
           NEW l, l \notin {"sleep", "wake", "block", "woken"},
           NEW w, w = want \/ w = [want EXCEPT ![t] = None],
           l = "sched" \/ r.owed \/ (r.owed = s.owed /\ Highest(r) = Highest(s))
    PROVE  KernelOK(r) /\ ThreadsOK(r, [pc EXCEPT ![t] = l], w)
<1> DEFINE p == [pc EXCEPT ![t] = l]
<1>1. t \in Thread /\ t # Idle /\ Idle \in Thread
  BY KernelAssumption DEF Client
<1>2. KernelOK(r)
  BY <1>1, WokenKernelOK
<1>3. s.stat[t] = "READY" /\ r.stat[t] = "READY"
  BY <1>1 DEF ThreadsOK, Woken
<1>4. \A q \in Queue : ~Contains(s.wait[q], t) /\ ~Contains(r.wait[q], t)
  BY <1>1, <1>3, ReadyThread DEF Woken
<1>5. p[t] = l /\ \A x \in Thread \ {t} : p[x] = pc[x] /\ w[x] = want[x]
  BY <1>1 DEF CallsType
<1> HIDE DEF p
<1>6. p[Idle] = "run"
  BY <1>1, <1>5 DEF ThreadsOK
<1>7. \A x \in Thread : r.stat[x] = "SUSPEND" => p[x] \in {"sleep", "wake", "block", "woken"}
  BY <1>3, <1>5 DEF ThreadsOK, Woken
<1>8. r.stat[r.cur] = "READY"
  BY <1>3
<1>9. \A q \in Queue, x \in Thread : Contains(r.wait[q], x) => p[x] \in Waiting /\ w[x] = q
  BY <1>4, <1>5 DEF ThreadsOK, Woken
<1>10. \A x \in Thread : p[x] \in Waiting => w[x] \in Queue
  BY <1>5 DEF ThreadsOK, Waiting
<1>11. ASSUME NEW x \in Thread, r.stat[x] = "SUSPEND", p[x] \in Waiting
       PROVE  Contains(r.wait[w[x]], x)
  <2>1. x # t /\ p[x] = pc[x] /\ w[x] = want[x]
    BY <1>3, <1>5, <1>11
  <2>2. s.stat[x] = "SUSPEND" /\ x \notin W
    BY <1>11 DEF Woken
  <2>3. want[x] \in Queue /\ Contains(s.wait[want[x]], x)
    BY <1>11, <2>1, <2>2 DEF ThreadsOK
  <2> QED
    BY <2>1, <2>2, <2>3 DEF Woken
<1>12. ~r.owed /\ p[r.cur] \notin {"sched", "block", "sleep"} => r.cur = Highest(r)
  BY <1>5 DEF ThreadsOK
<1>13. ThreadsOK(r, p, w)
  BY <1>6, <1>7, <1>8, <1>9, <1>10, <1>11, <1>12 DEF ThreadsOK
<1> QED
  BY <1>2, <1>13 DEF p

(* Threads are woken and rt_schedule has been called; the threads stand    *)
(* where they stood, but for t, which may have returned from rt_schedule.  *)
LEMMA DispatchStep ==
    ASSUME CallsType, NEW s, KernelOK(s), ThreadsOK(s, pc, want),
           NEW r, NEW W, Woken(s, r, W), Dispatched(r),
           NEW p,
           \A x \in Thread :
              \/ p[x] = pc[x]
              \/ x # Idle /\ << pc[x], p[x] >> \in
                    {<< "sleep", "wake" >>, << "block", "woken" >>, << "sched", "run" >>}
    PROVE  KernelOK(r) /\ ThreadsOK(r, p, want)
<1>1. KernelOK(r)
  BY WokenKernelOK DEF Dispatched
<1>2. Idle \in Thread
  BY KernelAssumption
<1>3. \A x \in Thread : p[x] \in Waiting <=> pc[x] \in Waiting
  BY DEF Waiting
<1>4. p[Idle] = "run"
  BY <1>2 DEF ThreadsOK
<1>5. \A x \in Thread : r.stat[x] = "SUSPEND" => p[x] \in {"sleep", "wake", "block", "woken"}
  BY DEF ThreadsOK, Woken
<1>6. r.stat[r.cur] = "READY" /\ r.cur = Highest(r)
  BY DEF Dispatched
<1>7. \A q \in Queue, x \in Thread : Contains(r.wait[q], x) => p[x] \in Waiting /\ want[x] = q
  BY <1>3 DEF ThreadsOK, Woken
<1>8. \A x \in Thread : p[x] \in Waiting => want[x] \in Queue
  BY <1>3 DEF ThreadsOK
<1>9. \A x \in Thread : r.stat[x] = "SUSPEND" /\ p[x] \in Waiting => Contains(r.wait[want[x]], x)
  BY <1>3 DEF ThreadsOK, Woken
<1>10. ThreadsOK(r, p, want)
  BY <1>4, <1>5, <1>6, <1>7, <1>8, <1>9 DEF ThreadsOK
<1> QED
  BY <1>1, <1>10

(* The running thread t is suspended, to sleep or to wait on a queue.      *)
LEMMA ParkStep ==
    ASSUME CallsType, NEW s, KernelOK(s), ThreadsOK(s, pc, want), NEW t \in Client,
           s.cur = t, pc[t] \notin {"block", "sleep"},
           NEW q \in Queue \cup {None}, NEW r, Parked(s, r, t, q), r.cur = t,
           NEW p, p = [pc EXCEPT ![t] = IF q = None THEN "sleep" ELSE "block"],
           NEW w, w = IF q = None THEN want ELSE [want EXCEPT ![t] = q]
    PROVE  KernelOK(r) /\ ThreadsOK(r, p, w)
<1>1. t \in Thread /\ t # Idle /\ Idle \in Thread /\ None \notin Queue
  BY KernelAssumption, IpcAssumption DEF Client
<1>2. KernelOK(r)
  BY <1>1 DEF KernelOK, Parked
<1>3. s.stat[t] = "READY" /\ \A y \in Queue : ~Contains(s.wait[y], t)
  BY <1>1, ReadyThread DEF ThreadsOK
<1>4. /\ p[t] = (IF q = None THEN "sleep" ELSE "block")
      /\ \A x \in Thread \ {t} : p[x] = pc[x] /\ w[x] = want[x]
      /\ q # None => w[t] = q
  BY <1>1 DEF CallsType
<1>5. p[Idle] = "run"
  BY <1>1, <1>4 DEF ThreadsOK
<1>6. \A x \in Thread : r.stat[x] = "SUSPEND" => p[x] \in {"sleep", "wake", "block", "woken"}
  BY <1>4 DEF ThreadsOK, Parked
<1>7. p[r.cur] \in {"block", "sleep"}
  BY <1>4
<1>8. \A y \in Queue, x \in Thread : Contains(r.wait[y], x) => p[x] \in Waiting /\ w[x] = y
  BY <1>1, <1>3, <1>4 DEF ThreadsOK, Parked, Waiting
<1>9. \A x \in Thread : p[x] \in Waiting => w[x] \in Queue
  BY <1>1, <1>4 DEF ThreadsOK, Waiting
<1>10. ASSUME NEW x \in Thread, r.stat[x] = "SUSPEND", p[x] \in Waiting
       PROVE  Contains(r.wait[w[x]], x)
  <2>1. CASE x = t
    <3>1. q \in Queue /\ w[t] = q
      BY <1>4, <1>10, <2>1 DEF Waiting
    <3> QED
      BY <2>1, <3>1 DEF Parked
  <2>2. CASE x # t
    <3>1. want[x] \in Queue /\ Contains(s.wait[want[x]], x)
      BY <1>4, <1>10, <2>2 DEF ThreadsOK, Parked
    <3> QED
      BY <1>4, <2>2, <3>1 DEF Parked
  <2> QED
    BY <2>1, <2>2
<1>11. ThreadsOK(r, p, w)
  BY <1>5, <1>6, <1>7, <1>8, <1>9, <1>10 DEF ThreadsOK
<1> QED
  BY <1>2, <1>11

-----------------------------------------------------------------------------
(* What goes on beside the calls of an object: threads sleep, time passes, *)
(* timers expire, rt_schedule is called.  None of it is a grant, and no    *)
(* thread joins a wait queue or is taken off it unless its timer expires.  *)
Background ==
    /\ IpcInv' /\ UNCHANGED << wild, alive, want >>
    /\ k'.prio = k.prio
    /\ \A t \in Thread :
          pc'[t] = pc[t] \/ (pc[t] = "block" /\ pc'[t] = "woken") \/ {pc[t], pc'[t]} \subseteq Outside
    /\ \A q \in Queue, t \in Thread : Contains(k'.wait[q], t) => Contains(k.wait[q], t)
    /\ \A q \in Queue, t \in Thread :
          Contains(k.wait[q], t) /\ ~Contains(k.timers, t) => Contains(k'.wait[q], t)
    /\ \A t \in Thread : Contains(k'.timers, t) => Contains(k.timers, t) \/ pc'[t] = "sleep"
    /\ \A q \in Queue, t \in Thread : Contains(k'.wait[q], t) => k'.error[t] = k.error[t]
    /\ \A q \in Queue : Granted(q)' = Granted(q)

(* A step that leaves the queues and, for waiting threads, the errors.     *)
LEMMA QuietStep ==
    ASSUME IpcInv, IpcInv', UNCHANGED << wild, alive, want >>, k'.prio = k.prio,
           \A t \in Thread : pc'[t] = pc[t] \/ (pc[t] = "block" /\ pc'[t] = "woken")
                                \/ {pc[t], pc'[t]} \subseteq Outside,
           \A q \in Queue, t \in Thread : Contains(k'.wait[q], t) <=> Contains(k.wait[q], t),
           \A t \in Thread : Contains(k'.timers, t) => Contains(k.timers, t) \/ pc'[t] = "sleep",
           \A t \in Thread : pc[t] \in Waiting => k'.error[t] = k.error[t]
    PROVE  Background
<1>1. \A t \in Thread : pc'[t] \in Waiting <=> pc[t] \in Waiting
  BY DEF Waiting, Outside
<1>2. \A q \in Queue, t \in Thread : Contains(k.wait[q], t) => pc[t] \in Waiting
  BY DEF IpcInv, ThreadsOK
<1>3. \A q \in Queue : Granted(q)' = Granted(q)
  BY <1>1 DEF Granted, Blocked
<1> QED
  BY <1>2, <1>3 DEF Background

LEMMA CallScheduleStep ==
    ASSUME IpcInv, NEW t \in Thread, CallSchedule(t)
    PROVE  Background
<1> USE DEF IpcInv
<1>1. /\ Woken(k, k', {}) /\ Dispatched(k')
      /\ k'.error = k.error /\ k'.wait = k.wait
  BY ScheduleNow DEF CallSchedule
<1>2. t # Idle
  BY DEF CallSchedule, At, ThreadsOK
<1>3. \A x \in Thread :
         \/ pc'[x] = pc[x]
         \/ x # Idle /\ << pc[x], pc'[x] >> \in
               {<< "sleep", "wake" >>, << "block", "woken" >>, << "sched", "run" >>}
  BY <1>2 DEF CallSchedule, At, Goto, CallsType
<1>4. KernelOK(k') /\ ThreadsOK(k', pc', want)
  BY <1>1, <1>3, DispatchStep
<1>5. CallsType'
  BY DEF CallSchedule, At, Goto, CallsType, Outside, Waiting, waitVars
<1>6. UNCHANGED << wild, alive, want >>
  BY DEF CallSchedule, waitVars
<1>7. IpcInv'
  BY <1>4, <1>5, <1>6
<1>8. k'.prio = k.prio /\ \A x : Contains(k'.timers, x) => Contains(k.timers, x)
  BY <1>1 DEF Woken
<1>9. \A x \in Thread : pc'[x] = pc[x] \/ (pc[x] = "block" /\ pc'[x] = "woken")
                          \/ {pc[x], pc'[x]} \subseteq Outside
  BY <1>3 DEF Outside
<1> HIDE DEF IpcInv
<1> QED
  BY <1>1, <1>6, <1>7, <1>8, <1>9, QuietStep

LEMMA TickStep ==
    ASSUME IpcInv, Tick
    PROVE  Background
<1> USE DEF IpcInv
<1>1. /\ Woken(k, k', {}) /\ k'.error = k.error /\ k'.wait = k.wait
      /\ \/ k'.cur = k.cur /\ k'.owed = k.owed /\ Highest(k') = Highest(k)
         \/ Dispatched(k')
  BY TickNow DEF Tick
<1>2. UNCHANGED << pc, wild, alive, want >>
  BY DEF Tick
<1>4. KernelOK(k') /\ ThreadsOK(k', pc, want)
  <2>1. CASE Dispatched(k')
    BY <1>1, <2>1, DispatchStep
  <2>2. CASE k'.cur = k.cur /\ k'.owed = k.owed /\ Highest(k') = Highest(k)
    <3>1. KernelOK(k')
      BY <1>1, <2>2, WokenKernelOK DEF KernelOK
    <3>2. \A x \in Thread : k'.stat[x] = k.stat[x]
      BY <1>1 DEF Woken
    <3> QED
      BY <1>1, <2>2, <3>1, <3>2 DEF ThreadsOK, KernelOK
  <2> QED
    BY <1>1, <2>1, <2>2
<1>5. CallsType'
  <2>1. budget' \in [Thread -> {Forever} \cup 0..MaxWait]
    BY IpcAssumption DEF Tick, CallsType, Forever
  <2> QED
    BY <1>2, <2>1 DEF CallsType
<1>6. IpcInv'
  BY <1>2, <1>4, <1>5
<1>7. k'.prio = k.prio /\ \A x : Contains(k'.timers, x) => Contains(k.timers, x)
  BY <1>1 DEF Woken
<1> HIDE DEF IpcInv
<1> QED
  BY <1>1, <1>2, <1>6, <1>7, QuietStep

LEMMA TimerCheckStep ==
    ASSUME IpcInv, TimerCheck
    PROVE  Background
<1> USE DEF IpcInv
<1>1. UNCHANGED << pc, wild, alive, want, budget >>
  BY DEF TimerCheck, waitVars
<1>2. CallsType'
  BY <1>1 DEF CallsType
<1>3. CASE ~HeadExpired(k)
  <2>1. /\ Woken(k, k', {}) /\ k'.error = k.error /\ k'.wait = k.wait
        /\ k'.cur = k.cur /\ k'.owed = k.owed /\ Highest(k') = Highest(k)
    BY <1>3, CheckDoneNow DEF TimerCheck
  <2>2. KernelOK(k')
    BY <2>1, WokenKernelOK DEF KernelOK
  <2>3. \A x \in Thread : k'.stat[x] = k.stat[x]
    BY <2>1 DEF Woken
  <2>4. ThreadsOK(k', pc, want)
    BY <2>1, <2>2, <2>3 DEF ThreadsOK, KernelOK
  <2>5. IpcInv'
    BY <1>1, <1>2, <2>2, <2>4
  <2>6. k'.prio = k.prio /\ \A x : Contains(k'.timers, x) => Contains(k.timers, x)
    BY <2>1 DEF Woken
  <2> HIDE DEF IpcInv
  <2> QED
    BY <1>1, <2>1, <2>5, <2>6, QuietStep
<1>4. CASE HeadExpired(k)
  <2> DEFINE t == Head(k.timers)
  <2>1. /\ t \in Thread /\ Contains(k.timers, t) /\ k.stat[t] = "SUSPEND"
        /\ Woken(k, k', {t}) /\ Dispatched(k')
        /\ k'.error = [k.error EXCEPT ![t] = "ETIMEOUT"]
    <3>1. k.timers # << >> /\ k' = TimerExpire(k)
      BY <1>4 DEF TimerCheck, HeadExpired
    <3> QED
      BY <3>1, ExpireNow
  <2> HIDE DEF t
  <2>2. KernelOK(k') /\ ThreadsOK(k', pc, want)
    BY <1>2, <2>1, DispatchStep
  <2>3. IpcInv'
    BY <1>1, <1>2, <2>2
  <2>4. k.error \in [Thread -> Errno]
    BY DEF KernelOK, KernelInv, KernelType
  <2>5. k'.error[t] = "ETIMEOUT" /\ \A x \in Thread \ {t} : k'.error[x] = k.error[x]
    BY <2>1, <2>4
  <2>6. \A q \in Queue, x \in Thread : Contains(k'.wait[q], x) <=> Contains(k.wait[q], x) /\ x # t
    BY <2>1 DEF Woken
  <2>7. ASSUME NEW q \in Queue
        PROVE  Granted(q)' = Granted(q)
    <3>1. t \notin Granted(q)'
      BY <2>5 DEF Granted
    <3>2. t \notin Granted(q)
      BY <2>1 DEF Granted, Blocked, ThreadsOK
    <3>3. \A x \in Thread \ {t} : x \in Granted(q)' <=> x \in Granted(q)
      BY <1>1, <2>5, <2>6 DEF Granted, Blocked
    <3> QED
      BY <3>1, <3>2, <3>3 DEF Granted
  <2>8. k'.prio = k.prio /\ \A x : Contains(k'.timers, x) => Contains(k.timers, x)
    BY <2>1 DEF Woken
  <2> HIDE DEF IpcInv
  <2> QED
    BY <1>1, <2>1, <2>3, <2>5, <2>6, <2>7, <2>8 DEF Background
<1> QED
  BY <1>3, <1>4

LEMMA DelayStep ==
    ASSUME IpcInv, NEW t \in Thread, NEW d \in 1..MaxDelay, Delay(t, d)
    PROVE  Background
<1> USE DEF IpcInv
<1>1. t \in Client /\ d \in Nat
  BY IpcAssumption DEF Delay, Client
<1>2. k.cur = t /\ k.stat[t] = "READY" /\ pc[t] = "run"
  BY RunnerReady DEF Delay, At
<1>3. Parked(k, k', t, None) /\ Stays(k, k') /\ k'.error = k.error
  BY <1>1, <1>2, DelayNow DEF Delay
<1>4. UNCHANGED << wild, alive, want, budget >> /\ pc' = [pc EXCEPT ![t] = "sleep"]
  BY DEF Delay, waitVars, Goto
<1>5. KernelOK(k') /\ ThreadsOK(k', pc', want)
  <2>1. k'.cur = t
    BY <1>2, <1>3 DEF Stays
  <2>2. pc' = [pc EXCEPT ![t] = IF None = None THEN "sleep" ELSE "block"]
    BY <1>4
  <2>3. want = IF None = None THEN want ELSE [want EXCEPT ![t] = None]
    OBVIOUS
  <2>4. None \in Queue \cup {None}
    OBVIOUS
  <2> QED
    BY <1>1, <1>2, <1>3, <2>1, <2>2, <2>3, <2>4, ParkStep
<1>6. CallsType'
  BY <1>4 DEF CallsType, Outside
<1>7. IpcInv'
  BY <1>4, <1>5, <1>6
<1>8. pc'[t] = "sleep" /\ \A x \in Thread \ {t} : pc'[x] = pc[x]
  BY <1>4 DEF CallsType
<1>9. k'.prio = k.prio /\ \A x : Contains(k'.timers, x) => Contains(k.timers, x) \/ x = t
  BY <1>3 DEF Parked
<1>10. \A q \in Queue, x \in Thread : Contains(k'.wait[q], x) <=> Contains(k.wait[q], x)
  BY <1>3, IpcAssumption DEF Parked
<1>11. \A x \in Thread : pc'[x] = pc[x] \/ {pc[x], pc'[x]} \subseteq Outside
  BY <1>2, <1>8 DEF Outside
<1> HIDE DEF IpcInv
<1> QED
  BY <1>3, <1>4, <1>7, <1>8, <1>9, <1>10, <1>11, QuietStep

LEMMA WakeUpStep ==
    ASSUME IpcInv, NEW t \in Thread, Wake(t)
    PROVE  Background
<1> USE DEF IpcInv
<1>1. k.cur = t /\ k.stat[t] = "READY" /\ pc[t] = "wake" /\ t \in Client
  BY RunnerReady DEF Wake, At, Client, ThreadsOK
<1> DEFINE e == IF k.error[t] = "ETIMEOUT" THEN "EOK" ELSE k.error[t]
<1>2. k.error \in [Thread -> Errno] /\ e \in Errno
  BY DEF KernelOK, KernelInv, KernelType, Errno
<1>3. k' = [k EXCEPT !.error[t] = e]
  BY DEF Wake
<1> HIDE DEF e
<1>4. /\ Woken(k, k', {}) /\ Stays(k, k')
      /\ k'.error = [k.error EXCEPT ![t] = e] /\ k'.wait = k.wait
      /\ k'.stat = k.stat /\ Highest(k') = Highest(k)
  BY <1>2, <1>3, ErrorFacts
<1>5. UNCHANGED << wild, alive, want, budget >> /\ pc' = [pc EXCEPT ![t] = "run"]
  BY DEF Wake, waitVars, Goto
<1>6. KernelOK(k') /\ ThreadsOK(k', [pc EXCEPT ![t] = "run"], want)
  BY <1>1, <1>4, WakeStep DEF Stays
<1>7. CallsType'
  BY <1>5 DEF CallsType, Outside
<1>8. IpcInv'
  BY <1>5, <1>6, <1>7
<1>9. pc'[t] = "run" /\ \A x \in Thread \ {t} : pc'[x] = pc[x] /\ k'.error[x] = k.error[x]
  BY <1>2, <1>4, <1>5 DEF CallsType
<1>10. k'.prio = k.prio /\ \A x : Contains(k'.timers, x) => Contains(k.timers, x)
  BY <1>4 DEF Woken
<1>11. \A x \in Thread : pc'[x] = pc[x] \/ {pc[x], pc'[x]} \subseteq Outside
  BY <1>1, <1>9 DEF Outside
<1>12. \A x \in Thread : pc[x] \in Waiting => k'.error[x] = k.error[x]
  BY <1>1, <1>9 DEF Waiting
<1> HIDE DEF IpcInv
<1> QED
  BY <1>4, <1>5, <1>8, <1>10, <1>11, <1>12, QuietStep

(* What every object's Next adds to its own calls.                         *)
LEMMA BackgroundStep ==
    ASSUME IpcInv, ThreadStep \/ Sleep
    PROVE  Background
  BY CallScheduleStep, TickStep, TimerCheckStep, DelayStep, WakeUpStep DEF ThreadStep, Sleep

-----------------------------------------------------------------------------
(* The calls of an object.                                                 *)

LEMMA IpcInitFacts ==
    ASSUME IpcInit
    PROVE  /\ IpcInv /\ k.prio = InitPrio
           /\ \A q \in Queue : k.wait[q] = << >> /\ Granted(q) = {}
           /\ \A t \in Thread : pc[t] = "run"
           /\ \A q \in Queue, t \in Thread : ~Contains(k.wait[q], t)
<1> USE KernelAssumption, IpcAssumption
<1>1. KernelInv(k, {}) /\ k.cur = Highest(k) /\ k.cur \in Thread
  <2>1. Thread \in SUBSET Thread /\ Thread # {} /\ IsFiniteSet(Thread)
        /\ InitPrio \in [Thread -> Prio]
    OBVIOUS
  <2> HIDE KernelAssumption, IpcAssumption
  <2> QED
    BY <2>1, BootFacts DEF IpcInit
<1>2. /\ k.nest = 0 /\ k.prio = InitPrio /\ ~k.owed
      /\ \A t \in Thread : k.stat[t] = "READY"
      /\ \A q \in Queue : k.wait[q] = << >>
  BY DEF IpcInit, Boot
<1>3. \A q \in Queue, t \in Thread : ~Contains(k.wait[q], t)
  BY <1>2 DEF Contains
<1>4. /\ pc = [t \in Thread |-> "run"] /\ want = [t \in Thread |-> None]
      /\ wild = FALSE /\ alive = TRUE /\ budget = [t \in Thread |-> Forever]
  BY DEF IpcInit
<1>5. KernelOK(k)
  BY <1>1, <1>2 DEF KernelOK
<1>6. ThreadsOK(k, pc, want)
  BY <1>1, <1>2, <1>3, <1>4 DEF ThreadsOK, Waiting
<1>7. CallsType
  BY <1>4 DEF CallsType, Outside
<1>8. \A q \in Queue : Granted(q) = {}
  BY <1>4 DEF Granted, Waiting
<1> QED
  BY <1>2, <1>3, <1>4, <1>5, <1>6, <1>7, <1>8 DEF IpcInv

(* s is the kernel's state but for priorities and the ready queues.        *)
Like(s) ==
    /\ KernelOK(s) /\ ThreadsOK(s, pc, want)
    /\ s.cur = k.cur /\ s.isr = k.isr /\ s.error = k.error
    /\ \A q \in Queue : \A x : Contains(s.wait[q], x) <=> Contains(k.wait[q], x)
    /\ \A x : Contains(s.timers, x) <=> Contains(k.timers, x)

LEMMA LikeItself ==
    ASSUME IpcInv
    PROVE  Like(k)
  BY DEF IpcInv, Like

(* The threads of W leave their queue.  Those of them that see no error    *)
(* have been granted what they waited for; the threads of T, whose calls   *)
(* go on, are not waiting any more.                                        *)
Wakes(T, W) ==
    /\ \A q \in Queue, x \in Thread : Contains(k'.wait[q], x) <=> Contains(k.wait[q], x) /\ x \notin W
    /\ \A x \in Thread : Contains(k'.timers, x) => Contains(k.timers, x)
    /\ \A x \in Thread \ (T \cup W) : k'.error[x] = k.error[x]
    /\ \A q \in Queue : Granted(q)' =
          (Granted(q) \ T) \cup {x \in W : Contains(k.wait[q], x) /\ k'.error[x] = "EOK"}

LEMMA WakesFacts ==
    ASSUME IpcInv, NEW s, Like(s), NEW W \in SUBSET Thread, Woken(s, k', W),
           \A x \in W : k.stat[x] = "SUSPEND" /\ \E q \in Queue : Contains(k.wait[q], x),
           NEW T, \A x \in Thread \ (T \cup W) : k'.error[x] = k.error[x],
           \A x \in T : x \notin W /\ pc'[x] \notin Waiting,
           \A x \in Thread \ T : pc'[x] = pc[x] /\ want'[x] = want[x]
    PROVE  Wakes(T, W)
<1>1. \A q \in Queue, x \in Thread : Contains(k'.wait[q], x) <=> Contains(k.wait[q], x) /\ x \notin W
  BY DEF Like, Woken
<1>2. \A x \in Thread : Contains(k'.timers, x) => Contains(k.timers, x)
  BY DEF Like, Woken
<1>3. ASSUME NEW q \in Queue
      PROVE  Granted(q)' =
               (Granted(q) \ T) \cup {x \in W : Contains(k.wait[q], x) /\ k'.error[x] = "EOK"}
  <2>1. ASSUME NEW x \in T PROVE x \notin Granted(q)' /\ x \notin W
    BY <2>1 DEF Granted
  <2>2. ASSUME NEW x \in W, x \notin T
        PROVE  x \in Granted(q)' <=> Contains(k.wait[q], x) /\ k'.error[x] = "EOK"
    <3>1. PICK y \in Queue : Contains(k.wait[y], x)
      BY <2>2
    <3>2. pc[x] \in Waiting /\ want[x] = y /\ x \in Thread
      BY <3>1 DEF IpcInv, ThreadsOK
    <3>3. pc'[x] = pc[x] /\ want'[x] = want[x]
      BY <2>2, <3>2
    <3>4. ~Contains(k'.wait[q], x)
      BY <1>1, <3>2
    <3>5. y = q <=> Contains(k.wait[q], x)
      BY <3>1, <3>2 DEF IpcInv, ThreadsOK
    <3> QED
      BY <3>2, <3>3, <3>4, <3>5 DEF Granted, Blocked
  <2>3. ASSUME NEW x \in W, x \notin T
        PROVE  x \notin Granted(q) \/ x \in Granted(q)'
    <3>1. PICK y \in Queue : Contains(k.wait[y], x)
      BY <2>3
    <3>2. want[x] = y
      BY <3>1 DEF IpcInv, ThreadsOK
    <3> QED
      BY <3>1, <3>2 DEF Granted, Blocked
  <2>4. ASSUME NEW x \in Thread, x \notin W, x \notin T
        PROVE  x \in Granted(q)' <=> x \in Granted(q)
    <3>1. pc'[x] = pc[x] /\ want'[x] = want[x] /\ k'.error[x] = k.error[x]
      BY <2>4
    <3>2. Contains(k'.wait[q], x) <=> Contains(k.wait[q], x)
      BY <1>1, <2>4
    <3> QED
      BY <3>1, <3>2 DEF Granted, Blocked
  <2>5. Granted(q) \subseteq Thread /\ Granted(q)' \subseteq Thread
    BY DEF Granted
  <2> QED
    BY <2>1, <2>2, <2>3, <2>4, <2>5
<1> QED
  BY <1>1, <1>2, <1>3 DEF Wakes

(* The steps of a call after which the caller does not wait.               *)
CallerSteps == (Outside \cup Flushes \cup Carrying) \ {"sleep", "wake"}

LEMMA CallStep ==
    ASSUME IpcInv, NEW t \in Client, Running(t), pc[t] \notin {"block", "sleep", "sched"},
           NEW s, Like(s), NEW W \in SUBSET Thread, Woken(s, k', W), k'.cur = t,
           \A x \in W : \E q \in Queue : Contains(k.wait[q], x),
           \A x \in Thread \ (W \cup {t}) : k'.error[x] = k.error[x],
           NEW l \in CallerSteps, pc' = [pc EXCEPT ![t] = l],
           want' = want \/ want' = [want EXCEPT ![t] = None],
           l = "sched" \/ k'.owed \/ (k'.owed = s.owed /\ Highest(k') = Highest(s)),
           wild' \in BOOLEAN, alive' \in BOOLEAN,
           budget' \in [Thread -> {Forever} \cup 0..MaxWait]
    PROVE  IpcInv' /\ Wakes({t}, W) /\ k'.prio = s.prio
<1>1. l \notin {"sleep", "wake", "block", "woken"} /\ l \notin Waiting
  BY DEF CallerSteps, Outside, Flushes, Carrying, Waiting
<1>2. k.cur = t /\ s.cur = t /\ t \in Thread
  BY DEF Running, Like, Client
<1>3. KernelOK(k') /\ ThreadsOK(k', pc', want')
  BY <1>1, <1>2, WakeStep DEF IpcInv, Like
<1>4. CallsType'
  <2>1. pc' \in [Thread -> Outside \cup Waiting \cup Flushes \cup Carrying]
    BY DEF IpcInv, CallsType, CallerSteps
  <2>2. want' \in [Thread -> Queue \cup {None}]
    BY DEF IpcInv, CallsType
  <2> QED
    BY <2>1, <2>2 DEF CallsType
<1>5. k.stat[t] = "READY"
  BY <1>2 DEF IpcInv, ThreadsOK
<1>6. \A x \in W : k.stat[x] = "SUSPEND" /\ x # t
  BY <1>5 DEF IpcInv, KernelOK, KernelInv, LinksExact
<1>7. /\ pc'[t] \notin Waiting
      /\ \A x \in Thread \ {t} : pc'[x] = pc[x] /\ want'[x] = want[x]
  BY <1>1, <1>2 DEF IpcInv, CallsType
<1>8. Wakes({t}, W)
  BY <1>6, <1>7, WakesFacts
<1> QED
  BY <1>3, <1>4, <1>8 DEF IpcInv, Woken

(* A call that changes nothing in the kernel.                              *)
LEMMA PlainStep ==
    ASSUME IpcInv, NEW t \in Client, Running(t), pc[t] \notin {"block", "sleep", "sched"},
           UNCHANGED k, NEW l \in CallerSteps, pc' = [pc EXCEPT ![t] = l],
           want' = want \/ want' = [want EXCEPT ![t] = None],
           wild' \in BOOLEAN, alive' \in BOOLEAN,
           budget' \in [Thread -> {Forever} \cup 0..MaxWait]
    PROVE  IpcInv' /\ Wakes({t}, {}) /\ k'.prio = k.prio
<1>1. Like(k) /\ Woken(k, k', {}) /\ k'.cur = t
  BY LikeItself, WokenNothing DEF Running, Like, IpcInv
<1>2. /\ {} \in SUBSET Thread /\ \A x \in {} : \E q \in Queue : Contains(k.wait[q], x)
      /\ k'.owed = k.owed /\ Highest(k') = Highest(k) /\ k'.error = k.error
  OBVIOUS
<1> QED
  BY <1>1, <1>2, CallStep

(* A call that begins to wait on q.                                        *)
Joins(t, q) ==
    /\ \A y \in Queue, x \in Thread :
          Contains(k'.wait[y], x) <=> Contains(k.wait[y], x) \/ (x = t /\ y = q)
    /\ \A x \in Thread : Contains(k'.timers, x) => Contains(k.timers, x) \/ x = t
    /\ k'.error[t] = "EOK" /\ \A x \in Thread \ {t} : k'.error[x] = k.error[x]
    /\ \A y \in Queue : Granted(y)' = Granted(y) \ {t}

LEMMA BlockStep ==
    ASSUME IpcInv, NEW t \in Client, Running(t), pc[t] \notin {"block", "sleep"},
           NEW s, Like(s), NEW q \in Queue, NEW w \in {Forever} \cup Nat,
           k' = BlockOn(s, q, t, w), WaitOn(t, q),
           wild' \in BOOLEAN, alive' \in BOOLEAN,
           budget' \in [Thread -> {Forever} \cup 0..MaxWait]
    PROVE  IpcInv' /\ Joins(t, q) /\ k'.prio = s.prio
<1>1. k.cur = t /\ s.cur = t /\ t \in Thread /\ q # None
  BY IpcAssumption DEF Running, Like, Client
<1>2. s.stat[t] = "READY"
  BY <1>1 DEF Like, ThreadsOK
<1>3. Parked(s, k', t, q) /\ Stays(s, k') /\ k'.error = [s.error EXCEPT ![t] = "EOK"]
  BY <1>1, <1>2, BlockOnNow DEF Like
<1>4. /\ pc' = [pc EXCEPT ![t] = IF q = None THEN "sleep" ELSE "block"]
      /\ want' = IF q = None THEN want ELSE [want EXCEPT ![t] = q]
  BY <1>1 DEF WaitOn, Goto
<1>5. KernelOK(k') /\ ThreadsOK(k', pc', want')
  <2>1. k'.cur = t /\ q \in Queue \cup {None}
    BY <1>1, <1>3 DEF Stays
  <2> QED
    BY <1>1, <1>3, <1>4, <2>1, ParkStep DEF IpcInv, Like
<1>6. CallsType'
  <2>1. pc' \in [Thread -> Outside \cup Waiting \cup Flushes \cup Carrying]
    BY <1>1, <1>4 DEF IpcInv, CallsType, Waiting
  <2>2. want' \in [Thread -> Queue \cup {None}]
    BY <1>1, <1>4 DEF IpcInv, CallsType
  <2> QED
    BY <2>1, <2>2 DEF CallsType
<1>7. /\ pc'[t] = "block" /\ want'[t] = q
      /\ \A x \in Thread \ {t} : pc'[x] = pc[x] /\ want'[x] = want[x]
  BY <1>1, <1>4 DEF IpcInv, CallsType
<1>8. s.error \in [Thread -> Errno] /\ s.error = k.error
  BY DEF Like, KernelOK, KernelInv, KernelType
<1>9. k'.error[t] = "EOK" /\ \A x \in Thread \ {t} : k'.error[x] = k.error[x]
  BY <1>1, <1>3, <1>8
<1>10. \A y \in Queue, x \in Thread :
          Contains(k'.wait[y], x) <=> Contains(k.wait[y], x) \/ (x = t /\ y = q)
  BY <1>3 DEF Parked, Like
<1>11. ASSUME NEW y \in Queue
       PROVE  Granted(y)' = Granted(y) \ {t}
  <2>1. t \notin Granted(y)'
    BY <1>1, <1>7, <1>10 DEF Granted, Blocked
  <2>2. \A x \in Thread \ {t} : x \in Granted(y)' <=> x \in Granted(y)
    BY <1>7, <1>9, <1>10 DEF Granted, Blocked
  <2> QED
    BY <2>1, <2>2 DEF Granted
<1>12. \A x \in Thread : Contains(k'.timers, x) => Contains(k.timers, x) \/ x = t
  BY <1>3 DEF Parked, Like
<1> QED
  BY <1>3, <1>5, <1>6, <1>9, <1>10, <1>11, <1>12 DEF IpcInv, Joins, Parked

(* An interrupt handler that wakes the first waiter of q.                  *)
LEMMA IsrStep ==
    ASSUME IpcInv, NEW q \in Queue, k' = ResumeFromIsr(k, q),
           UNCHANGED << pc, wild, alive, want, budget >>
    PROVE  IpcInv' /\ Wakes({}, First(k, q)) /\ k'.error = k.error /\ k'.prio = k.prio
<1> DEFINE W == First(k, q)
<1>1. /\ Woken(k, k', W) /\ k'.error = k.error
      /\ k.wait[q] = << >> => k' = k
      /\ k.wait[q] # << >> => Dispatched(k')
  BY ResumeFromIsrNow DEF IpcInv
<1>2. W \subseteq Thread /\ \A x \in W : Contains(k.wait[q], x) /\ k.stat[x] = "SUSPEND"
  BY FirstFacts DEF IpcInv
<1> HIDE DEF W
<1>3. CallsType'
  BY DEF IpcInv, CallsType
<1>4. KernelOK(k') /\ ThreadsOK(k', pc, want)
  <2>1. CASE k.wait[q] = << >>
    BY <1>1, <2>1 DEF IpcInv
  <2>2. CASE k.wait[q] # << >>
    BY <1>1, <2>2, DispatchStep DEF IpcInv
  <2> QED
    BY <2>1, <2>2
<1>5. Wakes({}, W)
  BY <1>1, <1>2, LikeItself, WakesFacts
<1> QED
  BY <1>1, <1>3, <1>4, <1>5 DEF IpcInv, Woken, W
-----------------------------------------------------------------------------
(* Detaching an object: the steps of rt_ipc_list_resume_all with interrupts *)
(* enabled.                                                                *)

LEMMA FlushBeginStep ==
    ASSUME IpcInv, NEW t \in Client, NEW Q, FlushBegin(t, Q)
    PROVE  IpcInv' /\ Wakes({t}, {}) /\ k'.prio = k.prio
<1>1. /\ Running(t) /\ pc[t] \notin {"block", "sleep", "sched"}
      /\ UNCHANGED k /\ pc' = [pc EXCEPT ![t] = "flush"]
      /\ want' = want /\ wild' = wild /\ alive' = alive /\ budget' = budget
  BY DEF FlushBegin, At, Goto, waitVars
<1>2. "flush" \in CallerSteps
  BY DEF CallerSteps, Flushes
<1> QED
  BY <1>1, <1>2, PlainStep DEF IpcInv, CallsType

LEMMA FlushLookStep ==
    ASSUME IpcInv, NEW t \in Client, NEW q, NEW at \in Flushes, NEW wake \in CallerSteps,
           NEW next \in CallerSteps, FlushLook(t, q, at, wake, next)
    PROVE  IpcInv' /\ Wakes({t}, {}) /\ k'.prio = k.prio
<1> DEFINE l == IF k.wait[q] = << >> THEN next ELSE wake
<1>1. /\ Running(t) /\ pc[t] \notin {"block", "sleep", "sched"}
      /\ UNCHANGED k /\ pc' = [pc EXCEPT ![t] = l]
      /\ want' = want /\ wild' = wild /\ alive' \in BOOLEAN /\ budget' = budget
  BY DEF FlushLook, At, Goto, waitVars, Flushes
<1>2. l \in CallerSteps
  OBVIOUS
<1> HIDE DEF l
<1> QED
  BY <1>1, <1>2, PlainStep DEF IpcInv, CallsType

(* Whoever is woken reads an error.                                        *)
LEMMA FlushWakeStep ==
    ASSUME IpcInv, NEW t \in Client, NEW q \in Queue, NEW at \in Flushes, NEW wake \in Flushes,
           FlushWake(t, q, at, wake)
    PROVE  /\ IpcInv' /\ Wakes({t}, First(k, q)) /\ k'.prio = k.prio
           /\ \A x \in First(k, q) : k'.error[x] = "ERROR"
<1>1. /\ Running(t) /\ pc[t] \notin {"block", "sleep", "sched"}
      /\ pc' = [pc EXCEPT ![t] = at] /\ at \in CallerSteps
      /\ want' = want /\ wild' \in BOOLEAN /\ alive' = alive /\ budget' = budget
  <2>1. at \in CallerSteps
    BY DEF Flushes, CallerSteps
  <2>2. pc[t] \notin {"block", "sleep", "sched"}
    BY DEF FlushWake, At, Flushes
  <2>3. wild' \in BOOLEAN
    BY DEF FlushWake, IpcInv, CallsType
  <2> QED
    BY <2>1, <2>2, <2>3 DEF FlushWake, At, Goto, waitVars
<1>2. CASE k.wait[q] = << >>
  <2>1. UNCHANGED k /\ First(k, q) = {}
    BY <1>2 DEF FlushWake, First
  <2> QED
    BY <1>1, <2>1, PlainStep DEF IpcInv, CallsType
<1>3. CASE k.wait[q] # << >>
  <2> DEFINE h == Head(k.wait[q])
             a == ResumeWithError(k, h)
  <2>1. KernelOK(k) /\ h \in Thread /\ k.stat[h] = "SUSPEND" /\ Contains(k.wait[q], h)
    BY <1>3, FirstWaiter DEF IpcInv
  <2>2. k' = [a EXCEPT !.owed = TRUE]
    BY <1>3 DEF FlushWake
  <2> HIDE DEF h
  <2>3. /\ Woken(k, a, {h}) /\ Stays(k, a)
        /\ a.error = [k.error EXCEPT ![h] = "ERROR"]
    BY <2>1, ResumeWithErrorNow
  <2> HIDE DEF a
  <2>4. a \in KernelType
    BY <2>3 DEF Woken, KernelInv
  <2>5. /\ k'.cur = a.cur /\ k'.owed = TRUE /\ k'.error = a.error /\ k'.prio = a.prio
        /\ k'.stat = a.stat /\ k'.wait = a.wait /\ k'.timers = a.timers /\ k'.nest = a.nest
        /\ k'.rdy = a.rdy /\ k'.group = a.group /\ k'.mask = a.mask /\ k' \in KernelType
    BY <2>2, <2>4 DEF KernelType
  <2>6. KernelInv(k', {})
    BY <2>3, <2>5, FrameFacts DEF Woken
  <2>7. Woken(k, k', {h})
    BY <2>3, <2>5, <2>6 DEF Woken
  <2>8. k.error \in [Thread -> Errno]
    BY <2>1, RecordFacts DEF KernelOK, KernelInv
  <2>9. /\ k'.cur = t /\ k'.error[h] = "ERROR"
        /\ \A x \in Thread \ {h} : k'.error[x] = k.error[x]
    BY <1>1, <2>1, <2>3, <2>5, <2>8 DEF Stays, Running
  <2>10. First(k, q) = {h} /\ {h} \in SUBSET Thread
    BY <1>3, <2>1 DEF First, h
  <2>11. /\ \A x \in {h} : \E y \in Queue : Contains(k.wait[y], x)
         /\ \A x \in Thread \ ({h} \cup {t}) : k'.error[x] = k.error[x]
    BY <2>1, <2>9
  <2>12. wild' \in BOOLEAN /\ alive' \in BOOLEAN /\ budget' \in [Thread -> {Forever} \cup 0..MaxWait]
    BY <1>1 DEF IpcInv, CallsType
  <2>13. IpcInv' /\ Wakes({t}, {h}) /\ k'.prio = k.prio
    <3>1. Like(k) /\ k'.owed /\ k'.cur = t /\ {h} \in SUBSET Thread
      BY <2>5, <2>9, <2>10, LikeItself
    <3> QED
      BY <1>1, <2>7, <2>11, <2>12, <3>1, CallStep
  <2> QED
    BY <2>9, <2>10, <2>13
<1> QED
  BY <1>2, <1>3
-----------------------------------------------------------------------------
(* A call that wakes the first waiter of q, and one that wakes all.        *)

LEMMA WakeAndSchedule ==
    ASSUME IpcInv, NEW t \in Client, Running(t), pc[t] \notin {"block", "sleep", "sched"},
           NEW W \in SUBSET Thread, Woken(k, k', W), k'.cur = t,
           \A x \in W : \E q \in Queue : Contains(k.wait[q], x),
           \A x \in Thread \ (W \cup {t}) : k'.error[x] = k.error[x],
           pc' = [pc EXCEPT ![t] = "sched"],
           want' = want \/ want' = [want EXCEPT ![t] = None],
           wild' \in BOOLEAN, alive' \in BOOLEAN,
           budget' \in [Thread -> {Forever} \cup 0..MaxWait]
    PROVE  IpcInv' /\ Wakes({t}, W) /\ k'.prio = k.prio
<1>1. Like(k) /\ "sched" \in CallerSteps
  BY LikeItself DEF CallerSteps, Outside
<1> QED
  BY <1>1, CallStep

LEMMA ReleaseStep ==
    ASSUME IpcInv, NEW t \in Client, Running(t), pc[t] \notin {"block", "sleep", "sched"},
           NEW q \in Queue, k' = ResumeFirst(k, q), pc' = [pc EXCEPT ![t] = AfterResume(q)],
           want' = want \/ want' = [want EXCEPT ![t] = None],
           wild' \in BOOLEAN, alive' \in BOOLEAN,
           budget' \in [Thread -> {Forever} \cup 0..MaxWait]
    PROVE  /\ IpcInv' /\ Wakes({t}, First(k, q))
           /\ k'.prio = k.prio /\ k'.error = k.error
<1> DEFINE W == First(k, q)
           l == AfterResume(q)
<1>1. /\ Woken(k, k', W) /\ Stays(k, k') /\ k'.error = k.error
      /\ k.wait[q] = << >> => k' = k
  BY ResumeFirstNow DEF IpcInv
<1>2. W \in SUBSET Thread /\ \A x \in W : Contains(k.wait[q], x)
  BY FirstFacts DEF IpcInv
<1>3. k'.cur = t /\ Like(k) /\ "run" \in CallerSteps /\ "sched" \in CallerSteps
  BY <1>1, LikeItself DEF Stays, Running, CallerSteps, Outside
<1>4. CASE k.wait[q] = << >>
  <2>1. l = "run" /\ UNCHANGED k /\ W = {}
    BY <1>1, <1>4 DEF AfterResume, First
  <2> QED
    BY <1>3, <2>1, PlainStep
<1>5. CASE k.wait[q] # << >>
  <2>1. l = "sched" /\ pc' = [pc EXCEPT ![t] = "sched"]
    BY <1>5 DEF AfterResume
  <2> HIDE DEF W, l
  <2>2. /\ \A x \in W : \E y \in Queue : Contains(k.wait[y], x)
        /\ \A x \in Thread \ (W \cup {t}) : k'.error[x] = k.error[x]
    BY <1>1, <1>2
  <2>3. Woken(k, k', W) /\ W \in SUBSET Thread
    BY <1>1, <1>2
  <2>4. IpcInv' /\ Wakes({t}, W) /\ k'.prio = k.prio
    BY <1>3, <2>1, <2>2, <2>3, WakeAndSchedule
  <2> QED
    BY <1>1, <2>4 DEF W
<1> QED
  BY <1>4, <1>5

LEMMA ResumeAllStep ==
    ASSUME IpcInv, NEW t \in Client, Running(t), pc[t] \notin {"block", "sleep", "sched"},
           NEW q \in Queue, k' = ResumeAll(k, q), pc' = [pc EXCEPT ![t] = "sched"],
           UNCHANGED << wild, alive, want, budget >>
    PROVE  /\ IpcInv' /\ Wakes({t}, Waiters(k, q)) /\ k'.prio = k.prio
           /\ \A x \in Waiters(k, q) : k'.error[x] = "ERROR"
<1> DEFINE W == Waiters(k, q)
<1>1. /\ Woken(k, k', W) /\ Stays(k, k')
      /\ \A x \in Thread : k'.error[x] = IF x \in W THEN "ERROR" ELSE k.error[x]
  BY ResumeAllNow DEF IpcInv
<1>2. W \in SUBSET Thread /\ \A x \in W : Contains(k.wait[q], x)
  BY DEF Waiters
<1>3. k'.cur = t /\ Like(k) /\ "sched" \in CallerSteps
  BY <1>1, LikeItself DEF Stays, Running, CallerSteps, Outside
<1> HIDE DEF W
<1>4. /\ \A x \in W : \E y \in Queue : Contains(k.wait[y], x)
      /\ \A x \in Thread \ (W \cup {t}) : k'.error[x] = k.error[x]
      /\ \A x \in W : k'.error[x] = "ERROR"
  BY <1>1, <1>2
<1>5. wild' \in BOOLEAN /\ alive' \in BOOLEAN /\ budget' \in [Thread -> {Forever} \cup 0..MaxWait]
  BY DEF IpcInv, CallsType
<1>6. IpcInv' /\ Wakes({t}, W) /\ k'.prio = k.prio
  BY <1>1, <1>2, <1>3, <1>4, <1>5, CallStep
<1> QED
  BY <1>4, <1>6 DEF W
-----------------------------------------------------------------------------
(* Why a careful flush finds whom it saw: of the queues q1 and, after it,  *)
(* q2 of an object, only the one flusher takes threads off, because no     *)
(* call begins meanwhile and no waiter has a timer that could expire.      *)
FlushInv(q1, q2) ==
    /\ ~wild
    /\ \A t, u \in Thread : pc[t] \in Flushes /\ pc[u] \in Flushes => t = u
    /\ \A t \in Thread : pc[t] \in Flushes =>
          alive /\ \A q \in {q1, q2}, u \in Thread : Blocked(q, u) => ~Contains(k.timers, u)
    /\ \A t \in Thread : pc[t] = "flush1" => \E u \in Thread : Blocked(q1, u)
    /\ \A t \in Thread : pc[t] = "flush3" => \E u \in Thread : Blocked(q2, u)

LEMMA FlushInvInit ==
    ASSUME IpcInit, NEW q1, NEW q2
    PROVE  FlushInv(q1, q2)
<1>1. \A t \in Thread : pc[t] = "run"
  BY DEF IpcInit
<1> QED
  BY <1>1 DEF FlushInv, IpcInit, Flushes

LEMMA FlushBackground ==
    ASSUME NEW q1 \in Queue, NEW q2 \in Queue, FlushInv(q1, q2), Background
    PROVE  FlushInv(q1, q2)'
<1>1. \A t \in Thread : pc'[t] \in Flushes => pc'[t] = pc[t]
  BY DEF Background, Flushes, Outside
<1>2. \A t \in Thread, q \in {q1, q2} : Blocked(q, t)' => Blocked(q, t) /\ pc'[t] \in Waiting
  BY DEF Background, Blocked, IpcInv, ThreadsOK
<1>3. \A t \in Thread : Contains(k'.timers, t) => Contains(k.timers, t) \/ pc'[t] = "sleep"
  BY DEF Background
<1>4. \A t \in Thread, q \in {q1, q2} :
         Blocked(q, t) /\ ~Contains(k.timers, t) => Blocked(q, t)'
  BY DEF Background, Blocked
<1>5. wild' = wild /\ alive' = alive
  BY DEF Background
<1>6. \A t \in Thread : pc'[t] \in Flushes =>
         \A q \in {q1, q2}, u \in Thread : Blocked(q, u)' => ~Contains(k'.timers, u)
  BY <1>1, <1>2, <1>3 DEF FlushInv, Waiting
<1>7. \A t \in Thread : pc'[t] = "flush1" => \E u \in Thread : Blocked(q1, u)'
  BY <1>1, <1>4 DEF FlushInv, Flushes
<1>8. \A t \in Thread : pc'[t] = "flush3" => \E u \in Thread : Blocked(q2, u)'
  BY <1>1, <1>4 DEF FlushInv, Flushes
<1> QED
  BY <1>1, <1>5, <1>6, <1>7, <1>8 DEF FlushInv

(* A step of a call that began while nobody flushes.                       *)
LEMMA FlushNobody ==
    ASSUME NEW q1 \in Queue, NEW q2 \in Queue, FlushInv(q1, q2), wild' = wild,
           \A t \in Thread : pc'[t] \notin Flushes
    PROVE  FlushInv(q1, q2)'
  BY DEF FlushInv, Flushes

(* A call returns while another thread may flush.                          *)
LEMMA FlushReturn ==
    ASSUME NEW q1 \in Queue, NEW q2 \in Queue, FlushInv(q1, q2), NEW T, Wakes(T, {}),
           UNCHANGED << wild, alive >>,
           \A x \in Thread : pc'[x] \in Flushes => pc'[x] = pc[x]
    PROVE  FlushInv(q1, q2)'
<1>1. /\ \A x \in Thread, q \in {q1, q2} : Blocked(q, x)' <=> Blocked(q, x)
      /\ \A x \in Thread : Contains(k'.timers, x) => Contains(k.timers, x)
  BY DEF Wakes, Blocked
<1>2. \A t \in Thread : pc'[t] \in Flushes =>
         \A q \in {q1, q2}, u \in Thread : Blocked(q, u)' => ~Contains(k'.timers, u)
  BY <1>1 DEF FlushInv
<1>3. \A t \in Thread : pc'[t] = "flush1" => \E u \in Thread : Blocked(q1, u)'
  BY <1>1 DEF FlushInv, Flushes
<1>4. \A t \in Thread : pc'[t] = "flush3" => \E u \in Thread : Blocked(q2, u)'
  BY <1>1 DEF FlushInv, Flushes
<1> QED
  BY <1>2, <1>3, <1>4 DEF FlushInv

LEMMA FlushBeginKeeps ==
    ASSUME IpcInv, NEW q1 \in Queue, NEW q2 \in Queue, FlushInv(q1, q2),
           NEW t \in Client, NEW Q, Q = {q1, q2}, FlushBegin(t, Q), CarefulFlush, Usable
    PROVE  FlushInv(q1, q2)'
<1>1. \A x \in Thread : pc[x] \notin Flushes
  BY DEF Usable, Flushing
<1>2. pc'[t] = "flush" /\ \A x \in Thread \ {t} : pc'[x] = pc[x]
  BY DEF FlushBegin, Goto, IpcInv, CallsType, Client
<1>3. k' = k /\ wild' = wild /\ alive' = alive /\ alive
      /\ \A u \in Thread, q \in {q1, q2} : Blocked(q, u) => ~Contains(k.timers, u)
  BY DEF FlushBegin
<1>4. \A u \in Thread, q \in {q1, q2} : Blocked(q, u)' => ~Contains(k'.timers, u)
  BY <1>3 DEF Blocked
<1>5. \A x \in Thread : pc'[x] \in Flushes => x = t /\ pc'[x] = "flush"
  BY <1>1, <1>2
<1> QED
  BY <1>3, <1>4, <1>5 DEF FlushInv, Flushes

(* The two steps of each round of the loop over q1 and over q2.            *)
FlushRound(at, wake, q, q1, q2) ==
    \/ at = "flush" /\ wake = "flush1" /\ q = q1
    \/ at = "flush2" /\ wake = "flush3" /\ q = q2

LEMMA FlushLookKeeps ==
    ASSUME IpcInv, NEW q1 \in Queue, NEW q2 \in Queue, FlushInv(q1, q2),
           NEW t \in Client, NEW q, NEW at, NEW wake, NEW next \in {"run", "flush2"},
           FlushLook(t, q, at, wake, next),
           FlushRound(at, wake, q, q1, q2)
    PROVE  FlushInv(q1, q2)'
<1> DEFINE l == IF k.wait[q] = << >> THEN next ELSE wake
<1>1. /\ at \in Flushes /\ wake \in Flushes /\ q \in Queue
      /\ \/ at = "flush" /\ wake = "flush1" /\ q = q1
         \/ at = "flush2" /\ wake = "flush3" /\ q = q2
  BY DEF FlushRound, Flushes
<1>2. /\ pc[t] \in Flushes /\ t \in Thread /\ k' = k /\ wild' = wild
      /\ pc'[t] = l /\ \A x \in Thread \ {t} : pc'[x] = pc[x]
      /\ alive' = (alive /\ pc'[t] # "run")
  BY <1>1 DEF FlushLook, At, Goto, IpcInv, CallsType, Client
<1>3. \A x \in Thread \ {t} : pc'[x] \notin Flushes
  BY <1>2 DEF FlushInv
<1>4. \A x \in Thread, y \in {q1, q2} : Blocked(y, x)' <=> Blocked(y, x)
  BY <1>2 DEF Blocked
<1>5. CASE l = "run"
  <2>1. \A x \in Thread : pc'[x] \notin Flushes
    BY <1>2, <1>3, <1>5 DEF Flushes
  <2> QED
    BY <1>2, <2>1, FlushNobody
<1>6. CASE l # "run"
  <2>1. alive' /\ \A u \in Thread, y \in {q1, q2} : Blocked(y, u)' => ~Contains(k'.timers, u)
    BY <1>2, <1>4, <1>6 DEF FlushInv
  <2>2. pc'[t] = wake => \E u \in Thread : Blocked(q, u)'
    <3>1. SUFFICES ASSUME pc'[t] = wake PROVE \E u \in Thread : Contains(k.wait[q], u)
      BY <1>1, <1>2 DEF Blocked
    <3>2. k.wait[q] # << >>
      BY <1>1, <1>2, <3>1
    <3> QED
      BY <1>1, <3>2, NobodyWaits DEF IpcInv
  <2>3. pc'[t] \in {"flush2", wake}
    BY <1>2, <1>6
  <2>4. pc'[t] = "flush1" => \E u \in Thread : Blocked(q1, u)'
    BY <1>1, <2>2, <2>3
  <2>5. pc'[t] = "flush3" => \E u \in Thread : Blocked(q2, u)'
    BY <1>1, <2>2, <2>3
  <2>6. \A x \in Thread : pc'[x] \in Flushes => x = t
    BY <1>3
  <2>7. \A x \in Thread : pc'[x] \in {"flush1", "flush3"} => x = t
    BY <2>6 DEF Flushes
  <2> QED
    BY <1>2, <2>1, <2>4, <2>5, <2>6, <2>7 DEF FlushInv
<1> QED
  BY <1>5, <1>6

LEMMA FlushWakeKeeps ==
    ASSUME IpcInv, NEW q1 \in Queue, NEW q2 \in Queue, FlushInv(q1, q2),
           NEW t \in Client, NEW q, NEW at, NEW wake, FlushWake(t, q, at, wake),
           FlushRound(at, wake, q, q1, q2)
    PROVE  FlushInv(q1, q2)'
<1>1. /\ at \in Flushes /\ wake \in Flushes /\ q \in Queue
      /\ \/ at = "flush" /\ wake = "flush1" /\ q = q1
         \/ at = "flush2" /\ wake = "flush3" /\ q = q2
  BY DEF FlushRound, Flushes
<1>2. /\ pc[t] = wake /\ t \in Thread /\ alive' = alive
      /\ pc'[t] = at /\ \A x \in Thread \ {t} : pc'[x] = pc[x]
  BY <1>1 DEF FlushWake, At, Goto, IpcInv, CallsType, Client
<1>3. k.wait[q] # << >>
  <2>1. \E u \in Thread : Contains(k.wait[q], u)
    BY <1>1, <1>2 DEF FlushInv, Blocked
  <2> QED
    BY <1>1, <2>1, NobodyWaits DEF IpcInv
<1>4. wild' = wild
  BY <1>3 DEF FlushWake
<1>5. \A x \in Thread \ {t} : pc'[x] \notin Flushes
  BY <1>1, <1>2 DEF FlushInv
<1>6. Wakes({t}, First(k, q))
  BY <1>1, FlushWakeStep
<1>7. /\ \A x \in Thread, y \in {q1, q2} : Blocked(y, x)' => Blocked(y, x)
      /\ \A x \in Thread : Contains(k'.timers, x) => Contains(k.timers, x)
  BY <1>6 DEF Wakes, Blocked
<1>8. alive' /\ \A u \in Thread, y \in {q1, q2} : Blocked(y, u)' => ~Contains(k'.timers, u)
  BY <1>1, <1>2, <1>7 DEF FlushInv
<1>9. \A x \in Thread : pc'[x] \in Flushes => x = t /\ pc'[x] \in {"flush", "flush2"}
  BY <1>1, <1>2, <1>5
<1>10. \A x \in Thread : pc'[x] \notin {"flush1", "flush3"}
  BY <1>9 DEF Flushes
<1> QED
  BY <1>4, <1>8, <1>9, <1>10 DEF FlushInv
-----------------------------------------------------------------------------
(* A call that only writes thread->error of its caller, and a change of    *)
(* priority, after which no rt_schedule has to follow.                     *)

LEMMA OwnErrorStep ==
    ASSUME IpcInv, NEW t \in Client, Running(t), pc[t] = "run",
           Woken(k, k', {}), Stays(k, k'), Highest(k') = Highest(k),
           \A x \in Thread \ {t} : k'.error[x] = k.error[x],
           UNCHANGED << pc, wild, alive, want, budget >>
    PROVE  IpcInv' /\ Wakes({t}, {}) /\ k'.prio = k.prio
<1> DEFINE W == {}
<1>1. t \in Thread /\ Like(k)
  BY LikeItself DEF Client
<1>2. k'.cur = t /\ k'.owed = k.owed
  BY DEF Stays, Running
<1>3. [pc EXCEPT ![t] = "run"] = pc
  BY <1>1 DEF IpcInv, CallsType
<1>4. /\ W \in SUBSET Thread
      /\ \A x \in W : k.stat[x] = "SUSPEND" /\ \E q \in Queue : Contains(k.wait[q], x)
      /\ \A x \in Thread \ ({t} \cup W) : k'.error[x] = k.error[x]
      /\ Woken(k, k', W) /\ t \notin W
  OBVIOUS
<1> HIDE DEF W
<1>5. KernelOK(k') /\ ThreadsOK(k', [pc EXCEPT ![t] = "run"], want)
  BY <1>1, <1>2, <1>4, WakeStep DEF IpcInv, Running
<1>6. CallsType'
  BY DEF IpcInv, CallsType
<1>7. IpcInv'
  BY <1>3, <1>5, <1>6 DEF IpcInv
<1>8. pc'[t] \notin Waiting
  BY DEF Waiting
<1>9. Wakes({t}, W)
  BY <1>1, <1>4, <1>8, WakesFacts
<1> QED
  BY <1>7, <1>9 DEF W, Woken

LEMMA ErrorStep ==
    ASSUME IpcInv, NEW t \in Client, Running(t), pc[t] = "run", NEW e \in Errno,
           k' = [k EXCEPT !.error[t] = e], UNCHANGED << pc, wild, alive, want, budget >>
    PROVE  IpcInv' /\ Wakes({t}, {}) /\ k'.prio = k.prio
<1>1. t \in Thread /\ KernelOK(k)
  BY DEF Client, IpcInv
<1>2. /\ Woken(k, k', {}) /\ Stays(k, k') /\ k'.error = [k.error EXCEPT ![t] = e]
      /\ Highest(k') = Highest(k)
  BY <1>1, ErrorFacts
<1>3. k.error \in [Thread -> Errno]
  BY <1>1, RecordFacts DEF KernelOK, KernelInv
<1>4. \A x \in Thread \ {t} : k'.error[x] = k.error[x]
  BY <1>1, <1>2, <1>3
<1> QED
  BY <1>2, <1>4, OwnErrorStep

LEMMA ChangePriorityLike ==
    ASSUME IpcInv, NEW o \in Thread, NEW p \in Prio
    PROVE  LET s == ChangePriority(k, o, p)
           IN  /\ Like(s) /\ s.wait = k.wait /\ s.owed
               /\ s.prio = [k.prio EXCEPT ![o] = p]
<1> DEFINE s == ChangePriority(k, o, p)
<1>1. /\ KernelInv(s, {}) /\ s.stat = k.stat /\ s.timers = k.timers
      /\ s.cur = k.cur /\ s.nest = k.nest /\ s.isr = k.isr /\ s.owed = TRUE
  BY ChangePriorityNow DEF IpcInv, KernelOK
<1>2. s.prio = [k.prio EXCEPT ![o] = p] /\ s.error = k.error /\ s.wait = k.wait
  BY ChangePriorityData DEF IpcInv, KernelOK
<1> HIDE DEF s
<1>3. KernelOK(s)
  BY <1>1 DEF IpcInv, KernelOK
<1>4. ThreadsOK(s, pc, want)
  BY <1>1, <1>2 DEF IpcInv, ThreadsOK
<1>5. Like(s)
  BY <1>1, <1>2, <1>3, <1>4 DEF Like
<1> QED
  BY <1>1, <1>2, <1>5 DEF s

-----------------------------------------------------------------------------
(* The order of a wait queue.  The nodes that stay keep their order; with  *)
(* RT_IPC_FLAG_PRIO a new one is linked behind those at least as urgent.   *)

InOrder(l) ==
    \A i, j \in 1..Len(l) : i < j => InitPrio[l[i]] <= InitPrio[l[j]]

LEMMA PrioOrder ==
    /\ \A x \in Thread : InitPrio[x] \in Nat
    /\ \A x, y, z \in Thread :
          InitPrio[x] <= InitPrio[y] /\ InitPrio[y] <= InitPrio[z] => InitPrio[x] <= InitPrio[z]
    /\ \A x, y \in Thread : InitPrio[x] < InitPrio[y] => InitPrio[x] <= InitPrio[y]
    /\ \A x, y \in Thread : ~(InitPrio[x] < InitPrio[y]) => InitPrio[y] <= InitPrio[x]
<1>1. \A x \in Thread : InitPrio[x] \in Nat
  BY IpcAssumption, KernelAssumption DEF Prio
<1> QED
  BY <1>1

LEMMA OrderWithout ==
    ASSUME NEW l \in Seq(Thread), InOrder(l), NEW x
    PROVE  InOrder(Without(l, x))
<1>1. CASE ~Contains(l, x)
  BY <1>1 DEF Without
<1>2. CASE Contains(l, x)
  <2> DEFINE n == CHOOSE i \in 1..Len(l) : l[i] = x
             w == RemoveAt(l, n)
             h == Len(l)
  <2>1. n \in 1..h /\ h \in Nat
    BY <1>2, LenProperties DEF Contains
  <2>2. w = Without(l, x)
    BY <1>2 DEF Without
  <2> HIDE DEF n
  <2>3. Len(w) = h - 1 /\ \A i \in 1..(h - 1) : w[i] = IF i < n THEN l[i] ELSE l[i + 1]
    BY <2>1, RemoveAtFacts
  <2> HIDE DEF w
  <2>4. ASSUME NEW i \in 1..Len(w), NEW j \in 1..Len(w), i < j
        PROVE  InitPrio[w[i]] <= InitPrio[w[j]]
    <3> DEFINE a == IF i < n THEN i ELSE i + 1
               b == IF j < n THEN j ELSE j + 1
    <3>1. a \in 1..h /\ b \in 1..h /\ a < b
      BY <2>1, <2>3, <2>4
    <3>2. w[i] = l[a] /\ w[j] = l[b]
      BY <2>1, <2>3
    <3> HIDE DEF a, b
    <3> QED
      BY <3>1, <3>2 DEF InOrder
  <2> QED
    BY <2>2, <2>4 DEF InOrder
<1> QED
  BY <1>1, <1>2

LEMMA OrderInsert ==
    ASSUME NEW l \in Seq(Thread), InOrder(l), NEW t \in Thread, NEW I,
           I = {i \in 1..Len(l) : InitPrio[t] < InitPrio[l[i]]}
    PROVE  InOrder(InsertBefore(l, t, I))
<1> DEFINE h == Len(l)
<1>1. h \in Nat /\ \A i \in 1..h : l[i] \in Thread
  BY LenProperties, ElementOfSeq
<1>2. CASE I = {}
  <2> DEFINE w == Append(l, t)
  <2>1. Len(w) = h + 1 /\ (\A i \in 1..h : w[i] = l[i]) /\ w[h + 1] = t
    BY AppendProperties
  <2>2. w = InsertBefore(l, t, I)
    BY <1>2 DEF InsertBefore
  <2> HIDE DEF w
  <2>3. \A i \in 1..h : InitPrio[l[i]] <= InitPrio[t]
    BY <1>1, <1>2, PrioOrder
  <2>4. ASSUME NEW i \in 1..Len(w), NEW j \in 1..Len(w), i < j
        PROVE  InitPrio[w[i]] <= InitPrio[w[j]]
    <3>1. i \in 1..h /\ w[i] = l[i] /\ (j \in 1..h \/ j = h + 1)
      BY <1>1, <2>1, <2>4
    <3> QED
      BY <2>1, <2>3, <2>4, <3>1 DEF InOrder
  <2> QED
    BY <2>2, <2>4 DEF InOrder
<1>3. CASE I # {}
  <2> DEFINE n == Min(I)
             w == InsertAt(l, n, t)
  <2>1. n \in I /\ \A i \in I : n <= i
    <3>1. I \in SUBSET Nat
      BY <1>1
    <3> QED
      BY <1>3, <3>1, MinOfNat
  <2>2. w = InsertBefore(l, t, I)
    BY <1>3 DEF InsertBefore
  <2> HIDE DEF n
  <2>3. n \in 1..h /\ InitPrio[t] < InitPrio[l[n]]
    BY <2>1
  <2>4. /\ Len(w) = h + 1
        /\ \A i \in 1..(h + 1) :
              w[i] = IF i < n THEN l[i] ELSE IF i = n THEN t ELSE l[i - 1]
    BY <2>3, InsertAtFacts
  <2> HIDE DEF w
  <2>5. \A i \in 1..h : i < n => InitPrio[l[i]] <= InitPrio[t]
    <3> SUFFICES ASSUME NEW i \in 1..h, i < n PROVE InitPrio[l[i]] <= InitPrio[t]
      OBVIOUS
    <3>1. i \notin I
      BY <1>1, <2>1, <2>3
    <3> QED
      BY <1>1, <3>1, PrioOrder
  <2>6. \A i \in 1..h : n <= i => InitPrio[t] <= InitPrio[l[i]]
    <3> SUFFICES ASSUME NEW i \in 1..h, n <= i PROVE InitPrio[t] <= InitPrio[l[i]]
      OBVIOUS
    <3>1. InitPrio[t] <= InitPrio[l[n]] /\ l[n] \in Thread /\ l[i] \in Thread
      BY <1>1, <2>3, PrioOrder
    <3>2. i = n \/ InitPrio[l[n]] <= InitPrio[l[i]]
      BY <1>1, <2>3 DEF InOrder
    <3> QED
      BY <3>1, <3>2, PrioOrder
  <2>7. ASSUME NEW i \in 1..Len(w), NEW j \in 1..Len(w), i < j
        PROVE  InitPrio[w[i]] <= InitPrio[w[j]]
    <3>1. i \in 1..(h + 1) /\ j \in 1..(h + 1) /\ i \in Int /\ j \in Int
      BY <1>1, <2>4
    <3>2. CASE j < n
      <4>1. i \in 1..h /\ j \in 1..h /\ w[i] = l[i] /\ w[j] = l[j]
        BY <1>1, <2>3, <2>4, <2>7, <3>1, <3>2
      <4> QED
        BY <2>7, <4>1 DEF InOrder
    <3>3. CASE j = n
      <4>1. i \in 1..h /\ i < n /\ w[i] = l[i] /\ w[j] = t
        BY <1>1, <2>3, <2>4, <2>7, <3>1, <3>3
      <4> QED
        BY <2>5, <4>1
    <3>4. CASE j > n /\ i < n
      <4>1. i \in 1..h /\ j - 1 \in 1..h /\ i < j - 1 /\ w[i] = l[i] /\ w[j] = l[j - 1]
        BY <1>1, <2>3, <2>4, <2>7, <3>1, <3>4
      <4> QED
        BY <4>1 DEF InOrder
    <3>5. CASE j > n /\ i = n
      <4>1. j - 1 \in 1..h /\ n <= j - 1 /\ w[i] = t /\ w[j] = l[j - 1]
        BY <1>1, <2>3, <2>4, <2>7, <3>1, <3>5
      <4> QED
        BY <2>6, <4>1
    <3>6. CASE j > n /\ i > n
      <4>1. /\ i - 1 \in 1..h /\ j - 1 \in 1..h /\ i - 1 < j - 1
            /\ w[i] = l[i - 1] /\ w[j] = l[j - 1]
        BY <1>1, <2>3, <2>4, <2>7, <3>1, <3>6
      <4> QED
        BY <4>1 DEF InOrder
    <3> QED
      BY <1>1, <2>3, <3>1, <3>2, <3>3, <3>4, <3>5, <3>6
  <2> QED
    BY <2>2, <2>7 DEF InOrder
<1> QED
  BY <1>2, <1>3

(* The first waiter is as urgent as any.                                   *)
LEMMA OrderHead ==
    ASSUME NEW s, KernelOK(s), NEW q \in Queue, InOrder(s.wait[q]), NEW x \in Thread,
           Contains(s.wait[q], x)
    PROVE  s.wait[q] # << >> /\ InitPrio[Head(s.wait[q])] <= InitPrio[x]
<1> DEFINE l == s.wait[q]
<1>1. l \in Seq(Thread)
  BY RecordFacts DEF KernelOK, KernelInv
<1>2. PICK i \in 1..Len(l) : l[i] = x
  BY DEF Contains
<1>3. Len(l) \in Nat /\ l # << >> /\ 1 \in 1..Len(l) /\ Head(l) = l[1]
  BY <1>1, <1>2, LenProperties
<1>4. CASE i = 1
  BY <1>2, <1>3, <1>4, PrioOrder
<1>5. CASE i # 1
  BY <1>2, <1>3, <1>5 DEF InOrder
<1> QED
  BY <1>3, <1>4, <1>5

(* From s to r the wait queues lose nodes only.                            *)
Shrinks(s, r) ==
    \A q \in Queue : r.wait[q] = s.wait[q] \/ \E x : r.wait[q] = Without(s.wait[q], x)

LEMMA ShrinkSame ==
    ASSUME NEW s, NEW a, NEW r, Shrinks(s, a), r.wait = a.wait
    PROVE  Shrinks(s, r)
  BY DEF Shrinks

LEMMA ShrinkFrom ==
    ASSUME NEW s, NEW a, NEW r, Shrinks(a, r), a.wait = s.wait
    PROVE  Shrinks(s, r)
  BY DEF Shrinks

LEMMA ShrinkNothing ==
    ASSUME NEW s, NEW r, r.wait = s.wait
    PROVE  Shrinks(s, r)
  BY DEF Shrinks

LEMMA UnlinkShrinks ==
    ASSUME NEW s, NEW t
    PROVE  Shrinks(s, Unlink(s, t)) /\ \A q \in Queue : Unlink(s, t).wait[q] = Without(s.wait[q], t)
<1>1. \A q \in Queue : Unlink(s, t).wait[q] = Without(s.wait[q], t)
  BY DEF Unlink
<1> QED
  BY <1>1 DEF Shrinks

LEMMA ResumeShrinks ==
    ASSUME NEW s, NEW t
    PROVE  Shrinks(s, Resume(s, t))
<1> DEFINE a == Unlink(s, t)
<1>1. CASE s.stat[t] # "SUSPEND"
  BY <1>1, ShrinkNothing DEF Resume
<1>2. CASE s.stat[t] = "SUSPEND"
  <2>1. Resume(s, t) = InsertThread(TimerStop(a, t), t)
    BY <1>2 DEF Resume, ResumeUnlink
  <2>2. Shrinks(s, a)
    BY UnlinkShrinks
  <2> HIDE DEF a
  <2>3. Resume(s, t).wait = a.wait
    BY <2>1 DEF InsertThread, TimerStop
  <2> QED
    BY <2>2, <2>3, ShrinkSame
<1> QED
  BY <1>1, <1>2

LEMMA SuspendShrinks ==
    ASSUME NEW s, NEW t
    PROVE  Shrinks(s, Suspend(s, t))
<1> DEFINE a == [s EXCEPT !.stat[t] = "SUSPEND"]
           b == Unlink(a, t)
<1>1. CASE s.stat[t] # "READY"
  BY <1>1, ShrinkNothing DEF Suspend
<1>2. CASE s.stat[t] = "READY"
  <2>1. Suspend(s, t) = RemoveThread(a, t)
    BY <1>2 DEF Suspend, SuspendSection
  <2>2. a.wait = s.wait
    OBVIOUS
  <2> HIDE DEF a
  <2>3. Shrinks(a, b)
    BY UnlinkShrinks
  <2>4. Suspend(s, t).wait = b.wait
    BY <2>1 DEF RemoveThread
  <2> HIDE DEF b
  <2> QED
    BY <2>2, <2>3, <2>4, ShrinkSame, ShrinkFrom
<1> QED
  BY <1>1, <1>2

LEMMA ExpireShrinks ==
    ASSUME NEW s
    PROVE  Shrinks(s, TimerExpire(s))
<1> DEFINE t == Head(s.timers)
           a == [TimerStop(s, t) EXCEPT !.error[t] = "ETIMEOUT"]
           b == Unlink(a, t)
<1>1. TimerExpire(s) = Schedule(InsertThread(b, t))
  BY DEF TimerExpire, Timeout
<1>2. a.wait = s.wait
  BY DEF TimerStop
<1> HIDE DEF a, t
<1>3. Shrinks(a, b)
  BY UnlinkShrinks
<1> HIDE DEF b
<1>4. TimerExpire(s).wait = b.wait
  BY <1>1 DEF Schedule, InsertThread
<1> QED
  BY <1>2, <1>3, <1>4, ShrinkSame, ShrinkFrom

LEMMA ResumeFirstShrinks ==
    ASSUME NEW s, NEW q
    PROVE  Shrinks(s, ResumeFirst(s, q)) /\ Shrinks(s, ResumeFromIsr(s, q))
<1> DEFINE a == Resume(s, Head(s.wait[q]))
<1>1. CASE s.wait[q] = << >>
  BY <1>1, ShrinkNothing DEF ResumeFirst, ResumeFromIsr
<1>2. CASE s.wait[q] # << >>
  <2>1. ResumeFirst(s, q) = a /\ ResumeFromIsr(s, q) = Schedule(a)
    BY <1>2 DEF ResumeFirst, ResumeFromIsr, ListResume
  <2>2. Shrinks(s, a)
    BY ResumeShrinks
  <2> HIDE DEF a
  <2>3. Schedule(a).wait = a.wait
    BY DEF Schedule
  <2> QED
    BY <2>1, <2>2, <2>3, ShrinkSame
<1> QED
  BY <1>1, <1>2

LEMMA FlushWakeShrinks ==
    ASSUME NEW t, NEW q, NEW at, NEW wake, FlushWake(t, q, at, wake)
    PROVE  Shrinks(k, k')
<1> DEFINE h == Head(k.wait[q])
           a == [k EXCEPT !.error[h] = "ERROR"]
           b == Resume(a, h)
<1>1. CASE k.wait[q] = << >>
  BY <1>1, ShrinkNothing DEF FlushWake
<1>2. CASE k.wait[q] # << >>
  <2>1. k' = [b EXCEPT !.owed = TRUE]
    BY <1>2 DEF FlushWake, ResumeWithError
  <2>2. a.wait = k.wait
    OBVIOUS
  <2> HIDE DEF a, h
  <2>3. Shrinks(a, b)
    BY ResumeShrinks
  <2> HIDE DEF b
  <2>4. k'.wait = b.wait
    BY <2>1
  <2> QED
    BY <2>2, <2>3, <2>4, ShrinkSame, ShrinkFrom
<1> QED
  BY <1>1, <1>2

(* An omitted rt_schedule is still omitted, by the same thread.            *)
StillOwed ==
    k'.owed => /\ k.owed /\ k'.cur = k.cur
               /\ pc'[k.cur] = pc[k.cur] \/ pc[k.cur] \in {"run", "wake"}

LEMMA BackgroundOrder ==
    ASSUME IpcInv, ThreadStep \/ Sleep
    PROVE  Shrinks(k, k') /\ StillOwed
<1>1. KernelOK(k) /\ k.cur \in Thread /\ pc \in [Thread -> Outside \cup Waiting \cup Flushes \cup Carrying]
  BY DEF IpcInv, KernelOK, CallsType
<1>2. ASSUME NEW t \in Thread, CallSchedule(t)
      PROVE  Shrinks(k, k') /\ StillOwed
  <2>1. k'.wait = k.wait /\ Dispatched(k')
    BY <1>1, <1>2, ScheduleNow DEF CallSchedule
  <2> QED
    BY <2>1, ShrinkNothing DEF Dispatched, StillOwed
<1>3. CASE Tick
  <2>1. k'.wait = k.wait /\ pc' = pc /\ (Dispatched(k') \/ (k'.cur = k.cur /\ k'.owed = k.owed))
    BY <1>1, <1>3, TickNow DEF Tick
  <2> QED
    BY <2>1, ShrinkNothing DEF Dispatched, StillOwed
<1>4. CASE TimerCheck /\ HeadExpired(k)
  <2>1. k' = TimerExpire(k) /\ k.timers # << >>
    BY <1>4 DEF TimerCheck, HeadExpired
  <2>2. Dispatched(k') /\ Shrinks(k, k')
    BY <1>1, <2>1, ExpireNow, ExpireShrinks
  <2> QED
    BY <2>2 DEF Dispatched, StillOwed
<1>5. CASE TimerCheck /\ ~HeadExpired(k)
  <2>1. k'.wait = k.wait /\ k'.cur = k.cur /\ k'.owed = k.owed /\ pc' = pc
    BY <1>1, <1>5, CheckDoneNow DEF TimerCheck
  <2> QED
    BY <2>1, ShrinkNothing DEF StillOwed
<1>6. ASSUME NEW t \in Thread, NEW d \in 1..MaxDelay, Delay(t, d)
      PROVE  Shrinks(k, k') /\ StillOwed
  <2>1. k.cur = t /\ k.stat[t] = "READY" /\ pc[t] = "run" /\ d \in Nat
    BY <1>6, RunnerReady DEF Delay, At
  <2>2. Stays(k, k')
    BY <1>1, <1>6, <2>1, DelayNow DEF Delay
  <2>3. Shrinks(k, k')
    <3> DEFINE a == Suspend(k, t)
    <3>1. Shrinks(k, a) /\ k' = TimerStart(a, t, d)
      BY <1>6, SuspendShrinks DEF Delay
    <3> HIDE DEF a
    <3>2. k'.wait = a.wait
      BY <3>1 DEF TimerStart
    <3> QED
      BY <3>1, <3>2, ShrinkSame
  <2> QED
    BY <2>1, <2>2, <2>3 DEF Stays, StillOwed
<1>7. ASSUME NEW t \in Thread, Wake(t)
      PROVE  Shrinks(k, k') /\ StillOwed
  <2>1. k.cur = t /\ pc[t] = "wake" /\ k'.wait = k.wait /\ k'.cur = k.cur /\ k'.owed = k.owed
    BY <1>7 DEF Wake, At, Running
  <2> QED
    BY <2>1, ShrinkNothing DEF StillOwed
<1> QED
  BY <1>2, <1>3, <1>4, <1>5, <1>6, <1>7 DEF ThreadStep, Sleep

(* A step that only takes nodes off keeps the order.                       *)
LEMMA ShrinkOrder ==
    ASSUME IpcInv, NEW q \in Queue, InOrder(k.wait[q]), Shrinks(k, k')
    PROVE  InOrder(k'.wait[q])
<1>1. k.wait[q] \in Seq(Thread)
  BY RecordFacts DEF IpcInv, KernelOK, KernelInv
<1> QED
  BY <1>1, OrderWithout DEF Shrinks

(* So does a caller that joins the queue with its own priority.            *)
LEMMA BlockOrder ==
    ASSUME IpcInv, NEW s, Like(s), NEW q \in Queue, s.wait[q] = k.wait[q], InOrder(k.wait[q]),
           Flag = "PRIO", NEW t \in Thread, s.stat[t] = "READY",
           \A x \in Thread : x = t \/ Contains(k.wait[q], x) => s.prio[x] = InitPrio[x],
           NEW w \in {Forever} \cup Nat, k' = BlockOn(s, q, t, w)
    PROVE  InOrder(k'.wait[q])
<1> DEFINE a == [s EXCEPT !.error[t] = "EOK"]
           b == Suspend(a, t)
           l == k.wait[q]
           I == {i \in 1..Len(l) : InitPrio[t] < InitPrio[l[i]]}
           J == {i \in 1..Len(b.wait[q]) : b.prio[t] < b.prio[b.wait[q][i]]}
           c == ListSuspend(a, q, t, Flag)
<1>1. KernelOK(s)
  BY DEF Like
<1>2. Woken(s, a, {}) /\ Stays(s, a) /\ a.stat = s.stat /\ a.wait = s.wait
  BY <1>1, ErrorFacts DEF Errno
<1>3. k'.wait = c.wait
  BY DEF BlockOn, TimerStart
<1>4. c = [b EXCEPT !.wait[q] = InsertBefore(@, t, {i \in 1..Len(@) : b.prio[t] < b.prio[@[i]]})]
  BY DEF ListSuspend
<1> HIDE DEF a, c
<1>5. KernelOK(a) /\ a.stat[t] = "READY"
  BY <1>1, <1>2, WokenKernelOK DEF KernelOK, Stays
<1>6. Parked(a, b, t, None) /\ Shrinks(a, b)
  BY <1>5, SuspendNow, SuspendShrinks
<1> HIDE DEF b
<1>7. l \in Seq(Thread) /\ a.wait[q] = l /\ b.prio = s.prio /\ ~Contains(l, t)
      /\ b.wait \in [Queue -> Seq(Thread)]
  BY <1>2, <1>5, <1>6, ReadyThread, RecordFacts DEF Parked, Woken, IpcInv, KernelOK, KernelInv
<1>8. InOrder(b.wait[q]) /\ \A x : Contains(b.wait[q], x) <=> Contains(l, x)
  <2>1. q # None
    BY IpcAssumption
  <2>2. \A x : Contains(b.wait[q], x) <=> Contains(a.wait[q], x)
    BY <1>6, <2>1 DEF Parked
  <2>3. b.wait[q] = l \/ \E x : b.wait[q] = Without(l, x)
    BY <1>6, <1>7 DEF Shrinks
  <2>4. InOrder(b.wait[q])
    <3>1. CASE b.wait[q] = l
      BY <3>1
    <3>2. ASSUME NEW x, b.wait[q] = Without(l, x)
          PROVE  InOrder(b.wait[q])
      BY <1>7, <3>2, OrderWithout
    <3> QED
      BY <2>3, <3>1, <3>2
  <2> QED
    BY <1>7, <2>2, <2>4
<1> DEFINE n == b.wait[q]
           N == {i \in 1..Len(n) : InitPrio[t] < InitPrio[n[i]]}
<1>9. J = N
  <2>1. \A i \in 1..Len(n) : n[i] \in Thread /\ Contains(l, n[i])
    BY <1>7, <1>8, ElementOfSeq DEF Contains
  <2> QED
    BY <1>7, <2>1
<1>10. c.wait[q] = InsertBefore(n, t, N)
  <2>1. c.wait[q] = InsertBefore(n, t, J)
    BY <1>4, <1>7
  <2> QED
    BY <1>9, <2>1
<1>11. n \in Seq(Thread) /\ InOrder(n)
  BY <1>7, <1>8
<1> HIDE DEF n
<1>12. InOrder(InsertBefore(n, t, N))
  BY <1>11, OrderInsert
<1> QED
  BY <1>3, <1>10, <1>12

-----------------------------------------------------------------------------
(* The steps of a call that waits in a loop.                               *)

(* The call of t has what it wanted and wakes the first waiter of q.       *)
Gives(t, q) ==
    /\ Wakes({t}, First(k, q)) /\ k'.error = k.error
    /\ pc' = [pc EXCEPT ![t] = AfterResume(q)] /\ want' = [want EXCEPT ![t] = None]

(* It begins to wait on q, again or for the first time.                    *)
Waits(t, q) ==
    /\ Joins(t, q)
    /\ pc' = [pc EXCEPT ![t] = "block"] /\ want' = [want EXCEPT ![t] = q]

(* It gives up.                                                            *)
Leaves(t) ==
    /\ Wakes({t}, {})
    /\ pc' = [pc EXCEPT ![t] = "run"] /\ want' = [want EXCEPT ![t] = None]

LEMMA NotWaiting ==
    ASSUME IpcInv, NEW t \in Thread, Running(t), pc[t] \in {"run", "woken"}
    PROVE  \A q \in Queue : ~Blocked(q, t)
<1>1. k.stat[t] = "READY" /\ KernelOK(k)
  BY RunnerReady DEF IpcInv
<1> QED
  BY <1>1, ReadyThread DEF Blocked

LEMMA GiveStep ==
    ASSUME IpcInv, NEW t \in Client, Running(t), pc[t] \in {"run", "woken"}, NEW q \in Queue,
           k' = ResumeFirst(k, q), EndWait(t, AfterResume(q)), wild' = wild, alive' = alive
    PROVE  IpcInv' /\ Gives(t, q)
<1>1. /\ pc' = [pc EXCEPT ![t] = AfterResume(q)] /\ want' = [want EXCEPT ![t] = None]
      /\ budget' = [budget EXCEPT ![t] = Forever]
  BY DEF EndWait, Goto
<1>2. wild' \in BOOLEAN /\ alive' \in BOOLEAN /\ budget' \in [Thread -> {Forever} \cup 0..MaxWait]
  BY <1>1 DEF IpcInv, CallsType
<1>3. pc[t] \notin {"block", "sleep", "sched"}
  OBVIOUS
<1>4. IpcInv' /\ Wakes({t}, First(k, q)) /\ k'.error = k.error
  BY <1>1, <1>2, <1>3, ReleaseStep
<1> QED
  BY <1>1, <1>4 DEF Gives

LEMMA LoopWaitStep ==
    ASSUME IpcInv, NEW t \in Client, Running(t), pc[t] \in {"run", "woken"}, NEW q \in Queue,
           NEW w \in {Forever} \cup 0..MaxWait, WaitInLoop(t, q, w), wild' = wild, alive' = alive
    PROVE  IpcInv' /\ Waits(t, q)
<1>1. /\ k' = BlockOn(k, q, t, w) /\ WaitOn(t, q) /\ budget' = [budget EXCEPT ![t] = w]
      /\ pc' = [pc EXCEPT ![t] = "block"] /\ want' = [want EXCEPT ![t] = q]
  BY DEF WaitInLoop, WaitOn, Goto
<1>2. wild' \in BOOLEAN /\ alive' \in BOOLEAN /\ budget' \in [Thread -> {Forever} \cup 0..MaxWait]
  BY <1>1 DEF IpcInv, CallsType
<1>3. pc[t] \notin {"block", "sleep"} /\ w \in {Forever} \cup Nat /\ Like(k)
  BY IpcAssumption, LikeItself
<1>4. IpcInv' /\ Joins(t, q)
  BY <1>1, <1>2, <1>3, BlockStep
<1> QED
  BY <1>1, <1>4 DEF Waits

LEMMA ReturnStep ==
    ASSUME IpcInv, NEW t \in Client, Running(t), pc[t] = "woken", UNCHANGED << k, wild, alive >>,
           Return(t)
    PROVE  IpcInv' /\ Leaves(t)
<1>1. /\ pc' = [pc EXCEPT ![t] = "run"] /\ want' = [want EXCEPT ![t] = None]
      /\ budget' = [budget EXCEPT ![t] = Forever]
  BY DEF Return, EndWait, Goto
<1>2. wild' \in BOOLEAN /\ alive' \in BOOLEAN /\ budget' \in [Thread -> {Forever} \cup 0..MaxWait]
  BY <1>1 DEF IpcInv, CallsType
<1>3. "run" \in CallerSteps /\ pc[t] \notin {"block", "sleep", "sched"}
  BY DEF CallerSteps, Outside
<1>4. IpcInv' /\ Wakes({t}, {})
  BY <1>1, <1>2, <1>3, PlainStep
<1> QED
  BY <1>1, <1>4 DEF Leaves

LEMMA TimeoutStep ==
    ASSUME IpcInv, NEW t \in Client, Running(t), pc[t] = "woken",
           k' = [k EXCEPT !.error[t] = "ETIMEOUT"], wild' = wild, alive' = alive, Return(t)
    PROVE  IpcInv' /\ Leaves(t)
<1>1. /\ pc' = [pc EXCEPT ![t] = "run"] /\ want' = [want EXCEPT ![t] = None]
      /\ budget' = [budget EXCEPT ![t] = Forever] /\ k.cur = t /\ t \in Thread /\ KernelOK(k)
  BY DEF Return, EndWait, Goto, Running, Client, IpcInv
<1>2. wild' \in BOOLEAN /\ alive' \in BOOLEAN /\ budget' \in [Thread -> {Forever} \cup 0..MaxWait]
  BY <1>1 DEF IpcInv, CallsType
<1>3. "run" \in CallerSteps /\ pc[t] \notin {"block", "sleep", "sched"} /\ Like(k)
      /\ "ETIMEOUT" \in Errno
  BY LikeItself DEF CallerSteps, Outside, Errno
<1> DEFINE W == {}
<1>4. /\ Woken(k, k', W) /\ Stays(k, k') /\ Highest(k') = Highest(k)
      /\ k'.error = [k.error EXCEPT ![t] = "ETIMEOUT"]
  BY <1>1, <1>3, ErrorFacts
<1>5. /\ W \in SUBSET Thread /\ \A x \in W : \E q \in Queue : Contains(k.wait[q], x)
  OBVIOUS
<1>6. k.error \in [Thread -> Errno]
  BY <1>1, RecordFacts DEF KernelOK, KernelInv
<1>7. \A x \in Thread \ (W \cup {t}) : k'.error[x] = k.error[x]
  BY <1>4, <1>6
<1>8. k'.cur = t /\ k'.owed = k.owed
  BY <1>1, <1>4 DEF Stays
<1> HIDE DEF W
<1>9. IpcInv' /\ Wakes({t}, W)
  BY <1>1, <1>2, <1>3, <1>4, <1>5, <1>7, <1>8, CallStep
<1> QED
  BY <1>1, <1>9 DEF Leaves, W

-----------------------------------------------------------------------------
(* The threads that are on their way to what they were granted: how their  *)
(* number changes.                                                         *)
LEMMA Counted ==
    ASSUME NEW q
    PROVE  /\ IsFiniteSet(Granted(q)) /\ Cardinality(Granted(q)) \in Nat
           /\ \A x : /\ Cardinality(Granted(q) \ {x}) \in Nat
                     /\ Cardinality(Granted(q) \ {x}) >= Cardinality(Granted(q)) - 1
           /\ \A x : x \notin Granted(q) =>
                 Cardinality(Granted(q) \cup {x}) = Cardinality(Granted(q)) + 1
<1>1. IsFiniteSet(Granted(q))
  BY IpcAssumption, FS_Subset DEF Granted
<1>2. Cardinality(Granted(q)) \in Nat
  BY <1>1, FS_CardinalityType
<1>3. ASSUME NEW x
      PROVE  /\ Cardinality(Granted(q) \ {x}) \in Nat
             /\ Cardinality(Granted(q) \ {x}) >= Cardinality(Granted(q)) - 1
  <2>1. /\ IsFiniteSet(Granted(q) \ {x})
        /\ Cardinality(Granted(q) \ {x}) =
              IF x \in Granted(q) THEN Cardinality(Granted(q)) - 1 ELSE Cardinality(Granted(q))
    BY <1>1, FS_RemoveElement
  <2>2. Cardinality(Granted(q) \ {x}) \in Nat
    BY <2>1, FS_CardinalityType
  <2> QED
    BY <1>2, <2>1, <2>2
<1> QED
  BY <1>1, <1>2, <1>3, FS_AddElement

(* The rest of a list without repetitions.                                 *)
LEMMA TailFacts ==
    ASSUME NEW S, NEW l \in Seq(S), l # << >>, NoRepeat(l)
    PROVE  /\ Tail(l) \in Seq(S) /\ NoRepeat(Tail(l)) /\ Len(Tail(l)) = Len(l) - 1
           /\ Head(l) \in S /\ Contains(l, Head(l))
           /\ \A x : Contains(Tail(l), x) <=> Contains(l, x) /\ x # Head(l)
<1>1. /\ Len(l) \in Nat /\ Len(l) # 0 /\ DOMAIN l = 1..Len(l)
      /\ Head(l) = l[1] /\ Head(l) \in S
      /\ Tail(l) \in Seq(S) /\ Len(Tail(l)) = Len(l) - 1
      /\ DOMAIN Tail(l) = 1..(Len(l) - 1)
  BY EmptySeq, LenProperties, HeadTailProperties, ElementOfSeq
<1>2. \A i \in 1..(Len(l) - 1) : Tail(l)[i] = l[i + 1] /\ i + 1 \in 1..Len(l) /\ i + 1 # 1
  BY <1>1, HeadTailProperties
<1>3. NoRepeat(Tail(l))
  <2> SUFFICES ASSUME NEW i \in 1..(Len(l) - 1), NEW j \in 1..(Len(l) - 1), Tail(l)[i] = Tail(l)[j]
               PROVE  i = j
    BY <1>1 DEF NoRepeat
  <2>1. i + 1 = j + 1
    BY <1>1, <1>2 DEF NoRepeat
  <2> QED
    BY <2>1
<1>4. 1 \in 1..Len(l)
  BY <1>1
<1>5. ASSUME NEW x
      PROVE  Contains(Tail(l), x) <=> Contains(l, x) /\ x # Head(l)
  <2>1. ASSUME Contains(Tail(l), x) PROVE Contains(l, x) /\ x # Head(l)
    <3>1. PICK i \in 1..(Len(l) - 1) : Tail(l)[i] = x
      BY <1>1, <2>1 DEF Contains
    <3>2. l[i + 1] = x /\ i + 1 \in 1..Len(l) /\ i + 1 # 1
      BY <1>2, <3>1
    <3> QED
      BY <1>1, <1>4, <3>2 DEF Contains, NoRepeat
  <2>2. ASSUME Contains(l, x), x # Head(l) PROVE Contains(Tail(l), x)
    <3>1. PICK i \in 1..Len(l) : l[i] = x
      BY <1>1, <2>2 DEF Contains
    <3>2. i # 1
      BY <1>1, <2>2, <3>1
    <3>3. i - 1 \in 1..(Len(l) - 1) /\ (i - 1) + 1 = i
      BY <1>1, <3>1, <3>2
    <3>4. Tail(l)[i - 1] = x
      BY <1>2, <3>1, <3>3
    <3> QED
      BY <1>1, <3>3, <3>4 DEF Contains
  <2> QED
    BY <2>1, <2>2
<1> QED
  BY <1>1, <1>3, <1>4, <1>5 DEF Contains
=============================================================================
