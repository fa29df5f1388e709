----------------------------- MODULE LockProofs -----------------------------
(***************************************************************************)
(* Proofs about the semaphore and the mutex, for every set of threads,     *)
(* every priority and every waiting time, and about all the objects        *)
(* together.                                                               *)
(*                                                                         *)
(* The semaphore: no token is lost or made, nobody waits while there is    *)
(* one, the kernel's lists stay exact, and detaching a semaphore carefully *)
(* wakes waiters and nothing else.                                         *)
(*                                                                         *)
(* The mutex, with any number of mutexes that are never detached and for   *)
(* one mutex that is detached carefully: mutual exclusion, nobody waits    *)
(* for a free mutex, and the kernel's lists stay exact.  For one mutex: a  *)
(* thread gets its own priority back.                                      *)
(***************************************************************************)
EXTENDS MCIpc, ObjectProofs, MsgQueueProofs

-----------------------------------------------------------------------------
(* The semaphore.                                                          *)

(* The invariant.                                                          *)

(* A thread on the queue has seen no error yet, so that a release which    *)
(* takes it off the queue is a grant; and a semaphore that is detached has *)
(* nobody on its queue.                                                    *)
SemInv ==
    /\ IpcInv /\ SemTypeOK
    /\ credit <= MaxCredit
    /\ value + Cardinality(Granted("sem")) = credit
    /\ value > 0 => \A t \in Thread : ~Blocked("sem", t)
    /\ ~alive => \A t \in Thread : ~Blocked("sem", t)
    /\ \A t \in Thread : pc[t] \in Waiting => want[t] = "sem"
    /\ \A t \in Thread : Blocked("sem", t) => k.error[t] = "EOK"

LEMMA SemQueue == "sem" \in Queue
  BY SemAssumption

LEMMA SemInvImplies ==
    ASSUME SemInv
    PROVE  /\ IpcTypeOK /\ SemTypeOK /\ KernelExact /\ HighestRunsIfAsked
           /\ TokensConserved /\ NobodyWaitsForNothing
<1>1. IpcTypeOK /\ KernelExact /\ HighestRunsIfAsked
  BY IpcInvImplies DEF SemInv
<1>2. NobodyWaitsForNothing
  BY SemQueue, NobodyWaits DEF SemInv, IpcInv, NobodyWaitsForNothing, Blocked
<1> QED
  BY <1>1, <1>2 DEF SemInv, TokensConserved

(* The threads that hold a grant can be counted.                           *)
LEMMA GrantedCount ==
    /\ IsFiniteSet(Granted("sem")) /\ Cardinality(Granted("sem")) \in Nat
    /\ \A x \in Granted("sem") :
          Cardinality(Granted("sem") \ {x}) = Cardinality(Granted("sem")) - 1
    /\ \A x : x \notin Granted("sem") =>
          Cardinality(Granted("sem") \cup {x}) = Cardinality(Granted("sem")) + 1
<1>1. IsFiniteSet(Granted("sem"))
  BY IpcAssumption, FS_Subset DEF Granted
<1> QED
  BY <1>1, FS_CardinalityType, FS_AddElement, FS_RemoveElement

LEMMA SemInitFacts ==
    ASSUME IpcInit, SemInit
    PROVE  SemInv
<1>1. /\ IpcInv /\ alive = TRUE
      /\ Granted("sem") = {} /\ \A t \in Thread : pc[t] = "run" /\ ~Blocked("sem", t)
  BY SemQueue, IpcInitFacts DEF Blocked, IpcInit
<1>2. Cardinality(Granted("sem")) = 0
  BY <1>1, FS_EmptySet
<1>3. value = 0 /\ credit = 0 /\ ValueMod \in Nat \ {0} /\ MaxCredit \in Nat
  BY SemAssumption DEF SemInit
<1> QED
  BY <1>1, <1>2, <1>3 DEF SemInv, SemTypeOK, Waiting

-----------------------------------------------------------------------------
(* The steps.                                                              *)

(* A step of the semaphore that wakes the threads of W, or nobody, and     *)
(* keeps the account.                                                      *)
LEMMA SemKeeps ==
    ASSUME SemInv, IpcInv', NEW T, NEW W, Wakes(T, W),
           \A x \in Thread : pc'[x] \in Waiting => pc[x] \in Waiting /\ want'[x] = want[x],
           \A x \in T : x \in Thread => ~Blocked("sem", x),
           value' \in 0..(ValueMod - 1), credit' \in Nat, credit' <= MaxCredit,
           value' + Cardinality(Granted("sem")') = credit',
           value' > 0 => \A t \in Thread : Blocked("sem", t) => t \in W,
           ~alive' => \A t \in Thread : ~Blocked("sem", t)
    PROVE  SemInv'
<1>1. \A x \in Thread : Blocked("sem", x)' <=> Blocked("sem", x) /\ x \notin W
  BY SemQueue DEF Wakes, Blocked
<1>2. \A x \in Thread : Blocked("sem", x)' => k'.error[x] = k.error[x]
  BY <1>1, SemQueue DEF Wakes, Blocked
<1> QED
  BY <1>1, <1>2 DEF SemInv, SemTypeOK

LEMMA SemBackground ==
    ASSUME SemInv, Background, UNCHANGED semVars
    PROVE  SemInv'
<1>1. \A x \in Thread : /\ Blocked("sem", x)' => Blocked("sem", x) /\ k'.error[x] = k.error[x]
                        /\ pc'[x] \in Waiting => pc[x] \in Waiting
                        /\ want'[x] = want[x]
  BY SemQueue DEF Background, Blocked, Waiting, Outside
<1>2. Granted("sem")' = Granted("sem") /\ IpcInv' /\ alive' = alive
  BY SemQueue DEF Background
<1>3. value' = value /\ credit' = credit
  BY DEF semVars
<1> QED
  BY <1>1, <1>2, <1>3 DEF SemInv, SemTypeOK

LEMMA SemTakeBlockStep ==
    ASSUME SemInv, NEW t \in Client, NEW w \in WaitTime, SemTakeBlock(t, w)
    PROVE  SemInv' /\ Joins(t, "sem")
<1> USE SemQueue
<1>1. /\ Running(t) /\ pc[t] = "run" /\ t \in Thread /\ value = 0 /\ alive
      /\ k' = BlockOn(k, "sem", t, w) /\ WaitOn(t, "sem") /\ value' = value /\ credit' = credit
      /\ wild' = wild /\ alive' = alive /\ budget' = budget
  BY DEF SemTakeBlock, Calls, At, Usable, Client, semVars
<1>2. w \in {Forever} \cup Nat
  BY IpcAssumption DEF WaitTime
<1>3. IpcInv' /\ Joins(t, "sem")
  <2>1. Like(k) /\ IpcInv
    BY LikeItself DEF SemInv
  <2>2. wild' \in BOOLEAN /\ alive' \in BOOLEAN /\ budget' \in [Thread -> {Forever} \cup 0..MaxWait]
    BY <1>1, <2>1 DEF IpcInv, CallsType
  <2> QED
    BY <1>1, <1>2, <2>1, <2>2, BlockStep
<1>4. /\ pc'[t] = "block" /\ want'[t] = "sem"
      /\ \A x \in Thread \ {t} : pc'[x] = pc[x] /\ want'[x] = want[x]
  BY <1>1 DEF WaitOn, Goto, SemInv, IpcInv, CallsType
<1>5. Granted("sem")' = Granted("sem")
  <2>1. t \notin Granted("sem")
    BY <1>1 DEF Granted, Waiting
  <2> QED
    BY <1>3, <2>1 DEF Joins
<1>6. \A x \in Thread : Blocked("sem", x)' => k'.error[x] = "EOK"
  BY <1>3 DEF Joins, Blocked, SemInv
<1> QED
  BY <1>1, <1>3, <1>4, <1>5, <1>6 DEF SemInv, SemTypeOK

LEMMA SemTakeReturnStep ==
    ASSUME SemInv, NEW t \in Client, SemTakeReturn(t)
    PROVE  SemInv' /\ Wakes({t}, {})
<1> USE SemQueue
<1>1. /\ Running(t) /\ pc[t] = "woken" /\ t \in Thread /\ UNCHANGED << k, wild, alive, value >>
      /\ pc' = [pc EXCEPT ![t] = "run"] /\ want' = [want EXCEPT ![t] = None]
      /\ budget' = [budget EXCEPT ![t] = Forever]
      /\ credit' = IF k.error[t] = "EOK" THEN credit - 1 ELSE credit
  BY DEF SemTakeReturn, At, Return, EndWait, Goto, Client
<1>2. budget' \in [Thread -> {Forever} \cup 0..MaxWait] /\ wild' \in BOOLEAN /\ alive' \in BOOLEAN
  BY <1>1 DEF SemInv, IpcInv, CallsType
<1>3. IpcInv' /\ Wakes({t}, {})
  <2>1. "run" \in CallerSteps /\ IpcInv
    BY DEF CallerSteps, Outside, SemInv
  <2> QED
    BY <1>1, <1>2, <2>1, PlainStep
<1>4. ~Blocked("sem", t)
  BY <1>1, RunnerReady, ReadyThread DEF SemInv, IpcInv, Blocked
<1>5. t \in Granted("sem") <=> k.error[t] = "EOK"
  BY <1>1, <1>4 DEF Granted, Waiting, SemInv
<1>6. Granted("sem")' = Granted("sem") \ {t}
  BY <1>3 DEF Wakes
<1>7. value' + Cardinality(Granted("sem")') = credit' /\ credit' \in Nat /\ credit' <= MaxCredit
  <2>1. value \in Nat /\ credit \in Nat /\ MaxCredit \in Nat /\ value' = value
    BY <1>1, SemAssumption DEF SemInv, SemTypeOK
  <2>2. CASE k.error[t] = "EOK"
    <3>1. Cardinality(Granted("sem")') = Cardinality(Granted("sem")) - 1
      BY <1>5, <1>6, <2>2, GrantedCount
    <3>2. Cardinality(Granted("sem")') \in Nat
      <4>1. IsFiniteSet(Granted("sem") \ {t})
        BY GrantedCount, FS_RemoveElement
      <4> QED
        BY <1>6, <4>1, FS_CardinalityType
    <3> QED
      BY <1>1, <2>1, <2>2, <3>1, <3>2, GrantedCount DEF SemInv
  <2>3. CASE k.error[t] # "EOK"
    <3>1. Granted("sem")' = Granted("sem")
      BY <1>5, <1>6, <2>3
    <3> QED
      BY <1>1, <2>1, <2>3, <3>1 DEF SemInv
  <2> QED
    BY <2>2, <2>3
<1>8. \A x \in Thread : pc'[x] \in Waiting => pc[x] \in Waiting /\ want'[x] = want[x]
  BY <1>1 DEF SemInv, IpcInv, CallsType, Waiting
<1>9. value' \in 0..(ValueMod - 1)
  BY <1>1 DEF SemInv, SemTypeOK
<1>10. /\ value' > 0 => \A x \in Thread : Blocked("sem", x) => x \in {}
       /\ ~alive' => \A x \in Thread : ~Blocked("sem", x)
  BY <1>1 DEF SemInv
<1> QED
  BY <1>3, <1>4, <1>7, <1>8, <1>9, <1>10, SemKeeps
(* rt_sem_release puts the token with the first waiter or in the value,    *)
(* from a thread (T holds the caller) and from an interrupt (T is empty).  *)
LEMMA SemReleaseKeeps ==
    ASSUME SemInv, IpcInv', NEW T, Wakes(T, First(k, "sem")), k'.error = k.error,
           \A x \in T : pc[x] \notin Waiting,
           \A x \in Thread : pc'[x] \in Waiting => pc[x] \in Waiting /\ want'[x] = want[x],
           alive' = alive, credit < MaxCredit,
           value' = SemReleaseValue, credit' = credit + 1
    PROVE  SemInv'
<1> USE SemQueue
<1> DEFINE W == First(k, "sem")
           G == Granted("sem")
<1>1. \A x \in T : x \notin G /\ (x \in Thread => ~Blocked("sem", x))
  BY DEF Granted, SemInv, IpcInv, ThreadsOK, Blocked
<1>2. /\ W \subseteq Thread /\ \A x \in W : Blocked("sem", x)
      /\ W = {} <=> k.wait["sem"] = << >>
  BY FirstFacts DEF SemInv, IpcInv, Blocked
<1>3. \A x \in W : k'.error[x] = "EOK" /\ x \notin G
  BY <1>2 DEF SemInv, Granted
<1>4. Granted("sem")' = G \cup W
  BY <1>1, <1>2, <1>3 DEF Wakes, Blocked
<1>5. /\ value \in 0..(ValueMod - 1) /\ credit \in Nat /\ value + Cardinality(G) = credit
      /\ Cardinality(G) \in Nat /\ MaxCredit \in 0..(ValueMod - 1) /\ ValueMod \in Nat
  BY SemAssumption, GrantedCount DEF SemInv, SemTypeOK
<1>6. CASE k.wait["sem"] = << >>
  <2>1. Granted("sem")' = G /\ \A x \in Thread : ~Blocked("sem", x)
    BY <1>2, <1>4, <1>6, NobodyWaits DEF SemInv, IpcInv, Blocked
  <2>2. value' = value + 1 /\ value' \in 0..(ValueMod - 1)
    <3>1. value + 1 \in 0..(ValueMod - 1)
      BY <1>5
    <3>2. (value + 1) % ValueMod = value + 1
      BY <1>5, <3>1
    <3> QED
      BY <1>6, <3>1, <3>2 DEF SemReleaseValue
  <2>3. /\ value' + Cardinality(Granted("sem")') = credit'
        /\ credit' \in Nat /\ credit' <= MaxCredit
    BY <1>5, <2>1, <2>2
  <2> HIDE DEF W, G
  <2>4. Wakes(T, W)
    BY DEF W
  <2> QED
    BY <1>1, <2>1, <2>2, <2>3, <2>4, SemKeeps
<1>7. CASE k.wait["sem"] # << >>
  <2>1. PICK h : W = {h}
    BY <1>7 DEF First
  <2>2. value = 0 /\ value' = value /\ alive
    BY <1>2, <1>5, <2>1, <1>7 DEF SemReleaseValue, SemInv
  <2>3. Cardinality(Granted("sem")') = Cardinality(G) + 1
    BY <1>3, <1>4, <2>1, GrantedCount
  <2>4. /\ value' + Cardinality(Granted("sem")') = credit'
        /\ credit' \in Nat /\ credit' <= MaxCredit
    BY <1>5, <2>2, <2>3
  <2>5. value' \in 0..(ValueMod - 1) /\ ~(value' > 0)
    BY <1>5, <2>2
  <2> HIDE DEF W, G
  <2>6. Wakes(T, W)
    BY DEF W
  <2> QED
    BY <1>1, <2>2, <2>4, <2>5, <2>6, SemKeeps
<1> QED
  BY <1>6, <1>7

LEMMA SemReleaseStep ==
    ASSUME SemInv, NEW t \in Client, SemRelease(t)
    PROVE  SemInv' /\ Wakes({t}, First(k, "sem"))
<1> USE SemQueue
<1>1. /\ Running(t) /\ pc[t] = "run" /\ t \in Thread /\ credit < MaxCredit
      /\ k' = ResumeFirst(k, "sem") /\ pc' = [pc EXCEPT ![t] = AfterResume("sem")]
      /\ wild' = wild /\ alive' = alive /\ want' = want /\ budget' = budget
      /\ value' = SemReleaseValue /\ credit' = credit + 1
  BY DEF SemRelease, Calls, At, Goto, Client, waitVars
<1>2. IpcInv /\ wild' \in BOOLEAN /\ alive' \in BOOLEAN
      /\ budget' \in [Thread -> {Forever} \cup 0..MaxWait]
  BY <1>1 DEF SemInv, IpcInv, CallsType
<1>3. IpcInv' /\ Wakes({t}, First(k, "sem")) /\ k'.error = k.error
  BY <1>1, <1>2, ReleaseStep
<1>4. /\ \A x \in {t} : pc[x] \notin Waiting
      /\ \A x \in Thread : pc'[x] \in Waiting => pc[x] \in Waiting /\ want'[x] = want[x]
  BY <1>1, <1>2 DEF IpcInv, CallsType, Waiting, AfterResume
<1> QED
  BY <1>1, <1>3, <1>4, SemReleaseKeeps

LEMMA SemReleaseFromIsrStep ==
    ASSUME SemInv, SemReleaseFromIsr
    PROVE  SemInv' /\ Wakes({}, First(k, "sem"))
<1> USE SemQueue
<1>1. /\ credit < MaxCredit /\ k' = ResumeFromIsr(k, "sem")
      /\ UNCHANGED << pc, wild, alive, want, budget >>
      /\ value' = SemReleaseValue /\ credit' = credit + 1
  BY DEF SemReleaseFromIsr, waitVars
<1>2. IpcInv' /\ Wakes({}, First(k, "sem")) /\ k'.error = k.error
  BY <1>1, IsrStep DEF SemInv
<1> QED
  BY <1>1, <1>2, SemReleaseKeeps
(* rt_sem_control wakes every waiter with an error, so nobody is granted   *)
(* anything.                                                               *)
LEMMA SemResetStep ==
    ASSUME SemInv, NEW t \in Client, NEW v \in 0..MaxCredit, SemReset(t, v)
    PROVE  SemInv' /\ Wakes({t}, Waiters(k, "sem"))
<1> USE SemQueue
<1> DEFINE W == Waiters(k, "sem")
<1>1. /\ Running(t) /\ pc[t] = "run" /\ t \in Thread
      /\ k' = ResumeAll(k, "sem") /\ pc' = [pc EXCEPT ![t] = "sched"]
      /\ UNCHANGED << wild, alive, want, budget >>
      /\ v + Cardinality(Granted("sem")) <= MaxCredit
      /\ value' = v % ValueMod /\ credit' = v + Cardinality(Granted("sem"))
  BY DEF SemReset, Calls, At, Goto, Client, waitVars
<1>2. IpcInv' /\ Wakes({t}, W) /\ \A x \in W : k'.error[x] = "ERROR"
  BY <1>1, ResumeAllStep DEF SemInv
<1>3. \A x \in Thread : Blocked("sem", x) <=> x \in W
  BY DEF Waiters, Blocked
<1>4. t \notin Granted("sem") /\ ~Blocked("sem", t)
  BY <1>1 DEF Granted, Waiting, SemInv, IpcInv, ThreadsOK, Blocked
<1>5. Granted("sem")' = Granted("sem")
  BY <1>2, <1>4 DEF Wakes
<1>6. value' = v /\ value' \in 0..(ValueMod - 1)
  <2>1. v \in 0..(ValueMod - 1) /\ ValueMod \in Nat \ {0}
    BY SemAssumption
  <2>2. v % ValueMod = v
    BY <2>1
  <2> QED
    BY <1>1, <2>1, <2>2
<1>7. /\ value' + Cardinality(Granted("sem")') = credit' /\ credit' \in Nat /\ credit' <= MaxCredit
  BY <1>1, <1>5, <1>6, GrantedCount
<1>8. \A x \in Thread : pc'[x] \in Waiting => pc[x] \in Waiting /\ want'[x] = want[x]
  BY <1>1 DEF SemInv, IpcInv, CallsType, Waiting
<1>9. \A x \in {t} : x \in Thread => ~Blocked("sem", x)
  BY <1>4
<1>10. /\ value' > 0 => \A x \in Thread : Blocked("sem", x) => x \in W
       /\ ~alive' => \A x \in Thread : ~Blocked("sem", x)
  BY <1>1, <1>3 DEF SemInv
<1> QED
  BY <1>2, <1>6, <1>7, <1>8, <1>9, <1>10, SemKeeps

(* A step of rt_sem_detach: whoever it wakes has an error to read.         *)
LEMMA SemDetachStep ==
    ASSUME SemInv, NEW t \in Client, SemDetach(t)
    PROVE  SemInv'
<1> USE SemQueue
<1>1. value' = value /\ credit' = credit /\ IpcInv
  BY DEF SemDetach, semVars, SemInv
<1>2. {"flush", "flush1"} \subseteq Flushes /\ {"flush1", "run"} \subseteq CallerSteps
  BY DEF Flushes, CallerSteps, Outside
<1>3. ASSUME pc[t] \notin Waiting
      PROVE  t \notin Granted("sem") /\ ~Blocked("sem", t)
  BY <1>3 DEF Granted, SemInv, IpcInv, ThreadsOK, Blocked, Client
<1>4. ASSUME NEW W, IpcInv', Wakes({t}, W), \A x \in W : k'.error[x] = "ERROR",
             pc[t] \notin Waiting, NEW l, l \notin Waiting, pc' = [pc EXCEPT ![t] = l],
             want' = want, ~alive' => \A x \in Thread : ~Blocked("sem", x)
      PROVE  SemInv'
  <2>1. Granted("sem")' = Granted("sem")
    BY <1>3, <1>4 DEF Wakes
  <2>2. \A x \in Thread : pc'[x] \in Waiting => pc[x] \in Waiting /\ want'[x] = want[x]
    BY <1>4 DEF SemInv, IpcInv, CallsType
  <2>3. \A x \in {t} : x \in Thread => ~Blocked("sem", x)
    BY <1>3, <1>4
  <2>4. /\ value' \in 0..(ValueMod - 1) /\ credit' \in Nat /\ credit' <= MaxCredit
        /\ value' + Cardinality(Granted("sem")') = credit'
        /\ value' > 0 => \A x \in Thread : Blocked("sem", x) => x \in W
    BY <1>1, <2>1 DEF SemInv, SemTypeOK
  <2> QED
    BY <1>4, <2>2, <2>3, <2>4, SemKeeps
<1>5. CASE FlushBegin(t, {"sem"})
  <2> DEFINE W == {}
  <2>1. /\ pc[t] \notin Waiting /\ "flush" \notin Waiting /\ pc' = [pc EXCEPT ![t] = "flush"]
        /\ want' = want /\ alive' = alive
    BY <1>5 DEF FlushBegin, At, Goto, waitVars, Waiting
  <2>2. IpcInv' /\ Wakes({t}, W) /\ \A x \in W : k'.error[x] = "ERROR"
    BY <1>1, <1>5, FlushBeginStep
  <2> HIDE DEF W
  <2>3. ~alive' => \A x \in Thread : ~Blocked("sem", x)
    BY <2>1 DEF SemInv
  <2> QED
    BY <1>4, <2>1, <2>2, <2>3
<1>6. CASE FlushLook(t, "sem", "flush", "flush1", "run")
  <2> DEFINE W == {}
             l == IF k.wait["sem"] = << >> THEN "run" ELSE "flush1"
  <2>1. /\ pc[t] \notin Waiting /\ l \notin Waiting /\ pc' = [pc EXCEPT ![t] = l]
        /\ want' = want /\ alive' = (alive /\ pc'[t] # "run")
    BY <1>6 DEF FlushLook, At, Goto, waitVars, Waiting
  <2>2. IpcInv' /\ Wakes({t}, W) /\ \A x \in W : k'.error[x] = "ERROR"
    BY <1>1, <1>2, <1>6, FlushLookStep
  <2> HIDE DEF W
  <2>3. ~alive' => \A x \in Thread : ~Blocked("sem", x)
    <3>1. pc'[t] = l
      BY <2>1, <1>1 DEF IpcInv, CallsType, Client
    <3>2. l = "run" => k.wait["sem"] = << >>
      OBVIOUS
    <3> QED
      BY <1>1, <2>1, <3>1, <3>2, NobodyWaits DEF SemInv, IpcInv, Blocked
  <2> HIDE DEF l
  <2> QED
    BY <1>4, <2>1, <2>2, <2>3
<1>7. CASE FlushWake(t, "sem", "flush", "flush1")
  <2>1. /\ pc[t] \notin Waiting /\ "flush" \notin Waiting /\ pc' = [pc EXCEPT ![t] = "flush"]
        /\ want' = want /\ alive' = alive
    BY <1>7 DEF FlushWake, At, Goto, waitVars, Waiting
  <2>2. IpcInv' /\ Wakes({t}, First(k, "sem")) /\ \A x \in First(k, "sem") : k'.error[x] = "ERROR"
    BY <1>1, <1>2, <1>7, FlushWakeStep
  <2> QED
    BY <1>4, <2>1, <2>2 DEF SemInv
<1> QED
  BY <1>5, <1>6, <1>7 DEF SemDetach

LEMMA SemCreateStep ==
    ASSUME SemInv, NEW t \in Client, NEW v \in 0..MaxCredit, SemCreate(t, v)
    PROVE  SemInv'
<1>1. /\ UNCHANGED << k, pc, wild, want, budget >> /\ alive' = TRUE /\ ~alive
      /\ value' = v % ValueMod /\ credit' = v /\ Granted("sem") = {}
  BY DEF SemCreate, waitVars
<1>2. IpcInv'
  BY <1>1 DEF SemInv, IpcInv, CallsType
<1>3. Cardinality(Granted("sem")') = 0
  <2>1. Granted("sem")' = Granted("sem")
    BY <1>1 DEF Granted, Blocked
  <2>2. Cardinality(Granted("sem")) = 0
    BY <1>1, FS_EmptySet
  <2> QED
    BY <2>1, <2>2
<1>4. \A x \in Thread : ~Blocked("sem", x)'
  BY <1>1 DEF SemInv, Blocked
<1>5. v \in 0..(ValueMod - 1) /\ v % ValueMod = v /\ v \in Nat /\ v <= MaxCredit
  <2>1. v \in 0..(ValueMod - 1) /\ ValueMod \in Nat \ {0} /\ MaxCredit \in Nat
    BY SemAssumption
  <2> QED
    BY <2>1
<1>6. /\ value' \in 0..(ValueMod - 1) /\ credit' \in Nat /\ credit' <= MaxCredit
      /\ value' + Cardinality(Granted("sem")') = credit'
  BY <1>1, <1>3, <1>5
<1>7. /\ \A x \in Thread : pc'[x] \in Waiting => want'[x] = "sem"
  BY <1>1 DEF SemInv
<1> QED
  BY <1>1, <1>2, <1>4, <1>6, <1>7 DEF SemInv, SemTypeOK

LEMMA SemTakeTokenStep ==
    ASSUME SemInv, NEW t \in Client, SemTakeToken(t)
    PROVE  SemInv'
<1>1. UNCHANGED << k, pc, wild, alive, want, budget >> /\ value > 0
      /\ value' = value - 1 /\ credit' = credit - 1
  BY DEF SemTakeToken, ipcVars
<1>2. IpcInv' /\ Granted("sem")' = Granted("sem")
  BY <1>1 DEF SemInv, IpcInv, CallsType, Granted, Blocked
<1>3. \A x \in Thread : Blocked("sem", x)' <=> Blocked("sem", x)
  BY <1>1 DEF Blocked
<1>4. /\ value \in 0..(ValueMod - 1) /\ ValueMod \in Nat /\ MaxCredit \in Nat
      /\ credit \in Nat /\ credit <= MaxCredit /\ Cardinality(Granted("sem")) \in Nat
      /\ value + Cardinality(Granted("sem")) = credit
  BY SemAssumption, GrantedCount DEF SemInv, SemTypeOK
<1>5. /\ value' \in 0..(ValueMod - 1) /\ credit' \in Nat /\ credit' <= MaxCredit
      /\ value' + Cardinality(Granted("sem")') = credit'
  BY <1>1, <1>2, <1>4
<1>6. value' > 0 => value > 0
  BY <1>1, <1>4
<1> QED
  BY <1>1, <1>2, <1>3, <1>5, <1>6 DEF SemInv, SemTypeOK

(* The idle thread calls nothing.                                          *)
LEMMA SemCaller ==
    ASSUME SemInv, NEW t \in Thread, SemCall(t)
    PROVE  t \in Client
<1>1. pc[Idle] = "run"
  BY DEF SemInv, IpcInv, ThreadsOK
<1>2. Consumers \subseteq Client /\ Producers \subseteq Client /\ Controllers \subseteq Client
  BY IpcAssumption DEF Client
<1>3. t \in Consumers \/ t \in Producers \/ t \in Controllers \/ pc[t] \in {"woken"} \cup Flushes
  BY DEF SemCall, SemTakeToken, SemTakeBlock, SemTakeReturn, SemRelease, SemReset, SemDetach,
         SemCreate, Calls, At, FlushBegin, FlushLook, FlushWake, Flushes
<1> QED
  BY <1>1, <1>2, <1>3 DEF Client, Flushes

LEMMA SemNextStep ==
    ASSUME SemInv, [SemNext]_<<ipcVars, semVars>>
    PROVE  SemInv'
<1>1. CASE UNCHANGED << ipcVars, semVars >>
  <2>1. UNCHANGED << k, pc, wild, alive, want, budget, value, credit >>
    BY <1>1 DEF ipcVars, semVars
  <2>2. IpcInv' /\ Granted("sem")' = Granted("sem") /\ SemTypeOK'
    BY <2>1 DEF SemInv, IpcInv, CallsType, Granted, Blocked, SemTypeOK
  <2> QED
    BY <2>1, <2>2 DEF SemInv, Blocked
<1>2. ASSUME NEW t \in Thread, SemCall(t)
      PROVE  SemInv'
  <2>1. t \in Client
    BY <1>2, SemCaller
  <2> QED
    BY <1>2, <2>1, SemTakeTokenStep, SemTakeReturnStep, SemReleaseStep, SemDetachStep,
       SemTakeBlockStep, SemResetStep, SemCreateStep DEF SemCall
<1>3. CASE SemReleaseFromIsr
  BY <1>3, SemReleaseFromIsrStep
<1>4. CASE (ThreadStep \/ Sleep) /\ UNCHANGED semVars
  <2>1. Background
    BY <1>4, BackgroundStep DEF SemInv
  <2> QED
    BY <1>4, <2>1, SemBackground
<1> QED
  BY <1>1, <1>2, <1>3, <1>4 DEF SemNext
-----------------------------------------------------------------------------
(* The theorems.                                                           *)

LEMMA SemInvariant ==
    SemSpec => []SemInv
<1>1. IpcInit /\ SemInit => SemInv
  BY SemInitFacts
<1>2. SemInv /\ [SemNext]_<<ipcVars, semVars>> => SemInv'
  BY SemNextStep
<1> QED
  BY <1>1, <1>2, PTL DEF SemSpec

(* Type correctness: sem->value stays in its width and every thread stands *)
(* at a step of a call.                                                    *)
THEOREM SemTypeCorrect ==
    SemSpec => [](IpcTypeOK /\ SemTypeOK)
<1>1. SemInv => IpcTypeOK /\ SemTypeOK
  BY SemInvImplies
<1> QED
  BY <1>1, SemInvariant, PTL

(* Whatever takes, releases, resets, time-outs and detaches interleave,    *)
(* the ready queues, wait queues, bitmap and timer list of the kernel      *)
(* agree with the threads' states.                                         *)
THEOREM SemKernelExact ==
    SemSpec => []KernelExact
<1>1. SemInv => KernelExact
  BY SemInvImplies
<1> QED
  BY <1>1, SemInvariant, PTL

(* Every section that makes a thread ready ends in rt_schedule, so outside *)
(* kernel calls the most urgent ready thread runs (a detach, which calls   *)
(* no rt_schedule, excepted).                                              *)
THEOREM SemHighestRuns ==
    SemSpec => []HighestRunsIfAsked
<1>1. SemInv => HighestRunsIfAsked
  BY SemInvImplies
<1> QED
  BY <1>1, SemInvariant, PTL

(* No token is lost or made: rt_sem_release against time-outs, resets and  *)
(* interrupt handlers.                                                     *)
THEOREM SemTokensConserved ==
    SemSpec => []TokensConserved
<1>1. SemInv => TokensConserved
  BY SemInvImplies
<1> QED
  BY <1>1, SemInvariant, PTL

(* No thread is left on the queue of a semaphore that has a token.         *)
THEOREM SemNobodyWaits ==
    SemSpec => []NobodyWaitsForNothing
<1>1. SemInv => NobodyWaitsForNothing
  BY SemInvImplies
<1> QED
  BY <1>1, SemInvariant, PTL

(* A step of a call other than rt_sem_detach begins while nobody flushes,  *)
(* or returns without touching the queue.                                  *)
LEMMA SemFlushKeeps ==
    ASSUME CarefulFlush, SemInv, FlushInv("sem", "sem"),
           [SemNext]_<<ipcVars, semVars>>
    PROVE  FlushInv("sem", "sem")'
<1> USE SemQueue
<1>1. IpcInv
  BY DEF SemInv
<1>2. CASE UNCHANGED << ipcVars, semVars >>
  <2>1. UNCHANGED << k, pc, wild, alive >>
    BY <1>2 DEF ipcVars
  <2> QED
    BY <2>1 DEF FlushInv, Blocked
<1>3. CASE (ThreadStep \/ Sleep) /\ UNCHANGED semVars
  BY <1>1, <1>3, BackgroundStep, FlushBackground
<1>4. ASSUME Usable, wild' = wild,
             \A x \in Thread : pc'[x] = pc[x] \/ pc'[x] \notin Flushes
      PROVE  FlushInv("sem", "sem")'
  <2>1. \A x \in Thread : pc'[x] \notin Flushes
    BY <1>4 DEF Usable, Flushing
  <2> QED
    BY <1>4, <2>1, FlushNobody
<1>5. CASE SemReleaseFromIsr
  BY <1>4, <1>5 DEF SemReleaseFromIsr
<1>6. ASSUME NEW t \in Thread, SemCall(t)
      PROVE  FlushInv("sem", "sem")'
  <2>1. t \in Client
    BY <1>6, SemCaller
  <2>2. ASSUME NEW l, pc' = [pc EXCEPT ![t] = l], l \notin Flushes
        PROVE  \A x \in Thread : pc'[x] = pc[x] \/ pc'[x] \notin Flushes
    BY <1>1, <2>2 DEF IpcInv, CallsType
  <2>3. {"run", "sched", "block"} \cap Flushes = {}
    BY DEF Flushes
  <2>4. CASE SemTakeToken(t)
    BY <1>4, <2>4 DEF SemTakeToken, Calls, ipcVars
  <2>5. CASE \E w \in WaitTime : SemTakeBlock(t, w)
    <3>1. Usable /\ wild' = wild /\ pc' = [pc EXCEPT ![t] = "block"] /\ "block" \notin Flushes
      BY <2>3, <2>5 DEF SemTakeBlock, Calls, WaitOn, Goto
    <3> QED
      BY <1>4, <2>2, <3>1
  <2>6. CASE SemTakeReturn(t)
    <3>1. /\ UNCHANGED << wild, alive >> /\ pc' = [pc EXCEPT ![t] = "run"]
          /\ "run" \notin Flushes
      BY <2>3, <2>6 DEF SemTakeReturn, Return, EndWait, Goto
    <3>2. \A x \in Thread : pc'[x] \in Flushes => pc'[x] = pc[x]
      BY <2>2, <3>1
    <3>3. Wakes({t}, {})
      BY <2>1, <2>6, SemTakeReturnStep
    <3> QED
      BY <3>1, <3>2, <3>3, FlushReturn
  <2>7. CASE SemRelease(t)
    <3>1. /\ Usable /\ wild' = wild /\ pc' = [pc EXCEPT ![t] = AfterResume("sem")]
          /\ AfterResume("sem") \notin Flushes
      BY <2>3, <2>7 DEF SemRelease, Calls, Goto, AfterResume
    <3> QED
      BY <1>4, <2>2, <3>1
  <2>8. CASE \E v \in 0..MaxCredit : SemReset(t, v)
    <3>1. Usable /\ wild' = wild /\ pc' = [pc EXCEPT ![t] = "sched"] /\ "sched" \notin Flushes
      BY <2>3, <2>8 DEF SemReset, Calls, Goto
    <3> QED
      BY <1>4, <2>2, <3>1
  <2>9. CASE SemDetach(t)
    <3>1. {"sem", "sem"} = {"sem"} /\ FlushRound("flush", "flush1", "sem", "sem", "sem")
      BY DEF FlushRound
    <3>2. CASE FlushBegin(t, {"sem"}) /\ Usable
      BY <1>1, <2>1, <3>1, <3>2, FlushBeginKeeps
    <3>3. CASE FlushLook(t, "sem", "flush", "flush1", "run")
      BY <1>1, <2>1, <3>1, <3>3, FlushLookKeeps
    <3>4. CASE FlushWake(t, "sem", "flush", "flush1")
      BY <1>1, <2>1, <3>1, <3>4, FlushWakeKeeps
    <3> QED
      BY <2>9, <3>2, <3>3, <3>4 DEF SemDetach
  <2>10. CASE \E v \in 0..MaxCredit : SemCreate(t, v)
    <3>1. ~alive /\ UNCHANGED << k, pc, wild >>
      BY <2>10 DEF SemCreate
    <3>2. \A x \in Thread : pc'[x] \notin Flushes
      BY <3>1 DEF FlushInv
    <3> QED
      BY <3>1, <3>2, FlushNobody
  <2> QED
    BY <1>6, <2>4, <2>5, <2>6, <2>7, <2>8, <2>9, <2>10 DEF SemCall
<1> QED
  BY <1>2, <1>3, <1>5, <1>6 DEF SemNext

(* An application that detaches a semaphore only when the waits on it have *)
(* no time limit, and leaves it alone meanwhile, has rt_ipc_list_resume_all*)
(* wake waiters only: between its look at the list and its rt_list_entry   *)
(* nobody else takes the last waiter away.                                 *)
THEOREM SemFlushSafe ==
    ASSUME CarefulFlush
    PROVE  SemSpec => []FlushWakesWaiters
<1>1. IpcInit => FlushInv("sem", "sem")
  BY FlushInvInit
<1>2. /\ SemInv /\ FlushInv("sem", "sem") /\ [SemNext]_<<ipcVars, semVars>>
      => FlushInv("sem", "sem")'
  BY SemFlushKeeps
<1>3. FlushInv("sem", "sem") => FlushWakesWaiters
  BY DEF FlushInv, FlushWakesWaiters
<1> QED
  BY <1>1, <1>2, <1>3, SemInvariant, PTL DEF SemSpec

-----------------------------------------------------------------------------
(* Who is served first, with RT_IPC_FLAG_PRIO.                             *)

(* Nobody's priority changes, and the queue is in their order.             *)
SemOrder == k.prio = InitPrio /\ InOrder(k.wait["sem"])

(* Who leaves the queue with a token is at least as urgent as whoever was  *)
(* on it.                                                                  *)
UrgentFirst ==
    \A t, u \in Thread :
        t \in Granted("sem")' \ Granted("sem") /\ Blocked("sem", t) /\ Blocked("sem", u)
           => InitPrio[t] <= InitPrio[u]

(* Nodes leave the queue, and nobody is granted a token.                   *)
LEMMA OrderQuiet ==
    ASSUME SemInv, SemOrder, k'.prio = k.prio, Shrinks(k, k'),
           \A x \in Thread : Blocked("sem", x) => x \notin Granted("sem")'
    PROVE  SemOrder' /\ UrgentFirst
<1>1. InOrder(k'.wait["sem"])
  BY SemQueue, ShrinkOrder DEF SemInv, SemOrder
<1> QED
  BY <1>1 DEF SemOrder, UrgentFirst

(* The first of the queue is granted one.                                  *)
LEMMA OrderRelease ==
    ASSUME SemInv, SemOrder, k'.prio = k.prio, Shrinks(k, k'),
           NEW T, Wakes(T, First(k, "sem"))
    PROVE  SemOrder' /\ UrgentFirst
<1>1. InOrder(k'.wait["sem"])
  BY SemQueue, ShrinkOrder DEF SemInv, SemOrder
<1>2. UrgentFirst
  <2> SUFFICES ASSUME NEW t \in Thread, NEW u \in Thread,
                      t \in Granted("sem")', t \notin Granted("sem"), Blocked("sem", u)
               PROVE  InitPrio[t] <= InitPrio[u]
    BY DEF UrgentFirst
  <2>1. t \in First(k, "sem")
    BY SemQueue DEF Wakes
  <2>2. t = Head(k.wait["sem"])
    BY <2>1 DEF First
  <2> QED
    BY <2>2, SemQueue, OrderHead DEF SemInv, IpcInv, SemOrder, Blocked
<1> QED
  BY <1>1, <1>2 DEF SemOrder

LEMMA OrderTakeBlock ==
    ASSUME SemInv, SemOrder, Flag = "PRIO", NEW t \in Client, NEW w \in WaitTime,
           SemTakeBlock(t, w)
    PROVE  SemOrder' /\ UrgentFirst
<1> USE SemQueue
<1>1. Joins(t, "sem") /\ SemInv'
  BY SemTakeBlockStep
<1>2. Running(t) /\ pc[t] = "run" /\ k' = BlockOn(k, "sem", t, w) /\ t \in Thread /\ IpcInv
  BY DEF SemTakeBlock, Calls, At, Client, SemInv
<1>3. Like(k) /\ w \in {Forever} \cup Nat /\ k.stat[t] = "READY"
  BY <1>2, LikeItself, RunnerReady, IpcAssumption DEF WaitTime
<1>4. InOrder(k'.wait["sem"])
  BY <1>2, <1>3, BlockOrder DEF SemOrder
<1>5. k'.prio = k.prio
  <2>1. KernelOK(k)
    BY <1>2 DEF IpcInv
  <2>2. Parked(k, k', t, "sem")
    BY <1>2, <1>3, <2>1, BlockOnNow
  <2> QED
    BY <2>2 DEF Parked
<1>6. Granted("sem")' \subseteq Granted("sem")
  BY <1>1 DEF Joins
<1> QED
  BY <1>4, <1>5, <1>6 DEF SemOrder, UrgentFirst

LEMMA OrderStep ==
    ASSUME SemInv, SemOrder, Flag = "PRIO", [SemNext]_<<ipcVars, semVars>>
    PROVE  SemOrder' /\ UrgentFirst
<1> USE SemQueue
<1>1. IpcInv /\ \A x \in Granted("sem") : ~Blocked("sem", x)
  BY DEF SemInv, Granted
<1>2. ASSUME k' = k, \A x \in Thread : Blocked("sem", x) => x \notin Granted("sem")'
      PROVE  SemOrder' /\ UrgentFirst
  BY <1>2 DEF SemOrder, UrgentFirst
<1>3. CASE k' = k
  <2>1. \A x \in Thread : Blocked("sem", x) => x \notin Granted("sem")'
    BY <1>3 DEF Granted, Blocked
  <2> QED
    BY <1>2, <1>3, <2>1
<1>4. CASE (ThreadStep \/ Sleep) /\ UNCHANGED semVars
  <2>1. Background /\ Shrinks(k, k')
    BY <1>1, <1>4, BackgroundStep, BackgroundOrder
  <2>2. Granted("sem")' = Granted("sem") /\ k'.prio = k.prio
    BY <2>1 DEF Background
  <2> QED
    BY <1>1, <2>1, <2>2, OrderQuiet
<1>5. CASE SemReleaseFromIsr
  <2>1. /\ k' = ResumeFromIsr(k, "sem") /\ UNCHANGED << pc, wild, alive, want, budget >>
    BY <1>5 DEF SemReleaseFromIsr, waitVars
  <2>2. Wakes({}, First(k, "sem")) /\ k'.prio = k.prio
    BY <1>1, <2>1, IsrStep
  <2> QED
    BY <2>1, <2>2, ResumeFirstShrinks, OrderRelease
<1>6. ASSUME NEW t \in Thread, SemRelease(t)
      PROVE  SemOrder' /\ UrgentFirst
  <2>1. t \in Client /\ k' = ResumeFirst(k, "sem")
    BY <1>6, SemCaller DEF SemCall, SemRelease
  <2>2. Wakes({t}, First(k, "sem"))
    BY <1>6, <2>1, SemReleaseStep
  <2>3. k'.prio = k.prio
    BY <1>1, <2>1, ResumeFirstNow DEF IpcInv, Woken
  <2> QED
    BY <2>1, <2>2, <2>3, ResumeFirstShrinks, OrderRelease
<1>7. ASSUME NEW t \in Thread, NEW v \in 0..MaxCredit, SemReset(t, v)
      PROVE  SemOrder' /\ UrgentFirst
  <2>1. /\ t \in Client /\ k' = ResumeAll(k, "sem") /\ Running(t) /\ pc[t] = "run"
        /\ pc' = [pc EXCEPT ![t] = "sched"] /\ UNCHANGED << wild, alive, want, budget >>
    BY <1>7, SemCaller DEF SemCall, SemReset, Calls, At, Goto, waitVars
  <2>2. /\ SemInv' /\ Wakes({t}, Waiters(k, "sem")) /\ \A x \in Waiters(k, "sem") : k'.error[x] = "ERROR"
        /\ k'.prio = k.prio
    BY <1>1, <1>7, <2>1, SemResetStep, ResumeAllStep
  <2>3. Granted("sem")' \subseteq Granted("sem")
    BY <2>2 DEF Wakes
  <2>4. \A x \in Thread : ~Blocked("sem", x)'
    BY <2>2 DEF Wakes, Waiters, Blocked
  <2>5. k'.wait["sem"] = << >>
    BY <2>2, <2>4, NobodyWaits DEF SemInv, IpcInv, Blocked
  <2>6. InOrder(k'.wait["sem"])
    BY <2>5 DEF InOrder
  <2> QED
    BY <2>2, <2>3, <2>6 DEF SemOrder, UrgentFirst
<1>8. ASSUME NEW t \in Thread, FlushWake(t, "sem", "flush", "flush1")
      PROVE  SemOrder' /\ UrgentFirst
  <2>1. t \in Client
    BY <1>8 DEF FlushWake, At, SemInv, IpcInv, ThreadsOK, Client
  <2>2. /\ Wakes({t}, First(k, "sem")) /\ k'.prio = k.prio
        /\ \A x \in First(k, "sem") : k'.error[x] = "ERROR"
    BY <1>1, <1>8, <2>1, FlushWakeStep DEF Flushes
  <2>3. Granted("sem")' \subseteq Granted("sem")
    BY <2>2 DEF Wakes
  <2> QED
    BY <1>1, <1>8, <2>2, <2>3, FlushWakeShrinks, OrderQuiet
<1>9. ASSUME NEW t \in Thread, SemCall(t)
      PROVE  SemOrder' /\ UrgentFirst
  <2>1. t \in Client
    BY <1>9, SemCaller
  <2>2. \/ k' = k \/ SemRelease(t) \/ FlushWake(t, "sem", "flush", "flush1")
        \/ (\E w \in WaitTime : SemTakeBlock(t, w)) \/ \E v \in 0..MaxCredit : SemReset(t, v)
    BY <1>9 DEF SemCall, SemTakeToken, SemTakeReturn, SemDetach, SemCreate, FlushBegin, FlushLook,
                ipcVars
  <2> QED
    BY <1>3, <1>6, <1>7, <1>8, <2>1, <2>2, OrderTakeBlock
<1> QED
  BY <1>3, <1>4, <1>5, <1>9 DEF SemNext, ipcVars

(* With RT_IPC_FLAG_PRIO rt_sem_release, from a thread or from an          *)
(* interrupt, hands the token to a most urgent waiter, whoever has joined  *)
(* the queue or given up since.                                            *)
THEOREM SemMostUrgentFirst ==
    ASSUME Flag = "PRIO"
    PROVE  SemSpec => MostUrgentFirst
<1>1. IpcInit /\ SemInit => SemOrder
  <2> SUFFICES ASSUME IpcInit, SemInit PROVE SemOrder
    OBVIOUS
  <2>1. SemInv /\ k.prio = InitPrio /\ \A x \in Thread : ~Blocked("sem", x)
    BY SemInitFacts, IpcInitFacts, SemQueue DEF Blocked
  <2>2. k.wait["sem"] = << >>
    BY <2>1, NobodyWaits, SemQueue DEF SemInv, IpcInv, Blocked
  <2> QED
    BY <2>1, <2>2 DEF SemOrder, InOrder
<1>2. SemInv /\ SemOrder /\ [SemNext]_<<ipcVars, semVars>> => SemOrder' /\ UrgentFirst
  BY OrderStep
<1>3. SemSpec => [][UrgentFirst]_<<ipcVars, semVars>>
  BY <1>1, <1>2, SemInvariant, PTL DEF SemSpec
<1> QED
  BY <1>3 DEF MostUrgentFirst, UrgentFirst

-----------------------------------------------------------------------------
(* The mutex.                                                              *)

(* The applications the theorems are about.                                *)
MutexScope ==
    \/ Controllers = {}
    \/ CarefulFlush /\ \E m \in MutexId : MutexId = {m}

-----------------------------------------------------------------------------
(* The invariant.                                                          *)

(* What the fields of mutex m say about who holds it, who has been handed  *)
(* it and who waits for it.                                                *)
MutexOK(m) ==
    /\ \A t \in Thread :
          /\ held[m][t] > 0 => mutex[m].owner = t /\ mutex[m].hold = held[m][t]
          /\ held[m][t] <= MaxHold
          /\ mutex[m].owner = t /\ held[m][t] = 0 => t \in Granted(m) /\ mutex[m].hold = 1
          /\ t \in Granted(m) => mutex[m].owner = t /\ held[m][t] = 0
          /\ Blocked(m, t) => k.error[t] = "EOK" /\ mutex[m].owner \in Thread \ {t}
    /\ mutex[m].value = 1 <=> mutex[m].owner = NoOwner
    /\ mutex[m].owner = NoOwner => mutex[m].hold = 0
    /\ mutex[m].owner \in Thread => mutex[m].original_priority \in Prio

(* A mutex is detached or gone only when nobody has just been handed it,   *)
(* and nobody waits for one that is gone.                                  *)
LifeOK ==
    /\ \A m \in MutexId : FlushInv(m, m)
    /\ \A m \in MutexId : Flushing \/ ~alive => Granted(m) = {}
    /\ ~alive => \A m \in MutexId, t \in Thread : ~Blocked(m, t)
    /\ Controllers = {} => alive /\ ~Flushing

MutexInv ==
    /\ IpcInv /\ MutexTypeOK
    /\ \A m \in MutexId : MutexOK(m)
    /\ LifeOK
    /\ \A t \in Thread : pc[t] \in Waiting => want[t] \in MutexId

LEMMA MutexFacts ==
    /\ MutexId \subseteq Queue /\ MutexId # {} /\ NoOwner \notin Thread
    /\ HoldMod \in Nat /\ MaxHold \in Nat /\ MaxHold < HoldMod /\ 1 <= MaxHold
  BY MutexAssumption, KernelAssumption DEF NoOwner

(* The mutex as a record of its fields.                                    *)
LEMMA MutexRecord ==
    ASSUME MutexTypeOK, NEW m \in MutexId
    PROVE  /\ mutex[m].value \in 0..1 /\ mutex[m].owner \in Thread \cup {NoOwner}
           /\ mutex[m].original_priority \in Prio \cup {NoPriority}
           /\ mutex[m].hold \in 0..(HoldMod - 1)
           /\ held[m] \in [Thread -> Nat] /\ \A t \in Thread : held[m][t] \in Nat
  BY DEF MutexTypeOK

MutexRec ==
    [value: 0..1, owner: Thread \cup {NoOwner},
     original_priority: Prio \cup {NoPriority}, hold: 0..(HoldMod - 1)]

(* A thread becomes the owner of a mutex nobody holds.                     *)
LEMMA OwnFacts ==
    ASSUME NEW a \in MutexRec, NEW t \in Thread, NEW p \in Prio, a.hold = 0
    PROVE  LET r == Own(a, t, p)
           IN  /\ r \in MutexRec /\ r.owner = t /\ r.original_priority = p
               /\ r.hold = 1 /\ r.value = a.value
<1>1. (0 + 1) % HoldMod = 1 /\ 1 \in 0..(HoldMod - 1)
  BY MutexFacts
<1> QED
  BY <1>1 DEF Own, MutexRec

(* One mutex changes, and how often t holds it.                            *)
SetMutex(m, r, t, c) ==
    mutex' = [mutex EXCEPT ![m] = r] /\ held' = [held EXCEPT ![m][t] = c]

OneMutexSet(m, r, t, c) ==
    /\ MutexTypeOK' /\ mutex'[m] = r
    /\ held'[m][t] = c /\ \A x \in Thread \ {t} : held'[m][x] = held[m][x]
    /\ \A n \in MutexId \ {m} : mutex'[n] = mutex[n] /\ held'[n] = held[n]

LEMMA MutexUpdate ==
    ASSUME MutexTypeOK, NEW m \in MutexId, NEW r \in MutexRec, NEW t \in Thread, NEW c \in Nat,
           SetMutex(m, r, t, c)
    PROVE  OneMutexSet(m, r, t, c)
  BY DEF MutexTypeOK, MutexRec, SetMutex, OneMutexSet

LEMMA MutexInvImplies ==
    ASSUME MutexInv
    PROVE  /\ IpcTypeOK /\ MutexTypeOK /\ KernelExact /\ HighestRunsIfAsked
           /\ FlushWakesWaiters /\ OwnerExact /\ NobodyWaitsForFree
<1>1. IpcTypeOK /\ KernelExact /\ HighestRunsIfAsked
  BY IpcInvImplies DEF MutexInv
<1>2. FlushWakesWaiters
  BY MutexFacts DEF MutexInv, LifeOK, FlushInv, FlushWakesWaiters
<1>3. OwnerExact
  <2> SUFFICES ASSUME NEW m \in MutexId, NEW t \in Thread
               PROVE  /\ held[m][t] > 0 => mutex[m].owner = t /\ mutex[m].hold = held[m][t]
                      /\ mutex[m].owner = t /\ held[m][t] = 0 =>
                            want[t] = m /\ t \in Granted(m) /\ mutex[m].hold = 1
    BY DEF OwnerExact
  <2>1. MutexOK(m)
    BY DEF MutexInv
  <2>2. t \in Granted(m) => want[t] = m
    BY DEF Granted
  <2> QED
    BY <2>1, <2>2 DEF MutexOK
<1>4. NobodyWaitsForFree
  <2> SUFFICES ASSUME NEW m \in MutexId
               PROVE  /\ mutex[m].value = 1 <=> mutex[m].owner = NoOwner
                      /\ mutex[m].value = 1 => k.wait[m] = << >>
    BY DEF NobodyWaitsForFree
  <2>1. MutexOK(m) /\ KernelOK(k) /\ m \in Queue
    BY MutexFacts DEF MutexInv, IpcInv
  <2>2. mutex[m].owner = NoOwner => \A t \in Thread : ~Contains(k.wait[m], t)
    BY <2>1, MutexFacts DEF MutexOK, Blocked
  <2> QED
    BY <2>1, <2>2, NobodyWaits DEF MutexOK
<1> QED
  BY <1>1, <1>2, <1>3, <1>4 DEF MutexInv

LEMMA MutexInitFacts ==
    ASSUME IpcInit, MutexInit
    PROVE  MutexInv
<1>1. /\ IpcInv /\ alive = TRUE
      /\ \A m \in MutexId : Granted(m) = {}
      /\ \A m \in MutexId, t \in Thread : ~Blocked(m, t)
      /\ \A t \in Thread : pc[t] = "run"
  BY MutexFacts, IpcInitFacts DEF Blocked, IpcInit
<1>2. \A m \in MutexId : FlushInv(m, m)
  BY FlushInvInit
<1>3. \A m \in MutexId : /\ mutex[m] = FreeMutex
                         /\ \A t \in Thread : held[m][t] = 0
  BY DEF MutexInit
<1>4. MutexTypeOK
  BY MutexFacts DEF MutexInit, MutexTypeOK, FreeMutex
<1>5. \A m \in MutexId : MutexOK(m)
  BY <1>1, <1>3, MutexFacts DEF MutexOK, FreeMutex
<1>6. LifeOK
  BY <1>1, <1>2 DEF LifeOK, Flushing, Flushes
<1> QED
  BY <1>1, <1>4, <1>5, <1>6 DEF MutexInv, Waiting

-----------------------------------------------------------------------------
(* The steps.                                                              *)

(* A mutex that a step leaves alone, but for waiters that give up.         *)
LEMMA MutexSame ==
    ASSUME NEW m, MutexOK(m), mutex'[m] = mutex[m], held'[m] = held[m],
           Granted(m)' = Granted(m),
           \A x \in Thread : Blocked(m, x)' => Blocked(m, x) /\ k'.error[x] = k.error[x]
    PROVE  MutexOK(m)'
  BY DEF MutexOK

(* The caller of a call that begins.                                       *)
LEMMA CallerFacts ==
    ASSUME MutexInv, MutexScope, NEW t, Calls(t, Client)
    PROVE  /\ t \in Client /\ t \in Thread /\ Running(t) /\ pc[t] = "run" /\ alive /\ ~Flushing
           /\ \A m \in MutexId : t \notin Granted(m) /\ ~Blocked(m, t)
           /\ IpcInv /\ MutexTypeOK
<1>1. t \in Client /\ t \in Thread /\ Running(t) /\ pc[t] = "run" /\ Usable
  BY DEF Calls, At, Client
<1>2. alive /\ ~Flushing
  BY <1>1 DEF Usable, MutexScope, MutexInv, LifeOK
<1>3. \A m \in MutexId : t \notin Granted(m) /\ ~Blocked(m, t)
  BY <1>1, MutexFacts DEF Granted, Waiting, MutexInv, IpcInv, ThreadsOK, Blocked
<1> QED
  BY <1>1, <1>2, <1>3 DEF MutexInv

(* A thread outside kernel calls that owns m holds it.                     *)
LEMMA OwnerHolds ==
    ASSUME NEW m \in MutexId, MutexOK(m), MutexTypeOK, NEW t \in Thread, t \notin Granted(m),
           mutex[m].owner = t
    PROVE  /\ held[m][t] > 0 /\ mutex[m].hold = held[m][t] /\ held[m][t] <= MaxHold
           /\ Granted(m) = {} /\ \A x \in Thread \ {t} : held[m][x] = 0
<1>1. held[m] \in [Thread -> Nat] /\ \A x \in Thread : held[m][x] \in Nat
  BY MutexRecord
<1>2. held[m][t] > 0
  BY <1>1 DEF MutexOK
<1>3. Granted(m) = {}
  BY <1>2 DEF MutexOK, Granted
<1>4. \A x \in Thread \ {t} : held[m][x] = 0
  BY <1>1 DEF MutexOK
<1> QED
  BY <1>2, <1>3, <1>4 DEF MutexOK

(* A step of a call leaves the rest of the invariant alone.                *)
LEMMA CallLife ==
    ASSUME MutexInv, alive, ~Flushing, alive' = alive, wild' = wild,
           \A x \in Thread : pc'[x] = pc[x] \/ pc'[x] \notin Flushes
    PROVE  LifeOK' /\ alive' /\ ~Flushing'
<1>1. \A x \in Thread : pc'[x] \notin Flushes
  BY DEF Flushing
<1>2. ~Flushing'
  BY <1>1 DEF Flushing
<1>3. \A m \in MutexId : FlushInv(m, m)'
  BY <1>1, MutexFacts, FlushNobody DEF MutexInv, LifeOK
<1> QED
  BY <1>2, <1>3 DEF LifeOK

LEMMA CallFinish ==
    ASSUME MutexInv, MutexScope, NEW t, Calls(t, Client), alive' = alive, wild' = wild,
           IpcInv', MutexTypeOK', \A m \in MutexId : MutexOK(m)',
           NEW l \in {"run", "sched", "block"}, pc' = [pc EXCEPT ![t] = l],
           \A x \in Thread \ {t} : want'[x] = want[x],
           l = "block" => want'[t] \in MutexId
    PROVE  MutexInv' /\ alive' /\ ~Flushing'
<1>1. t \in Thread /\ alive /\ ~Flushing /\ IpcInv
  BY CallerFacts
<1>2. \A x \in Thread : pc'[x] = IF x = t THEN l ELSE pc[x]
  BY <1>1 DEF IpcInv, CallsType
<1>3. LifeOK' /\ alive' /\ ~Flushing'
  BY <1>1, <1>2, CallLife DEF Flushes
<1>4. \A x \in Thread : pc'[x] \in Waiting => want'[x] \in MutexId
  BY <1>2 DEF MutexInv, Waiting
<1> QED
  BY <1>3, <1>4 DEF MutexInv

(* What a call that wakes nobody leaves as it was.                         *)
LEMMA QuietCall ==
    ASSUME MutexInv, MutexScope, NEW t, Calls(t, Client), Wakes({t}, {}), NEW m \in MutexId
    PROVE  /\ Granted(m)' = Granted(m)
           /\ \A x \in Thread : Blocked(m, x)' <=> Blocked(m, x)
           /\ \A x \in Thread : Blocked(m, x) => k'.error[x] = k.error[x]
<1>1. t \notin Granted(m) /\ ~Blocked(m, t) /\ m \in Queue
  BY CallerFacts, MutexFacts
<1> QED
  BY <1>1 DEF Wakes, Blocked

(* A call that writes its caller's error, and nothing else in the kernel.  *)
LEMMA ErrorCall ==
    ASSUME MutexInv, MutexScope, NEW t, Calls(t, Client), NEW e \in Errno,
           k' = [k EXCEPT !.error[t] = e], UNCHANGED << pc, wild, alive, waitVars >>
    PROVE  IpcInv' /\ Wakes({t}, {}) /\ k'.prio = k.prio /\ pc' = [pc EXCEPT ![t] = "run"]
<1>1. t \in Client /\ t \in Thread /\ Running(t) /\ pc[t] = "run" /\ IpcInv
  BY CallerFacts
<1>2. UNCHANGED << pc, wild, alive, want, budget >>
  BY DEF waitVars
<1>3. pc' = [pc EXCEPT ![t] = "run"]
  BY <1>1 DEF IpcInv, CallsType
<1> QED
  BY <1>1, <1>2, <1>3, ErrorStep

(* MutexTakeFails and MutexReleaseForeign.                                 *)
LEMMA RefusedStep ==
    ASSUME MutexInv, MutexScope, NEW t, NEW m \in MutexId,
           MutexTakeFails(t, m) \/ MutexReleaseForeign(t, m)
    PROVE  MutexInv' /\ alive' /\ ~Flushing'
           /\ k'.prio = k.prio /\ mutex' = mutex
<1>1. /\ Calls(t, Client) /\ UNCHANGED << pc, wild, alive, waitVars >>
      /\ mutex' = mutex /\ held' = held
      /\ \E e \in Errno : k' = [k EXCEPT !.error[t] = e]
  BY DEF MutexTakeFails, MutexReleaseForeign, mutexVars, Errno
<1>2. IpcInv' /\ Wakes({t}, {}) /\ k'.prio = k.prio /\ pc' = [pc EXCEPT ![t] = "run"]
  BY <1>1, ErrorCall
<1>3. MutexTypeOK'
  BY <1>1 DEF MutexInv, MutexTypeOK
<1>4. \A n \in MutexId : MutexOK(n)'
  BY <1>1, <1>2, QuietCall, MutexSame DEF MutexInv
<1>5. MutexInv' /\ alive' /\ ~Flushing'
  BY <1>1, <1>2, <1>3, <1>4, CallFinish DEF waitVars
<1> QED
  BY <1>1, <1>2, <1>5

LEMMA TakeAgainStep ==
    ASSUME MutexInv, MutexScope, NEW t, NEW m \in MutexId, MutexTakeAgain(t, m)
    PROVE  MutexInv' /\ alive' /\ ~Flushing'
           /\ k'.prio = k.prio /\ mutex'[m].owner = mutex[m].owner
           /\ mutex'[m].original_priority = mutex[m].original_priority
<1>1. /\ Calls(t, Client) /\ UNCHANGED << pc, wild, alive, waitVars >>
      /\ mutex[m].owner = t /\ held[m][t] < MaxHold
      /\ mutex' = [mutex EXCEPT ![m].hold = (@ + 1) % HoldMod]
      /\ held' = [held EXCEPT ![m][t] = @ + 1]
      /\ k' = [k EXCEPT !.error[t] = "EOK"]
  BY DEF MutexTakeAgain, Obtained, ClearError
<1>2. IpcInv' /\ Wakes({t}, {}) /\ k'.prio = k.prio /\ pc' = [pc EXCEPT ![t] = "run"]
  BY <1>1, ErrorCall DEF Errno
<1>3. t \in Thread /\ t \notin Granted(m) /\ MutexTypeOK /\ MutexOK(m)
  BY <1>1, CallerFacts DEF MutexInv
<1>4. /\ held[m][t] > 0 /\ mutex[m].hold = held[m][t]
      /\ Granted(m) = {} /\ \A x \in Thread \ {t} : held[m][x] = 0
  BY <1>1, <1>3, OwnerHolds
<1>5. held[m][t] \in Nat /\ held[m] \in [Thread -> Nat]
  BY <1>3, MutexRecord
<1>6. (mutex[m].hold + 1) % HoldMod = held[m][t] + 1
  BY <1>1, <1>4, <1>5, MutexFacts
<1>7. /\ mutex'[m].owner = t /\ mutex'[m].hold = held[m][t] + 1
      /\ mutex'[m].value = mutex[m].value
      /\ mutex'[m].original_priority = mutex[m].original_priority
      /\ held'[m][t] = held[m][t] + 1 /\ \A x \in Thread \ {t} : held'[m][x] = 0
      /\ \A n \in MutexId \ {m} : mutex'[n] = mutex[n] /\ held'[n] = held[n]
  BY <1>1, <1>3, <1>4, <1>5, <1>6 DEF MutexTypeOK
<1>8. MutexTypeOK'
  <2>1. held[m][t] + 1 \in 0..(HoldMod - 1) /\ held[m][t] + 1 \in Nat
    BY <1>1, <1>5, MutexFacts
  <2> QED
    BY <1>1, <1>3, <1>6, <2>1 DEF MutexTypeOK
<1>9. MutexOK(m)'
  BY <1>1, <1>2, <1>3, <1>4, <1>5, <1>7, QuietCall, MutexFacts DEF MutexOK
<1>10. \A n \in MutexId \ {m} : MutexOK(n)'
  BY <1>1, <1>2, <1>7, QuietCall, MutexSame DEF MutexInv
<1>11. MutexInv' /\ alive' /\ ~Flushing'
  BY <1>1, <1>2, <1>8, <1>9, <1>10, CallFinish DEF waitVars
<1> QED
  BY <1>1, <1>2, <1>7, <1>11

LEMMA TakeFreeStep ==
    ASSUME MutexInv, MutexScope, NEW t, NEW m \in MutexId, MutexTakeFree(t, m)
    PROVE  /\ MutexInv' /\ alive' /\ ~Flushing' /\ k'.prio = k.prio
           /\ mutex'[m].owner = t /\ mutex'[m].original_priority = k.prio[t]
           /\ t \in Thread /\ \A x \in Thread : mutex[m].owner # x /\ ~Blocked(m, x)
<1>1. /\ Calls(t, Client) /\ UNCHANGED << pc, wild, alive, waitVars >>
      /\ mutex[m].value > 0
      /\ mutex' = [mutex EXCEPT ![m] = Own([mutex[m] EXCEPT !.value = @ - 1], t, k.prio[t])]
      /\ held' = [held EXCEPT ![m][t] = @ + 1]
      /\ k' = [k EXCEPT !.error[t] = "EOK"]
  BY DEF MutexTakeFree, Obtained, ClearError
<1>2. IpcInv' /\ Wakes({t}, {}) /\ k'.prio = k.prio /\ pc' = [pc EXCEPT ![t] = "run"]
  BY <1>1, ErrorCall DEF Errno
<1>3. t \in Thread /\ t \notin Granted(m) /\ MutexTypeOK /\ MutexOK(m) /\ k.prio[t] \in Prio
  BY <1>1, CallerFacts DEF MutexInv, IpcInv, KernelOK, KernelInv, KernelType
<1>4. /\ mutex[m].value \in 0..1
      /\ held[m] \in [Thread -> Nat] /\ \A x \in Thread : held[m][x] \in Nat
  BY <1>3, MutexRecord
<1>5. mutex[m].value = 1 /\ mutex[m].owner = NoOwner /\ mutex[m].hold = 0
  BY <1>1, <1>3, <1>4 DEF MutexOK
<1>6. \A x \in Thread :
         held[m][x] = 0 /\ x \notin Granted(m) /\ ~Blocked(m, x) /\ mutex[m].owner # x
  BY <1>3, <1>4, <1>5, MutexFacts DEF MutexOK
<1> DEFINE a == [mutex[m] EXCEPT !.value = @ - 1]
           r == Own(a, t, k.prio[t])
           c == held[m][t] + 1
<1>7. mutex' = [mutex EXCEPT ![m] = r] /\ held' = [held EXCEPT ![m][t] = c] /\ c = 1
  BY <1>1, <1>3, <1>6
<1>8. a \in MutexRec /\ a.hold = 0 /\ a.value = 0
  <2>1. mutex[m] \in MutexRec /\ mutex[m].value - 1 = 0
    BY <1>3, <1>5 DEF MutexTypeOK, MutexRec
  <2> QED
    BY <1>5, <2>1 DEF MutexRec
<1> HIDE DEF a
<1>9. /\ r \in MutexRec /\ r.owner = t /\ r.original_priority = k.prio[t]
      /\ r.hold = 1 /\ r.value = 0
  BY <1>3, <1>8, OwnFacts
<1> HIDE DEF r, c
<1>10. /\ MutexTypeOK' /\ mutex'[m] = r
       /\ held'[m][t] = 1 /\ \A x \in Thread \ {t} : held'[m][x] = held[m][x]
       /\ \A n \in MutexId \ {m} : mutex'[n] = mutex[n] /\ held'[n] = held[n]
  <2>1. c \in Nat /\ MutexTypeOK /\ t \in Thread /\ r \in MutexRec
    BY <1>3, <1>7, <1>9
  <2>2. SetMutex(m, r, t, c)
    BY <1>7 DEF SetMutex
  <2>3. OneMutexSet(m, r, t, c)
    BY <2>1, <2>2, MutexUpdate
  <2> QED
    BY <1>7, <2>3 DEF OneMutexSet
<1>11. MutexOK(m)'
  BY <1>1, <1>2, <1>3, <1>6, <1>9, <1>10, QuietCall, MutexFacts DEF MutexOK
<1>12. \A n \in MutexId \ {m} : MutexOK(n)'
  BY <1>1, <1>2, <1>10, QuietCall, MutexSame DEF MutexInv
<1>13. MutexInv' /\ alive' /\ ~Flushing'
  BY <1>1, <1>2, <1>10, <1>11, <1>12, CallFinish DEF waitVars
<1> QED
  BY <1>2, <1>3, <1>6, <1>9, <1>10, <1>13

(* Lending and restoring a priority touch nobody's place in a queue.       *)
LEMMA LendLike ==
    ASSUME IpcInv, NEW t \in Thread, NEW o \in Thread
    PROVE  LET s == Lend(k, t, o)
           IN  /\ Like(s) /\ s.wait = k.wait
               /\ s.prio = [k.prio EXCEPT ![o] = IF k.prio[t] < @ THEN k.prio[t] ELSE @]
<1>1. k.prio \in [Thread -> Prio]
  BY RecordFacts DEF IpcInv, KernelOK, KernelInv
<1>2. CASE k.prio[t] < k.prio[o]
  <2>1. Lend(k, t, o) = ChangePriority(k, o, k.prio[t]) /\ k.prio[t] \in Prio
    BY <1>1, <1>2 DEF Lend
  <2>2. LET s == ChangePriority(k, o, k.prio[t])
        IN  Like(s) /\ s.wait = k.wait /\ s.prio = [k.prio EXCEPT ![o] = k.prio[t]]
    BY <2>1, ChangePriorityLike
  <2> QED
    BY <1>2, <2>1, <2>2
<1>3. CASE ~(k.prio[t] < k.prio[o])
  <2>1. Lend(k, t, o) = k
    BY <1>3 DEF Lend
  <2>2. k.prio = [k.prio EXCEPT ![o] = k.prio[o]]
    BY <1>1
  <2> QED
    BY <1>3, <2>1, <2>2, LikeItself
<1> QED
  BY <1>2, <1>3

LEMMA RestoreLike ==
    ASSUME IpcInv, NEW t \in Thread, NEW p \in Prio
    PROVE  LET s == Restore(k, t, p)
           IN  Like(s) /\ s.wait = k.wait /\ s.prio = [k.prio EXCEPT ![t] = p]
<1>1. k.prio \in [Thread -> Prio]
  BY RecordFacts DEF IpcInv, KernelOK, KernelInv
<1>2. CASE k.prio[t] # p
  BY <1>2, ChangePriorityLike DEF Restore
<1>3. CASE k.prio[t] = p
  <2>1. Restore(k, t, p) = k
    BY <1>3 DEF Restore
  <2>2. k.prio = [k.prio EXCEPT ![t] = p]
    BY <1>1, <1>3
  <2> QED
    BY <2>1, <2>2, LikeItself
<1> QED
  BY <1>2, <1>3

LEMMA MutexBlockStep ==
    ASSUME MutexInv, MutexScope, NEW t, NEW m \in MutexId, NEW w \in WaitTime,
           MutexTakeBlock(t, m, w)
    PROVE  /\ MutexInv' /\ alive' /\ ~Flushing' /\ Joins(t, m)
           /\ mutex[m].owner \in Thread /\ mutex[m].owner # t
           /\ k'.prio = Lend(k, t, mutex[m].owner).prio /\ mutex' = mutex /\ t \in Thread
<1> DEFINE o == mutex[m].owner
           s == Lend(k, t, o)
<1>1. /\ Calls(t, Client) /\ o # t /\ mutex[m].value = 0
      /\ k' = BlockOn(s, m, t, w) /\ WaitOn(t, m) /\ UNCHANGED << wild, alive, budget >>
      /\ mutex' = mutex /\ held' = held
  BY DEF MutexTakeBlock, mutexVars
<1>2. /\ t \in Client /\ t \in Thread /\ Running(t) /\ pc[t] = "run" /\ IpcInv /\ MutexTypeOK
      /\ \A n \in MutexId : t \notin Granted(n) /\ ~Blocked(n, t)
  BY <1>1, CallerFacts
<1>3. o \in Thread
  BY <1>1, <1>2, MutexRecord, MutexFacts DEF MutexInv, MutexOK
<1>4. Like(s)
  BY <1>2, <1>3, LendLike
<1> HIDE DEF s, o
<1>5. IpcInv' /\ Joins(t, m) /\ k'.prio = s.prio
  <2>1. w \in {Forever} \cup Nat /\ m \in Queue
    BY IpcAssumption, MutexFacts DEF WaitTime
  <2>2. wild' \in BOOLEAN /\ alive' \in BOOLEAN /\ budget' \in [Thread -> {Forever} \cup 0..MaxWait]
    BY <1>1, <1>2 DEF IpcInv, CallsType
  <2>3. pc[t] \notin {"block", "sleep"}
    BY <1>2
  <2> QED
    BY <1>1, <1>2, <1>4, <2>1, <2>2, <2>3, BlockStep
<1>6. /\ pc' = [pc EXCEPT ![t] = "block"] /\ want'[t] = m
      /\ \A x \in Thread \ {t} : want'[x] = want[x]
  BY <1>1, <1>2 DEF WaitOn, Goto, IpcInv, CallsType
<1>7. ASSUME NEW n \in MutexId
      PROVE  /\ Granted(n)' = Granted(n) /\ k'.error[t] = "EOK"
             /\ \A x \in Thread : Blocked(n, x)' <=> Blocked(n, x) \/ (x = t /\ n = m)
             /\ \A x \in Thread : x # t => k'.error[x] = k.error[x]
  <2>1. n \in Queue /\ t \notin Granted(n)
    BY <1>2, MutexFacts
  <2>2. Granted(n)' = Granted(n)
    BY <1>5, <2>1 DEF Joins
  <2>3. \A x \in Thread : Blocked(n, x)' <=> Blocked(n, x) \/ (x = t /\ n = m)
    BY <1>5, <2>1 DEF Joins, Blocked
  <2> QED
    BY <1>5, <2>2, <2>3 DEF Joins
<1>8. MutexOK(m)'
  <2>1. MutexOK(m) /\ o = mutex[m].owner
    BY DEF MutexInv, o
  <2>2. /\ mutex'[m] = mutex[m] /\ held'[m] = held[m] /\ Granted(m)' = Granted(m)
        /\ k'.error[t] = "EOK"
        /\ \A x \in Thread : Blocked(m, x)' <=> Blocked(m, x) \/ x = t
        /\ \A x \in Thread : x # t => k'.error[x] = k.error[x]
    BY <1>1, <1>7
  <2> QED
    BY <1>1, <1>3, <2>1, <2>2 DEF MutexOK
<1>9. \A n \in MutexId \ {m} : MutexOK(n)'
  <2> SUFFICES ASSUME NEW n \in MutexId \ {m} PROVE MutexOK(n)'
    OBVIOUS
  <2>1. MutexOK(n) /\ ~Blocked(n, t)
    BY <1>2 DEF MutexInv
  <2>2. /\ mutex'[n] = mutex[n] /\ held'[n] = held[n] /\ Granted(n)' = Granted(n)
        /\ \A x \in Thread : Blocked(n, x)' => Blocked(n, x) /\ k'.error[x] = k.error[x]
    BY <1>1, <1>7, <2>1
  <2> QED
    BY <2>1, <2>2, MutexSame
<1>10. MutexTypeOK'
  BY <1>1, <1>2 DEF MutexTypeOK
<1>11. MutexInv' /\ alive' /\ ~Flushing'
  BY <1>1, <1>5, <1>6, <1>8, <1>9, <1>10, CallFinish
<1> QED
  BY <1>1, <1>2, <1>3, <1>5, <1>11 DEF o, s

(* A call may return while another thread detaches the mutex.              *)
LEMMA ReturnFinish ==
    ASSUME MutexInv, NEW t \in Thread, IpcInv', MutexTypeOK', \A m \in MutexId : MutexOK(m)',
           Wakes({t}, {}), UNCHANGED << wild, alive >>, pc' = [pc EXCEPT ![t] = "run"],
           want' = [want EXCEPT ![t] = None],
           \A n \in MutexId : /\ Granted(n)' = Granted(n) \ {t}
                              /\ \A x \in Thread : Blocked(n, x)' <=> Blocked(n, x)
    PROVE  MutexInv' /\ (Flushing' => Flushing)
<1>1. \A x \in Thread : /\ pc'[x] = IF x = t THEN "run" ELSE pc[x]
                        /\ x # t => want'[x] = want[x]
  BY DEF MutexInv, IpcInv, CallsType
<1>2. \A x \in Thread : pc'[x] \in Flushes => pc'[x] = pc[x]
  BY <1>1 DEF Flushes
<1>3. \A m \in MutexId : FlushInv(m, m)'
  BY <1>2, MutexFacts, FlushReturn DEF MutexInv, LifeOK
<1>4. Flushing' => Flushing
  BY <1>2 DEF Flushing
<1>5. LifeOK'
  BY <1>3, <1>4 DEF MutexInv, LifeOK
<1>6. \A x \in Thread : pc'[x] \in Waiting => want'[x] \in MutexId
  BY <1>1 DEF MutexInv, Waiting
<1> QED
  BY <1>4, <1>5, <1>6 DEF MutexInv

LEMMA TakeReturnStep ==
    ASSUME MutexInv, MutexScope, NEW t \in Client, MutexTakeReturn(t)
    PROVE  MutexInv' /\ (Flushing' => Flushing) /\ UNCHANGED << k, alive, mutex >>
<1>1. /\ Running(t) /\ pc[t] = "woken" /\ t \in Thread /\ UNCHANGED << k, wild, alive, mutex >>
      /\ pc' = [pc EXCEPT ![t] = "run"] /\ want' = [want EXCEPT ![t] = None]
      /\ budget' = [budget EXCEPT ![t] = Forever]
      /\ IF k.error[t] = "EOK" THEN held' = [held EXCEPT ![want[t]][t] = @ + 1] ELSE held' = held
  BY DEF MutexTakeReturn, Obtained, At, Return, EndWait, Goto, Client
<1>2. /\ IpcInv /\ budget' \in [Thread -> {Forever} \cup 0..MaxWait]
      /\ wild' \in BOOLEAN /\ alive' \in BOOLEAN
  BY <1>1 DEF MutexInv, IpcInv, CallsType
<1>3. IpcInv' /\ Wakes({t}, {})
  <2>1. "run" \in CallerSteps /\ pc[t] \notin {"block", "sleep", "sched"}
    BY <1>1 DEF CallerSteps, Outside
  <2> QED
    BY <1>1, <1>2, <2>1, PlainStep
<1>4. \A n \in MutexId : ~Blocked(n, t)
  BY <1>1, <1>2, RunnerReady, ReadyThread, MutexFacts DEF IpcInv, Blocked
<1>5. \A n \in MutexId :
         /\ Granted(n)' = Granted(n) \ {t}
         /\ \A x \in Thread : Blocked(n, x)' <=> Blocked(n, x)
  BY <1>1, <1>3, MutexFacts DEF Wakes, Blocked
<1>6. PICK m \in MutexId : m = want[t]
  BY <1>1 DEF MutexInv, Waiting
<1>7. \A n \in MutexId : t \in Granted(n) <=> k.error[t] = "EOK" /\ n = m
  BY <1>1, <1>4, <1>6 DEF Granted, Waiting
<1>8. \A n \in MutexId : n # m \/ k.error[t] # "EOK" => MutexOK(n)'
  <2> SUFFICES ASSUME NEW n \in MutexId, n # m \/ k.error[t] # "EOK" PROVE MutexOK(n)'
    OBVIOUS
  <2>1. MutexOK(n) /\ Granted(n)' = Granted(n)
    BY <1>5, <1>7 DEF MutexInv
  <2>2. mutex'[n] = mutex[n] /\ held'[n] = held[n]
    BY <1>1, <1>6 DEF MutexInv, MutexTypeOK
  <2> QED
    BY <1>1, <1>5, <2>1, <2>2, MutexSame
<1>9. CASE k.error[t] # "EOK"
  <2>1. MutexTypeOK' /\ \A n \in MutexId : MutexOK(n)'
    BY <1>1, <1>8, <1>9 DEF MutexInv, MutexTypeOK
  <2> QED
    BY <1>1, <1>2, <1>3, <1>5, <2>1, ReturnFinish
<1>10. CASE k.error[t] = "EOK"
  <2>1. MutexOK(m) /\ MutexTypeOK /\ t \in Granted(m)
    BY <1>6, <1>7, <1>10 DEF MutexInv
  <2>2. held[m] \in [Thread -> Nat] /\ \A x \in Thread : held[m][x] \in Nat
    BY <1>6, <2>1, MutexRecord
  <2>3. /\ mutex[m].owner = t /\ held[m][t] = 0 /\ mutex[m].hold = 1
        /\ \A x \in Thread : x # t => x \notin Granted(m) /\ held[m][x] = 0
    BY <1>1, <2>1, <2>2 DEF MutexOK
  <2>4. held' = [held EXCEPT ![m][t] = held[m][t] + 1]
    BY <1>1, <1>6, <1>10
  <2>5. /\ MutexTypeOK' /\ held'[m][t] = 1 /\ mutex'[m] = mutex[m]
        /\ \A x \in Thread : x # t => held'[m][x] = held[m][x]
    BY <1>1, <1>6, <2>1, <2>2, <2>3, <2>4 DEF MutexTypeOK
  <2>6. /\ Granted(m)' = Granted(m) \ {t} /\ k' = k
        /\ \A x \in Thread : Blocked(m, x)' <=> Blocked(m, x)
    BY <1>1, <1>5, <1>6
  <2>7. MutexOK(m)'
    BY <1>1, <2>1, <2>2, <2>3, <2>5, <2>6, MutexFacts DEF MutexOK
  <2> QED
    BY <1>1, <1>2, <1>3, <1>5, <1>8, <2>5, <2>7, ReturnFinish
<1> QED
  BY <1>1, <1>3, <1>9, <1>10

(* A release that is not the last only counts.                             *)
LEMMA ReleaseOnceStep ==
    ASSUME MutexInv, MutexScope, NEW t, NEW m \in MutexId, MutexRelease(t, m),
           mutex[m].hold # 1
    PROVE  MutexInv' /\ alive' /\ ~Flushing'
           /\ k' = k /\ mutex'[m].owner = mutex[m].owner
           /\ mutex'[m].original_priority = mutex[m].original_priority
<1>1. /\ Calls(t, Client) /\ UNCHANGED << k, pc, wild, alive, waitVars >>
      /\ mutex[m].owner = t
      /\ mutex' = [mutex EXCEPT ![m].hold = (@ - 1) % HoldMod]
      /\ held' = [held EXCEPT ![m][t] = @ - 1]
  BY DEF MutexRelease
<1>2. /\ t \in Client /\ t \in Thread /\ Running(t) /\ pc[t] = "run" /\ IpcInv /\ MutexTypeOK
      /\ t \notin Granted(m) /\ MutexOK(m)
  BY <1>1, CallerFacts DEF MutexInv
<1>3. /\ held[m][t] > 0 /\ mutex[m].hold = held[m][t] /\ held[m][t] <= MaxHold
      /\ Granted(m) = {} /\ \A x \in Thread \ {t} : held[m][x] = 0
  BY <1>1, <1>2, OwnerHolds
<1>4. held[m][t] \in Nat /\ held[m] \in [Thread -> Nat] /\ mutex[m].value \in 0..1
  BY <1>2, MutexRecord
<1>5. pc' = [pc EXCEPT ![t] = "run"] /\ want' = want
  BY <1>1, <1>2 DEF IpcInv, CallsType, waitVars
<1>6. IpcInv' /\ Wakes({t}, {})
  <2>1. "run" \in CallerSteps /\ pc[t] \notin {"block", "sleep", "sched"}
    BY <1>2 DEF CallerSteps, Outside
  <2>2. UNCHANGED k /\ wild' \in BOOLEAN /\ alive' \in BOOLEAN
        /\ budget' \in [Thread -> {Forever} \cup 0..MaxWait]
    BY <1>1, <1>2 DEF IpcInv, CallsType, waitVars
  <2> QED
    BY <1>2, <1>5, <2>1, <2>2, PlainStep
<1>7. /\ (mutex[m].hold - 1) % HoldMod = held[m][t] - 1
      /\ held[m][t] - 1 \in 0..(HoldMod - 1) /\ held[m][t] - 1 \in Nat /\ held[m][t] - 1 > 0
  BY <1>3, <1>4, MutexFacts
<1>8. /\ mutex'[m].owner = t /\ mutex'[m].hold = held[m][t] - 1
      /\ mutex'[m].value = mutex[m].value
      /\ mutex'[m].original_priority = mutex[m].original_priority
      /\ held'[m][t] = held[m][t] - 1 /\ \A x \in Thread \ {t} : held'[m][x] = 0
      /\ \A n \in MutexId \ {m} : mutex'[n] = mutex[n] /\ held'[n] = held[n]
  BY <1>1, <1>2, <1>3, <1>4, <1>7 DEF MutexTypeOK
<1>9. MutexTypeOK'
  BY <1>1, <1>2, <1>4, <1>7 DEF MutexTypeOK
<1>10. MutexOK(m)'
  BY <1>1, <1>2, <1>3, <1>4, <1>6, <1>7, <1>8, QuietCall, MutexFacts DEF MutexOK
<1>11. \A n \in MutexId \ {m} : MutexOK(n)'
  BY <1>1, <1>6, <1>8, QuietCall, MutexSame DEF MutexInv
<1>12. MutexInv' /\ alive' /\ ~Flushing'
  BY <1>1, <1>5, <1>6, <1>9, <1>10, <1>11, CallFinish
<1> QED
  BY <1>1, <1>8, <1>12

(* The release of a mutex nobody waits for ends without rt_schedule.       *)
LEMMA FreeStep ==
    ASSUME IpcInv, NEW t \in Client, Running(t), pc[t] = "run",
           Like(k'), UNCHANGED << pc, want >>,
           wild' \in BOOLEAN, alive' \in BOOLEAN,
           budget' \in [Thread -> {Forever} \cup 0..MaxWait]
    PROVE  IpcInv' /\ Wakes({t}, {})
<1>1. t \in Thread
  BY DEF Client
<1>2. KernelOK(k') /\ ThreadsOK(k', pc, want) /\ k'.error = k.error
  BY DEF Like
<1>3. IpcInv'
  BY <1>2 DEF IpcInv, CallsType
<1> DEFINE W == {}
<1>4. Woken(k', k', W) /\ W \in SUBSET Thread /\ t \notin W
  BY <1>2, WokenNothing
<1>5. /\ \A x \in W : k.stat[x] = "SUSPEND" /\ \E q \in Queue : Contains(k.wait[q], x)
      /\ \A x \in Thread \ ({t} \cup W) : k'.error[x] = k.error[x]
      /\ pc'[t] \notin Waiting
  BY <1>2 DEF Waiting
<1> HIDE DEF W
<1>6. Wakes({t}, W)
  BY <1>1, <1>4, <1>5, WakesFacts
<1> QED
  BY <1>3, <1>6 DEF W

LEMMA FreedFacts ==
    ASSUME NEW r \in MutexRec, r.hold = 0, r.value = 0
    PROVE  LET f == [r EXCEPT !.value = r.value + 1, !.owner = NoOwner,
                              !.original_priority = NoPriority]
           IN  f \in MutexRec /\ f.value = 1 /\ f.owner = NoOwner /\ f.hold = 0
<1>1. r.value + 1 = 1 /\ 1 \in 0..1
  OBVIOUS
<1> QED
  BY <1>1 DEF MutexRec

(* Taking the first waiter of q off after a change of priority.            *)
LEMMA HandStep ==
    ASSUME IpcInv, NEW t \in Client, Running(t), pc[t] = "run",
           NEW s, Like(s), NEW q \in Queue, s.wait[q] = k.wait[q],
           k' = ResumeFirst(s, q), pc' = [pc EXCEPT ![t] = "sched"], want' = want,
           wild' \in BOOLEAN, alive' \in BOOLEAN,
           budget' \in [Thread -> {Forever} \cup 0..MaxWait]
    PROVE  /\ IpcInv' /\ Wakes({t}, First(k, q))
           /\ k'.prio = s.prio /\ k'.error = k.error
<1> DEFINE W == First(k, q)
<1>1. KernelOK(s) /\ First(s, q) = W /\ s.cur = k.cur /\ s.error = k.error
  BY DEF Like, First
<1>2. Woken(s, k', W) /\ Stays(s, k') /\ k'.error = k.error
  BY <1>1, ResumeFirstNow
<1>3. W \in SUBSET Thread /\ \A x \in W : Contains(k.wait[q], x)
  BY FirstFacts DEF IpcInv
<1>4. k'.cur = t /\ "sched" \in CallerSteps
  BY <1>1, <1>2 DEF Stays, Running, CallerSteps, Outside
<1>5. pc[t] \notin {"block", "sleep", "sched"} /\ (want' = want \/ want' = [want EXCEPT ![t] = None])
  OBVIOUS
<1> HIDE DEF W
<1>6. /\ \A x \in W : \E y \in Queue : Contains(k.wait[y], x)
      /\ \A x \in Thread \ (W \cup {t}) : k'.error[x] = k.error[x]
  BY <1>2, <1>3
<1>7. Woken(s, k', W) /\ W \in SUBSET Thread
  BY <1>2, <1>3
<1>8. IpcInv' /\ Wakes({t}, W) /\ k'.prio = s.prio
  BY <1>4, <1>5, <1>6, <1>7, CallStep
<1> QED
  BY <1>2, <1>8 DEF W

(* The last release with nobody waiting frees the mutex; with waiters it   *)
(* hands it to the first, which owns it from then on.                      *)
LEMMA ReleaseLastStep ==
    ASSUME MutexInv, MutexScope, NEW t, NEW m \in MutexId, MutexRelease(t, m),
           mutex[m].hold = 1
    PROVE  /\ MutexInv' /\ alive' /\ ~Flushing' /\ Wakes({t}, First(k, m))
           /\ k'.prio = [k.prio EXCEPT ![t] = mutex[m].original_priority]
           /\ mutex[m].owner = t /\ t \in Thread
           /\ k.wait[m] = << >> => mutex'[m].owner = NoOwner
           /\ k.wait[m] # << >> =>
                 /\ mutex'[m].owner = Head(k.wait[m])
                 /\ mutex'[m].original_priority = k'.prio[Head(k.wait[m])]
                 /\ pc' = [pc EXCEPT ![t] = "sched"]
<1> DEFINE s == Restore(k, t, mutex[m].original_priority)
           r == [mutex[m] EXCEPT !.hold = 0]
           c == held[m][t] - 1
<1>1. /\ Calls(t, Client) /\ UNCHANGED << wild, alive, waitVars >>
      /\ mutex[m].owner = t /\ MutexReleaseLast(t, m)
      /\ held' = [held EXCEPT ![m][t] = c]
  BY DEF MutexRelease
<1>2. /\ t \in Client /\ t \in Thread /\ Running(t) /\ pc[t] = "run" /\ IpcInv /\ MutexTypeOK
      /\ (\A n \in MutexId : t \notin Granted(n) /\ ~Blocked(n, t)) /\ MutexOK(m)
  BY <1>1, CallerFacts DEF MutexInv
<1>3. /\ held[m][t] > 0 /\ mutex[m].hold = held[m][t]
      /\ Granted(m) = {} /\ \A x \in Thread \ {t} : held[m][x] = 0
  BY <1>1, <1>2, OwnerHolds
<1>4. c = 0
  BY <1>3
<1>5. /\ Like(s) /\ s.wait = k.wait
      /\ s.prio = [k.prio EXCEPT ![t] = mutex[m].original_priority]
  <2>1. mutex[m].original_priority \in Prio
    BY <1>1, <1>2 DEF MutexOK
  <2> QED
    BY <1>2, <2>1, RestoreLike
<1>6. /\ mutex[m] \in MutexRec /\ r \in MutexRec /\ r.hold = 0
      /\ r.value = mutex[m].value /\ mutex[m].value = 0
      /\ mutex[m].owner = t
  <2>1. mutex[m] \in MutexRec
    BY <1>2 DEF MutexTypeOK, MutexRec
  <2>2. mutex[m].value \in 0..1 /\ mutex[m].value # 1
    BY <1>1, <1>2, MutexRecord, MutexFacts DEF MutexOK
  <2>3. 0 \in 0..(HoldMod - 1)
    BY MutexFacts
  <2> QED
    BY <1>1, <2>1, <2>2, <2>3 DEF MutexRec
<1>7. m \in Queue /\ KernelOK(s) /\ wild' \in BOOLEAN /\ alive' \in BOOLEAN
      /\ budget' \in [Thread -> {Forever} \cup 0..MaxWait] /\ want' = want
      /\ pc[t] \notin {"block", "sleep", "sched"}
  BY <1>1, <1>2, <1>5, MutexFacts DEF IpcInv, CallsType, Like, waitVars
<1>8. CASE k.wait[m] = << >>
  <2> DEFINE f == [r EXCEPT !.value = r.value + 1, !.owner = NoOwner, !.original_priority = NoPriority]
             W == {}
  <2>1. k' = s /\ mutex' = [mutex EXCEPT ![m] = f] /\ pc' = pc
    BY <1>1, <1>5, <1>8 DEF MutexReleaseLast
  <2> HIDE DEF r
  <2>2. f \in MutexRec /\ f.value = 1 /\ f.owner = NoOwner /\ f.hold = 0
    BY <1>6, FreedFacts
  <2> HIDE DEF s, f, c
  <2>3. IpcInv' /\ Wakes({t}, W) /\ k'.prio = s.prio
    BY <1>2, <1>5, <1>7, <2>1, FreeStep DEF W
  <2>4. First(k, m) = W
    BY <1>8 DEF First, W
  <2>5. \A n \in MutexId :
           /\ Granted(n)' = Granted(n) /\ \A x \in Thread : Blocked(n, x)' <=> Blocked(n, x)
           /\ \A x \in Thread : Blocked(n, x) => k'.error[x] = k.error[x]
    BY <1>1, <2>3, QuietCall DEF W
  <2>6. /\ MutexTypeOK' /\ mutex'[m] = f /\ held'[m][t] = 0
        /\ \A x \in Thread \ {t} : held'[m][x] = held[m][x]
        /\ \A n \in MutexId \ {m} : mutex'[n] = mutex[n] /\ held'[n] = held[n]
    <3>1. c \in Nat /\ MutexTypeOK /\ t \in Thread /\ f \in MutexRec
      BY <1>2, <1>4, <2>2
    <3>2. SetMutex(m, f, t, c)
      BY <1>1, <2>1 DEF SetMutex
    <3>3. OneMutexSet(m, f, t, c)
      BY <3>1, <3>2, MutexUpdate
    <3> QED
      BY <1>4, <3>3 DEF OneMutexSet
  <2>7. \A x \in Thread : ~Blocked(m, x)
    BY <1>2, <1>7, <1>8, NobodyWaits DEF IpcInv, Blocked
  <2>8. MutexOK(m)'
    BY <1>2, <1>3, <2>2, <2>5, <2>6, <2>7, MutexFacts DEF MutexOK
  <2>9. \A n \in MutexId \ {m} : MutexOK(n)'
    BY <2>5, <2>6, MutexSame DEF MutexInv
  <2>10. pc' = [pc EXCEPT ![t] = "run"]
    BY <1>2, <2>1 DEF IpcInv, CallsType
  <2>11. MutexInv' /\ alive' /\ ~Flushing'
    BY <1>1, <1>7, <2>3, <2>6, <2>8, <2>9, <2>10, CallFinish
  <2> QED
    BY <1>1, <1>2, <1>5, <1>8, <2>2, <2>3, <2>4, <2>6, <2>11
<1>9. CASE k.wait[m] # << >>
  <2> DEFINE first == Head(k.wait[m])
             p == s.prio[first]
             a == Own(r, first, p)
             W == First(k, m)
  <2>1. /\ k' = ResumeFirst(s, m) /\ mutex' = [mutex EXCEPT ![m] = a]
        /\ pc' = [pc EXCEPT ![t] = "sched"]
    BY <1>1, <1>5, <1>9 DEF MutexReleaseLast, ResumeFirst, Goto
  <2>2. W = {first} /\ first \in Thread /\ Blocked(m, first)
    BY <1>2, <1>7, <1>9, FirstWaiter DEF First, IpcInv, Blocked
  <2>3. p \in Prio
    BY <1>7, <2>2, RecordFacts DEF KernelOK, KernelInv
  <2> HIDE DEF s, r, first, W
  <2>4. IpcInv' /\ Wakes({t}, W) /\ k'.prio = s.prio /\ k'.error = k.error
    <3>1. s.wait[m] = k.wait[m] /\ Like(s)
      BY <1>5
    <3> QED
      BY <1>2, <1>7, <2>1, <3>1, HandStep DEF W
  <2> HIDE DEF p
  <2>5. /\ a \in MutexRec /\ a.owner = first /\ a.original_priority = p
        /\ a.hold = 1 /\ a.value = 0
    BY <1>6, <2>2, <2>3, OwnFacts
  <2> HIDE DEF a, c
  <2>6. /\ MutexTypeOK' /\ mutex'[m] = a /\ held'[m][t] = 0
        /\ \A x \in Thread \ {t} : held'[m][x] = held[m][x]
        /\ \A n \in MutexId \ {m} : mutex'[n] = mutex[n] /\ held'[n] = held[n]
    <3>1. c \in Nat /\ MutexTypeOK /\ t \in Thread /\ a \in MutexRec
      BY <1>2, <1>4, <2>5
    <3>2. SetMutex(m, a, t, c)
      BY <1>1, <2>1 DEF SetMutex
    <3>3. OneMutexSet(m, a, t, c)
      BY <3>1, <3>2, MutexUpdate
    <3> QED
      BY <1>4, <3>3 DEF OneMutexSet
  <2>7. /\ first # t /\ k.error[first] = "EOK"
        /\ \A n \in MutexId \ {m} : ~Blocked(n, first)
    BY <1>2, <2>2, MutexFacts DEF MutexOK, IpcInv, ThreadsOK, Blocked
  <2>8. \A n \in MutexId :
           /\ Granted(n)' = IF n = m THEN {first} ELSE Granted(n)
           /\ \A x \in Thread : Blocked(n, x)' => Blocked(n, x) /\ k'.error[x] = k.error[x]
    <3> SUFFICES ASSUME NEW n \in MutexId
                 PROVE  /\ Granted(n)' = IF n = m THEN {first} ELSE Granted(n)
                        /\ \A x \in Thread : Blocked(n, x)' => Blocked(n, x) /\ k'.error[x] = k.error[x]
      OBVIOUS
    <3>1. n \in Queue /\ m \in Queue /\ t \notin Granted(n)
      BY <1>2, <1>7, MutexFacts
    <3>2. Granted(n)' = Granted(n) \cup {x \in {first} : Contains(k.wait[n], x) /\ k'.error[x] = "EOK"}
      BY <2>2, <2>4, <3>1 DEF Wakes
    <3>3. n = m => Contains(k.wait[n], first) /\ Granted(n) = {}
      BY <1>3, <2>2 DEF Blocked
    <3>4. n # m => ~Contains(k.wait[n], first)
      BY <2>7 DEF Blocked
    <3>5. Granted(n)' = IF n = m THEN {first} ELSE Granted(n)
      BY <2>4, <2>7, <3>2, <3>3, <3>4
    <3>6. \A x \in Thread : Contains(k'.wait[n], x) => Contains(k.wait[n], x)
      BY <2>4, <3>1 DEF Wakes
    <3>7. \A x \in Thread : Blocked(n, x)' => Blocked(n, x)
      BY <3>6 DEF Blocked
    <3> QED
      BY <2>4, <3>5, <3>7
  <2>13. ~Contains(k'.wait[m], first)
    BY <1>7, <2>2, <2>4 DEF Wakes
  <2>9. MutexOK(m)'
    <3>1. /\ Granted(m)' = {first}
          /\ \A x \in Thread : Blocked(m, x)' => Blocked(m, x) /\ k'.error[x] = k.error[x]
      BY <2>8
    <3>2. \A x \in Thread : held'[m][x] = 0
      BY <1>3, <2>6
    <3>3. \A x \in Thread : Blocked(m, x)' => k'.error[x] = "EOK" /\ first # x
      BY <1>2, <2>13, <3>1 DEF MutexOK, Blocked
    <3> QED
      BY <2>2, <2>3, <2>5, <2>6, <3>1, <3>2, <3>3, MutexFacts DEF MutexOK
  <2>10. \A n \in MutexId \ {m} : MutexOK(n)'
    BY <2>6, <2>8, MutexSame DEF MutexInv
  <2>11. MutexInv' /\ alive' /\ ~Flushing'
    BY <1>1, <1>7, <2>1, <2>4, <2>6, <2>9, <2>10, CallFinish
  <2>12. mutex'[m].owner = first /\ mutex'[m].original_priority = k'.prio[first]
    BY <2>4, <2>5, <2>6 DEF p
  <2> QED
    BY <1>1, <1>2, <1>5, <1>9, <2>1, <2>4, <2>11, <2>12 DEF first, W
<1> QED
  BY <1>8, <1>9

(* rt_mutex_detach: while the waiters are woken nobody has been handed the *)
(* mutex, and what is woken is told of an error.                           *)
LEMMA DetachFinish ==
    ASSUME MutexInv, NEW m \in MutexId, MutexId = {m}, Controllers # {},
           NEW t \in Client, pc[t] \notin Waiting, NEW l, l \notin Waiting,
           pc' = [pc EXCEPT ![t] = l], want' = want, mutex' = mutex, held' = held,
           NEW W \in SUBSET Thread, Wakes({t}, W), \A x \in W : k'.error[x] = "ERROR",
           IpcInv', FlushInv(m, m)', Granted(m) = {},
           ~alive' => \A x \in Thread : ~Blocked(m, x)
    PROVE  MutexInv'
<1>1. m \in Queue /\ t \in Thread /\ MutexOK(m) /\ MutexTypeOK /\ IpcInv
  BY MutexFacts DEF Client, MutexInv
<1>2. \A x \in Thread : pc'[x] = IF x = t THEN l ELSE pc[x]
  BY <1>1 DEF IpcInv, CallsType
<1>3. Granted(m)' = {}
  BY <1>1 DEF Wakes
<1>4. \A x \in Thread : Blocked(m, x)' => Blocked(m, x) /\ k'.error[x] = k.error[x]
  <2> SUFFICES ASSUME NEW x \in Thread, Blocked(m, x)'
               PROVE  Blocked(m, x) /\ k'.error[x] = k.error[x]
    OBVIOUS
  <2>1. Contains(k.wait[m], x) /\ x \notin W
    BY <1>1 DEF Wakes, Blocked
  <2>2. x # t
    BY <1>1, <2>1 DEF IpcInv, ThreadsOK
  <2> QED
    BY <2>1, <2>2 DEF Wakes, Blocked
<1>5. MutexOK(m)'
  BY <1>1, <1>3, <1>4, MutexSame
<1>6. LifeOK'
  BY <1>3, <1>4 DEF LifeOK
<1>7. \A x \in Thread : pc'[x] \in Waiting => want'[x] \in MutexId
  BY <1>2 DEF MutexInv
<1>8. MutexTypeOK'
  BY <1>1 DEF MutexTypeOK
<1> QED
  BY <1>5, <1>6, <1>7, <1>8 DEF MutexInv

LEMMA DetachStep ==
    ASSUME MutexInv, MutexScope, NEW t \in Client, NEW m \in MutexId, MutexDetach(t, m)
    PROVE  /\ MutexInv' /\ k'.prio = k.prio /\ UNCHANGED << mutex, held >>
           /\ MutexId = {m} /\ alive
           /\ Flushing \/ mutex[m].owner = NoOwner
                \/ (mutex[m].owner = t /\ mutex[m].original_priority = k.prio[t])
<1>1. /\ IpcInv /\ t \in Thread /\ m \in Queue /\ MutexOK(m) /\ FlushInv(m, m)
      /\ mutex' = mutex /\ held' = held
  BY MutexFacts DEF MutexInv, LifeOK, Client, MutexDetach, mutexVars
<1>2. {"flush", "flush1"} \subseteq Flushes /\ {"run", "flush", "flush1"} \subseteq CallerSteps
      /\ {"run", "flush", "flush1"} \cap Waiting = {} /\ FlushRound("flush", "flush1", m, m, m)
      /\ {m, m} = {m}
  BY DEF Flushes, CallerSteps, Outside, Waiting, FlushRound
<1>3. ASSUME pc[t] \in Flushes
      PROVE  Controllers # {} /\ Flushing /\ Granted(m) = {} /\ alive
  BY <1>1, <1>3 DEF MutexInv, LifeOK, Flushing, FlushInv
<1>4. ASSUME Controllers # {} PROVE CarefulFlush /\ MutexId = {m}
  BY <1>4 DEF MutexScope
<1>5. CASE /\ FlushBegin(t, {m}) /\ Usable
           /\ CarefulFlush =>
                 \/ mutex[m].owner = NoOwner
                 \/ mutex[m].owner = t /\ mutex[m].original_priority = k.prio[t]
  <2> DEFINE W == {}
             l == "flush"
  <2>1. Controllers # {} /\ pc[t] = "run" /\ pc' = [pc EXCEPT ![t] = l]
        /\ want' = want /\ alive' = alive /\ alive
    BY <1>5 DEF FlushBegin, At, Goto, waitVars
  <2>2. CarefulFlush /\ MutexId = {m}
    BY <1>4, <2>1
  <2>3. IpcInv' /\ Wakes({t}, W) /\ k'.prio = k.prio
    BY <1>1, <1>5, FlushBeginStep
  <2>4. FlushInv(m, m)'
    BY <1>1, <1>2, <1>5, <2>2, FlushBeginKeeps
  <2>5. pc[t] \notin Waiting /\ l \notin Waiting /\ W \in SUBSET Thread
        /\ (\A x \in W : k'.error[x] = "ERROR") /\ ~(~alive')
    BY <1>2, <2>1
  <2>6. t \notin Granted(m)
    BY <2>5 DEF Granted
  <2>7. Granted(m) = {}
    <3>1. \A x \in Granted(m) : x \in Thread /\ mutex[m].owner = x
      BY <1>1 DEF MutexOK, Granted
    <3> QED
      BY <1>5, <2>2, <2>6, <3>1, MutexFacts
  <2> HIDE DEF W, l
  <2>8. MutexInv'
    BY <1>1, <2>1, <2>2, <2>3, <2>4, <2>5, <2>7, DetachFinish
  <2> QED
    BY <1>1, <1>5, <2>1, <2>2, <2>3, <2>8
<1>6. CASE FlushLook(t, m, "flush", "flush1", "run")
  <2> DEFINE W == {}
             l == IF k.wait[m] = << >> THEN "run" ELSE "flush1"
  <2>1. pc[t] \in Flushes /\ pc[t] = "flush" /\ pc' = [pc EXCEPT ![t] = l]
        /\ want' = want /\ alive' = (alive /\ pc'[t] # "run")
    BY <1>2, <1>6 DEF FlushLook, At, Goto, waitVars
  <2>2. Controllers # {} /\ Flushing /\ Granted(m) = {} /\ alive /\ MutexId = {m}
    BY <1>3, <1>4, <2>1
  <2>3. IpcInv' /\ Wakes({t}, W) /\ k'.prio = k.prio
    BY <1>1, <1>2, <1>6, FlushLookStep
  <2>4. FlushInv(m, m)'
    BY <1>1, <1>2, <1>6, FlushLookKeeps
  <2>5. pc[t] \notin Waiting /\ l \notin Waiting /\ W \in SUBSET Thread
        /\ (\A x \in W : k'.error[x] = "ERROR")
    BY <1>2, <2>1
  <2>6. ~alive' => \A x \in Thread : ~Blocked(m, x)
    <3>1. pc'[t] = l
      BY <1>1, <2>1 DEF IpcInv, CallsType
    <3>2. l = "run" => k.wait[m] = << >>
      OBVIOUS
    <3> QED
      BY <1>1, <2>1, <2>2, <3>1, <3>2, NobodyWaits DEF IpcInv, Blocked
  <2> HIDE DEF W, l
  <2>7. MutexInv'
    BY <1>1, <2>1, <2>2, <2>3, <2>4, <2>5, <2>6, DetachFinish
  <2> QED
    BY <1>1, <2>2, <2>3, <2>7
<1>7. CASE FlushWake(t, m, "flush", "flush1")
  <2> DEFINE W == First(k, m)
             l == "flush"
  <2>1. pc[t] \in Flushes /\ pc[t] = "flush1" /\ pc' = [pc EXCEPT ![t] = l]
        /\ want' = want /\ alive' = alive
    BY <1>2, <1>7 DEF FlushWake, At, Goto, waitVars
  <2>2. Controllers # {} /\ Flushing /\ Granted(m) = {} /\ alive /\ MutexId = {m}
    BY <1>3, <1>4, <2>1
  <2>3. /\ IpcInv' /\ Wakes({t}, W) /\ k'.prio = k.prio
        /\ \A x \in W : k'.error[x] = "ERROR"
    BY <1>1, <1>2, <1>7, FlushWakeStep
  <2>4. FlushInv(m, m)'
    BY <1>1, <1>2, <1>7, FlushWakeKeeps
  <2>5. pc[t] \notin Waiting /\ l \notin Waiting /\ ~(~alive')
    BY <1>2, <2>1, <2>2 DEF Waiting
  <2>6. W \in SUBSET Thread
    BY <1>1, FirstFacts DEF IpcInv
  <2> HIDE DEF W, l
  <2>7. MutexInv'
    BY <1>1, <2>1, <2>2, <2>3, <2>4, <2>5, <2>6, DetachFinish
  <2> QED
    BY <1>1, <2>2, <2>3, <2>7
<1> QED
  BY <1>5, <1>6, <1>7 DEF MutexDetach

LEMMA CreateStep ==
    ASSUME MutexInv, MutexScope, NEW t \in Client, NEW m \in MutexId, MutexCreate(t, m)
    PROVE  /\ MutexInv' /\ k' = k /\ MutexId = {m} /\ ~alive
           /\ mutex'[m] = FreeMutex
<1>1. /\ UNCHANGED << k, pc, wild, want, budget >> /\ alive' = TRUE /\ ~alive /\ Controllers # {}
      /\ mutex' = [mutex EXCEPT ![m] = FreeMutex]
      /\ held' = [held EXCEPT ![m] = [u \in Thread |-> 0]]
  BY DEF MutexCreate, waitVars
<1>2. MutexId = {m} /\ m \in Queue
  BY <1>1, MutexFacts DEF MutexScope
<1>3. /\ IpcInv /\ Granted(m) = {} /\ (\A x \in Thread : ~Blocked(m, x)) /\ MutexTypeOK
      /\ FlushInv(m, m)
  BY <1>1 DEF MutexInv, LifeOK
<1>4. IpcInv'
  BY <1>1, <1>3 DEF IpcInv, CallsType
<1>5. /\ Granted(m)' = {} /\ \A x \in Thread : ~Blocked(m, x)'
  <2>1. Granted(m)' = Granted(m)
    BY <1>1 DEF Granted, Blocked
  <2> QED
    BY <1>1, <1>3, <2>1 DEF Blocked
<1>6. mutex'[m] = FreeMutex /\ \A x \in Thread : held'[m][x] = 0
  BY <1>1, <1>3 DEF MutexTypeOK
<1>7. MutexTypeOK'
  BY <1>1, <1>3, MutexFacts DEF MutexTypeOK, FreeMutex
<1>8. MutexOK(m)'
  BY <1>5, <1>6, MutexFacts DEF MutexOK, FreeMutex
<1>9. \A x \in Thread : pc'[x] \notin Flushes
  BY <1>1, <1>3 DEF FlushInv
<1>10. LifeOK'
  <2>1. FlushInv(m, m)'
    BY <1>1, <1>2, <1>3, <1>9, FlushNobody
  <2> QED
    BY <1>1, <1>2, <1>5, <2>1 DEF LifeOK
<1>11. \A x \in Thread : pc'[x] \in Waiting => want'[x] \in MutexId
  BY <1>1 DEF MutexInv
<1> QED
  BY <1>1, <1>2, <1>4, <1>6, <1>7, <1>8, <1>10, <1>11 DEF MutexInv

(* What goes on beside the calls: a wait that times out leaves the mutex   *)
(* with its owner.                                                         *)
LEMMA MutexBackground ==
    ASSUME MutexInv, Background, mutex' = mutex, held' = held
    PROVE  MutexInv' /\ (Flushing' => Flushing)
<1>1. MutexTypeOK' /\ IpcInv'
  BY DEF MutexInv, MutexTypeOK, Background
<1>2. \A m \in MutexId :
         /\ Granted(m)' = Granted(m)
         /\ \A x \in Thread : Blocked(m, x)' => Blocked(m, x) /\ k'.error[x] = k.error[x]
  <2> SUFFICES ASSUME NEW m \in MutexId
               PROVE  /\ Granted(m)' = Granted(m)
                      /\ \A x \in Thread :
                            Blocked(m, x)' => Blocked(m, x) /\ k'.error[x] = k.error[x]
    OBVIOUS
  <2>1. m \in Queue
    BY MutexFacts
  <2>2. Granted(m)' = Granted(m)
    BY <2>1 DEF Background
  <2>3. \A x \in Thread : Contains(k'.wait[m], x) =>
                            Contains(k.wait[m], x) /\ k'.error[x] = k.error[x]
    BY <2>1 DEF Background
  <2> QED
    BY <2>2, <2>3 DEF Blocked
<1>3. \A m \in MutexId : MutexOK(m)'
  BY <1>2, MutexSame DEF MutexInv
<1>4. \A m \in MutexId : FlushInv(m, m)'
  <2> SUFFICES ASSUME NEW m \in MutexId PROVE FlushInv(m, m)'
    OBVIOUS
  <2>1. m \in Queue /\ FlushInv(m, m)
    BY MutexFacts DEF MutexInv, LifeOK
  <2> QED
    BY <2>1, FlushBackground
<1>5. \A x \in Thread : /\ pc'[x] \in Flushes => pc'[x] = pc[x]
                        /\ pc'[x] \in Waiting => pc[x] \in Waiting
  BY DEF Background, Flushes, Outside, Waiting
<1>6. Flushing' => Flushing
  BY <1>5 DEF Flushing
<1>7. alive' = alive /\ want' = want
  BY DEF Background
<1>8. LifeOK'
  BY <1>2, <1>4, <1>6, <1>7 DEF MutexInv, LifeOK
<1> QED
  BY <1>1, <1>3, <1>5, <1>6, <1>7, <1>8 DEF MutexInv

(* The idle thread calls nothing.                                          *)
LEMMA MutexCaller ==
    ASSUME MutexInv, NEW t \in Thread, MutexCall(t)
    PROVE  t \in Client
<1>1. pc[Idle] = "run"
  BY DEF MutexInv, IpcInv, ThreadsOK
<1>2. Controllers \subseteq Client
  BY IpcAssumption DEF Client
<1>3. t \in Client \/ t \in Controllers \/ pc[t] \in {"woken"} \cup Flushes
  BY DEF MutexCall, MutexTakeReturn, MutexTakeAgain, MutexTakeFree, MutexTakeFails,
         MutexTakeBlock, MutexRelease, MutexReleaseForeign, MutexDetach, MutexCreate,
         Calls, At, FlushBegin, FlushLook, FlushWake, Flushes
<1> QED
  BY <1>1, <1>2, <1>3 DEF Client, Flushes

LEMMA MutexNextStep ==
    ASSUME MutexInv, MutexScope, [MutexNext]_<<ipcVars, mutexVars>>
    PROVE  MutexInv'
<1>1. CASE UNCHANGED << ipcVars, mutexVars >>
  <2>1. UNCHANGED << k, pc, wild, alive, want, budget, mutex, held >>
    BY <1>1 DEF ipcVars, mutexVars
  <2>2. IpcInv' /\ MutexTypeOK'
    BY <2>1 DEF MutexInv, IpcInv, CallsType, MutexTypeOK
  <2>3. \A m \in MutexId : MutexOK(m)' /\ Granted(m)' = Granted(m) /\ FlushInv(m, m)'
    BY <2>1 DEF MutexInv, MutexOK, LifeOK, Granted, Blocked, FlushInv
  <2>4. LifeOK'
    BY <2>1, <2>3 DEF MutexInv, LifeOK, Flushing, Blocked
  <2> QED
    BY <2>1, <2>2, <2>3, <2>4 DEF MutexInv
<1>2. ASSUME NEW t \in Thread, MutexCall(t)
      PROVE  MutexInv'
  <2>1. t \in Client
    BY <1>2, MutexCaller
  <2>2. CASE MutexTakeReturn(t)
    BY <2>1, <2>2, TakeReturnStep
  <2>3. ASSUME NEW m \in MutexId, MutexRelease(t, m)
        PROVE  MutexInv'
    BY <2>3, ReleaseOnceStep, ReleaseLastStep
  <2>4. ASSUME NEW m \in MutexId,
               \/ MutexTakeAgain(t, m) \/ MutexTakeFree(t, m) \/ MutexTakeFails(t, m)
               \/ \E w \in WaitTime : MutexTakeBlock(t, m, w)
               \/ MutexRelease(t, m) \/ MutexReleaseForeign(t, m)
               \/ MutexDetach(t, m) \/ MutexCreate(t, m)
        PROVE  MutexInv'
    BY <2>1, <2>3, <2>4, TakeAgainStep, TakeFreeStep, RefusedStep, MutexBlockStep, DetachStep,
       CreateStep
  <2> QED
    BY <1>2, <2>2, <2>4 DEF MutexCall
<1>3. CASE (ThreadStep \/ Sleep) /\ UNCHANGED mutexVars
  <2>1. Background /\ mutex' = mutex /\ held' = held
    BY <1>3, BackgroundStep DEF MutexInv, mutexVars
  <2> QED
    BY <2>1, MutexBackground
<1> QED
  BY <1>1, <1>2, <1>3 DEF MutexNext

-----------------------------------------------------------------------------
(* The theorems.                                                           *)

LEMMA MutexInvariant ==
    ASSUME MutexScope
    PROVE  MutexSpec => []MutexInv
<1>1. IpcInit /\ MutexInit => MutexInv
  BY MutexInitFacts
<1>2. MutexInv /\ [MutexNext]_<<ipcVars, mutexVars>> => MutexInv'
  BY MutexNextStep
<1> QED
  BY <1>1, <1>2, PTL DEF MutexSpec

(* Type correctness: value, hold and original_priority stay in their       *)
(* widths, whatever takes, releases, time-outs and detaches interleave.    *)
THEOREM MutexTypeCorrect ==
    ASSUME MutexScope
    PROVE  MutexSpec => [](IpcTypeOK /\ MutexTypeOK)
<1>1. MutexInv => IpcTypeOK /\ MutexTypeOK
  BY MutexInvImplies
<1> QED
  BY <1>1, MutexInvariant, PTL

(* Priorities that are lent to the owner and given back move threads       *)
(* between ready queues; the kernel's lists, its bitmap and its timer list *)
(* agree with the threads' states all the same.                            *)
THEOREM MutexKernelExact ==
    ASSUME MutexScope
    PROVE  MutexSpec => []KernelExact
<1>1. MutexInv => KernelExact
  BY MutexInvImplies
<1> QED
  BY <1>1, MutexInvariant, PTL

(* Outside kernel calls the most urgent ready thread runs, except after a  *)
(* change of priority (or a detach) that no rt_schedule has followed.      *)
THEOREM MutexHighestRuns ==
    ASSUME MutexScope
    PROVE  MutexSpec => []HighestRunsIfAsked
<1>1. MutexInv => HighestRunsIfAsked
  BY MutexInvImplies
<1> QED
  BY <1>1, MutexInvariant, PTL

(* Mutual exclusion: at most one thread holds a mutex, as often as hold    *)
(* says, and a mutex that rt_mutex_release hands on is its new owner's     *)
(* before that thread has run.                                             *)
THEOREM MutexExclusion ==
    ASSUME MutexScope
    PROVE  MutexSpec => []OwnerExact
<1>1. MutexInv => OwnerExact
  BY MutexInvImplies
<1> QED
  BY <1>1, MutexInvariant, PTL

(* rt_mutex_release never leaves a waiter on the queue of a mutex that     *)
(* nobody owns.                                                            *)
THEOREM MutexNobodyWaits ==
    ASSUME MutexScope
    PROVE  MutexSpec => []NobodyWaitsForFree
<1>1. MutexInv => NobodyWaitsForFree
  BY MutexInvImplies
<1> QED
  BY <1>1, MutexInvariant, PTL

(* The careful rt_mutex_detach wakes waiters only.                         *)
THEOREM MutexFlushSafe ==
    ASSUME MutexScope
    PROVE  MutexSpec => []FlushWakesWaiters
<1>1. MutexInv => FlushWakesWaiters
  BY MutexInvImplies
<1> QED
  BY <1>1, MutexInvariant, PTL

-----------------------------------------------------------------------------
(* Priorities, when there is one mutex.                                    *)

(* Only the owner runs with a lent priority, original_priority is its own, *)
(* and nobody has a lent priority while the mutex is detached or gone.     *)
PrioOK(m) ==
    \A t \in Thread :
        /\ mutex[m].owner # t => k.prio[t] = InitPrio[t]
        /\ mutex[m].owner = t => mutex[m].original_priority = InitPrio[t]
        /\ Flushing \/ ~alive => k.prio[t] = InitPrio[t]

LEMMA PrioSame ==
    ASSUME NEW m, PrioOK(m), k'.prio = k.prio, mutex'[m].owner = mutex[m].owner,
           mutex'[m].original_priority = mutex[m].original_priority,
           Flushing' \/ ~alive' => Flushing \/ ~alive
    PROVE  PrioOK(m)'
  BY DEF PrioOK

LEMMA PrioNextStep ==
    ASSUME MutexInv, MutexScope, NEW m \in MutexId, MutexId = {m}, PrioOK(m),
           [MutexNext]_<<ipcVars, mutexVars>>
    PROVE  PrioOK(m)'
<1>1. CASE UNCHANGED << ipcVars, mutexVars >>
  <2>1. UNCHANGED << k, pc, alive, mutex >>
    BY <1>1 DEF ipcVars, mutexVars
  <2> QED
    BY <2>1 DEF PrioOK, Flushing
<1>2. CASE (ThreadStep \/ Sleep) /\ UNCHANGED mutexVars
  <2>1. Background /\ mutex' = mutex /\ held' = held
    BY <1>2, BackgroundStep DEF MutexInv, mutexVars
  <2>2. (Flushing' => Flushing) /\ k'.prio = k.prio /\ alive' = alive
    BY <2>1, MutexBackground DEF Background
  <2> QED
    BY <2>1, <2>2, PrioSame
<1>3. ASSUME NEW t \in Thread, MutexCall(t)
      PROVE  PrioOK(m)'
  <2>1. t \in Client
    BY <1>3, MutexCaller
  <2>2. CASE MutexTakeReturn(t)
    BY <2>1, <2>2, TakeReturnStep, PrioSame
  <2>3. CASE MutexTakeFails(t, m) \/ MutexReleaseForeign(t, m)
    BY <2>3, RefusedStep, PrioSame
  <2>4. CASE MutexTakeAgain(t, m)
    BY <2>4, TakeAgainStep, PrioSame
  <2>5. CASE MutexTakeFree(t, m)
    BY <2>5, TakeFreeStep DEF PrioOK
  <2>6. ASSUME NEW w \in WaitTime, MutexTakeBlock(t, m, w)
        PROVE  PrioOK(m)'
    <3>1. /\ alive' /\ ~Flushing' /\ mutex[m].owner \in Thread /\ mutex' = mutex
          /\ k'.prio = Lend(k, t, mutex[m].owner).prio
      BY <2>6, MutexBlockStep
    <3>2. k.prio \in [Thread -> Prio] /\ IpcInv
      BY RecordFacts DEF MutexInv, IpcInv, KernelOK, KernelInv
    <3>3. \A x \in Thread : x # mutex[m].owner => k'.prio[x] = k.prio[x]
      <4> DEFINE o == mutex[m].owner
                 p == IF k.prio[t] < k.prio[o] THEN k.prio[t] ELSE k.prio[o]
      <4>1. k'.prio = [k.prio EXCEPT ![o] = p]
        BY <3>1, <3>2, LendLike
      <4> HIDE DEF p
      <4> QED
        BY <3>1, <3>2, <4>1
    <3> QED
      BY <3>1, <3>3 DEF PrioOK
  <2>7. CASE MutexRelease(t, m) /\ mutex[m].hold # 1
    BY <2>7, ReleaseOnceStep, PrioSame
  <2>8. CASE MutexRelease(t, m) /\ mutex[m].hold = 1
    <3>1. /\ MutexInv' /\ alive' /\ ~Flushing' /\ mutex[m].owner = t
          /\ k'.prio = [k.prio EXCEPT ![t] = mutex[m].original_priority]
          /\ k.wait[m] = << >> => mutex'[m].owner = NoOwner
          /\ k.wait[m] # << >> =>
                /\ mutex'[m].owner = Head(k.wait[m])
                /\ mutex'[m].original_priority = k'.prio[Head(k.wait[m])]
      BY <2>8, ReleaseLastStep
    <3>2. k.prio \in [Thread -> Prio]
      BY RecordFacts DEF MutexInv, IpcInv, KernelOK, KernelInv
    <3>3. \A x \in Thread : k'.prio[x] = InitPrio[x]
      BY <3>1, <3>2 DEF PrioOK
    <3> QED
      BY <3>1, <3>3, MutexFacts DEF PrioOK
  <2>9. CASE MutexDetach(t, m)
    <3>1. /\ k'.prio = k.prio /\ mutex' = mutex /\ alive
          /\ Flushing \/ mutex[m].owner = NoOwner
               \/ (mutex[m].owner = t /\ mutex[m].original_priority = k.prio[t])
      BY <2>1, <2>9, DetachStep
    <3>2. \A x \in Thread : k.prio[x] = InitPrio[x]
      BY <3>1, MutexFacts DEF PrioOK
    <3> QED
      BY <3>1, <3>2 DEF PrioOK
  <2>10. CASE MutexCreate(t, m)
    <3>1. k' = k /\ ~alive /\ mutex'[m].owner = NoOwner
      BY <2>1, <2>10, CreateStep DEF FreeMutex
    <3> QED
      BY <3>1, MutexFacts DEF PrioOK
  <2> QED
    BY <1>3, <2>2, <2>3, <2>4, <2>5, <2>6, <2>7, <2>8, <2>9, <2>10 DEF MutexCall
<1> QED
  BY <1>1, <1>2, <1>3 DEF MutexNext

LEMMA PrioInitFacts ==
    ASSUME IpcInit, MutexInit, NEW m \in MutexId
    PROVE  PrioOK(m)
<1>1. k.prio = InitPrio /\ mutex[m].owner = NoOwner
  BY IpcInitFacts DEF MutexInit, FreeMutex
<1> QED
  BY <1>1, MutexFacts DEF PrioOK

(* With one mutex a thread that does not own it has its own priority:      *)
(* rt_mutex_release takes back all that waiters have lent, in however many *)
(* takes, and a careful rt_mutex_detach leaves nothing lent.               *)
THEOREM OwnPriorityBack ==
    ASSUME MutexScope, NEW m \in MutexId, MutexId = {m}
    PROVE  MutexSpec => []PriorityRestored
<1>1. IpcInit /\ MutexInit => PrioOK(m)
  BY PrioInitFacts
<1>2. MutexInv /\ PrioOK(m) /\ [MutexNext]_<<ipcVars, mutexVars>> => PrioOK(m)'
  BY PrioNextStep
<1>3. PrioOK(m) => PriorityRestored
  BY DEF PrioOK, PriorityRestored
<1> QED
  BY <1>1, <1>2, <1>3, MutexInvariant, PTL DEF MutexSpec

-----------------------------------------------------------------------------
(* Priority inversion, when there is one mutex with RT_IPC_FLAG_PRIO.      *)

(* Whoever waits, the most urgent waits first and the owner is at least as *)
(* urgent.  A change of priority that no rt_schedule has followed matters  *)
(* to nobody who waits: the owner runs, or rt_schedule is about to.        *)
RankOK(m) ==
    /\ InOrder(k.wait[m])
    /\ \A t \in Thread : Blocked(m, t) => k.prio[mutex[m].owner] <= InitPrio[t]
    /\ \A t \in Thread : Blocked(m, t) /\ k.owed =>
          k.cur = mutex[m].owner \/ pc[k.cur] \in {"sched", "block"} \cup Flushes

(* A step of the running thread, or none, that lends nothing.              *)
LEMMA RankSame ==
    ASSUME MutexInv, NEW m \in MutexId, RankOK(m), Shrinks(k, k'), k'.prio = k.prio,
           mutex'[m].owner = mutex[m].owner,
           \A x \in Thread : Blocked(m, x)' => Blocked(m, x),
           \A x \in Thread : Blocked(m, x)' /\ k'.owed =>
              \/ k.owed /\ k'.cur = k.cur /\ pc'[k.cur] = pc[k.cur]
              \/ k'.cur = mutex[m].owner
              \/ pc'[k'.cur] \in {"sched", "block"} \cup Flushes
    PROVE  RankOK(m)'
<1>1. InOrder(k'.wait[m])
  BY ShrinkOrder, MutexFacts DEF MutexInv, RankOK
<1> QED
  BY <1>1 DEF RankOK

LEMMA RankNobody ==
    ASSUME MutexInv', NEW m \in MutexId, \A x \in Thread : ~Blocked(m, x)'
    PROVE  RankOK(m)'
<1>1. k'.wait[m] = << >>
  <2>1. KernelOK(k') /\ m \in Queue
    BY MutexFacts DEF MutexInv, IpcInv
  <2> QED
    BY <2>1, NobodyWaits DEF Blocked
<1>2. InOrder(k'.wait[m])
  BY <1>1 DEF InOrder
<1> QED
  BY <1>2 DEF RankOK

LEMMA RankTakeBlock ==
    ASSUME MutexInv, MutexScope, NEW m \in MutexId, MutexId = {m}, PrioOK(m), RankOK(m),
           Flag = "PRIO", NEW t \in Thread, NEW w \in WaitTime, MutexTakeBlock(t, m, w)
    PROVE  RankOK(m)'
<1> DEFINE o == mutex[m].owner
           s == Lend(k, t, o)
           p == IF k.prio[t] < k.prio[o] THEN k.prio[t] ELSE k.prio[o]
<1>1. /\ MutexInv' /\ Joins(t, m) /\ o \in Thread /\ o # t /\ k'.prio = s.prio /\ mutex' = mutex
  BY MutexBlockStep
<1>2. /\ Calls(t, Client) /\ k' = BlockOn(s, m, t, w) /\ pc' = [pc EXCEPT ![t] = "block"]
  BY DEF MutexTakeBlock, WaitOn, Goto
<1>3. Running(t) /\ pc[t] = "run" /\ IpcInv /\ m \in Queue
  BY <1>2, CallerFacts, MutexFacts
<1>4. Like(s) /\ s.wait = k.wait /\ s.prio = [k.prio EXCEPT ![o] = p]
  BY <1>1, <1>3, LendLike
<1>5. k.prio \in [Thread -> Prio] /\ Prio \subseteq Nat
  BY <1>3, RecordFacts DEF IpcInv, KernelOK, KernelInv, Prio
<1>6. \A x \in Thread : Blocked(m, x) => x # o
  BY DEF MutexInv, MutexOK
<1>7. p \in Nat /\ p <= k.prio[o] /\ p <= k.prio[t]
  <2>1. k.prio[o] \in Nat /\ k.prio[t] \in Nat
    BY <1>1, <1>5
  <2> QED
    BY <2>1
<1> HIDE DEF p
<1>8. s.prio[o] = p /\ \A x \in Thread : x # o => s.prio[x] = InitPrio[x]
  <2>1. s.prio[o] = p /\ \A x \in Thread : x # o => s.prio[x] = k.prio[x]
    BY <1>1, <1>4, <1>5
  <2>2. \A x \in Thread : x # o => k.prio[x] = InitPrio[x]
    BY DEF PrioOK
  <2> QED
    BY <2>1, <2>2
<1> HIDE DEF s
<1>9. s.stat[t] = "READY" /\ k'.cur = t
  <2>1. s.cur = t /\ KernelOK(s) /\ ThreadsOK(s, pc, want)
    BY <1>3, <1>4 DEF Like, Running
  <2>2. s.stat[t] = "READY"
    BY <1>3, <2>1 DEF ThreadsOK
  <2>3. w \in {Forever} \cup Nat
    BY IpcAssumption DEF WaitTime
  <2>4. Stays(s, k')
    BY <1>2, <1>3, <2>1, <2>2, <2>3, BlockOnNow
  <2> QED
    BY <2>1, <2>2, <2>4 DEF Stays
<1>10. InOrder(k'.wait[m])
  <2>1. \A x \in Thread : x = t \/ Contains(k.wait[m], x) => s.prio[x] = InitPrio[x]
    BY <1>1, <1>6, <1>8 DEF Blocked
  <2>2. s.wait[m] = k.wait[m] /\ InOrder(k.wait[m])
    BY <1>4 DEF RankOK
  <2>3. w \in {Forever} \cup Nat
    BY IpcAssumption DEF WaitTime
  <2> QED
    BY <1>2, <1>3, <1>4, <1>9, <2>1, <2>2, <2>3, BlockOrder
<1>11. \A x \in Thread : Blocked(m, x)' => k'.prio[o] <= InitPrio[x]
  <2> SUFFICES ASSUME NEW x \in Thread, Blocked(m, x)'
               PROVE  p <= InitPrio[x]
    BY <1>1, <1>8
  <2>1. Contains(k.wait[m], x) \/ x = t
    BY <1>1, <1>3 DEF Joins, Blocked
  <2>2. InitPrio[x] \in Nat /\ k.prio[o] \in Nat
    BY <1>1, <1>5, PrioOrder
  <2>3. CASE x = t
    BY <1>1, <1>7, <2>3 DEF PrioOK
  <2>4. CASE Contains(k.wait[m], x)
    <3>1. k.prio[o] <= InitPrio[x]
      BY <2>4 DEF RankOK, Blocked
    <3> QED
      BY <1>7, <2>2, <3>1
  <2> QED
    BY <2>1, <2>3, <2>4
<1>12. pc'[k'.cur] = "block"
  BY <1>2, <1>3, <1>9 DEF IpcInv, CallsType
<1> QED
  BY <1>1, <1>10, <1>11, <1>12 DEF RankOK

LEMMA RankReleaseLast ==
    ASSUME MutexInv, MutexScope, NEW m \in MutexId, MutexId = {m}, PrioOK(m), RankOK(m),
           NEW t \in Thread, MutexRelease(t, m), mutex[m].hold = 1
    PROVE  RankOK(m)'
<1> DEFINE s == Restore(k, t, mutex[m].original_priority)
           first == Head(k.wait[m])
<1>1. /\ MutexInv' /\ Wakes({t}, First(k, m)) /\ mutex[m].owner = t
      /\ k'.prio = [k.prio EXCEPT ![t] = mutex[m].original_priority]
      /\ k.wait[m] # << >> =>
            /\ mutex'[m].owner = first
            /\ pc' = [pc EXCEPT ![t] = "sched"]
  BY ReleaseLastStep
<1>2. Calls(t, Client) /\ MutexReleaseLast(t, m)
  BY DEF MutexRelease
<1>3. Running(t) /\ IpcInv /\ m \in Queue /\ MutexOK(m)
  BY <1>2, CallerFacts, MutexFacts DEF MutexInv
<1>4. \A x \in Thread : Blocked(m, x)' => Blocked(m, x)
  BY <1>1, <1>3 DEF Wakes, Blocked
<1>5. CASE k.wait[m] = << >>
  <2>1. \A x \in Thread : ~Blocked(m, x)'
    BY <1>3, <1>4, <1>5, NobodyWaits DEF IpcInv, Blocked
  <2> QED
    BY <1>1, <2>1, RankNobody
<1>6. CASE k.wait[m] # << >>
  <2>1. Like(s) /\ s.wait = k.wait
    BY <1>1, <1>3, RestoreLike DEF MutexOK
  <2>2. k' = ResumeFirst(s, m)
    BY <1>2, <1>6, <2>1 DEF MutexReleaseLast, ResumeFirst
  <2> HIDE DEF s
  <2>3. Shrinks(k, k')
    BY <2>1, <2>2, ResumeFirstShrinks, ShrinkFrom
  <2>4. InOrder(k'.wait[m])
    BY <1>3, <2>3, ShrinkOrder DEF RankOK
  <2>5. k'.cur = t
    BY <1>3, <2>1, <2>2, ResumeFirstNow DEF Like, Stays, Running
  <2>6. pc'[k'.cur] = "sched"
    BY <1>1, <1>3, <1>6, <2>5 DEF IpcInv, CallsType
  <2>7. first \in Thread /\ k.prio \in [Thread -> Prio]
    BY <1>3, <1>6, FirstWaiter, RecordFacts DEF IpcInv, KernelOK, KernelInv
  <2>8. k'.prio[first] = InitPrio[first]
    BY <1>1, <2>7 DEF PrioOK
  <2>9. \A x \in Thread : Blocked(m, x)' => InitPrio[first] <= InitPrio[x]
    BY <1>3, <1>4, OrderHead DEF RankOK, IpcInv, Blocked
  <2> QED
    BY <1>1, <1>6, <2>4, <2>6, <2>8, <2>9 DEF RankOK
<1> QED
  BY <1>5, <1>6

(* The detach wakes every waiter before it is over.                        *)
LEMMA RankDetach ==
    ASSUME MutexInv, MutexScope, NEW m \in MutexId, RankOK(m), NEW t \in Client,
           MutexDetach(t, m)
    PROVE  RankOK(m)'
<1>1. MutexInv' /\ k'.prio = k.prio /\ mutex' = mutex
  BY DetachStep
<1>2. IpcInv /\ t \in Thread /\ m \in Queue
  BY MutexFacts DEF MutexInv, Client
<1>3. {"flush", "flush1"} \subseteq Flushes
  BY DEF Flushes
<1>4. CASE FlushBegin(t, {m})
  <2>1. k' = k /\ pc' = [pc EXCEPT ![t] = "flush"] /\ k.cur = t
    BY <1>4 DEF FlushBegin, At, Running, Goto
  <2>2. pc'[k'.cur] \in Flushes
    BY <1>2, <1>3, <2>1 DEF IpcInv, CallsType
  <2> QED
    BY <1>1, <2>1, <2>2, RankSame, ShrinkNothing DEF Blocked
<1>5. CASE FlushLook(t, m, "flush", "flush1", "run")
  <2>1. /\ k' = k /\ k.cur = t
        /\ pc' = [pc EXCEPT ![t] = IF k.wait[m] = << >> THEN "run" ELSE "flush1"]
    BY <1>5 DEF FlushLook, At, Running, Goto
  <2>2. CASE k.wait[m] = << >>
    <3>1. \A x \in Thread : ~Blocked(m, x)'
      BY <1>2, <2>1, <2>2, NobodyWaits DEF IpcInv, Blocked
    <3> QED
      BY <1>1, <3>1, RankNobody
  <2>3. CASE k.wait[m] # << >>
    <3>1. pc'[k'.cur] \in Flushes
      BY <1>2, <1>3, <2>1, <2>3 DEF IpcInv, CallsType
    <3> QED
      BY <1>1, <2>1, <3>1, RankSame, ShrinkNothing DEF Blocked
  <2> QED
    BY <2>2, <2>3
<1>6. CASE FlushWake(t, m, "flush", "flush1")
  <2>1. Running(t) /\ pc' = [pc EXCEPT ![t] = "flush"] /\ Shrinks(k, k')
    BY <1>6, FlushWakeShrinks DEF FlushWake, At, Goto
  <2>2. Wakes({t}, First(k, m))
    BY <1>2, <1>3, <1>6, FlushWakeStep DEF CallerSteps
  <2>3. k'.cur = t
    <3>1. CASE k.wait[m] = << >>
      BY <1>6, <2>1, <3>1 DEF FlushWake, Running
    <3>2. CASE k.wait[m] # << >>
      <4> DEFINE a == ResumeWithError(k, Head(k.wait[m]))
      <4>1. k' = [a EXCEPT !.owed = TRUE]
        BY <1>6, <3>2 DEF FlushWake
      <4>2. Stays(k, a)
        BY <1>2, <3>2, FirstWaiter, ResumeWithErrorNow DEF IpcInv
      <4> HIDE DEF a
      <4> QED
        BY <2>1, <4>1, <4>2 DEF Stays, Running
    <3> QED
      BY <3>1, <3>2
  <2>4. pc'[k'.cur] \in Flushes
    BY <1>2, <1>3, <2>1, <2>3 DEF IpcInv, CallsType
  <2>5. \A x \in Thread : Blocked(m, x)' => Blocked(m, x)
    BY <1>2, <2>2 DEF Wakes, Blocked
  <2> QED
    BY <1>1, <2>1, <2>4, <2>5, RankSame
<1> QED
  BY <1>4, <1>5, <1>6 DEF MutexDetach

LEMMA KeptByError ==
    ASSUME IpcInv, NEW t, NEW e, k' = [k EXCEPT !.error[t] = e]
    PROVE  k'.wait = k.wait /\ k'.cur = k.cur /\ k'.owed = k.owed
<1>1. k \in KernelType
  BY DEF IpcInv, KernelOK, KernelInv
<1> QED
  BY <1>1 DEF KernelType

LEMMA RankNextStep ==
    ASSUME MutexInv, MutexScope, NEW m \in MutexId, MutexId = {m}, Flag = "PRIO",
           PrioOK(m), RankOK(m), [MutexNext]_<<ipcVars, mutexVars>>
    PROVE  RankOK(m)'
<1>1. CASE UNCHANGED << ipcVars, mutexVars >>
  <2>1. UNCHANGED << k, pc, mutex >>
    BY <1>1 DEF ipcVars, mutexVars
  <2> QED
    BY <2>1 DEF RankOK, Blocked
<1>2. CASE (ThreadStep \/ Sleep) /\ UNCHANGED mutexVars
  <2>1. Background /\ Shrinks(k, k') /\ StillOwed /\ mutex' = mutex
    BY <1>2, BackgroundStep, BackgroundOrder DEF MutexInv, mutexVars
  <2>2. k'.prio = k.prio /\ \A x \in Thread : Blocked(m, x)' => Blocked(m, x)
    BY <2>1, MutexFacts DEF Background, Blocked
  <2>3. \A x \in Thread : Blocked(m, x)' /\ k'.owed =>
           \/ k.owed /\ k'.cur = k.cur /\ pc'[k.cur] = pc[k.cur]
           \/ k'.cur = mutex[m].owner
           \/ pc'[k'.cur] \in {"sched", "block"} \cup Flushes
    BY <2>1, <2>2 DEF StillOwed, RankOK, Flushes
  <2> QED
    BY <2>1, <2>2, <2>3, RankSame
<1>3. ASSUME NEW t \in Thread, MutexCall(t)
      PROVE  RankOK(m)'
  <2>1. t \in Client
    BY <1>3, MutexCaller
  <2>2. CASE MutexTakeReturn(t)
    <3>1. k' = k /\ mutex' = mutex /\ k.cur = t /\ pc[t] = "woken"
      BY <2>1, <2>2, TakeReturnStep DEF MutexTakeReturn, At, Running
    <3> QED
      BY <3>1 DEF RankOK, Blocked, Flushes
  <2>3. CASE \/ MutexTakeFails(t, m) \/ MutexReleaseForeign(t, m) \/ MutexTakeAgain(t, m)
             \/ MutexRelease(t, m) /\ mutex[m].hold # 1
    <3>1. mutex'[m].owner = mutex[m].owner /\ k'.prio = k.prio
      BY <2>3, RefusedStep, TakeAgainStep, ReleaseOnceStep
    <3>2. k'.wait = k.wait /\ k'.cur = k.cur /\ k'.owed = k.owed /\ pc' = pc
      <4>1. /\ k' = k \/ \E e \in Errno : k' = [k EXCEPT !.error[t] = e]
            /\ pc' = pc
        BY <2>3 DEF MutexTakeFails, MutexReleaseForeign, MutexTakeAgain, MutexRelease, ClearError,
                    Errno
      <4> QED
        BY <4>1, KeptByError DEF MutexInv
    <3>3. \A x \in Thread : Blocked(m, x)' <=> Blocked(m, x)
      BY <3>2 DEF Blocked
    <3> QED
      BY <3>1, <3>2, <3>3 DEF RankOK
  <2>4. CASE MutexTakeFree(t, m)
    <3>1. MutexInv' /\ k'.wait = k.wait /\ \A x \in Thread : ~Blocked(m, x)
      <4>1. k' = [k EXCEPT !.error[t] = "EOK"] /\ "EOK" \in Errno
        BY <2>4 DEF MutexTakeFree, ClearError, Errno
      <4> QED
        BY <2>4, <4>1, TakeFreeStep, KeptByError DEF MutexInv
    <3>2. \A x \in Thread : ~Blocked(m, x)'
      BY <3>1 DEF Blocked
    <3> QED
      BY <3>1, <3>2, RankNobody
  <2>5. ASSUME NEW w \in WaitTime, MutexTakeBlock(t, m, w)
        PROVE  RankOK(m)'
    BY <2>5, RankTakeBlock
  <2>6. CASE MutexRelease(t, m) /\ mutex[m].hold = 1
    BY <2>6, RankReleaseLast
  <2>7. CASE MutexDetach(t, m)
    BY <2>1, <2>7, RankDetach
  <2>8. CASE MutexCreate(t, m)
    <3>1. MutexInv' /\ k' = k /\ ~alive
      BY <2>1, <2>8, CreateStep
    <3>2. \A x \in Thread : ~Blocked(m, x)'
      BY <3>1 DEF MutexInv, LifeOK, Blocked
    <3> QED
      BY <3>1, <3>2, RankNobody
  <2> QED
    BY <1>3, <2>2, <2>3, <2>4, <2>5, <2>6, <2>7, <2>8 DEF MutexCall
<1> QED
  BY <1>1, <1>2, <1>3 DEF MutexNext

LEMMA RankImplies ==
    ASSUME MutexInv, NEW m \in MutexId, MutexId = {m}, PrioOK(m), RankOK(m)
    PROVE  NoPriorityReversion
<1> DEFINE o == mutex[m].owner
<1> SUFFICES ASSUME NEW t \in Thread, Blocked(m, t), k.stat[o] = "READY", ~k.isr,
                    pc[k.cur] = "run", k.cur # o
             PROVE  k.prio[k.cur] <= k.prio[t]
  BY DEF NoPriorityReversion
<1>1. KernelOK(k) /\ HighestRunsIfAsked
  BY MutexInvImplies DEF MutexInv, IpcInv
<1>2. ~k.owed
  BY DEF RankOK, Flushes
<1>3. k.cur = Highest(k)
  BY <1>1, <1>2 DEF HighestRunsIfAsked, HighestRuns
<1>4. o \in Thread \ {t} /\ k.prio[t] = InitPrio[t]
  BY DEF MutexInv, MutexOK, PrioOK
<1>5. k.prio \in [Thread -> Prio] /\ Prio \subseteq Nat /\ KernelInv(k, {}) /\ k.cur \in Thread
  BY <1>1, RecordFacts DEF KernelOK, KernelInv, Prio
<1>6. k.prio[o] \in k.group
  <2>1. Contains(k.rdy[k.prio[o]], o) /\ k.prio[o] \in Prio
    BY <1>4, <1>5 DEF KernelInv, LinksExact
  <2>2. k.rdy[k.prio[o]] # << >>
    BY <2>1 DEF Contains
  <2> QED
    BY <1>5, <2>1, <2>2 DEF KernelInv, GroupExact
<1>7. k.prio[k.cur] <= k.prio[o]
  <2>1. k.group # {}
    BY <1>6
  <2>2. k.prio[Highest(k)] = Min(k.group) /\ Min(k.group) <= k.prio[o]
    BY <1>5, <1>6, <2>1, HighestFacts
  <2> QED
    BY <1>3, <2>2
<1>8. k.prio[o] <= InitPrio[t]
  BY DEF RankOK
<1>9. k.prio[k.cur] \in Nat /\ k.prio[o] \in Nat /\ InitPrio[t] \in Nat
  BY <1>4, <1>5, PrioOrder
<1> QED
  BY <1>4, <1>7, <1>8, <1>9

LEMMA RankInitFacts ==
    ASSUME IpcInit, MutexInit, NEW m \in MutexId
    PROVE  RankOK(m)
<1>1. MutexInv /\ \A x \in Thread : ~Blocked(m, x)
  BY MutexInitFacts, IpcInitFacts, MutexFacts DEF Blocked
<1>2. k.wait[m] = << >>
  BY <1>1, NobodyWaits, MutexFacts DEF MutexInv, IpcInv, Blocked
<1> QED
  BY <1>1, <1>2 DEF RankOK, InOrder

(* No priority inversion, for one mutex with RT_IPC_FLAG_PRIO: while a     *)
(* thread waits for rt_mutex_take and the owner could run, the processor   *)
(* is with the owner or with a thread at least as urgent as the waiter,    *)
(* whatever times out, sleeps or joins the queue meanwhile.                *)
THEOREM MutexNoReversion ==
    ASSUME MutexScope, NEW m \in MutexId, MutexId = {m}, Flag = "PRIO"
    PROVE  MutexSpec => []NoPriorityReversion
<1>1. IpcInit /\ MutexInit => PrioOK(m) /\ RankOK(m)
  BY PrioInitFacts, RankInitFacts
<1>2. MutexInv /\ PrioOK(m) /\ [MutexNext]_<<ipcVars, mutexVars>> => PrioOK(m)'
  BY PrioNextStep
<1>3. MutexInv /\ PrioOK(m) /\ RankOK(m) /\ [MutexNext]_<<ipcVars, mutexVars>> => RankOK(m)'
  BY RankNextStep
<1>4. MutexInv /\ PrioOK(m) /\ RankOK(m) => NoPriorityReversion
  BY RankImplies
<1> QED
  BY <1>1, <1>2, <1>3, <1>4, MutexInvariant, PTL DEF MutexSpec

-----------------------------------------------------------------------------
(* All objects.                                                            *)

(* What its invariant says of the types of the object in use.              *)
LEMMA ObjectTypes ==
    /\ SemInv => IpcTypeOK /\ SemTypeOK
    /\ MutexInv => IpcTypeOK /\ MutexTypeOK
    /\ MailBase => IpcTypeOK /\ MailTypeOK
    /\ MqBase /\ MqCareful => IpcTypeOK /\ MqTypeOK
    /\ EventInv => IpcTypeOK /\ EventTypeOK
    /\ PoolBase => IpcTypeOK /\ PoolTypeOK
<1>1. MqBase /\ MqCareful => IpcTypeOK /\ MqTypeOK
  BY MqTypes
<1>2. EventInv => IpcTypeOK /\ EventTypeOK
  BY IpcInvImplies DEF EventInv, EventTypeOK, InfoType
<1> QED
  BY <1>1, <1>2, SemInvImplies, MutexInvImplies, MailBaseImplies, PoolBaseImplies

(* The invariant of the object in use.  The others never change.           *)
InUse ==
    /\ kind = "sem" => SemInv
    /\ kind = "mutex" => MutexInv
    /\ kind = "mail" => MailBase
    /\ kind = "mq" => MqBase /\ MqCareful
    /\ kind = "event" => EventInv
    /\ kind = "pool" => PoolBase

LEMMA ObjectsInit ==
    ASSUME CarefulFlush, Init
    PROVE  InUse /\ TypeOK
<1>1. SemInv /\ MutexInv /\ MailBase /\ MqBase /\ EventInv /\ PoolBase
  BY SemInitFacts, MutexInitFacts, MailInitFacts, MqBaseInit, EventInitFacts, PoolInitFacts DEF Init
<1>2. MqCareful
  BY MqCarefulInit DEF Init
<1> QED
  BY <1>1, <1>2, ObjectTypes DEF InUse, TypeOK

(* One step of an object, with what it does to the types.                  *)
LEMMA ObjectSteps ==
    ASSUME MutexScope, CarefulFlush, InUse, TypeOK, Next
    PROVE  InUse' /\ TypeOK'
<1>0. (/\ SemInv => IpcTypeOK /\ SemTypeOK
       /\ MutexInv => IpcTypeOK /\ MutexTypeOK
       /\ MailBase => IpcTypeOK /\ MailTypeOK
       /\ MqBase /\ MqCareful => IpcTypeOK /\ MqTypeOK
       /\ EventInv => IpcTypeOK /\ EventTypeOK
       /\ PoolBase => IpcTypeOK /\ PoolTypeOK)'
  BY ObjectTypes, PTL
<1>1. ASSUME NEW o, Only(o)
      PROVE  /\ kind = o /\ kind' = o
             /\ o # "sem" => SemTypeOK'
             /\ o # "mutex" => MutexTypeOK'
             /\ o # "mail" => MailTypeOK'
             /\ o # "mq" => MqTypeOK'
             /\ o # "event" => EventTypeOK'
             /\ o # "pool" => PoolTypeOK'
  BY <1>1 DEF Only, TypeOK, semVars, mutexVars, mailVars, mqVars, eventVars, poolVars,
     SemTypeOK, MutexTypeOK, MailTypeOK, MqTypeOK, EventTypeOK, PoolTypeOK
<1>2. CASE Only("sem") /\ SemNext
  <2>1. kind = "sem" /\ kind' = "sem"
    BY <1>1, <1>2
  <2>2. SemInv'
    BY <1>2, <2>1, SemNextStep DEF InUse
  <2> QED BY <1>0, <1>1, <1>2, <2>1, <2>2 DEF InUse, TypeOK
<1>3. CASE Only("mutex") /\ MutexNext
  <2>1. kind = "mutex" /\ kind' = "mutex"
    BY <1>1, <1>3
  <2>2. MutexInv'
    BY <1>3, <2>1, MutexNextStep DEF InUse
  <2> QED BY <1>0, <1>1, <1>3, <2>1, <2>2 DEF InUse, TypeOK
<1>4. CASE Only("mail") /\ MailNext
  <2>1. kind = "mail" /\ kind' = "mail"
    BY <1>1, <1>4
  <2>2. MailBase'
    BY <1>4, <2>1, MailBaseStep DEF InUse
  <2> QED BY <1>0, <1>1, <1>4, <2>1, <2>2 DEF InUse, TypeOK
<1>5. CASE Only("mq") /\ MqNext
  <2>1. kind = "mq" /\ kind' = "mq"
    BY <1>1, <1>5
  <2>2. MqBase' /\ MqCareful'
    BY <1>5, <2>1, MqBaseStep, MqCarefulStep DEF InUse
  <2> QED BY <1>0, <1>1, <1>5, <2>1, <2>2 DEF InUse, TypeOK
<1>6. CASE Only("event") /\ EventNext
  <2>1. kind = "event" /\ kind' = "event"
    BY <1>1, <1>6
  <2>2. EventInv'
    BY <1>6, <2>1, EventNextStep DEF InUse
  <2> QED BY <1>0, <1>1, <1>6, <2>1, <2>2 DEF InUse, TypeOK
<1>7. CASE Only("pool") /\ PoolNext
  <2>1. kind = "pool" /\ kind' = "pool"
    BY <1>1, <1>7
  <2>2. PoolBase'
    BY <1>7, <2>1, PoolBaseStep DEF InUse
  <2> QED BY <1>0, <1>1, <1>7, <2>1, <2>2 DEF InUse, TypeOK
<1> QED
  BY <1>2, <1>3, <1>4, <1>5, <1>6, <1>7 DEF Next

(* Whichever object the threads of ipc.c use, with whatever time-outs,     *)
(* interrupts, resets and careful detaches between its sections, every     *)
(* field keeps its type: the semaphore's value and the mutex' hold count   *)
(* do not leave their range, the counts and offsets of the mailbox and the *)
(* message queue stay within their size, and no call is left in a state    *)
(* that is none of its own.                                                *)
THEOREM ObjectsTypeCorrect ==
    ASSUME MutexScope, CarefulFlush
    PROVE  Spec => []TypeOK
<1>1. Init => InUse /\ TypeOK
  BY ObjectsInit
<1>2. InUse /\ TypeOK /\ [Next]_vars => (InUse /\ TypeOK)'
  <2> SUFFICES ASSUME InUse, TypeOK, [Next]_vars PROVE InUse' /\ TypeOK'
    OBVIOUS
  <2>1. CASE Next
    BY <2>1, ObjectSteps
  <2>2. CASE UNCHANGED vars
    <3>1. /\ kind' = kind /\ UNCHANGED << ipcVars, semVars >> /\ UNCHANGED << ipcVars, mutexVars >>
          /\ UNCHANGED << ipcVars, mailVars >> /\ UNCHANGED << ipcVars, mqVars >>
          /\ UNCHANGED << ipcVars, eventVars >> /\ UNCHANGED << ipcVars, poolVars >>
      BY <2>2 DEF vars
    <3>2. InUse'
      BY <3>1, SemNextStep, MutexNextStep, MailBaseStep, MqBaseStep, MqCarefulStep, EventStutter,
         PoolBaseStep DEF InUse
    <3>3. TypeOK'
      BY <3>1 DEF TypeOK, ipcVars, semVars, mutexVars, mailVars, mqVars, eventVars, poolVars, IpcTypeOK,
         SemTypeOK, MutexTypeOK, MailTypeOK, MqTypeOK, EventTypeOK, PoolTypeOK
    <3> QED BY <3>2, <3>3
  <2> QED BY <2>1, <2>2
<1> QED
  BY <1>1, <1>2, PTL DEF Spec
=============================================================================
