------------------------------- MODULE MemPool -------------------------------
(***************************************************************************)
(* The memory pool of mempool.c: blocks of one size, a count of the free   *)
(* ones, a count of the threads that wait.  rt_mp_free trusts the count    *)
(* and does not look at the list of waiters, and a thread it wakes takes   *)
(* the head of the block list without a test.  Both are right only for an  *)
(* application that is careful (CarefulPool).                              *)
(***************************************************************************)
EXTENDS Ipc

CONSTANTS
    Block,       \* the blocks of the pool
    CarefulPool  \* allocations wait for ever or not at all, and none is made
                 \* while a woken thread has not taken its block

VARIABLES
    pool,        \* mp->block_free_count, block_list, suspend_thread_count
    owns         \* the blocks each thread has been given and that are not
                 \* back, a handler's being with the thread it works for

poolVars == << pool, owns >>

ASSUME PoolAssumption ==
    "mp" \in Queue /\ IsFiniteSet(Block) /\ CarefulPool \in BOOLEAN

(* rt_mp_init and rt_mp_create link the blocks in the order of addresses.  *)
FreshPool ==
    [free |-> Cardinality(Block), list |-> SetToSeq(Block), waiting |-> 0]

PoolInit == pool = FreshPool /\ owns = [t \in Thread |-> {}]

-----------------------------------------------------------------------------
(* rt_mp_alloc.  With time 0 and no free block it changes nothing.         *)

TakeBlock(t) ==
    /\ pool' = [pool EXCEPT !.free = @ - 1, !.list = Tail(@)]
    /\ owns' = [owns EXCEPT ![t] = @ \cup {Head(pool.list)}]

PoolAllocFree(t) ==
    /\ Calls(t, Client) /\ pool.free > 0
    /\ CarefulPool => Granted("mp") = {}
    /\ TakeBlock(t) /\ UNCHANGED ipcVars

(* The same call made by an interrupt handler, which never waits, for a    *)
(* block that it hands to thread t.                                        *)
PoolAllocFromIsr(t) ==
    /\ ~k.isr /\ Usable /\ pool.free > 0
    /\ CarefulPool => Granted("mp") = {}
    /\ TakeBlock(t) /\ UNCHANGED ipcVars

(* The waiters are linked last in, first out; thread->error is left as it  *)
(* is.                                                                     *)
PoolAllocBlock(t, w) ==
    /\ Calls(t, Client) /\ pool.free = 0
    /\ CarefulPool => w = Forever
    /\ LET b == LinkFirst(Suspend(k, t), "mp", t)
       IN  k' = IF w = Forever THEN b ELSE TimerStart(b, t, w)
    /\ pool' = [pool EXCEPT !.waiting = @ + 1]
    /\ WaitOn(t, "mp") /\ UNCHANGED << wild, alive, budget, owns >>

(* A woken thread pops the list without a test: with an empty list it      *)
(* follows a null pointer.                                                 *)
PoolAllocWoken(t) ==
    /\ At(t, "woken")
    /\ CASE k.error[t] # "EOK" -> UNCHANGED << wild, poolVars >>
         [] k.error[t] = "EOK" /\ pool.list # << >> -> TakeBlock(t) /\ UNCHANGED wild
         [] OTHER -> wild' = TRUE /\ UNCHANGED poolVars
    /\ Return(t) /\ UNCHANGED << k, alive >>

-----------------------------------------------------------------------------
(* rt_mp_free.  The thread to wake is the head of a list that is empty     *)
(* when the count is wrong: what is overwritten then is unknown.           *)

(* Faulty WakeWaiter: the count is not decreased.                          *)
WakeUncounted(p) == p

WakeWaiter(p) == [p EXCEPT !.waiting = @ - 1]

WakeForBlock ==
    LET first == Head(k.wait["mp"])
    IN  IF k.wait["mp"] = << >> THEN k ELSE Resume([k EXCEPT !.error[first] = "EOK"], first)

PutBack(t, b) ==
    LET p == [free |-> pool.free + 1, list |-> << b >> \o pool.list,
              waiting |-> pool.waiting]
    IN  /\ b \in owns[t] /\ owns' = [owns EXCEPT ![t] = @ \ {b}]
        /\ pool' = IF pool.waiting = 0 THEN p ELSE WakeWaiter(p)
        /\ wild' = (wild \/ (pool.waiting # 0 /\ k.wait["mp"] = << >>))
        /\ UNCHANGED << alive, waitVars >>

(* Faulty PoolFree: a thread is woken only by the first free block.        *)
PoolFreeFirst(t, b) ==
    /\ Calls(t, Client) /\ b \in owns[t]
    /\ owns' = [owns EXCEPT ![t] = @ \ {b}]
    /\ LET p == [pool EXCEPT !.free = @ + 1, !.list = << b >> \o @]
       IN  IF pool.waiting = 0 \/ pool.free > 0
           THEN pool' = p /\ UNCHANGED << k, pc >>
           ELSE pool' = WakeWaiter(p) /\ k' = WakeForBlock /\ Goto(t, "sched")
    /\ UNCHANGED << wild, alive, waitVars >>

PoolFree(t, b) ==
    /\ Calls(t, Client) /\ PutBack(t, b)
    /\ IF pool.waiting = 0 THEN UNCHANGED << k, pc >>
                           ELSE k' = WakeForBlock /\ Goto(t, "sched")

(* A handler gives back a block it was handed by thread t; its rt_schedule *)
(* takes effect when the interrupt returns.                                *)
PoolFreeFromIsr(t, b) ==
    /\ ~k.isr /\ Usable /\ PutBack(t, b)
    /\ k' = IF pool.waiting = 0 THEN k ELSE Schedule(WakeForBlock)
    /\ UNCHANGED pc

-----------------------------------------------------------------------------
(* rt_mp_detach and rt_mp_delete look at the list with interrupts enabled  *)
(* and wake its first thread, as rt_ipc_list_resume_all does.              *)
PoolDetach(t) ==
    \/ /\ FlushBegin(t, {"mp"}) /\ Usable
       /\ CarefulFlush => NoOtherCall({"mp"})
       /\ UNCHANGED poolVars
    \/ FlushLook(t, "mp", "flush", "flush1", "run") /\ UNCHANGED poolVars
    \/ /\ FlushWake(t, "mp", "flush", "flush1")
       /\ pool' = WakeWaiter(pool) /\ UNCHANGED owns

(* rt_mp_init and rt_mp_create; the blocks of the old pool are gone.       *)
PoolCreate(t) ==
    /\ At(t, "run") /\ t \in Controllers /\ ~alive
    /\ alive' = TRUE /\ pool' = FreshPool /\ owns' = [u \in Thread |-> {}]
    /\ UNCHANGED << k, pc, wild, waitVars >>

-----------------------------------------------------------------------------
PoolCall(t) ==
    \/ PoolAllocFree(t) \/ PoolAllocWoken(t)
    \/ \E w \in WaitTime : PoolAllocBlock(t, w)
    \/ \E b \in Block : PoolFree(t, b)
    \/ PoolDetach(t) \/ PoolCreate(t)

PoolNext ==
    \/ \E t \in Thread : PoolCall(t)
    \/ \E t \in Client : PoolAllocFromIsr(t) \/ \E b \in Block : PoolFreeFromIsr(t, b)
    \/ (ThreadStep \/ Sleep) /\ UNCHANGED poolVars

PoolSpec == IpcInit /\ PoolInit /\ [][PoolNext]_<<ipcVars, poolVars>>

-----------------------------------------------------------------------------
(* Properties.                                                             *)

PoolTypeOK ==
    /\ pool \in [free: 0..Cardinality(Block), list: Seq(Block), waiting: Int]
    /\ owns \in [Thread -> SUBSET Block]

(* mp->suspend_thread_count is the "numbers of thread pended on this       *)
(* resource" (rtdef.h).                                                    *)
PoolCountExact == pool.waiting = Len(k.wait["mp"])

(* Every block is on the block list or with one thread, and the two counts *)
(* that rt_mp_alloc and rt_mp_free trust are those of the lists.           *)
PoolExact ==
    /\ PoolCountExact
    /\ pool.free = Len(pool.list)
    /\ \A b \in Block :
          Cardinality({i \in DOMAIN pool.list : pool.list[i] = b})
             + Cardinality({t \in Thread : b \in owns[t]}) = 1

(* While a thread waits, every free block has a woken thread coming for it.*)
PoolNobodyStuck ==
    k.wait["mp"] # << >> => pool.free <= Cardinality(Granted("mp"))
=============================================================================
