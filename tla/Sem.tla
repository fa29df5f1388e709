--------------------------------- MODULE Sem ---------------------------------
(***************************************************************************)
(* The counting semaphore of ipc.c: rt_sem_init/create, rt_sem_take,       *)
(* rt_sem_release from threads and from interrupt handlers, rt_sem_control *)
(* (RT_IPC_CMD_RESET), rt_sem_detach/delete.                               *)
(***************************************************************************)
EXTENDS Ipc

CONSTANTS
    ValueMod,    \* 2^16, sem->value is an rt_uint16_t
    MaxCredit    \* bound on the tokens released and not yet obtained

VARIABLES
    value,       \* sem->value
    credit       \* history: tokens put in and not yet obtained by a taker

semVars == << value, credit >>

ASSUME SemAssumption ==
    /\ "sem" \in Queue
    /\ ValueMod \in Nat \ {0} /\ MaxCredit \in 0..(ValueMod - 1)

SemInit == value = 0 /\ credit = 0

-----------------------------------------------------------------------------
(* rt_sem_take with waiting time w.  A try (time 0) on a semaphore without *)
(* a token changes nothing.                                                *)
SemTakeToken(t) ==
    /\ Calls(t, Consumers)
    /\ value > 0
    /\ value' = value - 1 /\ credit' = credit - 1
    /\ UNCHANGED ipcVars

SemTakeBlock(t, w) ==
    /\ Calls(t, Consumers)
    /\ value = 0
    /\ k' = BlockOn(k, "sem", t, w)
    /\ WaitOn(t, "sem") /\ UNCHANGED << wild, alive, budget, semVars >>

SemTakeReturn(t) ==
    /\ At(t, "woken")
    /\ credit' = IF k.error[t] = "EOK" THEN credit - 1 ELSE credit
    /\ Return(t) /\ UNCHANGED << k, wild, alive, value >>

(* rt_sem_release: the token goes to the first waiter or to the value.     *)
(* Faulty SemReleaseValue: the value is raised although a waiter is woken. *)
SemReleaseTwice == (value + 1) % ValueMod

SemReleaseValue == IF k.wait["sem"] = << >> THEN (value + 1) % ValueMod ELSE value

SemRelease(t) ==
    /\ Calls(t, Producers) /\ credit < MaxCredit
    /\ k' = ResumeFirst(k, "sem")
    /\ value' = SemReleaseValue /\ credit' = credit + 1
    /\ Goto(t, AfterResume("sem")) /\ UNCHANGED << wild, alive, waitVars >>

SemReleaseFromIsr ==
    /\ ~k.isr /\ Usable /\ credit < MaxCredit
    /\ k' = ResumeFromIsr(k, "sem")
    /\ value' = SemReleaseValue /\ credit' = credit + 1
    /\ UNCHANGED << pc, wild, alive, waitVars >>

(* rt_sem_control: the tokens already granted to a waiter stay granted.    *)
SemReset(t, v) ==
    /\ Calls(t, Controllers)
    /\ v + Cardinality(Granted("sem")) <= MaxCredit
    /\ k' = ResumeAll(k, "sem")
    /\ value' = v % ValueMod
    /\ credit' = v + Cardinality(Granted("sem"))
    /\ Goto(t, "sched") /\ UNCHANGED << wild, alive, waitVars >>

(* rt_sem_detach and rt_sem_delete.                                        *)
SemDetach(t) ==
    /\ \/ FlushBegin(t, {"sem"}) /\ Usable
       \/ FlushLook(t, "sem", "flush", "flush1", "run")
       \/ FlushWake(t, "sem", "flush", "flush1")
    /\ UNCHANGED semVars

(* rt_sem_init and rt_sem_create.                                          *)
SemCreate(t, v) ==
    /\ At(t, "run") /\ t \in Controllers /\ ~alive /\ Granted("sem") = {}
    /\ alive' = TRUE /\ value' = v % ValueMod /\ credit' = v
    /\ UNCHANGED << k, pc, wild, waitVars >>

-----------------------------------------------------------------------------
SemCall(t) ==
    \/ SemTakeToken(t) \/ SemTakeReturn(t) \/ SemRelease(t) \/ SemDetach(t)
    \/ \E w \in WaitTime : SemTakeBlock(t, w)
    \/ \E v \in 0..MaxCredit : SemReset(t, v) \/ SemCreate(t, v)

SemNext ==
    \/ \E t \in Thread : SemCall(t)
    \/ SemReleaseFromIsr
    \/ (ThreadStep \/ Sleep) /\ UNCHANGED semVars

SemSpec == IpcInit /\ SemInit /\ [][SemNext]_<<ipcVars, semVars>>

-----------------------------------------------------------------------------
(* Properties.                                                             *)

SemTypeOK == value \in 0..(ValueMod - 1) /\ credit \in Nat

(* Every token released is in the value, or with exactly one waiter on its *)
(* way out of rt_sem_take: a release that meets a time-out is neither lost *)
(* nor delivered twice.                                                    *)
TokensConserved ==
    alive => value + Cardinality(Granted("sem")) = credit

(* No thread waits while there is a token to take.                         *)
NobodyWaitsForNothing == value > 0 => k.wait["sem"] = << >>

(* With RT_IPC_FLAG_PRIO the token goes to the most urgent waiter.         *)
MostUrgentFirst ==
    [][\A t, u \in Thread :
          t \in Granted("sem")' \ Granted("sem") /\ Blocked("sem", t) /\ Blocked("sem", u)
             => InitPrio[t] <= InitPrio[u]]_<<ipcVars, semVars>>
=============================================================================
