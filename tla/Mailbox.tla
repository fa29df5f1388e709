------------------------------- MODULE Mailbox -------------------------------
(***************************************************************************)
(* The mailbox of ipc.c: a ring of mails with two wait queues, "mb" of     *)
(* receivers and "mbs" of senders.  A woken caller tests the mailbox again *)
(* and waits for what is left of its time when somebody was faster.        *)
(* Calls with waiting time 0 that find no room or no mail change nothing.  *)
(***************************************************************************)
EXTENDS Ipc

CONSTANT MailSize    \* mb->size

VARIABLES
    mb,          \* mb->entry, in_offset, out_offset and msg_pool (None
                 \* where a mail has been taken: nothing reads it)
    mail         \* the parameter of each thread's waiting rt_mb_send_wait,
                 \* or the mail it has received and not yet looked at

mailVars == << mb, mail >>
MailQueues == {"mb", "mbs"}

ASSUME MailAssumption ==
    /\ MailQueues \subseteq Queue
    /\ MailSize \in Nat \ {0}

EmptyBox ==
    [entry |-> 0, in |-> 0, out |-> 0, pool |-> [i \in 0..(MailSize - 1) |-> None]]

MailInit ==
    /\ mb = EmptyBox
    /\ mail = [t \in Thread |-> None]

-----------------------------------------------------------------------------
(* The ring.                                                               *)

(* Faulty Insert: the mail goes before the oldest one.                     *)
InsertFirst(b, m) ==
    LET o == IF b.out = 0 THEN MailSize - 1 ELSE b.out - 1
    IN  [b EXCEPT !.pool[o] = m, !.out = o, !.entry = @ + 1]

Insert(b, m) ==
    [b EXCEPT !.pool[b.in] = m, !.entry = @ + 1,
              !.in = IF @ + 1 >= MailSize THEN 0 ELSE @ + 1]

Extract(b) ==
    [b EXCEPT !.entry = @ - 1, !.pool[b.out] = None,
              !.out = IF @ + 1 >= MailSize THEN 0 ELSE @ + 1]

-----------------------------------------------------------------------------
(* rt_mb_send_wait with w ticks left, from its test of the mailbox on.     *)
MailSendLoop(t, m, w) ==
    \/ /\ mb.entry < MailSize
       /\ mb' = Insert(mb, m)
       /\ k' = ResumeFirst(k, "mb") /\ EndWait(t, AfterResume("mb"))
       /\ mail' = [mail EXCEPT ![t] = None]
    \/ /\ mb.entry = MailSize /\ w # 0
       /\ WaitInLoop(t, "mbs", w)
       /\ mail' = [mail EXCEPT ![t] = m] /\ UNCHANGED mb

MailSend(t, w) ==
    /\ Calls(t, Producers) /\ mail[t] = None
    /\ MailSendLoop(t, MsgFrom[t], w) /\ UNCHANGED << wild, alive >>

MailSendAgain(t) ==
    /\ At(t, "woken") /\ want[t] = "mbs"
    /\ \/ k.error[t] = "EOK" /\ MailSendLoop(t, mail[t], budget[t])
       \/ /\ k.error[t] # "EOK" \/ (mb.entry = MailSize /\ budget[t] = 0)
          /\ mail' = [mail EXCEPT ![t] = None]
          /\ Return(t) /\ UNCHANGED << k, mb >>
    /\ UNCHANGED << wild, alive >>

(* rt_mb_send in an interrupt handler.                                     *)
MailSendFromIsr ==
    /\ ~k.isr /\ Usable /\ mb.entry < MailSize
    /\ mb' = Insert(mb, IsrMsg)
    /\ k' = ResumeFromIsr(k, "mb")
    /\ UNCHANGED << pc, wild, alive, waitVars, mail >>

-----------------------------------------------------------------------------
(* rt_mb_recv with w ticks left, from its test of the mailbox on.          *)

(* Faulty MailRecvLoop: the senders that wait are not woken.               *)
MailRecvQuiet(t, w) ==
    \/ /\ mb.entry > 0
       /\ mail' = [mail EXCEPT ![t] = mb.pool[mb.out]]
       /\ mb' = Extract(mb)
       /\ EndWait(t, "run") /\ UNCHANGED k
    \/ /\ mb.entry = 0 /\ w # 0
       /\ WaitInLoop(t, "mb", w) /\ UNCHANGED mailVars

MailRecvLoop(t, w) ==
    \/ /\ mb.entry > 0
       /\ mail' = [mail EXCEPT ![t] = mb.pool[mb.out]]
       /\ mb' = Extract(mb)
       /\ k' = ResumeFirst(k, "mbs") /\ EndWait(t, AfterResume("mbs"))
    \/ /\ mb.entry = 0 /\ w # 0
       /\ WaitInLoop(t, "mb", w) /\ UNCHANGED mailVars

MailRecv(t, w) ==
    /\ Calls(t, Consumers) /\ mail[t] = None
    /\ MailRecvLoop(t, w) /\ UNCHANGED << wild, alive >>

MailRecvAgain(t) ==
    /\ At(t, "woken") /\ want[t] = "mb"
    /\ \/ k.error[t] = "EOK" /\ MailRecvLoop(t, budget[t])
       \/ /\ k.error[t] = "EOK" /\ mb.entry = 0 /\ budget[t] = 0
          /\ k' = [k EXCEPT !.error[t] = "ETIMEOUT"]
          /\ Return(t) /\ UNCHANGED mailVars
       \/ k.error[t] # "EOK" /\ Return(t) /\ UNCHANGED << k, mailVars >>
    /\ UNCHANGED << wild, alive >>

(* The caller looks at the mail it received.                               *)
MailUse(t) ==
    /\ At(t, "run") /\ mail[t] # None
    /\ mail' = [mail EXCEPT ![t] = None]
    /\ UNCHANGED << ipcVars, mb >>

-----------------------------------------------------------------------------
(* rt_mb_control, RT_IPC_CMD_RESET.                                        *)
MailReset(t) ==
    /\ Calls(t, Controllers) /\ mail[t] = None
    /\ k' = ResumeAll(ResumeAll(k, "mb"), "mbs")
    /\ mb' = EmptyBox
    /\ Goto(t, "sched") /\ UNCHANGED << wild, alive, waitVars, mail >>

(* rt_mb_detach and rt_mb_delete: the receivers first, then the senders.   *)
MailDetach(t) ==
    /\ \/ /\ FlushBegin(t, MailQueues) /\ Usable /\ mail[t] = None
          /\ CarefulFlush => NoOtherCall(MailQueues)
       \/ FlushLook(t, "mb", "flush", "flush1", "flush2")
       \/ FlushWake(t, "mb", "flush", "flush1")
       \/ FlushLook(t, "mbs", "flush2", "flush3", "run")
       \/ FlushWake(t, "mbs", "flush2", "flush3")
    /\ UNCHANGED mailVars

(* rt_mb_init and rt_mb_create.                                            *)
MailCreate(t) ==
    /\ At(t, "run") /\ t \in Controllers /\ ~alive
    /\ alive' = TRUE /\ mb' = EmptyBox
    /\ UNCHANGED << k, pc, wild, waitVars, mail >>

-----------------------------------------------------------------------------
MailCall(t) ==
    \/ \E w \in WaitTime : MailSend(t, w) \/ MailRecv(t, w)
    \/ MailSendAgain(t) \/ MailRecvAgain(t) \/ MailUse(t)
    \/ MailReset(t) \/ MailDetach(t) \/ MailCreate(t)

MailNext ==
    \/ \E t \in Thread : MailCall(t)
    \/ MailSendFromIsr
    \/ ThreadStep /\ UNCHANGED mailVars
    \/ Sleep /\ mail[k.cur] = None /\ UNCHANGED mailVars

MailSpec == IpcInit /\ MailInit /\ [][MailNext]_<<ipcVars, mailVars>>

-----------------------------------------------------------------------------
(* Properties.                                                             *)

MailTypeOK ==
    /\ mb \in [entry: 0..MailSize, in: 0..(MailSize - 1), out: 0..(MailSize - 1),
               pool: [0..(MailSize - 1) -> Msg \cup {None}]]
    /\ mail \in [Thread -> Msg \cup {None}]

MailSending(t) == pc[t] \in Waiting /\ want[t] = "mbs"

MailFifo == INSTANCE Fifo WITH
    Agent <- Thread, Sender <- Producers, Direct <- Producers, Says <- MsgFrom,
    IsrSays <- IsrMsg, Ends <- {FALSE}, NoMsg <- None, Capacity <- MailSize,
    queue <- [i \in 1..mb.entry |-> mb.pool[(mb.out + i - 1) % MailSize]],
    offered <- [t \in Thread |-> IF MailSending(t) THEN << mail[t], FALSE >> ELSE << None, FALSE >>],
    refused <- {t \in Thread : MailSending(t) /\ k.error[t] # "EOK"},
    taken <- [t \in Thread |-> IF MailSending(t) THEN None ELSE mail[t]]

(* A send puts its mail in or begins to wait with it, and only a reset or  *)
(* an initialisation throws mails away.                                    *)
MailKept ==
    /\ \A t \in Thread, w \in WaitTime :
          MailSend(t, w) => MailFifo!Send(t) \/ MailFifo!Offer(t, FALSE)
    /\ MailSendFromIsr => MailFifo!SendFromIsr(FALSE)
    /\ MailFifo!Clear => \E t \in Thread : MailReset(t) \/ MailCreate(t)

(* The mailbox is a bounded first-in first-out queue: a mail sent by a     *)
(* call that waited, tested again and may have been overtaken is put in    *)
(* exactly once, behind every mail put in before it, unless the call       *)
(* returns an error; and each mail is received by one thread, in order,    *)
(* unless rt_mb_control throws it away.                                    *)
MailImplementsFifo ==
    MailFifo!Spec /\ [][MailKept]_<<ipcVars, mailVars>>

(* No thread is left waiting for what is there: while a receiver waits,    *)
(* every mail in the box has a woken receiver coming for it, and while a   *)
(* sender waits, every free place has a woken sender.                      *)
MailNobodyStuck ==
    /\ k.wait["mb"] # << >> => mb.entry <= Cardinality(Granted("mb"))
    /\ k.wait["mbs"] # << >> => MailSize - mb.entry <= Cardinality(Granted("mbs"))
=============================================================================
