------------------------------- MODULE MsgQueue -------------------------------
(***************************************************************************)
(* The message queue of ipc.c: cells of a pool on two singly linked lists, *)
(* the messages and the free cells.  A call takes a cell off one list in   *)
(* one interrupt-disabled section, copies with interrupts enabled, and     *)
(* puts the cell on the other list in a second section; in between the     *)
(* cell is on no list.  rt_mq_send and rt_mq_urgent never wait, a receiver *)
(* waits in a loop like the mailbox's.  Calls with waiting time 0 that     *)
(* find no message, and sends that find no free cell, change nothing.      *)
(***************************************************************************)
EXTENDS Ipc

CONSTANT MaxMsgs     \* mq->max_msgs, the cells of the pool

VARIABLES
    mq,          \* mq->entry, msg_queue_head, msg_queue_tail and
                 \* msg_queue_free; next and contents of each cell (None
                 \* in a free cell: nothing reads it)
    hand         \* the cell each thread's call works on

mqVars == << mq, hand >>

ASSUME MqAssumption == "mq" \in Queue /\ MaxMsgs \in Nat \ {0}

Cell == 1..MaxMsgs
Null == 0

(* rt_mq_init pushes the cells on the free list one by one.                *)
FreshQueue ==
    [entry |-> 0, head |-> Null, tail |-> Null, free |-> MaxMsgs,
     next |-> [c \in Cell |-> c - 1], data |-> [c \in Cell |-> None]]

MqInit == mq = FreshQueue /\ hand = [t \in Thread |-> Null]

-----------------------------------------------------------------------------
(* The sections and the copies.                                            *)

PopFree(r) == [r EXCEPT !.free = r.next[r.free]]

PushFree(r, c) ==
    [r EXCEPT !.next[c] = r.free, !.free = c, !.data[c] = None]

Fill(r, c, m) == [r EXCEPT !.next[c] = Null, !.data[c] = m]

FillUrgent(r, c, m) == [r EXCEPT !.data[c] = m]

LinkTail(r, c) ==
    [r EXCEPT !.next = IF r.tail = Null THEN @ ELSE [@ EXCEPT ![r.tail] = c],
              !.tail = c,
              !.head = IF @ = Null THEN c ELSE @,
              !.entry = @ + 1]

(* Faulty LinkHead: an urgent message is linked like any other.            *)
LinkHeadLast(r, c) == LinkTail([r EXCEPT !.next[c] = Null], c)

LinkHead(r, c) ==
    [r EXCEPT !.next[c] = r.head, !.head = c,
              !.tail = IF @ = Null THEN c ELSE @,
              !.entry = @ + 1]

(* Faulty UnlinkHead: the tail still points to the cell.                   *)
UnlinkKeepTail(r) == [r EXCEPT !.head = r.next[r.head], !.entry = @ - 1]

UnlinkHead(r) ==
    [r EXCEPT !.head = r.next[r.head],
              !.tail = IF @ = r.head THEN Null ELSE @,
              !.entry = @ - 1]

(* The cells from c on along next.                                         *)
Chain(r, c) ==
    LET at[i \in Cell] ==
          IF i = 1 THEN c ELSE IF at[i - 1] = Null THEN Null ELSE r.next[at[i - 1]]
    IN  [i \in 1..Cardinality({j \in Cell : at[j] # Null}) |-> at[i]]

(* The loop of rt_mq_control.                                              *)
ReleaseAll(r) ==
    LET cells == Chain(r, r.head)
        after[i \in 0..Len(cells)] ==
          IF i = 0 THEN r ELSE PushFree(UnlinkHead(after[i - 1]), cells[i])
    IN  [after[Len(cells)] EXCEPT !.entry = 0]

-----------------------------------------------------------------------------
(* rt_mq_send and rt_mq_urgent.                                            *)

Step(t, c, l) == hand' = [hand EXCEPT ![t] = c] /\ Goto(t, l)

MqSendPop(t, l) ==
    /\ Calls(t, Producers) /\ mq.free # Null
    /\ mq' = PopFree(mq)
    /\ Step(t, mq.free, l) /\ UNCHANGED << k, wild, alive, waitVars >>

MqSendFill(t) ==
    /\ \/ /\ At(t, "fill") /\ Goto(t, "link")
          /\ mq' = Fill(mq, hand[t], MsgFrom[t])
       \/ /\ At(t, "ufill") /\ Goto(t, "ulink")
          /\ mq' = FillUrgent(mq, hand[t], MsgFrom[t])
    /\ UNCHANGED << k, wild, alive, waitVars, hand >>

(* Faulty MqSendLink: an urgent message wakes nobody.                      *)
MqSendLinkQuiet(t) ==
    /\ \/ At(t, "link") /\ mq' = LinkTail(mq, hand[t])
       \/ At(t, "ulink") /\ mq' = LinkHead(mq, hand[t])
    /\ k' = IF pc[t] = "link" THEN ResumeFirst(k, "mq") ELSE k
    /\ Step(t, Null, "sched") /\ UNCHANGED << wild, alive, waitVars >>

MqSendLink(t) ==
    /\ \/ At(t, "link") /\ mq' = LinkTail(mq, hand[t])
       \/ At(t, "ulink") /\ mq' = LinkHead(mq, hand[t])
    /\ k' = ResumeFirst(k, "mq")
    /\ Step(t, Null, AfterResume("mq")) /\ UNCHANGED << wild, alive, waitVars >>

(* Either call made by an interrupt handler.                               *)
MqSendFromIsr ==
    /\ ~k.isr /\ Usable /\ mq.free # Null
    /\ \/ mq' = LinkTail(Fill(PopFree(mq), mq.free, IsrMsg), mq.free)
       \/ mq' = LinkHead(FillUrgent(PopFree(mq), mq.free, IsrMsg), mq.free)
    /\ k' = ResumeFromIsr(k, "mq")
    /\ UNCHANGED << pc, wild, alive, waitVars, hand >>

-----------------------------------------------------------------------------
(* rt_mq_recv with w ticks left, from its test of the queue on.            *)

MqRecvLoop(t, w) ==
    \/ /\ mq.entry > 0
       /\ mq' = UnlinkHead(mq) /\ hand' = [hand EXCEPT ![t] = mq.head]
       /\ EndWait(t, "copy") /\ UNCHANGED k
    \/ /\ mq.entry = 0 /\ w # 0
       /\ WaitInLoop(t, "mq", w) /\ UNCHANGED mqVars

MqRecv(t, w) ==
    /\ Calls(t, Consumers)
    /\ MqRecvLoop(t, w) /\ UNCHANGED << wild, alive >>

MqRecvAgain(t) ==
    /\ At(t, "woken")
    /\ \/ k.error[t] = "EOK" /\ MqRecvLoop(t, budget[t])
       \/ /\ k.error[t] = "EOK" /\ mq.entry = 0 /\ budget[t] = 0
          /\ k' = [k EXCEPT !.error[t] = "ETIMEOUT"]
          /\ Return(t) /\ UNCHANGED mqVars
       \/ k.error[t] # "EOK" /\ Return(t) /\ UNCHANGED << k, mqVars >>
    /\ UNCHANGED << wild, alive >>

(* The message is copied to the caller's buffer, then its cell is freed.   *)
MqCopy(t) ==
    /\ At(t, "copy") /\ Goto(t, "give")
    /\ UNCHANGED << k, wild, alive, waitVars, mqVars >>

MqGive(t) ==
    /\ At(t, "give")
    /\ mq' = PushFree(mq, hand[t])
    /\ Step(t, Null, "run") /\ UNCHANGED << k, wild, alive, waitVars >>

-----------------------------------------------------------------------------
(* rt_mq_control, RT_IPC_CMD_RESET.                                        *)
MqReset(t) ==
    /\ Calls(t, Controllers)
    /\ k' = ResumeAll(k, "mq")
    /\ mq' = ReleaseAll(mq)
    /\ Goto(t, "sched") /\ UNCHANGED << wild, alive, waitVars, hand >>

(* rt_mq_detach and rt_mq_delete.                                          *)
MqDetach(t) ==
    /\ \/ /\ FlushBegin(t, {"mq"}) /\ Usable
          /\ CarefulFlush => NoOtherCall({"mq"})
       \/ FlushLook(t, "mq", "flush", "flush1", "run")
       \/ FlushWake(t, "mq", "flush", "flush1")
    /\ UNCHANGED mqVars

(* rt_mq_init and rt_mq_create.                                            *)
MqCreate(t) ==
    /\ At(t, "run") /\ t \in Controllers /\ ~alive
    /\ alive' = TRUE /\ mq' = FreshQueue
    /\ UNCHANGED << k, pc, wild, waitVars, hand >>

-----------------------------------------------------------------------------
MqCall(t) ==
    \/ MqSendPop(t, "fill") \/ MqSendPop(t, "ufill") \/ MqSendFill(t) \/ MqSendLink(t)
    \/ \E w \in WaitTime : MqRecv(t, w)
    \/ MqRecvAgain(t) \/ MqCopy(t) \/ MqGive(t)
    \/ MqReset(t) \/ MqDetach(t) \/ MqCreate(t)

MqNext ==
    \/ \E t \in Thread : MqCall(t)
    \/ MqSendFromIsr
    \/ (ThreadStep \/ Sleep) /\ UNCHANGED mqVars

MqSpec == IpcInit /\ MqInit /\ [][MqNext]_<<ipcVars, mqVars>>

-----------------------------------------------------------------------------
(* Properties.                                                             *)

MqTypeOK ==
    /\ mq \in [entry: 0..MaxMsgs, head: 0..MaxMsgs, tail: 0..MaxMsgs, free: 0..MaxMsgs,
               next: [Cell -> 0..MaxMsgs], data: [Cell -> Msg \cup {None}]]
    /\ hand \in [Thread -> 0..MaxMsgs]

(* However the sections of senders, receivers, interrupts and a reset      *)
(* interleave, every cell is in exactly one place - among the messages,    *)
(* among the free cells, or in the hand of one call - so the queue never   *)
(* shrinks and no cell is copied by two calls; entry counts the messages   *)
(* and tail is the last one.                                               *)
Occurrences(s, c) == Cardinality({i \in DOMAIN s : s[i] = c})

MqCellsExact ==
    LET messages == Chain(mq, mq.head)
    IN  /\ \A c \in Cell :
              Occurrences(messages, c) + Occurrences(Chain(mq, mq.free), c)
                 + Cardinality({t \in Thread : hand[t] = c}) = 1
        /\ mq.entry = Len(messages)
        /\ mq.tail = IF messages = << >> THEN Null ELSE Last(messages)

MqFifo == INSTANCE Fifo WITH
    Agent <- Thread, Sender <- Producers, Direct <- {}, Says <- MsgFrom,
    IsrSays <- IsrMsg, Ends <- BOOLEAN, NoMsg <- None, Capacity <- MaxMsgs,
    queue <- LET messages == Chain(mq, mq.head)
             IN  [i \in DOMAIN messages |-> mq.data[messages[i]]],
    offered <- [t \in Thread |->
                  IF pc[t] \in {"link", "ulink"}
                  THEN << mq.data[hand[t]], pc[t] = "ulink" >> ELSE << None, FALSE >>],
    refused <- {},
    taken <- [t \in Thread |-> IF pc[t] = "copy" THEN mq.data[hand[t]] ELSE None]

(* The message queue is a bounded first-in first-out queue with urgent     *)
(* messages at the head: each message is put in once, with the contents    *)
(* its sender filled in, and copied out unchanged by one receiver, unless  *)
(* rt_mq_control throws it away.                                           *)
MqImplementsFifo ==
    /\ MqFifo!Spec
    /\ [][MqFifo!Clear => \E t \in Thread : MqReset(t) \/ MqCreate(t)]_<<ipcVars, mqVars>>

(* While a receiver waits, every message in the queue has a woken receiver *)
(* coming for it.                                                          *)
MqNobodyStuck ==
    k.wait["mq"] # << >> => mq.entry <= Cardinality(Granted("mq"))
=============================================================================
