--------------------------------- MODULE Fifo ---------------------------------
(***************************************************************************)
(* What the mailbox and the message queue promise their callers: a bounded *)
(* queue of messages.  A sender puts in its own message, at once or after  *)
(* having offered it, at the tail, or at the head when it is urgent.  An   *)
(* offer ends in one Put, or is withdrawn, and that only by a caller that  *)
(* has been refused or finds the queue full.  A message is taken from the  *)
(* head by one caller and handed over unchanged.                           *)
(***************************************************************************)
EXTENDS Sequences, Naturals

CONSTANTS
    Agent,       \* the threads
    Sender,      \* those that send
    Direct,      \* those that put their message in at once when there is room
    Says,        \* the message each sender sends
    IsrSays,     \* the message of an interrupt handler
    Ends,        \* BOOLEAN, or {FALSE} when no message is urgent
    NoMsg,       \* no message
    Capacity     \* how many messages fit

VARIABLES
    queue,       \* the messages put in and not yet taken
    offered,     \* the message each thread's call has yet to put in, and
                 \* whether it is urgent
    refused,     \* the threads whose offer has been turned down: time is up,
                 \* or the queue is reset or going away
    taken        \* the message each thread's call has taken and not yet
                 \* handed over

NoOffer == << NoMsg, FALSE >>
Offering == {t \in Agent : offered[t] # NoOffer}

fifoVars == << queue, offered, refused, taken >>

Init ==
    /\ queue = << >>
    /\ offered = [t \in Agent |-> NoOffer]
    /\ refused = {}
    /\ taken = [t \in Agent |-> NoMsg]

PutIn(m, urgent) ==
    /\ Len(queue) < Capacity
    /\ queue' = IF urgent THEN << m >> \o queue ELSE Append(queue, m)

Offer(t, urgent) ==
    /\ offered[t] = NoOffer
    /\ offered' = [offered EXCEPT ![t] = << Says[t], urgent >>]
    /\ UNCHANGED << queue, refused, taken >>

Put(t) ==
    /\ offered[t] # NoOffer /\ t \notin refused
    /\ PutIn(offered[t][1], offered[t][2])
    /\ offered' = [offered EXCEPT ![t] = NoOffer]
    /\ UNCHANGED << refused, taken >>

Withdraw(t) ==
    /\ offered[t] # NoOffer /\ (t \in refused \/ Len(queue) = Capacity)
    /\ offered' = [offered EXCEPT ![t] = NoOffer]
    /\ refused' = refused \ {t}
    /\ UNCHANGED << queue, taken >>

(* A call that finds room, and an interrupt's, which never waits.          *)
Send(t) ==
    /\ offered[t] = NoOffer
    /\ PutIn(Says[t], FALSE) /\ UNCHANGED << offered, refused, taken >>

SendFromIsr(urgent) ==
    PutIn(IsrSays, urgent) /\ UNCHANGED << offered, refused, taken >>

Take(t) ==
    /\ queue # << >> /\ taken[t] = NoMsg
    /\ taken' = [taken EXCEPT ![t] = Head(queue)]
    /\ queue' = Tail(queue)
    /\ UNCHANGED << offered, refused >>

HandOver(t) ==
    /\ taken[t] # NoMsg
    /\ taken' = [taken EXCEPT ![t] = NoMsg]
    /\ UNCHANGED << queue, offered, refused >>

(* Some of the offers are turned down.                                     *)
TurnDown ==
    /\ refused \subseteq refused' /\ refused' \subseteq Offering
    /\ UNCHANGED << offered, taken >>

Refuse == TurnDown /\ UNCHANGED queue

(* The messages are thrown away.  The modules that use this one say which  *)
(* of their calls alone may do that.                                       *)
Clear == TurnDown /\ queue # << >> /\ queue' = << >>

Next ==
    \/ \E t \in Agent : Put(t) \/ Withdraw(t) \/ Take(t) \/ HandOver(t)
    \/ \E t \in Direct : Send(t)
    \/ \E urgent \in Ends : SendFromIsr(urgent) \/ \E t \in Sender : Offer(t, urgent)
    \/ Refuse \/ Clear

Spec == Init /\ [][Next]_fifoVars
=============================================================================
