----------------------------- MODULE ObjectProofs -----------------------------
(***************************************************************************)
(* Proofs about the mailbox, the event object and the memory pool, for     *)
(* every set of threads, every priority and every size.  Each object has   *)
(* an unconditional invariant (MailBase, EventInv, PoolBase) about its own *)
(* data under every interleaving of waits, time-outs, interrupts, resets   *)
(* and detaches, and one that holds for an application that detaches it    *)
(* carefully (MailCareful, FlushInv, PoolCareful), from which nobody is    *)
(* left waiting for what is there.                                         *)
(***************************************************************************)
EXTENDS Mailbox, Event, MemPool, IpcProofs

-----------------------------------------------------------------------------
(* The ring.                                                               *)

(* An offset that has run over the end of the ring at most once.           *)
Place(x) == IF x < MailSize THEN x ELSE x - MailSize

LEMMA PlaceIs ==
    ASSUME NEW x \in 0..(2 * MailSize - 1)
    PROVE  x % MailSize = Place(x) /\ Place(x) \in 0..(MailSize - 1)
<1>1. MailSize \in Nat /\ MailSize > 0
  BY MailAssumption
<1>2. CASE x < MailSize
  BY <1>1, <1>2 DEF Place
<1>3. CASE x >= MailSize
  <2>1. x - MailSize \in 0..(MailSize - 1)
    BY <1>1, <1>3
  <2>2. x % MailSize = x - MailSize
    <3>1. (x - MailSize) % MailSize = x - MailSize
      BY <1>1, <2>1
    <3>2. x % MailSize = (x - MailSize) % MailSize
      BY <1>1, <1>3
    <3> QED
      BY <3>1, <3>2
  <2> QED
    BY <1>1, <1>3, <2>1, <2>2 DEF Place
<1> QED
  BY <1>1, <1>2, <1>3

LEMMA PlaceApart ==
    ASSUME NEW o \in 0..(MailSize - 1), NEW i \in Nat, NEW j \in Nat, i < j, j < MailSize
    PROVE  /\ Place(o + i) # Place(o + j)
           /\ Place(o + i) \in 0..(MailSize - 1) /\ Place(o + j) \in 0..(MailSize - 1)
<1>1. MailSize \in Nat /\ MailSize > 0
  BY MailAssumption
<1>2. CASE o + j < MailSize
  BY <1>1, <1>2 DEF Place
<1>3. CASE o + i < MailSize /\ ~(o + j < MailSize)
  BY <1>1, <1>3 DEF Place
<1>4. CASE ~(o + i < MailSize) /\ ~(o + j < MailSize)
  BY <1>1, <1>4 DEF Place
<1> QED
  BY <1>1, <1>2, <1>3, <1>4

LEMMA PlaceNext ==
    ASSUME NEW o \in 0..(MailSize - 1), NEW i \in Nat, i < MailSize
    PROVE  Place(Place(o + 1) + i) = Place(o + (i + 1))
<1>1. MailSize \in Nat /\ MailSize > 0
  BY MailAssumption
<1>2. CASE o + 1 < MailSize
  <2>1. Place(o + 1) = o + 1 /\ o + 1 + i = o + (i + 1)
    BY <1>1, <1>2 DEF Place
  <2> QED
    BY <2>1
<1>3. CASE ~(o + 1 < MailSize)
  <2>1. o = MailSize - 1 /\ Place(o + 1) = 0 /\ 0 + i = i
    BY <1>1, <1>3 DEF Place
  <2>2. Place(i) = i /\ Place(o + (i + 1)) = i
    BY <1>1, <2>1 DEF Place
  <2> QED
    BY <2>1, <2>2
<1> QED
  BY <1>2, <1>3

BoxType ==
    [entry: 0..MailSize, in: 0..(MailSize - 1), out: 0..(MailSize - 1),
     pool: [0..(MailSize - 1) -> Msg \cup {None}]]

(* in_offset is entry places behind out_offset, and those places hold      *)
(* mails.                                                                  *)
Ring(b) ==
    /\ b \in BoxType
    /\ b.in = Place(b.out + b.entry)
    /\ \A i \in 0..(b.entry - 1) : b.pool[Place(b.out + i)] \in Msg

(* The mails in the order in which they will be received.                  *)
Mails(b) == [i \in 1..b.entry |-> b.pool[(b.out + i - 1) % MailSize]]

LEMMA MailsAt ==
    ASSUME NEW b, Ring(b)
    PROVE  /\ Mails(b) \in Seq(Msg) /\ Len(Mails(b)) = b.entry
           /\ Mails(b) = [i \in 1..b.entry |-> b.pool[Place(b.out + i - 1)]]
<1>1. b.entry \in 0..MailSize /\ b.out \in 0..(MailSize - 1) /\ MailSize \in Nat
  BY MailAssumption DEF Ring, BoxType
<1>2. \A i \in 1..b.entry : (b.out + i - 1) % MailSize = Place(b.out + i - 1)
  <2>1. \A i \in 1..b.entry : b.out + i - 1 \in 0..(2 * MailSize - 1)
    BY <1>1
  <2> QED
    BY <2>1, PlaceIs
<1>3. \A i \in 1..b.entry : b.pool[Place(b.out + i - 1)] \in Msg
  <2>1. \A i \in 1..b.entry : i - 1 \in 0..(b.entry - 1) /\ b.out + (i - 1) = b.out + i - 1
    BY <1>1
  <2> QED
    BY <2>1 DEF Ring
<1>4. Mails(b) = [i \in 1..b.entry |-> b.pool[Place(b.out + i - 1)]]
  BY <1>2 DEF Mails
<1>5. Mails(b) \in [1..b.entry -> Msg]
  BY <1>3, <1>4
<1>6. b.entry \in Nat
  BY <1>1
<1>7. Mails(b) \in Seq(Msg)
  BY <1>5, <1>6
<1>8. Len(Mails(b)) = b.entry
  BY <1>5, <1>6, <1>7
<1> QED
  BY <1>4, <1>7, <1>8

LEMMA EmptyRing == Ring(EmptyBox) /\ Mails(EmptyBox) = << >>
<1>1. MailSize \in Nat /\ MailSize > 0
  BY MailAssumption
<1>2. /\ EmptyBox.entry = 0 /\ EmptyBox.in = 0 /\ EmptyBox.out = 0
      /\ EmptyBox \in BoxType
  BY <1>1 DEF EmptyBox, BoxType
<1>3. Ring(EmptyBox)
  BY <1>1, <1>2 DEF Ring, Place
<1>4. Len(Mails(EmptyBox)) = 0 /\ Mails(EmptyBox) \in Seq(Msg)
  BY <1>2, <1>3, MailsAt
<1> QED
  BY <1>3, <1>4

(* rt_mb_send_wait puts a mail behind the others.                          *)
LEMMA InsertRing ==
    ASSUME NEW b, Ring(b), b.entry < MailSize, NEW m \in Msg
    PROVE  LET c == Insert(b, m)
           IN  Ring(c) /\ c.entry = b.entry + 1 /\ Mails(c) = Append(Mails(b), m)
<1> DEFINE c == Insert(b, m)
<1>1. /\ MailSize \in Nat /\ MailSize > 0 /\ b.entry \in 0..(MailSize - 1)
      /\ b.out \in 0..(MailSize - 1) /\ b.in \in 0..(MailSize - 1) /\ b \in BoxType
      /\ b.pool \in [0..(MailSize - 1) -> Msg \cup {None}]
  BY MailAssumption DEF Ring, BoxType
<1>2. /\ c.entry = b.entry + 1 /\ c.out = b.out /\ c.pool = [b.pool EXCEPT ![b.in] = m]
      /\ c.in = IF b.in + 1 >= MailSize THEN 0 ELSE b.in + 1
  BY <1>1 DEF Insert, BoxType
<1>3. c \in BoxType
  <2>1. /\ c.entry \in 0..MailSize /\ c.in \in 0..(MailSize - 1)
        /\ c.pool \in [0..(MailSize - 1) -> Msg \cup {None}]
    BY <1>1, <1>2
  <2> QED
    BY <1>1, <2>1 DEF Insert, BoxType
<1>4. c.in = Place(c.out + c.entry)
  BY <1>1, <1>2 DEF Ring, Place
<1>5. \A i \in 0..(b.entry - 1) : /\ Place(b.out + i) # b.in
                                  /\ Place(b.out + i) \in 0..(MailSize - 1)
  <2>1. b.in = Place(b.out + b.entry)
    BY DEF Ring
  <2>2. \A i \in 0..(b.entry - 1) : i \in Nat /\ i < b.entry
    BY <1>1
  <2> QED
    BY <1>1, <2>1, <2>2, PlaceApart
<1>6. /\ \A i \in 0..(b.entry - 1) : c.pool[Place(b.out + i)] = b.pool[Place(b.out + i)]
      /\ c.pool[Place(b.out + b.entry)] = m
  BY <1>1, <1>2, <1>5 DEF Ring
<1> HIDE DEF c
<1>7. Ring(c)
  <2>1. \A i \in 0..(c.entry - 1) : i \in 0..(b.entry - 1) \/ i = b.entry
    BY <1>1, <1>2
  <2>2. \A i \in 0..(c.entry - 1) : c.pool[Place(c.out + i)] \in Msg
    BY <1>2, <1>6, <2>1 DEF Ring
  <2> QED
    BY <1>3, <1>4, <2>2 DEF Ring
<1>8. Mails(c) = Append(Mails(b), m)
  <2>1. /\ Mails(b) \in Seq(Msg) /\ Len(Mails(b)) = b.entry
        /\ Mails(c) \in Seq(Msg) /\ Len(Mails(c)) = b.entry + 1
    BY <1>2, <1>7, MailsAt
  <2>2. \A i \in 1..b.entry : Mails(c)[i] = Mails(b)[i]
    <3>1. \A i \in 1..b.entry : Mails(b)[i] = b.pool[Place(b.out + i - 1)]
      BY MailsAt
    <3>2. \A i \in 1..(b.entry + 1) : Mails(c)[i] = c.pool[Place(b.out + i - 1)]
      <4>1. Mails(c) = [i \in 1..c.entry |-> c.pool[Place(c.out + i - 1)]]
        BY <1>7, MailsAt
      <4> QED
        BY <1>2, <4>1
    <3>3. \A i \in 1..b.entry : i \in 1..(b.entry + 1) /\ i - 1 \in 0..(b.entry - 1)
                                  /\ b.out + (i - 1) = b.out + i - 1
      BY <1>1
    <3>4. \A i \in 1..b.entry : c.pool[Place(b.out + i - 1)] = b.pool[Place(b.out + i - 1)]
      BY <1>6, <3>3
    <3> QED
      BY <3>1, <3>2, <3>3, <3>4
  <2>3. Mails(c)[b.entry + 1] = m
    <3>1. b.entry + 1 \in 1..c.entry /\ b.out + (b.entry + 1) - 1 = b.out + b.entry
      BY <1>1, <1>2
    <3>2. Mails(c)[b.entry + 1] = c.pool[Place(c.out + (b.entry + 1) - 1)]
      BY <1>7, <3>1, MailsAt
    <3> QED
      BY <1>2, <1>6, <3>1, <3>2
  <2> QED
    BY <1>1, <2>1, <2>2, <2>3
<1> QED
  BY <1>2, <1>7, <1>8 DEF c

(* rt_mb_recv takes the first.                                             *)
LEMMA ExtractRing ==
    ASSUME NEW b, Ring(b), b.entry > 0
    PROVE  LET c == Extract(b)
           IN  /\ Ring(c) /\ c.entry = b.entry - 1 /\ b.pool[b.out] \in Msg
               /\ Mails(b) # << >> /\ Mails(c) = Tail(Mails(b)) /\ b.pool[b.out] = Head(Mails(b))
<1> DEFINE c == Extract(b)
<1>1. /\ MailSize \in Nat /\ MailSize > 0 /\ b.entry \in 1..MailSize
      /\ b.out \in 0..(MailSize - 1) /\ b.in \in 0..(MailSize - 1) /\ b \in BoxType
      /\ b.pool \in [0..(MailSize - 1) -> Msg \cup {None}]
  BY MailAssumption DEF Ring, BoxType
<1>2. /\ c.entry = b.entry - 1 /\ c.in = b.in /\ c.pool = [b.pool EXCEPT ![b.out] = None]
      /\ c.out = IF b.out + 1 >= MailSize THEN 0 ELSE b.out + 1
  BY <1>1 DEF Extract, BoxType
<1>3. c \in BoxType
  <2>1. /\ c.entry \in 0..MailSize /\ c.out \in 0..(MailSize - 1)
        /\ c.pool \in [0..(MailSize - 1) -> Msg \cup {None}]
    BY <1>1, <1>2
  <2> QED
    BY <1>1, <2>1 DEF Extract, BoxType
<1>4. c.in = Place(c.out + c.entry)
  BY <1>1, <1>2 DEF Ring, Place
<1>5. \A i \in 0..(c.entry - 1) : /\ Place(c.out + i) = Place(b.out + (i + 1))
                                  /\ Place(c.out + i) # b.out
                                  /\ i + 1 \in 0..(b.entry - 1)
                                  /\ Place(c.out + i) \in 0..(MailSize - 1)
  <2> SUFFICES ASSUME NEW i \in 0..(c.entry - 1)
               PROVE  /\ Place(c.out + i) = Place(b.out + (i + 1)) /\ Place(c.out + i) # b.out
                      /\ i + 1 \in 0..(b.entry - 1) /\ Place(c.out + i) \in 0..(MailSize - 1)
    OBVIOUS
  <2> HIDE DEF c
  <2>1. i \in Nat /\ i + 1 < b.entry /\ i + 1 \in Nat /\ b.entry <= MailSize
    BY <1>1, <1>2
  <2>2. c.out = Place(b.out + 1) /\ Place(b.out + 0) = b.out
    <3>1. b.out + 1 >= MailSize => b.out + 1 - MailSize = 0
      BY <1>1
    <3> QED
      BY <1>1, <1>2, <3>1 DEF Place
  <2>3. Place(c.out + i) = Place(b.out + (i + 1))
    <3>1. i < MailSize
      BY <1>1, <2>1
    <3>2. Place(Place(b.out + 1) + i) = Place(b.out + (i + 1))
      BY <1>1, <2>1, <3>1, PlaceNext
    <3> QED
      BY <2>2, <3>2
  <2>4. 0 < i + 1 /\ i + 1 < MailSize /\ i + 1 \in 0..(b.entry - 1)
    BY <1>1, <2>1
  <2>5. Place(b.out + (i + 1)) # Place(b.out + 0) /\ Place(b.out + (i + 1)) \in 0..(MailSize - 1)
    <3>1. 0 \in Nat
      OBVIOUS
    <3> QED
      BY <1>1, <2>1, <2>4, <3>1, PlaceApart
  <2> QED
    BY <2>2, <2>3, <2>4, <2>5
<1>6. \A i \in 0..(c.entry - 1) :
         c.pool[Place(c.out + i)] = b.pool[Place(b.out + (i + 1))]
  BY <1>1, <1>2, <1>5
<1>7. b.pool[b.out] \in Msg /\ Place(b.out + 0) = b.out
  <2>1. 0 \in 0..(b.entry - 1) /\ Place(b.out + 0) = b.out
    BY <1>1 DEF Place
  <2> QED
    BY <2>1 DEF Ring
<1> HIDE DEF c
<1>8. Ring(c)
  BY <1>3, <1>4, <1>5, <1>6 DEF Ring
<1>9. /\ Mails(b) \in Seq(Msg) /\ Len(Mails(b)) = b.entry
      /\ Mails(c) \in Seq(Msg) /\ Len(Mails(c)) = b.entry - 1
  BY <1>2, <1>8, MailsAt
<1>10. Mails(b) # << >> /\ Head(Mails(b)) = b.pool[b.out]
  <2>1. 1 \in 1..b.entry /\ b.out + 1 - 1 = b.out + 0
    BY <1>1
  <2>2. Mails(b)[1] = b.pool[Place(b.out + 1 - 1)]
    BY <2>1, MailsAt
  <2> QED
    BY <1>1, <1>7, <1>9, <2>1, <2>2
<1>11. \A i \in 1..(b.entry - 1) : Mails(c)[i] = Mails(b)[i + 1]
  <2> SUFFICES ASSUME NEW i \in 1..(b.entry - 1)
               PROVE  Mails(c)[i] = Mails(b)[i + 1]
    OBVIOUS
  <2>1. /\ i \in 1..c.entry /\ i + 1 \in 1..b.entry /\ i - 1 \in 0..(c.entry - 1)
        /\ c.out + i - 1 = c.out + (i - 1) /\ b.out + (i + 1) - 1 = b.out + ((i - 1) + 1)
    BY <1>1, <1>2, <1>3 DEF BoxType
  <2>2. Mails(c)[i] = c.pool[Place(c.out + i - 1)]
    BY <1>8, <2>1, MailsAt
  <2>3. Mails(b)[i + 1] = b.pool[Place(b.out + (i + 1) - 1)]
    BY <2>1, MailsAt
  <2> QED
    BY <1>6, <2>1, <2>2, <2>3
<1>12. Mails(c) = Tail(Mails(b))
  BY <1>1, <1>9, <1>10, <1>11
<1> QED
  BY <1>2, <1>7, <1>8, <1>10, <1>12 DEF c

-----------------------------------------------------------------------------
(* The mailbox's invariant, whoever detaches it when.                      *)

(* A waiting sender has its mail in hand, a waiting receiver has none, and *)
(* a thread on either queue has seen no error yet.                         *)
MailBase ==
    /\ IpcInv /\ Ring(mb) /\ mail \in [Thread -> Msg \cup {None}]
    /\ \A t \in Thread : pc[t] \in Waiting =>
          (want[t] = "mbs" /\ mail[t] \in Msg) \/ (want[t] = "mb" /\ mail[t] = None)
    /\ \A q \in MailQueues, t \in Thread : Blocked(q, t) => k.error[t] = "EOK"

LEMMA TheQueues == "mb" \in Queue /\ "mbs" \in Queue /\ MailQueues = {"mb", "mbs"}
  BY MailAssumption DEF MailQueues

LEMMA MailBaseImplies ==
    ASSUME MailBase
    PROVE  IpcTypeOK /\ MailTypeOK /\ KernelExact /\ HighestRunsIfAsked
<1>1. IpcTypeOK /\ KernelExact /\ HighestRunsIfAsked
  BY IpcInvImplies DEF MailBase
<1> QED
  BY <1>1 DEF MailBase, MailTypeOK, Ring, BoxType

LEMMA MailInitFacts ==
    ASSUME IpcInit, MailInit
    PROVE  MailBase
<1>1. IpcInv /\ Ring(mb) /\ mail \in [Thread -> Msg \cup {None}]
  BY IpcInitFacts, EmptyRing DEF MailInit
<1>2. \A q \in MailQueues, t \in Thread : ~Blocked(q, t)
  BY IpcInitFacts, TheQueues DEF Blocked
<1>3. \A t \in Thread : pc[t] \notin Waiting
  BY IpcInitFacts DEF Waiting
<1> QED
  BY <1>1, <1>2, <1>3 DEF MailBase

(* A step of the call of t, which does not wait afterwards.                *)
LEMMA BaseWakes ==
    ASSUME MailBase, IpcInv', Ring(mb'), NEW t \in Thread, NEW W, Wakes({t}, W),
           \A q \in MailQueues : ~Blocked(q, t),
           NEW l, l \notin Waiting, pc' = [pc EXCEPT ![t] = l],
           want' = want \/ want' = [want EXCEPT ![t] = None],
           NEW m \in Msg \cup {None}, mail' = [mail EXCEPT ![t] = m]
    PROVE  MailBase'
<1>1. /\ pc \in [Thread -> Outside \cup Waiting \cup Flushes \cup Carrying]
      /\ want \in [Thread -> Queue \cup {None}] /\ mail \in [Thread -> Msg \cup {None}]
  BY DEF MailBase, IpcInv, CallsType
<1>2. \A x \in Thread : pc'[x] \in Waiting =>
         pc[x] \in Waiting /\ want'[x] = want[x] /\ mail'[x] = mail[x]
  BY <1>1
<1>3. \A x \in Thread : pc'[x] \in Waiting =>
         (want'[x] = "mbs" /\ mail'[x] \in Msg) \/ (want'[x] = "mb" /\ mail'[x] = None)
  BY <1>2 DEF MailBase
<1>4. \A q \in MailQueues, x \in Thread : Blocked(q, x)' => Blocked(q, x) /\ x \notin W
  BY TheQueues DEF Wakes, Blocked
<1>5. \A q \in MailQueues, x \in Thread : Blocked(q, x)' => k'.error[x] = "EOK"
  BY <1>4 DEF Wakes, MailBase
<1> QED
  BY <1>1, <1>3, <1>5 DEF MailBase

(* It begins to wait on q.                                                 *)
LEMMA BaseWaits ==
    ASSUME MailBase, IpcInv', mb' = mb, NEW t \in Thread, NEW q \in MailQueues, Waits(t, q),
           NEW m \in Msg \cup {None}, mail' = [mail EXCEPT ![t] = m],
           (q = "mbs" /\ m \in Msg) \/ (q = "mb" /\ m = None)
    PROVE  MailBase'
<1>1. /\ pc \in [Thread -> Outside \cup Waiting \cup Flushes \cup Carrying]
      /\ want \in [Thread -> Queue \cup {None}] /\ mail \in [Thread -> Msg \cup {None}]
  BY DEF MailBase, IpcInv, CallsType
<1>2. /\ pc' = [pc EXCEPT ![t] = "block"] /\ want' = [want EXCEPT ![t] = q] /\ Joins(t, q)
  BY DEF Waits
<1>3. \A x \in Thread : x # t => pc'[x] = pc[x] /\ want'[x] = want[x] /\ mail'[x] = mail[x]
  BY <1>1, <1>2
<1>4. want'[t] = q /\ mail'[t] = m
  BY <1>1, <1>2
<1>5. \A x \in Thread : pc'[x] \in Waiting =>
         (want'[x] = "mbs" /\ mail'[x] \in Msg) \/ (want'[x] = "mb" /\ mail'[x] = None)
  BY <1>3, <1>4 DEF MailBase
<1>6. \A y \in MailQueues, x \in Thread : Blocked(y, x)' => Blocked(y, x) \/ x = t
  BY <1>2, TheQueues DEF Joins, Blocked
<1>7. \A y \in MailQueues, x \in Thread : Blocked(y, x)' => k'.error[x] = "EOK"
  BY <1>2, <1>6 DEF Joins, MailBase
<1> QED
  BY <1>1, <1>5, <1>7 DEF MailBase

LEMMA BaseBackground ==
    ASSUME MailBase, Background, UNCHANGED mailVars
    PROVE  MailBase'
<1>1. \A x \in Thread : pc'[x] \in Waiting => pc[x] \in Waiting /\ want'[x] = want[x]
  BY DEF Background, Waiting, Outside
<1>2. \A q \in MailQueues, x \in Thread :
         Blocked(q, x)' => Blocked(q, x) /\ k'.error[x] = k.error[x]
  BY TheQueues DEF Background, Blocked
<1>3. IpcInv' /\ mb' = mb /\ mail' = mail
  BY DEF Background, mailVars
<1> QED
  BY <1>1, <1>2, <1>3 DEF MailBase

-----------------------------------------------------------------------------
(* The calls.                                                              *)

(* What a section of rt_mb_send_wait does: it puts the mail m in and wakes *)
(* a receiver, or waits for room.                                          *)
Sends(t, m) ==
    \/ /\ mb.entry < MailSize /\ mb' = Insert(mb, m)
       /\ Gives(t, "mb") /\ mail' = [mail EXCEPT ![t] = None]
    \/ /\ mb.entry = MailSize /\ mb' = mb
       /\ Waits(t, "mbs") /\ mail' = [mail EXCEPT ![t] = m]

(* And rt_mb_recv.                                                         *)
Receives(t) ==
    \/ /\ mb.entry > 0 /\ mb' = Extract(mb)
       /\ Gives(t, "mbs") /\ mail' = [mail EXCEPT ![t] = mb.pool[mb.out]]
    \/ /\ mb.entry = 0 /\ mb' = mb
       /\ Waits(t, "mb") /\ mail' = mail

LEMMA SendLoopStep ==
    ASSUME MailBase, NEW t \in Client, Running(t), pc[t] \in {"run", "woken"}, NEW m \in Msg,
           NEW w \in {Forever} \cup 0..MaxWait, MailSendLoop(t, m, w),
           wild' = wild, alive' = alive
    PROVE  MailBase' /\ Sends(t, m)
<1> USE TheQueues
<1>1. IpcInv /\ t \in Thread /\ Ring(mb) /\ \A q \in MailQueues : ~Blocked(q, t)
  BY NotWaiting DEF MailBase, Client
<1>2. CASE mb.entry < MailSize /\ mb' = Insert(mb, m) /\ k' = ResumeFirst(k, "mb")
           /\ EndWait(t, AfterResume("mb")) /\ mail' = [mail EXCEPT ![t] = None]
  <2>1. IpcInv' /\ Gives(t, "mb")
    BY <1>1, <1>2, GiveStep
  <2>2. Ring(mb')
    BY <1>1, <1>2, InsertRing
  <2>3. AfterResume("mb") \notin Waiting
    BY DEF AfterResume, Waiting
  <2>4. MailBase'
    BY <1>1, <1>2, <2>1, <2>2, <2>3, BaseWakes DEF Gives
  <2> QED
    BY <1>2, <2>1, <2>4 DEF Sends
<1>3. CASE mb.entry = MailSize /\ WaitInLoop(t, "mbs", w)
           /\ mail' = [mail EXCEPT ![t] = m] /\ mb' = mb
  <2>1. IpcInv' /\ Waits(t, "mbs")
    BY <1>1, <1>3, LoopWaitStep
  <2>2. MailBase'
    BY <1>1, <1>3, <2>1, BaseWaits
  <2> QED
    BY <1>3, <2>1, <2>2 DEF Sends
<1> QED
  BY <1>2, <1>3 DEF MailSendLoop

LEMMA RecvLoopStep ==
    ASSUME MailBase, NEW t \in Client, Running(t), pc[t] \in {"run", "woken"}, mail[t] = None,
           NEW w \in {Forever} \cup 0..MaxWait, MailRecvLoop(t, w),
           wild' = wild, alive' = alive
    PROVE  MailBase' /\ Receives(t)
<1> USE TheQueues
<1>1. IpcInv /\ t \in Thread /\ Ring(mb) /\ \A q \in MailQueues : ~Blocked(q, t)
  BY NotWaiting DEF MailBase, Client
<1>2. CASE mb.entry > 0 /\ mail' = [mail EXCEPT ![t] = mb.pool[mb.out]] /\ mb' = Extract(mb)
           /\ k' = ResumeFirst(k, "mbs") /\ EndWait(t, AfterResume("mbs"))
  <2>1. IpcInv' /\ Gives(t, "mbs")
    BY <1>1, <1>2, GiveStep
  <2>2. Ring(mb') /\ mb.pool[mb.out] \in Msg
    BY <1>1, <1>2, ExtractRing
  <2>3. AfterResume("mbs") \notin Waiting
    BY DEF AfterResume, Waiting
  <2>4. MailBase'
    BY <1>1, <1>2, <2>1, <2>2, <2>3, BaseWakes DEF Gives
  <2> QED
    BY <1>2, <2>1, <2>4 DEF Receives
<1>3. CASE mb.entry = 0 /\ WaitInLoop(t, "mb", w) /\ mail' = mail /\ mb' = mb
  <2>1. IpcInv' /\ Waits(t, "mb")
    BY <1>1, <1>3, LoopWaitStep
  <2>2. mail' = [mail EXCEPT ![t] = None]
    BY <1>3 DEF MailBase
  <2>3. MailBase'
    BY <1>1, <1>3, <2>1, <2>2, BaseWaits
  <2> QED
    BY <1>3, <2>1, <2>3 DEF Receives
<1> QED
  BY <1>2, <1>3 DEF MailRecvLoop, mailVars

(* The calls of a thread but for reset, detach and initialisation.         *)
MailUsers(t) ==
    \/ \E w \in WaitTime : MailSend(t, w) \/ MailRecv(t, w)
    \/ MailSendAgain(t) \/ MailRecvAgain(t) \/ MailUse(t)

(* A call begins on a mailbox that may be used, or goes on after a grant;  *)
(* it gives up with an error, or with its time when there is nothing for   *)
(* it.                                                                     *)
MailOutcome(t) ==
    /\ pc[t] \in {"run", "woken"} /\ wild' = wild /\ alive' = alive
    /\ \/ \E m \in Msg :
             /\ Sends(t, m)
             /\ \/ /\ Usable /\ pc[t] = "run" /\ mail[t] = None
                   /\ t \in Producers /\ m = MsgFrom[t]
                \/ t \in Granted("mbs") /\ pc[t] = "woken" /\ want[t] = "mbs" /\ mail[t] = m
       \/ /\ Receives(t) /\ mail[t] = None
          /\ (Usable /\ pc[t] = "run") \/ (t \in Granted("mb") /\ pc[t] = "woken" /\ want[t] = "mb")
       \/ /\ Leaves(t) /\ mb' = mb /\ mail' = [mail EXCEPT ![t] = None] /\ At(t, "woken")
          /\ t \in Granted("mb") => mb.entry = 0
          /\ t \in Granted("mbs") => mb.entry = MailSize
       \/ /\ pc[t] = "run" /\ UNCHANGED << k, pc, want, mb >>
          /\ mail[t] # None /\ mail' = [mail EXCEPT ![t] = None]

LEMMA MailFirstCalls ==
    ASSUME MailBase, NEW t \in Thread, NEW w \in WaitTime, MailSend(t, w) \/ MailRecv(t, w)
    PROVE  MailBase' /\ MailOutcome(t)
<1>1. /\ Running(t) /\ pc[t] = "run" /\ pc[t] \in {"run", "woken"} /\ Usable /\ mail[t] = None
      /\ wild' = wild /\ alive' = alive /\ t \in Client
  BY IpcAssumption DEF MailSend, MailRecv, Calls, At, Client
<1>2. w \in {Forever} \cup 0..MaxWait
  BY IpcAssumption DEF WaitTime
<1>3. CASE MailSend(t, w)
  <2>1. MsgFrom[t] \in Msg /\ MailSendLoop(t, MsgFrom[t], w) /\ t \in Producers
    BY <1>3, IpcAssumption DEF MailSend, Calls
  <2>2. MailBase' /\ Sends(t, MsgFrom[t])
    BY <1>1, <1>2, <2>1, SendLoopStep
  <2> QED
    BY <1>1, <2>1, <2>2 DEF MailOutcome
<1>4. CASE MailRecv(t, w)
  <2>1. MailRecvLoop(t, w)
    BY <1>4 DEF MailRecv
  <2>2. MailBase' /\ Receives(t)
    BY <1>1, <1>2, <2>1, RecvLoopStep
  <2> QED
    BY <1>1, <2>2 DEF MailOutcome
<1> QED
  BY <1>3, <1>4

(* What holds of a woken thread that looks at its error.                   *)
LEMMA MailWoken ==
    ASSUME MailBase, NEW t \in Thread, At(t, "woken")
    PROVE  /\ t \in Client /\ Running(t) /\ pc[t] = "woken" /\ pc[t] \in Waiting
           /\ budget[t] \in {Forever} \cup 0..MaxWait
           /\ \A q \in MailQueues : ~Blocked(q, t)
           /\ \A q \in MailQueues : want[t] = q /\ k.error[t] = "EOK" <=> t \in Granted(q)
<1>1. Running(t) /\ pc[t] = "woken" /\ IpcInv /\ pc[t] \in {"run", "woken"}
  BY DEF At, MailBase
<1>2. t \in Client /\ budget[t] \in {Forever} \cup 0..MaxWait
  BY <1>1 DEF IpcInv, ThreadsOK, CallsType, Client
<1>3. \A q \in MailQueues : ~Blocked(q, t)
  BY <1>1, TheQueues, NotWaiting
<1>4. pc[t] \in Waiting
  BY <1>1 DEF Waiting
<1> QED
  BY <1>1, <1>2, <1>3, <1>4 DEF Granted

LEMMA MailLeave ==
    ASSUME MailBase, NEW t \in Thread, At(t, "woken"), IpcInv', Leaves(t), mb' = mb,
           mail' = [mail EXCEPT ![t] = None], wild' = wild, alive' = alive,
           t \in Granted("mb") => mb.entry = 0,
           t \in Granted("mbs") => mb.entry = MailSize
    PROVE  MailBase' /\ MailOutcome(t)
<1>1. /\ pc[t] = "woken" /\ \A q \in MailQueues : ~Blocked(q, t)
  BY MailWoken
<1>2. /\ pc' = [pc EXCEPT ![t] = "run"] /\ want' = [want EXCEPT ![t] = None]
      /\ Wakes({t}, {}) /\ "run" \notin Waiting
  BY DEF Leaves, Waiting
<1> DEFINE W == {}
<1>3. Wakes({t}, W)
  BY <1>2
<1> HIDE DEF W
<1>4. Ring(mb')
  BY DEF MailBase
<1>5. MailBase'
  BY <1>1, <1>2, <1>3, <1>4, BaseWakes
<1> QED
  BY <1>1, <1>5 DEF MailOutcome

LEMMA MailSendAgainStep ==
    ASSUME MailBase, NEW t \in Thread, MailSendAgain(t)
    PROVE  MailBase' /\ MailOutcome(t)
<1>1. At(t, "woken") /\ want[t] = "mbs" /\ wild' = wild /\ alive' = alive
  BY DEF MailSendAgain
<1>2. /\ t \in Client /\ Running(t) /\ pc[t] = "woken" /\ pc[t] \in {"run", "woken"}
      /\ budget[t] \in {Forever} \cup 0..MaxWait /\ pc[t] \in Waiting
      /\ k.error[t] = "EOK" <=> t \in Granted("mbs")
      /\ t \notin Granted("mb")
  BY <1>1, MailWoken, TheQueues
<1>3. mail[t] \in Msg
  BY <1>1, <1>2 DEF MailBase
<1>4. CASE k.error[t] = "EOK" /\ MailSendLoop(t, mail[t], budget[t])
  <2>1. MailBase' /\ Sends(t, mail[t])
    BY <1>1, <1>2, <1>3, <1>4, SendLoopStep
  <2> QED
    BY <1>1, <1>2, <1>3, <1>4, <2>1 DEF MailOutcome
<1>5. CASE /\ k.error[t] # "EOK" \/ (mb.entry = MailSize /\ budget[t] = 0)
           /\ mail' = [mail EXCEPT ![t] = None]
           /\ Return(t) /\ UNCHANGED << k, mb >>
  <2>1. IpcInv' /\ Leaves(t)
    BY <1>1, <1>2, <1>5, ReturnStep DEF MailBase
  <2> QED
    BY <1>1, <1>2, <1>5, <2>1, MailLeave
<1> QED
  BY <1>4, <1>5 DEF MailSendAgain

LEMMA MailRecvAgainStep ==
    ASSUME MailBase, NEW t \in Thread, MailRecvAgain(t)
    PROVE  MailBase' /\ MailOutcome(t)
<1>1. At(t, "woken") /\ want[t] = "mb" /\ wild' = wild /\ alive' = alive
  BY DEF MailRecvAgain
<1>2. /\ t \in Client /\ Running(t) /\ pc[t] = "woken" /\ pc[t] \in {"run", "woken"}
      /\ budget[t] \in {Forever} \cup 0..MaxWait /\ pc[t] \in Waiting
      /\ k.error[t] = "EOK" <=> t \in Granted("mb")
      /\ t \notin Granted("mbs")
  BY <1>1, MailWoken, TheQueues
<1>3. mail[t] = None /\ IpcInv
  BY <1>1, <1>2 DEF MailBase
<1>4. CASE k.error[t] = "EOK" /\ MailRecvLoop(t, budget[t])
  <2>1. MailBase' /\ Receives(t)
    BY <1>1, <1>2, <1>3, <1>4, RecvLoopStep
  <2> QED
    BY <1>1, <1>2, <1>3, <1>4, <2>1 DEF MailOutcome
<1>5. ASSUME mail' = mail
      PROVE  mail' = [mail EXCEPT ![t] = None]
  BY <1>3, <1>5 DEF MailBase
<1>6. CASE /\ k.error[t] = "EOK" /\ mb.entry = 0 /\ budget[t] = 0
           /\ k' = [k EXCEPT !.error[t] = "ETIMEOUT"]
           /\ Return(t) /\ UNCHANGED mailVars
  <2>1. IpcInv' /\ Leaves(t)
    BY <1>1, <1>2, <1>3, <1>6, TimeoutStep
  <2>2. mb' = mb /\ mail' = mail
    BY <1>6 DEF mailVars
  <2> QED
    BY <1>1, <1>2, <1>5, <1>6, <2>1, <2>2, MailLeave
<1>7. CASE k.error[t] # "EOK" /\ Return(t) /\ UNCHANGED << k, mailVars >>
  <2>1. IpcInv' /\ Leaves(t)
    BY <1>1, <1>2, <1>3, <1>7, ReturnStep
  <2>2. mb' = mb /\ mail' = mail
    BY <1>7 DEF mailVars
  <2> QED
    BY <1>1, <1>2, <1>5, <1>7, <2>1, <2>2, MailLeave
<1> QED
  BY <1>4, <1>6, <1>7 DEF MailRecvAgain

LEMMA MailUserStep ==
    ASSUME MailBase, NEW t \in Thread, MailUsers(t)
    PROVE  MailBase' /\ MailOutcome(t)
<1>1. CASE MailUse(t)
  <2>1. /\ pc[t] = "run" /\ UNCHANGED << k, pc, wild, alive, want, budget, mb >>
        /\ mail[t] # None /\ mail' = [mail EXCEPT ![t] = None]
    BY <1>1 DEF MailUse, At, ipcVars
  <2>2. IpcInv'
    BY <2>1 DEF MailBase, IpcInv, CallsType
  <2>3. \A x \in Thread : pc'[x] \in Waiting => mail'[x] = mail[x]
    BY <2>1 DEF MailBase, Waiting
  <2>4. mail' \in [Thread -> Msg \cup {None}] /\ Ring(mb')
    BY <2>1 DEF MailBase
  <2>5. \A q \in MailQueues, x \in Thread : Blocked(q, x)' => k'.error[x] = "EOK"
    BY <2>1 DEF MailBase, Blocked
  <2>6. MailBase'
    BY <2>1, <2>2, <2>3, <2>4, <2>5 DEF MailBase
  <2> QED
    BY <2>1, <2>6 DEF MailOutcome
<1> QED
  BY <1>1, MailFirstCalls, MailSendAgainStep, MailRecvAgainStep DEF MailUsers

LEMMA MailIsrStep ==
    ASSUME MailBase, MailSendFromIsr
    PROVE  MailBase' /\ Wakes({}, First(k, "mb")) /\ k'.error = k.error
<1> USE TheQueues
<1>1. /\ k' = ResumeFromIsr(k, "mb") /\ UNCHANGED << pc, wild, alive, want, budget >>
      /\ mb.entry < MailSize /\ mb' = Insert(mb, IsrMsg) /\ mail' = mail
  BY DEF MailSendFromIsr, waitVars
<1>2. IpcInv' /\ Wakes({}, First(k, "mb")) /\ k'.error = k.error
  BY <1>1, IsrStep DEF MailBase
<1>3. Ring(mb')
  BY <1>1, InsertRing, IpcAssumption DEF MailBase
<1>4. \A q \in MailQueues, x \in Thread : Blocked(q, x)' => Blocked(q, x)
  BY <1>2 DEF Wakes, Blocked
<1> QED
  BY <1>1, <1>2, <1>3, <1>4 DEF MailBase

(* rt_mb_control wakes the waiters of both queues.                         *)
LEMMA ResumeBothStep ==
    ASSUME IpcInv, NEW t \in Client, Running(t), pc[t] = "run",
           NEW q1 \in Queue, NEW q2 \in Queue,
           k' = ResumeAll(ResumeAll(k, q1), q2), pc' = [pc EXCEPT ![t] = "sched"],
           UNCHANGED << wild, alive, want, budget >>
    PROVE  /\ IpcInv' /\ Wakes({t}, Waiters(k, q1) \cup Waiters(k, q2))
           /\ \A x \in Waiters(k, q1) \cup Waiters(k, q2) : k'.error[x] = "ERROR"
<1> DEFINE a == ResumeAll(k, q1)
           V == Waiters(k, q1)
           W == Waiters(a, q2)
           U == Waiters(k, q1) \cup Waiters(k, q2)
<1>1. KernelOK(k) /\ k.cur = t
  BY DEF IpcInv, Running
<1>2. /\ Woken(k, a, V) /\ Stays(k, a)
      /\ \A x \in Thread : a.error[x] = IF x \in V THEN "ERROR" ELSE k.error[x]
  BY <1>1, ResumeAllNow
<1>3. KernelOK(a) /\ a.cur = t
  BY <1>1, <1>2, WokenKernelOK DEF Stays, Client
<1> HIDE DEF a
<1>4. /\ Woken(a, k', W) /\ Stays(a, k')
      /\ \A x \in Thread : k'.error[x] = IF x \in W THEN "ERROR" ELSE a.error[x]
  BY <1>3, ResumeAllNow DEF a
<1>5. V \cup W = U
  BY <1>2 DEF Woken, Waiters
<1>6. Woken(k, k', U)
  <2> HIDE DEF V, W, U
  <2>1. Woken(k, k', V \cup W)
    BY <1>2, <1>4, WokenMore
  <2> QED
    BY <1>5, <2>1
<1>7. /\ U \in SUBSET Thread /\ \A x \in U : \E q \in Queue : Contains(k.wait[q], x)
  BY DEF Waiters
<1>8. \A x \in U : k'.error[x] = "ERROR"
  BY <1>2, <1>4, <1>5, <1>7
<1>9. \A x \in Thread \ (U \cup {t}) : k'.error[x] = k.error[x]
  BY <1>2, <1>4, <1>5
<1>10. /\ k'.cur = t /\ pc[t] \notin {"block", "sleep", "sched"} /\ wild' \in BOOLEAN /\ alive' \in BOOLEAN
       /\ budget' \in [Thread -> {Forever} \cup 0..MaxWait]
  BY <1>3, <1>4 DEF Stays, IpcInv, CallsType
<1> HIDE DEF V, W, U
<1>11. IpcInv' /\ Wakes({t}, U)
  BY <1>6, <1>7, <1>9, <1>10, WakeAndSchedule
<1> QED
  BY <1>8, <1>11 DEF U

LEMMA MailResetStep ==
    ASSUME MailBase, NEW t \in Thread, MailReset(t)
    PROVE  /\ MailBase' /\ Mails(mb') = << >>
           /\ \A q \in MailQueues, x \in Thread : ~Blocked(q, x)'
           /\ \E W : Wakes({t}, W)
<1> USE TheQueues
<1>1. /\ t \in Client /\ Running(t) /\ pc[t] = "run" /\ mail[t] = None
      /\ k' = ResumeAll(ResumeAll(k, "mb"), "mbs") /\ pc' = [pc EXCEPT ![t] = "sched"]
      /\ mb' = EmptyBox /\ mail' = mail /\ UNCHANGED << wild, alive, want, budget >>
  BY IpcAssumption DEF MailReset, Calls, At, Client, Goto, waitVars
<1>2. t \in Thread /\ IpcInv /\ pc[t] \in {"run", "woken"}
  BY <1>1 DEF MailBase, Client
<1> DEFINE W == Waiters(k, "mb") \cup Waiters(k, "mbs")
<1>3. IpcInv' /\ Wakes({t}, W)
  BY <1>1, <1>2, ResumeBothStep
<1>4. \A q \in MailQueues : ~Blocked(q, t)
  BY <1>1, <1>2, NotWaiting
<1>5. mail' = [mail EXCEPT ![t] = None] /\ "sched" \notin Waiting
  BY <1>1 DEF MailBase, Waiting
<1>6. Ring(mb') /\ Mails(mb') = << >>
  BY <1>1, EmptyRing
<1>7. \A q \in MailQueues, x \in Thread : ~Blocked(q, x)'
  BY <1>3 DEF Wakes, Waiters, Blocked
<1> HIDE DEF W
<1>8. MailBase'
  BY <1>1, <1>2, <1>3, <1>4, <1>5, <1>6, BaseWakes
<1> QED
  BY <1>3, <1>6, <1>7, <1>8

(* A step of rt_mb_detach: whoever it wakes reads an error.                *)
MailFlushes(t) ==
    /\ UNCHANGED << mb, mail, want >> /\ pc[t] \notin Waiting
    /\ \E W, l : /\ Wakes({t}, W) /\ \A x \in W : k'.error[x] = "ERROR"
                 /\ l \notin Waiting /\ pc' = [pc EXCEPT ![t] = l]

LEMMA MailDetachStep ==
    ASSUME MailBase, NEW t \in Thread, MailDetach(t)
    PROVE  MailBase' /\ MailFlushes(t)
<1> USE TheQueues
<1>1. mb' = mb /\ mail' = mail /\ IpcInv /\ Ring(mb')
  BY DEF MailDetach, mailVars, MailBase
<1>2. /\ {"flush", "flush1", "flush2", "flush3"} \subseteq Flushes
      /\ {"flush1", "flush2", "flush3", "run"} \subseteq CallerSteps
  BY DEF Flushes, CallerSteps, Outside
<1>3. t \in Client
  BY <1>1, IpcAssumption DEF MailDetach, FlushBegin, FlushLook, FlushWake, At, IpcInv, ThreadsOK, Client
<1>4. ASSUME NEW W, IpcInv', Wakes({t}, W), \A x \in W : k'.error[x] = "ERROR",
             pc[t] \notin Waiting, NEW l, l \notin Waiting, pc' = [pc EXCEPT ![t] = l],
             want' = want
      PROVE  MailBase' /\ MailFlushes(t)
  <2>1. \A q \in MailQueues : ~Blocked(q, t)
    BY <1>1, <1>4 DEF IpcInv, ThreadsOK, Blocked
  <2>2. mail' = [mail EXCEPT ![t] = mail[t]] /\ mail[t] \in Msg \cup {None}
    BY <1>1 DEF MailBase
  <2>3. MailBase'
    BY <1>1, <1>4, <2>1, <2>2, BaseWakes
  <2> QED
    BY <1>1, <1>4, <2>3 DEF MailFlushes
<1>5. CASE FlushBegin(t, MailQueues)
  <2> DEFINE W == {}
  <2>1. /\ pc[t] \notin Waiting /\ "flush" \notin Waiting /\ pc' = [pc EXCEPT ![t] = "flush"]
        /\ want' = want
    BY <1>5 DEF FlushBegin, At, Goto, waitVars, Waiting
  <2>2. IpcInv' /\ Wakes({t}, W) /\ \A x \in W : k'.error[x] = "ERROR"
    BY <1>1, <1>3, <1>5, FlushBeginStep
  <2> HIDE DEF W
  <2> QED
    BY <1>4, <2>1, <2>2
<1>6. ASSUME NEW q \in MailQueues, NEW at \in Flushes, NEW wake \in CallerSteps \cap Flushes,
             NEW next \in CallerSteps, next \notin Waiting, FlushLook(t, q, at, wake, next)
      PROVE  MailBase' /\ MailFlushes(t)
  <2> DEFINE W == {}
             l == IF k.wait[q] = << >> THEN next ELSE wake
  <2>1. /\ pc[t] \notin Waiting /\ l \notin Waiting /\ pc' = [pc EXCEPT ![t] = l]
        /\ want' = want
    BY <1>6 DEF FlushLook, At, Goto, waitVars, Waiting, Flushes
  <2>2. IpcInv' /\ Wakes({t}, W) /\ \A x \in W : k'.error[x] = "ERROR"
    BY <1>1, <1>3, <1>6, FlushLookStep
  <2> HIDE DEF W, l
  <2> QED
    BY <1>4, <2>1, <2>2
<1>7. ASSUME NEW q \in MailQueues, NEW at \in Flushes, NEW wake \in Flushes,
             FlushWake(t, q, at, wake)
      PROVE  MailBase' /\ MailFlushes(t)
  <2>1. /\ pc[t] \notin Waiting /\ at \notin Waiting /\ pc' = [pc EXCEPT ![t] = at]
        /\ want' = want /\ q \in Queue
    BY <1>7 DEF FlushWake, At, Goto, waitVars, Waiting, Flushes
  <2>2. IpcInv' /\ Wakes({t}, First(k, q)) /\ \A x \in First(k, q) : k'.error[x] = "ERROR"
    BY <1>1, <1>3, <1>7, <2>1, FlushWakeStep
  <2> QED
    BY <1>4, <2>1, <2>2
<1>8. "flush2" \notin Waiting /\ "run" \notin Waiting
  BY DEF Waiting
<1> QED
  BY <1>2, <1>5, <1>6, <1>7, <1>8 DEF MailDetach

LEMMA MailCreateStep ==
    ASSUME MailBase, NEW t \in Thread, MailCreate(t)
    PROVE  MailBase' /\ Mails(mb') = << >> /\ UNCHANGED << k, pc, want, mail >>
<1>1. UNCHANGED << k, pc, wild, want, budget, mail >> /\ alive' = TRUE /\ mb' = EmptyBox
  BY DEF MailCreate, waitVars
<1>2. IpcInv'
  BY <1>1 DEF MailBase, IpcInv, CallsType
<1>3. Ring(mb') /\ Mails(mb') = << >>
  BY <1>1, EmptyRing
<1>4. \A q \in MailQueues, x \in Thread : Blocked(q, x)' => k'.error[x] = "EOK"
  BY <1>1 DEF MailBase, Blocked
<1> QED
  BY <1>1, <1>2, <1>3, <1>4 DEF MailBase

LEMMA MailCases ==
    ASSUME MailNext
    PROVE  \/ \E t \in Thread : MailUsers(t)
           \/ \E t \in Thread : MailReset(t) \/ MailDetach(t) \/ MailCreate(t)
           \/ MailSendFromIsr
           \/ (ThreadStep \/ Sleep) /\ UNCHANGED mailVars
  BY DEF MailNext, MailCall, MailUsers

LEMMA MailBaseStep ==
    ASSUME MailBase, [MailNext]_<<ipcVars, mailVars>>
    PROVE  MailBase'
<1>1. CASE UNCHANGED << ipcVars, mailVars >>
  <2>1. UNCHANGED << k, pc, wild, alive, want, budget, mb, mail >>
    BY <1>1 DEF ipcVars, mailVars
  <2>2. IpcInv'
    BY <2>1 DEF MailBase, IpcInv, CallsType
  <2>3. \A q \in MailQueues, x \in Thread : Blocked(q, x)' <=> Blocked(q, x)
    BY <2>1 DEF Blocked
  <2> QED
    BY <2>1, <2>2, <2>3 DEF MailBase
<1>2. CASE (ThreadStep \/ Sleep) /\ UNCHANGED mailVars
  BY <1>2, BackgroundStep, BaseBackground DEF MailBase
<1> QED
  BY <1>1, <1>2, MailCases, MailUserStep, MailIsrStep, MailResetStep, MailDetachStep, MailCreateStep

LEMMA MailInvariant == MailSpec => []MailBase
<1>1. IpcInit /\ MailInit => MailBase
  BY MailInitFacts
<1>2. MailBase /\ [MailNext]_<<ipcVars, mailVars>> => MailBase'
  BY MailBaseStep
<1> QED
  BY <1>1, <1>2, PTL DEF MailSpec

(* The mailbox's variables keep their types.                               *)
THEOREM MailTypeCorrect ==
    MailSpec => [](IpcTypeOK /\ MailTypeOK)
<1>1. MailBase => IpcTypeOK /\ MailTypeOK
  BY MailBaseImplies
<1> QED
  BY <1>1, MailInvariant, PTL

(* The kernel's lists stay exact under every interleaving of senders,      *)
(* receivers, time-outs, interrupts, resets and detaches.                  *)
THEOREM MailKernelExact ==
    MailSpec => []KernelExact
<1>1. MailBase => KernelExact
  BY MailBaseImplies
<1> QED
  BY <1>1, MailInvariant, PTL

(* Outside kernel calls the most urgent ready thread runs (a detach, which *)
(* calls no rt_schedule, excepted).                                        *)
THEOREM MailHighestRuns ==
    MailSpec => []HighestRunsIfAsked
<1>1. MailBase => HighestRunsIfAsked
  BY MailBaseImplies
<1> QED
  BY <1>1, MailInvariant, PTL

-----------------------------------------------------------------------------
(* The mailbox implements the first-in first-out queue of module Fifo.     *)

(* What the threads offer, whose offer is turned down and what they have   *)
(* taken, in its terms.                                                    *)
Offers == [t \in Thread |-> IF MailSending(t) THEN << mail[t], FALSE >> ELSE << None, FALSE >>]
Refused == {t \in Thread : MailSending(t) /\ k.error[t] # "EOK"}
Takes == [t \in Thread |-> IF MailSending(t) THEN None ELSE mail[t]]
Fifos == << Mails(mb), Offers, Refused, Takes >>

(* A step of the queue, stated on these.                                   *)
FifoPut(t) ==
    /\ Offers[t] # << None, FALSE >> /\ Offers[t][2] = FALSE /\ t \notin Refused
    /\ Len(Mails(mb)) < MailSize /\ Mails(mb)' = Append(Mails(mb), Offers[t][1])
    /\ Offers' = [Offers EXCEPT ![t] = << None, FALSE >>]
    /\ Refused' = Refused /\ Takes' = Takes

FifoAppend(m) ==
    /\ Len(Mails(mb)) < MailSize /\ Mails(mb)' = Append(Mails(mb), m)
    /\ Offers' = Offers /\ Refused' = Refused /\ Takes' = Takes

FifoSend(t) == Offers[t] = << None, FALSE >> /\ FifoAppend(MsgFrom[t])

FifoOffer(t) ==
    /\ Offers[t] = << None, FALSE >>
    /\ Offers' = [Offers EXCEPT ![t] = << MsgFrom[t], FALSE >>]
    /\ Mails(mb)' = Mails(mb) /\ Refused' = Refused /\ Takes' = Takes

FifoWithdraw(t) ==
    /\ Offers[t] # << None, FALSE >> /\ (t \in Refused \/ Len(Mails(mb)) = MailSize)
    /\ Offers' = [Offers EXCEPT ![t] = << None, FALSE >>]
    /\ Mails(mb)' = Mails(mb) /\ Refused' = Refused \ {t} /\ Takes' = Takes

FifoTake(t) ==
    /\ Mails(mb) # << >> /\ Takes[t] = None /\ Head(Mails(mb)) # None
    /\ Takes' = [Takes EXCEPT ![t] = Head(Mails(mb))]
    /\ Mails(mb)' = Tail(Mails(mb)) /\ Offers' = Offers /\ Refused' = Refused

FifoHandOver(t) ==
    /\ Takes[t] # None /\ Takes' = [Takes EXCEPT ![t] = None]
    /\ Mails(mb)' = Mails(mb) /\ Offers' = Offers /\ Refused' = Refused

FifoTurnDown ==
    /\ Refused \subseteq Refused' /\ Refused' \subseteq {t \in Thread : Offers[t] # << None, FALSE >>}
    /\ Offers' = Offers /\ Takes' = Takes

FifoRefuse == FifoTurnDown /\ Mails(mb)' = Mails(mb)

FifoClear == FifoTurnDown /\ Mails(mb) # << >> /\ Mails(mb)' = << >>

Throws == \E t \in Thread : MailReset(t) \/ MailCreate(t)

FifoStep ==
    \/ \E t \in Thread : FifoPut(t) \/ FifoWithdraw(t) \/ FifoTake(t) \/ FifoHandOver(t)
    \/ \E t \in Producers : FifoSend(t) \/ FifoOffer(t)
    \/ FifoAppend(IsrMsg)
    \/ FifoRefuse
    \/ FifoClear /\ Throws
    \/ UNCHANGED Fifos

LEMMA FifoSteps ==
    ASSUME FifoStep
    PROVE  [MailFifo!Next]_MailFifo!fifoVars
<1>1. ASSUME NEW t \in Thread, FifoPut(t)
      PROVE  MailFifo!Put(t)
  BY <1>1 DEF FifoPut, MailFifo!Put, MailFifo!PutIn, MailFifo!NoOffer, Mails, Offers, Refused, Takes
<1>2. ASSUME NEW t \in Thread, FifoWithdraw(t)
      PROVE  MailFifo!Withdraw(t)
  BY <1>2 DEF FifoWithdraw, MailFifo!Withdraw, MailFifo!NoOffer, Mails, Offers, Refused, Takes
<1>3. ASSUME NEW t \in Thread, FifoTake(t)
      PROVE  MailFifo!Take(t)
  BY <1>3 DEF FifoTake, MailFifo!Take, Mails, Offers, Refused, Takes
<1>4. ASSUME NEW t \in Thread, FifoHandOver(t)
      PROVE  MailFifo!HandOver(t)
  BY <1>4 DEF FifoHandOver, MailFifo!HandOver, Mails, Offers, Refused, Takes
<1>5. ASSUME FifoAppend(IsrMsg)
      PROVE  MailFifo!SendFromIsr(FALSE)
  BY <1>5 DEF FifoAppend, MailFifo!SendFromIsr, MailFifo!PutIn, Mails, Offers, Refused, Takes
<1>6. ASSUME NEW t \in Producers, FifoSend(t)
      PROVE  MailFifo!Send(t)
  BY <1>6 DEF FifoSend, FifoAppend, MailFifo!Send, MailFifo!PutIn, MailFifo!NoOffer,
              Mails, Offers, Refused, Takes
<1>7. ASSUME NEW t \in Producers, FifoOffer(t)
      PROVE  MailFifo!Offer(t, FALSE)
  BY <1>7 DEF FifoOffer, MailFifo!Offer, MailFifo!NoOffer, Mails, Offers, Refused, Takes
<1>8. ASSUME FifoRefuse
      PROVE  MailFifo!Refuse
  BY <1>8 DEF FifoRefuse, FifoTurnDown, MailFifo!Refuse, MailFifo!TurnDown, MailFifo!Offering,
              MailFifo!NoOffer, Mails, Offers, Refused, Takes
<1>9. ASSUME FifoClear
      PROVE  MailFifo!Clear
  BY <1>9 DEF FifoClear, FifoTurnDown, MailFifo!Clear, MailFifo!TurnDown, MailFifo!Offering,
              MailFifo!NoOffer, Mails, Offers, Refused, Takes
<1>10. ASSUME UNCHANGED Fifos
       PROVE  UNCHANGED MailFifo!fifoVars
  BY <1>10 DEF Fifos, MailFifo!fifoVars, Mails, Offers, Refused, Takes
<1> QED
  BY <1>1, <1>2, <1>3, <1>4, <1>5, <1>6, <1>7, <1>8, <1>9, <1>10 DEF FifoStep, MailFifo!Next

(* Only a reset or an initialisation empties the mailbox but for taking.   *)
LEMMA FifoThrows ==
    ASSUME FifoStep, Ring(mb), MailFifo!Clear
    PROVE  Throws
<1>1. Mails(mb) # << >> /\ Mails(mb)' = << >> /\ Offers' = Offers /\ Takes' = Takes
  BY DEF MailFifo!Clear, MailFifo!TurnDown, Mails, Offers, Takes
<1>2. Mails(mb) \in Seq(Msg)
  BY MailsAt
<1>3. ASSUME NEW m PROVE Mails(mb)' # Append(Mails(mb), m)
  BY <1>1, <1>2
<1>4. ASSUME NEW t \in Thread PROVE ~FifoTake(t)
  BY <1>1 DEF FifoTake, Takes
<1> QED
  BY <1>1, <1>3, <1>4
     DEF FifoStep, FifoPut, FifoWithdraw, FifoHandOver, FifoSend, FifoAppend, FifoOffer, FifoRefuse, Fifos

(* Only t moves.                                                           *)
LEMMA OffersOfOne ==
    ASSUME NEW t \in Thread,
           \A x \in Thread : x # t => pc'[x] = pc[x] /\ want'[x] = want[x] /\ mail'[x] = mail[x]
    PROVE  /\ \A o : (IF MailSending(t)' THEN << mail'[t], FALSE >> ELSE << None, FALSE >>) = o
                       => Offers' = [Offers EXCEPT ![t] = o]
           /\ \A o : (IF MailSending(t)' THEN None ELSE mail'[t]) = o
                       => Takes' = [Takes EXCEPT ![t] = o]
           /\ Offers[t] = IF MailSending(t) THEN << mail[t], FALSE >> ELSE << None, FALSE >>
           /\ Takes[t] = IF MailSending(t) THEN None ELSE mail[t]
           /\ Offers' = [Offers EXCEPT ![t] = Offers[t]] => Offers' = Offers
           /\ Takes' = [Takes EXCEPT ![t] = Takes[t]] => Takes' = Takes
<1>1. \A x \in Thread : x # t => (MailSending(x)' <=> MailSending(x))
  BY DEF MailSending
<1> QED
  BY <1>1 DEF Offers, Takes

(* Nobody's offer and nothing taken changes.                               *)
LEMMA OffersStay ==
    ASSUME \A x \in Thread : /\ pc'[x] \in Waiting <=> pc[x] \in Waiting
                             /\ pc[x] \in Waiting => want'[x] = want[x],
           mail' = mail
    PROVE  Offers' = Offers /\ Takes' = Takes
<1>1. \A x \in Thread : MailSending(x)' <=> MailSending(x)
  BY DEF MailSending
<1> QED
  BY <1>1 DEF Offers, Takes

(* A waiting sender that has been turned down is neither on its queue nor  *)
(* granted a place, and stays so.                                          *)
LEMMA RefusedIs ==
    MailBase => Refused = {t \in Thread : MailSending(t) /\ ~Blocked("mbs", t) /\ t \notin Granted("mbs")}
<1> SUFFICES ASSUME MailBase
             PROVE  Refused = {t \in Thread : MailSending(t) /\ ~Blocked("mbs", t) /\ t \notin Granted("mbs")}
  OBVIOUS
<1>1. \A t \in Thread : Blocked("mbs", t) => k.error[t] = "EOK"
  BY TheQueues DEF MailBase
<1> QED
  BY <1>1 DEF Refused, Granted, MailSending

LEMMA RefusedGrows ==
    ASSUME MailBase, MailBase',
           \A x \in Thread : /\ pc'[x] \in Waiting <=> pc[x] \in Waiting
                             /\ pc[x] \in Waiting => want'[x] = want[x],
           mail' = mail,
           \A x \in Thread : pc[x] \in Waiting /\ (Blocked("mbs", x)' \/ x \in Granted("mbs")')
                                => Blocked("mbs", x) \/ x \in Granted("mbs")
    PROVE  FifoTurnDown
<1>1. \A x \in Thread : MailSending(x)' <=> MailSending(x)
  BY DEF MailSending
<1>2. /\ Refused = {t \in Thread : MailSending(t) /\ ~Blocked("mbs", t) /\ t \notin Granted("mbs")}
      /\ Refused' = {t \in Thread : MailSending(t)' /\ ~Blocked("mbs", t)' /\ t \notin Granted("mbs")'}
  <2>1. (MailBase => Refused = {t \in Thread : MailSending(t) /\ ~Blocked("mbs", t) /\ t \notin Granted("mbs")})'
    BY RefusedIs, PTL
  <2> QED
    BY RefusedIs, <2>1
<1>3. Offers' = Offers /\ Takes' = Takes
  BY OffersStay
<1>4. Refused \subseteq Refused'
  BY <1>1, <1>2 DEF MailSending
<1>5. \A t \in Thread : MailSending(t) => Offers[t] = << mail[t], FALSE >> /\ mail[t] \in Msg
  BY TheQueues DEF Offers, MailSending, MailBase
<1>6. ASSUME NEW t \in Thread, MailSending(t)
      PROVE  Offers[t] # << None, FALSE >>
  <2>1. mail[t] # None /\ Offers[t] = << mail[t], FALSE >>
    BY <1>5, <1>6, IpcAssumption
  <2>2. Offers[t][1] = mail[t]
    BY <2>1
  <2> QED
    BY <2>1, <2>2
<1>7. Refused' \subseteq {t \in Thread : Offers[t] # << None, FALSE >>}
  BY <1>1, <1>2, <1>6
<1> QED
  BY <1>3, <1>4, <1>7 DEF FifoTurnDown

(* Nobody but t looks at a new error or begins or ends a send.             *)
LEMMA RefusedOfOne ==
    ASSUME NEW t \in Thread,
           \A x \in Thread : x # t => pc'[x] = pc[x] /\ want'[x] = want[x],
           \A x \in Thread : x # t => k'.error[x] = k.error[x]
    PROVE  /\ Refused' \ {t} = Refused \ {t}
           /\ t \in Refused <=> MailSending(t) /\ k.error[t] # "EOK"
           /\ t \in Refused' <=> MailSending(t)' /\ k'.error[t] # "EOK"
<1>1. \A x \in Thread : x # t => (MailSending(x)' <=> MailSending(x))
  BY DEF MailSending
<1>2. \A x \in Thread : x # t => (x \in Refused' <=> x \in Refused)
  BY <1>1 DEF Refused
<1>3. Refused \subseteq Thread /\ Refused' \subseteq Thread
  BY DEF Refused
<1> QED
  BY <1>2, <1>3 DEF Refused

LEMMA SendIsFifo ==
    ASSUME MailBase, NEW t \in Producers, Sends(t, MsgFrom[t]), pc[t] = "run", mail[t] = None
    PROVE  FifoSend(t) \/ FifoOffer(t)
<1>1. /\ pc \in [Thread -> Outside \cup Waiting \cup Flushes \cup Carrying]
      /\ want \in [Thread -> Queue \cup {None}] /\ mail \in [Thread -> Msg \cup {None}]
      /\ Ring(mb) /\ None \notin Msg /\ t \in Thread /\ MsgFrom[t] \in Msg
  BY IpcAssumption DEF MailBase, IpcInv, CallsType
<1>2. "run" \notin Waiting /\ "sched" \notin Waiting /\ "block" \in Waiting /\ "woken" \in Waiting
  BY DEF Waiting
<1>3. Len(Mails(mb)) = mb.entry
  BY <1>1, MailsAt
<1>4. ~MailSending(t)
  BY <1>2 DEF MailSending
<1>5. CASE /\ mb.entry < MailSize /\ mb' = Insert(mb, MsgFrom[t])
           /\ Gives(t, "mb") /\ mail' = [mail EXCEPT ![t] = None]
  <2>1. pc' = [pc EXCEPT ![t] = AfterResume("mb")] /\ want' = [want EXCEPT ![t] = None]
        /\ k'.error = k.error
    BY <1>5 DEF Gives
  <2>2. /\ \A x \in Thread : x # t => pc'[x] = pc[x] /\ want'[x] = want[x] /\ mail'[x] = mail[x]
        /\ mail'[t] = None /\ pc'[t] \notin Waiting
    BY <1>1, <1>2, <1>5, <2>1 DEF AfterResume
  <2>3. ~MailSending(t)'
    BY <2>2 DEF MailSending
  <2>4. Offers[t] = << None, FALSE >> /\ Offers' = Offers /\ Takes' = Takes
    <3>1. Offers[t] = << None, FALSE >> /\ Takes[t] = None
      BY <1>1, <1>4, <2>2, OffersOfOne
    <3>2. Offers' = [Offers EXCEPT ![t] = << None, FALSE >>] /\ Takes' = [Takes EXCEPT ![t] = None]
      BY <1>1, <2>2, <2>3, OffersOfOne
    <3> QED
      BY <1>1, <2>2, <3>1, <3>2, OffersOfOne
  <2>5. Mails(mb)' = Append(Mails(mb), MsgFrom[t])
    BY <1>1, <1>5, InsertRing
  <2>6. Refused' = Refused
    <3>1. /\ \A x \in Thread : x # t => pc'[x] = pc[x] /\ want'[x] = want[x]
          /\ \A x \in Thread : x # t => k'.error[x] = k.error[x]
      BY <2>1, <2>2
    <3>2. Refused' \ {t} = Refused \ {t}
      BY <1>1, <3>1, RefusedOfOne
    <3>3. t \notin Refused /\ t \notin Refused'
      BY <1>4, <2>3 DEF Refused
    <3> QED
      BY <3>2, <3>3
  <2> QED
    BY <1>3, <1>5, <2>4, <2>5, <2>6 DEF FifoSend, FifoAppend
<1>6. CASE /\ mb.entry = MailSize /\ mb' = mb
           /\ Waits(t, "mbs") /\ mail' = [mail EXCEPT ![t] = MsgFrom[t]]
  <2>1. pc' = [pc EXCEPT ![t] = "block"] /\ want' = [want EXCEPT ![t] = "mbs"] /\ Joins(t, "mbs")
    BY <1>6 DEF Waits
  <2>2. /\ \A x \in Thread : x # t => pc'[x] = pc[x] /\ want'[x] = want[x] /\ mail'[x] = mail[x]
        /\ mail'[t] = MsgFrom[t] /\ pc'[t] \in Waiting /\ want'[t] = "mbs"
    BY <1>1, <1>2, <1>6, <2>1
  <2>3. MailSending(t)'
    BY <2>2 DEF MailSending
  <2>4. Offers' = [Offers EXCEPT ![t] = << MsgFrom[t], FALSE >>] /\ Takes' = Takes
        /\ Offers[t] = << None, FALSE >>
    BY <1>1, <1>4, <2>2, <2>3, OffersOfOne
  <2>5. Refused' = Refused
    <3>1. k'.error[t] = "EOK" /\ \A x \in Thread : x # t => k'.error[x] = k.error[x]
      BY <2>1 DEF Joins
    <3>2. \A x \in Thread : x # t => pc'[x] = pc[x] /\ want'[x] = want[x]
      BY <2>2
    <3>3. Refused' \ {t} = Refused \ {t}
      BY <1>1, <3>1, <3>2, RefusedOfOne
    <3>4. t \notin Refused /\ t \notin Refused'
      BY <1>4, <3>1 DEF Refused
    <3> QED
      BY <3>3, <3>4
  <2> QED
    BY <1>6, <2>4, <2>5 DEF FifoOffer
<1> QED
  BY <1>5, <1>6 DEF Sends

LEMMA OutcomeIsFifo ==
    ASSUME MailBase, NEW t \in Thread, MailOutcome(t)
    PROVE  FifoStep
<1>1. /\ pc \in [Thread -> Outside \cup Waiting \cup Flushes \cup Carrying]
      /\ want \in [Thread -> Queue \cup {None}] /\ mail \in [Thread -> Msg \cup {None}]
      /\ Ring(mb) /\ None \notin Msg
  BY IpcAssumption DEF MailBase, IpcInv, CallsType
<1>2. "run" \notin Waiting /\ "sched" \notin Waiting /\ "block" \in Waiting /\ "woken" \in Waiting
  BY DEF Waiting
<1>3. Len(Mails(mb)) = mb.entry
  BY <1>1, MailsAt
<1>4. ASSUME t \in Producers, Sends(t, MsgFrom[t]), pc[t] = "run" /\ mail[t] = None
      PROVE  FifoStep
  BY <1>4, SendIsFifo DEF FifoStep
<1>5. ASSUME NEW m \in Msg, Sends(t, m), pc[t] = "woken" /\ want[t] = "mbs" /\ mail[t] = m,
             t \in Granted("mbs")
      PROVE  FifoStep
  <2>1. MailSending(t) /\ k.error[t] = "EOK"
    BY <1>2, <1>5 DEF MailSending, Granted
  <2>2. CASE /\ mb.entry < MailSize /\ mb' = Insert(mb, m)
             /\ Gives(t, "mb") /\ mail' = [mail EXCEPT ![t] = None]
    <3>1. pc' = [pc EXCEPT ![t] = AfterResume("mb")] /\ want' = [want EXCEPT ![t] = None]
          /\ k'.error = k.error
      BY <2>2 DEF Gives
    <3>2. /\ \A x \in Thread : x # t => pc'[x] = pc[x] /\ want'[x] = want[x] /\ mail'[x] = mail[x]
          /\ mail'[t] = None /\ pc'[t] \notin Waiting
      BY <1>1, <1>2, <2>2, <3>1 DEF AfterResume
    <3>3. ~MailSending(t)'
      BY <3>2 DEF MailSending
    <3>4. /\ Offers' = [Offers EXCEPT ![t] = << None, FALSE >>] /\ Takes' = Takes
          /\ Offers[t] = << m, FALSE >>
      BY <1>5, <2>1, <3>2, <3>3, OffersOfOne
    <3>5. Mails(mb)' = Append(Mails(mb), m)
      BY <1>1, <2>2, InsertRing
    <3>6. Offers[t] # << None, FALSE >> /\ Offers[t][2] = FALSE /\ Offers[t][1] = m
      BY <1>1, <3>4
    <3>7. t \notin Refused /\ Refused' = Refused
      BY <2>1, <3>1, <3>2, <3>3, RefusedOfOne
    <3> QED
      BY <1>3, <2>2, <3>4, <3>5, <3>6, <3>7 DEF FifoStep, FifoPut
  <2>3. CASE /\ mb.entry = MailSize /\ mb' = mb
             /\ Waits(t, "mbs") /\ mail' = [mail EXCEPT ![t] = m]
    <3>1. pc' = [pc EXCEPT ![t] = "block"] /\ want' = [want EXCEPT ![t] = "mbs"] /\ Joins(t, "mbs")
      BY <2>3 DEF Waits
    <3>2. mail' = mail /\ \A x \in Thread : want'[x] = want[x]
      BY <1>1, <1>5, <2>3, <3>1
    <3>3. \A x \in Thread : pc'[x] \in Waiting <=> pc[x] \in Waiting
      BY <1>1, <1>2, <1>5, <3>1
    <3>4. Offers' = Offers /\ Takes' = Takes
      BY <3>2, <3>3, OffersStay
    <3>5. \A x \in Thread : MailSending(x) => (k'.error[x] = k.error[x] \/ x = t)
      BY <3>1 DEF Joins
    <3>6. k'.error[t] = "EOK"
      BY <3>1 DEF Joins
    <3>7. \A x \in Thread : MailSending(x)' <=> MailSending(x)
      BY <3>2, <3>3 DEF MailSending
    <3>8. Refused' = Refused
      BY <2>1, <3>5, <3>6, <3>7 DEF Refused
    <3> QED
      BY <2>3, <3>4, <3>8 DEF FifoStep, Fifos
  <2> QED
    BY <1>5, <2>2, <2>3 DEF Sends
<1>6. ASSUME Receives(t), mail[t] = None,
             pc[t] = "run" \/ (pc[t] = "woken" /\ want[t] = "mb")
      PROVE  FifoStep
  <2>1. ~MailSending(t)
    BY <1>2, <1>6 DEF MailSending
  <2>2. CASE /\ mb.entry > 0 /\ mb' = Extract(mb)
             /\ Gives(t, "mbs") /\ mail' = [mail EXCEPT ![t] = mb.pool[mb.out]]
    <3>1. pc' = [pc EXCEPT ![t] = AfterResume("mbs")] /\ want' = [want EXCEPT ![t] = None]
          /\ k'.error = k.error
      BY <2>2 DEF Gives
    <3>2. /\ \A x \in Thread : x # t => pc'[x] = pc[x] /\ want'[x] = want[x] /\ mail'[x] = mail[x]
          /\ mail'[t] = mb.pool[mb.out] /\ pc'[t] \notin Waiting
      BY <1>1, <1>2, <2>2, <3>1 DEF AfterResume
    <3>3. ~MailSending(t)'
      BY <3>2 DEF MailSending
    <3>4. /\ Offers' = Offers /\ Takes' = [Takes EXCEPT ![t] = mb.pool[mb.out]] /\ Takes[t] = None
      BY <1>6, <2>1, <3>2, <3>3, OffersOfOne
    <3>5. /\ Mails(mb)' = Tail(Mails(mb)) /\ mb.pool[mb.out] = Head(Mails(mb))
          /\ Mails(mb) # << >>
      BY <1>1, <2>2, ExtractRing
    <3>6. Head(Mails(mb)) # None
      <4>1. Mails(mb) \in Seq(Msg)
        BY <1>1, MailsAt
      <4> QED
        BY <1>1, <3>5, <4>1
    <3>7. Refused' = Refused
      BY <2>1, <3>1, <3>2, <3>3, RefusedOfOne
    <3> QED
      BY <3>4, <3>5, <3>6, <3>7 DEF FifoStep, FifoTake
  <2>3. CASE /\ mb.entry = 0 /\ mb' = mb
             /\ Waits(t, "mb") /\ mail' = mail
    <3>1. pc' = [pc EXCEPT ![t] = "block"] /\ want' = [want EXCEPT ![t] = "mb"] /\ Joins(t, "mb")
      BY <2>3 DEF Waits
    <3>2. /\ \A x \in Thread : x # t => pc'[x] = pc[x] /\ want'[x] = want[x] /\ mail'[x] = mail[x]
          /\ mail'[t] = mail[t] /\ want'[t] = "mb"
      BY <1>1, <2>3, <3>1
    <3>3. ~MailSending(t)'
      BY <3>2 DEF MailSending
    <3>4. Offers' = Offers /\ Takes' = Takes
      <4>1. Offers[t] = << None, FALSE >> /\ Takes[t] = None
        BY <1>6, <2>1, <3>2, OffersOfOne
      <4>2. Offers' = [Offers EXCEPT ![t] = << None, FALSE >>] /\ Takes' = [Takes EXCEPT ![t] = None]
        BY <1>6, <3>2, <3>3, OffersOfOne
      <4> QED
        BY <3>2, <4>1, <4>2, OffersOfOne
    <3>5. \A x \in Thread : x # t => k'.error[x] = k.error[x]
      BY <3>1 DEF Joins
    <3>6. Refused' = Refused
      BY <2>1, <3>2, <3>3, <3>5, RefusedOfOne
    <3> QED
      BY <2>3, <3>4, <3>6 DEF FifoStep, Fifos
  <2> QED
    BY <1>6, <2>2, <2>3 DEF Receives
<1>7. ASSUME Leaves(t), mb' = mb, mail' = [mail EXCEPT ![t] = None], At(t, "woken"),
             t \in Granted("mbs") => mb.entry = MailSize
      PROVE  FifoStep
  <2>1. pc' = [pc EXCEPT ![t] = "run"] /\ want' = [want EXCEPT ![t] = None] /\ Wakes({t}, {})
    BY <1>7 DEF Leaves
  <2>2. /\ \A x \in Thread : x # t => pc'[x] = pc[x] /\ want'[x] = want[x] /\ mail'[x] = mail[x]
        /\ mail'[t] = None /\ pc'[t] \notin Waiting
    BY <1>1, <1>2, <1>7, <2>1
  <2>3. \A x \in Thread : x # t => k'.error[x] = k.error[x]
    BY <2>1 DEF Wakes
  <2>4. ~MailSending(t)'
    BY <2>2 DEF MailSending
  <2>5. pc[t] \in Waiting /\ (want[t] = "mbs" /\ k.error[t] = "EOK" => t \in Granted("mbs"))
    BY <1>7, TheQueues, MailWoken
  <2>6. CASE MailSending(t)
    <3>1. mail[t] \in Msg
      BY <2>5, <2>6 DEF MailBase, MailSending
    <3>2. /\ Offers' = [Offers EXCEPT ![t] = << None, FALSE >>] /\ Takes' = Takes
          /\ Offers[t] = << mail[t], FALSE >>
      BY <2>2, <2>4, <2>6, OffersOfOne
    <3>3. Offers[t] # << None, FALSE >>
      BY <1>1, <3>1, <3>2
    <3>4. Refused' = Refused \ {t}
      BY <2>2, <2>3, <2>4, RefusedOfOne
    <3>5. t \in Refused \/ Len(Mails(mb)) = MailSize
      BY <1>3, <1>7, <2>5, <2>6 DEF Refused, MailSending
    <3> QED
      BY <1>7, <3>2, <3>3, <3>4, <3>5 DEF FifoStep, FifoWithdraw
  <2>7. CASE ~MailSending(t)
    <3>1. mail[t] = None
      BY <2>5, <2>7 DEF MailBase, MailSending
    <3>2. Offers[t] = << None, FALSE >> /\ Takes[t] = None
      BY <2>2, <2>7, <3>1, OffersOfOne
    <3>3. Offers' = [Offers EXCEPT ![t] = << None, FALSE >>] /\ Takes' = [Takes EXCEPT ![t] = None]
      BY <2>2, <2>4, OffersOfOne
    <3>4. Offers' = Offers /\ Takes' = Takes
      BY <2>2, <3>2, <3>3, OffersOfOne
    <3>5. Refused' = Refused
      BY <2>2, <2>3, <2>4, <2>7, RefusedOfOne
    <3> QED
      BY <1>7, <3>4, <3>5 DEF FifoStep, Fifos
  <2> QED
    BY <2>6, <2>7
<1>8. ASSUME pc[t] = "run", UNCHANGED << k, pc, want, mb >>, mail[t] # None,
             mail' = [mail EXCEPT ![t] = None]
      PROVE  FifoStep
  <2>1. /\ \A x \in Thread : x # t => pc'[x] = pc[x] /\ want'[x] = want[x] /\ mail'[x] = mail[x]
        /\ mail'[t] = None
    BY <1>1, <1>8
  <2>2. ~MailSending(t)' /\ ~MailSending(t)
    BY <1>2, <1>8 DEF MailSending
  <2>3. Offers' = Offers /\ Takes' = [Takes EXCEPT ![t] = None] /\ Takes[t] # None
    BY <1>8, <2>1, <2>2, OffersOfOne
  <2>4. Refused' = Refused
    BY <1>8 DEF Refused, MailSending
  <2> QED
    BY <1>8, <2>3, <2>4 DEF FifoStep, FifoHandOver
<1> QED
  BY <1>4, <1>5, <1>6, <1>7, <1>8 DEF MailOutcome

LEMMA MailStepIsFifo ==
    ASSUME MailBase, [MailNext]_<<ipcVars, mailVars>>
    PROVE  FifoStep
<1>1. "run" \notin Waiting /\ "sched" \notin Waiting
  BY DEF Waiting
<1>2. /\ pc \in [Thread -> Outside \cup Waiting \cup Flushes \cup Carrying] /\ IpcInv /\ Ring(mb)
      /\ MailBase'
  BY MailBaseStep DEF MailBase, IpcInv, CallsType
<1>3. CASE UNCHANGED << ipcVars, mailVars >>
  <2>1. UNCHANGED << k, pc, want, mb, mail >>
    BY <1>3 DEF ipcVars, mailVars
  <2>2. Refused' = Refused
    BY <2>1 DEF Refused, MailSending
  <2> QED
    BY <2>1, <2>2, OffersStay DEF FifoStep, Fifos
<1>4. CASE (ThreadStep \/ Sleep) /\ UNCHANGED mailVars
  <2>1. Background
    BY <1>2, <1>4, BackgroundStep
  <2>2. \A x \in Thread : pc'[x] \in Waiting <=> pc[x] \in Waiting
    BY <2>1 DEF Background, Waiting, Outside
  <2>3. want' = want /\ mb' = mb /\ mail' = mail
    BY <1>4, <2>1 DEF Background, mailVars
  <2>4. /\ \A x \in Thread : Blocked("mbs", x)' => Blocked("mbs", x)
        /\ Granted("mbs")' = Granted("mbs")
    BY <2>1, TheQueues DEF Background, Blocked
  <2>5. FifoTurnDown
    BY <1>2, <2>2, <2>3, <2>4, RefusedGrows
  <2> QED
    BY <2>3, <2>5 DEF FifoStep, FifoRefuse
<1>5. CASE MailSendFromIsr
  <2>1. /\ UNCHANGED << pc, want, mail >> /\ mb.entry < MailSize /\ mb' = Insert(mb, IsrMsg)
    BY <1>5 DEF MailSendFromIsr, waitVars
  <2>2. Offers' = Offers /\ Takes' = Takes
    BY <2>1, OffersStay
  <2>3. Mails(mb)' = Append(Mails(mb), IsrMsg) /\ Len(Mails(mb)) = mb.entry /\ IsrMsg \in Msg
    BY <1>2, <2>1, InsertRing, MailsAt, IpcAssumption
  <2>4. k'.error = k.error
    BY <1>5, MailIsrStep
  <2>5. Refused' = Refused
    BY <2>1, <2>4 DEF Refused, MailSending
  <2> QED
    BY <2>1, <2>2, <2>3, <2>5 DEF FifoStep, FifoAppend
<1>6. ASSUME NEW t \in Thread, MailReset(t)
      PROVE  FifoStep
  <2>1. pc[t] = "run" /\ pc' = [pc EXCEPT ![t] = "sched"] /\ want' = want /\ mail' = mail
    BY <1>6 DEF MailReset, Calls, At, Goto, waitVars
  <2>2. \A x \in Thread : pc'[x] \in Waiting <=> pc[x] \in Waiting
    BY <1>1, <1>2, <2>1
  <2>3. Mails(mb)' = << >>
    BY <1>6, MailResetStep
  <2>4. PICK W : Wakes({t}, W)
    BY <1>6, MailResetStep
  <2>5. FifoTurnDown
    BY <1>2, <2>1, <2>2, <2>4, TheQueues, RefusedGrows DEF Wakes, Blocked
  <2>6. CASE Mails(mb) = << >>
    BY <2>3, <2>5, <2>6 DEF FifoStep, FifoRefuse
  <2> QED
    BY <1>6, <2>3, <2>5, <2>6 DEF FifoStep, FifoClear, Throws
<1>7. ASSUME NEW t \in Thread, MailCreate(t)
      PROVE  FifoStep
  <2>1. Mails(mb)' = << >> /\ UNCHANGED << k, pc, want, mail >>
    BY <1>7, MailCreateStep
  <2>2. FifoTurnDown
    <3>1. Blocked("mbs", t)' <=> Blocked("mbs", t)
      BY <2>1 DEF Blocked
    <3>2. \A x \in Thread : Blocked("mbs", x)' => Blocked("mbs", x)
      BY <2>1 DEF Blocked
    <3>3. Granted("mbs")' = Granted("mbs")
      BY <2>1 DEF Granted, Blocked
    <3> QED
      BY <1>2, <2>1, <3>2, <3>3, RefusedGrows
  <2>3. CASE Mails(mb) = << >>
    BY <2>1, <2>2, <2>3 DEF FifoStep, FifoRefuse
  <2> QED
    BY <1>7, <2>1, <2>2, <2>3 DEF FifoStep, FifoClear, Throws
<1>8. ASSUME NEW t \in Thread, MailDetach(t)
      PROVE  FifoStep
  <2>1. MailFlushes(t)
    BY <1>8, MailDetachStep
  <2>2. \A x \in Thread : pc'[x] \in Waiting <=> pc[x] \in Waiting
    BY <1>2, <2>1 DEF MailFlushes
  <2>3. want' = want /\ mb' = mb /\ mail' = mail
    BY <2>1 DEF MailFlushes
  <2>4. PICK W : Wakes({t}, W)
    BY <2>1 DEF MailFlushes
  <2>5. FifoTurnDown
    BY <1>2, <2>2, <2>3, <2>4, TheQueues, RefusedGrows DEF Wakes, Blocked
  <2> QED
    BY <2>3, <2>5 DEF FifoStep, FifoRefuse
<1> QED
  BY <1>3, <1>4, <1>5, <1>6, <1>7, <1>8, MailCases, MailUserStep, OutcomeIsFifo

LEMMA MailStepKeeps ==
    ASSUME MailBase, [MailNext]_<<ipcVars, mailVars>>
    PROVE  MailKept
<1>1. FifoStep /\ Ring(mb)
  BY MailStepIsFifo DEF MailBase
<1>2. ASSUME NEW t \in Thread, NEW w \in WaitTime, MailSend(t, w)
      PROVE  MailFifo!Send(t) \/ MailFifo!Offer(t, FALSE)
  <2>1. /\ t \in Client /\ t \in Producers /\ Running(t) /\ pc[t] = "run" /\ mail[t] = None
        /\ wild' = wild /\ alive' = alive /\ MailSendLoop(t, MsgFrom[t], w) /\ MsgFrom[t] \in Msg
    BY <1>2, IpcAssumption DEF MailSend, Calls, At, Client
  <2>2. w \in {Forever} \cup 0..MaxWait /\ pc[t] \in {"run", "woken"}
    BY <2>1, IpcAssumption DEF WaitTime
  <2>3. Sends(t, MsgFrom[t])
    BY <2>1, <2>2, SendLoopStep
  <2>4. FifoSend(t) \/ FifoOffer(t)
    BY <2>1, <2>3, SendIsFifo
  <2> QED
    BY <2>4 DEF FifoSend, FifoAppend, FifoOffer, MailFifo!Send, MailFifo!Offer, MailFifo!PutIn,
                MailFifo!NoOffer, Mails, Offers, Refused, Takes
<1>3. ASSUME MailSendFromIsr
      PROVE  MailFifo!SendFromIsr(FALSE)
  <2>1. /\ UNCHANGED << pc, want, mail >> /\ mb.entry < MailSize /\ mb' = Insert(mb, IsrMsg)
        /\ k'.error = k.error
    BY <1>3, MailIsrStep DEF MailSendFromIsr, waitVars
  <2>2. Offers' = Offers /\ Takes' = Takes
    BY <2>1, OffersStay
  <2>3. Mails(mb)' = Append(Mails(mb), IsrMsg) /\ Len(Mails(mb)) < MailSize
    BY <1>1, <2>1, InsertRing, MailsAt, IpcAssumption
  <2>4. Refused' = Refused
    BY <2>1 DEF Refused, MailSending
  <2> QED
    BY <2>2, <2>3, <2>4 DEF MailFifo!SendFromIsr, MailFifo!PutIn, Mails, Offers, Refused, Takes
<1>4. MailFifo!Clear => \E t \in Thread : MailReset(t) \/ MailCreate(t)
  BY <1>1, FifoThrows DEF Throws
<1> QED
  BY <1>2, <1>3, <1>4 DEF MailKept

(* The mailbox is a bounded first-in first-out queue: whatever the waits,  *)
(* the time-outs, the second tests of woken callers, the interrupts and    *)
(* the resets do, every mail is put in once and at the tail or its send    *)
(* returns an error, and it is received once and in order unless a reset   *)
(* throws it away.                                                         *)
THEOREM MailRefinesFifo ==
    MailSpec => MailImplementsFifo
<1>1. IpcInit /\ MailInit => MailFifo!Init
  <2> SUFFICES ASSUME IpcInit, MailInit PROVE MailFifo!Init
    OBVIOUS
  <2>1. Mails(mb) = << >> /\ mail = [t \in Thread |-> None]
    BY EmptyRing DEF MailInit
  <2>2. \A t \in Thread : ~MailSending(t)
    BY DEF IpcInit, MailSending, Waiting
  <2> QED
    BY <2>1, <2>2 DEF MailFifo!Init, MailFifo!NoOffer, Mails
<1>2. MailBase /\ [MailNext]_<<ipcVars, mailVars>> => [MailFifo!Next]_MailFifo!fifoVars
  BY MailStepIsFifo, FifoSteps
<1>3. MailBase /\ [MailNext]_<<ipcVars, mailVars>> => MailKept
  BY MailStepKeeps
<1>4. MailSpec => MailFifo!Spec
  BY <1>1, <1>2, MailInvariant, PTL DEF MailSpec, MailFifo!Spec
<1>5. MailSpec => [][MailKept]_<<ipcVars, mailVars>>
  BY <1>3, MailInvariant, PTL DEF MailSpec
<1> QED
  BY <1>4, <1>5 DEF MailImplementsFifo

-----------------------------------------------------------------------------
(* Nobody is left waiting, when the mailbox is detached carefully.         *)

(* While somebody waits on a queue, as many woken threads are on their way *)
(* as there are mails, or free places.                                     *)
Balanced ==
    /\ \A u \in Thread : Blocked("mb", u) => mb.entry <= Cardinality(Granted("mb"))
    /\ \A u \in Thread : Blocked("mbs", u) => MailSize - mb.entry <= Cardinality(Granted("mbs"))

(* While the mailbox is detached nobody is on the way to it, the receivers *)
(* go before the senders, and when it is gone nobody waits on it.          *)
Deserted ==
    /\ Flushing \/ ~alive => Granted("mb") = {} /\ Granted("mbs") = {}
    /\ \A t \in Thread : pc[t] \in {"flush2", "flush3"} => \A u \in Thread : ~Blocked("mb", u)
    /\ ~alive => \A q \in MailQueues, u \in Thread : ~Blocked(q, u)

MailCareful == FlushInv("mb", "mbs") /\ Deserted /\ Balanced

(* The first waiter of q, if any, is granted what it waits for.            *)
LEMMA GiveCounts ==
    ASSUME MailBase, NEW q \in MailQueues, NEW o \in MailQueues, q # o,
           NEW T, Wakes(T, First(k, q)), k'.error = k.error, \A x \in T : x \notin Granted(q)
    PROVE  /\ \A u \in Thread : Blocked(q, u)' =>
                 /\ Blocked(q, u)
                 /\ Cardinality(Granted(q)') = Cardinality(Granted(q)) + 1
           /\ \A u \in Thread : Blocked(o, u)' => Blocked(o, u)
           /\ Granted(o)' = Granted(o) \ T
<1> USE TheQueues
<1> DEFINE W == First(k, q)
<1>1. IpcInv /\ KernelOK(k)
  BY DEF MailBase, IpcInv
<1>2. W \subseteq Thread /\ \A x \in W : Blocked(q, x)
  BY <1>1, FirstFacts DEF Blocked
<1>3. \A x \in W : k'.error[x] = "EOK" /\ x \notin Granted(q) /\ ~Blocked(o, x)
  BY <1>1, <1>2 DEF MailBase, Granted, IpcInv, ThreadsOK, Blocked
<1>4. Granted(q)' = Granted(q) \cup W
  BY <1>2, <1>3 DEF Wakes, Blocked
<1>5. Granted(o)' = Granted(o) \ T
  BY <1>3 DEF Wakes, Blocked
<1>6. \A u \in Thread : /\ Blocked(q, u)' => Blocked(q, u)
                        /\ Blocked(o, u)' => Blocked(o, u)
  BY DEF Wakes, Blocked
<1>7. ASSUME NEW u \in Thread, Blocked(q, u)
      PROVE  Cardinality(Granted(q)') = Cardinality(Granted(q)) + 1
  <2>1. k.wait[q] # << >>
    BY <1>1, <1>7, NobodyWaits DEF Blocked
  <2>2. PICK h : W = {h}
    BY <2>1 DEF First
  <2> QED
    BY <1>3, <1>4, <2>2, Counted
<1> QED
  BY <1>5, <1>6, <1>7

LEMMA BoxBounds ==
    ASSUME MailBase
    PROVE  mb.entry \in 0..MailSize /\ MailSize \in Nat \ {0}
  BY MailAssumption DEF MailBase, Ring, BoxType

(* Room is taken and a receiver granted, and the other way round.          *)
LEMMA InsertBalance ==
    ASSUME MailBase, Balanced, mb'.entry = mb.entry + 1, NEW T, T = {} \/ \E t : T = {t},
           Wakes(T, First(k, "mb")), k'.error = k.error, \A x \in T : x \notin Granted("mb")
    PROVE  Balanced'
<1> USE TheQueues
<1>1. /\ \A u \in Thread : Blocked("mb", u)' =>
            Blocked("mb", u) /\ Cardinality(Granted("mb")') = Cardinality(Granted("mb")) + 1
      /\ \A u \in Thread : Blocked("mbs", u)' => Blocked("mbs", u)
      /\ Granted("mbs")' = Granted("mbs") \ T
  BY GiveCounts
<1>2. /\ Cardinality(Granted("mbs")') \in Nat
      /\ Cardinality(Granted("mbs")') >= Cardinality(Granted("mbs")) - 1
  <2>1. CASE T = {}
    BY <1>1, <2>1, Counted
  <2>2. CASE \E t : T = {t}
    BY <1>1, <2>2, Counted
  <2> QED
    BY <2>1, <2>2
<1>3. Cardinality(Granted("mb")) \in Nat /\ Cardinality(Granted("mbs")) \in Nat
  BY Counted
<1>4. \A u \in Thread : Blocked("mb", u)' => mb'.entry <= Cardinality(Granted("mb")')
  <2> SUFFICES ASSUME NEW u \in Thread, Blocked("mb", u)'
               PROVE  mb'.entry <= Cardinality(Granted("mb")')
    OBVIOUS
  <2>1. mb.entry <= Cardinality(Granted("mb"))
    BY <1>1 DEF Balanced
  <2>2. Cardinality(Granted("mb")') = Cardinality(Granted("mb")) + 1
    BY <1>1
  <2> QED
    BY <1>3, <2>1, <2>2, BoxBounds
<1>5. \A u \in Thread : Blocked("mbs", u)' => MailSize - mb'.entry <= Cardinality(Granted("mbs")')
  <2> SUFFICES ASSUME NEW u \in Thread, Blocked("mbs", u)'
               PROVE  MailSize - mb'.entry <= Cardinality(Granted("mbs")')
    OBVIOUS
  <2>1. MailSize - mb.entry <= Cardinality(Granted("mbs"))
    BY <1>1 DEF Balanced
  <2> QED
    BY <1>2, <1>3, <2>1, BoxBounds
<1> QED
  BY <1>4, <1>5 DEF Balanced

LEMMA ExtractBalance ==
    ASSUME MailBase, Balanced, mb'.entry = mb.entry - 1, NEW t,
           Wakes({t}, First(k, "mbs")), k'.error = k.error, t \notin Granted("mbs")
    PROVE  Balanced'
<1> USE TheQueues
<1> DEFINE T == {t}
<1>1. /\ \A u \in Thread : Blocked("mbs", u)' =>
            Blocked("mbs", u) /\ Cardinality(Granted("mbs")') = Cardinality(Granted("mbs")) + 1
      /\ \A u \in Thread : Blocked("mb", u)' => Blocked("mb", u)
      /\ Granted("mb")' = Granted("mb") \ {t}
  <2>1. Wakes(T, First(k, "mbs")) /\ \A x \in T : x \notin Granted("mbs")
    OBVIOUS
  <2> HIDE DEF T
  <2>2. /\ \A u \in Thread : Blocked("mbs", u)' =>
              Blocked("mbs", u) /\ Cardinality(Granted("mbs")') = Cardinality(Granted("mbs")) + 1
        /\ \A u \in Thread : Blocked("mb", u)' => Blocked("mb", u)
        /\ Granted("mb")' = Granted("mb") \ T
    BY <2>1, GiveCounts
  <2> QED
    BY <2>2 DEF T
<1>2. /\ Cardinality(Granted("mb")') \in Nat
      /\ Cardinality(Granted("mb")') >= Cardinality(Granted("mb")) - 1
  BY <1>1, Counted
<1>3. Cardinality(Granted("mb")) \in Nat /\ Cardinality(Granted("mbs")) \in Nat
  BY Counted
<1>4. \A u \in Thread : Blocked("mb", u)' => mb'.entry <= Cardinality(Granted("mb")')
  <2> SUFFICES ASSUME NEW u \in Thread, Blocked("mb", u)'
               PROVE  mb'.entry <= Cardinality(Granted("mb")')
    OBVIOUS
  <2>1. mb.entry <= Cardinality(Granted("mb"))
    BY <1>1 DEF Balanced
  <2> QED
    BY <1>2, <1>3, <2>1, BoxBounds
<1>5. \A u \in Thread : Blocked("mbs", u)' => MailSize - mb'.entry <= Cardinality(Granted("mbs")')
  <2> SUFFICES ASSUME NEW u \in Thread, Blocked("mbs", u)'
               PROVE  MailSize - mb'.entry <= Cardinality(Granted("mbs")')
    OBVIOUS
  <2>1. MailSize - mb.entry <= Cardinality(Granted("mbs"))
    BY <1>1 DEF Balanced
  <2>2. Cardinality(Granted("mbs")') = Cardinality(Granted("mbs")) + 1
    BY <1>1
  <2> QED
    BY <1>3, <2>1, <2>2, BoxBounds
<1> QED
  BY <1>4, <1>5 DEF Balanced

(* A step of a call that is not part of a detach, on a mailbox that nobody *)
(* detaches.                                                               *)
LEMMA CarefulCall ==
    ASSUME CarefulFlush, MailCareful, alive, ~Flushing, wild' = wild, alive' = alive,
           \A x \in Thread : pc'[x] = pc[x] \/ pc'[x] \notin Flushes,
           Balanced'
    PROVE  MailCareful'
<1>1. \A x \in Thread : pc'[x] \notin Flushes
  BY DEF Flushing
<1>2. FlushInv("mb", "mbs")'
  BY <1>1, TheQueues, FlushNobody DEF MailCareful
<1>3. Deserted'
  BY <1>1 DEF Deserted, Flushing, Flushes
<1> QED
  BY <1>2, <1>3 DEF MailCareful

LEMMA OutcomeCareful ==
    ASSUME CarefulFlush, MailBase, MailCareful, NEW t \in Thread, MailOutcome(t)
    PROVE  MailCareful'
<1> USE TheQueues
<1>1. /\ pc \in [Thread -> Outside \cup Waiting \cup Flushes \cup Carrying] /\ Ring(mb)
      /\ Balanced /\ wild' = wild /\ alive' = alive
  BY DEF MailBase, IpcInv, CallsType, MailCareful, MailOutcome
<1>2. {"run", "sched", "block"} \cap Flushes = {} /\ "run" \notin Waiting
  BY DEF Flushes, Waiting
<1>3. ASSUME Usable \/ t \in Granted("mb") \/ t \in Granted("mbs")
      PROVE  alive /\ ~Flushing
  BY <1>3 DEF Usable, MailCareful, Deserted
<1>4. ASSUME NEW l \in {"run", "sched", "block"}, pc' = [pc EXCEPT ![t] = l]
      PROVE  \A x \in Thread : pc'[x] = pc[x] \/ pc'[x] \notin Flushes
  BY <1>1, <1>2, <1>4
<1>5. /\ Cardinality(Granted("mb")) \in Nat /\ Cardinality(Granted("mb") \ {t}) \in Nat
      /\ Cardinality(Granted("mbs")) \in Nat /\ Cardinality(Granted("mbs") \ {t}) \in Nat
  BY Counted
<1>6. ASSUME NEW m \in Msg, Sends(t, m), Usable \/ t \in Granted("mbs"), t \notin Granted("mb")
      PROVE  MailCareful'
  <2>1. alive /\ ~Flushing
    BY <1>3, <1>6
  <2>2. CASE mb.entry < MailSize /\ mb' = Insert(mb, m) /\ Gives(t, "mb")
    <3>1. mb'.entry = mb.entry + 1
      BY <1>1, <2>2, InsertRing
    <3>2. /\ Wakes({t}, First(k, "mb")) /\ k'.error = k.error
          /\ pc' = [pc EXCEPT ![t] = AfterResume("mb")]
          /\ AfterResume("mb") \in {"run", "sched", "block"}
      BY <2>2 DEF Gives, AfterResume
    <3> DEFINE T == {t}
    <3>3. Wakes(T, First(k, "mb")) /\ (\A x \in T : x \notin Granted("mb")) /\ \E x : T = {x}
      BY <1>6, <3>2
    <3> HIDE DEF T
    <3>4. Balanced'
      BY <1>1, <3>1, <3>2, <3>3, InsertBalance
    <3> QED
      BY <1>1, <1>4, <2>1, <3>2, <3>4, CarefulCall
  <2>3. CASE mb.entry = MailSize /\ mb' = mb /\ Waits(t, "mbs")
    <3>1. /\ Joins(t, "mbs") /\ pc' = [pc EXCEPT ![t] = "block"]
          /\ "block" \in {"run", "sched", "block"}
      BY <2>3 DEF Waits
    <3>2. Granted("mb")' = Granted("mb") /\ Granted("mbs")' = Granted("mbs") \ {t}
      BY <1>6, <3>1 DEF Joins
    <3>3. \A u \in Thread : Blocked("mb", u)' => Blocked("mb", u)
      BY <3>1 DEF Joins, Blocked
    <3>4. MailSize - mb'.entry <= Cardinality(Granted("mbs")')
      BY <1>5, <2>3, <3>2, BoxBounds
    <3>5. Balanced'
      BY <1>1, <2>3, <3>2, <3>3, <3>4 DEF Balanced
    <3> QED
      BY <1>1, <1>4, <2>1, <3>1, <3>5, CarefulCall
  <2> QED
    BY <1>6, <2>2, <2>3 DEF Sends
<1>7. ASSUME Receives(t), Usable \/ t \in Granted("mb"), t \notin Granted("mbs")
      PROVE  MailCareful'
  <2>1. alive /\ ~Flushing
    BY <1>3, <1>7
  <2>2. CASE mb.entry > 0 /\ mb' = Extract(mb) /\ Gives(t, "mbs")
    <3>1. mb'.entry = mb.entry - 1
      BY <1>1, <2>2, ExtractRing
    <3>2. /\ Wakes({t}, First(k, "mbs")) /\ k'.error = k.error
          /\ pc' = [pc EXCEPT ![t] = AfterResume("mbs")]
          /\ AfterResume("mbs") \in {"run", "sched", "block"}
      BY <2>2 DEF Gives, AfterResume
    <3>3. Balanced'
      BY <1>1, <1>7, <3>1, <3>2, ExtractBalance
    <3> QED
      BY <1>1, <1>4, <2>1, <3>2, <3>3, CarefulCall
  <2>3. CASE mb.entry = 0 /\ mb' = mb /\ Waits(t, "mb")
    <3>1. /\ Joins(t, "mb") /\ pc' = [pc EXCEPT ![t] = "block"]
          /\ "block" \in {"run", "sched", "block"}
      BY <2>3 DEF Waits
    <3>2. Granted("mbs")' = Granted("mbs") /\ Granted("mb")' = Granted("mb") \ {t}
      BY <1>7, <3>1 DEF Joins
    <3>3. \A u \in Thread : Blocked("mbs", u)' => Blocked("mbs", u)
      BY <3>1 DEF Joins, Blocked
    <3>4. mb'.entry <= Cardinality(Granted("mb")')
      BY <1>5, <2>3, <3>2
    <3>5. Balanced'
      BY <1>1, <2>3, <3>2, <3>3, <3>4 DEF Balanced
    <3> QED
      BY <1>1, <1>4, <2>1, <3>1, <3>5, CarefulCall
  <2> QED
    BY <1>7, <2>2, <2>3 DEF Receives
<1>8. ASSUME Leaves(t), mb' = mb, t \in Granted("mb") => mb.entry = 0,
             t \in Granted("mbs") => mb.entry = MailSize
      PROVE  MailCareful'
  <2>1. Wakes({t}, {}) /\ pc' = [pc EXCEPT ![t] = "run"]
    BY <1>8 DEF Leaves
  <2>2. \A x \in Thread : pc'[x] \in Flushes => pc'[x] = pc[x]
    BY <1>1, <1>2, <2>1
  <2>3. FlushInv("mb", "mbs")'
    BY <1>1, <2>1, <2>2, FlushReturn DEF MailCareful
  <2>4. Granted("mb")' = Granted("mb") \ {t} /\ Granted("mbs")' = Granted("mbs") \ {t}
    BY <2>1 DEF Wakes
  <2>5. \A q \in MailQueues, u \in Thread : Blocked(q, u)' => Blocked(q, u)
    BY <2>1 DEF Wakes, Blocked
  <2>6. Deserted'
    <3>1. Flushing' => Flushing
      BY <2>2 DEF Flushing
    <3>2. \A x \in Thread : pc'[x] \in {"flush2", "flush3"} => pc[x] \in {"flush2", "flush3"}
      BY <2>2 DEF Flushes
    <3> QED
      BY <1>1, <2>4, <2>5, <3>1, <3>2 DEF MailCareful, Deserted
  <2>7. \A u \in Thread : Blocked("mb", u)' => mb'.entry <= Cardinality(Granted("mb")')
    <3>1. CASE t \in Granted("mb")
      BY <1>5, <1>8, <2>4, <3>1
    <3>2. CASE t \notin Granted("mb")
      <4>1. Granted("mb")' = Granted("mb")
        BY <2>4, <3>2
      <4> QED
        BY <1>1, <1>8, <2>5, <4>1 DEF Balanced
    <3> QED
      BY <3>1, <3>2
  <2>8. \A u \in Thread : Blocked("mbs", u)' => MailSize - mb'.entry <= Cardinality(Granted("mbs")')
    <3>1. CASE t \in Granted("mbs")
      BY <1>5, <1>8, <2>4, <3>1, BoxBounds
    <3>2. CASE t \notin Granted("mbs")
      <4>1. Granted("mbs")' = Granted("mbs")
        BY <2>4, <3>2
      <4> QED
        BY <1>1, <1>8, <2>5, <4>1 DEF Balanced
    <3> QED
      BY <3>1, <3>2
  <2> QED
    BY <2>3, <2>6, <2>7, <2>8 DEF MailCareful, Balanced
<1>9. ASSUME UNCHANGED << k, pc, want, mb >>
      PROVE  MailCareful'
  <2>1. /\ Granted("mb")' = Granted("mb") /\ Granted("mbs")' = Granted("mbs")
        /\ \A q, u : Blocked(q, u)' <=> Blocked(q, u)
    BY <1>9 DEF Granted, Blocked
  <2>2. FlushInv("mb", "mbs")'
    BY <1>1, <1>9, <2>1 DEF FlushInv, MailCareful
  <2> QED
    BY <1>1, <1>9, <2>1, <2>2 DEF MailCareful, Deserted, Balanced, Flushing
<1>10. /\ pc[t] = "run" => t \notin Granted("mb") /\ t \notin Granted("mbs")
       /\ t \in Granted("mb") => t \notin Granted("mbs")
  BY <1>2 DEF Granted
<1> QED
  BY <1>6, <1>7, <1>8, <1>9, <1>10 DEF MailOutcome

LEMMA DetachCareful ==
    ASSUME CarefulFlush, MailBase, MailCareful, NEW t \in Thread, MailDetach(t)
    PROVE  MailCareful'
<1> USE TheQueues
<1>1. MailFlushes(t) /\ mb' = mb /\ IpcInv
  BY MailDetachStep DEF MailFlushes, MailBase
<1>2. /\ pc \in [Thread -> Outside \cup Waiting \cup Flushes \cup Carrying] /\ KernelOK(k)
      /\ FlushInv("mb", "mbs")
  BY DEF MailBase, IpcInv, CallsType, MailCareful
<1>3. t \in Client
  BY <1>1, IpcAssumption DEF MailDetach, FlushBegin, FlushLook, FlushWake, At, IpcInv, ThreadsOK, Client
<1>4. Granted("mb")' = Granted("mb") /\ Granted("mbs")' = Granted("mbs")
  <2>1. t \notin Granted("mb") /\ t \notin Granted("mbs")
    BY <1>1 DEF MailFlushes, Granted
  <2>2. PICK W : Wakes({t}, W) /\ \A x \in W : k'.error[x] = "ERROR"
    BY <1>1 DEF MailFlushes
  <2>3. \A q \in MailQueues : Granted(q)' =
           (Granted(q) \ {t}) \cup {x \in W : Contains(k.wait[q], x) /\ k'.error[x] = "EOK"}
    BY <2>2 DEF Wakes
  <2>4. \A q \in MailQueues : Granted(q)' = Granted(q) \ {t}
    BY <2>2, <2>3
  <2> QED
    BY <2>1, <2>4
<1>5. \A q \in MailQueues, u \in Thread : Blocked(q, u)' => Blocked(q, u)
  BY <1>1 DEF MailFlushes, Wakes, Blocked
<1>6. Balanced'
  BY <1>1, <1>4, <1>5 DEF MailCareful, Balanced
<1>7. {"mb", "mbs"} = MailQueues
  OBVIOUS
<1>8. CASE FlushBegin(t, MailQueues) /\ Usable /\ NoOtherCall(MailQueues)
  <2>1. FlushInv("mb", "mbs")'
    BY <1>1, <1>2, <1>3, <1>8, FlushBeginKeeps
  <2>2. Granted("mb") = {} /\ Granted("mbs") = {}
    <3>1. \A x \in Thread : pc[x] \in Waiting => \E q \in MailQueues : Blocked(q, x)
      BY <1>8 DEF NoOtherCall, Waiting, Outside
    <3>2. \A q \in MailQueues, x \in Thread : Blocked(q, x) => want[x] = q
      BY <1>1 DEF IpcInv, ThreadsOK, Blocked
    <3> QED
      BY <3>1, <3>2 DEF Granted
  <2>3. pc' = [pc EXCEPT ![t] = "flush"] /\ alive /\ alive' = alive /\ ~Flushing
    BY <1>8 DEF FlushBegin, Goto, Usable
  <2>4. \A x \in Thread : pc'[x] \notin {"flush2", "flush3"}
    BY <1>2, <2>3 DEF Flushing, Flushes
  <2>5. Deserted'
    BY <1>4, <2>2, <2>3, <2>4 DEF Deserted
  <2> QED
    BY <1>6, <2>1, <2>5 DEF MailCareful
<1>9. ASSUME pc[t] \in Flushes
      PROVE  Granted("mb") = {} /\ Granted("mbs") = {} /\ alive /\ \A x \in Thread : pc[x] \in Flushes => x = t
  BY <1>2, <1>9 DEF MailCareful, Deserted, Flushing, FlushInv
<1>10. CASE FlushLook(t, "mb", "flush", "flush1", "flush2")
  <2>1. FlushRound("flush", "flush1", "mb", "mb", "mbs")
    BY DEF FlushRound
  <2>2. FlushInv("mb", "mbs")'
    BY <1>1, <1>2, <1>3, <1>10, <2>1, FlushLookKeeps
  <2>3. /\ pc[t] = "flush" /\ pc' = [pc EXCEPT ![t] = IF k.wait["mb"] = << >> THEN "flush2" ELSE "flush1"]
        /\ alive' = (alive /\ pc'[t] # "run") /\ k' = k
    BY <1>10 DEF FlushLook, At, Goto
  <2>4. pc[t] \in Flushes
    BY <2>3 DEF Flushes
  <2>5. alive'
    BY <1>2, <1>9, <2>3, <2>4
  <2>6. \A x \in Thread : pc'[x] \in {"flush2", "flush3"} => \A u \in Thread : ~Blocked("mb", u)'
    <3>1. ASSUME k.wait["mb"] = << >>
          PROVE  \A u \in Thread : ~Blocked("mb", u)'
      BY <1>2, <2>3, <3>1, NobodyWaits DEF Blocked
    <3>2. ASSUME k.wait["mb"] # << >>
          PROVE  \A x \in Thread : pc'[x] \notin {"flush2", "flush3"}
      BY <1>2, <1>9, <2>3, <2>4, <3>2 DEF Flushes
    <3> QED
      BY <3>1, <3>2
  <2>7. Deserted'
    BY <1>4, <1>9, <2>4, <2>5, <2>6 DEF Deserted
  <2> QED
    BY <1>6, <2>2, <2>7 DEF MailCareful
<1>11. CASE FlushWake(t, "mb", "flush", "flush1")
  <2>1. FlushRound("flush", "flush1", "mb", "mb", "mbs")
    BY DEF FlushRound
  <2>2. FlushInv("mb", "mbs")'
    BY <1>1, <1>2, <1>3, <1>11, <2>1, FlushWakeKeeps
  <2>3. pc[t] = "flush1" /\ pc' = [pc EXCEPT ![t] = "flush"] /\ alive' = alive /\ pc[t] \in Flushes
    BY <1>11 DEF FlushWake, At, Goto, Flushes
  <2>4. \A x \in Thread : pc'[x] \notin {"flush2", "flush3"}
    BY <1>2, <1>9, <2>3 DEF Flushes
  <2>5. Deserted'
    BY <1>4, <1>9, <2>3, <2>4 DEF Deserted
  <2> QED
    BY <1>6, <2>2, <2>5 DEF MailCareful
<1>12. CASE FlushLook(t, "mbs", "flush2", "flush3", "run")
  <2>1. FlushRound("flush2", "flush3", "mbs", "mb", "mbs")
    BY DEF FlushRound
  <2>2. FlushInv("mb", "mbs")'
    BY <1>1, <1>2, <1>3, <1>12, <2>1, FlushLookKeeps
  <2>3. /\ pc[t] = "flush2" /\ pc' = [pc EXCEPT ![t] = IF k.wait["mbs"] = << >> THEN "run" ELSE "flush3"]
        /\ alive' = (alive /\ pc'[t] # "run") /\ k' = k
    BY <1>12 DEF FlushLook, At, Goto
  <2>4. pc[t] \in Flushes /\ \A u \in Thread : ~Blocked("mb", u)
    BY <2>3 DEF Flushes, MailCareful, Deserted
  <2>5. ~alive' => \A u \in Thread : ~Blocked("mbs", u)
    BY <1>2, <1>9, <2>3, <2>4, NobodyWaits DEF Blocked
  <2>6. Deserted'
    BY <1>4, <1>5, <1>9, <2>4, <2>5 DEF Deserted
  <2> QED
    BY <1>6, <2>2, <2>6 DEF MailCareful
<1>13. CASE FlushWake(t, "mbs", "flush2", "flush3")
  <2>1. FlushRound("flush2", "flush3", "mbs", "mb", "mbs")
    BY DEF FlushRound
  <2>2. FlushInv("mb", "mbs")'
    BY <1>1, <1>2, <1>3, <1>13, <2>1, FlushWakeKeeps
  <2>3. pc[t] = "flush3" /\ alive' = alive /\ pc[t] \in Flushes
    BY <1>13 DEF FlushWake, At, Flushes
  <2>4. \A u \in Thread : ~Blocked("mb", u)'
    BY <1>5, <2>3 DEF MailCareful, Deserted
  <2>5. Deserted'
    BY <1>4, <1>9, <2>3, <2>4 DEF Deserted
  <2> QED
    BY <1>6, <2>2, <2>5 DEF MailCareful
<1> QED
  BY <1>8, <1>10, <1>11, <1>12, <1>13 DEF MailDetach

LEMMA MailCarefulStep ==
    ASSUME CarefulFlush, MailBase, MailCareful, [MailNext]_<<ipcVars, mailVars>>
    PROVE  MailCareful'
<1> USE TheQueues
<1>1. /\ pc \in [Thread -> Outside \cup Waiting \cup Flushes \cup Carrying] /\ IpcInv /\ Ring(mb)
      /\ FlushInv("mb", "mbs") /\ Deserted /\ Balanced
  BY DEF MailBase, IpcInv, CallsType, MailCareful
<1>2. CASE UNCHANGED << ipcVars, mailVars >>
  <2>1. UNCHANGED << k, pc, wild, alive, want, mb >>
    BY <1>2 DEF ipcVars, mailVars
  <2>2. /\ Granted("mb")' = Granted("mb") /\ Granted("mbs")' = Granted("mbs")
        /\ \A q, u : Blocked(q, u)' <=> Blocked(q, u)
    BY <2>1 DEF Granted, Blocked
  <2>3. FlushInv("mb", "mbs")'
    BY <1>1, <2>1, <2>2 DEF FlushInv
  <2> QED
    BY <1>1, <2>1, <2>2, <2>3 DEF MailCareful, Deserted, Balanced, Flushing
<1>3. CASE (ThreadStep \/ Sleep) /\ UNCHANGED mailVars
  <2>1. Background /\ mb' = mb
    BY <1>1, <1>3, BackgroundStep DEF mailVars
  <2>2. FlushInv("mb", "mbs")'
    BY <1>1, <2>1, FlushBackground
  <2>3. /\ Granted("mb")' = Granted("mb") /\ Granted("mbs")' = Granted("mbs") /\ alive' = alive
        /\ \A q \in MailQueues, u \in Thread : Blocked(q, u)' => Blocked(q, u)
    BY <2>1 DEF Background, Blocked
  <2>4. \A x \in Thread : pc'[x] \in Flushes => pc'[x] = pc[x]
    BY <2>1 DEF Background, Flushes, Outside
  <2>5. Flushing' => Flushing
    BY <2>4 DEF Flushing
  <2>6. \A x \in Thread : pc'[x] \in {"flush2", "flush3"} => pc[x] \in {"flush2", "flush3"}
    BY <2>4 DEF Flushes
  <2>7. Deserted'
    BY <1>1, <2>3, <2>5, <2>6 DEF Deserted
  <2>8. Balanced'
    BY <1>1, <2>1, <2>3 DEF Balanced
  <2> QED
    BY <2>2, <2>7, <2>8 DEF MailCareful
<1>4. CASE MailSendFromIsr
  <2>1. /\ Usable /\ UNCHANGED << pc, wild, alive >> /\ mb.entry < MailSize
        /\ mb' = Insert(mb, IsrMsg) /\ IsrMsg \in Msg
    BY <1>4, IpcAssumption DEF MailSendFromIsr
  <2>2. mb'.entry = mb.entry + 1
    BY <1>1, <2>1, InsertRing
  <2> DEFINE T == {}
  <2>3. Wakes(T, First(k, "mb")) /\ k'.error = k.error /\ \A x \in T : x \notin Granted("mb")
    BY <1>4, MailIsrStep
  <2>4. T = {}
    OBVIOUS
  <2> HIDE DEF T
  <2>5. Balanced'
    BY <1>1, <2>2, <2>3, <2>4, InsertBalance
  <2> QED
    BY <2>1, <2>5, CarefulCall DEF Usable
<1>5. ASSUME NEW t \in Thread, MailReset(t)
      PROVE  MailCareful'
  <2>1. Usable /\ pc' = [pc EXCEPT ![t] = "sched"] /\ "sched" \notin Flushes
        /\ UNCHANGED << wild, alive >>
    BY <1>5 DEF MailReset, Calls, Goto, Flushes
  <2>2. \A x \in Thread : pc'[x] = pc[x] \/ pc'[x] \notin Flushes
    BY <1>1, <2>1
  <2>3. Balanced'
    BY <1>5, MailResetStep DEF Balanced
  <2> QED
    BY <2>1, <2>2, <2>3, CarefulCall DEF Usable
<1>6. ASSUME NEW t \in Thread, MailCreate(t)
      PROVE  MailCareful'
  <2>1. ~alive /\ alive' = TRUE /\ UNCHANGED << k, pc, wild >>
    BY <1>6 DEF MailCreate
  <2>2. \A x \in Thread : pc'[x] \notin Flushes
    BY <1>1, <2>1 DEF FlushInv
  <2>3. FlushInv("mb", "mbs")'
    BY <1>1, <2>1, <2>2, FlushNobody
  <2>4. \A q \in MailQueues, u \in Thread : ~Blocked(q, u)'
    BY <1>1, <2>1 DEF Deserted, Blocked
  <2>5. Deserted' /\ Balanced'
    BY <2>1, <2>2, <2>4 DEF Deserted, Balanced, Flushing
  <2> QED
    BY <2>3, <2>5 DEF MailCareful
<1> QED
  BY <1>2, <1>3, <1>4, <1>5, <1>6, MailCases, MailUserStep, OutcomeCareful, DetachCareful

LEMMA MailCarefulInvariant ==
    ASSUME CarefulFlush
    PROVE  MailSpec => []MailCareful
<1>1. IpcInit /\ MailInit => MailCareful
  <2> SUFFICES ASSUME IpcInit, MailInit PROVE MailCareful
    OBVIOUS
  <2>1. FlushInv("mb", "mbs")
    BY FlushInvInit
  <2>2. \A t \in Thread : pc[t] \notin Flushes
    BY IpcInitFacts DEF Flushes
  <2>3. alive /\ \A q \in MailQueues, u \in Thread : ~Blocked(q, u)
    BY IpcInitFacts, TheQueues DEF IpcInit, Blocked
  <2>4. Deserted /\ Balanced
    BY <2>2, <2>3, TheQueues DEF Deserted, Balanced, Flushing, Flushes
  <2> QED
    BY <2>1, <2>4 DEF MailCareful
<1>2. MailBase /\ MailCareful /\ [MailNext]_<<ipcVars, mailVars>> => MailCareful'
  BY MailCarefulStep
<1> QED
  BY <1>1, <1>2, MailInvariant, PTL DEF MailSpec

(* An application that detaches a mailbox only when the waits on it have   *)
(* no time limit and no other call is under way has both loops of          *)
(* rt_ipc_list_resume_all wake waiters and nothing else.                   *)
THEOREM MailFlushSafe ==
    ASSUME CarefulFlush
    PROVE  MailSpec => []FlushWakesWaiters
<1>1. MailCareful => FlushWakesWaiters
  BY DEF MailCareful, FlushInv, FlushWakesWaiters
<1> QED
  BY <1>1, MailCarefulInvariant, PTL

(* No receiver is left waiting for a mail that is there and no sender for  *)
(* a free place: whoever was woken and overtaken waits again only when     *)
(* there is nothing left for it.                                           *)
THEOREM MailNobodyWaits ==
    ASSUME CarefulFlush
    PROVE  MailSpec => []MailNobodyStuck
<1>1. MailBase /\ MailCareful => MailNobodyStuck
  <2> SUFFICES ASSUME MailBase, MailCareful PROVE MailNobodyStuck
    OBVIOUS
  <2>1. KernelOK(k)
    BY DEF MailBase, IpcInv
  <2>2. \A q \in MailQueues : k.wait[q] # << >> => \E u \in Thread : Blocked(q, u)
    BY <2>1, TheQueues, NobodyWaits DEF Blocked
  <2> QED
    BY <2>2, TheQueues DEF MailCareful, Balanced, MailNobodyStuck
<1> QED
  BY <1>1, MailInvariant, MailCarefulInvariant, PTL

-----------------------------------------------------------------------------
(* The event object.                                                       *)

InfoType == [set: SUBSET EventBit, op: {"AND", "OR"}, clear: BOOLEAN]

LEMMA EventQueue == "ev" \in Queue
  BY EventAssumption

(* Fewer bits satisfy no more requests.                                    *)
LEMMA FewerBits ==
    ASSUME NEW A, NEW B, A \subseteq B, NEW r, r.set # {}, Satisfied(A, r)
    PROVE  Satisfied(B, r)
  BY DEF Satisfied

(* The loop of rt_event_send runs to its end.                              *)
LEMMA WalkRounds ==
    ASSUME NEW S, k.wait["ev"] \in Seq(Thread)
    PROVE  \E after :
              /\ after = [i \in 0..Len(k.wait["ev"]) |->
                            IF i = 0 THEN [k |-> k, set |-> event \cup S, info |-> info]
                                     ELSE Visit(after[i - 1], k.wait["ev"][i])]
              /\ Walk(S) = after[Len(k.wait["ev"])]
<1> DEFINE a0 == [k |-> k, set |-> event \cup S, info |-> info]
           l == k.wait["ev"]
           L == Len(k.wait["ev"])
           F(g, n) == [i \in 0..n |-> IF i = 0 THEN a0 ELSE Visit(g[i - 1], l[i])]
           Bad == {n \in 0..L : \A g : g # F(g, n)}
<1>1. L \in Nat
  BY LenProperties
<1>2. Bad = {}
  <2>1. SUFFICES ASSUME Bad # {} PROVE FALSE
    OBVIOUS
  <2>2. Bad \in SUBSET Nat
    BY <1>1
  <2>3. PICK m \in Bad : \A n \in Bad : m <= n
    BY <2>1, <2>2, MinOfNat
  <2>4. m \in 0..L /\ \A g : g # F(g, m)
    BY <2>3
  <2>5. CASE m = 0
    <3> DEFINE g == [i \in 0..0 |-> a0]
    <3>1. g = F(g, 0)
      OBVIOUS
    <3> QED
      BY <2>4, <2>5, <3>1
  <2>6. CASE m # 0
    <3>1. m - 1 \in 0..L /\ ~(m <= m - 1) /\ m \in Nat
      BY <1>1, <2>4, <2>6
    <3>2. m - 1 \notin Bad
      BY <2>3, <3>1
    <3>3. PICK g : g = F(g, m - 1)
      BY <3>1, <3>2
    <3> DEFINE h == [i \in 0..m |-> IF i = m THEN Visit(g[m - 1], l[m]) ELSE g[i]]
    <3>4. \A i \in 0..(m - 1) : h[i] = g[i]
      BY <3>1
    <3>5. \A i \in 0..m : h[i] = IF i = 0 THEN a0 ELSE Visit(h[i - 1], l[i])
      <4>1. SUFFICES ASSUME NEW i \in 0..m
                     PROVE  h[i] = IF i = 0 THEN a0 ELSE Visit(h[i - 1], l[i])
        OBVIOUS
      <4>2. CASE i = m
        <5>1. h[m] = Visit(g[m - 1], l[m]) /\ h[m - 1] = g[m - 1] /\ m # 0
          BY <2>6, <3>1, <3>4
        <5> QED
          BY <4>2, <5>1
      <4>3. CASE i # m
        <5>1. i \in 0..(m - 1)
          BY <3>1, <4>3
        <5>2. h[i] = g[i]
          BY <3>4, <5>1
        <5>3. g[i] = IF i = 0 THEN a0 ELSE Visit(g[i - 1], l[i])
          BY <3>3, <5>1
        <5>4. CASE i = 0
          BY <5>2, <5>3, <5>4
        <5>5. CASE i # 0
          <6>1. i - 1 \in 0..(m - 1)
            BY <5>1, <5>5, <3>1
          <6>2. h[i - 1] = g[i - 1]
            BY <3>4, <6>1
          <6> QED
            BY <5>2, <5>3, <5>5, <6>2
        <5> QED
          BY <5>4, <5>5
      <4> QED
        BY <4>2, <4>3
    <3>6. h = [i \in 0..m |-> h[i]]
      OBVIOUS
    <3> HIDE DEF h
    <3>7. h = F(h, m)
      BY <3>5, <3>6
    <3> QED
      BY <2>4, <3>7
  <2> QED
    BY <2>5, <2>6
<1>3. \E g : g = F(g, L)
  <2>1. L \in 0..L
    BY <1>1
  <2>2. L \notin Bad
    BY <1>2
  <2> QED
    BY <2>1, <2>2
<1> DEFINE after == CHOOSE g : g = F(g, L)
<1>4. after = F(after, L)
  BY <1>3
<1>5. Walk(S) = after[L]
  BY DEF Walk
<1> QED
  BY <1>4, <1>5

(* What the walk has done to its first i waiters when it has woken W: the  *)
(* others are left alone, and their condition does not hold; what a woken  *)
(* thread cleared is in the set no more, and nobody behind it received it. *)
Walked(W, i, a) ==
    LET l == k.wait["ev"]
    IN  /\ W \subseteq {l[j] : j \in 1..i}
        /\ a = [k |-> a.k, set |-> a.set, info |-> a.info]
        /\ Woken(k, a.k, W) /\ Stays(k, a.k) /\ a.k.error = k.error
        /\ W = {} => a.k = k
        /\ a.set \subseteq EventBit /\ a.info \in [Thread -> InfoType]
        /\ \A x \in Thread \ W : a.info[x] = info[x]
        /\ \A j \in 1..i : l[j] \notin W => ~Satisfied(a.set, info[l[j]])
        /\ \A x \in W : info[x].clear => a.info[x].set \cap a.set = {}
        /\ \A m, n \in 1..i :
              m < n /\ l[m] \in W /\ l[n] \in W /\ info[l[m]].clear
                 => a.info[l[m]].set \cap a.info[l[n]].set = {}

LEMMA WalkBegins ==
    ASSUME KernelOK(k), info \in [Thread -> InfoType], event \subseteq EventBit,
           NEW S \in SUBSET EventBit
    PROVE  Walked({}, 0, [k |-> k, set |-> event \cup S, info |-> info])
<1> DEFINE a == [k |-> k, set |-> event \cup S, info |-> info]
           W == {}
<1>1. a.k = k /\ a.set = event \cup S /\ a.info = info /\ a = [k |-> a.k, set |-> a.set, info |-> a.info]
  OBVIOUS
<1>2. Woken(k, k, W) /\ Stays(k, k)
  BY WokenNothing
<1> HIDE DEF a
<1>3. Walked(W, 0, a)
  BY <1>1, <1>2 DEF Walked
<1> QED
  BY <1>3 DEF a

LEMMA WalkGoesOn ==
    ASSUME KernelOK(k), info \in [Thread -> InfoType],
           \A x \in Thread : Contains(k.wait["ev"], x) => info[x].set # {},
           NEW i \in 1..Len(k.wait["ev"]), NEW W, NEW a, Walked(W, i - 1, a)
    PROVE  \E V : Walked(V, i, Visit(a, k.wait["ev"][i]))
<1> DEFINE l == k.wait["ev"]
           L == Len(k.wait["ev"])
           t == l[i]
           b == Visit(a, t)
<1>1. l \in Seq(Thread) /\ NoRepeat(l)
  BY EventQueue DEF KernelOK, KernelInv, KernelType, ListsExact
<1>2. L \in Nat /\ DOMAIN l = 1..L /\ \A j \in 1..L : l[j] \in Thread
  BY <1>1, LenProperties, ElementOfSeq
<1>3. /\ t \in Thread /\ k.stat[t] = "SUSPEND"
      /\ \A j \in 1..L : info[l[j]].set # {}
  <2>1. \A j \in 1..L : Contains(l, l[j])
    BY DEF Contains
  <2> QED
    BY <1>2, <2>1, EventQueue DEF KernelOK, KernelInv, LinksExact
<1>4. \A j \in 1..(i - 1) : j \in 1..L /\ j # i /\ l[j] # t
  <2>1. \A j \in 1..(i - 1) : j \in 1..L /\ j # i
    BY <1>2
  <2> QED
    BY <1>1, <1>2, <2>1 DEF NoRepeat
<1>5. 1..i = 1..(i - 1) \cup {i} /\ i \in 1..L /\ \A m, n \in 1..i : m < n => m \in 1..(i - 1)
  BY <1>2
<1>6. t \notin W /\ W \subseteq Thread
  BY <1>2, <1>4 DEF Walked
<1>7. a.info[t] = info[t] /\ info[t] \in InfoType /\ a.info \in [Thread -> InfoType]
  BY <1>3, <1>6 DEF Walked
<1>8. a = [k |-> a.k, set |-> a.set, info |-> a.info]
  BY DEF Walked
<1>9. CASE ~Satisfied(a.set, a.info[t])
  <2>1. b = a
    BY <1>9 DEF Visit
  <2>2. ~Satisfied(a.set, info[t])
    BY <1>7, <1>9
  <2> HIDE DEF l, L, t, b
  <2>3. Walked(W, i, a)
    <3>1. \A j \in 1..i : l[j] \notin W => ~Satisfied(a.set, info[l[j]])
      BY <1>5, <2>2 DEF Walked, l, t
    <3>2. \A m, n \in 1..i :
              m < n /\ l[m] \in W /\ l[n] \in W /\ info[l[m]].clear
                 => a.info[l[m]].set \cap a.info[l[n]].set = {}
      BY <1>5, <1>6 DEF Walked, l, t
    <3>3. W \subseteq {l[j] : j \in 1..i}
      BY <1>5 DEF Walked, l
    <3> QED
      BY <3>1, <3>2, <3>3 DEF Walked, l
  <2> QED
    BY <2>1, <2>3 DEF b, t, l
<1>10. CASE Satisfied(a.set, a.info[t])
  <2> DEFINE got == info[t].set \cap a.set
             r == Resume(a.k, t)
             V == W \cup {t}
  <2>1. /\ b.k = r /\ b.set = (IF info[t].clear THEN a.set \ got ELSE a.set)
        /\ b.info = [a.info EXCEPT ![t] = [info[t] EXCEPT !.set = got]]
        /\ b = [k |-> b.k, set |-> b.set, info |-> b.info]
    <3> HIDE DEF t
    <3>1. b = [k |-> r, set |-> IF info[t].clear THEN a.set \ got ELSE a.set,
               info |-> [a.info EXCEPT ![t] = [info[t] EXCEPT !.set = got]]]
      <4>1. [a.info EXCEPT ![t].set = got] = [a.info EXCEPT ![t] = [info[t] EXCEPT !.set = got]]
        BY <1>3, <1>7
      <4> QED
        BY <1>7, <1>10, <4>1 DEF Visit
    <3> QED
      BY <3>1
  <2> HIDE DEF t, l, L, b, V
  <2>2. b.set \subseteq a.set /\ b.set \subseteq EventBit /\ (info[t].clear => got \cap b.set = {})
    BY <2>1 DEF Walked
  <2>3. /\ b.info[t].set = got /\ \A x \in Thread \ {t} : b.info[x] = a.info[x]
    BY <1>3, <1>7, <2>1 DEF InfoType
  <2>4. b.info \in [Thread -> InfoType]
    <3>1. [info[t] EXCEPT !.set = got] \in InfoType
      BY <1>7 DEF InfoType
    <3> QED
      BY <1>7, <2>1, <3>1
  <2>5. Woken(k, a.k, W) /\ Stays(k, a.k) /\ a.k.error = k.error
    BY DEF Walked
  <2>6. KernelOK(a.k) /\ a.k.stat[t] = "SUSPEND"
    <3>1. a.k.cur \in Thread
      BY <2>5 DEF Stays, KernelOK
    <3>2. a.k.stat[t] = "SUSPEND"
      BY <1>3, <1>6, <2>5 DEF Woken
    <3> QED
      BY <2>5, <3>1, <3>2, WokenKernelOK
  <2>7. Woken(a.k, r, {t}) /\ Stays(a.k, r) /\ r.error = a.k.error
    BY <1>3, <2>6, ResumeFacts
  <2>8. Woken(k, b.k, V) /\ Stays(k, b.k) /\ b.k.error = k.error
    <3> HIDE DEF r
    <3>1. Woken(k, r, V)
      BY <2>5, <2>7, WokenMore DEF V
    <3> QED
      BY <2>1, <2>5, <2>7, <3>1 DEF Stays
  <2>9. \A j \in 1..i : l[j] \notin V => ~Satisfied(b.set, info[l[j]])
    <3> SUFFICES ASSUME NEW j \in 1..i, l[j] \notin V PROVE ~Satisfied(b.set, info[l[j]])
      OBVIOUS
    <3>1. j # i
      BY DEF V, t
    <3>2. j \in 1..(i - 1) /\ j \in 1..L
      BY <1>4, <1>5, <3>1
    <3>3. ~Satisfied(a.set, info[l[j]]) /\ info[l[j]].set # {}
      BY <1>3, <3>2 DEF Walked, V, l
    <3> QED
      BY <2>2, <3>3, FewerBits
  <2>10. \A x \in V : info[x].clear => b.info[x].set \cap b.set = {}
    <3>1. ASSUME NEW x \in W, info[x].clear PROVE b.info[x].set \cap b.set = {}
      <4>1. b.info[x] = a.info[x] /\ a.info[x].set \cap a.set = {}
        BY <1>6, <2>3, <3>1 DEF Walked
      <4> QED
        BY <2>2, <4>1
    <3> QED
      BY <2>2, <2>3, <3>1 DEF V
  <2>11. \A m, n \in 1..i :
              m < n /\ l[m] \in V /\ l[n] \in V /\ info[l[m]].clear
                 => b.info[l[m]].set \cap b.info[l[n]].set = {}
    <3> SUFFICES ASSUME NEW m \in 1..i, NEW n \in 1..i,
                        m < n, l[m] \in V, l[n] \in V, info[l[m]].clear
                 PROVE  b.info[l[m]].set \cap b.info[l[n]].set = {}
      OBVIOUS
    <3>1. m \in 1..(i - 1) /\ l[m] # t
      BY <1>4, <1>5
    <3>2. l[m] \in W
      BY <3>1 DEF V
    <3>3. b.info[l[m]] = a.info[l[m]]
      BY <1>6, <2>3, <3>1, <3>2
    <3>4. CASE n = i
      <4>1. b.info[l[n]].set \subseteq a.set
        BY <2>3, <3>4 DEF t
      <4>2. a.info[l[m]].set \cap a.set = {}
        BY <3>2 DEF Walked
      <4> QED
        BY <3>3, <4>1, <4>2
    <3>5. CASE n # i
      <4>1. n \in 1..(i - 1) /\ l[n] # t
        BY <1>4, <1>5, <3>5
      <4>2. l[n] \in W
        BY <4>1 DEF V
      <4>3. b.info[l[n]] = a.info[l[n]]
        BY <1>6, <2>3, <4>1, <4>2
      <4>4. a.info[l[m]].set \cap a.info[l[n]].set = {}
        BY <3>1, <3>2, <4>1, <4>2 DEF Walked, l
      <4> QED
        BY <3>3, <4>3, <4>4
    <3> QED
      BY <3>4, <3>5
  <2>12. \A x \in Thread \ V : b.info[x] = info[x]
    BY <2>3 DEF Walked, V
  <2>13. V \subseteq {l[j] : j \in 1..i}
    <3>1. W \subseteq {l[j] : j \in 1..(i - 1)}
      BY DEF Walked, l
    <3>2. t \in {l[j] : j \in 1..i}
      BY <1>5 DEF t
    <3> QED
      BY <1>5, <3>1, <3>2 DEF V
  <2>14. V # {}
    BY DEF V
  <2>15. Walked(V, i, b)
    <3> HIDE DEF V
    <3> QED
      BY <2>1, <2>2, <2>4, <2>8, <2>9, <2>10, <2>11, <2>12, <2>13, <2>14 DEF Walked, l
  <2> QED
    BY <2>15 DEF b, t, l
<1> QED
  BY <1>9, <1>10

(* rt_event_send, to the end of its list.                                  *)
LEMMA WalkNow ==
    ASSUME KernelOK(k), info \in [Thread -> InfoType], event \subseteq EventBit,
           \A x \in Thread : Contains(k.wait["ev"], x) => info[x].set # {},
           NEW S \in SUBSET EventBit
    PROVE  \E W : Walked(W, Len(k.wait["ev"]), Walk(S))
<1> DEFINE l == k.wait["ev"]
           L == Len(k.wait["ev"])
           a0 == [k |-> k, set |-> event \cup S, info |-> info]
<1>1. l \in Seq(Thread)
  BY EventQueue DEF KernelOK, KernelInv, KernelType
<1>2. L \in Nat
  BY <1>1, LenProperties
<1>3. PICK after :
         /\ after = [i \in 0..L |-> IF i = 0 THEN a0 ELSE Visit(after[i - 1], l[i])]
         /\ Walk(S) = after[L]
  BY <1>1, WalkRounds
<1>4. after[0] = a0 /\ \A i \in 1..L : after[i] = Visit(after[i - 1], l[i])
  <2> HIDE DEF a0
  <2>1. 0 \in 0..L /\ \A i \in 1..L : i \in 0..L /\ i # 0
    BY <1>2
  <2> QED
    BY <1>3, <2>1
<1> DEFINE Good(i) == \E W : Walked(W, i, after[i])
           Bad == {i \in 0..L : ~Good(i)}
<1>5. Good(0)
  BY <1>4, WalkBegins
<1>6. ASSUME NEW i \in 1..L, Good(i - 1) PROVE Good(i)
  <2>1. PICK W : Walked(W, i - 1, after[i - 1])
    BY <1>6
  <2> HIDE DEF L, l
  <2>2. after[i] = Visit(after[i - 1], l[i]) /\ i \in 1..Len(k.wait["ev"])
    BY <1>4 DEF L
  <2>3. \E V : Walked(V, i, Visit(after[i - 1], k.wait["ev"][i]))
    BY <2>1, <2>2, WalkGoesOn
  <2> QED
    BY <2>2, <2>3 DEF l
<1> HIDE DEF Good
<1>7. Bad = {}
  <2>1. SUFFICES ASSUME Bad # {} PROVE FALSE
    OBVIOUS
  <2>2. Bad \in SUBSET Nat
    BY <1>2
  <2>3. PICK m \in Bad : \A n \in Bad : m <= n
    BY <2>1, <2>2, MinOfNat
  <2>4. m \in 0..L /\ ~Good(m)
    BY <2>3
  <2>5. m # 0
    BY <1>5, <2>4
  <2>6. m \in 1..L /\ m - 1 \in 0..L /\ ~(m <= m - 1)
    BY <1>2, <2>4, <2>5
  <2>7. Good(m - 1)
    BY <2>3, <2>6
  <2> QED
    BY <1>6, <2>4, <2>6, <2>7
<1>8. Good(L)
  BY <1>2, <1>7
<1> QED
  BY <1>3, <1>8 DEF Good

(* A waiter asks for something, and for something that has not happened.   *)
EventInv ==
    /\ IpcInv /\ event \subseteq EventBit /\ info \in [Thread -> InfoType]
    /\ \A t \in Thread : Blocked("ev", t) => info[t].set # {} /\ ~Satisfied(event, info[t])

(* The step gives no waiter what it waits for.                             *)
NoGrant == \A x \in Thread : Blocked("ev", x) => x \notin Granted("ev")'

LEMMA EventInitFacts ==
    ASSUME IpcInit, EventInit
    PROVE  EventInv
<1>1. IpcInv /\ \A t \in Thread : ~Blocked("ev", t)
  BY EventQueue, IpcInitFacts DEF Blocked
<1>2. event = {} /\ info \in [Thread -> InfoType]
  BY DEF EventInit, NoInfo, InfoType
<1> QED
  BY <1>1, <1>2 DEF EventInv

(* A step that adds no bit and wakes the threads of W, if any, with an     *)
(* error.                                                                  *)
LEMMA EventQuiet ==
    ASSUME EventInv, IpcInv', NEW T, NEW W, Wakes(T, W), \A x \in W : k'.error[x] = "ERROR",
           event' \subseteq event, info' \in [Thread -> InfoType],
           \A x \in Thread : Blocked("ev", x) => info'[x] = info[x]
    PROVE  EventInv' /\ NoGrant
<1>1. \A x \in Thread : Blocked("ev", x)' => Blocked("ev", x)
  BY EventQueue DEF Wakes, Blocked
<1>2. Granted("ev")' \subseteq Granted("ev")
  BY EventQueue DEF Wakes
<1>3. NoGrant
  BY <1>2 DEF NoGrant, Granted
<1>4. \A x \in Thread : Blocked("ev", x)' => info'[x].set # {} /\ ~Satisfied(event', info'[x])
  <2> SUFFICES ASSUME NEW x \in Thread, Blocked("ev", x)'
               PROVE  info'[x].set # {} /\ ~Satisfied(event', info'[x])
    OBVIOUS
  <2>1. info'[x] = info[x] /\ info[x].set # {} /\ ~Satisfied(event, info[x])
    BY <1>1 DEF EventInv
  <2> QED
    BY <2>1, FewerBits
<1> QED
  BY <1>3, <1>4 DEF EventInv

LEMMA EventBackground ==
    ASSUME EventInv, Background, UNCHANGED eventVars
    PROVE  EventInv' /\ NoGrant
<1>1. /\ \A x \in Thread : Blocked("ev", x)' => Blocked("ev", x)
      /\ Granted("ev")' = Granted("ev") /\ IpcInv'
  BY EventQueue DEF Background, Blocked
<1>2. NoGrant
  BY <1>1 DEF NoGrant, Granted
<1> QED
  BY <1>1, <1>2 DEF EventInv, eventVars

(* rt_event_recv without waiting.                                          *)
LEMMA EventNowStep ==
    ASSUME EventInv, NEW t \in Client, NEW r \in Request, EventTake(t, r) \/ EventTry(t, r)
    PROVE  EventInv' /\ NoGrant
<1>1. PICK e \in {"EOK", "ETIMEOUT"} :
         /\ Running(t) /\ pc[t] = "run" /\ k' = [k EXCEPT !.error[t] = e]
         /\ UNCHANGED << pc, wild, alive, want, budget >>
  BY DEF EventTake, EventTry, Calls, At, ClearError, waitVars
<1>2. e \in Errno /\ IpcInv
  BY DEF Errno, EventInv
<1> DEFINE W == {}
<1>3. IpcInv' /\ Wakes({t}, W) /\ \A x \in W : k'.error[x] = "ERROR"
  BY <1>1, <1>2, ErrorStep
<1>4. event' \subseteq event /\ info' = info
  BY DEF EventTake, EventTry, eventVars
<1> HIDE DEF W
<1> QED
  BY <1>3, <1>4, EventQuiet DEF EventInv

LEMMA EventBlockStep ==
    ASSUME EventInv, NEW t \in Client, NEW r \in Request, NEW w \in WaitTime, EventBlock(t, r, w)
    PROVE  EventInv' /\ NoGrant
<1> USE EventQueue
<1>1. /\ Running(t) /\ pc[t] = "run" /\ t \in Thread /\ ~Satisfied(event, r)
      /\ k' = BlockOn(k, "ev", t, w) /\ WaitOn(t, "ev") /\ info' = [info EXCEPT ![t] = r]
      /\ wild' = wild /\ alive' = alive /\ budget' = budget /\ event' = event
  BY DEF EventBlock, Calls, At, Client
<1>2. w \in {Forever} \cup Nat
  BY IpcAssumption DEF WaitTime
<1>3. IpcInv' /\ Joins(t, "ev")
  <2>1. Like(k) /\ IpcInv
    BY LikeItself DEF EventInv
  <2>2. wild' \in BOOLEAN /\ alive' \in BOOLEAN /\ budget' \in [Thread -> {Forever} \cup 0..MaxWait]
    BY <1>1, <2>1 DEF IpcInv, CallsType
  <2> QED
    BY <1>1, <1>2, <2>1, <2>2, BlockStep
<1>4. r \in InfoType /\ r.set # {}
  <2>1. r \in [set: (SUBSET EventBit) \ {{}}, op: {"AND", "OR"}, clear: BOOLEAN]
    BY EventAssumption
  <2>2. r.set \in SUBSET EventBit /\ r.set # {}
    BY <2>1
  <2>3. r \in InfoType
    BY <2>1, <2>2 DEF InfoType
  <2> QED
    BY <2>2, <2>3
<1>5. info' \in [Thread -> InfoType] /\ info'[t] = r /\ \A x \in Thread \ {t} : info'[x] = info[x]
  BY <1>1, <1>4 DEF EventInv
<1>6. \A x \in Thread : Blocked("ev", x)' => Blocked("ev", x) \/ x = t
  BY <1>3 DEF Joins, Blocked
<1>7. \A x \in Thread : Blocked("ev", x)' => info'[x].set # {} /\ ~Satisfied(event', info'[x])
  BY <1>1, <1>4, <1>5, <1>6 DEF EventInv
<1>8. NoGrant
  BY <1>3 DEF Joins, NoGrant, Granted
<1> QED
  BY <1>1, <1>3, <1>5, <1>7, <1>8 DEF EventInv

LEMMA EventReturnStep ==
    ASSUME EventInv, NEW t \in Client, EventReturn(t)
    PROVE  EventInv' /\ NoGrant /\ Wakes({t}, {})
<1> DEFINE W == {}
<1>1. /\ Running(t) /\ pc[t] = "woken" /\ t \in Thread /\ UNCHANGED << k, wild, alive, event >>
      /\ pc' = [pc EXCEPT ![t] = "run"] /\ want' = [want EXCEPT ![t] = None]
      /\ budget' = [budget EXCEPT ![t] = Forever] /\ info' = [info EXCEPT ![t] = NoInfo]
  BY DEF EventReturn, At, Return, EndWait, Goto, Client
<1>2. budget' \in [Thread -> {Forever} \cup 0..MaxWait] /\ wild' \in BOOLEAN /\ alive' \in BOOLEAN
  BY <1>1 DEF EventInv, IpcInv, CallsType
<1>3. IpcInv' /\ Wakes({t}, W)
  <2>1. "run" \in CallerSteps /\ IpcInv
    BY DEF CallerSteps, Outside, EventInv
  <2> QED
    BY <1>1, <1>2, <2>1, PlainStep
<1>4. ~Blocked("ev", t)
  BY <1>1, RunnerReady, ReadyThread, EventQueue DEF EventInv, IpcInv, Blocked
<1>5. NoInfo \in InfoType
  BY DEF NoInfo, InfoType
<1>6. /\ info' \in [Thread -> InfoType]
      /\ \A x \in Thread : Blocked("ev", x) => info'[x] = info[x]
  BY <1>1, <1>4, <1>5 DEF EventInv
<1>7. \A x \in W : k'.error[x] = "ERROR"
  OBVIOUS
<1>8. Wakes({t}, {})
  BY <1>3
<1> HIDE DEF W
<1>9. EventInv' /\ NoGrant
  BY <1>1, <1>3, <1>6, <1>7, EventQuiet
<1> QED
  BY <1>8, <1>9

LEMMA EventResetStep ==
    ASSUME EventInv, NEW t \in Client, EventReset(t)
    PROVE  EventInv' /\ NoGrant
<1> USE EventQueue
<1>1. /\ Running(t) /\ pc[t] = "run" /\ k' = ResumeAll(k, "ev") /\ pc' = [pc EXCEPT ![t] = "sched"]
      /\ UNCHANGED << wild, alive, want, budget >> /\ event' = {} /\ info' = info
  BY DEF EventReset, Calls, At, Goto, waitVars
<1>2. /\ IpcInv' /\ Wakes({t}, Waiters(k, "ev"))
      /\ \A x \in Waiters(k, "ev") : k'.error[x] = "ERROR"
  BY <1>1, ResumeAllStep DEF EventInv
<1> QED
  BY <1>1, <1>2, EventQuiet DEF EventInv

LEMMA EventDetachStep ==
    ASSUME EventInv, NEW t \in Client, EventDetach(t)
    PROVE  EventInv' /\ NoGrant
<1> USE EventQueue
<1>1. event' = event /\ info' = info /\ IpcInv /\ info \in [Thread -> InfoType]
  BY DEF EventDetach, eventVars, EventInv
<1>2. {"flush", "flush1"} \subseteq Flushes /\ {"flush1", "run"} \subseteq CallerSteps
  BY DEF Flushes, CallerSteps, Outside
<1>3. ASSUME NEW W, IpcInv', Wakes({t}, W), \A x \in W : k'.error[x] = "ERROR"
      PROVE  EventInv' /\ NoGrant
  BY <1>1, <1>3, EventQuiet
<1>4. CASE FlushBegin(t, {"ev"})
  <2> DEFINE W == {}
  <2>1. IpcInv' /\ Wakes({t}, W) /\ \A x \in W : k'.error[x] = "ERROR"
    BY <1>1, <1>4, FlushBeginStep
  <2> HIDE DEF W
  <2> QED
    BY <1>3, <2>1
<1>5. CASE FlushLook(t, "ev", "flush", "flush1", "run")
  <2> DEFINE W == {}
  <2>1. IpcInv' /\ Wakes({t}, W) /\ \A x \in W : k'.error[x] = "ERROR"
    BY <1>1, <1>2, <1>5, FlushLookStep
  <2> HIDE DEF W
  <2> QED
    BY <1>3, <2>1
<1>6. CASE FlushWake(t, "ev", "flush", "flush1")
  BY <1>1, <1>2, <1>3, <1>6, FlushWakeStep
<1> QED
  BY <1>4, <1>5, <1>6 DEF EventDetach

LEMMA EventCreateStep ==
    ASSUME EventInv, NEW t \in Client, EventCreate(t)
    PROVE  EventInv' /\ NoGrant
<1>1. UNCHANGED << k, pc, wild, want, budget >> /\ alive' = TRUE /\ event' = {} /\ info' = info
  BY DEF EventCreate, waitVars
<1>2. IpcInv' /\ Granted("ev")' = Granted("ev") /\ \A x : Blocked("ev", x)' <=> Blocked("ev", x)
  BY <1>1 DEF EventInv, IpcInv, CallsType, Granted, Blocked
<1>3. NoGrant
  BY <1>2 DEF NoGrant, Granted
<1>4. \A r : r.set # {} => ~Satisfied({}, r)
  BY DEF Satisfied
<1> QED
  BY <1>1, <1>2, <1>3, <1>4 DEF EventInv

(* rt_event_send wakes waiters, and calls rt_schedule if it woke one.      *)
LEMMA WalkWaiters ==
    ASSUME EventInv, NEW S \in SUBSET EventBit
    PROVE  \E W \in SUBSET Thread :
              /\ Walked(W, Len(k.wait["ev"]), Walk(S))
              /\ \A x \in W : Blocked("ev", x)
              /\ W = {} <=> Walk(S).k = k
<1> DEFINE l == k.wait["ev"]
           L == Len(k.wait["ev"])
           a == Walk(S)
<1>1. KernelOK(k) /\ \A x \in Thread : Contains(k.wait["ev"], x) => info[x].set # {}
  BY DEF EventInv, IpcInv, Blocked
<1>2. l \in Seq(Thread) /\ L \in Nat /\ DOMAIN l = 1..L /\ \A j \in 1..L : l[j] \in Thread
  <2>1. l \in Seq(Thread)
    BY <1>1, EventQueue DEF KernelOK, KernelInv, KernelType
  <2> QED
    BY <2>1, LenProperties, ElementOfSeq
<1>3. PICK W : Walked(W, L, a)
  BY <1>1, WalkNow DEF EventInv
<1> HIDE DEF a
<1>4. W \subseteq {l[j] : j \in 1..L} /\ Woken(k, a.k, W) /\ (W = {} => a.k = k)
  BY <1>3 DEF Walked
<1>5. \A x \in W : x \in Thread /\ Blocked("ev", x)
  BY <1>2, <1>4 DEF Blocked, Contains
<1>6. \A x \in W : k.stat[x] = "SUSPEND" /\ a.k.stat[x] = "READY"
  BY <1>1, <1>4, <1>5, EventQueue DEF KernelOK, KernelInv, LinksExact, Blocked, Woken
<1>7. a.k = k => W = {}
  BY <1>6
<1> QED
  BY <1>3, <1>4, <1>5, <1>7 DEF a

(* Whoever is left waiting waits for something that has not happened, and  *)
(* nobody received what a thread before it has cleared.                    *)
LEMMA SentFacts ==
    ASSUME EventInv, IpcInv', NEW S \in SUBSET EventBit,
           event' = Walk(S).set, info' = Walk(S).info,
           NEW T, NEW W \in SUBSET Thread, Wakes(T, W),
           Walked(W, Len(k.wait["ev"]), Walk(S)), \A x \in W : Blocked("ev", x)
    PROVE  /\ EventInv'
           /\ \A t, u \in Thread :
                 Ahead(t, u) /\ info[t].clear /\ {t, u} \subseteq Granted("ev")'
                    => info'[t].set \cap info'[u].set = {}
<1> USE EventQueue
<1> DEFINE l == k.wait["ev"]
           L == Len(k.wait["ev"])
           a == Walk(S)
<1>1. /\ a.set \subseteq EventBit /\ a.info \in [Thread -> InfoType]
      /\ \A x \in Thread \ W : a.info[x] = info[x]
      /\ \A j \in 1..L : l[j] \notin W => ~Satisfied(a.set, info[l[j]])
      /\ \A m, n \in 1..L :
            m < n /\ l[m] \in W /\ l[n] \in W /\ info[l[m]].clear
               => a.info[l[m]].set \cap a.info[l[n]].set = {}
  BY DEF Walked
<1>2. event' = a.set /\ info' = a.info
  OBVIOUS
<1> HIDE DEF a
<1>3. DOMAIN l = 1..L
  <2>1. l \in Seq(Thread)
    BY DEF EventInv, IpcInv, KernelOK, KernelInv, KernelType
  <2> QED
    BY <2>1, LenProperties
<1>4. \A x \in Thread : Blocked("ev", x)' <=> Blocked("ev", x) /\ x \notin W
  BY DEF Wakes, Blocked
<1>5. \A x \in Thread : Blocked("ev", x)' => info'[x].set # {} /\ ~Satisfied(event', info'[x])
  <2> SUFFICES ASSUME NEW x \in Thread, Blocked("ev", x)'
               PROVE  info'[x].set # {} /\ ~Satisfied(event', info'[x])
    OBVIOUS
  <2>1. Blocked("ev", x) /\ x \notin W
    BY <1>4
  <2>2. PICK j \in 1..L : l[j] = x
    BY <1>3, <2>1 DEF Blocked, Contains
  <2>3. info'[x] = info[x] /\ info[x].set # {} /\ ~Satisfied(a.set, info[x])
    BY <1>1, <1>2, <2>1, <2>2 DEF EventInv
  <2> QED
    BY <1>2, <2>3
<1>6. ASSUME NEW t \in Thread, NEW u \in Thread,
             Ahead(t, u), info[t].clear, {t, u} \subseteq Granted("ev")'
      PROVE  info'[t].set \cap info'[u].set = {}
  <2>1. PICK m, n \in DOMAIN l : m < n /\ l[m] = t /\ l[n] = u
    BY <1>6 DEF Ahead
  <2>2. Blocked("ev", t) /\ Blocked("ev", u)
    BY <1>3, <2>1 DEF Blocked, Contains
  <2>3. ~Blocked("ev", t)' /\ ~Blocked("ev", u)'
    BY <1>6 DEF Granted
  <2>4. t \in W /\ u \in W
    BY <1>4, <2>2, <2>3
  <2> QED
    BY <1>1, <1>2, <1>3, <1>6, <2>1, <2>4
<1>7. EventInv'
  BY <1>1, <1>2, <1>5 DEF EventInv
<1> QED
  BY <1>6, <1>7

LEMMA EventSendStep ==
    ASSUME EventInv, NEW t \in Client, NEW S \in SUBSET EventBit, EventSend(t, S)
    PROVE  /\ EventInv'
           /\ \A x, y \in Thread :
                 Ahead(x, y) /\ info[x].clear /\ {x, y} \subseteq Granted("ev")'
                    => info'[x].set \cap info'[y].set = {}
<1> USE EventQueue
<1>1. /\ Running(t) /\ pc[t] = "run" /\ t \in Thread /\ k' = Walk(S).k
      /\ event' = Walk(S).set /\ info' = Walk(S).info
      /\ pc' = [pc EXCEPT ![t] = IF Walk(S).k = k THEN "run" ELSE "sched"]
      /\ UNCHANGED << wild, alive, want, budget >>
  BY DEF EventSend, Calls, At, Goto, Client, waitVars
<1>2. PICK W \in SUBSET Thread :
         /\ Walked(W, Len(k.wait["ev"]), Walk(S)) /\ \A x \in W : Blocked("ev", x)
         /\ W = {} <=> Walk(S).k = k
  BY WalkWaiters
<1>3. /\ wild' \in BOOLEAN /\ alive' \in BOOLEAN /\ IpcInv
      /\ budget' \in [Thread -> {Forever} \cup 0..MaxWait]
  BY <1>1 DEF EventInv, IpcInv, CallsType
<1>4. Woken(k, k', W) /\ k'.cur = k.cur /\ k'.error = k.error
  BY <1>1, <1>2 DEF Walked, Stays
<1>5. IpcInv' /\ Wakes({t}, W)
  <2>1. CASE W = {}
    <3>1. k' = k /\ pc' = [pc EXCEPT ![t] = "run"] /\ "run" \in CallerSteps
      BY <1>1, <1>2, <2>1 DEF CallerSteps, Outside
    <3>2. IpcInv' /\ Wakes({t}, {})
      BY <1>1, <1>3, <3>1, PlainStep
    <3> QED
      BY <2>1, <3>2
  <2>2. CASE W # {}
    <3>1. pc' = [pc EXCEPT ![t] = "sched"] /\ k'.cur = t
      BY <1>1, <1>2, <1>4, <2>2 DEF Running
    <3>2. \A x \in W : \E q \in Queue : Contains(k.wait[q], x)
      BY <1>2 DEF Blocked
    <3> QED
      BY <1>1, <1>3, <1>4, <3>1, <3>2, WakeAndSchedule
  <2> QED
    BY <2>1, <2>2
<1> QED
  BY <1>1, <1>2, <1>5, SentFacts

LEMMA EventSendFromIsrStep ==
    ASSUME EventInv, NEW S \in SUBSET EventBit, EventSendFromIsr(S)
    PROVE  /\ EventInv'
           /\ \A x, y \in Thread :
                 Ahead(x, y) /\ info[x].clear /\ {x, y} \subseteq Granted("ev")'
                    => info'[x].set \cap info'[y].set = {}
<1> USE EventQueue
<1>1. /\ k' = (IF Walk(S).k = k THEN k ELSE Schedule(Walk(S).k))
      /\ event' = Walk(S).set /\ info' = Walk(S).info
      /\ UNCHANGED << pc, wild, alive, want, budget >>
  BY DEF EventSendFromIsr, waitVars
<1>2. PICK W \in SUBSET Thread :
         /\ Walked(W, Len(k.wait["ev"]), Walk(S)) /\ \A x \in W : Blocked("ev", x)
         /\ W = {} <=> Walk(S).k = k
  BY WalkWaiters
<1> DEFINE s == Walk(S).k
           T == {}
<1>3. Woken(k, s, W) /\ Stays(k, s) /\ s.error = k.error
  BY <1>2 DEF Walked
<1>4. IpcInv /\ KernelOK(k) /\ ThreadsOK(k, pc, want) /\ CallsType /\ Like(k)
  BY LikeItself DEF EventInv, IpcInv
<1> HIDE DEF s
<1>5. \A x \in W : k.stat[x] = "SUSPEND" /\ \E q \in Queue : Contains(k.wait[q], x)
  BY <1>2, <1>4 DEF KernelOK, KernelInv, LinksExact, Blocked
<1>6. Woken(k, k', W) /\ k'.error = k.error /\ KernelOK(k') /\ ThreadsOK(k', pc', want')
  <2>1. CASE s = k
    BY <1>1, <1>3, <1>4, <2>1 DEF s
  <2>2. CASE s # k
    <3> DEFINE r == Schedule(s)
               V == {}
    <3>1. s.cur \in Thread
      BY <1>3, <1>4 DEF Stays, KernelOK
    <3>2. KernelOK(s)
      BY <1>3, <1>4, <3>1, WokenKernelOK
    <3>3. Woken(s, r, V) /\ Dispatched(r) /\ r.error = s.error
      BY <3>2, ScheduleNow
    <3>4. k' = r
      BY <1>1, <2>2 DEF s
    <3> HIDE DEF r, V
    <3>5. Woken(k, r, W \cup V) /\ W \cup V = W
      BY <1>3, <3>3, WokenMore DEF V
    <3>6. \A x \in Thread : pc'[x] = pc[x]
      BY <1>1
    <3>7. KernelOK(r) /\ ThreadsOK(r, pc', want)
      BY <1>4, <3>3, <3>5, <3>6, DispatchStep
    <3> QED
      BY <1>1, <1>3, <3>3, <3>4, <3>5, <3>7
  <2> QED
    BY <2>1, <2>2
<1>7. IpcInv'
  BY <1>1, <1>4, <1>6 DEF IpcInv, CallsType
<1>8. /\ \A x \in Thread \ (T \cup W) : k'.error[x] = k.error[x]
      /\ \A x \in T : x \notin W /\ pc'[x] \notin Waiting
      /\ \A x \in Thread \ T : pc'[x] = pc[x] /\ want'[x] = want[x]
  BY <1>1, <1>6
<1> HIDE DEF T
<1>9. Wakes(T, W)
  BY <1>4, <1>5, <1>6, <1>8, WakesFacts
<1> QED
  BY <1>1, <1>2, <1>7, <1>9, SentFacts

LEMMA EventCaller ==
    ASSUME EventInv, NEW t \in Thread, EventCall(t)
    PROVE  t \in Client
<1>1. pc[Idle] = "run"
  BY DEF EventInv, IpcInv, ThreadsOK
<1>2. Consumers \subseteq Client /\ Producers \subseteq Client /\ Controllers \subseteq Client
  BY IpcAssumption DEF Client
<1>3. t \in Consumers \/ t \in Producers \/ t \in Controllers \/ pc[t] \in {"woken"} \cup Flushes
  BY DEF EventCall, EventTake, EventTry, EventBlock, EventSend, EventReturn, EventReset,
         EventDetach, EventCreate, Calls, At, FlushBegin, FlushLook, FlushWake, Flushes
<1> QED
  BY <1>1, <1>2, <1>3 DEF Client, Flushes

(* Every step keeps the invariant and hands a cleared bit out once.        *)
LEMMA EventNextStep ==
    ASSUME EventInv, EventNext
    PROVE  /\ EventInv'
           /\ \A t, u \in Thread :
                 Ahead(t, u) /\ info[t].clear /\ {t, u} \subseteq Granted("ev")'
                    => info'[t].set \cap info'[u].set = {}
<1>1. ASSUME NoGrant, NEW t \in Thread, NEW u \in Thread, Ahead(t, u), u \in Granted("ev")'
      PROVE  FALSE
  <2>1. k.wait["ev"] \in Seq(Thread)
    BY EventQueue DEF EventInv, IpcInv, KernelOK, KernelInv, KernelType
  <2>2. Blocked("ev", u)
    BY <1>1, <2>1, LenProperties DEF Ahead, Blocked, Contains
  <2> QED
    BY <1>1, <2>2 DEF NoGrant
<1>2. ASSUME NEW t \in Thread, EventCall(t), ~\E S \in (SUBSET EventBit) \ {{}} : EventSend(t, S)
      PROVE  EventInv' /\ NoGrant
  <2>1. t \in Client
    BY <1>2, EventCaller
  <2> QED
    BY <1>2, <2>1, EventNowStep, EventBlockStep, EventReturnStep, EventResetStep,
       EventDetachStep, EventCreateStep DEF EventCall
<1>3. CASE (ThreadStep \/ Sleep) /\ UNCHANGED eventVars
  <2>1. EventInv' /\ NoGrant
    BY <1>3, BackgroundStep, EventBackground DEF EventInv
  <2> QED
    BY <1>1, <2>1
<1>4. ASSUME NEW t \in Thread, EventCall(t), NEW S \in (SUBSET EventBit) \ {{}}, EventSend(t, S)
      PROVE  /\ EventInv'
             /\ \A x, y \in Thread :
                   Ahead(x, y) /\ info[x].clear /\ {x, y} \subseteq Granted("ev")'
                      => info'[x].set \cap info'[y].set = {}
  <2>1. t \in Client /\ S \in SUBSET EventBit
    BY <1>4, EventCaller
  <2> QED
    BY <1>4, <2>1, EventSendStep
<1>5. ASSUME NEW S \in (SUBSET EventBit) \ {{}}, EventSendFromIsr(S)
      PROVE  /\ EventInv'
             /\ \A x, y \in Thread :
                   Ahead(x, y) /\ info[x].clear /\ {x, y} \subseteq Granted("ev")'
                      => info'[x].set \cap info'[y].set = {}
  <2>1. S \in SUBSET EventBit
    OBVIOUS
  <2> QED
    BY <1>5, <2>1, EventSendFromIsrStep
<1> QED
  BY <1>1, <1>2, <1>3, <1>4, <1>5 DEF EventNext

LEMMA EventStutter ==
    ASSUME EventInv, UNCHANGED << ipcVars, eventVars >>
    PROVE  EventInv'
<1>1. UNCHANGED << k, pc, wild, alive, want, budget, event, info >>
  BY DEF ipcVars, eventVars
<1>2. IpcInv' /\ \A x : Blocked("ev", x)' <=> Blocked("ev", x)
  BY <1>1 DEF EventInv, IpcInv, CallsType, Blocked
<1> QED
  BY <1>1, <1>2 DEF EventInv

LEMMA EventInvariant == EventSpec => []EventInv
<1>1. IpcInit /\ EventInit => EventInv
  BY EventInitFacts
<1>2. EventInv /\ [EventNext]_<<ipcVars, eventVars>> => EventInv'
  <2> SUFFICES ASSUME EventInv, [EventNext]_<<ipcVars, eventVars>> PROVE EventInv'
    OBVIOUS
  <2>1. CASE UNCHANGED << ipcVars, eventVars >>
    BY <2>1, EventStutter
  <2>2. CASE EventNext
    BY <2>2, EventNextStep
  <2> QED
    BY <2>1, <2>2
<1> QED
  BY <1>1, <1>2, PTL DEF EventSpec

(* Type correctness: the event's set and the requests of its waiters are   *)
(* made of the bits in use.                                                *)
THEOREM EventTypeCorrect ==
    EventSpec => [](IpcTypeOK /\ EventTypeOK)
<1>1. EventInv => IpcTypeOK /\ EventTypeOK
  BY IpcInvImplies DEF EventInv, EventTypeOK, InfoType
<1> QED
  BY <1>1, EventInvariant, PTL

(* The kernel's lists agree with the threads' states, also after a send    *)
(* that took several threads out of the middle of the queue.               *)
THEOREM EventKernelExact ==
    EventSpec => []KernelExact
<1>1. EventInv => KernelExact
  BY IpcInvImplies DEF EventInv
<1> QED
  BY <1>1, EventInvariant, PTL

(* rt_event_send calls rt_schedule whenever it woke a thread, and so the   *)
(* most urgent ready thread runs.                                          *)
THEOREM EventHighestRuns ==
    EventSpec => []HighestRunsIfAsked
<1>1. EventInv => HighestRunsIfAsked
  BY IpcInvImplies DEF EventInv
<1> QED
  BY <1>1, EventInvariant, PTL

(* Nobody waits for bits that are set: rt_event_send looks at every waiter *)
(* with what the ones before it have left.                                 *)
THEOREM EventNobodyWaits ==
    EventSpec => []EventNobodyStuck
<1>1. EventInv => EventNobodyStuck
  BY DEF EventInv, EventNobodyStuck
<1> QED
  BY <1>1, EventInvariant, PTL

(* A bit that a waiter receives and clears reaches no waiter behind it.    *)
THEOREM EventOnceCleared ==
    EventSpec => EventClearedOnce
<1> DEFINE Once ==
      \A t, u \in Thread :
         /\ Ahead(t, u) /\ info[t].clear
         /\ {t, u} \subseteq Granted("ev")'
         => info'[t].set \cap info'[u].set = {}
<1>1. EventInv /\ [EventNext]_<<ipcVars, eventVars>> => [Once]_<<ipcVars, eventVars>>
  BY EventNextStep
<1> QED
  BY <1>1, EventInvariant, PTL DEF EventSpec, EventClearedOnce

LEMMA EventFlushKeeps ==
    ASSUME CarefulFlush, EventInv, FlushInv("ev", "ev"), [EventNext]_<<ipcVars, eventVars>>
    PROVE  FlushInv("ev", "ev")'
<1> USE EventQueue
<1>1. IpcInv /\ pc \in [Thread -> Outside \cup Waiting \cup Flushes \cup Carrying]
  BY DEF EventInv, IpcInv, CallsType
<1>2. CASE UNCHANGED << ipcVars, eventVars >>
  <2>1. UNCHANGED << k, pc, wild, alive >>
    BY <1>2 DEF ipcVars
  <2> QED
    BY <2>1 DEF FlushInv, Blocked
<1>3. CASE (ThreadStep \/ Sleep) /\ UNCHANGED eventVars
  BY <1>1, <1>3, BackgroundStep, FlushBackground
<1>4. ASSUME Usable, wild' = wild,
             \A x \in Thread : pc'[x] = pc[x] \/ pc'[x] \notin Flushes
      PROVE  FlushInv("ev", "ev")'
  <2>1. \A x \in Thread : pc'[x] \notin Flushes
    BY <1>4 DEF Usable, Flushing
  <2> QED
    BY <1>4, <2>1, FlushNobody
<1>5. CASE \E S \in (SUBSET EventBit) \ {{}} : EventSendFromIsr(S)
  BY <1>4, <1>5 DEF EventSendFromIsr
<1>6. ASSUME NEW t \in Thread, EventCall(t)
      PROVE  FlushInv("ev", "ev")'
  <2>1. t \in Client
    BY <1>6, EventCaller
  <2>2. ASSUME Usable, wild' = wild, NEW l \in {"run", "sched", "block"},
               pc' = pc \/ pc' = [pc EXCEPT ![t] = l]
        PROVE  FlushInv("ev", "ev")'
    <3>1. \A x \in Thread : pc'[x] = pc[x] \/ pc'[x] \notin Flushes
      BY <1>1, <2>2 DEF Flushes
    <3> QED
      BY <1>4, <2>2, <3>1
  <2>3. CASE \E r \in Request : EventTake(t, r) \/ EventTry(t, r)
    <3>1. Usable /\ wild' = wild /\ pc' = pc
      BY <2>3 DEF EventTake, EventTry, Calls
    <3> QED
      BY <2>2, <3>1
  <2>4. CASE \E r \in Request, w \in WaitTime : EventBlock(t, r, w)
    <3>1. Usable /\ wild' = wild /\ pc' = [pc EXCEPT ![t] = "block"]
      BY <2>4 DEF EventBlock, Calls, WaitOn, Goto
    <3> QED
      BY <2>2, <3>1
  <2>5. CASE \E S \in (SUBSET EventBit) \ {{}} : EventSend(t, S)
    <3>1. PICK S \in (SUBSET EventBit) \ {{}} : EventSend(t, S)
      BY <2>5
    <3> DEFINE l == IF Walk(S).k = k THEN "run" ELSE "sched"
    <3>2. Usable /\ wild' = wild /\ pc' = [pc EXCEPT ![t] = l] /\ l \in {"run", "sched", "block"}
      BY <3>1 DEF EventSend, Calls, Goto
    <3> HIDE DEF l
    <3> QED
      BY <2>2, <3>2
  <2>6. CASE EventReturn(t)
    <3>1. UNCHANGED << wild, alive >> /\ pc' = [pc EXCEPT ![t] = "run"] /\ "run" \notin Flushes
      BY <2>6 DEF EventReturn, Return, EndWait, Goto, Flushes
    <3>2. \A x \in Thread : pc'[x] \in Flushes => pc'[x] = pc[x]
      BY <1>1, <3>1
    <3>3. Wakes({t}, {})
      BY <2>1, <2>6, EventReturnStep
    <3> QED
      BY <3>1, <3>2, <3>3, FlushReturn
  <2>7. CASE EventReset(t)
    <3>1. Usable /\ wild' = wild /\ pc' = [pc EXCEPT ![t] = "sched"]
      BY <2>7 DEF EventReset, Calls, Goto
    <3> QED
      BY <2>2, <3>1
  <2>8. CASE EventDetach(t)
    <3>1. {"ev", "ev"} = {"ev"} /\ FlushRound("flush", "flush1", "ev", "ev", "ev")
      BY DEF FlushRound
    <3>2. CASE FlushBegin(t, {"ev"}) /\ Usable
      BY <1>1, <2>1, <3>1, <3>2, FlushBeginKeeps
    <3>3. CASE FlushLook(t, "ev", "flush", "flush1", "run")
      BY <1>1, <2>1, <3>1, <3>3, FlushLookKeeps
    <3>4. CASE FlushWake(t, "ev", "flush", "flush1")
      BY <1>1, <2>1, <3>1, <3>4, FlushWakeKeeps
    <3> QED
      BY <2>8, <3>2, <3>3, <3>4 DEF EventDetach
  <2>9. CASE EventCreate(t)
    <3>1. ~alive /\ UNCHANGED << k, pc, wild >>
      BY <2>9 DEF EventCreate
    <3>2. \A x \in Thread : pc'[x] \notin Flushes
      BY <3>1 DEF FlushInv
    <3> QED
      BY <3>1, <3>2, FlushNobody
  <2> QED
    BY <1>6, <2>3, <2>4, <2>5, <2>6, <2>7, <2>8, <2>9 DEF EventCall
<1> QED
  BY <1>2, <1>3, <1>5, <1>6 DEF EventNext

(* A careful rt_event_detach wakes waiters and nothing else.               *)
THEOREM EventFlushSafe ==
    ASSUME CarefulFlush
    PROVE  EventSpec => []FlushWakesWaiters
<1>1. IpcInit => FlushInv("ev", "ev")
  BY FlushInvInit
<1>2. /\ EventInv /\ FlushInv("ev", "ev") /\ [EventNext]_<<ipcVars, eventVars>>
      => FlushInv("ev", "ev")'
  BY EventFlushKeeps
<1>3. FlushInv("ev", "ev") => FlushWakesWaiters
  BY DEF FlushInv, FlushWakesWaiters
<1> QED
  BY <1>1, <1>2, <1>3, EventInvariant, PTL DEF EventSpec

-----------------------------------------------------------------------------
(* The memory pool.                                                        *)

LEMMA PoolQueue == "mp" \in Queue /\ IsFiniteSet(Block)
  BY PoolAssumption

(* Every block is on the list l, once, or with one thread of o.            *)
Shares(l, o) ==
    /\ l \in Seq(Block) /\ NoRepeat(l) /\ o \in [Thread -> SUBSET Block]
    /\ \A b \in Block, t \in Thread : ~(Contains(l, b) /\ b \in o[t])
    /\ \A b \in Block, t, u \in Thread : b \in o[t] /\ b \in o[u] => t = u
    /\ \A b \in Block : Contains(l, b) \/ \E t \in Thread : b \in o[t]

(* A thread takes the first block, and gives a block back.                 *)
LEMMA TakeShares ==
    ASSUME NEW l, NEW o, Shares(l, o), l # << >>, NEW t \in Thread
    PROVE  /\ Shares(Tail(l), [o EXCEPT ![t] = o[t] \cup {Head(l)}])
           /\ Len(Tail(l)) = Len(l) - 1
<1> DEFINE n == Tail(l)
           h == Head(l)
           p == [o EXCEPT ![t] = o[t] \cup {h}]
<1>1. l \in Seq(Block) /\ NoRepeat(l)
  BY DEF Shares
<1>2. /\ n \in Seq(Block) /\ NoRepeat(n) /\ Len(n) = Len(l) - 1
      /\ h \in Block /\ Contains(l, h)
      /\ \A x : Contains(n, x) <=> Contains(l, x) /\ x # h
  BY <1>1, TailFacts
<1> HIDE DEF n, h
<1>3. p \in [Thread -> SUBSET Block] /\ \A x \in Thread, b \in Block : b \in p[x] <=> b \in o[x] \/ (x = t /\ b = h)
  BY <1>2 DEF Shares
<1> HIDE DEF p
<1>4. Shares(n, p)
  BY <1>2, <1>3 DEF Shares
<1> QED
  BY <1>2, <1>4 DEF n, h, p

LEMMA FreeShares ==
    ASSUME NEW l, NEW o, Shares(l, o), NEW t \in Thread, NEW b \in Block, b \in o[t]
    PROVE  /\ Shares(<<b>> \o l, [o EXCEPT ![t] = o[t] \ {b}])
           /\ Len(<<b>> \o l) = Len(l) + 1
<1> DEFINE n == <<b>> \o l
           p == [o EXCEPT ![t] = o[t] \ {b}]
<1>1. l \in Seq(Block) /\ NoRepeat(l) /\ ~Contains(l, b)
  BY DEF Shares
<1>2. /\ n \in Seq(Block) /\ NoRepeat(n)
      /\ \A x : Contains(n, x) <=> Contains(l, x) \/ x = b
  BY <1>1, PrependFacts
<1>3. Len(n) = Len(l) + 1
  <2>1. Len(<<b>>) = 1 /\ <<b>> \in Seq(Block)
    OBVIOUS
  <2> QED
    BY <1>1, <2>1, ConcatProperties, LenProperties
<1> HIDE DEF n
<1>4. p \in [Thread -> SUBSET Block] /\ \A x \in Thread, c \in Block : c \in p[x] <=> c \in o[x] /\ ~(x = t /\ c = b)
  BY DEF Shares
<1> HIDE DEF p
<1>5. Shares(n, p)
  BY <1>2, <1>4 DEF Shares
<1> QED
  BY <1>3, <1>5 DEF n, p

(* The pool's own data: no block is lost, and the count of the free ones   *)
(* is that of the list.                                                    *)
PoolBase ==
    /\ IpcInv /\ Shares(pool.list, owns)
    /\ pool = [free |-> pool.free, list |-> pool.list, waiting |-> pool.waiting]
    /\ pool.free = Len(pool.list) /\ pool.waiting \in Int
    /\ \A t \in Thread : pc[t] \in Waiting => want[t] = "mp"

LEMMA BlockBounds ==
    ASSUME NEW l \in Seq(Block), NoRepeat(l)
    PROVE  Len(l) \in 0..Cardinality(Block)
<1>1. Len(l) \in Nat /\ DOMAIN l = 1..Len(l) /\ l \in [1..Len(l) -> Block]
  BY LenProperties
<1>2. l \in Injection(1..Len(l), Block)
  BY <1>1 DEF Injection, IsInjective, NoRepeat
<1>3. Cardinality(1..Len(l)) <= Cardinality(Block) /\ Cardinality(Block) \in Nat
  BY <1>2, PoolQueue, FS_Injection, FS_CardinalityType
<1>4. Cardinality(1..Len(l)) = Len(l)
  <2>1. 1 \in Int /\ Len(l) \in Int
    BY <1>1
  <2>2. Cardinality(1..Len(l)) = IF 1 > Len(l) THEN 0 ELSE Len(l) - 1 + 1
    BY <2>1, FS_Interval
  <2> QED
    BY <1>1, <2>2
<1> QED
  BY <1>1, <1>3, <1>4

LEMMA FreshFacts ==
    /\ FreshPool.list = SetToSeq(Block) /\ FreshPool.free = Len(FreshPool.list) /\ FreshPool.waiting = 0
    /\ FreshPool = [free |-> FreshPool.free, list |-> FreshPool.list, waiting |-> FreshPool.waiting]
    /\ Shares(FreshPool.list, [t \in Thread |-> {}])
<1> DEFINE l == SetToSeq(Block)
           o == [t \in Thread |-> {}]
           n == Cardinality(Block)
<1>1. l \in Seq(Block) /\ NoRepeat(l) /\ \A x : Contains(l, x) <=> x \in Block
  BY PoolQueue, SetToSeqFacts
<1>2. o \in [Thread -> SUBSET Block] /\ \A t \in Thread : o[t] = {}
  OBVIOUS
<1>3. Len(l) = n
  <2>1. n \in Nat /\ ExistsBijection(1..n, Block)
    BY PoolQueue, FS_CardinalityType
  <2>2. \E f \in [1..n -> Block] : IsInjective(f)
    BY <2>1 DEF ExistsBijection, Bijection, Injection
  <2>3. l \in [1..n -> Block]
    BY <2>2 DEF SetToSeq
  <2> HIDE DEF l
  <2> QED
    BY <2>1, <2>3
<1> HIDE DEF l, o
<1>4. Shares(l, o)
  BY <1>1, <1>2 DEF Shares
<1>5. FreshPool = [free |-> n, list |-> l, waiting |-> 0]
  BY DEF FreshPool, l
<1> QED
  BY <1>3, <1>4, <1>5 DEF l, o

LEMMA PoolBaseImplies ==
    ASSUME PoolBase
    PROVE  IpcTypeOK /\ PoolTypeOK /\ KernelExact /\ HighestRunsIfAsked
<1>1. IpcTypeOK /\ KernelExact /\ HighestRunsIfAsked
  BY IpcInvImplies DEF PoolBase
<1>2. pool.list \in Seq(Block) /\ NoRepeat(pool.list) /\ owns \in [Thread -> SUBSET Block]
  BY DEF PoolBase, Shares
<1>3. pool.free \in 0..Cardinality(Block)
  BY <1>2, BlockBounds DEF PoolBase
<1> QED
  BY <1>1, <1>2, <1>3 DEF PoolBase, PoolTypeOK

-----------------------------------------------------------------------------
(* The steps of the pool, as the kernel sees them.                         *)

(* rt_mp_alloc suspends its caller and links it in front of the others.    *)
LEMMA LinkFirstNow ==
    ASSUME NEW s, KernelOK(s), NEW t \in Thread, s.stat[t] = "READY", NEW q \in Queue
    PROVE  LET r == LinkFirst(Suspend(s, t), q, t)
           IN  /\ Parked(s, r, t, q) /\ Stays(s, r) /\ r.error = s.error
               /\ ~Contains(r.timers, t)
<1> DEFINE a == Suspend(s, t)
           r == LinkFirst(a, q, t)
<1>1. /\ Parked(s, a, t, None) /\ Stays(s, a) /\ a.error = s.error
      /\ ~Contains(a.timers, t)
  BY SuspendNow
<1> HIDE DEF a
<1>2. KernelInv(a, {}) /\ a.stat[t] = "SUSPEND" /\ a.stat[t] # "READY" /\ t \notin {}
  BY <1>1 DEF Parked
<1>3. ~Contains(a.wait[q], t)
  BY <1>1, ReadyThread, IpcAssumption DEF Parked
<1>4. /\ KernelInv(r, {})
      /\ \A y \in Queue : \A x : Contains(r.wait[y], x) <=> Contains(a.wait[y], x) \/ (x = t /\ y = q)
  BY <1>2, <1>3, LinkFirstFacts
<1>5. a \in KernelType
  BY <1>2 DEF KernelInv
<1>6. /\ r.cur = a.cur /\ r.owed = a.owed /\ r.isr = a.isr /\ r.nest = a.nest
      /\ r.error = a.error /\ r.stat = a.stat /\ r.timers = a.timers /\ r.prio = a.prio
  BY <1>5 DEF LinkFirst, KernelType
<1> HIDE DEF r
<1>7. None \notin Queue
  BY IpcAssumption
<1>8. Parked(s, r, t, q)
  BY <1>1, <1>4, <1>6, <1>7 DEF Parked
<1> QED
  BY <1>1, <1>6, <1>8 DEF r, a, Stays

LEMMA PoolBlockNow ==
    ASSUME NEW s, KernelOK(s), NEW t \in Thread, s.stat[t] = "READY", NEW q \in Queue,
           NEW w \in {Forever} \cup Nat,
           NEW r, r = LET b == LinkFirst(Suspend(s, t), q, t)
                      IN  IF w = Forever THEN b ELSE TimerStart(b, t, w)
    PROVE  /\ Parked(s, r, t, q) /\ Stays(s, r) /\ r.error = s.error
           /\ w = Forever => ~Contains(r.timers, t)
<1> DEFINE b == LinkFirst(Suspend(s, t), q, t)
<1>1. Parked(s, b, t, q) /\ Stays(s, b) /\ b.error = s.error /\ ~Contains(b.timers, t)
  BY LinkFirstNow
<1>2. r = IF w = Forever THEN b ELSE TimerStart(b, t, w)
  OBVIOUS
<1> HIDE DEF b
<1>3. CASE w = Forever
  BY <1>1, <1>2, <1>3
<1>4. CASE w # Forever
  <2> DEFINE c == TimerStart(b, t, w)
  <2>1. r = c /\ w \in Nat
    BY <1>2, <1>4
  <2>2. KernelInv(b, {}) /\ b.stat[t] = "SUSPEND"
    BY <1>1 DEF Parked
  <2>3. /\ KernelInv(c, {}) /\ Stays(b, c)
        /\ c.stat = b.stat /\ c.wait = b.wait /\ c.nest = b.nest
        /\ c.prio = b.prio /\ c.error = b.error
        /\ \A x : Contains(c.timers, x) <=> Contains(b.timers, x) \/ x = t
    BY <2>1, <2>2, TimerStartNow
  <2> HIDE DEF c
  <2>4. Parked(s, c, t, q)
    BY <1>1, <2>3 DEF Parked
  <2> QED
    BY <1>1, <1>4, <2>1, <2>3, <2>4 DEF Stays
<1> QED
  BY <1>3, <1>4

PoolJoins(t, w) ==
    /\ \A x \in Thread : Blocked("mp", x)' <=> Blocked("mp", x) \/ x = t
    /\ \A x \in Thread : Contains(k'.timers, x) => Contains(k.timers, x) \/ (x = t /\ w # Forever)
    /\ Granted("mp")' = Granted("mp")
    /\ pc' = [pc EXCEPT ![t] = "block"]

LEMMA PoolBlockStep ==
    ASSUME IpcInv, NEW t \in Client, NEW w \in WaitTime, PoolAllocBlock(t, w)
    PROVE  IpcInv' /\ PoolJoins(t, w) /\ ~Blocked("mp", t)
<1> USE PoolQueue
<1>1. /\ Running(t) /\ pc[t] = "run" /\ t \in Thread /\ k.cur = t
      /\ pc' = [pc EXCEPT ![t] = "block"] /\ want' = [want EXCEPT ![t] = "mp"]
      /\ wild' = wild /\ alive' = alive /\ budget' = budget
  BY DEF PoolAllocBlock, Calls, At, Client, Running, WaitOn, Goto
<1>2. KernelOK(k) /\ ThreadsOK(k, pc, want) /\ CallsType /\ k.stat[t] = "READY"
  BY <1>1, RunnerReady DEF IpcInv
<1>3. w \in {Forever} \cup Nat
  BY IpcAssumption DEF WaitTime
<1>4. /\ Parked(k, k', t, "mp") /\ Stays(k, k') /\ k'.error = k.error
      /\ w = Forever => ~Contains(k'.timers, t)
  <2>1. k' = LET b == LinkFirst(Suspend(k, t), "mp", t)
             IN  IF w = Forever THEN b ELSE TimerStart(b, t, w)
    BY DEF PoolAllocBlock
  <2> QED
    BY <1>1, <1>2, <1>3, <2>1, PoolBlockNow
<1>5. "mp" # None /\ "mp" \in Queue \cup {None}
  BY IpcAssumption
<1>6. KernelOK(k') /\ ThreadsOK(k', pc', want')
  <2> DEFINE q == "mp"
  <2>1. k.cur = t /\ k'.cur = t /\ pc[t] \notin {"block", "sleep"}
    BY <1>1, <1>4 DEF Stays
  <2>2. /\ pc' = [pc EXCEPT ![t] = IF q = None THEN "sleep" ELSE "block"]
        /\ want' = IF q = None THEN want ELSE [want EXCEPT ![t] = q]
        /\ Parked(k, k', t, q) /\ q \in Queue \cup {None}
    BY <1>1, <1>4, <1>5
  <2> HIDE DEF q
  <2> QED
    BY <1>2, <2>1, <2>2, ParkStep
<1>7. CallsType'
  BY <1>1, <1>2 DEF CallsType, Waiting
<1>8. \A x \in Thread : Blocked("mp", x)' <=> Blocked("mp", x) \/ x = t
  BY <1>4 DEF Parked, Blocked
<1>9. Granted("mp")' = Granted("mp")
  <2>1. t \notin Granted("mp")' /\ t \notin Granted("mp")
    BY <1>1, <1>8 DEF Granted, Waiting
  <2>2. \A x \in Thread \ {t} : pc'[x] = pc[x] /\ want'[x] = want[x] /\ k'.error[x] = k.error[x]
    BY <1>1, <1>2, <1>4 DEF CallsType
  <2>3. \A x \in Thread \ {t} : x \in Granted("mp")' <=> x \in Granted("mp")
    BY <1>8, <2>2 DEF Granted
  <2> QED
    BY <2>1, <2>3 DEF Granted
<1>10. \A x \in Thread : Contains(k'.timers, x) => Contains(k.timers, x) \/ (x = t /\ w # Forever)
  BY <1>4 DEF Parked
<1>11. ~Blocked("mp", t)
  BY <1>1, NotWaiting
<1> QED
  BY <1>1, <1>6, <1>7, <1>8, <1>9, <1>10, <1>11 DEF IpcInv, PoolJoins

(* rt_mp_free wakes the first waiter, whose error it clears.               *)
LEMMA WakeForBlockNow ==
    ASSUME IpcInv, k.wait["mp"] # << >>, NEW h, h = Head(k.wait["mp"]), NEW r, r = WakeForBlock
    PROVE  /\ h \in Thread /\ Blocked("mp", h) /\ k.stat[h] = "SUSPEND" /\ KernelOK(r)
           /\ Woken(k, r, {h}) /\ Stays(k, r) /\ r.error[h] = "EOK"
           /\ \A x \in Thread \ {h} : r.error[x] = k.error[x]
<1> USE PoolQueue
<1> DEFINE a == [k EXCEPT !.error[h] = "EOK"]
           W == {h}
<1>1. KernelOK(k)
  BY DEF IpcInv
<1>2. h \in Thread /\ Contains(k.wait["mp"], h) /\ k.stat[h] = "SUSPEND"
  BY <1>1, FirstWaiter
<1>3. /\ Woken(k, a, {}) /\ Stays(k, a) /\ a.stat = k.stat
      /\ a.error = [k.error EXCEPT ![h] = "EOK"]
  BY <1>1, <1>2, ErrorFacts DEF Errno
<1>4. r = Resume(a, h)
  BY DEF WakeForBlock
<1> HIDE DEF a
<1>5. KernelOK(a) /\ a.stat[h] = "SUSPEND"
  BY <1>1, <1>2, <1>3, WokenKernelOK DEF KernelOK, Stays
<1>6. Woken(a, r, W) /\ Stays(a, r) /\ r.error = a.error
  BY <1>2, <1>4, <1>5, ResumeFacts
<1>7. {} \cup W = W
  OBVIOUS
<1> HIDE DEF W
<1>8. Woken(k, r, W)
  BY <1>3, <1>6, <1>7, WokenMore
<1>9. k.error \in [Thread -> Errno]
  BY <1>1 DEF KernelOK, KernelInv, KernelType
<1>10. r.error[h] = "EOK" /\ \A x \in Thread \ W : r.error[x] = k.error[x]
  <2>1. r.error = [k.error EXCEPT ![h] = "EOK"]
    BY <1>3, <1>6
  <2> QED
    BY <1>2, <1>9, <2>1 DEF W
<1>11. Stays(k, r)
  BY <1>3, <1>6 DEF Stays
<1>12. KernelOK(r)
  BY <1>1, <1>8, <1>11, WokenKernelOK DEF KernelOK, Stays
<1> QED
  BY <1>2, <1>8, <1>10, <1>11, <1>12 DEF W, Blocked

LEMMA PoolWakeStep ==
    ASSUME IpcInv, NEW t \in Client, Running(t), pc[t] = "run", k.wait["mp"] # << >>,
           NEW h, h = Head(k.wait["mp"]), k' = WakeForBlock,
           pc' = [pc EXCEPT ![t] = "sched"], UNCHANGED << wild, alive, want, budget >>
    PROVE  IpcInv' /\ Wakes({t}, {h}) /\ h \in Thread /\ Blocked("mp", h) /\ k'.error[h] = "EOK"
<1> DEFINE W == {h}
<1>1. CallsType /\ k.cur = t
  BY DEF IpcInv, Running
<1>2. /\ h \in Thread /\ Blocked("mp", h) /\ Woken(k, k', W) /\ k'.cur = t /\ k'.error[h] = "EOK"
      /\ \A x \in Thread \ W : k'.error[x] = k.error[x]
  <2> DEFINE r == WakeForBlock
  <2>1. /\ h \in Thread /\ Blocked("mp", h) /\ Woken(k, r, W) /\ Stays(k, r) /\ r.error[h] = "EOK"
        /\ \A x \in Thread \ W : r.error[x] = k.error[x]
    BY WakeForBlockNow
  <2>2. k' = r
    OBVIOUS
  <2> HIDE DEF r, W
  <2> QED
    BY <1>1, <2>1, <2>2 DEF Stays
<1>3. W \in SUBSET Thread /\ \A x \in W : \E q \in Queue : Contains(k.wait[q], x)
  BY <1>2, PoolQueue DEF Blocked
<1> HIDE DEF W
<1>4. /\ wild' \in BOOLEAN /\ alive' \in BOOLEAN /\ want' = want
      /\ budget' \in [Thread -> {Forever} \cup 0..MaxWait]
  BY <1>1 DEF CallsType
<1>5. IpcInv' /\ Wakes({t}, W)
  BY <1>2, <1>3, <1>4, WakeAndSchedule
<1> QED
  BY <1>2, <1>5 DEF W

(* The same in an interrupt handler, whose rt_schedule is at once.         *)
LEMMA PoolIsrWakeStep ==
    ASSUME IpcInv, k.wait["mp"] # << >>, NEW h, h = Head(k.wait["mp"]),
           k' = Schedule(WakeForBlock), UNCHANGED << pc, wild, alive, want, budget >>
    PROVE  IpcInv' /\ Wakes({}, {h}) /\ h \in Thread /\ Blocked("mp", h) /\ k'.error[h] = "EOK"
<1> DEFINE W == {h}
           a == WakeForBlock
<1>1. /\ h \in Thread /\ Blocked("mp", h) /\ k.stat[h] = "SUSPEND" /\ KernelOK(a)
      /\ Woken(k, a, W) /\ a.error[h] = "EOK"
      /\ \A x \in Thread \ W : a.error[x] = k.error[x]
  BY WakeForBlockNow
<1>2. k' = Schedule(a)
  OBVIOUS
<1> HIDE DEF a
<1>3. Woken(a, k', {}) /\ Dispatched(k') /\ k'.error = a.error
  BY <1>1, <1>2, ScheduleNow
<1>4. W \cup {} = W
  OBVIOUS
<1>5. W \in SUBSET Thread /\ \A x \in W : k.stat[x] = "SUSPEND" /\ \E q \in Queue : Contains(k.wait[q], x)
  BY <1>1, PoolQueue DEF Blocked
<1> HIDE DEF W
<1>6. Woken(k, k', W)
  BY <1>1, <1>3, <1>4, WokenMore
<1>7. CallsType' /\ KernelOK(k') /\ ThreadsOK(k', pc, want)
  <2>1. CallsType'
    BY DEF IpcInv, CallsType
  <2>2. KernelOK(k') /\ ThreadsOK(k', pc, want)
    BY <1>3, <1>6, DispatchStep DEF IpcInv
  <2> QED
    BY <2>1, <2>2
<1>8. Wakes({}, W)
  BY <1>1, <1>3, <1>5, <1>6, LikeItself, WakesFacts
<1> QED
  BY <1>1, <1>3, <1>7, <1>8 DEF IpcInv, W

(* A handler's rt_schedule that has woken nobody.                          *)
LEMMA PoolIsrSchedule ==
    ASSUME IpcInv, k' = Schedule(k), wild' \in BOOLEAN, UNCHANGED << pc, alive, want, budget >>
    PROVE  IpcInv'
<1>1. Woken(k, k', {}) /\ Dispatched(k')
  BY ScheduleNow DEF IpcInv
<1>2. CallsType'
  BY DEF IpcInv, CallsType
<1>3. KernelOK(k') /\ ThreadsOK(k', pc, want)
  BY <1>1, DispatchStep DEF IpcInv
<1> QED
  BY <1>2, <1>3 DEF IpcInv

-----------------------------------------------------------------------------
(* The steps of the pool and its blocks.                                   *)

LEMMA PoolInitFacts ==
    ASSUME IpcInit, PoolInit
    PROVE  PoolBase
<1>1. IpcInv /\ \A t \in Thread : pc[t] = "run"
  BY IpcInitFacts
<1>2. pool = FreshPool /\ owns = [t \in Thread |-> {}]
  BY DEF PoolInit
<1> QED
  BY <1>1, <1>2, FreshFacts DEF PoolBase, Waiting

(* Nobody begins to wait.                                                  *)
NoneWaits ==
    \A x \in Thread : pc'[x] \in Waiting => pc[x] \in Waiting /\ want'[x] = want[x]

LEMMA TakeBlockStep ==
    ASSUME PoolBase, IpcInv', NoneWaits, NEW t \in Thread, TakeBlock(t), pool.list # << >>
    PROVE  PoolBase' /\ pool'.free = pool.free - 1 /\ pool'.waiting = pool.waiting
<1>1. /\ pool' = [free |-> pool.free - 1, list |-> Tail(pool.list), waiting |-> pool.waiting]
      /\ owns' = [owns EXCEPT ![t] = owns[t] \cup {Head(pool.list)}]
  <2>1. pool = [free |-> pool.free, list |-> pool.list, waiting |-> pool.waiting]
    BY DEF PoolBase
  <2> QED
    BY <2>1 DEF TakeBlock
<1>2. Shares(Tail(pool.list), owns') /\ Len(Tail(pool.list)) = Len(pool.list) - 1
  BY <1>1, TakeShares DEF PoolBase
<1>3. /\ pool'.free = pool.free - 1 /\ pool'.list = Tail(pool.list) /\ pool'.waiting = pool.waiting
      /\ pool' = [free |-> pool'.free, list |-> pool'.list, waiting |-> pool'.waiting]
  BY <1>1
<1>4. pool'.free = Len(pool'.list) /\ Shares(pool'.list, owns')
  BY <1>2, <1>3 DEF PoolBase
<1> QED
  BY <1>3, <1>4 DEF PoolBase, NoneWaits

(* Only the count of the waiters, and nothing else of the pool, changes.   *)
LEMMA SameBlocks ==
    ASSUME PoolBase, IpcInv', NoneWaits, NEW n \in Int, owns' = owns,
           pool' = [pool EXCEPT !.waiting = n]
    PROVE  PoolBase' /\ pool'.free = pool.free /\ pool'.waiting = n
<1>1. /\ pool'.free = pool.free /\ pool'.list = pool.list /\ pool'.waiting = n
      /\ pool' = [free |-> pool'.free, list |-> pool'.list, waiting |-> pool'.waiting]
  BY DEF PoolBase
<1> QED
  BY <1>1 DEF PoolBase, NoneWaits

LEMMA PoolSame ==
    ASSUME PoolBase, IpcInv', NoneWaits, UNCHANGED poolVars
    PROVE  PoolBase'
  BY DEF PoolBase, NoneWaits, poolVars

LEMMA GoesOn ==
    ASSUME IpcInv, NEW t \in Thread, NEW l, l \notin Waiting, pc' = [pc EXCEPT ![t] = l],
           want' = want \/ want' = [want EXCEPT ![t] = None]
    PROVE  NoneWaits
  BY DEF IpcInv, CallsType, NoneWaits

LEMMA PoolAllocFreeStep ==
    ASSUME PoolBase, NEW t \in Client, PoolAllocFree(t) \/ PoolAllocFromIsr(t)
    PROVE  PoolBase' /\ pool'.free = pool.free - 1 /\ pool'.waiting = pool.waiting
<1>1. UNCHANGED << k, pc, wild, alive, want, budget >> /\ pool.free > 0 /\ TakeBlock(t) /\ t \in Thread
  BY DEF PoolAllocFree, PoolAllocFromIsr, ipcVars, Client
<1>2. IpcInv' /\ NoneWaits
  BY <1>1 DEF PoolBase, IpcInv, CallsType, NoneWaits
<1>3. pool.list # << >>
  <2>1. Len(pool.list) # 0 /\ pool.list \in Seq(Block)
    BY <1>1 DEF PoolBase, Shares
  <2> QED
    BY <2>1, EmptySeq
<1> QED
  BY <1>1, <1>2, <1>3, TakeBlockStep

LEMMA PoolAllocBlockStep ==
    ASSUME PoolBase, NEW t \in Client, NEW w \in WaitTime, PoolAllocBlock(t, w)
    PROVE  PoolBase' /\ pool'.free = pool.free /\ pool'.waiting = pool.waiting + 1
<1>1. IpcInv' /\ pool' = [pool EXCEPT !.waiting = pool.waiting + 1] /\ owns' = owns
  BY PoolBlockStep DEF PoolBase, PoolAllocBlock
<1>2. /\ pool'.free = pool.free /\ pool'.list = pool.list /\ pool'.waiting = pool.waiting + 1
      /\ pool' = [free |-> pool'.free, list |-> pool'.list, waiting |-> pool'.waiting]
  BY <1>1 DEF PoolBase
<1>3. \A x \in Thread : pc'[x] \in Waiting => want'[x] = "mp"
  <2>1. pc' = [pc EXCEPT ![t] = "block"] /\ want' = [want EXCEPT ![t] = "mp"] /\ t \in Thread
    BY DEF PoolAllocBlock, WaitOn, Goto, Client
  <2> QED
    BY <2>1 DEF PoolBase, IpcInv, CallsType
<1>4. pool'.waiting \in Int
  BY <1>2 DEF PoolBase
<1> QED
  BY <1>1, <1>2, <1>3, <1>4 DEF PoolBase

LEMMA PoolAllocWokenStep ==
    ASSUME PoolBase, NEW t \in Client, PoolAllocWoken(t)
    PROVE  /\ PoolBase' /\ Wakes({t}, {}) /\ pc' = [pc EXCEPT ![t] = "run"] /\ alive' = alive
           /\ t \in Granted("mp") <=> k.error[t] = "EOK"
           /\ k.error[t] # "EOK" => UNCHANGED << wild, pool >>
           /\ k.error[t] = "EOK" /\ pool.list # << >> =>
                 wild' = wild /\ pool'.free = pool.free - 1 /\ pool'.waiting = pool.waiting
<1> USE PoolQueue
<1>1. /\ Running(t) /\ pc[t] = "woken" /\ t \in Thread /\ UNCHANGED << k, alive >>
      /\ pc' = [pc EXCEPT ![t] = "run"] /\ want' = [want EXCEPT ![t] = None]
      /\ budget' = [budget EXCEPT ![t] = Forever]
  BY DEF PoolAllocWoken, At, Return, EndWait, Goto, Client
<1>2. \/ k.error[t] # "EOK" /\ UNCHANGED << wild, pool, owns >>
      \/ k.error[t] = "EOK" /\ pool.list # << >> /\ TakeBlock(t) /\ wild' = wild
      \/ k.error[t] = "EOK" /\ pool.list = << >> /\ wild' = TRUE /\ UNCHANGED << pool, owns >>
  BY DEF PoolAllocWoken, poolVars
<1>3. budget' \in [Thread -> {Forever} \cup 0..MaxWait] /\ wild' \in BOOLEAN /\ alive' \in BOOLEAN
  BY <1>1, <1>2 DEF PoolBase, IpcInv, CallsType
<1>4. IpcInv' /\ Wakes({t}, {})
  <2>1. "run" \in CallerSteps /\ IpcInv
    BY DEF CallerSteps, Outside, PoolBase
  <2> QED
    BY <1>1, <1>3, <2>1, PlainStep
<1>5. ~Blocked("mp", t)
  BY <1>1, NotWaiting DEF PoolBase
<1>6. t \in Granted("mp") <=> k.error[t] = "EOK"
  BY <1>1, <1>5 DEF Granted, Waiting, PoolBase
<1>7. NoneWaits
  <2>1. "run" \notin Waiting /\ IpcInv
    BY DEF Waiting, PoolBase
  <2> QED
    BY <1>1, <2>1, GoesOn
<1>8. CASE k.error[t] = "EOK" /\ pool.list # << >> /\ TakeBlock(t) /\ wild' = wild
  <2>1. PoolBase' /\ pool'.free = pool.free - 1 /\ pool'.waiting = pool.waiting
    BY <1>1, <1>4, <1>7, <1>8, TakeBlockStep
  <2> QED
    BY <1>1, <1>4, <1>6, <1>8, <2>1
<1>9. CASE UNCHANGED << pool, owns >> /\ ~(k.error[t] = "EOK" /\ pool.list # << >>)
  <2>1. PoolBase'
    BY <1>4, <1>7, <1>9, PoolSame DEF poolVars
  <2> QED
    BY <1>1, <1>2, <1>4, <1>6, <1>9, <2>1
<1> QED
  BY <1>2, <1>8, <1>9

(* rt_mp_free has put block b back and counts n waiters.                   *)
LEMMA BlockBack ==
    ASSUME PoolBase, IpcInv', NoneWaits, NEW t \in Thread, NEW b \in Block, b \in owns[t],
           owns' = [owns EXCEPT ![t] = owns[t] \ {b}], NEW n \in Int,
           pool' = [free |-> pool.free + 1, list |-> << b >> \o pool.list, waiting |-> n]
    PROVE  PoolBase' /\ pool'.free = pool.free + 1 /\ pool'.waiting = n
<1>1. Shares(<< b >> \o pool.list, owns') /\ Len(<< b >> \o pool.list) = Len(pool.list) + 1
  BY FreeShares DEF PoolBase
<1>2. /\ pool'.free = pool.free + 1 /\ pool'.list = << b >> \o pool.list /\ pool'.waiting = n
      /\ pool' = [free |-> pool'.free, list |-> pool'.list, waiting |-> pool'.waiting]
  OBVIOUS
<1>3. pool'.free = Len(pool'.list) /\ Shares(pool'.list, owns')
  BY <1>1, <1>2 DEF PoolBase
<1> QED
  BY <1>2, <1>3 DEF PoolBase, NoneWaits

LEMMA OneWaiterLess ==
    ASSUME NEW f, NEW l, NEW n
    PROVE  WakeWaiter([free |-> f, list |-> l, waiting |-> n]) = [free |-> f, list |-> l, waiting |-> n - 1]
  BY DEF WakeWaiter

(* The blocks after rt_mp_free, whoever calls it.                          *)
LEMMA PutBackFacts ==
    ASSUME PoolBase, NEW t \in Thread, NEW b \in Block, PutBack(t, b)
    PROVE  /\ UNCHANGED << alive, want, budget >> /\ wild' \in BOOLEAN
           /\ pool.waiting = 0 \/ k.wait["mp"] # << >> => wild' = wild
           /\ IpcInv' /\ NoneWaits =>
                 /\ PoolBase' /\ pool'.free = pool.free + 1
                 /\ pool'.waiting = IF pool.waiting = 0 THEN pool.waiting ELSE pool.waiting - 1
<1> DEFINE n == IF pool.waiting = 0 THEN pool.waiting ELSE pool.waiting - 1
           p == [free |-> pool.free + 1, list |-> << b >> \o pool.list, waiting |-> pool.waiting]
<1>1. pool.waiting \in Int /\ n \in Int /\ wild \in BOOLEAN
  BY DEF PoolBase, IpcInv, CallsType
<1>2. /\ b \in owns[t] /\ owns' = [owns EXCEPT ![t] = owns[t] \ {b}]
      /\ UNCHANGED << alive, want, budget >>
      /\ wild' = (wild \/ (pool.waiting # 0 /\ k.wait["mp"] = << >>))
      /\ pool' = IF pool.waiting = 0 THEN p ELSE WakeWaiter(p)
  BY DEF PutBack, waitVars
<1>3. pool' = [free |-> pool.free + 1, list |-> << b >> \o pool.list, waiting |-> n]
  BY <1>2, OneWaiterLess
<1> HIDE DEF n, p
<1>4. ASSUME IpcInv', NoneWaits
      PROVE  PoolBase' /\ pool'.free = pool.free + 1 /\ pool'.waiting = n
  BY <1>1, <1>2, <1>3, <1>4, BlockBack
<1>5. wild' \in BOOLEAN /\ (pool.waiting = 0 \/ k.wait["mp"] # << >> => wild' = wild)
  BY <1>1, <1>2
<1> QED
  BY <1>2, <1>4, <1>5 DEF n

(* What rt_mp_free does, called by the threads of S or by a handler.       *)
FreeOutcome(S) ==
    /\ PoolBase' /\ alive' = alive /\ pool'.free = pool.free + 1
    /\ pool.waiting = 0 => UNCHANGED << k, pc, want, wild >> /\ pool'.waiting = pool.waiting
    /\ pool.waiting # 0 /\ k.wait["mp"] # << >> =>
          /\ pool'.waiting = pool.waiting - 1 /\ wild' = wild
          /\ \A x \in Thread : pc'[x] \in {pc[x], "sched"}
          /\ \E h \in Thread : Wakes(S, {h}) /\ Blocked("mp", h) /\ k'.error[h] = "EOK"

LEMMA PoolFreeStep ==
    ASSUME PoolBase, NEW t \in Client, NEW b \in Block, PoolFree(t, b)
    PROVE  FreeOutcome({t})
<1> USE PoolQueue
<1> DEFINE h == Head(k.wait["mp"])
<1>1. /\ Running(t) /\ pc[t] = "run" /\ t \in Thread /\ PutBack(t, b) /\ IpcInv
      /\ pool.waiting = 0 => UNCHANGED << k, pc >>
      /\ pool.waiting # 0 => k' = WakeForBlock /\ pc' = [pc EXCEPT ![t] = "sched"]
  BY DEF PoolFree, Calls, At, Client, Goto, PoolBase
<1>2. /\ UNCHANGED << alive, want, budget >> /\ wild' \in BOOLEAN
      /\ pool.waiting = 0 \/ k.wait["mp"] # << >> => wild' = wild
      /\ IpcInv' /\ NoneWaits =>
            /\ PoolBase' /\ pool'.free = pool.free + 1
            /\ pool'.waiting = IF pool.waiting = 0 THEN pool.waiting ELSE pool.waiting - 1
  BY <1>1, PutBackFacts
<1>3. "sched" \notin Waiting /\ "sched" \in CallerSteps
  BY DEF Waiting, CallerSteps, Outside
<1>4. CASE pool.waiting = 0
  <2>1. IpcInv' /\ NoneWaits
    BY <1>1, <1>2, <1>4 DEF IpcInv, CallsType, NoneWaits
  <2> QED
    BY <1>1, <1>2, <1>4, <2>1 DEF FreeOutcome
<1>5. CASE pool.waiting # 0 /\ k.wait["mp"] # << >>
  <2>1. IpcInv' /\ Wakes({t}, {h}) /\ h \in Thread /\ Blocked("mp", h) /\ k'.error[h] = "EOK"
    BY <1>1, <1>2, <1>5, PoolWakeStep
  <2> HIDE DEF h
  <2>2. NoneWaits
    BY <1>1, <1>2, <1>3, <1>5, GoesOn
  <2>3. \A x \in Thread : pc'[x] \in {pc[x], "sched"}
    BY <1>1, <1>5 DEF IpcInv, CallsType
  <2> QED
    BY <1>2, <1>5, <2>1, <2>2, <2>3 DEF FreeOutcome
<1>6. CASE pool.waiting # 0 /\ k.wait["mp"] = << >>
  <2>1. k' = k
    BY <1>1, <1>6 DEF WakeForBlock
  <2>2. IpcInv'
    <3>1. /\ alive' \in BOOLEAN /\ want' = want
          /\ budget' \in [Thread -> {Forever} \cup 0..MaxWait]
      BY <1>1, <1>2 DEF IpcInv, CallsType
    <3> QED
      BY <1>1, <1>2, <1>3, <1>6, <2>1, <3>1, PlainStep
  <2>3. NoneWaits
    BY <1>1, <1>2, <1>3, <1>6, GoesOn
  <2> QED
    BY <1>2, <1>6, <2>2, <2>3 DEF FreeOutcome
<1> QED
  BY <1>4, <1>5, <1>6

LEMMA PoolFreeFromIsrStep ==
    ASSUME PoolBase, NEW t \in Client, NEW b \in Block, PoolFreeFromIsr(t, b)
    PROVE  FreeOutcome({})
<1> USE PoolQueue
<1> DEFINE h == Head(k.wait["mp"])
<1>1. /\ t \in Thread /\ PutBack(t, b) /\ IpcInv /\ pc' = pc
      /\ k' = IF pool.waiting = 0 THEN k ELSE Schedule(WakeForBlock)
  BY DEF PoolFreeFromIsr, Client, PoolBase
<1>2. /\ UNCHANGED << alive, want, budget >> /\ wild' \in BOOLEAN
      /\ pool.waiting = 0 \/ k.wait["mp"] # << >> => wild' = wild
      /\ IpcInv' /\ NoneWaits =>
            /\ PoolBase' /\ pool'.free = pool.free + 1
            /\ pool'.waiting = IF pool.waiting = 0 THEN pool.waiting ELSE pool.waiting - 1
  BY <1>1, PutBackFacts
<1>3. NoneWaits
  BY <1>1, <1>2 DEF NoneWaits
<1>4. CASE pool.waiting = 0
  <2>1. IpcInv'
    BY <1>1, <1>2, <1>4 DEF IpcInv, CallsType
  <2> QED
    BY <1>1, <1>2, <1>3, <1>4, <2>1 DEF FreeOutcome
<1>5. CASE pool.waiting # 0 /\ k.wait["mp"] # << >>
  <2>1. IpcInv' /\ Wakes({}, {h}) /\ h \in Thread /\ Blocked("mp", h) /\ k'.error[h] = "EOK"
    BY <1>1, <1>2, <1>5, PoolIsrWakeStep
  <2> HIDE DEF h
  <2> QED
    BY <1>1, <1>2, <1>3, <1>5, <2>1 DEF FreeOutcome
<1>6. CASE pool.waiting # 0 /\ k.wait["mp"] = << >>
  <2>1. k' = Schedule(k)
    BY <1>1, <1>6 DEF WakeForBlock
  <2>2. IpcInv'
    BY <1>1, <1>2, <2>1, PoolIsrSchedule
  <2> QED
    BY <1>2, <1>3, <1>6, <2>2 DEF FreeOutcome
<1> QED
  BY <1>4, <1>5, <1>6

LEMMA PoolDetachStep ==
    ASSUME PoolBase, NEW t \in Thread, PoolDetach(t)
    PROVE  /\ PoolBase' /\ t \in Client /\ pool'.free = pool.free
           /\ \/ /\ \/ FlushBegin(t, {"mp"}) /\ Usable /\ (CarefulFlush => NoOtherCall({"mp"}))
                    \/ FlushLook(t, "mp", "flush", "flush1", "run")
                 /\ Wakes({t}, {}) /\ pool'.waiting = pool.waiting
              \/ /\ FlushWake(t, "mp", "flush", "flush1")
                 /\ Wakes({t}, First(k, "mp")) /\ \A x \in First(k, "mp") : k'.error[x] = "ERROR"
                 /\ pool'.waiting = pool.waiting - 1
<1> USE PoolQueue
<1>1. IpcInv /\ pool.waiting \in Int
  BY DEF PoolBase
<1>2. "flush" \in Flushes /\ "flush1" \in Flushes /\ "flush1" \in CallerSteps /\ "run" \in CallerSteps
  BY DEF Flushes, CallerSteps, Outside
<1>3. t \in Client
  BY <1>1, IpcAssumption DEF PoolDetach, FlushBegin, FlushLook, FlushWake, At, IpcInv, ThreadsOK, Client
<1>4. \A l \in {"flush", "flush1", "run"} : l \notin Waiting
  BY DEF Waiting
<1>5. CASE /\ FlushBegin(t, {"mp"}) /\ Usable /\ (CarefulFlush => NoOtherCall({"mp"}))
           /\ UNCHANGED poolVars
  <2>1. IpcInv' /\ Wakes({t}, {})
    BY <1>1, <1>3, <1>5, FlushBeginStep
  <2>2. pc' = [pc EXCEPT ![t] = "flush"] /\ want' = want
    BY <1>5 DEF FlushBegin, Goto, waitVars
  <2>3. NoneWaits
    BY <1>1, <1>4, <2>2, GoesOn
  <2>4. PoolBase' /\ pool' = pool
    BY <1>5, <2>1, <2>3, PoolSame DEF poolVars
  <2> QED
    BY <1>3, <1>5, <2>1, <2>4
<1>6. CASE FlushLook(t, "mp", "flush", "flush1", "run") /\ UNCHANGED poolVars
  <2>1. IpcInv' /\ Wakes({t}, {})
    BY <1>1, <1>2, <1>3, <1>6, FlushLookStep
  <2> DEFINE l == IF k.wait["mp"] = << >> THEN "run" ELSE "flush1"
  <2>2. pc' = [pc EXCEPT ![t] = l] /\ want' = want /\ l \notin Waiting
    BY <1>4, <1>6 DEF FlushLook, Goto, waitVars
  <2> HIDE DEF l
  <2>3. NoneWaits
    BY <1>1, <2>2, GoesOn
  <2>4. PoolBase' /\ pool' = pool
    BY <1>6, <2>1, <2>3, PoolSame DEF poolVars
  <2> QED
    BY <1>3, <1>6, <2>1, <2>4
<1>7. CASE /\ FlushWake(t, "mp", "flush", "flush1")
           /\ pool' = WakeWaiter(pool) /\ UNCHANGED owns
  <2>1. IpcInv' /\ Wakes({t}, First(k, "mp")) /\ \A x \in First(k, "mp") : k'.error[x] = "ERROR"
    BY <1>1, <1>2, <1>3, <1>7, FlushWakeStep
  <2>2. pc' = [pc EXCEPT ![t] = "flush"] /\ want' = want
    BY <1>7 DEF FlushWake, Goto, waitVars
  <2>3. NoneWaits
    BY <1>1, <1>4, <2>2, GoesOn
  <2> DEFINE n == pool.waiting - 1
  <2>4. n \in Int /\ owns' = owns /\ pool' = [pool EXCEPT !.waiting = n]
    BY <1>1, <1>7 DEF WakeWaiter
  <2> HIDE DEF n
  <2>5. PoolBase' /\ pool'.free = pool.free /\ pool'.waiting = n
    BY <2>1, <2>3, <2>4, SameBlocks
  <2> QED
    BY <1>3, <1>7, <2>1, <2>5 DEF n
<1> QED
  BY <1>5, <1>6, <1>7 DEF PoolDetach

LEMMA PoolCreateStep ==
    ASSUME PoolBase, NEW t \in Thread, PoolCreate(t)
    PROVE  /\ PoolBase' /\ pool'.waiting = 0 /\ ~alive /\ alive' = TRUE
           /\ UNCHANGED << k, pc, wild, want >>
<1>1. /\ UNCHANGED << k, pc, wild, want, budget >> /\ ~alive /\ alive' = TRUE
      /\ pool' = FreshPool /\ owns' = [u \in Thread |-> {}]
  BY DEF PoolCreate, waitVars
<1>2. IpcInv'
  BY <1>1 DEF PoolBase, IpcInv, CallsType
<1>3. /\ Shares(pool'.list, owns') /\ pool'.free = Len(pool'.list) /\ pool'.waiting = 0
      /\ pool' = [free |-> pool'.free, list |-> pool'.list, waiting |-> pool'.waiting]
  BY <1>1, FreshFacts
<1> QED
  BY <1>1, <1>2, <1>3 DEF PoolBase

LEMMA PoolBackground ==
    ASSUME PoolBase, Background, UNCHANGED poolVars
    PROVE  PoolBase'
<1>1. NoneWaits /\ IpcInv'
  BY DEF Background, NoneWaits, Waiting, Outside
<1> QED
  BY <1>1, PoolSame

LEMMA PoolCaller ==
    ASSUME PoolBase, NEW t \in Thread
    PROVE  /\ PoolAllocFree(t) => t \in Client
           /\ PoolAllocWoken(t) => t \in Client
           /\ \A w : PoolAllocBlock(t, w) => t \in Client
           /\ \A b : PoolFree(t, b) => t \in Client
<1>1. pc[t] = "woken" => t \in Client
  BY DEF PoolBase, IpcInv, ThreadsOK, Client
<1> QED
  BY <1>1 DEF PoolAllocFree, PoolAllocWoken, PoolAllocBlock, PoolFree, Calls, At

LEMMA PoolCases ==
    ASSUME PoolBase, PoolNext
    PROVE  \/ \E t \in Client : PoolAllocFree(t)
           \/ \E t \in Client : PoolAllocWoken(t)
           \/ \E t \in Client, w \in WaitTime : PoolAllocBlock(t, w)
           \/ \E t \in Client, b \in Block : PoolFree(t, b)
           \/ \E t \in Client : PoolAllocFromIsr(t)
           \/ \E t \in Client, b \in Block : PoolFreeFromIsr(t, b)
           \/ \E t \in Thread : PoolDetach(t)
           \/ \E t \in Thread : PoolCreate(t)
           \/ (ThreadStep \/ Sleep) /\ UNCHANGED poolVars
<1>1. CASE (ThreadStep \/ Sleep) /\ UNCHANGED poolVars
  BY <1>1
<1>2. CASE \E t \in Thread : PoolCall(t)
  <2>1. PICK t \in Thread : PoolCall(t)
    BY <1>2
  <2> QED
    BY <2>1, PoolCaller DEF PoolCall
<1>3. CASE \E t \in Client : PoolAllocFromIsr(t) \/ \E b \in Block : PoolFreeFromIsr(t, b)
  BY <1>3
<1> QED
  BY <1>1, <1>2, <1>3 DEF PoolNext

LEMMA PoolBaseStep ==
    ASSUME PoolBase, [PoolNext]_<<ipcVars, poolVars>>
    PROVE  PoolBase'
<1>1. CASE UNCHANGED << ipcVars, poolVars >>
  <2>1. UNCHANGED << k, pc, wild, alive, want, budget, pool, owns >>
    BY <1>1 DEF ipcVars, poolVars
  <2>2. IpcInv'
    BY <2>1 DEF PoolBase, IpcInv, CallsType
  <2> QED
    BY <2>1, <2>2 DEF PoolBase
<1>2. CASE (ThreadStep \/ Sleep) /\ UNCHANGED poolVars
  BY <1>2, BackgroundStep, PoolBackground DEF PoolBase
<1>3. CASE \E t \in Client : PoolAllocFree(t) \/ PoolAllocFromIsr(t)
  BY <1>3, PoolAllocFreeStep
<1>4. CASE \E t \in Client : PoolAllocWoken(t)
  BY <1>4, PoolAllocWokenStep
<1>5. CASE \E t \in Client, w \in WaitTime : PoolAllocBlock(t, w)
  BY <1>5, PoolAllocBlockStep
<1>6. CASE \E t \in Client, b \in Block : PoolFree(t, b) \/ PoolFreeFromIsr(t, b)
  BY <1>6, PoolFreeStep, PoolFreeFromIsrStep DEF FreeOutcome
<1>7. CASE \E t \in Thread : PoolDetach(t)
  BY <1>7, PoolDetachStep
<1>8. CASE \E t \in Thread : PoolCreate(t)
  BY <1>8, PoolCreateStep
<1> QED
  BY <1>1, <1>2, <1>3, <1>4, <1>5, <1>6, <1>7, <1>8, PoolCases

LEMMA PoolInvariant == PoolSpec => []PoolBase
<1>1. IpcInit /\ PoolInit => PoolBase
  BY PoolInitFacts
<1>2. PoolBase /\ [PoolNext]_<<ipcVars, poolVars>> => PoolBase'
  BY PoolBaseStep
<1> QED
  BY <1>1, <1>2, PTL DEF PoolSpec

(* The pool's variables keep their types: the count of free blocks stays   *)
(* between 0 and the number of blocks, whatever the application does.      *)
THEOREM PoolTypeCorrect ==
    PoolSpec => [](IpcTypeOK /\ PoolTypeOK)
<1>1. PoolBase => IpcTypeOK /\ PoolTypeOK
  BY PoolBaseImplies
<1> QED
  BY <1>1, PoolInvariant, PTL

(* The kernel's lists stay exact under every interleaving of allocations,  *)
(* frees, time-outs and detaches by threads and of allocations and frees   *)
(* by interrupt handlers.                                                  *)
THEOREM PoolKernelExact ==
    PoolSpec => []KernelExact
<1>1. PoolBase => KernelExact
  BY PoolBaseImplies
<1> QED
  BY <1>1, PoolInvariant, PTL

(* Outside kernel calls the most urgent ready thread runs (a detach, which *)
(* calls no rt_schedule, excepted).                                        *)
THEOREM PoolHighestRuns ==
    PoolSpec => []HighestRunsIfAsked
<1>1. PoolBase => HighestRunsIfAsked
  BY PoolBaseImplies
<1> QED
  BY <1>1, PoolInvariant, PTL

-----------------------------------------------------------------------------
(* The counts of a pool that is used and detached carefully: n waiters in  *)
(* W, and f free blocks, each of them with a thread of G on the way to it  *)
(* as long as anybody waits.                                               *)
CountsOK(n, f, W, G) ==
    /\ W \subseteq Thread /\ G \subseteq Thread /\ f \in Nat
    /\ n = Cardinality(W) /\ Cardinality(G) <= f
    /\ W # {} => f <= Cardinality(G)

LEMMA ThreadSets ==
    ASSUME NEW S \in SUBSET Thread, NEW x \in Thread
    PROVE  /\ Cardinality(S) \in Nat /\ (Cardinality(S) = 0 <=> S = {})
           /\ x \in S => Cardinality(S \ {x}) = Cardinality(S) - 1
           /\ x \notin S => Cardinality(S \cup {x}) = Cardinality(S) + 1
<1>1. IsFiniteSet(S)
  BY IpcAssumption, FS_Subset
<1> QED
  BY <1>1, FS_CardinalityType, FS_EmptySet, FS_RemoveElement, FS_AddElement

(* A free block is taken; a woken thread takes its block; a thread joins   *)
(* the waiters; a block is freed for nobody and for a waiter; a waiter is  *)
(* sent away.                                                              *)
LEMMA CountsTake ==
    ASSUME NEW n, NEW f, NEW W, NEW G, CountsOK(n, f, W, G), G = {}, f > 0
    PROVE  CountsOK(n, f - 1, W, G) /\ W = {}
<1>1. Cardinality(G) = 0
  BY FS_EmptySet
<1> QED
  BY <1>1 DEF CountsOK

LEMMA CountsWoken ==
    ASSUME NEW n, NEW f, NEW W, NEW G, CountsOK(n, f, W, G), NEW x \in Thread, x \in G
    PROVE  CountsOK(n, f - 1, W, G \ {x}) /\ f > 0
<1>1. Cardinality(G) \in Nat /\ Cardinality(G) # 0 /\ Cardinality(G \ {x}) = Cardinality(G) - 1
  BY ThreadSets DEF CountsOK
<1>2. f \in Nat /\ Cardinality(G) <= f /\ W \subseteq Thread /\ G \ {x} \subseteq Thread
      /\ n = Cardinality(W) /\ (W # {} => f <= Cardinality(G))
  BY DEF CountsOK
<1>3. f - 1 \in Nat /\ f > 0 /\ Cardinality(G \ {x}) <= f - 1
  BY <1>1, <1>2
<1>4. W # {} => f - 1 <= Cardinality(G \ {x})
  BY <1>1, <1>2
<1> QED
  BY <1>2, <1>3, <1>4 DEF CountsOK

LEMMA CountsJoin ==
    ASSUME NEW n, NEW f, NEW W, NEW G, CountsOK(n, f, W, G), f = 0, NEW x \in Thread, x \notin W
    PROVE  CountsOK(n + 1, f, W \cup {x}, G)
<1>1. Cardinality(W \cup {x}) = Cardinality(W) + 1 /\ Cardinality(G) \in Nat
  BY ThreadSets DEF CountsOK
<1> QED
  BY <1>1 DEF CountsOK

LEMMA CountsBack ==
    ASSUME NEW n, NEW f, NEW W, NEW G, CountsOK(n, f, W, G), n = 0
    PROVE  CountsOK(n, f + 1, W, G) /\ W = {}
<1>1. Idle \in Thread
  BY KernelAssumption
<1>2. W = {} /\ Cardinality(G) \in Nat
  BY <1>1, ThreadSets DEF CountsOK
<1>3. f + 1 \in Nat /\ Cardinality(G) <= f + 1
  BY <1>2 DEF CountsOK
<1> QED
  BY <1>2, <1>3 DEF CountsOK

LEMMA CountsGrant ==
    ASSUME NEW n, NEW f, NEW W, NEW G, CountsOK(n, f, W, G), NEW x \in Thread, x \in W, x \notin G
    PROVE  CountsOK(n - 1, f + 1, W \ {x}, G \cup {x})
<1>1. /\ Cardinality(W \ {x}) = Cardinality(W) - 1 /\ Cardinality(G \cup {x}) = Cardinality(G) + 1
      /\ Cardinality(G) \in Nat
  BY ThreadSets DEF CountsOK
<1>2. /\ f \in Nat /\ Cardinality(G) <= f /\ f <= Cardinality(G) /\ n = Cardinality(W)
      /\ W \ {x} \subseteq Thread /\ G \cup {x} \subseteq Thread
  BY DEF CountsOK
<1>3. f + 1 \in Nat /\ Cardinality(G \cup {x}) <= f + 1 /\ f + 1 <= Cardinality(G \cup {x})
  BY <1>1, <1>2
<1> QED
  BY <1>1, <1>2, <1>3 DEF CountsOK

LEMMA CountsFlush ==
    ASSUME NEW n, NEW f, NEW W, NEW G, CountsOK(n, f, W, G), NEW x \in Thread, x \in W
    PROVE  CountsOK(n - 1, f, W \ {x}, G)
<1>1. Cardinality(W \ {x}) = Cardinality(W) - 1
  BY ThreadSets DEF CountsOK
<1> QED
  BY <1>1 DEF CountsOK

(* The waiters wait for ever; while the pool is detached, and when it is   *)
(* gone, nobody is on the way to a block.                                  *)
PoolCareful ==
    /\ FlushInv("mp", "mp")
    /\ CountsOK(pool.waiting, pool.free, Waiters(k, "mp"), Granted("mp"))
    /\ \A u \in Waiters(k, "mp") : ~Contains(k.timers, u)
    /\ Flushing \/ ~alive => Granted("mp") = {}
    /\ ~alive => Waiters(k, "mp") = {}

LEMMA SomeoneWaits ==
    ASSUME PoolBase
    PROVE  /\ Waiters(k, "mp") = {} <=> k.wait["mp"] = << >>
           /\ \A u \in Thread : u \in Waiters(k, "mp") <=> Blocked("mp", u)
<1>1. KernelOK(k)
  BY DEF PoolBase, IpcInv
<1> QED
  BY <1>1, PoolQueue, NobodyWaits DEF Waiters, Blocked

LEMMA NotGranted ==
    ASSUME NEW u \in Thread, Blocked("mp", u) \/ pc[u] = "run"
    PROVE  u \notin Granted("mp")
  BY DEF Granted, Waiting

(* The steps of a call on a pool that nobody detaches.                     *)
LEMMA PoolCarefulCall ==
    ASSUME CarefulFlush, PoolCareful, Usable, wild' = wild, alive' = alive,
           \A x \in Thread : pc'[x] = pc[x] \/ pc'[x] \notin Flushes,
           CountsOK(pool.waiting, pool.free, Waiters(k, "mp"), Granted("mp"))',
           \A u \in Waiters(k, "mp")' : ~Contains(k'.timers, u)
    PROVE  PoolCareful'
<1>1. (\A x \in Thread : pc'[x] \notin Flushes) /\ alive
  BY DEF Flushing, Usable
<1>2. FlushInv("mp", "mp")'
  BY <1>1, PoolQueue, FlushNobody DEF PoolCareful
<1>3. ~Flushing' /\ alive'
  BY <1>1 DEF Flushing
<1> QED
  BY <1>2, <1>3 DEF PoolCareful

(* What Wakes says of the pool's waiters.                                  *)
LEMMA PoolWakes ==
    ASSUME NEW S, NEW W, Wakes(S, W)
    PROVE  /\ Waiters(k, "mp")' = Waiters(k, "mp") \ W
           /\ Granted("mp")' = (Granted("mp") \ S)
                 \cup {x \in W : Contains(k.wait["mp"], x) /\ k'.error[x] = "EOK"}
           /\ \A x \in Thread : Contains(k'.timers, x) => Contains(k.timers, x)
<1>1. \A x \in Thread : Contains(k'.wait["mp"], x) <=> Contains(k.wait["mp"], x) /\ x \notin W
  BY PoolQueue DEF Wakes
<1>2. Waiters(k, "mp")' = Waiters(k, "mp") \ W
  BY <1>1 DEF Waiters
<1> QED
  BY <1>2, PoolQueue DEF Wakes

LEMMA PoolWakesNobody ==
    ASSUME NEW t, Wakes({t}, {})
    PROVE  /\ Waiters(k, "mp")' = Waiters(k, "mp") /\ Granted("mp")' = Granted("mp") \ {t}
           /\ \A x \in Thread : Contains(k'.timers, x) => Contains(k.timers, x)
<1> DEFINE W == {}
<1>1. Wakes({t}, W)
  OBVIOUS
<1>2. W = {}
  OBVIOUS
<1> HIDE DEF W
<1>3. /\ Waiters(k, "mp")' = Waiters(k, "mp") \ W
      /\ Granted("mp")' = (Granted("mp") \ {t})
             \cup {x \in W : Contains(k.wait["mp"], x) /\ k'.error[x] = "EOK"}
      /\ \A x \in Thread : Contains(k'.timers, x) => Contains(k.timers, x)
  BY <1>1, PoolWakes
<1> QED
  BY <1>2, <1>3

LEMMA AllocFreeCareful ==
    ASSUME CarefulFlush, CarefulPool, PoolBase, PoolCareful, NEW t \in Client,
           PoolAllocFree(t) \/ PoolAllocFromIsr(t)
    PROVE  PoolCareful'
<1>1. /\ UNCHANGED << k, pc, wild, alive, want, budget >> /\ pool.free > 0 /\ Usable
      /\ Granted("mp") = {}
  BY DEF PoolAllocFree, PoolAllocFromIsr, ipcVars, Calls
<1>2. pool'.free = pool.free - 1 /\ pool'.waiting = pool.waiting
  BY PoolAllocFreeStep
<1>3. Waiters(k, "mp")' = Waiters(k, "mp") /\ Granted("mp")' = Granted("mp")
  BY <1>1 DEF Waiters, Granted, Blocked
<1>4. CountsOK(pool.waiting, pool.free - 1, Waiters(k, "mp"), Granted("mp"))
  BY <1>1, CountsTake DEF PoolCareful
<1>5. CountsOK(pool.waiting, pool.free, Waiters(k, "mp"), Granted("mp"))'
  BY <1>2, <1>3, <1>4
<1>6. \A u \in Waiters(k, "mp")' : ~Contains(k'.timers, u)
  BY <1>1, <1>3 DEF PoolCareful
<1> QED
  BY <1>1, <1>5, <1>6, PoolCarefulCall

LEMMA RunnerTimer ==
    ASSUME IpcInv, NEW t \in Client, Running(t), pc[t] = "run"
    PROVE  ~Contains(k.timers, t)
<1>1. k.stat[t] = "READY" /\ t \in Thread /\ KernelOK(k)
  BY RunnerReady DEF Client, IpcInv
<1> QED
  BY <1>1, ReadyThread

LEMMA AllocBlockCareful ==
    ASSUME CarefulFlush, CarefulPool, PoolBase, PoolCareful, NEW t \in Client, NEW w \in WaitTime,
           PoolAllocBlock(t, w)
    PROVE  PoolCareful'
<1>1. pool.free = 0 /\ Usable /\ w = Forever /\ wild' = wild /\ alive' = alive /\ t \in Thread
  BY DEF PoolAllocBlock, Calls, Client
<1>2. pool'.free = pool.free /\ pool'.waiting = pool.waiting + 1
  BY PoolAllocBlockStep
<1>3. PoolJoins(t, w) /\ ~Blocked("mp", t)
  BY PoolBlockStep DEF PoolBase
<1>4. Waiters(k, "mp")' = Waiters(k, "mp") \cup {t} /\ t \notin Waiters(k, "mp")
  BY <1>1, <1>3 DEF PoolJoins, Waiters, Blocked
<1>5. CountsOK(pool.waiting + 1, pool.free, Waiters(k, "mp") \cup {t}, Granted("mp"))
  BY <1>1, <1>4, CountsJoin DEF PoolCareful
<1>6. CountsOK(pool.waiting, pool.free, Waiters(k, "mp"), Granted("mp"))'
  BY <1>2, <1>3, <1>4, <1>5 DEF PoolJoins
<1>7. \A u \in Waiters(k, "mp")' : ~Contains(k'.timers, u)
  <2>1. ~Contains(k'.timers, t) \/ Contains(k.timers, t)
    BY <1>1, <1>3 DEF PoolJoins
  <2>2. ~Contains(k.timers, t)
    BY RunnerTimer DEF PoolBase, PoolAllocBlock, Calls, At
  <2>3. \A u \in Waiters(k, "mp") : u \in Thread /\ ~Contains(k.timers, u)
    BY DEF PoolCareful, Waiters
  <2> QED
    BY <1>1, <1>3, <1>4, <2>1, <2>2, <2>3 DEF PoolJoins
<1>8. \A x \in Thread : pc'[x] = pc[x] \/ pc'[x] \notin Flushes
  BY <1>3 DEF PoolJoins, PoolBase, IpcInv, CallsType, Flushes
<1> QED
  BY <1>1, <1>6, <1>7, <1>8, PoolCarefulCall

LEMMA WokenCareful ==
    ASSUME CarefulFlush, PoolBase, PoolCareful, NEW t \in Client, PoolAllocWoken(t)
    PROVE  PoolCareful'
<1>1. /\ Wakes({t}, {}) /\ pc' = [pc EXCEPT ![t] = "run"] /\ alive' = alive
      /\ t \in Granted("mp") <=> k.error[t] = "EOK"
      /\ k.error[t] # "EOK" => UNCHANGED << wild, pool >>
      /\ k.error[t] = "EOK" /\ pool.list # << >> =>
            wild' = wild /\ pool'.free = pool.free - 1 /\ pool'.waiting = pool.waiting
  BY PoolAllocWokenStep
<1>2. t \in Thread /\ CountsOK(pool.waiting, pool.free, Waiters(k, "mp"), Granted("mp"))
  BY DEF PoolCareful, Client
<1>3. /\ Waiters(k, "mp")' = Waiters(k, "mp") /\ Granted("mp")' = Granted("mp") \ {t}
      /\ \A x \in Thread : Contains(k'.timers, x) => Contains(k.timers, x)
  BY <1>1, PoolWakesNobody
<1>4. /\ wild' = wild
      /\ CountsOK(pool.waiting, pool.free, Waiters(k, "mp"), Granted("mp"))'
  <2>1. CASE k.error[t] # "EOK"
    <3>1. Granted("mp")' = Granted("mp") /\ pool' = pool /\ wild' = wild
      BY <1>1, <1>3, <2>1
    <3> QED
      BY <1>2, <1>3, <3>1
  <2>2. CASE k.error[t] = "EOK"
    <3>1. /\ CountsOK(pool.waiting, pool.free - 1, Waiters(k, "mp"), Granted("mp") \ {t})
          /\ pool.free > 0
      BY <1>1, <1>2, <2>2, CountsWoken
    <3>2. pool.list # << >>
      BY <3>1, EmptySeq DEF PoolBase, Shares
    <3> QED
      BY <1>1, <1>3, <2>2, <3>1, <3>2
  <2> QED
    BY <2>1, <2>2
<1>5. \A x \in Thread : pc'[x] \in Flushes => pc'[x] = pc[x]
  BY <1>1 DEF PoolBase, IpcInv, CallsType, Flushes
<1>6. FlushInv("mp", "mp")'
  BY <1>1, <1>4, <1>5, PoolQueue, FlushReturn DEF PoolCareful
<1>7. \A u \in Waiters(k, "mp")' : ~Contains(k'.timers, u)
  BY <1>3 DEF PoolCareful, Waiters
<1>8. Flushing' => Flushing
  BY <1>5 DEF Flushing
<1> QED
  BY <1>1, <1>3, <1>4, <1>6, <1>7, <1>8 DEF PoolCareful

LEMMA OutcomeOfFree ==
    ASSUME CarefulFlush, PoolBase, PoolCareful, Usable, NEW S, S \cap Granted("mp") = {}, FreeOutcome(S)
    PROVE  PoolCareful'
<1>1. /\ alive' = alive /\ pool'.free = pool.free + 1
      /\ pool.waiting = 0 =>
            UNCHANGED << k, pc, want, wild >> /\ pool'.waiting = pool.waiting
      /\ pool.waiting # 0 /\ k.wait["mp"] # << >> =>
            /\ pool'.waiting = pool.waiting - 1 /\ wild' = wild
            /\ \A x \in Thread : pc'[x] \in {pc[x], "sched"}
            /\ \E h \in Thread : Wakes(S, {h}) /\ Blocked("mp", h) /\ k'.error[h] = "EOK"
  BY DEF FreeOutcome
<1>2. /\ CountsOK(pool.waiting, pool.free, Waiters(k, "mp"), Granted("mp"))
      /\ \A u \in Waiters(k, "mp") : ~Contains(k.timers, u)
  BY DEF PoolCareful
<1>3. Usable /\ Granted("mp") \ S = Granted("mp")
  OBVIOUS
<1>4. CASE pool.waiting = 0
  <2>1. Waiters(k, "mp")' = Waiters(k, "mp") /\ Granted("mp")' = Granted("mp")
    BY <1>1, <1>4 DEF Waiters, Granted, Blocked
  <2>2. CountsOK(pool.waiting, pool.free + 1, Waiters(k, "mp"), Granted("mp"))
    BY <1>2, <1>4, CountsBack
  <2>3. CountsOK(pool.waiting, pool.free, Waiters(k, "mp"), Granted("mp"))'
    BY <1>1, <1>4, <2>1, <2>2
  <2>4. \A u \in Waiters(k, "mp")' : ~Contains(k'.timers, u)
    BY <1>1, <1>2, <1>4, <2>1
  <2> QED
    BY <1>1, <1>3, <1>4, <2>3, <2>4, PoolCarefulCall
<1>5. CASE pool.waiting # 0
  <2>1. pool.waiting # 0 /\ k.wait["mp"] # << >>
    <3>1. Idle \in Thread
      BY KernelAssumption
    <3>2. pool.waiting \in Nat /\ Waiters(k, "mp") # {}
      BY <1>2, <1>5, <3>1, ThreadSets DEF CountsOK
    <3> QED
      BY <1>5, <3>2, SomeoneWaits
  <2>2. PICK h \in Thread : Wakes(S, {h}) /\ Blocked("mp", h) /\ k'.error[h] = "EOK"
    BY <1>1, <2>1
  <2>3. h \in Waiters(k, "mp") /\ h \notin Granted("mp")
    BY <2>2, SomeoneWaits, NotGranted
  <2>4. /\ Waiters(k, "mp")' = Waiters(k, "mp") \ {h}
        /\ Granted("mp")' = Granted("mp") \cup {h}
        /\ \A x \in Thread : Contains(k'.timers, x) => Contains(k.timers, x)
    <3> DEFINE W == {h}
    <3>1. Wakes(S, W)
      BY <2>2
    <3>2. W = {h}
      OBVIOUS
    <3> HIDE DEF W
    <3>3. /\ Waiters(k, "mp")' = Waiters(k, "mp") \ W
          /\ Granted("mp")' = (Granted("mp") \ S)
                 \cup {x \in W : Contains(k.wait["mp"], x) /\ k'.error[x] = "EOK"}
          /\ \A x \in Thread : Contains(k'.timers, x) => Contains(k.timers, x)
      BY <3>1, PoolWakes
    <3>4. {x \in W : Contains(k.wait["mp"], x) /\ k'.error[x] = "EOK"} = {h}
      BY <2>2, <3>2 DEF Blocked
    <3> QED
      BY <1>3, <3>2, <3>3, <3>4
  <2>5. CountsOK(pool.waiting - 1, pool.free + 1, Waiters(k, "mp") \ {h}, Granted("mp") \cup {h})
    BY <1>2, <2>3, CountsGrant
  <2>6. CountsOK(pool.waiting, pool.free, Waiters(k, "mp"), Granted("mp"))'
    BY <1>1, <2>1, <2>4, <2>5
  <2>7. \A u \in Waiters(k, "mp")' : ~Contains(k'.timers, u)
    BY <1>2, <2>4 DEF Waiters
  <2>8. \A x \in Thread : pc'[x] = pc[x] \/ pc'[x] \notin Flushes
    BY <1>1, <2>1 DEF Flushes
  <2> QED
    BY <1>1, <1>3, <2>1, <2>6, <2>7, <2>8, PoolCarefulCall
<1> QED
  BY <1>4, <1>5

LEMMA FreeCareful ==
    ASSUME CarefulFlush, PoolBase, PoolCareful, NEW t \in Client, NEW b \in Block,
           PoolFree(t, b) \/ PoolFreeFromIsr(t, b)
    PROVE  PoolCareful'
<1>1. CASE PoolFree(t, b)
  <2>1. Usable /\ t \notin Granted("mp")
    BY <1>1, NotGranted DEF PoolFree, Calls, At, Client
  <2>2. FreeOutcome({t}) /\ {t} \cap Granted("mp") = {}
    BY <1>1, <2>1, PoolFreeStep
  <2> QED
    BY <2>1, <2>2, OutcomeOfFree
<1>2. CASE PoolFreeFromIsr(t, b)
  <2>1. Usable /\ FreeOutcome({}) /\ {} \cap Granted("mp") = {}
    BY <1>2, PoolFreeFromIsrStep DEF PoolFreeFromIsr
  <2> QED
    BY <2>1, OutcomeOfFree
<1> QED
  BY <1>1, <1>2

LEMMA PoolDetachCareful ==
    ASSUME CarefulFlush, PoolBase, PoolCareful, NEW t \in Thread, PoolDetach(t)
    PROVE  PoolCareful'
<1> USE PoolQueue
<1>1. IpcInv /\ t \in Client /\ pool'.free = pool.free
  BY PoolDetachStep DEF PoolBase
<1>2. /\ CountsOK(pool.waiting, pool.free, Waiters(k, "mp"), Granted("mp"))
      /\ \A u \in Waiters(k, "mp") : ~Contains(k.timers, u) /\ FlushInv("mp", "mp")
      /\ Flushing \/ ~alive => Granted("mp") = {}
      /\ ~alive => Waiters(k, "mp") = {}
  BY DEF PoolCareful
<1>3. FlushInv("mp", "mp") /\ FlushRound("flush", "flush1", "mp", "mp", "mp") /\ {"mp"} = {"mp", "mp"}
  BY DEF PoolCareful, FlushRound
<1>4. ASSUME Wakes({t}, {}), t \notin Granted("mp"), pool'.waiting = pool.waiting
      PROVE  /\ Waiters(k, "mp")' = Waiters(k, "mp") /\ Granted("mp")' = Granted("mp")
             /\ CountsOK(pool.waiting, pool.free, Waiters(k, "mp"), Granted("mp"))'
             /\ \A u \in Waiters(k, "mp")' : ~Contains(k'.timers, u)
  <2>3. /\ Waiters(k, "mp")' = Waiters(k, "mp") /\ Granted("mp")' = Granted("mp")
        /\ \A x \in Thread : Contains(k'.timers, x) => Contains(k.timers, x)
    BY <1>4, PoolWakesNobody
  <2>4. CountsOK(pool.waiting, pool.free, Waiters(k, "mp"), Granted("mp"))'
    BY <1>1, <1>2, <1>4, <2>3
  <2> QED
    BY <1>2, <2>3, <2>4 DEF Waiters
<1>5. CASE /\ FlushBegin(t, {"mp"}) /\ Usable /\ (CarefulFlush => NoOtherCall({"mp"}))
           /\ Wakes({t}, {}) /\ pool'.waiting = pool.waiting
  <2>1. FlushInv("mp", "mp")'
    BY <1>1, <1>3, <1>5, FlushBeginKeeps
  <2>2. Granted("mp") = {}
    <3>1. \A x \in Thread : pc[x] \in Waiting => Blocked("mp", x)
      BY <1>5 DEF NoOtherCall, Waiting, Outside
    <3> QED
      BY <3>1 DEF Granted
  <2>3. alive /\ alive' = alive
    BY <1>5 DEF FlushBegin
  <2>4. t \notin Granted("mp")
    BY <2>2
  <2> QED
    BY <1>4, <1>5, <2>1, <2>2, <2>3, <2>4 DEF PoolCareful
<1>6. CASE /\ FlushLook(t, "mp", "flush", "flush1", "run")
           /\ Wakes({t}, {}) /\ pool'.waiting = pool.waiting
  <2>1. FlushInv("mp", "mp")'
    BY <1>1, <1>3, <1>6, FlushLookKeeps
  <2>2. /\ pc[t] = "flush" /\ pc' = [pc EXCEPT ![t] = IF k.wait["mp"] = << >> THEN "run" ELSE "flush1"]
        /\ alive' = (alive /\ pc'[t] # "run")
    BY <1>6 DEF FlushLook, At, Goto
  <2>3. Flushing
    BY <2>2 DEF Flushing, Flushes
  <2>4. Granted("mp") = {} /\ t \notin Granted("mp")
    BY <1>2, <2>3
  <2>5. ~alive' => Waiters(k, "mp") = {}
    <3>1. k.wait["mp"] # << >> => pc'[t] # "run"
      BY <2>2 DEF PoolBase, IpcInv, CallsType
    <3>2. ~alive' => ~alive \/ pc'[t] = "run"
      BY <2>2
    <3> QED
      BY <1>2, <3>1, <3>2, SomeoneWaits
  <2> QED
    BY <1>4, <1>6, <2>1, <2>4, <2>5 DEF PoolCareful
<1>7. CASE /\ FlushWake(t, "mp", "flush", "flush1")
           /\ Wakes({t}, First(k, "mp")) /\ \A x \in First(k, "mp") : k'.error[x] = "ERROR"
           /\ pool'.waiting = pool.waiting - 1
  <2>1. FlushInv("mp", "mp")'
    BY <1>1, <1>3, <1>7, FlushWakeKeeps
  <2>2. pc[t] = "flush1" /\ alive' = alive
    BY <1>7 DEF FlushWake, At
  <2>3. Granted("mp") = {} /\ alive
    <3>1. Flushing
      BY <2>2 DEF Flushing, Flushes
    <3>2. alive
      BY <1>3, <2>2 DEF FlushInv, Flushes
    <3> QED
      BY <1>2, <3>1, <3>2
  <2>4. PICK u \in Thread : Blocked("mp", u)
    BY <1>3, <2>2 DEF FlushInv
  <2>5. k.wait["mp"] # << >>
    BY <2>4, SomeoneWaits
  <2> DEFINE h == Head(k.wait["mp"])
             W == First(k, "mp")
  <2>6. W = {h} /\ h \in Thread /\ h \in Waiters(k, "mp")
    <3>1. KernelOK(k)
      BY <1>1 DEF IpcInv
    <3>2. h \in Thread /\ Contains(k.wait["mp"], h)
      BY <2>5, <3>1, FirstWaiter
    <3> QED
      BY <2>5, <3>2 DEF First, Waiters
  <2> HIDE DEF h
  <2>7. Wakes({t}, W) /\ k'.error[h] = "ERROR"
    BY <1>7, <2>6
  <2> HIDE DEF W
  <2>8. /\ Waiters(k, "mp")' = Waiters(k, "mp") \ W
        /\ Granted("mp")' = (Granted("mp") \ {t})
               \cup {x \in W : Contains(k.wait["mp"], x) /\ k'.error[x] = "EOK"}
        /\ \A x \in Thread : Contains(k'.timers, x) => Contains(k.timers, x)
    BY <2>7, PoolWakes
  <2>9. Waiters(k, "mp")' = Waiters(k, "mp") \ {h} /\ Granted("mp")' = Granted("mp")
    BY <2>3, <2>6, <2>7, <2>8
  <2>10. CountsOK(pool.waiting - 1, pool.free, Waiters(k, "mp") \ {h}, Granted("mp"))
    BY <1>2, <2>6, CountsFlush
  <2>11. CountsOK(pool.waiting, pool.free, Waiters(k, "mp"), Granted("mp"))'
    BY <1>1, <1>7, <2>9, <2>10
  <2>12. \A x \in Waiters(k, "mp")' : ~Contains(k'.timers, x)
    BY <1>2, <2>8, <2>9 DEF Waiters
  <2> QED
    BY <2>1, <2>2, <2>3, <2>9, <2>11, <2>12 DEF PoolCareful
<1> QED
  BY <1>5, <1>6, <1>7, PoolDetachStep

LEMMA PoolCarefulStep ==
    ASSUME CarefulFlush, CarefulPool, PoolBase, PoolCareful, [PoolNext]_<<ipcVars, poolVars>>
    PROVE  PoolCareful'
<1> USE PoolQueue
<1>1. /\ IpcInv /\ FlushInv("mp", "mp")
      /\ CountsOK(pool.waiting, pool.free, Waiters(k, "mp"), Granted("mp"))
      /\ (\A u \in Waiters(k, "mp") : ~Contains(k.timers, u))
      /\ (Flushing \/ ~alive => Granted("mp") = {}) /\ (~alive => Waiters(k, "mp") = {})
  BY DEF PoolBase, PoolCareful
<1>2. CASE UNCHANGED << ipcVars, poolVars >>
  <2>1. UNCHANGED << k, pc, wild, alive, want, pool >>
    BY <1>2 DEF ipcVars, poolVars
  <2>2. /\ Granted("mp")' = Granted("mp") /\ Waiters(k, "mp")' = Waiters(k, "mp")
        /\ \A q, u : Blocked(q, u)' <=> Blocked(q, u)
    BY <2>1 DEF Granted, Blocked, Waiters
  <2>3. FlushInv("mp", "mp")'
    BY <1>1, <2>1, <2>2 DEF FlushInv
  <2>4. CountsOK(pool.waiting, pool.free, Waiters(k, "mp"), Granted("mp"))'
    BY <1>1, <2>1, <2>2
  <2> QED
    BY <1>1, <2>1, <2>2, <2>3, <2>4 DEF PoolCareful, Flushing
<1>3. CASE (ThreadStep \/ Sleep) /\ UNCHANGED poolVars
  <2>1. Background /\ pool' = pool
    BY <1>1, <1>3, BackgroundStep DEF poolVars
  <2>2. FlushInv("mp", "mp")'
    BY <1>1, <2>1, FlushBackground
  <2>3. Granted("mp")' = Granted("mp") /\ alive' = alive
    BY <2>1 DEF Background
  <2>4. Waiters(k, "mp")' = Waiters(k, "mp")
    BY <1>1, <2>1 DEF Background, Waiters
  <2>5. \A u \in Waiters(k, "mp")' : ~Contains(k'.timers, u)
    <3>1. \A u \in Waiters(k, "mp")' : pc'[u] \in Waiting /\ u \in Thread
      BY <2>1 DEF Background, IpcInv, ThreadsOK, Waiters
    <3>2. \A u \in Thread : Contains(k'.timers, u) => Contains(k.timers, u) \/ pc'[u] = "sleep"
      BY <2>1 DEF Background
    <3> QED
      BY <1>1, <2>4, <3>1, <3>2 DEF Waiting
  <2>6. Flushing' => Flushing
    BY <2>1 DEF Background, Flushing, Flushes, Outside
  <2>7. CountsOK(pool.waiting, pool.free, Waiters(k, "mp"), Granted("mp"))'
    BY <1>1, <2>1, <2>3, <2>4
  <2> QED
    BY <1>1, <2>2, <2>3, <2>4, <2>5, <2>6, <2>7 DEF PoolCareful
<1>4. ASSUME NEW t \in Thread, PoolCreate(t)
      PROVE  PoolCareful'
  <2>1. PoolBase' /\ pool'.waiting = 0 /\ ~alive /\ alive' = TRUE /\ UNCHANGED << k, pc, wild, want >>
    BY <1>4, PoolCreateStep
  <2>2. \A x \in Thread : pc'[x] \notin Flushes
    BY <1>1, <2>1 DEF FlushInv
  <2>3. FlushInv("mp", "mp")'
    BY <1>1, <2>1, <2>2, FlushNobody
  <2>4. Waiters(k, "mp")' = {} /\ Granted("mp")' = {}
    BY <1>1, <2>1 DEF Waiters, Granted, Blocked
  <2>5. pool'.free \in Nat
    BY <2>1 DEF PoolBase, Shares
  <2>6. CountsOK(pool.waiting, pool.free, Waiters(k, "mp"), Granted("mp"))'
    BY <2>1, <2>4, <2>5, FS_EmptySet DEF CountsOK
  <2> QED
    BY <2>3, <2>4, <2>6 DEF PoolCareful
<1> QED
  BY <1>2, <1>3, <1>4, PoolCases, AllocFreeCareful, WokenCareful, AllocBlockCareful, FreeCareful,
     PoolDetachCareful

LEMMA PoolCarefulInvariant ==
    ASSUME CarefulFlush, CarefulPool
    PROVE  PoolSpec => []PoolCareful
<1>1. IpcInit /\ PoolInit => PoolCareful
  <2> SUFFICES ASSUME IpcInit, PoolInit PROVE PoolCareful
    OBVIOUS
  <2>1. FlushInv("mp", "mp")
    BY FlushInvInit
  <2>2. alive /\ \A t \in Thread : pc[t] = "run"
    BY IpcInitFacts DEF IpcInit
  <2>3. Waiters(k, "mp") = {} /\ Granted("mp") = {}
    BY <2>2, IpcInitFacts, PoolQueue DEF Waiters, Granted, Waiting
  <2>4. pool.waiting = 0 /\ pool.free \in Nat
    BY FreshFacts DEF PoolInit, Shares
  <2>5. CountsOK(pool.waiting, pool.free, Waiters(k, "mp"), Granted("mp"))
    BY <2>3, <2>4, FS_EmptySet DEF CountsOK
  <2> QED
    BY <2>1, <2>2, <2>3, <2>5 DEF PoolCareful
<1>2. PoolBase /\ PoolCareful /\ [PoolNext]_<<ipcVars, poolVars>> => PoolCareful'
  BY PoolCarefulStep
<1> QED
  BY <1>1, <1>2, PoolInvariant, PTL DEF PoolSpec

(* A list without repetitions is as long as the set of its entries.        *)
LEMMA LengthIsCount ==
    ASSUME NEW S, NEW l \in Seq(S), NoRepeat(l)
    PROVE  Cardinality({x \in S : Contains(l, x)}) = Len(l)
<1> DEFINE n == Len(l)
           W == {x \in S : Contains(l, x)}
<1>1. n \in Nat /\ DOMAIN l = 1..n /\ l \in [1..n -> S]
  BY LenProperties
<1>2. \A i \in 1..n : l[i] \in W
  BY <1>1 DEF Contains
<1>3. \A x \in W : \E i \in 1..n : l[i] = x
  BY <1>1 DEF Contains
<1> HIDE DEF n, W
<1>4. l \in [1..n -> W]
  BY <1>1, <1>2
<1>5. l \in Bijection(1..n, W)
  BY <1>1, <1>3, <1>4 DEF Bijection, Injection, Surjection, IsInjective, NoRepeat
<1>6. ExistsBijection(1..n, W)
  BY <1>5 DEF ExistsBijection
<1>7. Cardinality(W) = n
  BY <1>1, <1>6, FS_CountingElements
<1> QED
  BY <1>7 DEF n, W

(* Every block is in one place.                                            *)
LEMMA OnePlace ==
    ASSUME NEW l, NEW o, Shares(l, o), NEW b \in Block
    PROVE  Cardinality({i \in DOMAIN l : l[i] = b}) + Cardinality({t \in Thread : b \in o[t]}) = 1
<1> DEFINE I == {i \in DOMAIN l : l[i] = b}
           O == {t \in Thread : b \in o[t]}
<1>1. CASE Contains(l, b)
  <2>1. PICK i \in DOMAIN l : l[i] = b
    BY <1>1 DEF Contains
  <2>2. I = {i} /\ O = {}
    BY <1>1, <2>1 DEF Shares, NoRepeat
  <2>3. Cardinality(I) = 1 /\ Cardinality(O) = 0
    BY <2>2, FS_Singleton, FS_EmptySet
  <2> QED
    BY <2>3
<1>2. CASE ~Contains(l, b)
  <2>1. PICK t \in Thread : b \in o[t]
    BY <1>2 DEF Shares
  <2>2. I = {} /\ O = {t}
    BY <1>2, <2>1 DEF Shares, Contains
  <2>3. Cardinality(I) = 0 /\ Cardinality(O) = 1
    BY <2>2, FS_Singleton, FS_EmptySet
  <2> QED
    BY <2>3
<1> QED
  BY <1>1, <1>2

(* An application that allocates and detaches carefully has every detach   *)
(* and every rt_mp_free wake threads that wait, and no woken thread finds  *)
(* the block list empty.                                                   *)
THEOREM PoolFlushSafe ==
    ASSUME CarefulFlush, CarefulPool
    PROVE  PoolSpec => []FlushWakesWaiters
<1>1. PoolCareful => FlushWakesWaiters
  BY DEF PoolCareful, FlushInv, FlushWakesWaiters
<1> QED
  BY <1>1, PoolCarefulInvariant, PTL

(* Both counts of the pool are those of its lists, and every block is free *)
(* or with one thread.                                                     *)
THEOREM PoolCountsExact ==
    ASSUME CarefulFlush, CarefulPool
    PROVE  PoolSpec => []PoolExact
<1>1. PoolBase /\ PoolCareful => PoolExact
  <2> SUFFICES ASSUME PoolBase, PoolCareful PROVE PoolExact
    OBVIOUS
  <2>1. k.wait["mp"] \in Seq(Thread) /\ NoRepeat(k.wait["mp"])
    BY PoolQueue DEF PoolBase, IpcInv, KernelOK, KernelInv, KernelType, ListsExact
  <2>2. Cardinality(Waiters(k, "mp")) = Len(k.wait["mp"])
    BY <2>1, LengthIsCount DEF Waiters
  <2>3. PoolCountExact
    BY <2>2 DEF PoolCareful, CountsOK, PoolCountExact
  <2>4. Shares(pool.list, owns) /\ pool.free = Len(pool.list)
    BY DEF PoolBase
  <2> QED
    BY <2>3, <2>4, OnePlace DEF PoolExact
<1> QED
  BY <1>1, PoolInvariant, PoolCarefulInvariant, PTL

(* While a thread waits every free block has a woken thread coming for it. *)
THEOREM PoolNobodyWaits ==
    ASSUME CarefulFlush, CarefulPool
    PROVE  PoolSpec => []PoolNobodyStuck
<1>1. PoolBase /\ PoolCareful => PoolNobodyStuck
  BY SomeoneWaits DEF PoolCareful, CountsOK, PoolNobodyStuck
<1> QED
  BY <1>1, PoolInvariant, PoolCarefulInvariant, PTL
=============================================================================
