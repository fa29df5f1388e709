---------------------------- MODULE BorgnixProofs ----------------------------
(***************************************************************************)
(* Proofs about the MQTT session and the device registry, for every set of *)
(* topics, every pair of ping times and every behaviour of the network.    *)
(*                                                                         *)
(* The session's safety rests on who may dial when.  The application dials *)
(* before the other two threads exist, and never again; afterwards only    *)
(* the ping thread dials, and from the moment it gives a session up until  *)
(* it has a new one the read thread is stopped.  SessionInv says that, and *)
(* which socket a thread that is about to open one has left behind.        *)
(***************************************************************************)
EXTENDS Borgnix, SequenceTheorems, FiniteSetTheorems, TLAPS

(* The steps of mqtt_connect and mqtt_reconnect, and those of the ping     *)
(* thread from the decision to reconnect to the CONNACK.                   *)
Dialling == {"socket", "connect", "connack"}
Redialling == Dialling \cup {"disconnect", "close"}

SessionInv ==
    /\ pc["app"] \in Dialling \cup {"run", "subsend", "fault"}
    /\ pc["ping"] \in Redialling \cup {"off", "top", "check", "nap", "assert", "fault"}
    /\ pc["read"] \in {"off", "recv", "disconnect", "close", "fault"}
    /\ pc["app"] \in Dialling => pc["ping"] = "off" /\ pc["read"] = "off"
    /\ pc["ping"] \in Redialling => pc["read"] = "off"
    /\ pc["app"] = "socket" => sock = "none"
    /\ pc["ping"] = "socket" => sock = "closed"
    /\ pc["app"] = "subsend" => topic \in Topic
    /\ ~leaked

(* The list holds every live device once, in its first borgDevCount        *)
(* entries, and is empty until the gate is created.                        *)
RegistryInv ==
    /\ connFlag = -1 => live = {}
    /\ \A i \in 1..borgDevCount : borgDevList[i] \in live
    /\ \A i, j \in 1..borgDevCount : borgDevList[i] = borgDevList[j] => i = j
    /\ \A d \in live : \E i \in 1..borgDevCount : borgDevList[i] = d

-----------------------------------------------------------------------------
(* What the broker may add to the inbox is a sequence of packets again.    *)
LEMMA AnsweredType ==
    ASSUME MqttTypeOK, NEW R, R \subseteq Reply, inbox' \in Answered(R)
    PROVE  inbox' \in Seq(Packet)
<1>1. ASSUME NEW r \in R PROVE [type |-> r] \in Packet
  BY DEF Packet
<1>2. inbox \in Seq(Packet)
  BY DEF MqttTypeOK
<1>3. ASSUME NEW r \in R PROVE Append(inbox, [type |-> r]) \in Seq(Packet)
  BY <1>1, <1>2, AppendProperties
<1> QED
  BY <1>2, <1>3 DEF Answered

LEMMA TailType ==
    ASSUME MqttTypeOK, inbox # << >>
    PROVE  Tail(inbox) \in Seq(Packet) /\ Head(inbox) \in Packet
  BY HeadTailProperties DEF MqttTypeOK

(* An empty inbox is a sequence of packets.                                *)
LEMMA EmptyType == << >> \in Seq(Packet)
  OBVIOUS

-----------------------------------------------------------------------------
(* One lemma per action of the session: it keeps MqttTypeOK and            *)
(* SessionInv.                                                             *)
SInv == MqttTypeOK /\ SessionInv

LEMMA InitSession == Init => SInv
<1> SUFFICES ASSUME MqttInit PROVE SInv
  BY DEF Init
<1>1. pc \in [Party -> MqttPC]
  BY DEF MqttInit, Party, MqttPC
<1>2. MqttTypeOK
  <2>1. inbox \in Seq(Packet)
    BY EmptyType DEF MqttInit
  <2>2. sock \in Sock /\ leaked \in BOOLEAN /\ reader \in {"NONE", "INIT", "READY", "CLOSE"}
    BY DEF MqttInit, Sock
  <2>3. age \in 0..(TickMod - 1) /\ lag \in 0..MaxSend /\ naptime \in 0..Interval
        /\ silence \in 0..(Threshold + 1)
    BY MqttAssumption DEF MqttInit
  <2>4. subs \subseteq Topic /\ topic \in Topic \cup {NoTopic}
    BY DEF MqttInit
  <2> QED
    BY <1>1, <2>1, <2>2, <2>3, <2>4 DEF MqttTypeOK
<1>3. SessionInv
  BY DEF MqttInit, SessionInv, Party, Dialling, Redialling
<1> QED
  BY <1>2, <1>3 DEF SInv

LEMMA LookupFaultsStep ==
    ASSUME SInv, NEW x \in {"app", "ping"}, LookupFaults(x)
    PROVE  SInv'
<1>1. MqttTypeOK'
  BY DEF SInv, MqttTypeOK, LookupFaults, net, clock, Party, MqttPC
<1>2. SessionInv'
  BY DEF SInv, SessionInv, LookupFaults, net, Party, Dialling, Redialling
<1> QED
  BY <1>1, <1>2 DEF SInv

LEMMA OpenSocketStep ==
    ASSUME SInv, NEW x \in {"app", "ping"}, OpenSocket(x)
    PROVE  SInv'
<1> USE MqttAssumption
<1>1. MqttTypeOK'
  BY EmptyType DEF SInv, MqttTypeOK, OpenSocket, Goto, After, Doze, clock, Party, MqttPC, Sock
<1>2. SessionInv'
  BY DEF SInv, MqttTypeOK, SessionInv, OpenSocket, Goto, After, Party, Dialling, Redialling
<1> QED
  BY <1>1, <1>2 DEF SInv

LEMMA ConnectSocketStep ==
    ASSUME SInv, NEW x \in {"app", "ping"}, ConnectSocket(x)
    PROVE  SInv'
<1> USE MqttAssumption
<1>1. inbox' \in Seq(Packet)
  <2>1. CASE UNCHANGED inbox
    BY <2>1 DEF SInv, MqttTypeOK
  <2>2. CASE ~UNCHANGED inbox
    <3>1. ({"CONNACK"} \cup IF MayFail THEN {"REFUSED"} ELSE {}) \subseteq Reply
      BY DEF Reply
    <3> QED
      BY <3>1, <2>2, AnsweredType DEF ConnectSocket, SInv
  <2> QED
    BY <2>1, <2>2
<1>2. MqttTypeOK'
  BY <1>1 DEF SInv, MqttTypeOK, ConnectSocket, Goto, After, Doze, clock, Party, MqttPC, Sock
<1>3. SessionInv'
  BY DEF SInv, MqttTypeOK, SessionInv, ConnectSocket, Goto, After, Party, Dialling, Redialling
<1> QED
  BY <1>2, <1>3 DEF SInv

LEMMA AppConnackStep ==
    ASSUME SInv, AppConnack
    PROVE  SInv'
<1>1. inbox' \in Seq(Packet)
  BY TailType DEF SInv, MqttTypeOK, AppConnack, ReadConnack
<1>2. MqttTypeOK'
  BY <1>1 DEF SInv, MqttTypeOK, AppConnack, ReadConnack, Goto, clock, Party, MqttPC, Sock
<1>3. SessionInv'
  BY DEF SInv, MqttTypeOK, SessionInv, AppConnack, ReadConnack, Goto, Party, Dialling, Redialling
<1> QED
  BY <1>2, <1>3 DEF SInv

LEMMA PingConnackStep ==
    ASSUME SInv, PingConnack
    PROVE  SInv'
<1>1. inbox' \in Seq(Packet)
  BY TailType DEF SInv, MqttTypeOK, PingConnack, ReadConnack
<1>2. MqttTypeOK'
  BY <1>1, MqttAssumption
  DEF SInv, MqttTypeOK, PingConnack, ReadConnack, Goto, Doze, clock, Party, MqttPC, Sock
<1>3. SessionInv'
  BY DEF SInv, MqttTypeOK, SessionInv, PingConnack, ReadConnack, Goto, Party, Dialling, Redialling
<1> QED
  BY <1>2, <1>3 DEF SInv

LEMMA HangUpStep ==
    ASSUME SInv, NEW x \in {"ping", "read"}, HangUp(x)
    PROVE  SInv'
<1>1. MqttTypeOK'
  <2>1. CASE SendDisconnect(x)
    BY <2>1 DEF SInv, MqttTypeOK, SendDisconnect, Goto, clock, Party, MqttPC
  <2>2. CASE CloseSocket(x)
    BY <2>2, EmptyType DEF SInv, MqttTypeOK, CloseSocket, Goto, clock, Party, MqttPC, Sock
  <2> QED
    BY <2>1, <2>2 DEF HangUp
<1>2. SessionInv'
  BY DEF SInv, MqttTypeOK, SessionInv, HangUp, SendDisconnect, CloseSocket, Goto, Party,
         Dialling, Redialling
<1> QED
  BY <1>1, <1>2 DEF SInv

LEMMA SubscribeStep ==
    ASSUME SInv, NEW d \in Topic, Subscribe(d) \/ Unsubscribe(d)
    PROVE  SInv'
<1>1. MqttTypeOK'
  BY DEF SInv, MqttTypeOK, Subscribe, Unsubscribe, Goto, clock, net, Party, MqttPC
<1>2. SessionInv'
  BY DEF SInv, MqttTypeOK, SessionInv, Subscribe, Unsubscribe, Goto, net, Party, Dialling, Redialling
<1> QED
  BY <1>1, <1>2 DEF SInv

LEMMA SubscribeSendStep ==
    ASSUME SInv, SubscribeSend
    PROVE  SInv'
<1>1. inbox' \in Seq(Packet)
  <2>1. CASE UNCHANGED inbox
    BY <2>1 DEF SInv, MqttTypeOK
  <2>2. CASE ~UNCHANGED inbox
    <3>1. ({"SUBACK"} \cup IF MayFail THEN {"BADQOS"} ELSE {}) \subseteq Reply
      BY DEF Reply
    <3> QED
      BY <3>1, <2>2, AnsweredType DEF SubscribeSend, SInv
  <2> QED
    BY <2>1, <2>2
<1>2. MqttTypeOK'
  BY <1>1 DEF SInv, MqttTypeOK, SessionInv, SubscribeSend, Goto, clock, Party, MqttPC
<1>3. SessionInv'
  BY DEF SInv, MqttTypeOK, SessionInv, SubscribeSend, Goto, Party, Dialling, Redialling
<1> QED
  BY <1>2, <1>3 DEF SInv

LEMMA PingSendStep ==
    ASSUME SInv, PingSend
    PROVE  SInv'
<1>1. inbox' \in Seq(Packet)
  <2>1. CASE UNCHANGED inbox
    BY <2>1 DEF SInv, MqttTypeOK
  <2>2. CASE ~UNCHANGED inbox
    BY <2>2, AnsweredType DEF PingSend, SInv, Reply
  <2> QED
    BY <2>1, <2>2
<1>2. MqttTypeOK'
  BY <1>1, MqttAssumption DEF SInv, MqttTypeOK, PingSend, Goto, Party, MqttPC
<1>3. SessionInv'
  BY DEF SInv, MqttTypeOK, SessionInv, PingSend, Goto, Party, Dialling, Redialling
<1> QED
  BY <1>2, <1>3 DEF SInv

(* The read thread is stopped in the step that decides to reconnect.       *)
LEMMA PingCheckStep ==
    ASSUME SInv, PingCheck \/ PingWake
    PROVE  SInv'
<1>1. MqttTypeOK'
  BY MqttAssumption
  DEF SInv, MqttTypeOK, PingCheck, PingWake, Goto, Doze, clock, net, Party, MqttPC
<1>2. SessionInv'
  BY DEF SInv, MqttTypeOK, SessionInv, PingCheck, PingWake, Goto, net, Party, Dialling, Redialling
<1> QED
  BY <1>1, <1>2 DEF SInv

LEMMA ReceiveStep ==
    ASSUME SInv, NEW p \in Packet, Receive(p)
    PROVE  SInv'
<1>1. inbox' \in Seq(Packet)
  BY TailType DEF SInv, Receive
<1>2. MqttTypeOK'
  BY <1>1, MqttAssumption DEF SInv, MqttTypeOK, Receive, Heard, Goto, clock, Party, MqttPC
<1>3. SessionInv'
  BY DEF SInv, MqttTypeOK, SessionInv, Receive, Goto, Party, Dialling, Redialling
<1> QED
  BY <1>2, <1>3 DEF SInv

LEMMA TickStep ==
    ASSUME SInv, Tick
    PROVE  SInv'
<1>1. age' \in 0..(TickMod - 1)
  BY MqttAssumption DEF SInv, MqttTypeOK, Tick, Later
<1>2. MqttTypeOK'
  BY <1>1, MqttAssumption DEF SInv, MqttTypeOK, Tick, net
<1>3. SessionInv'
  BY DEF SInv, SessionInv, Tick, net
<1> QED
  BY <1>2, <1>3 DEF SInv

LEMMA PublishStep ==
    ASSUME SInv, NEW d \in Topic, BrokerPublish(d)
    PROVE  SInv'
<1>1. [type |-> "PUBLISH", topic |-> d] \in Packet
  BY DEF Packet
<1>2. inbox' \in Seq(Packet)
  BY <1>1, AppendProperties DEF SInv, MqttTypeOK, BrokerPublish
<1>3. MqttTypeOK'
  BY <1>2 DEF SInv, MqttTypeOK, BrokerPublish, clock
<1>4. SessionInv'
  BY DEF SInv, SessionInv, BrokerPublish
<1> QED
  BY <1>3, <1>4 DEF SInv

LEMMA SessionUnchanged ==
    ASSUME SInv, UNCHANGED mqttVars
    PROVE  SInv'
  BY DEF SInv, MqttTypeOK, SessionInv, mqttVars

LEMMA SessionStep ==
    ASSUME SInv, [Next]_vars
    PROVE  SInv'
<1>1. CASE CreateGate
  BY <1>1, SubscribeStep, BorgAssumption DEF CreateGate, Device
<1>2. CASE Handle
  BY <1>2, ReceiveStep DEF Handle
<1>3. ASSUME NEW d \in Device, Create(d) \/ Connect(d) \/ Disconnect(d)
      PROVE  SInv'
  BY <1>3, SubscribeStep, SessionUnchanged DEF Create, Connect, Disconnect, Device
<1>4. CASE \E i \in Slot : Destroy(i)
  BY <1>4, SessionUnchanged DEF Destroy
<1>5. CASE Dial("app") \/ Dial("ping")
  BY <1>5, LookupFaultsStep, OpenSocketStep, ConnectSocketStep DEF Dial
<1>6. CASE AppConnack \/ PingConnack
  BY <1>6, AppConnackStep, PingConnackStep
<1>7. CASE SubscribeSend
  BY <1>7, SubscribeSendStep
<1>8. CASE HangUp("ping") \/ HangUp("read")
  BY <1>8, HangUpStep
<1>9. CASE PingSend \/ PingCheck \/ PingWake
  BY <1>9, PingSendStep, PingCheckStep
<1>10. CASE Tick
  BY <1>10, TickStep
<1>11. CASE \E d \in Device : BrokerPublish(d)
  BY <1>11, PublishStep DEF Device
<1>12. CASE UNCHANGED vars
  BY <1>12, SessionUnchanged DEF vars
<1> QED
  BY <1>1, <1>2, <1>3, <1>4, <1>5, <1>6, <1>7, <1>8, <1>9, <1>10, <1>11, <1>12 DEF Next, PingStep

LEMMA SessionAlways == Spec => []SInv
  BY InitSession, SessionStep, PTL DEF Spec

-----------------------------------------------------------------------------
(* The registry.                                                           *)

RegistryType ==
    /\ borgDevList \in [Slot -> Device] /\ borgDevCount \in 0..Capacity
    /\ connFlag \in {-1, 1} /\ live \subseteq Device

(* borg_dev_create appends a device that is not in the list.               *)
LEMMA AppendStep ==
    ASSUME RegistryType, NEW d \in Device, Append1(d), connFlag' \in {-1, 1}
    PROVE  RegistryType'
  BY BorgAssumption DEF RegistryType, Append1, Slot

(* borg_dev_destory shifts the list.                                       *)
LEMMA DestroyType ==
    ASSUME RegistryType, NEW i \in Slot, Destroy(i)
    PROVE  RegistryType'
<1>1. Shift(borgDevList, borgDevCount) \in [Slot -> Device]
  BY BorgAssumption DEF RegistryType, Shift, Slot
<1> QED
  BY <1>1, BorgAssumption DEF RegistryType, Destroy, Slot

LEMMA RegistryTypeStep ==
    ASSUME RegistryType, [Next]_vars
    PROVE  RegistryType'
<1>1. CASE CreateGate
  BY <1>1, AppendStep, BorgAssumption DEF CreateGate
<1>2. CASE UNCHANGED borgVars
  BY <1>2 DEF RegistryType, borgVars
<1>3. ASSUME NEW d \in Device, Create(d)
      PROVE  RegistryType'
  BY <1>3, AppendStep DEF Create, RegistryType
<1>4. ASSUME NEW i \in Slot, Destroy(i)
      PROVE  RegistryType'
  BY <1>4, DestroyType
<1> QED
  BY <1>1, <1>2, <1>3, <1>4 DEF Next, Handle, Connect, Disconnect, vars

LEMMA RegistryTypeAlways == Spec => []RegistryType
<1>1. Init => RegistryType
  BY BorgAssumption DEF Init, RegistryType, Slot
<1> QED
  BY <1>1, RegistryTypeStep, PTL DEF Spec

(* Every variable keeps its type: the unsigned time differences wrap, the  *)
(* nap and the silence stay within their times, and no call on the         *)
(* registry leaves the array.                                              *)
THEOREM TypeCorrect == Spec => []TypeOK
<1>1. SInv /\ RegistryType => TypeOK
  BY DEF SInv, RegistryType, TypeOK
<1> QED
  BY <1>1, SessionAlways, RegistryTypeAlways, PTL

(* mqtt_connect and mqtt_reconnect read their CONNACK while the read       *)
(* thread is stopped.                                                      *)
THEOREM ReaderAlone == Spec => []SoleReader
<1>1. SInv => SoleReader
  BY DEF SInv, SessionInv, SoleReader, Dialling, Redialling
<1> QED
  BY <1>1, SessionAlways, PTL

(* socket() is called only when mqttSocket names no open socket, whatever  *)
(* call of the last attempt failed.                                        *)
THEOREM SocketsClosed == Spec => []NoSocketLeak
<1>1. SInv => NoSocketLeak
  BY DEF SInv, SessionInv, NoSocketLeak
<1> QED
  BY <1>1, SessionAlways, PTL

-----------------------------------------------------------------------------
(* The dispatch of messages, when the application destroys none but the    *)
(* first device of the list.                                               *)

LEMMA AppendRegistry ==
    ASSUME RegistryType, RegistryInv, NEW d \in Device, d \notin live, Append1(d),
           connFlag' = 1
    PROVE  RegistryInv'
<1>1. /\ borgDevCount + 1 \in Slot /\ borgDevCount' = borgDevCount + 1
      /\ borgDevList'[borgDevCount + 1] = d
      /\ \A i \in 1..borgDevCount : borgDevList'[i] = borgDevList[i]
      /\ live' = live \cup {d}
      /\ 1..borgDevCount' = 1..borgDevCount \cup {borgDevCount + 1}
  BY BorgAssumption DEF RegistryType, Append1, Slot
<1> QED
  BY <1>1 DEF RegistryInv, RegistryType

LEMMA DestroyRegistry ==
    ASSUME RegistryType, RegistryInv, Destroy(1)
    PROVE  RegistryInv'
<1>1. /\ borgDevCount \in 1..Capacity /\ borgDevCount' = borgDevCount - 1
      /\ live' = live \ {borgDevList[1]}
      /\ \A i \in 1..(borgDevCount - 1) : borgDevList'[i] = borgDevList[i + 1]
      /\ UNCHANGED connFlag
  BY BorgAssumption DEF RegistryType, Destroy, Shift, Slot
<1>2. \A i \in 1..borgDevCount' : i + 1 \in 1..borgDevCount
  BY <1>1
<1>3. \A i \in 1..borgDevCount' : borgDevList'[i] \in live'
  BY <1>1, <1>2 DEF RegistryInv
<1>4. \A i, j \in 1..borgDevCount' : borgDevList'[i] = borgDevList'[j] => i = j
  BY <1>1, <1>2 DEF RegistryInv
<1>5. ASSUME NEW d \in live'
      PROVE  \E i \in 1..borgDevCount' : borgDevList'[i] = d
  <2>1. PICK j \in 1..borgDevCount : borgDevList[j] = d
    BY <1>1, <1>5 DEF RegistryInv
  <2>2. j # 1
    BY <1>1, <1>5, <2>1
  <2>3. j - 1 \in 1..borgDevCount' /\ borgDevList'[j - 1] = d
    BY <1>1, <2>1, <2>2
  <2> QED
    BY <2>3
<1> QED
  BY <1>1, <1>3, <1>4, <1>5 DEF RegistryInv

LEMMA RegistryStep ==
    ASSUME DestroyAt \subseteq {1}, RegistryType, RegistryInv, [Next]_vars
    PROVE  RegistryInv'
<1>1. CASE CreateGate
  BY <1>1, AppendRegistry, BorgAssumption DEF CreateGate, RegistryInv
<1>2. CASE UNCHANGED borgVars
  BY <1>2 DEF RegistryInv, borgVars
<1>3. ASSUME NEW d \in Device, Create(d)
      PROVE  RegistryInv'
  BY <1>3, AppendRegistry DEF Create
<1>4. ASSUME NEW i \in Slot, Destroy(i)
      PROVE  RegistryInv'
  <2>1. i = 1
    BY <1>4 DEF Destroy
  <2> QED
    BY <1>4, <2>1, DestroyRegistry
<1> QED
  BY <1>1, <1>2, <1>3, <1>4 DEF Next, Handle, Connect, Disconnect, vars

LEMMA ExactDispatch ==
    ASSUME RegistryType, RegistryInv
    PROVE  DispatchExact
<1>1. ASSUME NEW d \in live PROVE Cardinality(Callees(d)) = 1
  <2>1. PICK i \in 1..borgDevCount : borgDevList[i] = d
    BY DEF RegistryInv
  <2>2. Callees(d) = {i}
    BY <2>1 DEF RegistryInv, Callees
  <2> QED
    BY <2>2, FS_Singleton
<1>2. ASSUME NEW d \in Device \ live PROVE Cardinality(Callees(d)) = 0
  <2>1. Callees(d) = {}
    BY DEF RegistryInv, Callees
  <2> QED
    BY <2>1, FS_EmptySet
<1> QED
  BY <1>1, <1>2 DEF RegistryInv, DispatchExact

(* As long as only the first device of the list is destroyed, borgRecvCB   *)
(* calls the device a message is for, once, and never one that is gone.    *)
THEOREM DispatchCorrect ==
    ASSUME DestroyAt \subseteq {1}
    PROVE  Spec => []DispatchExact
<1>1. Init => RegistryInv
  BY DEF Init, RegistryInv
<1>2. RegistryType /\ RegistryInv /\ [Next]_vars => RegistryInv'
  BY RegistryStep
<1>3. RegistryType /\ RegistryInv => DispatchExact
  BY ExactDispatch
<1> QED
  BY <1>1, <1>2, <1>3, RegistryTypeAlways, PTL DEF Spec
=============================================================================
