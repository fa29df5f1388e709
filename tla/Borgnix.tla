------------------------------- MODULE Borgnix -------------------------------
(***************************************************************************)
(* The Borgnix SDK: the device registry of applications/borgnix.c on top   *)
(* of the MQTT session.  A device is named by its uuid, which is also the  *)
(* topic it subscribes to.  The registry's calls and the dispatch of one   *)
(* message are single steps.                                               *)
(***************************************************************************)
EXTENDS Mqtt

CONSTANTS
    Gate,          \* the device that stands for the gateway itself
    Capacity,      \* BORG_DEV_MAX_NUM
    DestroyAt      \* the list positions of the devices the application destroys

VARIABLES
    borgDevList,   \* the array; entries from borgDevCount on are leftovers
    borgDevCount,
    connFlag,      \* -1 until mqtt_connect has returned, then 1
    live           \* the devices created and not destroyed

borgVars == << borgDevList, borgDevCount, connFlag, live >>
vars == << mqttVars, borgVars >>

Device == Topic
Slot == 1..Capacity

ASSUME BorgAssumption ==
    /\ Gate \in Device
    /\ Capacity \in Nat \ {0}
    /\ DestroyAt \subseteq Slot

(* borg_dev_init has been called and is inside mqtt_connect.               *)
Init ==
    /\ MqttInit
    /\ borgDevList = [i \in Slot |-> Gate] /\ borgDevCount = 0
    /\ connFlag = -1 /\ live = {}

(* borg_dev_create.  The code does not look at the array's bound; here an  *)
(* application creates no more than Capacity devices.                      *)
Append1(d) ==
    /\ borgDevCount < Capacity
    /\ borgDevList' = [borgDevList EXCEPT ![borgDevCount + 1] = d]
    /\ borgDevCount' = borgDevCount + 1
    /\ live' = live \cup {d}

(* The rest of borg_dev_init: whatever mqtt_connect returned, the gate is  *)
(* created and subscribes.                                                 *)
CreateGate ==
    /\ connFlag = -1 /\ connFlag' = 1
    /\ Append1(Gate)
    /\ Subscribe(Gate)

Create(d) ==
    /\ pc["app"] = "run" /\ connFlag = 1 /\ d \notin live
    /\ Append1(d) /\ UNCHANGED << mqttVars, connFlag >>

(* Faulty Shift: the list is left as it is.                                *)
ShiftNothing(list, n) == list

(* borg_dev_destory.  The flag that says whether the device has been found *)
(* starts as -1, which the test takes for true: the list is shifted from   *)
(* its first entry on.                                                     *)
Shift(list, n) == [i \in Slot |-> IF i < n THEN list[i + 1] ELSE list[i]]

Destroy(i) ==
    /\ pc["app"] = "run" /\ i \in DestroyAt /\ i <= borgDevCount
    /\ borgDevList[i] \in live
    /\ borgDevList' = Shift(borgDevList, borgDevCount)
    /\ borgDevCount' = borgDevCount - 1
    /\ live' = live \ {borgDevList[i]}
    /\ UNCHANGED << mqttVars, connFlag >>

(* borg_dev_connect and borg_dev_disconnect.  The test of connFlag in the  *)
(* former is true of -1 and of 1.                                          *)
Connect(d) == d \in live /\ Subscribe(d) /\ UNCHANGED borgVars
Disconnect(d) == d \in live /\ Unsubscribe(d) /\ UNCHANGED borgVars

(* borgRecvCB, called by the read thread for a PUBLISH: the devices whose  *)
(* callback a message for uuid d reaches.                                  *)
Callees(d) == {i \in 1..borgDevCount : borgDevList[i] = d}

Handle == (\E p \in Packet : Receive(p)) /\ UNCHANGED borgVars

-----------------------------------------------------------------------------
Next ==
    \/ CreateGate \/ Handle
    \/ \E d \in Device : Create(d) \/ Connect(d) \/ Disconnect(d)
    \/ \E i \in Slot : Destroy(i)
    \/ /\ \/ Dial("app") \/ AppConnack \/ SubscribeSend
          \/ PingStep \/ HangUp("read") \/ Tick
          \/ \E d \in Device : BrokerPublish(d)
       /\ UNCHANGED borgVars

Spec == Init /\ [][Next]_vars
FairSpec == Spec /\ MqttFairness

-----------------------------------------------------------------------------
(* Properties.                                                             *)

TypeOK ==
    /\ MqttTypeOK
    /\ borgDevList \in [Slot -> Device] /\ borgDevCount \in 0..Capacity
    /\ connFlag \in {-1, 1} /\ live \subseteq Device

(* borgRecvCB calls the device a message is for, once, if that device      *)
(* lives, and it follows no pointer to a destroyed device.                 *)
DispatchExact ==
    /\ \A i \in 1..borgDevCount : borgDevList[i] \in live
    /\ \A d \in Device : Cardinality(Callees(d)) = IF d \in live THEN 1 ELSE 0
=============================================================================
