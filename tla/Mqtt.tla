-------------------------------- MODULE Mqtt --------------------------------
(***************************************************************************)
(* The MQTT session of the Borgnix SDK (applications/mqtt.c): one TCP      *)
(* socket shared by three threads.  The application thread "app" connects  *)
(* and subscribes, the read thread "read" handles what the broker sends,   *)
(* the ping thread "ping" pings every pingInterval and opens the session   *)
(* anew when nothing has been heard for pingThreshold.  A step is what a   *)
(* thread does from one call that may block (a socket call or a delay) to  *)
(* the next: there the other threads run.  Time stamps only ever enter     *)
(* differences, so the model keeps the differences.  The broker and lwIP's *)
(* sockets are modelled from how this code uses them.                      *)
(***************************************************************************)
EXTENDS Integers, Sequences, FiniteSets

CONSTANTS
    Topic,         \* topics
    NoTopic,       \* none of them
    Interval,      \* pingInterval in ticks
    Threshold,     \* pingThreshold in ticks
    TickMod,       \* 2^32, the time stamps are unsigned int
    ConnectAt,     \* the possible values of rt_tick when mqtt_connect is called
    MaxSend,       \* bound: a send of the ping thread blocks this many ticks
    MaxInbox,      \* bound on packets sent by the broker and not yet received
    MayFail        \* the name server, the network and the broker may fail
                   \* to answer, the heap may be exhausted

VARIABLES
    pc,            \* where each thread stands
    sock,          \* the socket mqttSocket names
    leaked,        \* an open socket is no longer named by mqttSocket
    reader,        \* mqttReadThread.stat
    inbox,         \* what the broker has sent on the socket
    subs,          \* the topics the broker has for this session
    age,           \* rt_tick - lastPingTs, the last time stamp the reader took
    lag,           \* rt_tick - currentTs while the ping thread's send blocks
    naptime,       \* ticks left of the ping thread's rt_thread_delay
    silence,       \* history: ticks since a packet was handled, or the ping
                   \* thread started, up to Threshold + 1
    topic          \* the topic of the application's mqtt_sub or mqtt_unsub

mqttVars == << pc, sock, leaked, reader, inbox, subs, age, lag, naptime, silence,
               topic >>
net == << sock, leaked, inbox, subs >>
clock == << age, lag, naptime, silence >>

Party == {"app", "ping", "read"}
MqttPC == {"off", "run", "socket", "connect", "connack", "subsend",
           "top", "check", "nap", "disconnect", "close", "assert", "recv", "fault"}
Sock == {"none", "fresh", "tcp", "session", "closed"}
Reply == {"CONNACK", "REFUSED", "PINGRESP", "SUBACK", "BADQOS"}
Packet == [type: Reply] \cup [type: {"PUBLISH"}, topic: Topic]

ASSUME MqttAssumption ==
    /\ Topic # {} /\ NoTopic \notin Topic
    /\ Interval \in Nat \ {0} /\ Threshold \in Nat /\ MaxSend \in Nat
    /\ MaxInbox \in Nat /\ MayFail \in BOOLEAN
    /\ TickMod \in Nat \ {0} /\ Threshold + Interval + MaxSend < TickMod
    /\ ConnectAt \subseteq 0..(TickMod - 1)

MqttInit ==
    /\ pc = [x \in Party |-> IF x = "app" THEN "socket" ELSE "off"]
    /\ sock = "none" /\ leaked = FALSE
    /\ reader = "NONE"
    /\ inbox = << >> /\ subs = {}
    /\ age \in ConnectAt          \* lastPingTs = 0
    /\ lag = 0 /\ naptime = 0 /\ silence = 0
    /\ topic = NoTopic

Goto(x, l) == pc' = [pc EXCEPT ![x] = l]

-----------------------------------------------------------------------------
(* The broker and the network.                                             *)

(* What may be in the inbox after the broker has received a packet that it *)
(* answers with one of the replies of R.                                   *)
Answered(R) ==
    {Append(inbox, [type |-> r]) : r \in R} \cup (IF MayFail THEN {inbox} ELSE {})

BrokerPublish(d) ==
    /\ sock = "session" /\ d \in subs /\ Len(inbox) < MaxInbox
    /\ inbox' = Append(inbox, [type |-> "PUBLISH", topic |-> d])
    /\ UNCHANGED << pc, sock, leaked, reader, subs, clock, topic >>

-----------------------------------------------------------------------------
(* mqtt_connect, called by the application, and mqtt_reconnect, called by  *)
(* the ping thread: the same calls up to the threads they start.  After    *)
(* an error the application goes on and the ping thread naps.              *)

After(x) == IF x = "app" THEN "run" ELSE "nap"
Doze(x) ==
    /\ naptime' = IF x = "ping" THEN Interval ELSE naptime
    /\ lag' = 0 /\ UNCHANGED << age, silence >>

(* Neither the result of gethostbyname nor that of rt_malloc is tested.    *)
(* When the look-up or the allocation fails the code goes through a null   *)
(* pointer: what it reads there is no broker's address, and connect or the *)
(* answer fails, or the processor faults and no thread runs any more.      *)
LookupFaults(x) ==
    /\ pc[x] = "socket" /\ MayFail
    /\ pc' = [y \in Party |-> "fault"]
    /\ UNCHANGED << net, reader, clock, topic >>

OpenSocket(x) ==
    /\ pc[x] = "socket"
    /\ leaked' = (leaked \/ sock \in {"fresh", "tcp", "session"})
    /\ inbox' = << >> /\ subs' = {}
    /\ \/ sock' = "fresh" /\ Goto(x, "connect") /\ UNCHANGED clock
       \/ MayFail /\ sock' = "none" /\ Goto(x, After(x)) /\ Doze(x)
    /\ UNCHANGED << reader, topic >>

(* connect, and the send of the CONNECT packet.                            *)
ConnectSocket(x) ==
    /\ pc[x] = "connect"
    /\ \/ /\ sock' = "tcp" /\ Goto(x, "connack") /\ UNCHANGED clock
          /\ inbox' \in Answered({"CONNACK"} \cup IF MayFail THEN {"REFUSED"} ELSE {})
       \/ MayFail /\ Goto(x, After(x)) /\ Doze(x) /\ UNCHANGED << sock, inbox >>
    /\ UNCHANGED << leaked, reader, subs, topic >>

(* The CONNACK is read by the caller.  Without one, mqtt_socket_disconnect *)
(* closes the socket; a reader that finds none waits until the connection  *)
(* is lost.                                                                *)
ReadConnack(x) ==
    /\ pc[x] = "connack"
    /\ inbox # << >> \/ MayFail
    /\ IF inbox # << >> /\ Head(inbox).type = "CONNACK"
       THEN sock' = "session"
       ELSE sock' = "closed"
    /\ inbox' = IF inbox = << >> THEN inbox ELSE Tail(inbox)
    /\ UNCHANGED << leaked, subs, topic >>

(* thread_read_init and thread_ping_init.                                  *)
AppConnack ==
    /\ ReadConnack("app")
    /\ IF sock' = "session"
       THEN /\ pc' = [pc EXCEPT !["app"] = "run", !["read"] = "recv", !["ping"] = "top"]
            /\ reader' = "READY"
       ELSE Goto("app", "run") /\ UNCHANGED reader
    /\ UNCHANGED clock

(* rt_thread_startup asserts that the thread is in RT_THREAD_INIT; a       *)
(* failed RT_ASSERT loops for ever.                                        *)
PingConnack ==
    /\ ReadConnack("ping")
    /\ IF sock' = "session" /\ reader # "INIT"
       THEN Goto("ping", "assert") /\ UNCHANGED << reader, clock >>
       ELSE /\ Doze("ping")
            /\ IF sock' = "session"
               THEN /\ pc' = [pc EXCEPT !["ping"] = "nap", !["read"] = "recv"]
                    /\ reader' = "READY"
               ELSE Goto("ping", "nap") /\ UNCHANGED reader

-----------------------------------------------------------------------------
(* mqtt_disconnect: the DISCONNECT packet ends the broker's session, then  *)
(* mqtt_socket_disconnect closes the socket.                               *)
SendDisconnect(x) ==
    /\ pc[x] = "disconnect"
    /\ subs' = {}
    /\ Goto(x, "close") /\ UNCHANGED << sock, leaked, reader, inbox, clock, topic >>

(* Faulty CloseSocket: the socket stays open.                              *)
CloseNothing(x) ==
    /\ pc[x] = "close"
    /\ Goto(x, IF x = "ping" THEN "socket" ELSE "recv")
    /\ UNCHANGED << net, reader, clock, topic >>

CloseSocket(x) ==
    /\ pc[x] = "close"
    /\ sock' = "closed" /\ inbox' = << >> /\ subs' = {}
    /\ Goto(x, IF x = "ping" THEN "socket" ELSE "recv")
    /\ UNCHANGED << leaked, reader, clock, topic >>

-----------------------------------------------------------------------------
(* The application's calls.  mqtt_sub serialises its packet and sends it   *)
(* three delays later, on whatever socket mqttSocket names by then;        *)
(* mqtt_unsub sends at once.  What they return does not depend on it.      *)
Subscribe(d) ==
    /\ pc["app"] = "run"
    /\ topic' = d
    /\ Goto("app", "subsend") /\ UNCHANGED << net, reader, clock >>

SubscribeSend ==
    /\ pc["app"] = "subsend"
    /\ IF sock = "session" /\ Len(inbox) < MaxInbox
       THEN /\ subs' = subs \cup {topic}
            /\ inbox' \in Answered({"SUBACK"} \cup IF MayFail THEN {"BADQOS"} ELSE {})
       ELSE UNCHANGED << subs, inbox >>
    /\ topic' = NoTopic
    /\ Goto("app", "run") /\ UNCHANGED << sock, leaked, reader, clock >>

Unsubscribe(d) ==
    /\ pc["app"] = "run"
    /\ subs' = IF sock = "session" THEN subs \ {d} ELSE subs
    /\ UNCHANGED << pc, sock, leaked, inbox, reader, clock, topic >>

-----------------------------------------------------------------------------
(* The ping thread.                                                        *)

PingSend ==
    /\ pc["ping"] = "top"
    /\ lag' = 0
    /\ IF sock = "session" /\ Len(inbox) < MaxInbox
       THEN inbox' \in Answered({"PINGRESP"})
       ELSE UNCHANGED inbox
    /\ Goto("ping", "check")
    /\ UNCHANGED << sock, leaked, reader, subs, age, naptime, silence, topic >>

(* Faulty Overdue: the threshold is in another unit than the time stamps.  *)
OverdueNever == (age - lag) % TickMod > Threshold * TickMod

(* currentTs - lastPingTs, unsigned, against the threshold.                *)
Overdue == (age - lag) % TickMod > Threshold

(* Faulty PingCheck: the read thread is not stopped.                       *)
PingCheckAlone ==
    /\ pc["ping"] = "check"
    /\ IF Overdue
       THEN Goto("ping", "disconnect") /\ lag' = 0 /\ UNCHANGED << age, naptime, silence >>
       ELSE Goto("ping", "nap") /\ Doze("ping")
    /\ UNCHANGED << net, reader, topic >>

(* rt_thread_detach stops the read thread wherever it is.                  *)
PingCheck ==
    /\ pc["ping"] = "check"
    /\ IF Overdue
       THEN /\ pc' = [pc EXCEPT !["ping"] = "disconnect", !["read"] = "off"]
            /\ reader' = "CLOSE" /\ lag' = 0 /\ UNCHANGED << age, naptime, silence >>
       ELSE Goto("ping", "nap") /\ Doze("ping") /\ UNCHANGED reader
    /\ UNCHANGED << net, topic >>

PingWake ==
    /\ pc["ping"] = "nap" /\ naptime = 0
    /\ Goto("ping", "top") /\ UNCHANGED << net, reader, clock, topic >>

-----------------------------------------------------------------------------
(* The read thread handles the next packet.                                *)

Heard ==
    /\ age' = 0 /\ silence' = 0
    /\ UNCHANGED << lag, naptime >>

Receive(p) ==
    /\ pc["read"] = "recv" /\ inbox # << >> /\ p = Head(inbox)
    /\ inbox' = Tail(inbox)
    /\ IF p.type = "BADQOS" THEN Goto("read", "disconnect") ELSE UNCHANGED pc
    /\ IF p.type \in {"PUBLISH", "PINGRESP"} THEN Heard ELSE UNCHANGED clock
    /\ UNCHANGED << sock, leaked, reader, subs, topic >>

-----------------------------------------------------------------------------

(* Faulty Later: no wrap-around.                                           *)
LaterUnbounded(ts) == ts + 1

(* The difference to a fixed time stamp, one tick later.                   *)
Later(ts) == (ts + 1) % TickMod

(* The clock.  The ping thread, when it is ready, runs within the tick,    *)
(* and its send blocks for MaxSend ticks at most.                          *)
Tick ==
    /\ pc["ping"] # "top"
    /\ pc["ping"] = "nap" => naptime > 0
    /\ pc["ping"] = "check" => lag < MaxSend
    /\ age' = Later(age)
    /\ lag' = IF pc["ping"] = "check" THEN lag + 1 ELSE lag
    /\ naptime' = IF naptime > 0 THEN naptime - 1 ELSE 0
    /\ silence' = IF pc["ping"] # "off" /\ silence <= Threshold THEN silence + 1 ELSE silence
    /\ UNCHANGED << pc, net, reader, topic >>

-----------------------------------------------------------------------------
Dial(x) == LookupFaults(x) \/ OpenSocket(x) \/ ConnectSocket(x)
HangUp(x) == SendDisconnect(x) \/ CloseSocket(x)
PingStep == Dial("ping") \/ PingConnack \/ HangUp("ping") \/ PingSend \/ PingCheck \/ PingWake

-----------------------------------------------------------------------------
(* Properties.                                                             *)

MqttTypeOK ==
    /\ pc \in [Party -> MqttPC]
    /\ sock \in Sock /\ leaked \in BOOLEAN
    /\ reader \in {"NONE", "INIT", "READY", "CLOSE"}
    /\ inbox \in Seq(Packet) /\ subs \subseteq Topic
    /\ age \in 0..(TickMod - 1) /\ lag \in 0..MaxSend
    /\ naptime \in 0..Interval /\ silence \in 0..(Threshold + 1)
    /\ topic \in Topic \cup {NoTopic}

(* The packets of a socket have one reader: while mqtt_connect or          *)
(* mqtt_reconnect waits for its CONNACK the read thread is stopped, so     *)
(* that neither takes bytes meant for the other.                           *)
SoleReader == \A x \in {"app", "ping"} : pc[x] = "connack" => pc["read"] = "off"

(* No socket is opened before the last one is closed: lwIP has few.        *)
NoSocketLeak == ~leaked

(* A session in which nothing is heard for longer than pingThreshold is    *)
(* given up.                                                               *)
SilenceDetected ==
    silence > Threshold ~> silence <= Threshold \/ pc["ping"] \notin {"top", "check", "nap"}

(* The comment in mqtt_reconnect: the ping thread is not stopped.          *)
PingNotStopped == pc["ping"] # "assert"

MqttFairness ==
    /\ WF_mqttVars(Tick)
    /\ WF_mqttVars(PingStep)
=============================================================================
