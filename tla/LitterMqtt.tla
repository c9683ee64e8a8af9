----------------------------- MODULE LitterMqtt -----------------------------
(***************************************************************************)
(* The MQTT thread: Mqtt_Task of app_init.c with example_subscribe,        *)
(* my_publish and the two callbacks of mqtt.c.  Every allocation and every *)
(* call of the MQTT library may fail by itself, so that each way out of    *)
(* each function is a step.  The library is not in the tree: it holds one  *)
(* connection for each client, reports over the event callback that it has *)
(* noticed the loss or the return of the connection, delivers messages,    *)
(* and does both inside IOT_MQTT_Yield only, on the calling thread.        *)
(***************************************************************************)
EXTENDS Integers

CONSTANT PublishEvery   \* yields between two reports: 20 in the firmware

ASSUME PublishAssumption == PublishEvery \in Nat \ {0}

VARIABLES pc,          \* where Mqtt_Task is
          clients,     \* clients constructed and not yet destroyed
          connection,  \* the library's connection for the client in pclient
          subscribed,  \* the client has the subscription
          heap,        \* the buffers allocated and not yet freed
          loop_cnt,    \* bound: modulo PublishEvery, which is all that is read
          link,        \* g_mqtt_link_online
          remote_clean_request,  \* g_remote_clean_request
          service      \* network, server and memory are all there

mqttVars == <<pc, clients, connection, subscribed, heap, loop_cnt, link,
              remote_clean_request, service>>

PublishStep == {"publish_payload", "publish_topic", "publish_send"}
ServingStep == {"loop", "yield"} \cup PublishStep
TaskStep == {"construct", "subscribe_topic", "subscribe_send", "offline", "destroy",
             "rest"} \cup ServingStep

\* broken: lost, but not yet noticed by the library; down: lost and reported.
Connection == {"none", "up", "broken", "down"}
Buffer == {"payload", "topic"}

Init ==
  /\ pc = "construct" /\ clients = 0 /\ connection = "none" /\ subscribed = FALSE
  /\ heap = {} /\ loop_cnt = 0
  /\ link = FALSE /\ remote_clean_request = FALSE
  /\ service \in BOOLEAN

Go(from, to) == pc = from /\ pc' = to

\* Only a service that is not there makes a call fail.
MayFail == ~service

calm == <<remote_clean_request, service>>
library == <<clients, connection, subscribed>>

-----------------------------------------------------------------------------
(* Mqtt_Task *)

ConstructClient ==
  /\ Go("construct", "subscribe_topic")
  /\ clients' = clients + 1 /\ connection' = "up" /\ subscribed' = FALSE
  /\ UNCHANGED <<heap, loop_cnt, link, calm>>

ConstructFails ==
  /\ MayFail /\ Go("construct", "rest")
  /\ link' = FALSE
  /\ UNCHANGED <<library, heap, loop_cnt, calm>>

\* Mutant: the flag is left as the library last set it.
MarkOffline_KeepsFlag ==
  /\ Go("offline", "destroy")
  /\ UNCHANGED <<link, library, heap, loop_cnt, calm>>

MarkOffline ==
  /\ Go("offline", "destroy")
  /\ link' = FALSE
  /\ UNCHANGED <<library, heap, loop_cnt, calm>>

\* IOT_MQTT_Destroy closes whatever connection is left.
DestroyClient ==
  /\ Go("destroy", "rest")
  /\ clients' = clients - 1 /\ connection' = "none" /\ subscribed' = FALSE
  /\ UNCHANGED <<heap, loop_cnt, link, calm>>

\* rt_thread_mdelay(2000)
Rest == Go("rest", "construct") /\ UNCHANGED <<library, heap, loop_cnt, link, calm>>

-----------------------------------------------------------------------------
(* example_subscribe *)

SubscribeTopic ==
  /\ Go("subscribe_topic", "subscribe_send")
  /\ heap' = heap \cup {"topic"}
  /\ UNCHANGED <<library, loop_cnt, link, calm>>

SubscribeNoMemory ==
  /\ MayFail /\ Go("subscribe_topic", "offline")
  /\ UNCHANGED <<library, heap, loop_cnt, link, calm>>

\* Mutant: only the library's events set the flag.
Subscribe_NoFlag ==
  /\ Go("subscribe_send", "loop")
  /\ subscribed' = TRUE
  /\ heap' = heap \ {"topic"} /\ loop_cnt' = 0
  /\ UNCHANGED <<link, clients, connection, calm>>

Subscribe ==
  /\ Go("subscribe_send", "loop")
  /\ subscribed' = TRUE
  /\ heap' = heap \ {"topic"} /\ loop_cnt' = 0
  /\ link' = TRUE
  /\ UNCHANGED <<clients, connection, calm>>

SubscribeFails ==
  /\ MayFail \/ connection = "broken"
  /\ Go("subscribe_send", "offline")
  /\ heap' = heap \ {"topic"}
  /\ UNCHANGED <<library, loop_cnt, link, calm>>

-----------------------------------------------------------------------------
(* my_publish: its result is not looked at, so that every way out of it goes *)
(* on to the yield.                                                          *)

LoopTop ==
  /\ Go("loop", IF loop_cnt = 0 THEN "publish_payload" ELSE "yield")
  /\ UNCHANGED <<library, heap, loop_cnt, link, calm>>

PublishPayload ==
  /\ Go("publish_payload", "publish_topic")
  /\ heap' = heap \cup {"payload"}
  /\ UNCHANGED <<library, loop_cnt, link, calm>>

PublishNoPayload ==
  /\ MayFail /\ Go("publish_payload", "yield")
  /\ UNCHANGED <<library, heap, loop_cnt, link, calm>>

PublishTopic ==
  /\ Go("publish_topic", "publish_send")
  /\ heap' = heap \cup {"topic"}
  /\ UNCHANGED <<library, loop_cnt, link, calm>>

\* Mutant: the error path frees only what it has just failed to allocate.
PublishNoTopic_Leaks ==
  /\ MayFail /\ Go("publish_topic", "yield")
  /\ UNCHANGED <<library, heap, loop_cnt, link, calm>>

PublishNoTopic ==
  /\ MayFail /\ Go("publish_topic", "yield")
  /\ heap' = heap \ {"payload"}
  /\ UNCHANGED <<library, loop_cnt, link, calm>>

\* Sent or not, both buffers are freed.
PublishSend ==
  /\ Go("publish_send", "yield")
  /\ heap' = heap \ {"topic", "payload"}
  /\ UNCHANGED <<library, loop_cnt, link, calm>>

-----------------------------------------------------------------------------
(* IOT_MQTT_Yield, and what the library calls back while it runs. *)

\* Mutant: the counter stops at its last value.
YieldReturns_Saturates ==
  /\ Go("yield", "loop")
  /\ loop_cnt' = IF loop_cnt + 1 < PublishEvery THEN loop_cnt + 1 ELSE loop_cnt
  /\ UNCHANGED <<library, heap, link, calm>>

YieldReturns ==
  /\ Go("yield", "loop")
  /\ loop_cnt' = (loop_cnt + 1) % PublishEvery
  /\ UNCHANGED <<library, heap, link, calm>>

\* It may also give up a connection it could have found again.
YieldFails ==
  /\ MayFail \/ connection \in {"broken", "down"}
  /\ Go("yield", "offline")
  /\ UNCHANGED <<library, heap, loop_cnt, link, calm>>

\* example_event_handle, IOTX_MQTT_EVENT_DISCONNECT
OnDisconnect ==
  /\ pc = "yield" /\ connection = "broken"
  /\ connection' = "down"
  /\ link' = FALSE
  /\ UNCHANGED <<pc, clients, subscribed, heap, loop_cnt, calm>>

\* Mutant: only a new subscription sets the flag.
OnReconnect_NoFlag ==
  /\ pc = "yield" /\ connection = "down" /\ service
  /\ connection' = "up"
  /\ UNCHANGED <<link, pc, clients, subscribed, heap, loop_cnt, calm>>

\* example_event_handle, IOTX_MQTT_EVENT_RECONNECT
OnReconnect ==
  /\ pc = "yield" /\ connection = "down" /\ service
  /\ connection' = "up"
  /\ link' = TRUE
  /\ UNCHANGED <<pc, clients, subscribed, heap, loop_cnt, calm>>

\* handle_remote_control: contains is the set of command styles the payload
\* contains; an accepting one goes before a refusing one, which is ignored.
RemoteControl(contains) ==
  remote_clean_request' = (remote_clean_request \/ "clean" \in contains)

\* example_message_arrive: set_topic says that the topic is the property-set one.
\* The handler does not look at the link: what the library has received it also
\* delivers over a connection whose loss it has not noticed yet.
OnMessage(set_topic, contains) ==
  /\ pc = "yield" /\ connection \in {"up", "broken"} /\ subscribed
  /\ IF set_topic THEN RemoteControl(contains) ELSE UNCHANGED remote_clean_request
  /\ UNCHANGED <<pc, library, heap, loop_cnt, link, service>>

-----------------------------------------------------------------------------
(* Outside the thread. *)

\* The control loop serves the request.
TakeRequest ==
  /\ remote_clean_request' = FALSE
  /\ UNCHANGED <<pc, library, heap, loop_cnt, link, service>>

ConnectionBreaks ==
  /\ MayFail /\ connection = "up"
  /\ connection' = "broken"
  /\ UNCHANGED <<pc, clients, subscribed, heap, loop_cnt, link, calm>>

ServiceChanges ==
  /\ service' = ~service
  /\ UNCHANGED <<pc, library, heap, loop_cnt, link, remote_clean_request>>

Task ==
  \/ ConstructClient \/ ConstructFails \/ MarkOffline \/ DestroyClient \/ Rest
  \/ SubscribeTopic \/ SubscribeNoMemory \/ Subscribe \/ SubscribeFails
  \/ LoopTop \/ PublishPayload \/ PublishNoPayload \/ PublishTopic \/ PublishNoTopic
  \/ PublishSend
  \/ YieldReturns \/ YieldFails

Callback ==
  \/ OnDisconnect
  \/ OnReconnect
  \/ \E set_topic \in BOOLEAN, contains \in SUBSET {"clean", "reset"} :
       OnMessage(set_topic, contains)

Environment == TakeRequest \/ ConnectionBreaks \/ ServiceChanges

Next == Task \/ Callback \/ Environment

Spec == Init /\ [][Next]_mqttVars

\* The thread always gets its next turn, since the threads above it sleep most
\* of the time.  Yielded to again and again, the library notices that its
\* connection is lost, and finds it again while the service is there.
FairSpec == Spec /\ WF_mqttVars(Task) /\ SF_mqttVars(OnDisconnect) /\ SF_mqttVars(OnReconnect)

-----------------------------------------------------------------------------
MqttTypeOK ==
  /\ pc \in TaskStep
  /\ clients \in {0, 1}
  /\ connection \in Connection
  /\ subscribed \in BOOLEAN
  /\ heap \subseteq Buffer
  /\ loop_cnt \in 0 .. PublishEvery - 1
  /\ link \in BOOLEAN /\ remote_clean_request \in BOOLEAN /\ service \in BOOLEAN

\* The flag the display, the telemetry and the shell show is never better than
\* what is known: while the client serves it is set exactly unless a loss has
\* been reported, although three places write it, and it is never set when the
\* client has no subscription or has been destroyed.
LinkTruthful ==
  /\ pc \in ServingStep => (link <=> connection # "down") /\ subscribed
  /\ pc \in TaskStep \ (ServingStep \cup {"offline"}) => ~link
  /\ link => clients = 1 /\ subscribed

\* Whatever fails on the way, the buffers held are those of the call in
\* progress: none is left behind when the thread yields, rests or retries.
NothingLeaks ==
  heap = CASE pc = "publish_topic" -> {"payload"}
           [] pc = "publish_send" -> {"payload", "topic"}
           [] pc = "subscribe_send" -> {"topic"}
           [] OTHER -> {}

SessionStage ==
  CASE pc = "construct" -> "closed"
    [] pc \in {"subscribe_topic", "subscribe_send"} -> "open"
    [] pc \in ServingStep -> "serving"
    [] pc = "offline" -> IF subscribed THEN "serving" ELSE "open"
    [] pc = "destroy" -> "closing"
    [] OTHER -> "resting"

Session == INSTANCE LinkSession WITH stage <- SessionStage, online <- link

\* The thread implements the session: one client at a time, the flag withdrawn
\* before the client is, a rest after every failure.
ImplementsSession == Session!Spec

\* Once the service is there for good, the link comes up and stays up, wherever
\* the thread and the library were when it came back.
ComesOnline == <>[]service => <>[]link

\* And reports are sent again and again.
KeepsReporting == <>[]service => []<>(pc = "publish_send")
=============================================================================
