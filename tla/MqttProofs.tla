----------------------------- MODULE MqttProofs -----------------------------
(***************************************************************************)
(* Proofs about the MQTT thread.  The inductive invariant adds to the      *)
(* three invariants where in Mqtt_Task there is a client, where it may     *)
(* have its subscription already, and that no loss has been reported       *)
(* before the first yield.                                                 *)
(***************************************************************************)
EXTENDS LitterMqtt, TLAPS

SubscribeStep == {"subscribe_topic", "subscribe_send"}

MqttInv ==
  /\ MqttTypeOK /\ LinkTruthful /\ NothingLeaks
  /\ clients = IF pc \in {"construct", "rest"} THEN 0 ELSE 1
  /\ subscribed => pc \in ServingStep \cup {"offline", "destroy"}
  /\ pc \in SubscribeStep => connection \in {"up", "broken"}

LEMMA MqttInit == Init => MqttInv
<1> SUFFICES ASSUME Init PROVE MqttInv
  OBVIOUS
<1>1. MqttTypeOK
  <2>1. 0 \in 0 .. PublishEvery - 1
    BY PublishAssumption
  <2>2. QED
    BY <2>1 DEF Init, MqttTypeOK, ServingStep, PublishStep, TaskStep, Connection, Buffer
<1>2. LinkTruthful /\ NothingLeaks
  BY DEF Init, LinkTruthful, NothingLeaks, ServingStep, PublishStep, TaskStep
<1>3. QED
  BY <1>1, <1>2 DEF Init, MqttInv, SubscribeStep

\* The thread's own steps keep the invariant.
LEMMA TaskKeeps ==
  ASSUME MqttInv, Task
  PROVE  MqttInv'
<1> USE PublishAssumption DEF MqttInv, MqttTypeOK, LinkTruthful, NothingLeaks, ServingStep,
        PublishStep, TaskStep, Connection, Buffer, SubscribeStep, Go, library, calm
<1>1. CASE ConstructClient
  <2>1. clients' = 1 /\ ~link
    BY <1>1 DEF ConstructClient
  <2>2. MqttTypeOK'
    BY <1>1, <2>1 DEF ConstructClient
  <2>3. LinkTruthful' /\ NothingLeaks'
    BY <1>1, <2>1 DEF ConstructClient
  <2>4. QED
    BY <1>1, <2>1, <2>2, <2>3 DEF ConstructClient
<1>2. CASE ConstructFails BY <1>2 DEF ConstructFails
<1>3. CASE MarkOffline BY <1>3 DEF MarkOffline
<1>4. CASE DestroyClient
  <2>1. clients' = 0 /\ ~link
    BY <1>4 DEF DestroyClient
  <2>2. MqttTypeOK'
    BY <1>4, <2>1 DEF DestroyClient
  <2>3. LinkTruthful' /\ NothingLeaks'
    BY <1>4, <2>1 DEF DestroyClient
  <2>4. QED
    BY <1>4, <2>1, <2>2, <2>3 DEF DestroyClient
<1>5. CASE Rest BY <1>5 DEF Rest
<1>6. CASE SubscribeTopic BY <1>6 DEF SubscribeTopic
<1>7. CASE SubscribeNoMemory BY <1>7 DEF SubscribeNoMemory
<1>8. CASE Subscribe
  <2>1. heap' = {}
    BY <1>8 DEF Subscribe
  <2>2. loop_cnt' \in 0 .. PublishEvery - 1
    BY <1>8 DEF Subscribe
  <2>3. QED
    BY <1>8, <2>1, <2>2 DEF Subscribe
<1>9. CASE SubscribeFails
  <2>1. heap' = {}
    BY <1>9 DEF SubscribeFails
  <2>2. QED
    BY <1>9, <2>1 DEF SubscribeFails
<1>10. CASE LoopTop BY <1>10 DEF LoopTop
<1>11. CASE PublishPayload BY <1>11 DEF PublishPayload
<1>12. CASE PublishNoPayload BY <1>12 DEF PublishNoPayload
<1>13. CASE PublishTopic BY <1>13 DEF PublishTopic
<1>14. CASE PublishNoTopic BY <1>14 DEF PublishNoTopic
<1>15. CASE PublishSend BY <1>15 DEF PublishSend
<1>16. CASE YieldReturns
  <2>1. loop_cnt' \in 0 .. PublishEvery - 1
    BY <1>16 DEF YieldReturns
  <2>2. QED
    BY <1>16, <2>1 DEF YieldReturns
<1>17. CASE YieldFails BY <1>17 DEF YieldFails
<1>18. QED
  BY <1>1, <1>2, <1>3, <1>4, <1>5, <1>6, <1>7, <1>8, <1>9, <1>10, <1>11, <1>12, <1>13,
     <1>14, <1>15, <1>16, <1>17 DEF Task

\* So do the library's callbacks and what happens outside the thread.
LEMMA OthersKeep ==
  ASSUME MqttInv, Callback \/ Environment \/ UNCHANGED mqttVars
  PROVE  MqttInv'
<1> USE DEF MqttInv, MqttTypeOK, LinkTruthful, NothingLeaks, ServingStep, PublishStep, TaskStep,
        Connection, Buffer, SubscribeStep, library, calm
<1>1. CASE OnDisconnect BY <1>1 DEF OnDisconnect
<1>2. CASE OnReconnect BY <1>2 DEF OnReconnect
<1>3. ASSUME NEW set_topic \in BOOLEAN, NEW contains \in SUBSET {"clean", "reset"},
             OnMessage(set_topic, contains)
      PROVE  MqttInv'
  <2>1. remote_clean_request' \in BOOLEAN
    BY <1>3 DEF OnMessage, RemoteControl
  <2>2. UNCHANGED <<pc, clients, connection, subscribed, heap, loop_cnt, link, service>>
    BY <1>3 DEF OnMessage
  <2>3. QED
    BY <2>1, <2>2
<1>4. CASE TakeRequest BY <1>4 DEF TakeRequest
<1>5. CASE ConnectionBreaks BY <1>5 DEF ConnectionBreaks
<1>6. CASE ServiceChanges BY <1>6 DEF ServiceChanges
<1>7. CASE UNCHANGED mqttVars BY <1>7 DEF mqttVars
<1>8. QED
  BY <1>1, <1>2, <1>3, <1>4, <1>5, <1>6, <1>7 DEF Callback, Environment

\* The invariant holds always, whatever calls fail and whatever the library
\* reports while it is yielded to.
THEOREM MqttInvariant == Spec => []MqttInv
<1>1. MqttInv /\ [Next]_mqttVars => MqttInv'
  BY TaskKeeps, OthersKeep DEF Next
<1>2. QED
  BY MqttInit, <1>1, PTL DEF Spec

\* The variables of the MQTT thread keep their types; there is never a second
\* client.
THEOREM MqttTypeCorrect == Spec => []MqttTypeOK
<1>1. MqttInv => MqttTypeOK BY DEF MqttInv
<1>2. QED BY <1>1, MqttInvariant, PTL

\* The link flag never shows more than is known of the link.
THEOREM MqttLinkTruthful == Spec => []LinkTruthful
<1>1. MqttInv => LinkTruthful BY DEF MqttInv
<1>2. QED BY <1>1, MqttInvariant, PTL

\* No failing call of example_subscribe or my_publish leaves a buffer behind.
THEOREM MqttNothingLeaks == Spec => []NothingLeaks
<1>1. MqttInv => NothingLeaks BY DEF MqttInv
<1>2. QED BY <1>1, MqttInvariant, PTL

-----------------------------------------------------------------------------
\* A step of the thread is a step of the session or none of its business.
LEMMA TaskImplements ==
  ASSUME MqttInv, Task
  PROVE  [Session!Next]_Session!sessionVars
<1> USE DEF MqttInv, LinkTruthful, ServingStep, PublishStep, TaskStep, SessionStage, SubscribeStep,
        Go, library, calm, Session!sessionVars, Session!Next
<1>1. CASE ConstructClient BY <1>1 DEF ConstructClient, Session!Open
<1>2. CASE ConstructFails
  <2>1. ~link
    BY <1>2 DEF ConstructFails
  <2>2. QED
    BY <1>2, <2>1 DEF ConstructFails, Session!Refused, MqttTypeOK
<1>3. CASE MarkOffline BY <1>3 DEF MarkOffline, Session!GiveUp
<1>4. CASE DestroyClient BY <1>4 DEF DestroyClient, Session!Close
<1>5. CASE Rest BY <1>5 DEF Rest, Session!Retry
<1>6. CASE SubscribeTopic BY <1>6 DEF SubscribeTopic
<1>7. CASE SubscribeNoMemory BY <1>7 DEF SubscribeNoMemory
<1>8. CASE Subscribe BY <1>8 DEF Subscribe, Session!Serve
<1>9. CASE SubscribeFails BY <1>9 DEF SubscribeFails
<1>10. CASE LoopTop BY <1>10 DEF LoopTop
<1>11. CASE PublishPayload BY <1>11 DEF PublishPayload
<1>12. CASE PublishNoPayload BY <1>12 DEF PublishNoPayload
<1>13. CASE PublishTopic BY <1>13 DEF PublishTopic
<1>14. CASE PublishNoTopic BY <1>14 DEF PublishNoTopic
<1>15. CASE PublishSend BY <1>15 DEF PublishSend
<1>16. CASE YieldReturns BY <1>16 DEF YieldReturns
<1>17. CASE YieldFails BY <1>17 DEF YieldFails
<1>18. QED
  BY <1>1, <1>2, <1>3, <1>4, <1>5, <1>6, <1>7, <1>8, <1>9, <1>10, <1>11, <1>12, <1>13,
     <1>14, <1>15, <1>16, <1>17 DEF Task

\* What the library reports is an outage or the end of one.
LEMMA OthersImplement ==
  ASSUME MqttInv, Callback \/ Environment \/ UNCHANGED mqttVars
  PROVE  [Session!Next]_Session!sessionVars
<1> USE DEF MqttInv, MqttTypeOK, LinkTruthful, ServingStep, PublishStep, SessionStage, library,
        calm, Session!sessionVars, Session!Next
<1>1. CASE OnDisconnect BY <1>1 DEF OnDisconnect, Session!Outage
<1>2. CASE OnReconnect BY <1>2 DEF OnReconnect, Session!Outage
<1>3. ASSUME NEW set_topic \in BOOLEAN, NEW contains \in SUBSET {"clean", "reset"},
             OnMessage(set_topic, contains)
      PROVE  UNCHANGED Session!sessionVars
  BY <1>3 DEF OnMessage
<1>4. CASE Environment
  BY <1>4 DEF Environment, TakeRequest, ConnectionBreaks, ServiceChanges
<1>5. CASE UNCHANGED mqttVars BY <1>5 DEF mqttVars
<1>6. QED
  BY <1>1, <1>2, <1>3, <1>4, <1>5 DEF Callback

\* The MQTT thread implements the abstract session: one client, the flag only
\* while it serves and withdrawn first, a rest after every failure.
THEOREM MqttImplementsSession == Spec => ImplementsSession
<1>1. Init => Session!Init
  BY DEF Init, Session!Init, SessionStage, ServingStep, PublishStep
<1>2. MqttInv /\ [Next]_mqttVars => [Session!Next]_Session!sessionVars
  BY TaskImplements, OthersImplement DEF Next
<1>3. QED
  BY <1>1, <1>2, MqttInvariant, PTL DEF Spec, ImplementsSession, Session!Spec
=============================================================================
