-------------------------- MODULE SdkSessionProofs ---------------------------
(***************************************************************************)
(* SdkSession for any sizes, retries and numbers of sessions.              *)
(*                                                                         *)
(* For an application that disconnects before it reconnects, and not in a  *)
(* callback, and that deinitialises only what it initialised, the session  *)
(* implements MessageQueue and MqttClient, each on its own, and so         *)
(* inherits what is proved of them.                                        *)
(***************************************************************************)
EXTENDS SdkSession, FiniteSetTheorems, TLAPS

\* What is proved of the parts, through the program points that they know.
QP == INSTANCE MessageQueueProofs WITH app <- AppOfQueue, rx <- RxOfQueue
CP == INSTANCE MqttClientProofs WITH app <- AppOfClient, rx <- RxOfClient

\* The application that the theorems about the composition speak of.
Disciplined == /\ ReconnectsDirectly = FALSE
               /\ CallbackDisconnects = FALSE
               /\ DeinitsUninitialised = FALSE

\* It is not within a callback that it disconnects.
ReturnsByPoint == discTo \in {"off", "fini.flush1"}

-----------------------------------------------------------------------------
(* Where the functions of the other parts leave the two tasks.             *)

LEMMA IdentityPointsStep ==
    ASSUME HI!InitLibrary \/ HI!RunIdentity("off", "fini.enter")
    PROVE  /\ app \in HI!IdentityPoints
           /\ app' \in HI!IdentityPoints \union {"off", "fini.enter"}
           /\ UNCHANGED rx
  BY DEF HI!InitLibrary, HI!RunIdentity, HI!DiscoveryUrl, HI!HttpsRequest, HI!RequestBegin,
         HI!RequestCreate, HI!RequestConnect, HI!RequestSend, HI!RequestDisconnect,
         HI!RequestDelete, HI!RequestEnd, HI!Validate, HI!ParseDiscovery, HI!Configure,
         HI!IdentityEnd, HI!AfterRequest, HI!AppGoto, HI!IdentityPoints, HI!HttpPoints

LEMMA GenPointsStep ==
    ASSUME GC!GenStep \/ GC!GenReturn("none")
    PROVE  app \in GC!GenPoints /\ app' \in GC!GenPoints \union {"none"} /\ UNCHANGED rx
  BY DEF GC!GenStep, GC!GenReturn, GC!KeySetup, GC!KeyGenerate, GC!KeyWrite, GC!KeyExit,
         GC!CertFill, GC!CertWrite, GC!CertExit, GC!Attempt, GC!AppGoto, GC!GenPoints

ClientPoints == MC!Connecting \union MC!Cleaning

LEMMA ClientPointsStep ==
    ASSUME MC!ClientConnect \/ MC!ClientCleanup
    PROVE  /\ app \in ClientPoints /\ app' \in ClientPoints \union {cleanupTo}
           /\ cleanupTo' \in {cleanupTo, "conn.failed", "disc.done"}
           /\ UNCHANGED rx
<1> USE DEF ClientPoints, MC!Connecting, MC!Cleaning, MC!AppGoto, MC!Cleanup, MC!KeepClientState,
            MC!clientVars
<1>1. CASE MC!ConnectBegin \/ MC!ConnectInitLibrary \/ MC!ConnectUp
  BY <1>1 DEF MC!ConnectBegin, MC!ConnectInitLibrary, MC!ConnectUp
<1>2. CASE MC!ConnectCreate \/ MC!ConnectRegister \/ MC!ConnectTry \/ MC!SubscribeTry
  BY <1>2 DEF MC!ConnectCreate, MC!ConnectRegister, MC!ConnectTry, MC!SubscribeTry, MC!Cleanup
<1>3. CASE MC!ConnectSetStatusCb \/ MC!ConnectSetInboundCb \/ MC!RequestDisconnect
  BY <1>3 DEF MC!ConnectSetStatusCb, MC!ConnectSetInboundCb, MC!RequestDisconnect, MC!Cleanup
<1>4. CASE MC!CleanupEnter \/ MC!CleanupDisconnect \/ MC!CleanupDelete
  BY <1>4 DEF MC!CleanupEnter, MC!CleanupDisconnect, MC!CleanupDelete, MC!AfterHandle
<1>5. CASE MC!CleanupDeinit \/ MC!CleanupClear
  BY <1>5 DEF MC!CleanupDeinit, MC!CleanupClear
<1> QED
  BY <1>1, <1>2, <1>3, <1>4, <1>5 DEF MC!ClientConnect, MC!ClientCleanup

LEMMA EventPointsStep ==
    ASSUME MC!ClientEvent \/ MC!LinkLost \/ MC!DisconnectEvent \/ MC!MessageEvent
    PROVE  /\ UNCHANGED <<app, mqttConnection, cleanupTo>>
           /\ \/ UNCHANGED rx
              \/ rx \in MC!Handling \union {"idle"} /\ rx' \in MC!Handling \union {"idle"}
  BY DEF MC!ClientEvent, MC!LinkLost, MC!DisconnectEvent, MC!MessageEvent,
         MC!EventDisconnected, MC!EventCheckStatusCb, MC!EventNotify, MC!MessageCheck,
         MC!MessageClearRequest, MC!Handling, MC!RxGoto, MC!clientVars

LEMMA InboundPointsStep ==
    ASSUME MQ!CheckInbound \/ MQ!CreateMessage \/ MQ!PutMessage \/ MQ!PutTimeout
    PROVE  rx \in MQ!InFlight /\ rx' \in MQ!InFlight \union {"rx.done"} /\ UNCHANGED app
  BY DEF MQ!CheckInbound, MQ!CreateMessage, MQ!PutMessage, MQ!PutTimeout, MQ!InFlight, MQ!RxGoto

-----------------------------------------------------------------------------
(* The MQTT client                                                         *)

\* A step of a function of the client is that step of the client alone.
LEMMA ClientAppImplements ==
    ASSUME cleanupTo \in {"conn.failed", "disc.done"}, MC!ClientConnect \/ MC!ClientCleanup
    PROVE  CP!ClientConnect \/ CP!ClientCleanup
<1>1. app \in ClientPoints /\ app' \in ClientPoints /\ UNCHANGED rx
  BY ClientPointsStep DEF ClientPoints, MC!Connecting, MC!Cleaning
<1>2. AppOfClient = app /\ AppOfClient' = app' /\ RxOfClient' = RxOfClient
  BY <1>1 DEF ClientPoints, AppOfClient, RxOfClient
<1>3. rx = "idle" => RxOfClient = "idle"
  BY DEF RxOfClient
<1> USE <1>2 DEF MC!AppGoto, CP!AppGoto, MC!Cleanup, CP!Cleanup, MC!AfterHandle,
      CP!AfterHandle, MC!Merge, CP!Merge, MC!KeepClientState, CP!KeepClientState,
      MC!clientVars, CP!clientVars, MC!mwVars, CP!mwVars
<1>4. MC!ConnectBegin => CP!ConnectBegin
  BY DEF MC!ConnectBegin, CP!ConnectBegin
<1>5. MC!ConnectInitLibrary => CP!ConnectInitLibrary
  BY DEF MC!ConnectInitLibrary, CP!ConnectInitLibrary
<1>6. MC!ConnectCreate => CP!ConnectCreate
  BY DEF MC!ConnectCreate, CP!ConnectCreate
<1>7. MC!ConnectRegister => CP!ConnectRegister
  BY DEF MC!ConnectRegister, CP!ConnectRegister
<1>8. MC!ConnectTry => CP!ConnectTry
  BY DEF MC!ConnectTry, CP!ConnectTry
<1>9. MC!SubscribeTry => CP!SubscribeTry
  BY DEF MC!SubscribeTry, CP!SubscribeTry
<1>10. MC!ConnectUp => CP!ConnectUp
  BY DEF MC!ConnectUp, CP!ConnectUp
<1>11. MC!ConnectSetStatusCb => CP!ConnectSetStatusCb
  BY DEF MC!ConnectSetStatusCb, CP!ConnectSetStatusCb
<1>12. MC!ConnectSetInboundCb => CP!ConnectSetInboundCb
  BY DEF MC!ConnectSetInboundCb, CP!ConnectSetInboundCb
<1>13. MC!RequestDisconnect => CP!RequestDisconnect
  BY DEF MC!RequestDisconnect, CP!RequestDisconnect
<1>14. MC!CleanupEnter => CP!CleanupEnter
  BY DEF MC!CleanupEnter, CP!CleanupEnter
<1>15. MC!CleanupDisconnect => CP!CleanupDisconnect
  BY DEF MC!CleanupDisconnect, CP!CleanupDisconnect
<1>16. MC!CleanupDelete => CP!CleanupDelete
  BY <1>3 DEF MC!CleanupDelete, CP!CleanupDelete
<1>17. MC!CleanupDeinit => CP!CleanupDeinit
  BY DEF MC!CleanupDeinit, CP!CleanupDeinit
<1>18. MC!CleanupClear => CP!CleanupClear
  BY DEF MC!CleanupClear, CP!CleanupClear
<1> QED
  BY <1>4, <1>5, <1>6, <1>7, <1>8, <1>9, <1>10, <1>11, <1>12, <1>13, <1>14, <1>15,
     <1>16, <1>17, <1>18
     DEF MC!ClientConnect, CP!ClientConnect, MC!ClientCleanup, CP!ClientCleanup

LEMMA ClientEventImplements ==
    ASSUME MC!ClientEvent \/ MC!LinkLost \/ MC!DisconnectEvent \/ MC!MessageEvent
    PROVE  CP!ClientEvent \/ CP!LinkLost \/ CP!DisconnectEvent \/ CP!MessageEvent
<1>1. UNCHANGED <<app, mqttConnection>> /\ AppOfClient' = AppOfClient
  BY EventPointsStep DEF AppOfClient
<1>2. \A from, to \in MC!Handling \union {"idle"} : MC!RxGoto(from, to) => CP!RxGoto(from, to)
  BY <1>1 DEF MC!RxGoto, CP!RxGoto, RxOfClient, MC!Handling, MQ!RxPoints, MQ!InFlight
<1>3. UNCHANGED <<app, rx>> => UNCHANGED <<AppOfClient, RxOfClient>>
  BY <1>1 DEF RxOfClient
<1> USE DEF MC!Handling, MC!clientVars, CP!clientVars, MC!mwVars, CP!mwVars
<1>4. MC!LinkLost => CP!LinkLost
  BY <1>3 DEF MC!LinkLost, CP!LinkLost
<1>5. MC!DisconnectEvent => CP!DisconnectEvent
  BY <1>2 DEF MC!DisconnectEvent, CP!DisconnectEvent
<1>6. MC!MessageEvent => CP!MessageEvent
  BY <1>2 DEF MC!MessageEvent, CP!MessageEvent
<1>7. MC!EventDisconnected => CP!EventDisconnected
  BY <1>2 DEF MC!EventDisconnected, CP!EventDisconnected
<1>8. MC!EventCheckStatusCb => CP!EventCheckStatusCb
  BY <1>2 DEF MC!EventCheckStatusCb, CP!EventCheckStatusCb
<1>9. MC!EventNotify => CP!EventNotify
  BY <1>2 DEF MC!EventNotify, CP!EventNotify
<1>10. MC!MessageCheck => CP!MessageCheck
  BY <1>2 DEF MC!MessageCheck, CP!MessageCheck
<1>11. MC!MessageClearRequest => CP!MessageClearRequest
  BY <1>2 DEF MC!MessageClearRequest, CP!MessageClearRequest
<1> QED
  BY <1>4, <1>5, <1>6, <1>7, <1>8, <1>9, <1>10, <1>11 DEF MC!ClientEvent, CP!ClientEvent

\* All the rest is a call, a return, or nothing to the client.
LEMMA ClientStepImplements ==
    ASSUME CP!IInv, QP!IInv, ReturnsByPoint, Disciplined, [Next]_vars
    PROVE  [CP!Next]_(CP!vars)
<1> DEFINE quiet == UNCHANGED <<AppOfClient, RxOfClient, clientVars>>
<1>0. quiet => UNCHANGED CP!vars
  BY DEF clientVars, CP!vars, CP!clientVars, CP!mwVars
<1> USE DEF AppOfClient, RxOfClient, MC!Connecting, MC!Cleaning, QueueStep, ClientStep,
            IdentityStep, GenStep, SdkStep, sdkVars, AppGoto, RxGoto, MQ!AppGoto
<1>1. CASE SdkConnect
  <2>1. CP!ConnectCall
    BY <1>1 DEF SdkConnect, CP!ConnectCall, CP!AppGoto, clientVars, CP!clientVars, CP!mwVars,
                Disciplined
  <2> QED
    BY <2>1 DEF CP!Next
<1>2. CASE SdkConnected \/ SdkConnectFailed
  <2>1. CP!ConnectReturn
    BY <1>2 DEF SdkConnected, SdkConnectFailed, MQ!Register, CP!ConnectReturn, CP!AppGoto,
                clientVars, CP!clientVars, CP!mwVars
  <2> QED
    BY <2>1 DEF CP!Next, CP!AppStep
<1>3. CASE QueueStep(MQ!FlushDone("disc.flush2", "disc.request"))
  <2>1. CP!DisconnectCall
    BY <1>3 DEF MQ!FlushDone, CP!DisconnectCall, CP!AppGoto, clientVars, CP!clientVars, CP!mwVars
  <2> QED
    BY <2>1 DEF CP!Next
<1>4. CASE SdkDisconnected
  <2>1. CP!DisconnectReturn
    BY <1>4 DEF SdkDisconnected, ReturnsByPoint, CP!DisconnectReturn, CP!AppGoto,
                clientVars, CP!clientVars, CP!mwVars
  <2> QED
    BY <2>1 DEF CP!Next, CP!AppStep
<1>5. CASE InboundReturn
  <2>1. CP!MessageCall
    BY <1>5 DEF InboundReturn, CP!MessageCall, CP!RxGoto, MQ!RxPoints, MQ!InFlight,
                clientVars, CP!clientVars, CP!mwVars
  <2> QED
    BY <2>1 DEF CP!Next, CP!RxStep
<1>6. CASE ClientApp
  BY <1>6, ClientAppImplements DEF ClientApp, CP!IInv, CP!TypeOK, CP!ClientTypeOK, CP!Next, CP!AppStep
<1>7. CASE ClientEvent \/ Broker
  BY <1>7, ClientEventImplements DEF ClientEvent, Broker, CP!Next, CP!RxStep
<1>8. CASE Generate \/ SdkInit \/ SdkInitCheck \/ SdkDeinit \/ SdkDeinitConfig
  <2>1. quiet
    BY <1>8 DEF Generate, GC!GenCall, GC!AppGoto, SdkInit, MQ!InitQueue, SdkInitCheck, SdkDeinit,
                SdkDeinitConfig, Disciplined, clientVars
  <2> QED
    BY <1>0, <2>1
<1>9. CASE Generating
  <2>1. quiet
    BY <1>9, GenPointsStep DEF Generating, GC!GenPoints, clientVars
  <2> QED
    BY <1>0, <2>1
<1>10. CASE SdkInitIdentity
  <2>1. quiet
    BY <1>10, IdentityPointsStep DEF SdkInitIdentity, HI!IdentityPoints, HI!HttpPoints, clientVars
  <2> QED
    BY <1>0, <2>1
<1>11. CASE SdkPollCall \/ SdkPoll \/ SdkPollTimeout \/ SdkQualify
  <2>1. app = "off" => ~clientMsgCb
    BY DEF QP!IInv, QP!Deregistered, AppOfQueue, GC!GenPoints, MQ!AppPoints
  <2>2. app \in {"idle", "poll.get", "poll.dispatch"} => mqttConnection # NoHandle
    BY DEF CP!IInv, CP!ObjectByPoint, CP!Settled
  <2>3. quiet
    BY <1>11, <2>1, <2>2 DEF SdkPollCall, SdkPoll, SdkPollTimeout, SdkQualify, MQ!ProcessEnter,
       MQ!GetMessage, MQ!GetTimeout, MQ!DispatchTo, clientVars
  <2> QED
    BY <1>0, <2>3
<1>12. CASE SdkDisconnect
  <2>1. app = "idle" => mqttConnection # NoHandle
    BY DEF CP!IInv, CP!ObjectByPoint, CP!Settled
  <2>2. app = "off" => mqttConnection = NoHandle
    BY DEF CP!IInv, CP!ObjectByPoint, CP!NoObject
  <2>3. quiet
    BY <1>12, <2>1, <2>2 DEF SdkDisconnect, clientVars
  <2> QED
    BY <1>0, <2>3
<1>13. CASE \/ QueueStep(MQ!FlushOne("disc.flush1"))
            \/ QueueStep(MQ!FlushDone("disc.flush1", "disc.clear"))
            \/ QueueStep(MQ!ClearCallback("disc.clear", "disc.flush2"))
            \/ QueueStep(MQ!FlushOne("disc.flush2"))
  <2>1. quiet
    BY <1>13 DEF MQ!FlushOne, MQ!FlushDone, MQ!ClearCallback, clientVars
  <2> QED
    BY <1>0, <2>1
<1>14. CASE SdkDeinitEnter
  <2>1. app = "fini.enter" => mqttConnection = NoHandle
    BY DEF CP!IInv, CP!ObjectByPoint, CP!NoObject
  <2>2. quiet
    BY <1>14, <2>1 DEF SdkDeinitEnter, clientVars
  <2> QED
    BY <1>0, <2>2
<1>15. CASE SdkDeinitQueue
  <2>1. quiet
    BY <1>15 DEF SdkDeinitQueue, MQ!FlushOne, MQ!FlushDone, MQ!ClearCallback, MQ!DeleteQueue,
                 clientVars
  <2> QED
    BY <1>0, <2>1
<1>16. CASE InboundCall
  <2>1. quiet
    BY <1>16 DEF InboundCall, MQ!RxPoints, MQ!InFlight, clientVars
  <2> QED
    BY <1>0, <2>1
<1>17. CASE InboundQueue
  <2>1. quiet
    BY <1>17, InboundPointsStep DEF InboundQueue, MQ!RxPoints, MQ!InFlight, clientVars
  <2> QED
    BY <1>0, <2>1
<1>18. CASE Halt \/ UNCHANGED vars
  <2>1. quiet
    BY <1>18 DEF Halt, vars, clientVars
  <2> QED
    BY <1>0, <2>1
<1>19. ~SdkCallbackDisconnects
  BY DEF SdkCallbackDisconnects, Disciplined
<1> HIDE DEF QueueStep
<1> QED
  BY <1>1, <1>2, <1>3, <1>4, <1>5, <1>6, <1>7, <1>8, <1>9, <1>10, <1>11, <1>12, <1>13, <1>14,
     <1>15, <1>16, <1>17, <1>18, <1>19
     DEF Next, AppCall, AppStep, RxStep, SdkDisconnectQueue

-----------------------------------------------------------------------------
(* The message queue                                                       *)

\* Messages come only in a session: mqtt_inbound_msg_cb is set, and so the
\* queue is being registered, used, or taken down by a disconnect.
LEMMA CallsInSession ==
    ASSUME CP!IInv, rx = "msg.call"
    PROVE  QP!SessionOpen
<1>1. inboundCb /\ cleanupTo \in {"conn.failed", "disc.done"}
  BY DEF CP!IInv, CP!TypeOK, CP!ClientTypeOK, CP!NoNullCallback, RxOfClient, MQ!RxPoints, MQ!InFlight
<1>2. AppOfClient \notin {"off", "conn.enter", "conn.mwinit", "conn.create", "conn.register",
                         "conn.connect", "conn.subscribe", "conn.up", "conn.statusCb",
                         "conn.inboundCb", "conn.failed", "disc.done"}
  BY <1>1 DEF CP!IInv, CP!CallbacksByPoint, CP!NoObject, CP!SettingUp
<1>3. AppOfClient \in CP!Cleaning \ {"disc.request"} => cleanupTo = "disc.done"
  BY <1>1 DEF CP!IInv, CP!CallbacksByPoint
<1>4. AppOfQueue \in {"conn.ok", "idle", "poll.get", "poll.dispatch", "disc.flush1",
                      "disc.clear", "disc.flush2", "disc.close"}
  BY <1>2, <1>3 DEF AppOfClient, AppOfQueue, MC!Connecting, MC!Cleaning, CP!Cleaning,
     GC!GenPoints, MQ!AppPoints, MQ!Polling, MQ!Disconnecting, MQ!Closing
<1> QED
  BY <1>4 DEF QP!SessionOpen, QP!Polling, QP!Disconnecting

\* The steps of the middleware's task.
LEMMA QueueRxImplements ==
    ASSUME CP!IInv, RxStep \/ Broker
    PROVE  QP!Next \/ UNCHANGED QP!vars
<1> USE DEF QueueStep, SdkStep, ClientStep
<1>1. UNCHANGED <<app, cleanupTo>> /\ AppOfQueue' = AppOfQueue
  <2>1. UNCHANGED <<app, cleanupTo>>
    BY EventPointsStep, InboundPointsStep
       DEF RxStep, InboundCall, InboundQueue, InboundReturn, ClientEvent, Broker, RxGoto, clientVars
  <2> QED
    BY <2>1 DEF AppOfQueue
<1>2. CASE InboundCall
  <2>1. QP!SessionOpen
    BY <1>2, CallsInSession DEF InboundCall, RxGoto
  <2>2. QP!RxGoto("idle", "mq.check")
    BY <1>1, <1>2 DEF InboundCall, RxGoto, QP!RxGoto, RxOfQueue, MC!Handling
  <2>3. QP!NewMessage
    BY <1>2 DEF InboundCall, MQ!NewMessage, QP!NewMessage
  <2> QED
    BY <2>1, <2>2, <2>3 DEF QP!Receive, QP!Next
<1>3. CASE InboundQueue
  <2>1. \A from, to \in MQ!InFlight \union {"rx.done"} :
           MQ!RxGoto(from, to) => QP!RxGoto(from, to)
    BY <1>1 DEF MQ!RxGoto, QP!RxGoto, RxOfQueue, MC!Handling, MQ!InFlight
  <2> USE <2>1 DEF MQ!InFlight, MQ!mqVars, QP!mqVars
  <2>2. MQ!CheckInbound => QP!CheckInbound
    BY DEF MQ!CheckInbound, QP!CheckInbound
  <2>3. MQ!CreateMessage => QP!CreateMessage
    BY DEF MQ!CreateMessage, QP!CreateMessage
  <2>4. MQ!PutMessage => QP!PutMessage
    BY DEF MQ!PutMessage, QP!PutMessage
  <2>5. MQ!PutTimeout => QP!PutTimeout
    BY DEF MQ!PutTimeout, QP!PutTimeout
  <2> QED
    BY <1>3, <2>2, <2>3, <2>4, <2>5 DEF InboundQueue, QP!Inbound, QP!Next
<1>4. CASE InboundReturn
  <2>1. QP!InboundReturn
    BY <1>1, <1>4 DEF InboundReturn, QP!InboundReturn, RxGoto, QP!RxGoto, RxOfQueue,
       MC!Handling, mqVars, QP!mqVars
  <2> QED
    BY <2>1 DEF QP!Inbound, QP!Next
<1>5. CASE ClientEvent \/ Broker
  <2>1. RxOfQueue' = RxOfQueue
    BY <1>5, EventPointsStep DEF ClientEvent, Broker, RxOfQueue
  <2> QED
    BY <1>1, <1>5, <2>1 DEF ClientEvent, Broker, mqVars, QP!vars, QP!mqVars
<1> QED
  BY <1>2, <1>3, <1>4, <1>5 DEF RxStep

\* The client on the application's task opens and closes the session, and is
\* else nothing to the queue.
LEMMA QueueClientImplements ==
    ASSUME CP!IInv, ClientApp
    PROVE  QP!Next \/ UNCHANGED QP!vars
<1>0. /\ UNCHANGED mqVars /\ (MC!ClientConnect \/ MC!ClientCleanup)
      /\ cleanupTo \in {"conn.failed", "disc.done"}
  BY DEF ClientApp, ClientStep, CP!IInv, CP!TypeOK, CP!ClientTypeOK
<1> USE DEF AppOfQueue, MC!Cleaning, MC!AppGoto, GC!GenPoints, MQ!AppPoints, MQ!Polling,
            MQ!Disconnecting, MQ!Closing, MC!Cleanup, MC!AfterHandle
<1>1. CASE MC!ConnectSetInboundCb
  <2>1. AppOfQueue = "off" /\ AppOfQueue' = "conn.ok" /\ RxOfQueue' = RxOfQueue
    BY <1>1 DEF MC!ConnectSetInboundCb, RxOfQueue
  <2> QED
    BY <1>0, <2>1 DEF QP!OpenSession, QP!AppGoto, QP!Next, mqVars, QP!mqVars
<1>2. CASE MC!CleanupClear /\ cleanupTo = "disc.done"
  <2>1. AppOfQueue = "disc.close" /\ AppOfQueue' = "off" /\ RxOfQueue' = RxOfQueue
    BY <1>2 DEF MC!CleanupClear, RxOfQueue
  <2>2. RxOfQueue = "idle"
    <3>1. AppOfClient = "cl.clear"
      BY <1>2 DEF MC!CleanupClear, AppOfClient
    <3>2. RxOfClient = "idle"
      BY <3>1 DEF CP!IInv, CP!ObjectByPoint, CP!NoObject
    <3> QED
      BY <3>2 DEF RxOfClient, RxOfQueue, MC!Handling
  <2> QED
    BY <1>0, <2>1, <2>2 DEF QP!CloseSession, QP!Disconnect, QP!AppGoto, QP!Next, mqVars, QP!mqVars
<1>3. CASE MC!CleanupClear /\ cleanupTo = "conn.failed"
  <2>1. UNCHANGED <<AppOfQueue, RxOfQueue>>
    BY <1>3 DEF MC!CleanupClear, RxOfQueue
  <2> QED
    BY <1>0, <2>1 DEF mqVars, QP!vars, QP!mqVars
<1>4. CASE \/ MC!ConnectBegin \/ MC!ConnectInitLibrary \/ MC!ConnectCreate \/ MC!ConnectRegister
           \/ MC!ConnectTry \/ MC!SubscribeTry \/ MC!ConnectUp \/ MC!ConnectSetStatusCb
  <2>1. UNCHANGED <<AppOfQueue, RxOfQueue>>
    BY <1>4 DEF MC!ConnectBegin, MC!ConnectInitLibrary, MC!ConnectCreate, MC!ConnectRegister,
       MC!ConnectTry, MC!SubscribeTry, MC!ConnectUp, MC!ConnectSetStatusCb, RxOfQueue
  <2> QED
    BY <1>0, <2>1 DEF mqVars, QP!vars, QP!mqVars
<1>5. CASE \/ MC!RequestDisconnect \/ MC!CleanupEnter \/ MC!CleanupDisconnect
           \/ MC!CleanupDelete \/ MC!CleanupDeinit
  <2>1. UNCHANGED <<AppOfQueue, RxOfQueue>>
    BY <1>5 DEF MC!RequestDisconnect, MC!CleanupEnter, MC!CleanupDisconnect,
       MC!CleanupDelete, MC!CleanupDeinit, RxOfQueue
  <2> QED
    BY <1>0, <2>1 DEF mqVars, QP!vars, QP!mqVars
<1> QED
  BY <1>0, <1>1, <1>2, <1>3, <1>4, <1>5 DEF MC!ClientConnect, MC!ClientCleanup

\* The functions of the queue, and the calls of the API that surround them.
LEMMA QueueStepImplements ==
    ASSUME CP!IInv, ReturnsByPoint, Disciplined, [Next]_vars
    PROVE  [QP!Next]_(QP!vars)
<1> DEFINE quiet == UNCHANGED <<AppOfQueue, RxOfQueue, mqVars>>
           at(from, to) == AppOfQueue = from /\ AppOfQueue' = to /\ RxOfQueue' = RxOfQueue
<1>0. /\ quiet => UNCHANGED QP!vars
      /\ \A from, to : at(from, to) => QP!AppGoto(from, to)
      /\ UNCHANGED rx => RxOfQueue' = RxOfQueue
      /\ UNCHANGED mqVars => UNCHANGED QP!mqVars
  BY DEF mqVars, QP!vars, QP!mqVars, QP!AppGoto, RxOfQueue
<1>1. ASSUME NEW from \in MQ!AppPoints \ {"disc.close", "none"},
             NEW to \in MQ!AppPoints \ {"disc.close"},
             MQ!AppGoto(from, to) \/ AppGoto(from, to)
      PROVE  QP!AppGoto(from, to)
  BY <1>0, <1>1 DEF MQ!AppGoto, AppGoto, AppOfQueue, MQ!AppPoints, MQ!Polling, MQ!Disconnecting,
     MQ!Closing, MC!Cleaning, GC!GenPoints
<1> USE DEF QueueStep, IdentityStep, GenStep, SdkStep, sdkVars,
            MQ!AppPoints, MQ!Polling, MQ!Disconnecting, MQ!Closing
<1>2. CASE SdkInit
  <2>1. PICK ok \in BOOLEAN : MQ!InitQueue("none", ok, IF ok THEN "init.check" ELSE "none")
    BY <1>2 DEF SdkInit
  <2>2. at("none", IF ok THEN "off" ELSE "none")
    BY <1>0, <2>1 DEF MQ!InitQueue, MQ!AppGoto, AppOfQueue, MC!Cleaning, GC!GenPoints
  <2>3. QP!InitQueue("none", ok, IF ok THEN "off" ELSE "none")
    BY <1>0, <2>1, <2>2 DEF MQ!InitQueue, QP!InitQueue
  <2>4. QP!SetUp
    <3>1. CASE ok = TRUE
      BY <2>3, <3>1 DEF QP!SetUp
    <3>2. CASE ok = FALSE
      BY <2>3, <3>2 DEF QP!SetUp
    <3> QED
      BY <3>1, <3>2
  <2> QED
    BY <2>4 DEF QP!Next
<1>3. CASE SdkConnected
  <2>1. QP!Registered
    BY <1>1, <1>3 DEF SdkConnected, MQ!Register, QP!Registered, QP!Register
  <2> QED
    BY <2>1 DEF QP!Next
<1>4. CASE SdkPollCall
  <2>1. QP!ProcessCall
    BY <1>0, <1>1, <1>4 DEF SdkPollCall, MQ!ProcessEnter, QP!ProcessCall, QP!ProcessEnter,
       MQ!mqVars, mqVars
  <2> QED
    BY <2>1 DEF QP!Next
<1>5. CASE SdkPoll \/ SdkPollTimeout
  <2>1. QueueStep(MQ!GetMessage) => QP!GetMessage
    BY <1>1 DEF MQ!GetMessage, QP!GetMessage
  <2>2. QueueStep(MQ!GetTimeout) => QP!GetTimeout
    BY <1>0, <1>1 DEF MQ!GetTimeout, QP!GetTimeout, MQ!mqVars, mqVars
  <2>3. QueueStep(MQ!DispatchTo("poll.get")) => QP!DispatchTo("poll.get")
    BY <1>1 DEF MQ!DispatchTo, QP!DispatchTo, MQ!NoMsg, QP!NoMsg
  <2> QED
    BY <1>5, <2>1, <2>2, <2>3 DEF SdkPoll, SdkPollTimeout, QP!Process, QP!Next
<1>6. CASE SdkQualify
  <2>1. QP!DispatchTo("disc.flush1")
    BY <1>1, <1>6 DEF SdkQualify, MQ!DispatchTo, QP!DispatchTo, MQ!NoMsg, QP!NoMsg
  <2> QED
    BY <2>1 DEF QP!Process, QP!Next
<1>7. CASE SdkDisconnect
  <2>1. QP!DisconnectCall
    BY <1>0, <1>1, <1>7 DEF SdkDisconnect, QP!DisconnectCall
  <2> QED
    BY <2>1 DEF QP!Next
<1>8. CASE SdkDisconnectQueue
  <2>1. QueueStep(MQ!FlushOne("disc.flush1")) => QP!FlushOne("disc.flush1")
    BY <1>1 DEF MQ!FlushOne, QP!FlushOne
  <2>2. QueueStep(MQ!FlushDone("disc.flush1", "disc.clear")) => QP!FlushDone("disc.flush1", "disc.clear")
    BY <1>0, <1>1 DEF MQ!FlushDone, QP!FlushDone, MQ!mqVars, mqVars
  <2>3. QueueStep(MQ!ClearCallback("disc.clear", "disc.flush2")) => QP!ClearCallback("disc.clear", "disc.flush2")
    BY <1>1 DEF MQ!ClearCallback, QP!ClearCallback
  <2>4. QueueStep(MQ!FlushOne("disc.flush2")) => QP!FlushOne("disc.flush2")
    BY <1>1 DEF MQ!FlushOne, QP!FlushOne
  <2>5. QueueStep(MQ!FlushDone("disc.flush2", "disc.request")) => QP!FlushDone("disc.flush2", "disc.close")
    <3>1. MQ!AppGoto("disc.flush2", "disc.request") => at("disc.flush2", "disc.close")
      BY <1>0 DEF MQ!AppGoto, AppOfQueue, MC!Cleaning, GC!GenPoints
    <3> QED
      BY <1>0, <3>1 DEF MQ!FlushDone, QP!FlushDone, MQ!mqVars, mqVars
  <2> QED
    BY <1>8, <2>1, <2>2, <2>3, <2>4, <2>5 DEF SdkDisconnectQueue, QP!Disconnect, QP!Next
<1>9. CASE SdkDeinitQueue
  <2>1. QueueStep(MQ!FlushOne("fini.flush1")) => QP!FlushOne("fini.flush1")
    BY <1>1 DEF MQ!FlushOne, QP!FlushOne
  <2>2. QueueStep(MQ!FlushDone("fini.flush1", "fini.clear")) => QP!FlushDone("fini.flush1", "fini.clear")
    BY <1>0, <1>1 DEF MQ!FlushDone, QP!FlushDone, MQ!mqVars, mqVars
  <2>3. QueueStep(MQ!ClearCallback("fini.clear", "fini.flush2")) => QP!ClearCallback("fini.clear", "fini.flush2")
    BY <1>1 DEF MQ!ClearCallback, QP!ClearCallback
  <2>4. QueueStep(MQ!FlushDone("fini.flush2", "fini.delete")) => QP!FlushDone("fini.flush2", "fini.delete")
    BY <1>0, <1>1 DEF MQ!FlushDone, QP!FlushDone, MQ!mqVars, mqVars
  <2>5. QueueStep(MQ!DeleteQueue("fini.delete", "fini.config")) => QP!DeleteQueue("fini.delete", "none")
    <3>1. MQ!AppGoto("fini.delete", "fini.config") => at("fini.delete", "none")
      BY <1>0 DEF MQ!AppGoto, AppOfQueue, MC!Cleaning, GC!GenPoints
    <3> QED
      BY <1>0, <3>1 DEF MQ!DeleteQueue, QP!DeleteQueue
  <2> QED
    BY <1>9, <2>1, <2>2, <2>3, <2>4, <2>5 DEF SdkDeinitQueue, QP!Deinit, QP!Next
<1>10. CASE SdkDeinitEnter
  <2>1. UNCHANGED mqVars /\ (at("off", "disc.flush1") \/ at("off", "fini.flush1"))
    BY <1>0, <1>10 DEF SdkDeinitEnter, AppGoto, AppOfQueue, MC!Cleaning, GC!GenPoints
  <2>2. QP!DisconnectCall \/ QP!DeinitCall
    BY <1>0, <2>1 DEF QP!DisconnectCall, QP!DeinitCall
  <2> QED
    BY <2>2 DEF QP!Next
<1>11. CASE SdkDisconnected
  <2>1. UNCHANGED mqVars /\ (at("off", "off") \/ at("off", "fini.flush1"))
    BY <1>0, <1>11 DEF SdkDisconnected, ReturnsByPoint, AppGoto, AppOfQueue, MC!Cleaning,
       GC!GenPoints
  <2>2. quiet \/ QP!DeinitCall
    BY <1>0, <2>1 DEF QP!DeinitCall
  <2> QED
    BY <1>0, <2>2 DEF QP!Next
<1>12. CASE \/ Generate \/ SdkInitCheck \/ SdkConnect \/ SdkConnectFailed \/ SdkDeinit
            \/ SdkDeinitConfig
  <2>1. quiet
    BY <1>0, <1>12 DEF Generate, GC!GenCall, GC!AppGoto, SdkInitCheck, SdkConnect,
       SdkConnectFailed, SdkDeinit, SdkDeinitConfig, Disciplined, AppGoto, AppOfQueue,
       MC!Cleaning, GC!GenPoints
  <2> QED
    BY <1>0, <2>1
<1>13. CASE Generating
  <2>1. quiet
    BY <1>0, <1>13, GenPointsStep DEF Generating, AppOfQueue, MC!Cleaning
  <2> QED
    BY <1>0, <2>1
<1>14. CASE SdkInitIdentity
  <2>1. quiet
    BY <1>0, <1>14, IdentityPointsStep DEF SdkInitIdentity, AppOfQueue, MC!Cleaning,
       GC!GenPoints, HI!IdentityPoints, HI!HttpPoints
  <2> QED
    BY <1>0, <2>1
<1>15. CASE Halt \/ UNCHANGED vars
  <2>1. quiet
    BY <1>15 DEF Halt, vars, clientVars, AppOfQueue, RxOfQueue
  <2> QED
    BY <1>0, <2>1
<1>16. CASE ClientApp
  BY <1>16, QueueClientImplements
<1>17. CASE RxStep \/ Broker
  BY <1>17, QueueRxImplements
<1>18. ~SdkCallbackDisconnects
  BY DEF SdkCallbackDisconnects, Disciplined
<1> QED
  BY <1>2, <1>3, <1>4, <1>5, <1>6, <1>7, <1>8, <1>9, <1>10, <1>11, <1>12, <1>13, <1>14,
     <1>15, <1>16, <1>17, <1>18 DEF Next, AppCall, AppStep
-----------------------------------------------------------------------------
(* The invariants of the parts hold in the session.                        *)

\* Only a callback would have iotconnect_sdk_disconnect() return to the loop.
LEMMA ReturnsStep ==
    ASSUME ReturnsByPoint, Disciplined, [Next]_vars
    PROVE  ReturnsByPoint'
<1> USE DEF ReturnsByPoint, QueueStep, ClientStep, IdentityStep, GenStep, SdkStep, sdkVars
<1>1. ~SdkCallbackDisconnects
  BY DEF SdkCallbackDisconnects, Disciplined
<1>2. CASE AppCall
  BY <1>2 DEF AppCall, Generate, SdkInit, SdkConnect, SdkPollCall, SdkDisconnect, SdkDeinit
<1>3. CASE SdkQualify \/ SdkDeinitEnter \/ SdkDeinitConfig
  BY <1>3 DEF SdkQualify, SdkDeinitEnter, SdkDeinitConfig
<1>4. CASE SdkInitCheck \/ SdkInitIdentity \/ SdkConnected \/ SdkConnectFailed \/ Generating
  BY <1>4 DEF SdkInitCheck, SdkInitIdentity, SdkConnected, SdkConnectFailed, Generating
<1>5. CASE \/ SdkPoll \/ SdkPollTimeout \/ SdkDisconnectQueue \/ SdkDisconnected
           \/ SdkDeinitQueue \/ ClientApp
  BY <1>5 DEF SdkPoll, SdkPollTimeout, SdkDisconnectQueue, SdkDisconnected, SdkDeinitQueue, ClientApp
<1>6. CASE RxStep
  BY <1>6 DEF RxStep, InboundCall, InboundQueue, InboundReturn, ClientEvent
<1>7. CASE Broker
  BY <1>7 DEF Broker
<1>8. CASE Halt \/ UNCHANGED vars
  BY <1>8 DEF Halt, vars
<1> QED
  BY <1>1, <1>2, <1>3, <1>4, <1>5, <1>6, <1>7, <1>8 DEF Next, AppStep

\* What is inductive of the composition, next to what each part keeps itself.
Inv == QP!IInv /\ CP!IInv /\ ReturnsByPoint

LEMMA InitInv == Init => Inv /\ QP!Init /\ CP!Init
<1> SUFFICES ASSUME Init PROVE Inv /\ QP!Init /\ CP!Init
  OBVIOUS
<1>1. QP!Init
  BY DEF Init, AppOfQueue, RxOfQueue, MC!Handling, QP!Init, QP!MqInit, MQ!MqInit, QP!NoMsg, MQ!NoMsg
<1>2. CP!Init
  BY DEF Init, AppOfClient, RxOfClient, MC!Connecting, MC!Cleaning, MQ!RxPoints, CP!Init,
     CP!ClientInit, MC!ClientInit
<1>3. QP!IInv
  BY <1>1, QP!InitIInv, QueueAssumption
<1>4. CP!IInv
  BY <1>2, CP!InitIInv, ClientAssumption
<1> QED
  BY <1>1, <1>2, <1>3, <1>4 DEF Inv, ReturnsByPoint, Init

LEMMA StepInv ==
    ASSUME Inv, Disciplined, [Next]_vars
    PROVE  Inv'
<1>1. QP!IInv'
  BY QueueStepImplements, QP!StepIInv, QueueAssumption DEF Inv
<1>2. CP!IInv'
  BY ClientStepImplements, CP!StepIInv, ClientAssumption DEF Inv, Disciplined
<1> QED
  BY <1>1, <1>2, ReturnsStep DEF Inv
-----------------------------------------------------------------------------
(* The theorems                                                            *)

LEMMA InvAlways == ASSUME Disciplined PROVE Spec => []Inv
<1>1. Init => Inv
  BY InitInv
<1>2. Inv /\ [Next]_vars => Inv'
  BY StepInv
<1> QED
  BY <1>1, <1>2, PTL DEF Spec

\* The session is a behaviour of the message queue on its own.
THEOREM ImplementsQueue == ASSUME Disciplined PROVE Spec => QueueSpec
<1>1. Init => QueueAlone!Init
  <2>1. QP!Init => QueueAlone!Init
    BY DEF QP!Init, QP!MqInit, QP!NoMsg, QueueAlone!Init, QueueAlone!MqInit, QueueAlone!NoMsg
  <2> QED
    BY <2>1, InitInv
<1>2. Inv /\ [Next]_vars => [QueueAlone!Next]_(QueueAlone!vars)
  <2>1. Inv /\ [Next]_vars => [QP!Next]_(QP!vars)
    BY QueueStepImplements DEF Inv
  <2>2. UNCHANGED QP!vars => UNCHANGED QueueAlone!vars
    BY DEF QP!vars, QP!mqVars, QueueAlone!vars, QueueAlone!mqVars
  <2>3. QP!Next => QueueAlone!Next
    <3> USE DEF QP!AppGoto, QueueAlone!AppGoto, QP!RxGoto, QueueAlone!RxGoto,
                QP!mqVars, QueueAlone!mqVars, QP!NoMsg, QueueAlone!NoMsg
    <3>1. QP!Receive => QueueAlone!Receive
      BY DEF QP!Receive, QP!NewMessage, QP!SessionOpen, QP!Polling, QP!Disconnecting,
             QueueAlone!Receive, QueueAlone!NewMessage, QueueAlone!SessionOpen,
             QueueAlone!Polling, QueueAlone!Disconnecting
    <3>2. QP!Inbound => QueueAlone!Inbound
      BY DEF QP!Inbound, QP!CheckInbound, QP!CreateMessage, QP!PutMessage, QP!PutTimeout,
             QP!InboundReturn, QueueAlone!Inbound, QueueAlone!CheckInbound,
             QueueAlone!CreateMessage, QueueAlone!PutMessage, QueueAlone!PutTimeout,
             QueueAlone!InboundReturn
    <3>3. QP!SetUp \/ QP!OpenSession \/ QP!Registered
             => QueueAlone!SetUp \/ QueueAlone!OpenSession \/ QueueAlone!Registered
      BY DEF QP!SetUp, QP!InitQueue, QP!OpenSession, QP!Registered, QP!Register,
             QueueAlone!SetUp, QueueAlone!InitQueue, QueueAlone!OpenSession,
             QueueAlone!Registered, QueueAlone!Register
    <3>4. QP!ProcessCall \/ QP!Process \/ QP!GetTimeout
             => QueueAlone!ProcessCall \/ QueueAlone!Process \/ QueueAlone!GetTimeout
      BY DEF QP!ProcessCall, QP!ProcessEnter, QP!Process, QP!GetMessage, QP!GetTimeout,
             QP!DispatchTo, QueueAlone!ProcessCall, QueueAlone!ProcessEnter,
             QueueAlone!Process, QueueAlone!GetMessage, QueueAlone!GetTimeout,
             QueueAlone!DispatchTo
    <3>5. QP!DisconnectCall \/ QP!Disconnect => QueueAlone!DisconnectCall \/ QueueAlone!Disconnect
      BY DEF QP!DisconnectCall, QP!Disconnect, QP!FlushOne, QP!FlushDone, QP!ClearCallback,
             QP!CloseSession, QueueAlone!DisconnectCall, QueueAlone!Disconnect,
             QueueAlone!FlushOne, QueueAlone!FlushDone, QueueAlone!ClearCallback,
             QueueAlone!CloseSession
    <3>6. QP!DeinitCall \/ QP!Deinit => QueueAlone!DeinitCall \/ QueueAlone!Deinit
      BY DEF QP!DeinitCall, QP!Deinit, QP!FlushOne, QP!FlushDone, QP!ClearCallback,
             QP!DeleteQueue, QueueAlone!DeinitCall, QueueAlone!Deinit, QueueAlone!FlushOne,
             QueueAlone!FlushDone, QueueAlone!ClearCallback, QueueAlone!DeleteQueue
    <3> QED
      BY <3>1, <3>2, <3>3, <3>4, <3>5, <3>6 DEF QP!Next, QueueAlone!Next
  <2> QED
    BY <2>1, <2>2, <2>3
<1> QED
  BY <1>1, <1>2, InvAlways, PTL DEF Spec, QueueSpec

\* It is a behaviour of the MQTT client on its own.
THEOREM ImplementsClient == ASSUME Disciplined PROVE Spec => ClientSpec
<1>1. Init => ClientAlone!Init
  <2>1. CP!Init => ClientAlone!Init
    BY DEF CP!Init, CP!ClientInit, ClientAlone!Init, ClientAlone!ClientInit
  <2> QED
    BY <2>1, InitInv
<1>2. Inv /\ [Next]_vars => [ClientAlone!Next]_(ClientAlone!vars)
  <2>1. Inv /\ [Next]_vars => [CP!Next]_(CP!vars)
    BY ClientStepImplements DEF Inv
  <2>2. UNCHANGED CP!vars => UNCHANGED ClientAlone!vars
    BY DEF CP!vars, CP!clientVars, CP!mwVars, ClientAlone!vars, ClientAlone!clientVars,
           ClientAlone!mwVars
  <2>3. CP!Next => ClientAlone!Next
    <3> USE DEF CP!AppGoto, ClientAlone!AppGoto, CP!RxGoto, ClientAlone!RxGoto,
                CP!clientVars, ClientAlone!clientVars, CP!mwVars, ClientAlone!mwVars,
                CP!Cleanup, ClientAlone!Cleanup, CP!AfterHandle, ClientAlone!AfterHandle,
                CP!Merge, ClientAlone!Merge, CP!KeepClientState, ClientAlone!KeepClientState
    <3>1. CP!ConnectCall \/ CP!DisconnectCall => ClientAlone!ConnectCall \/ ClientAlone!DisconnectCall
      BY DEF CP!ConnectCall, CP!DisconnectCall, ClientAlone!ConnectCall, ClientAlone!DisconnectCall
    <3>2. CP!ClientConnect => ClientAlone!ClientConnect
      BY DEF CP!ClientConnect, CP!ConnectBegin, CP!ConnectInitLibrary, CP!ConnectCreate,
             CP!ConnectRegister, CP!ConnectTry, CP!SubscribeTry, CP!ConnectUp,
             CP!ConnectSetStatusCb, CP!ConnectSetInboundCb, ClientAlone!ClientConnect,
             ClientAlone!ConnectBegin, ClientAlone!ConnectInitLibrary, ClientAlone!ConnectCreate,
             ClientAlone!ConnectRegister, ClientAlone!ConnectTry, ClientAlone!SubscribeTry,
             ClientAlone!ConnectUp, ClientAlone!ConnectSetStatusCb, ClientAlone!ConnectSetInboundCb
    <3>3. CP!ClientCleanup => ClientAlone!ClientCleanup
      BY DEF CP!ClientCleanup, CP!RequestDisconnect, CP!CleanupEnter, CP!CleanupDisconnect,
             CP!CleanupDelete, CP!CleanupDeinit, CP!CleanupClear, ClientAlone!ClientCleanup,
             ClientAlone!RequestDisconnect, ClientAlone!CleanupEnter,
             ClientAlone!CleanupDisconnect, ClientAlone!CleanupDelete,
             ClientAlone!CleanupDeinit, ClientAlone!CleanupClear
    <3>4. CP!ConnectReturn \/ CP!DisconnectReturn
             => ClientAlone!ConnectReturn \/ ClientAlone!DisconnectReturn
      BY DEF CP!ConnectReturn, CP!DisconnectReturn, ClientAlone!ConnectReturn,
             ClientAlone!DisconnectReturn
    <3>5. CP!LinkLost \/ CP!DisconnectEvent \/ CP!MessageEvent
             => ClientAlone!LinkLost \/ ClientAlone!DisconnectEvent \/ ClientAlone!MessageEvent
      BY DEF CP!LinkLost, CP!DisconnectEvent, CP!MessageEvent, ClientAlone!LinkLost,
             ClientAlone!DisconnectEvent, ClientAlone!MessageEvent
    <3>6. CP!RxStep => ClientAlone!RxStep
      BY DEF CP!RxStep, CP!MessageCall, CP!ClientEvent, CP!EventDisconnected,
             CP!EventCheckStatusCb, CP!EventNotify, CP!MessageCheck, CP!MessageClearRequest,
             ClientAlone!RxStep, ClientAlone!MessageCall, ClientAlone!ClientEvent,
             ClientAlone!EventDisconnected, ClientAlone!EventCheckStatusCb,
             ClientAlone!EventNotify, ClientAlone!MessageCheck, ClientAlone!MessageClearRequest
    <3> QED
      BY <3>1, <3>2, <3>3, <3>4, <3>5, <3>6
         DEF CP!Next, ClientAlone!Next, CP!AppStep, ClientAlone!AppStep
  <2> QED
    BY <2>1, <2>2, <2>3
<1> QED
  BY <1>1, <1>2, InvAlways, PTL DEF Spec, ClientSpec

\* Whatever is tested before it is called is still there when it is called:
\* the two callbacks of the client, and that of the queue, which is tested once
\* for all the messages of a poll.
THEOREM CallbacksAreThere == ASSUME Disciplined PROVE Spec => []NoNullCallback
<1>1. Inv => NoNullCallback
  <2> SUFFICES ASSUME Inv PROVE NoNullCallback
    OBVIOUS
  <2>1. RxOfClient = rx \/ rx \notin MC!Handling
    BY DEF RxOfClient, MQ!RxPoints, MQ!InFlight, MC!Handling
  <2>2. MC!NoNullCallback
    BY <2>1 DEF Inv, CP!IInv, CP!NoNullCallback, MC!NoNullCallback, MC!Handling
  <2>3. app = "poll.dispatch" => AppOfQueue = "poll.dispatch"
    BY DEF AppOfQueue, MC!Cleaning, GC!GenPoints, MQ!AppPoints, MQ!Polling
  <2>4. app = "poll.dispatch" => clientMsgCb
    BY <2>3 DEF Inv, QP!IInv, QP!Deregistered, QP!Polling
  <2> QED
    BY <2>2, <2>4 DEF NoNullCallback
<1> QED
  BY InvAlways, <1>1, PTL

\* Control is back with the application, after a disconnect or a failure of any
\* part, and the client is as it was in the beginning.
THEOREM CleanWithoutSession == ASSUME Disciplined PROVE Spec => []NoClientLeft
<1>1. Inv => NoClientLeft
  <2> SUFFICES ASSUME Inv, app \in {"none", "off", "init.check"} \union HI!IdentityPoints
               PROVE  /\ handles = {} /\ mqttConnection = NoHandle
                      /\ ~isMqttInitialized /\ ~isConnected /\ ~inboundCb /\ ~statusCb
                      /\ rx = "idle"
    BY DEF NoClientLeft
  <2>1. AppOfClient = "off"
    BY DEF AppOfClient, MC!Connecting, MC!Cleaning, HI!IdentityPoints, HI!HttpPoints
  <2>2. /\ handles = {} /\ mqttConnection = NoHandle
        /\ ~isMqttInitialized /\ ~isConnected /\ ~inboundCb /\ ~statusCb
        /\ RxOfClient = "idle"
    BY <2>1 DEF Inv, CP!IInv, CP!ObjectByPoint, CP!CallbacksByPoint, CP!FlagsByPoint, CP!NoObject
  <2>3. rx = "idle"
    BY <2>2 DEF RxOfClient
  <2> QED
    BY <2>2, <2>3
<1> QED
  BY InvAlways, <1>1, PTL

\* The points at which the two tasks hold a message are those of the queue.
LEMMA HoldingPoints ==
    /\ app = "poll.dispatch" <=> AppOfQueue = "poll.dispatch"
    /\ rx = "mq.put" <=> RxOfQueue = "mq.put"
    /\ rx \in MQ!InFlight <=> RxOfQueue \in QP!InFlight
  BY DEF AppOfQueue, RxOfQueue, MC!Cleaning, GC!GenPoints, MQ!AppPoints, MQ!Polling,
         MC!Handling, MQ!InFlight, QP!InFlight

-----------------------------------------------------------------------------
(* Messages of earlier sessions                                            *)

\* Behind the first message of the queue all are of this session, and so is the
\* one on its way in.
BornInSession ==
    /\ born \in [1..MaxMessages -> Nat] /\ session \in Nat
    /\ \A i \in 1..Len(cyQueue) : i > 1 => born[cyQueue[i]] = session
    /\ rx \in MQ!InFlight => born[rxMsg] = session

\* What a step may do to the queue and to the message on its way in.
Put == /\ rx \in MQ!InFlight /\ rx' \notin MQ!InFlight
       /\ cyQueue' = Append(cyQueue, rxMsg)
       /\ UNCHANGED <<born, session>>
Taken == /\ cyQueue # <<>> /\ cyQueue' = Tail(cyQueue)
         /\ UNCHANGED <<rx, rxMsg, born, session>>
Emptied == cyQueue' = <<>> /\ UNCHANGED <<rx, rxMsg, born, session>>
Kept == /\ rx' \in MQ!InFlight => rx \in MQ!InFlight
        /\ UNCHANGED <<cyQueue, rxMsg, born, session>>

LEMMA BornStepKinds ==
    ASSUME Disciplined, [Next]_vars
    PROVE  SdkConnect \/ InboundCall \/ Put \/ Taken \/ Emptied \/ Kept
<1> USE DEF QueueStep, ClientStep, IdentityStep, GenStep, SdkStep, sdkVars, mqVars, MQ!mqVars,
            AppGoto, MQ!AppGoto
<1>1. CASE AppCall
  BY <1>1 DEF AppCall, Generate, GC!GenCall, GC!AppGoto, SdkInit, MQ!InitQueue, SdkPollCall,
              MQ!ProcessEnter, SdkDisconnect, SdkDeinit, Emptied, Kept
<1>2. CASE SdkPoll \/ SdkPollTimeout \/ SdkQualify
  BY <1>2 DEF SdkPoll, SdkPollTimeout, SdkQualify, MQ!GetMessage, MQ!GetTimeout, MQ!DispatchTo, Taken, Kept
<1>3. CASE SdkDisconnectQueue
  BY <1>3 DEF SdkDisconnectQueue, MQ!FlushOne, MQ!FlushDone, MQ!ClearCallback, Taken, Kept
<1>4. CASE SdkDeinitQueue
  BY <1>4 DEF SdkDeinitQueue, MQ!FlushOne, MQ!FlushDone, MQ!ClearCallback, MQ!DeleteQueue,
              Taken, Emptied, Kept
<1>5. CASE \/ SdkInitCheck \/ SdkConnected \/ SdkConnectFailed \/ SdkDisconnected
           \/ SdkDeinitEnter \/ SdkDeinitConfig
  BY <1>5 DEF SdkInitCheck, SdkConnected, SdkConnectFailed, SdkDisconnected, SdkDeinitEnter,
              SdkDeinitConfig, MQ!Register, Kept
<1>6. CASE Generating
  BY <1>6, GenPointsStep DEF Generating, Kept
<1>7. CASE SdkInitIdentity
  BY <1>7, IdentityPointsStep DEF SdkInitIdentity, Kept
<1>8. CASE ClientApp
  BY <1>8, ClientPointsStep DEF ClientApp, Kept
<1>9. CASE InboundQueue
  BY <1>9 DEF InboundQueue, MQ!CheckInbound, MQ!CreateMessage, MQ!PutMessage, MQ!PutTimeout,
              MQ!RxGoto, MQ!InFlight, Put, Kept
<1>10. CASE InboundReturn
  BY <1>10 DEF InboundReturn, RxGoto, MQ!InFlight, Kept
<1>11. CASE ClientEvent \/ Broker
  BY <1>11, EventPointsStep DEF ClientEvent, Broker, MQ!InFlight, MC!Handling, Kept
<1>12. CASE Halt \/ UNCHANGED vars
  BY <1>12 DEF Halt, vars, Kept
<1>13. ~SdkCallbackDisconnects
  BY DEF SdkCallbackDisconnects, Disciplined
<1> QED
  BY <1>1, <1>2, <1>3, <1>4, <1>5, <1>6, <1>7, <1>8, <1>9, <1>10, <1>11, <1>12, <1>13
     DEF Next, AppStep, RxStep, AppCall

LEMMA BornStep ==
    ASSUME Inv, BornInSession, Disciplined, [Next]_vars
    PROVE  BornInSession'
<1>0. /\ cyQueue \in Seq(1..MaxMessages) /\ rxMsg \in 0..MaxMessages
      /\ received \in Nat /\ MaxMessages \in Nat
      /\ \A i \in 1..Len(cyQueue) : cyQueue[i] \in 1..received
      /\ rx \in MQ!InFlight => rxMsg \in 1..MaxMessages
  BY HoldingPoints, QueueAssumption
     DEF Inv, QP!IInv, QP!TypeOK, QP!QueueTypeOK, QP!Numbered, QP!Queued
<1>1. CASE SdkConnect
  <2>1. app = "off"
    BY <1>1 DEF SdkConnect, SdkStep, AppGoto, Disciplined
  <2>2. AppOfQueue = "off"
    BY <2>1 DEF AppOfQueue, MC!Cleaning, GC!GenPoints, MQ!AppPoints
  <2>3. Len(cyQueue) <= 1 /\ rx \notin MQ!InFlight
    BY <2>2, HoldingPoints DEF Inv, QP!IInv, QP!AtMostOneStale, QP!Deregistered, QP!InFlight
  <2>4. UNCHANGED <<cyQueue, rx, born>> /\ session' = session + 1
    BY <1>1 DEF SdkConnect, SdkStep, AppGoto, mqVars
  <2> QED
    BY <1>0, <2>3, <2>4 DEF BornInSession
<1>2. CASE InboundCall
  <2>1. /\ UNCHANGED <<cyQueue, session>> /\ rxMsg' = received + 1
        /\ received + 1 \in 1..MaxMessages
        /\ born' = [born EXCEPT ![received + 1] = session]
    BY <1>0, <1>2 DEF InboundCall, MQ!NewMessage
  <2>2. born' \in [1..MaxMessages -> Nat] /\ born'[rxMsg'] = session
    BY <2>1 DEF BornInSession
  <2>3. \A m \in 1..received : born'[m] = born[m]
    BY <1>0, <2>1 DEF BornInSession
  <2> QED
    BY <1>0, <2>1, <2>2, <2>3 DEF BornInSession
<1>3. CASE Put
  <2>1. /\ Len(cyQueue') = Len(cyQueue) + 1
        /\ \A i \in 1..Len(cyQueue) : cyQueue'[i] = cyQueue[i]
        /\ cyQueue'[Len(cyQueue) + 1] = rxMsg
    BY <1>0, <1>3 DEF Put
  <2>2. \A i \in 1..Len(cyQueue') : i \in 1..Len(cyQueue) \/ i = Len(cyQueue) + 1
    BY <1>0, <2>1
  <2> QED
    BY <1>3, <2>1, <2>2 DEF Put, BornInSession
<1>4. CASE Taken
  <2>1. /\ Len(cyQueue') = Len(cyQueue) - 1
        /\ \A i \in 1..Len(cyQueue') : cyQueue'[i] = cyQueue[i + 1] /\ i + 1 \in 1..Len(cyQueue)
    BY <1>0, <1>4 DEF Taken
  <2> QED
    BY <1>4, <2>1 DEF Taken, BornInSession
<1>5. CASE Emptied
  BY <1>5 DEF Emptied, BornInSession
<1>6. CASE Kept
  BY <1>6 DEF Kept, BornInSession
<1> QED
  BY <1>1, <1>2, <1>3, <1>4, <1>5, <1>6, BornStepKinds

\* Whatever was in the queue or on its way in when sessions ended, the queue
\* never holds more than one message of an earlier session.
THEOREM OneStaleMessage == ASSUME Disciplined PROVE Spec => []AtMostOneStale
<1>1. Init => BornInSession
  BY DEF Init, MQ!MqInit, BornInSession, MQ!InFlight
<1>2. Inv /\ BornInSession /\ [Next]_vars => BornInSession'
  BY BornStep
<1>3. Inv /\ BornInSession => AtMostOneStale
  <2> SUFFICES ASSUME Inv, BornInSession PROVE Cardinality(Stale) <= 1
    BY DEF AtMostOneStale
  <2>1. cyQueue \in Seq(1..MaxMessages)
    BY DEF Inv, QP!IInv, QP!TypeOK, QP!QueueTypeOK
  <2>2. Stale \subseteq {cyQueue[1]}
    BY <2>1 DEF Stale, MQ!Queued, BornInSession
  <2>3. IsFiniteSet({cyQueue[1]}) /\ Cardinality({cyQueue[1]}) = 1
    BY FS_Singleton
  <2>4. Cardinality(Stale) <= Cardinality({cyQueue[1]})
    BY <2>2, <2>3, FS_Subset
  <2> QED
    BY <2>3, <2>4
<1> QED
  BY InvAlways, <1>1, <1>2, <1>3, PTL DEF Spec
=============================================================================
