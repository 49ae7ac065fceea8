----------------------------- MODULE SdkAnyProofs ------------------------------
(***************************************************************************)
(* What SdkSession keeps whatever the application does, for any sizes,     *)
(* retries and numbers of sessions: also for one that reconnects or        *)
(* deinitialises after a loss without disconnecting, leaving an object in  *)
(* the middleware, that disconnects within a callback, or that             *)
(* deinitialises what it did not initialise.                               *)
(*                                                                         *)
(* Once is_connected is cleared outside a connection being opened or taken *)
(* down, nothing can come from the middleware any more: that is why the    *)
(* queue stays as the flushes leave it.                                    *)
(***************************************************************************)
EXTENDS SdkInitProofs

\* What is proved of the messages, whoever moves them.
MP == INSTANCE MessageQueueProofs

-----------------------------------------------------------------------------
(* What the middleware may report                                          *)

\* The points at which its task handles a message of a live connection.
Handled == {"msg.check", "msg.call", "msg.clear", "rx.done"} \union MQ!InFlight

\* Nothing is to come, and nothing that came is on its way to the queue.
Calm == link = {} /\ lost = {} /\ rx \notin Handled \union {"ev.disc"}

\* A connection is made, but is_connected is not set yet, or is cleared before
\* the connection is closed.
Opening == {"conn.subscribe", "conn.up"}
Taking == {"cl.down", "cl.disconnect", "cl.delete"}

WithObject == {"conn.register", "conn.connect", "conn.subscribe", "conn.up",
               "cl.disconnect", "cl.delete"}

\* Only the object that mqtt_connection names is connected or has lost its
\* connection, whatever other objects there may be, and its DISCONNECT event
\* is the last that comes of it.
OneConnection ==
    /\ link \subseteq {mqttConnection} \ {NoHandle}
    /\ lost \subseteq {mqttConnection} \ {NoHandle}
    /\ link \intersect lost = {}
    /\ rx \in Handled => rxHandle = mqttConnection /\ mqttConnection # NoHandle
    /\ rx = "ev.disc" => /\ link = {} /\ lost = {}
                         /\ rxHandle = mqttConnection /\ mqttConnection # NoHandle
    /\ app \in WithObject => mqttConnection # NoHandle

\* Where is_connected cannot be set.
Unconnected == {"none", "off", "init.check", "fini.flush1", "fini.clear", "fini.flush2",
                "fini.delete", "fini.config", "disc.done", "conn.enter", "conn.mwinit",
                "conn.create", "conn.register", "conn.connect", "conn.subscribe", "conn.up",
                "conn.failed", "cl.disconnect", "cl.delete", "cl.deinit", "cl.clear"}
                  \union HI!IdentityPoints \union GC!GenPoints

Events == /\ OneConnection
          /\ app \in Unconnected => ~isConnected
          /\ ~isConnected /\ app \notin Opening \union Taking => Calm

\* Without an object there is nothing to come.
LEMMA CalmWithoutObject == OneConnection /\ mqttConnection = NoHandle => Calm
  BY DEF OneConnection, Calm

-----------------------------------------------------------------------------
(* Which steps there are, to the client                                    *)

\* The message of the event goes its way through the queue.
Inbound == /\ rx \in Handled /\ rx' \in Handled \ {"msg.call"}
           /\ UNCHANGED <<app, clientVars>>

\* Calls and returns on the application's task.
Elsewhere == WithObject \union Opening \union Taking \union {"conn.statusCb", "conn.inboundCb"}

Plain == /\ UNCHANGED <<rx, clientVars>>
         /\ \/ UNCHANGED app
            \/ /\ app \notin Elsewhere /\ app' \notin Elsewhere
               /\ app' \in Unconnected => app \in Unconnected \/ ~isConnected

LEMMA EventKinds ==
    ASSUME ReturnsKnown, [Next]_vars
    PROVE  \/ MC!ClientConnect \/ MC!ClientCleanup
           \/ MC!ClientEvent \/ MC!LinkLost \/ MC!DisconnectEvent \/ MC!MessageEvent
           \/ Inbound \/ Plain
<1> USE DEF QueueStep, IdentityStep, GenStep, SdkStep, sdkVars, AppGoto, RxGoto, MQ!AppGoto
<1>0. /\ Elsewhere = {"conn.register", "conn.connect", "conn.subscribe", "conn.up",
                      "conn.statusCb", "conn.inboundCb", "cl.down", "cl.disconnect", "cl.delete"}
      /\ \A p \in GC!GenPoints \union HI!IdentityPoints : p \in Unconnected /\ p \notin Elsewhere
  BY DEF Elsewhere, WithObject, Opening, Taking, Unconnected, GC!GenPoints, HI!IdentityPoints,
         HI!HttpPoints
<1>1. CASE Generate
  <2>1. app' \in GC!GenPoints /\ app = "none" /\ UNCHANGED <<rx, clientVars>>
    BY <1>1 DEF Generate, GC!GenCall, GC!AppGoto, GC!GenPoints
  <2> QED
    BY <1>0, <2>1 DEF Plain, Unconnected
<1>2. CASE Generating
  BY <1>0, <1>2, GenPointsStep DEF Generating, Plain, Unconnected
<1>3. CASE SdkInit
  BY <1>0, <1>3 DEF SdkInit, MQ!InitQueue, Plain, Unconnected
<1>4. CASE SdkInitCheck
  BY <1>0, <1>4 DEF SdkInitCheck, Plain, Unconnected, HI!IdentityPoints
<1>5. CASE SdkInitIdentity
  BY <1>0, <1>5, IdentityPointsStep DEF SdkInitIdentity, Plain, Unconnected
<1>6. CASE SdkConnect \/ SdkConnectFailed
  BY <1>0, <1>6 DEF SdkConnect, SdkConnectFailed, Plain, Unconnected
<1>7. CASE \/ SdkConnected \/ SdkPollCall \/ SdkPoll \/ SdkPollTimeout
           \/ SdkQualify \/ SdkCallbackDisconnects
  <2>1. /\ UNCHANGED <<rx, clientVars>>
        /\ app \in {"conn.ok", "idle", "off", "poll.get", "poll.dispatch"}
        /\ app' \in {"idle", "poll.get", "poll.dispatch", "disc.flush1"} \/ UNCHANGED app
    BY <1>7 DEF SdkConnected, MQ!Register, SdkPollCall, SdkPoll, SdkPollTimeout, SdkQualify,
       SdkCallbackDisconnects, MQ!ProcessEnter, MQ!GetMessage, MQ!GetTimeout, MQ!DispatchTo
  <2>2. app' \notin Unconnected \/ UNCHANGED app
    BY <2>1 DEF Unconnected, GC!GenPoints, HI!IdentityPoints, HI!HttpPoints
  <2> QED
    BY <1>0, <2>1, <2>2 DEF Plain
<1>8. CASE SdkDisconnect \/ SdkDisconnectQueue
  <2>1. /\ UNCHANGED <<rx, clientVars>>
        /\ app \in {"idle", "off", "disc.flush1", "disc.clear", "disc.flush2"}
        /\ app' \in {"disc.flush1", "disc.clear", "disc.flush2", "disc.request"}
    BY <1>8 DEF SdkDisconnect, SdkDisconnectQueue, MQ!FlushOne, MQ!FlushDone, MQ!ClearCallback
  <2>2. app' \notin Unconnected
    BY <2>1 DEF Unconnected, GC!GenPoints, HI!IdentityPoints, HI!HttpPoints
  <2> QED
    BY <1>0, <2>1, <2>2 DEF Plain
<1>9. CASE SdkDisconnected
  BY <1>0, <1>9 DEF SdkDisconnected, ReturnsKnown, Plain, Unconnected
<1>10. CASE SdkDeinit
  <2>1. /\ UNCHANGED <<rx, clientVars>>
        /\ app \in {"idle", "off", "none"} /\ app' = "fini.enter"
    BY <1>10 DEF SdkDeinit
  <2>2. app' \notin Unconnected
    BY <2>1 DEF Unconnected, GC!GenPoints, HI!IdentityPoints, HI!HttpPoints
  <2> QED
    BY <1>0, <2>1, <2>2 DEF Plain
<1>11. CASE SdkDeinitEnter
  <2>1. /\ UNCHANGED <<rx, clientVars>> /\ app = "fini.enter"
        /\ app' = IF isConnected THEN "disc.flush1" ELSE "fini.flush1"
    BY <1>11 DEF SdkDeinitEnter
  <2>2. isConnected => app' \notin Unconnected
    BY <2>1 DEF Unconnected, GC!GenPoints, HI!IdentityPoints, HI!HttpPoints
  <2> QED
    BY <1>0, <2>1, <2>2 DEF Plain
<1>12. CASE SdkDeinitQueue
  <2>1. /\ UNCHANGED <<rx, clientVars>>
        /\ app \in {"fini.flush1", "fini.clear", "fini.flush2", "fini.delete"}
        /\ app' \in {"fini.flush1", "fini.clear", "fini.flush2", "fini.delete", "fini.config"}
    BY <1>12 DEF SdkDeinitQueue, MQ!FlushOne, MQ!FlushDone, MQ!ClearCallback, MQ!DeleteQueue
  <2> QED
    BY <1>0, <2>1 DEF Plain, Unconnected
<1>13. CASE SdkDeinitConfig
  BY <1>0, <1>13 DEF SdkDeinitConfig, Plain, Unconnected
<1>14. CASE InboundCall \/ InboundReturn
  BY <1>14 DEF InboundCall, InboundReturn, Inbound, Handled, MQ!InFlight
<1>15. CASE InboundQueue
  BY <1>15, InboundPointsStep DEF InboundQueue, Inbound, Handled, MQ!InFlight
<1>16. CASE ClientApp \/ ClientEvent \/ Broker
  BY <1>16 DEF ClientApp, ClientEvent, Broker, ClientStep
<1>17. CASE Halt \/ UNCHANGED vars
  BY <1>17 DEF Halt, vars, Plain
<1> QED
  BY <1>1, <1>2, <1>3, <1>4, <1>5, <1>6, <1>7, <1>8, <1>9, <1>10, <1>11, <1>12, <1>13, <1>14,
     <1>15, <1>16, <1>17 DEF Next, AppCall, AppStep, RxStep

-----------------------------------------------------------------------------
(* What each of them keeps                                                 *)

LEMMA ConnectingStep ==
    ASSUME ReturnsKnown, Events, MC!ClientConnect
    PROVE  Events'
<1> USE DEF Events, OneConnection, Calm, Opening, Taking, WithObject, MC!AppGoto, MC!Cleanup,
            MC!KeepClientState, MC!mwVars, MC!clientVars
<1>0. /\ {"conn.statusCb", "conn.inboundCb", "conn.ok", "cl.down"} \intersect Unconnected = {}
      /\ {"conn.enter", "conn.mwinit", "conn.create", "conn.register", "conn.connect",
          "conn.subscribe", "conn.up"} \subseteq Unconnected
  BY DEF Unconnected, GC!GenPoints, HI!IdentityPoints, HI!HttpPoints
<1>1. CASE MC!ConnectBegin
  BY <1>0, <1>1 DEF MC!ConnectBegin
<1>2. CASE MC!ConnectInitLibrary
  BY <1>0, <1>2 DEF MC!ConnectInitLibrary
<1>3. CASE MC!ConnectCreate
  <2>1. CASE app' = "conn.register"
    <3>1. link = {} /\ lost = {} /\ rx \notin Handled \union {"ev.disc"} /\ ~isConnected
      BY <1>0, <1>3 DEF MC!ConnectCreate
    <3>2. mqttConnection' # NoHandle
      BY <1>3, <2>1, ClientAssumption DEF MC!ConnectCreate
    <3> QED
      BY <1>3, <2>1, <3>1, <3>2 DEF MC!ConnectCreate
  <2>2. CASE app' # "conn.register"
    BY <1>0, <1>3, <2>2 DEF MC!ConnectCreate
  <2> QED
    BY <2>1, <2>2
<1>4. CASE MC!ConnectRegister
  BY <1>0, <1>4 DEF MC!ConnectRegister
<1>5. CASE MC!ConnectTry
  <2>1. /\ link = {} /\ lost = {} /\ rx \notin Handled \union {"ev.disc"} /\ ~isConnected
        /\ mqttConnection # NoHandle
    BY <1>0, <1>5 DEF MC!ConnectTry
  <2>2. /\ UNCHANGED <<rx, rxHandle, mqttConnection, lost, isConnected>>
        /\ \/ app' = "conn.subscribe" /\ link' = {mqttConnection}
           \/ app' \in {"conn.connect", "cl.down"} /\ link' = {}
    BY <1>5, <2>1 DEF MC!ConnectTry
  <2> QED
    BY <2>1, <2>2
<1>6. CASE MC!SubscribeTry
  BY <1>0, <1>6 DEF MC!SubscribeTry
<1>7. CASE MC!ConnectUp
  BY <1>0, <1>7 DEF MC!ConnectUp
<1>8. CASE MC!ConnectSetStatusCb \/ MC!ConnectSetInboundCb
  BY <1>0, <1>8 DEF MC!ConnectSetStatusCb, MC!ConnectSetInboundCb
<1> QED
  BY <1>1, <1>2, <1>3, <1>4, <1>5, <1>6, <1>7, <1>8 DEF MC!ClientConnect

LEMMA CleaningStep ==
    ASSUME ReturnsKnown, Events, MC!ClientCleanup
    PROVE  Events'
<1> USE DEF Events, OneConnection, Opening, Taking, WithObject, MC!AppGoto, MC!Cleanup,
            MC!AfterHandle, MC!mwVars
<1>0. /\ "cl.down" \notin Unconnected
      /\ {"cl.disconnect", "cl.delete", "cl.deinit", "cl.clear"} \subseteq Unconnected
      /\ cleanupTo \notin Opening \union Taking \union WithObject
  BY DEF Unconnected, GC!GenPoints, HI!IdentityPoints, HI!HttpPoints, ReturnsKnown
<1>1. CASE MC!RequestDisconnect
  BY <1>0, <1>1 DEF MC!RequestDisconnect, Calm
<1>2. CASE MC!CleanupEnter
  <2>1. UNCHANGED <<rx, rxHandle, mqttConnection, link, lost>> /\ isConnected' = FALSE
    BY <1>2 DEF MC!CleanupEnter
  <2>2. CASE mqttConnection # NoHandle
    BY <1>2, <2>1, <2>2 DEF MC!CleanupEnter
  <2>3. CASE mqttConnection = NoHandle
    <3>1. Calm' /\ app' \in {"cl.deinit", "cl.clear"}
      BY <1>2, <2>1, <2>3, CalmWithoutObject DEF MC!CleanupEnter, Calm
    <3> QED
      BY <2>1, <3>1
  <2> QED
    BY <2>2, <2>3
<1>3. CASE MC!CleanupDisconnect
  BY <1>0, <1>3 DEF MC!CleanupDisconnect
<1>4. CASE MC!CleanupDelete
  <2>1. /\ link' = {} /\ lost' = {} /\ app' \in {"cl.deinit", "cl.clear"}
        /\ UNCHANGED <<rx, isConnected>> /\ ~isConnected
    BY <1>0, <1>4 DEF MC!CleanupDelete
  <2>2. rx \notin Handled \union {"ev.disc"}
    BY <1>4 DEF MC!CleanupDelete, Handled, MQ!InFlight
  <2> QED
    BY <2>1, <2>2 DEF Calm
<1>5. CASE MC!CleanupDeinit
  BY <1>0, <1>5 DEF MC!CleanupDeinit, Calm
<1>6. CASE MC!CleanupClear
  <2>1. app = "cl.clear" /\ app' = cleanupTo
        /\ UNCHANGED <<rx, rxHandle, mqttConnection, link, lost, isConnected>>
    BY <1>6 DEF MC!CleanupClear
  <2>2. ~isConnected /\ Calm
    BY <1>0, <2>1
  <2> QED
    BY <1>0, <2>1, <2>2 DEF Calm
<1> QED
  BY <1>1, <1>2, <1>3, <1>4, <1>5, <1>6 DEF MC!ClientCleanup

LEMMA ReportingStep ==
    ASSUME Events, MC!ClientEvent \/ MC!LinkLost \/ MC!DisconnectEvent \/ MC!MessageEvent
    PROVE  Events'
<1> USE DEF Events, OneConnection, Calm, Handled, MQ!InFlight, MC!RxGoto, MC!clientVars, MC!mwVars
<1>1. CASE MC!LinkLost
  BY <1>1 DEF MC!LinkLost
<1>2. CASE MC!DisconnectEvent
  BY <1>2 DEF MC!DisconnectEvent
<1>3. CASE MC!MessageEvent
  BY <1>3 DEF MC!MessageEvent
<1>4. CASE MC!EventDisconnected
  BY <1>4 DEF MC!EventDisconnected
<1>5. CASE MC!EventCheckStatusCb \/ MC!EventNotify
  BY <1>5 DEF MC!EventCheckStatusCb, MC!EventNotify
<1>6. CASE MC!MessageCheck \/ MC!MessageClearRequest
  BY <1>6 DEF MC!MessageCheck, MC!MessageClearRequest
<1> QED
  BY <1>1, <1>2, <1>3, <1>4, <1>5, <1>6 DEF MC!ClientEvent

LEMMA EventsStep ==
    ASSUME ReturnsKnown, Events, [Next]_vars
    PROVE  Events'
<1>1. CASE Inbound
  BY <1>1 DEF Inbound, clientVars, Events, OneConnection, Calm, Handled, MQ!InFlight
<1>2. CASE Plain
  <2>1. UNCHANGED <<rx, rxHandle, mqttConnection, link, lost, isConnected>>
    BY <1>2 DEF Plain, clientVars
  <2>2. CASE UNCHANGED app
    BY <2>1, <2>2 DEF Events, OneConnection, Calm
  <2>3. CASE ~UNCHANGED app
    BY <1>2, <2>1, <2>3 DEF Plain, Elsewhere, Events, OneConnection, Calm
  <2> QED
    BY <2>2, <2>3
<1> QED
  BY <1>1, <1>2, EventKinds, ConnectingStep, CleaningStep, ReportingStep

\* The callback for messages was there when its event was let through.
InboundTested == rx = "msg.call" => inboundCb

\* It is cleared where no event of a message can be under way, and nowhere else.
LEMMA InboundTestedStep ==
    ASSUME ReturnsKnown, Events, InboundTested, [Next]_vars
    PROVE  InboundTested'
<1> USE DEF InboundTested
<1>1. CASE Inbound \/ Plain
  BY <1>1 DEF Inbound, Plain, clientVars
<1>2. CASE MC!ClientConnect
  BY <1>2 DEF MC!ClientConnect, MC!ConnectBegin, MC!ConnectInitLibrary, MC!ConnectCreate,
       MC!ConnectRegister, MC!ConnectTry, MC!SubscribeTry, MC!ConnectUp, MC!ConnectSetStatusCb,
       MC!ConnectSetInboundCb, MC!AppGoto, MC!Cleanup, MC!KeepClientState, MC!clientVars
<1>3. CASE MC!CleanupClear
  <2>1. app = "cl.clear" /\ UNCHANGED rx
    BY <1>3 DEF MC!CleanupClear, MC!AppGoto
  <2>2. "cl.clear" \in Unconnected \ (Opening \union Taking)
    BY DEF Unconnected, Opening, Taking
  <2> QED
    BY <2>1, <2>2 DEF Events, Calm, Handled
<1>4. CASE \/ MC!RequestDisconnect \/ MC!CleanupEnter \/ MC!CleanupDisconnect
           \/ MC!CleanupDelete \/ MC!CleanupDeinit
  <2>1. UNCHANGED <<rx, inboundCb>>
    BY <1>4 DEF MC!RequestDisconnect, MC!CleanupEnter, MC!CleanupDisconnect,
         MC!CleanupDelete, MC!CleanupDeinit, MC!AppGoto, MC!Cleanup
  <2> QED
    BY <2>1
<1>5. CASE MC!ClientEvent \/ MC!LinkLost \/ MC!DisconnectEvent \/ MC!MessageEvent
  BY <1>5 DEF MC!ClientEvent, MC!EventDisconnected, MC!EventCheckStatusCb, MC!EventNotify,
       MC!MessageCheck, MC!MessageClearRequest, MC!LinkLost, MC!DisconnectEvent,
       MC!MessageEvent, MC!RxGoto, MC!clientVars
<1> QED
  BY <1>1, <1>2, <1>3, <1>4, <1>5, EventKinds DEF MC!ClientCleanup

-----------------------------------------------------------------------------
(* The queue and its messages                                              *)

\* Where nothing has been set up yet, and where not everything may be.
NotSetUp == {"none"} \union GC!GenPoints
Partly == InitPoints \union Closing

\* The queue is empty from the first flush of iotconnect_sdk_deinit() on, and
\* stands from the moment iotc_mq_init() has succeeded until the SDK is being
\* deinitialised, and then for as long as there is a connection.
Drained == {"fini.clear", "fini.flush2", "fini.delete", "fini.config"} \union NotSetUp

QueueByPoint ==
    /\ app \in Drained => cyQueue = <<>>
    /\ app \notin NotSetUp \union Closing => queueState = "ready"
    /\ app = "fini.enter" /\ isConnected => queueState = "ready"

\* Where the queue is drained or gone, no message can be on its way to it.
LEMMA NoPutWhenDrained ==
    ASSUME Events, app \in Drained
    PROVE  rx \notin MQ!InFlight
<1>1. app \in Unconnected \ (Opening \union Taking)
  BY DEF Drained, NotSetUp, Unconnected, Opening, Taking, GC!GenPoints
<1> QED
  BY <1>1 DEF Events, Calm, Handled

\* How the application's task moves, apart from the functions before a session.
LEMMA PointKinds ==
    ASSUME ReturnsKnown, [Next]_vars
    PROVE  \/ Generate \/ Generating \/ SdkInit \/ SdkInitCheck \/ SdkInitIdentity
           \/ SdkDeinit \/ SdkDeinitEnter \/ SdkDeinitConfig
           \/ /\ UNCHANGED <<iotcl, configSet>>
              /\ \/ UNCHANGED <<app, queueState>>
                 \/ app \notin NotSetUp \union Partly /\ app' \notin NotSetUp \union InitPoints
                 \/ app \in Closing /\ app' \in Closing \ {"fini.enter"}
              /\ UNCHANGED queueState \/ app' = "fini.config"
              /\ app = "fini.config" => UNCHANGED app
              /\ app' \in Drained => app \in Drained \/ cyQueue = <<>>
<1> USE DEF NotSetUp, Partly, InitPoints, Closing, Drained, QueueStep, ClientStep, SdkStep, sdkVars,
            identityVars, mqVars, MQ!mqVars, GC!GenPoints, HI!IdentityPoints, HI!HttpPoints, AppGoto,
            MQ!AppGoto
<1>1. CASE SdkConnect \/ SdkPollCall \/ SdkDisconnect
  BY <1>1 DEF SdkConnect, SdkPollCall, MQ!ProcessEnter, SdkDisconnect
<1>2. CASE SdkConnected \/ SdkConnectFailed \/ SdkDisconnected
  BY <1>2 DEF SdkConnected, MQ!Register, SdkConnectFailed, SdkDisconnected, ReturnsKnown
<1>3. CASE SdkPoll \/ SdkPollTimeout \/ SdkQualify \/ SdkCallbackDisconnects
  BY <1>3 DEF SdkPoll, SdkPollTimeout, MQ!GetMessage, MQ!GetTimeout, MQ!DispatchTo, SdkQualify,
              SdkCallbackDisconnects
<1>4. CASE SdkDisconnectQueue
  BY <1>4 DEF SdkDisconnectQueue, MQ!FlushOne, MQ!FlushDone, MQ!ClearCallback
<1>5. CASE SdkDeinitQueue
  BY <1>5 DEF SdkDeinitQueue, MQ!FlushOne, MQ!FlushDone, MQ!ClearCallback, MQ!DeleteQueue
<1>6. CASE ClientApp
  BY <1>6, ClientPointsStep DEF ClientApp, ClientPoints, MC!Connecting, MC!Cleaning, ReturnsKnown
<1>7. CASE InboundCall \/ InboundQueue \/ InboundReturn
  <2>1. UNCHANGED queueState
    BY <1>7 DEF InboundCall, InboundQueue, InboundReturn, MQ!NewMessage, MQ!CheckInbound,
                MQ!CreateMessage, MQ!PutMessage, MQ!PutTimeout
  <2> QED
    BY <1>7, <2>1, InboundPointsStep DEF InboundCall, InboundQueue, InboundReturn, RxGoto
<1>8. CASE ClientEvent \/ Broker
  BY <1>8, EventPointsStep DEF ClientEvent, Broker
<1>9. CASE Halt \/ UNCHANGED vars
  BY <1>9 DEF Halt, vars
<1> QED
  BY <1>1, <1>2, <1>3, <1>4, <1>5, <1>6, <1>7, <1>8, <1>9 DEF Next, AppCall, AppStep, RxStep

\* Every step is of a kind that MessageQueueProofs deals with.
LEMMA MessageKinds ==
    ASSUME ReturnsKnown, Events, QueueByPoint, [Next]_vars
    PROVE  MP!MessageStep
<1> USE DEF QueueStep, ClientStep, IdentityStep, GenStep, SdkStep, mqVars, MQ!mqVars, AppGoto,
            MQ!AppGoto, RxGoto, MP!Quiet
<1>1. CASE InboundCall
  <2>1. MP!Arrives
    BY <1>1 DEF InboundCall, MQ!NewMessage, MP!Arrives, MP!NewMessage, MP!InFlight
  <2> QED
    BY <2>1 DEF MP!MessageStep
<1>2. CASE InboundQueue
  <2>1. MQ!CheckInbound => MP!Quiet
    BY DEF MQ!CheckInbound, MQ!RxGoto, MP!InFlight
  <2>2. MQ!CreateMessage => MP!CreateMessage
    BY DEF MQ!CreateMessage, MP!CreateMessage, MQ!RxGoto, MP!RxGoto
  <2>3. MQ!PutMessage => MP!PutMessage
    BY DEF MQ!PutMessage, MP!PutMessage, MQ!RxGoto, MP!RxGoto
  <2>4. MQ!PutTimeout => MP!PutTimeout
    BY DEF MQ!PutTimeout, MP!PutTimeout, MQ!RxGoto, MP!RxGoto
  <2> QED
    BY <1>2, <2>1, <2>2, <2>3, <2>4 DEF InboundQueue, MP!MessageStep
<1>3. CASE InboundReturn
  <2>1. MP!Quiet
    BY <1>3 DEF InboundReturn, MP!InFlight
  <2> QED
    BY <2>1 DEF MP!MessageStep
<1>4. CASE SdkPoll \/ SdkPollTimeout
  <2>1. MQ!GetMessage => MP!GetMessage
    BY DEF MQ!GetMessage, MP!GetMessage, MP!AppGoto
  <2>2. MQ!GetTimeout => MP!Quiet
    BY DEF MQ!GetTimeout
  <2>3. MQ!DispatchTo("poll.get") => MP!DispatchStep
    BY DEF MQ!DispatchTo, MP!DispatchTo, MP!DispatchStep, MP!AppGoto, MQ!NoMsg, MP!NoMsg
  <2> QED
    BY <1>4, <2>1, <2>2, <2>3 DEF SdkPoll, SdkPollTimeout, MP!MessageStep
<1>5. CASE SdkQualify \/ SdkCallbackDisconnects
  <2>1. MP!DispatchStep
    BY <1>5 DEF SdkQualify, SdkCallbackDisconnects, MQ!DispatchTo, MP!DispatchTo, MP!DispatchStep,
                MP!AppGoto, MQ!NoMsg, MP!NoMsg
  <2> QED
    BY <2>1 DEF MP!MessageStep
<1>6. \A at \in {"disc.flush1", "disc.flush2", "fini.flush1"} :
         MQ!FlushOne(at) => MP!FlushStep
  BY DEF MQ!FlushOne, MP!FlushOne, MP!FlushStep, MP!FlushPoints, MP!AppGoto
<1>7. CASE SdkDisconnectQueue
  <2>1. \/ MQ!FlushOne("disc.flush1") \/ MQ!FlushOne("disc.flush2")
        \/ MP!Quiet
    BY <1>7 DEF SdkDisconnectQueue, MQ!FlushDone, MQ!ClearCallback
  <2> QED
    BY <1>6, <2>1 DEF MP!MessageStep
<1>8. CASE SdkDeinitQueue
  <2>1. MQ!DeleteQueue("fini.delete", "fini.config") => MP!EmptyQueue
    BY DEF MQ!DeleteQueue, MP!EmptyQueue, QueueByPoint, Drained
  <2>2. \/ MQ!FlushOne("fini.flush1") \/ MQ!DeleteQueue("fini.delete", "fini.config")
        \/ MP!Quiet
    BY <1>8 DEF SdkDeinitQueue, MQ!FlushDone, MQ!ClearCallback
  <2> QED
    BY <1>6, <2>1, <2>2 DEF MP!MessageStep
<1>9. CASE SdkInit
  <2>1. MP!EmptyQueue
    BY <1>9 DEF SdkInit, MQ!InitQueue, MP!EmptyQueue, QueueByPoint, Drained, NotSetUp
  <2> QED
    BY <2>1 DEF MP!MessageStep
<1>10. CASE \/ Generate \/ SdkInitCheck \/ SdkConnect \/ SdkConnected \/ SdkConnectFailed
            \/ SdkPollCall \/ SdkDisconnect \/ SdkDeinit \/ SdkDeinitEnter \/ SdkDeinitConfig
  <2>1. MP!Quiet
    BY <1>10 DEF Generate, GC!GenCall, GC!AppGoto, SdkInitCheck, SdkConnect, SdkConnected,
       MQ!Register, SdkConnectFailed, SdkPollCall, MQ!ProcessEnter, SdkDisconnect, SdkDeinit,
       SdkDeinitEnter, SdkDeinitConfig
  <2> QED
    BY <2>1 DEF MP!MessageStep
<1>11. CASE Generating \/ SdkInitIdentity \/ SdkDisconnected \/ ClientApp
  <2>1. MP!Quiet
    BY <1>11, GenPointsStep, IdentityPointsStep, ClientPointsStep
       DEF Generating, SdkInitIdentity, SdkDisconnected, ClientApp, ReturnsKnown, GC!GenPoints,
           HI!IdentityPoints, HI!HttpPoints, ClientPoints, MC!Connecting, MC!Cleaning
  <2> QED
    BY <2>1 DEF MP!MessageStep
<1>12. CASE ClientEvent \/ Broker
  <2>1. MP!Quiet
    BY <1>12, EventPointsStep DEF ClientEvent, Broker, MC!Handling, MP!InFlight
  <2> QED
    BY <2>1 DEF MP!MessageStep
<1>13. CASE Halt \/ UNCHANGED vars
  <2>1. MP!Quiet
    BY <1>13 DEF Halt, vars
  <2> QED
    BY <2>1 DEF MP!MessageStep
<1> QED
  BY <1>1, <1>2, <1>3, <1>4, <1>5, <1>7, <1>8, <1>9, <1>10, <1>11, <1>12, <1>13
     DEF Next, AppCall, AppStep, RxStep

\* is_connected is set at one place.
LEMMA ConnectedStep ==
    ASSUME [Next]_vars, ~isConnected, isConnected'
    PROVE  app = "conn.up" /\ app' = "conn.statusCb"
<1> USE DEF QueueStep, IdentityStep, GenStep, SdkStep, clientVars
<1>1. CASE AppCall
  BY <1>1 DEF AppCall, Generate, SdkInit, SdkConnect, SdkPollCall, SdkDisconnect, SdkDeinit
<1>2. CASE SdkPoll \/ SdkPollTimeout \/ SdkQualify \/ SdkCallbackDisconnects
  BY <1>2 DEF SdkPoll, SdkPollTimeout, SdkQualify, SdkCallbackDisconnects
<1>3. CASE \/ SdkInitCheck \/ SdkInitIdentity \/ SdkConnected \/ SdkConnectFailed \/ Generating
           \/ SdkDisconnectQueue \/ SdkDisconnected
  BY <1>3 DEF SdkInitCheck, SdkInitIdentity, SdkConnected, SdkConnectFailed, Generating,
              SdkDisconnectQueue, SdkDisconnected
<1>4. CASE SdkDeinitEnter \/ SdkDeinitQueue \/ SdkDeinitConfig
  BY <1>4 DEF SdkDeinitEnter, SdkDeinitQueue, SdkDeinitConfig
<1>5. CASE InboundCall \/ InboundQueue \/ InboundReturn
  BY <1>5 DEF InboundCall, InboundQueue, InboundReturn
<1>6. CASE ClientEvent \/ Broker
  BY <1>6 DEF ClientEvent, Broker, ClientStep, MC!ClientEvent, MC!LinkLost, MC!DisconnectEvent,
       MC!MessageEvent, MC!EventDisconnected, MC!EventCheckStatusCb, MC!EventNotify,
       MC!MessageCheck, MC!MessageClearRequest, MC!clientVars
<1>7. CASE ClientApp
  <2> USE DEF MC!KeepClientState, MC!clientVars, MC!AppGoto
  <2>1. CASE MC!ClientConnect
    BY <2>1 DEF MC!ClientConnect, MC!ConnectBegin, MC!ConnectInitLibrary, MC!ConnectCreate,
       MC!ConnectRegister, MC!ConnectTry, MC!SubscribeTry, MC!ConnectUp, MC!ConnectSetStatusCb,
       MC!ConnectSetInboundCb
  <2>2. CASE MC!ClientCleanup
    BY <2>2 DEF MC!ClientCleanup, MC!RequestDisconnect, MC!CleanupEnter, MC!CleanupDisconnect,
       MC!CleanupDelete, MC!CleanupDeinit, MC!CleanupClear
  <2> QED
    BY <1>7, <2>1, <2>2 DEF ClientApp, ClientStep
<1>8. CASE Halt \/ UNCHANGED vars
  BY <1>8 DEF Halt, vars
<1> QED
  BY <1>1, <1>2, <1>3, <1>4, <1>5, <1>6, <1>7, <1>8 DEF Next, AppStep, RxStep

LEMMA QueueByPointStep ==
    ASSUME ReturnsKnown, Events, QueueByPoint, [Next]_vars
    PROVE  QueueByPoint'
<1> USE DEF QueueByPoint, NotSetUp, Drained, InitPoints, Closing, GC!GenPoints, HI!IdentityPoints,
            HI!HttpPoints
<1>1. CASE Generate
  BY <1>1 DEF Generate, GenStep, GC!GenCall, GC!AppGoto, mqVars
<1>2. CASE Generating
  BY <1>2, GenPointsStep DEF Generating, GenStep, mqVars
<1>3. CASE SdkInit
  BY <1>3 DEF SdkInit, MQ!InitQueue, MQ!AppGoto
<1>0. app \in NotSetUp \union InitPoints => ~isConnected
  BY DEF Events, Unconnected
<1>4. CASE SdkInitCheck \/ SdkDeinit \/ SdkDeinitEnter
  BY <1>0, <1>4
     DEF SdkInitCheck, SdkDeinit, SdkDeinitEnter, SdkStep, AppGoto, mqVars, clientVars
<1>5. CASE SdkInitIdentity
  BY <1>0, <1>5, IdentityPointsStep DEF SdkInitIdentity, IdentityStep, mqVars, clientVars
<1>6. CASE SdkDeinitConfig
  BY <1>6 DEF SdkDeinitConfig, AppGoto, mqVars
<1>7. CASE /\ \/ UNCHANGED <<app, queueState>>
              \/ app \notin NotSetUp \union Partly /\ app' \notin NotSetUp \union InitPoints
              \/ app \in Closing /\ app' \in Closing \ {"fini.enter"}
           /\ UNCHANGED queueState \/ app' = "fini.config"
           /\ app = "fini.config" => UNCHANGED app
           /\ app' \in Drained => app \in Drained \/ cyQueue = <<>>
  <2>1. app' \in Drained => cyQueue' = <<>>
    <3> SUFFICES ASSUME app' \in Drained PROVE cyQueue' = <<>>
      OBVIOUS
    <3>1. cyQueue = <<>>
      BY <1>7
    <3>2. ~MP!PutMessage
      BY NoPutWhenDrained DEF MP!PutMessage, MP!RxGoto, MQ!InFlight
    <3> QED
      BY <3>1, <3>2, MessageKinds
         DEF MP!MessageStep, MP!Arrives, MP!NewMessage, MP!CreateMessage, MP!PutTimeout,
             MP!GetMessage, MP!DispatchStep, MP!DispatchTo, MP!FlushStep, MP!FlushOne, MP!Quiet,
             MP!EmptyQueue
  <2>2. app' \notin NotSetUp \union Closing => queueState' = "ready"
    BY <1>7 DEF Partly
  <2>3. app' = "fini.enter" /\ isConnected' => queueState' = "ready"
    <3>1. app = "fini.enter" => (isConnected' => isConnected)
      BY ConnectedStep
    <3> QED
      BY <1>7, <3>1 DEF Partly
  <2> QED
    BY <2>1, <2>2, <2>3
<1> QED
  BY <1>1, <1>2, <1>3, <1>4, <1>5, <1>6, <1>7, PointKinds

-----------------------------------------------------------------------------
(* iotconnect_sdk_init() as a whole                                        *)

\* What it undoes never meets a connection.
InitByPoint ==
    /\ InitAllOrNothing
    /\ app \in InitPoints => configSet
    /\ app = "fini.enter" => ~isConnected \/ (iotcl = "configured" /\ configSet)

LEMMA InitByPointStep ==
    ASSUME ReturnsKnown, Events, IdentityInv, InitByPoint, [Next]_vars
    PROVE  InitByPoint'
<1> USE DEF InitByPoint, InitAllOrNothing, InitPoints, Closing, GC!GenPoints,
            HI!IdentityPoints, HI!HttpPoints
<1>0. app \in {"none"} \union InitPoints => ~isConnected
  BY DEF Events, Unconnected
<1>1. CASE Generate
  BY <1>1 DEF Generate, GenStep, GC!GenCall, GC!AppGoto, mqVars, identityVars, sdkVars
<1>2. CASE Generating
  BY <1>2, GenPointsStep DEF Generating, GenStep, mqVars, identityVars, sdkVars
<1>3. CASE SdkInit
  BY <1>3 DEF SdkInit, MQ!InitQueue, MQ!AppGoto, identityVars
<1>4. CASE SdkInitCheck \/ SdkDeinit
  BY <1>0, <1>4 DEF SdkInitCheck, SdkDeinit, SdkStep, AppGoto, sdkVars, identityVars, clientVars
<1>5. CASE SdkInitIdentity
  <2>1. /\ app \in HI!IdentityPoints /\ app' \in HI!IdentityPoints \union {"off", "fini.enter"}
        /\ UNCHANGED <<configSet, isConnected>>
    BY <1>5, IdentityPointsStep DEF SdkInitIdentity, IdentityStep, sdkVars, clientVars
  <2>2. app' = "off" => identityOk /\ UNCHANGED iotcl
    BY <1>5 DEF SdkInitIdentity, IdentityStep, HI!InitLibrary, HI!RunIdentity, HI!DiscoveryUrl,
       HI!HttpsRequest, HI!RequestBegin, HI!RequestCreate, HI!RequestConnect, HI!RequestSend,
       HI!RequestDisconnect, HI!RequestDelete, HI!RequestEnd, HI!Validate, HI!ParseDiscovery,
       HI!Configure, HI!IdentityEnd, HI!AfterRequest, HI!AppGoto
  <2>3. app' = "off" => iotcl' = "configured"
    BY <2>2 DEF IdentityInv, IdentityByPoint
  <2> QED
    BY <1>0, <2>1, <2>3
<1>6. CASE SdkDeinitEnter
  BY <1>6 DEF SdkDeinitEnter, SdkStep, AppGoto, identityVars
<1>7. CASE SdkDeinitConfig
  BY <1>7 DEF SdkDeinitConfig, AppGoto, HI!LibraryOff
<1>8. CASE /\ UNCHANGED <<iotcl, configSet>>
           /\ \/ UNCHANGED <<app, queueState>>
              \/ app \notin NotSetUp \union Partly /\ app' \notin NotSetUp \union InitPoints
              \/ app \in Closing /\ app' \in Closing \ {"fini.enter"}
  <2>1. InitAllOrNothing' /\ (app' \in InitPoints => configSet')
    BY <1>8 DEF NotSetUp, Partly
  <2>2. app = "fini.enter" /\ app' = "fini.enter" => (isConnected' => isConnected)
    BY ConnectedStep
  <2>3. app' = "fini.enter" => ~isConnected' \/ (iotcl' = "configured" /\ configSet')
    BY <1>8, <2>2 DEF NotSetUp, Partly
  <2> QED
    BY <2>1, <2>3
<1> QED
  BY <1>1, <1>2, <1>3, <1>4, <1>5, <1>6, <1>7, <1>8, PointKinds

-----------------------------------------------------------------------------
(* The types of the client and of the queue                                *)

\* The client keeps its own, whoever calls it: what else moves the two tasks
\* leaves it alone, and is nowhere that mqtt_connection is used.
LEMMA ClientPartStep ==
    ASSUME ReturnsKnown, CP!PartInv, [Next]_vars
    PROVE  CP!PartInv'
<1> USE DEF CP!PartInv, CP!ClientTypeOK, CP!ObjectThere, CP!TriesByPoint, CP!SettingUp
<1>1. CASE \/ MC!ClientConnect \/ MC!ClientCleanup
           \/ MC!ClientEvent \/ MC!LinkLost \/ MC!DisconnectEvent \/ MC!MessageEvent
  <2>1. CP!PartStep
    BY <1>1, ClientAppImplements, ClientEventImplements DEF CP!PartStep, ReturnsKnown
  <2> QED
    BY <2>1, CP!PartInvStep, ClientAssumption
<1>2. CASE Inbound
  <2>1. UNCHANGED clientVars /\ UNCHANGED AppOfClient /\ RxOfClient # "idle"
    BY <1>2 DEF Inbound, clientVars, AppOfClient, RxOfClient, Handled, MQ!InFlight
  <2> QED
    BY <2>1 DEF clientVars
<1>3. CASE Plain
  <2>1. UNCHANGED clientVars /\ UNCHANGED RxOfClient
    BY <1>3 DEF Plain, RxOfClient
  <2>2. UNCHANGED AppOfClient \/ {AppOfClient, AppOfClient'} \intersect Elsewhere = {}
    BY <1>3, <2>1 DEF Plain, clientVars, AppOfClient, Elsewhere, WithObject, Opening, Taking
  <2>3. CASE UNCHANGED AppOfClient
    BY <2>1, <2>3 DEF clientVars
  <2>4. CASE {AppOfClient, AppOfClient'} \intersect Elsewhere = {}
    <3>1. AppOfClient \notin Elsewhere /\ AppOfClient' \notin Elsewhere
      BY <2>4
    <3> QED
      BY <2>1, <3>1 DEF clientVars, Elsewhere, WithObject, Opening, Taking
  <2> QED
    BY <2>2, <2>3, <2>4
<1> QED
  BY <1>1, <1>2, <1>3, EventKinds

\* The variables of the queue that hold no message.
QueueFlagsOK == /\ queueState \in {"absent", "ready", "deleted"}
                /\ isInitialized \in BOOLEAN
                /\ clientMsgCb \in BOOLEAN

LEMMA QueueFlagsStep ==
    ASSUME QueueFlagsOK, [Next]_vars
    PROVE  QueueFlagsOK'
<1> USE DEF QueueFlagsOK, QueueStep, ClientStep, IdentityStep, GenStep, SdkStep, mqVars, MQ!mqVars
<1>1. CASE Generate \/ SdkConnect \/ SdkDisconnect \/ SdkDeinit
  BY <1>1 DEF Generate, SdkConnect, SdkDisconnect, SdkDeinit
<1>2. CASE SdkInit
  BY <1>2 DEF SdkInit, MQ!InitQueue
<1>3. CASE SdkConnected \/ SdkPollCall \/ SdkPoll \/ SdkPollTimeout
  BY <1>3 DEF SdkConnected, MQ!Register, SdkPollCall, MQ!ProcessEnter, SdkPoll, MQ!GetMessage,
              MQ!DispatchTo, SdkPollTimeout, MQ!GetTimeout
<1>4. CASE SdkQualify \/ SdkCallbackDisconnects
  BY <1>4 DEF SdkQualify, SdkCallbackDisconnects, MQ!DispatchTo
<1>5. CASE SdkDisconnectQueue
  BY <1>5 DEF SdkDisconnectQueue, MQ!FlushOne, MQ!FlushDone, MQ!ClearCallback
<1>6. CASE SdkDeinitQueue
  BY <1>6 DEF SdkDeinitQueue, MQ!FlushOne, MQ!FlushDone, MQ!ClearCallback, MQ!DeleteQueue
<1>7. CASE \/ Generating \/ SdkInitCheck \/ SdkInitIdentity \/ SdkConnectFailed
           \/ SdkDisconnected \/ SdkDeinitEnter \/ SdkDeinitConfig
  BY <1>7 DEF Generating, SdkInitCheck, SdkInitIdentity, SdkConnectFailed, SdkDisconnected,
              SdkDeinitEnter, SdkDeinitConfig
<1>8. CASE InboundCall \/ InboundQueue \/ InboundReturn
  BY <1>8 DEF InboundCall, MQ!NewMessage, InboundQueue, MQ!CheckInbound, MQ!CreateMessage,
              MQ!PutMessage, MQ!PutTimeout, InboundReturn
<1>9. CASE ClientApp \/ ClientEvent \/ Broker
  BY <1>9 DEF ClientApp, ClientEvent, Broker
<1>10. CASE Halt \/ UNCHANGED vars
  BY <1>10 DEF Halt, vars
<1> QED
  BY <1>1, <1>2, <1>3, <1>4, <1>5, <1>6, <1>7, <1>8, <1>9, <1>10
     DEF Next, AppCall, AppStep, RxStep

-----------------------------------------------------------------------------
(* The theorems                                                            *)

AnyInv == ReturnsKnown /\ Events /\ QueueByPoint /\ MP!Messages /\ MP!Newest

LEMMA AnyInit == Init => AnyInv
<1> SUFFICES ASSUME Init PROVE AnyInv
  OBVIOUS
<1> USE DEF Init
<1>1. ReturnsKnown
  BY DEF ReturnsKnown, MC!ClientInit
<1>2. Events
  BY DEF MC!ClientInit, Events, OneConnection, Calm, Handled, MQ!InFlight, WithObject
<1>3. QueueByPoint
  BY DEF MQ!MqInit, QueueByPoint, NotSetUp, Closing
<1>4. MP!Messages
  <2>1. /\ cyQueue \in Seq(1..MaxMessages) /\ Len(cyQueue) <= Capacity /\ Len(cyQueue) = 0
        /\ MP!Queued = {}
    <3>1. cyQueue = <<>>
      BY DEF MQ!MqInit
    <3> QED
      BY <3>1, MP!NoElements, QueueAssumption DEF MP!Queued
  <2>2. MP!MessagesOK /\ MP!Numbered /\ MP!HeapExact
    BY <2>1, QueueAssumption
       DEF MQ!MqInit, MQ!NoMsg, MP!MessagesOK, MP!Numbered, MP!HeapExact, MP!InFlight
  <2>3. 1..Len(cyQueue) = {}
    BY <2>1
  <2>4. MP!InOrder
    BY <2>1, <2>3 DEF MQ!MqInit, MP!InOrder, MP!InFlight
  <2> QED
    BY <2>2, <2>4 DEF MP!Messages
<1>5. MP!Newest
  BY DEF MP!Newest, MP!InFlight
<1> QED
  BY <1>1, <1>2, <1>3, <1>4, <1>5 DEF AnyInv

LEMMA AnyStep == AnyInv /\ [Next]_vars => AnyInv'
<1> SUFFICES ASSUME AnyInv, [Next]_vars PROVE AnyInv'
  OBVIOUS
<1>1. ReturnsKnown' /\ Events' /\ QueueByPoint'
  BY ReturnsKnownStep, EventsStep, QueueByPointStep DEF AnyInv
<1>2. MP!MessageStep
  BY MessageKinds DEF AnyInv
<1>3. MP!Messages' /\ MP!Newest'
  BY <1>2, MP!MessagesInvStep, MP!NewestStep, QueueAssumption DEF AnyInv
<1> QED
  BY <1>1, <1>3 DEF AnyInv

LEMMA AnyAlways == Spec => []AnyInv
<1> QED
  BY AnyInit, AnyStep, PTL DEF Spec

\* Messages are dispatched in order and at most once across all sessions, also
\* when sessions are lost and connected again over what is left of them.
THEOREM OrderedDelivery == Spec => []InOrder
<1>1. AnyInv => InOrder
  BY DEF AnyInv, MP!Messages, MP!InOrder, MP!InFlight, MP!Queued, InOrder, MQ!InOrder,
         MQ!InFlight, MQ!Queued
<1> QED
  BY AnyAlways, <1>1, PTL

\* The copies that are allocated are those in the queue, the ones the two tasks
\* hold, and the ones that were dispatched, across all sessions.
THEOREM HeapAccount == Spec => []HeapExact
<1>1. AnyInv => HeapExact
  BY DEF AnyInv, MP!Messages, MP!HeapExact, MP!Queued, HeapExact, MQ!HeapExact, MQ!Queued
<1> QED
  BY AnyAlways, <1>1, PTL

\* Whenever the application deinitialises, also after a failed init and a second
\* time, the middleware's task never puts into a FreeRTOS queue that is not there:
\* no event is left that could when iotc_mq_deinit() flushes and deletes it.  Nor
\* is such a queue polled or flushed by a disconnect, and iotc_mq_deinit() itself
\* flushes one only where it was called without a queue.
THEOREM QueueIsThere == Spec => []QueueExists
<1>1. AnyInv => QueueExists
  <2> SUFFICES ASSUME AnyInv PROVE QueueExists
    OBVIOUS
  <2> USE DEF AnyInv, QueueByPoint
  <2>1. rx = "mq.put" => queueState = "ready"
    <3> SUFFICES ASSUME rx = "mq.put" PROVE queueState = "ready"
      OBVIOUS
    <3>1. app \notin Drained
      BY NoPutWhenDrained DEF MQ!InFlight
    <3>2. app \in {"fini.enter", "fini.flush1"} => isConnected
      BY DEF Events, Calm, Handled, MQ!InFlight, Opening, Taking
    <3>3. app # "fini.flush1"
      BY <3>2 DEF Events, Unconnected
    <3> QED
      BY <3>1, <3>2, <3>3 DEF Drained, NotSetUp, Closing
  <2>2. UsesQueue /\ ~Deinitialising => queueState = "ready"
    BY <2>1 DEF UsesQueue, Deinitialising, NotSetUp, Closing, GC!GenPoints
  <2>3. Initialised => queueState = "ready"
    BY DEF Initialised, NotSetUp, Closing, GC!GenPoints, HI!IdentityPoints, HI!HttpPoints
  <2> QED
    BY <2>1, <2>2, <2>3 DEF QueueExists
<1> QED
  BY AnyAlways, <1>1, PTL

\* mqtt_inbound_msg_cb is tested and called without a lock, and is never NULL
\* when it is called.  status_cb may be, where the application reconnects over
\* a lost session.
THEOREM InboundCallbackIsThere == Spec => []InboundTested
<1>1. Init => InboundTested
  BY DEF Init, InboundTested
<1>2. AnyInv /\ InboundTested /\ [Next]_vars => InboundTested'
  BY InboundTestedStep DEF AnyInv
<1> QED
  BY AnyAlways, <1>1, <1>2, PTL DEF Spec

\* iotconnect_sdk_init() leaves a configured library or none, and config either
\* set or cleared, except where it returns early.
THEOREM InitIsWhole == Spec => []InitAllOrNothing
<1>1. Init => InitByPoint
  BY DEF Init, HI!IdentityInit, InitByPoint, InitAllOrNothing, InitPoints, HI!IdentityPoints,
         HI!HttpPoints
<1>2. AnyInv /\ IdentityInv /\ InitByPoint /\ [Next]_vars => InitByPoint'
  BY InitByPointStep DEF AnyInv
<1>3. InitByPoint => InitAllOrNothing
  BY DEF InitByPoint
<1> QED
  BY AnyAlways, BeforeAlways, <1>1, <1>2, <1>3, PTL DEF Spec

\* Every variable of the four parts and of iotconnect.c keeps its type, the loops
\* their limits, and the queue its capacity.
THEOREM TypeCorrect == Spec => []TypeOK
<1> DEFINE Types == /\ PointsOK /\ HI!TypeOK /\ GC!TypeOK /\ SdkTypeOK
                    /\ CP!PartInv /\ QueueFlagsOK
<1>1. Init => Types
  <2> SUFFICES ASSUME Init PROVE Types
    OBVIOUS
  <2>1. CP!PartInv
    BY InitInv, CP!InitPartInv, ClientAssumption
  <2> USE DEF Init
  <2>2. PointsOK
    BY DEF PointsOK, AppPoints, MQ!RxPoints
  <2>3. httpLib \in BOOLEAN /\ httpOk \in BOOLEAN /\ identityOk \in BOOLEAN
    BY DEF HI!HttpInit, HI!IdentityInit
  <2>4. HI!TypeOK
    BY <2>3, HttpRetriesAssumption DEF HI!HttpInit, HI!IdentityInit, HI!TypeOK, HI!Requests
  <2>5. GC!TypeOK
    BY DEF GC!GenInit, GC!TypeOK
  <2>6. SdkTypeOK
    <3>1. configSet \in BOOLEAN /\ halted \in BOOLEAN
      OBVIOUS
    <3>2. 0 \in 0..MaxSessions
      BY SessionsAssumption
    <3> QED
      BY <3>1, <3>2 DEF SdkTypeOK
  <2>7. QueueFlagsOK
    BY DEF MQ!MqInit, QueueFlagsOK
  <2> QED
    BY <2>1, <2>2, <2>4, <2>5, <2>6, <2>7
<1>2. ReturnsKnown /\ IdentityInv /\ Types /\ [Next]_vars => Types'
  BY PointsStep, IdentityTypeStep, GenTypeStep, SdkTypeStep, ClientPartStep, QueueFlagsStep
<1>3. AnyInv /\ Types => TypeOK
  <2>1. CP!ClientTypeOK => MC!ClientTypeOK
    BY DEF CP!ClientTypeOK, MC!ClientTypeOK
  <2>2. MP!MessagesOK /\ QueueFlagsOK => MQ!QueueTypeOK
    BY DEF MP!MessagesOK, QueueFlagsOK, MQ!QueueTypeOK
  <2> QED
    BY <2>1, <2>2
       DEF AnyInv, MP!Messages, CP!PartInv, ReturnsKnown, PointsOK, SdkTypeOK, TypeOK
<1> HIDE DEF Types
<1> QED
  BY AnyAlways, BeforeAlways, <1>1, <1>2, <1>3, PTL DEF Spec

\* Whatever sessions it loses, opens and closes, the SDK is the bounded lossy
\* FIFO that the message queue promises on its own.
THEOREM ImplementsChannel == Spec => ChannelSpec
<1>1. Init => MQ!Channel!Init
  BY DEF Init, MQ!MqInit, MQ!Channel!Init, MQ!InFlight
<1>2. AnyInv /\ [Next]_vars => [MQ!Channel!Next]_(MQ!Channel!channelVars)
  <2> SUFFICES ASSUME AnyInv, [Next]_vars
               PROVE  [MQ!Channel!Next]_(MQ!Channel!channelVars)
    OBVIOUS
  <2>1. MP!MessageStep
    BY MessageKinds DEF AnyInv
  <2>2. [MP!Channel!Next]_(MP!Channel!channelVars)
    BY <2>1, MP!StepImplements, QueueAssumption DEF AnyInv
  <2> QED
    BY <2>2 DEF MP!Channel!Next, MP!Channel!Arrive, MP!Channel!Accept, MP!Channel!Reject,
       MP!Channel!Deliver, MP!Channel!Discard, MP!Channel!channelVars, MQ!Channel!Next,
       MQ!Channel!Arrive, MQ!Channel!Accept, MQ!Channel!Reject, MQ!Channel!Deliver,
       MQ!Channel!Discard, MQ!Channel!channelVars, MP!InFlight, MQ!InFlight
<1> QED
  BY AnyAlways, <1>1, <1>2, PTL DEF Spec, ChannelSpec, MQ!ChannelSpec, MQ!Channel!Spec
=============================================================================
