-------------------------- MODULE MqttClientProofs --------------------------
(***************************************************************************)
(* MqttClient for any number of middleware objects and any retry limits.   *)
(* For any application, its types, and that mqtt_connection never names an *)
(* object that is gone.  When the application does not reconnect over a    *)
(* lost session, IInv is inductive: no callback is NULL when it is called, *)
(* nothing is left behind without a session, and a session is complete.    *)
(*                                                                         *)
(* One lemma for each part of IInv, with one case for each group of the    *)
(* steps of Next that write the same variables.                            *)
(***************************************************************************)
EXTENDS MqttClient, TLAPS

\* Objects may be left behind, but mqtt_connection names one that exists, and
\* so do the steps that hand it to the middleware.
ObjectThere == /\ mqttConnection \in handles \union {NoHandle}
               /\ app \in SettingUp \union {"cl.disconnect", "cl.delete"}
                     => mqttConnection # NoHandle
               /\ rx # "idle" => rxHandle \in Handles

LEMMA MergeType ==
    ASSUME NEW ok \in BOOLEAN, Merge(ok)
    PROVE  cleanupOk' \in BOOLEAN /\ cleanupFailed' \in BOOLEAN
  BY DEF Merge

\* The steps of iotc_mqtt_client.c and of the middleware, whatever application
\* calls them.  The types hold of them alone.
PartStep == \/ ClientConnect \/ ClientCleanup \/ ClientEvent
            \/ LinkLost \/ DisconnectEvent \/ MessageEvent

PartInv == ClientTypeOK /\ ObjectThere /\ TriesByPoint

\* Every variable of the client keeps its type.
LEMMA ClientTypeStep ==
    ASSUME PartInv, PartStep
    PROVE  ClientTypeOK'
<1> USE HandlesAssumption, RetriesAssumption
        DEF PartInv, ClientTypeOK, clientVars, mwVars,
            AppGoto, RxGoto, Cleanup, AfterHandle, KeepClientState
<1>0. ClientTypeOK
  OBVIOUS
<1>1. CASE ConnectBegin
  <2>1. statusCb' \in BOOLEAN /\ isConnected' \in BOOLEAN /\ isDisconnectRequested' \in BOOLEAN
    BY <1>0, <1>1 DEF ConnectBegin
  <2> QED
    BY <1>0, <1>1, <2>1 DEF ConnectBegin
<1>2. CASE ConnectInitLibrary
  <2>1. isMqttInitialized' \in BOOLEAN
    BY <1>0, <1>2 DEF ConnectInitLibrary
  <2> QED
    BY <1>0, <1>2, <2>1 DEF ConnectInitLibrary
<1>3. CASE ConnectCreate
  BY <1>0, <1>3 DEF ConnectCreate
<1>4. CASE ConnectRegister
  BY <1>0, <1>4 DEF ConnectRegister
<1>5. CASE ConnectTry
  BY <1>0, <1>5 DEF ConnectTry, ObjectThere, TriesByPoint, SettingUp
<1>6. CASE SubscribeTry
  BY <1>0, <1>6 DEF SubscribeTry, TriesByPoint
<1>7. CASE ConnectUp
  BY <1>0, <1>7 DEF ConnectUp
<1>8. CASE ConnectSetStatusCb
  BY <1>0, <1>8 DEF ConnectSetStatusCb
<1>9. CASE ConnectSetInboundCb
  BY <1>0, <1>9 DEF ConnectSetInboundCb
<1>10. CASE RequestDisconnect
  BY <1>0, <1>10 DEF RequestDisconnect
<1>11. CASE CleanupEnter
  BY <1>0, <1>11 DEF CleanupEnter
<1>12. CASE CleanupDisconnect
  <2>1. cleanupOk' \in BOOLEAN /\ cleanupFailed' \in BOOLEAN /\ isDisconnectRequested' \in BOOLEAN
    BY <1>0, <1>12, MergeType DEF CleanupDisconnect
  <2>2. link' \subseteq handles
    BY <1>0, <1>12 DEF CleanupDisconnect
  <2> QED
    BY <1>0, <1>12, <2>1, <2>2 DEF CleanupDisconnect
<1>13. CASE CleanupDelete
  <2>1. cleanupOk' \in BOOLEAN /\ cleanupFailed' \in BOOLEAN
    BY <1>0, <1>13, MergeType DEF CleanupDelete
  <2> QED
    BY <1>0, <1>13, <2>1 DEF CleanupDelete
<1>14. CASE CleanupDeinit
  <2>1. cleanupOk' \in BOOLEAN /\ cleanupFailed' \in BOOLEAN
    BY <1>0, <1>14, MergeType DEF CleanupDeinit
  <2> QED
    BY <1>0, <1>14, <2>1 DEF CleanupDeinit
<1>15. CASE CleanupClear
  BY <1>0, <1>15 DEF CleanupClear
<1>16. CASE LinkLost
  BY <1>0, <1>16 DEF LinkLost
<1>17. CASE DisconnectEvent
  BY <1>0, <1>17 DEF DisconnectEvent
<1>18. CASE MessageEvent
  BY <1>0, <1>18 DEF MessageEvent
<1>19. CASE EventDisconnected
  <2>1. isConnected' \in BOOLEAN
    BY <1>19 DEF EventDisconnected
  <2> QED
    BY <1>0, <1>19, <2>1 DEF EventDisconnected
<1>20. CASE EventCheckStatusCb
  BY <1>0, <1>20 DEF EventCheckStatusCb
<1>21. CASE EventNotify
  BY <1>0, <1>21 DEF EventNotify, ObjectThere
<1>22. CASE MessageCheck
  BY <1>0, <1>22 DEF MessageCheck
<1>23. CASE MessageClearRequest
  <2>1. isDisconnectRequested' \in BOOLEAN
    BY <1>23 DEF MessageClearRequest
  <2> QED
    BY <1>0, <1>23, <2>1 DEF MessageClearRequest
<1> QED
  BY <1>1, <1>2, <1>3, <1>4, <1>5, <1>6, <1>7, <1>8, <1>9,
     <1>10, <1>11, <1>12, <1>13, <1>14, <1>15, <1>16, <1>17,
     <1>18, <1>19, <1>20, <1>21, <1>22, <1>23
     DEF PartStep, ClientConnect, ClientCleanup, ClientEvent

\* cy_mqtt_delete() takes the name together with the object.
LEMMA ObjectThereStep ==
    ASSUME PartInv, PartStep
    PROVE  ObjectThere'
<1> USE HandlesAssumption
        DEF PartInv, ClientTypeOK, ObjectThere, SettingUp,
            clientVars, mwVars, AppGoto, RxGoto, Cleanup, AfterHandle, KeepClientState
<1>1. CASE ConnectBegin \/ ConnectInitLibrary \/ ConnectCreate \/ ConnectRegister
  BY <1>1 DEF ConnectBegin, ConnectInitLibrary, ConnectCreate, ConnectRegister
<1>2. CASE ConnectTry \/ SubscribeTry
  BY <1>2 DEF ConnectTry, SubscribeTry
<1>3. CASE ConnectUp \/ ConnectSetStatusCb \/ ConnectSetInboundCb
  BY <1>3 DEF ConnectUp, ConnectSetStatusCb, ConnectSetInboundCb
<1>4. CASE ClientCleanup
  BY <1>4 DEF ClientCleanup, RequestDisconnect, CleanupEnter, CleanupDisconnect,
              CleanupDelete, CleanupDeinit, CleanupClear
<1>5. CASE ClientEvent
  BY <1>5 DEF ClientEvent, EventDisconnected, EventCheckStatusCb, EventNotify, MessageCheck,
              MessageClearRequest
<1>6. CASE LinkLost \/ DisconnectEvent \/ MessageEvent
  BY <1>6 DEF LinkLost, DisconnectEvent, MessageEvent
<1> QED
  BY <1>1, <1>2, <1>3, <1>4, <1>5, <1>6 DEF PartStep, ClientConnect

\* The loops count from zero to their limits.
LEMMA TriesStep ==
    ASSUME PartInv, PartStep
    PROVE  TriesByPoint'
<1> USE HandlesAssumption, RetriesAssumption
        DEF PartInv, ClientTypeOK, TriesByPoint,
            clientVars, mwVars, AppGoto, RxGoto, Cleanup, AfterHandle, Merge, KeepClientState
<1>1. CASE ConnectBegin \/ ConnectInitLibrary \/ ConnectCreate \/ ConnectRegister
  BY <1>1 DEF ConnectBegin, ConnectInitLibrary, ConnectCreate, ConnectRegister
<1>2. CASE ConnectTry \/ SubscribeTry
  BY <1>2 DEF ConnectTry, SubscribeTry
<1>3. CASE ConnectUp \/ ConnectSetStatusCb \/ ConnectSetInboundCb
  BY <1>3 DEF ConnectUp, ConnectSetStatusCb, ConnectSetInboundCb
<1>4. CASE RequestDisconnect \/ CleanupEnter \/ CleanupDeinit \/ CleanupClear
  BY <1>4 DEF RequestDisconnect, CleanupEnter, CleanupDeinit, CleanupClear
<1>5. CASE CleanupDisconnect
  BY <1>5 DEF CleanupDisconnect
<1>6. CASE CleanupDelete
  BY <1>6 DEF CleanupDelete
<1>7. CASE EventDisconnected \/ EventCheckStatusCb \/ EventNotify
  BY <1>7 DEF EventDisconnected, EventCheckStatusCb, EventNotify
<1>8. CASE MessageCheck \/ MessageClearRequest
  BY <1>8 DEF MessageCheck, MessageClearRequest
<1>9. CASE LinkLost \/ DisconnectEvent \/ MessageEvent
  BY <1>9 DEF LinkLost, DisconnectEvent, MessageEvent
<1> QED
  BY <1>1, <1>2, <1>3, <1>4, <1>5, <1>6, <1>7, <1>8, <1>9
     DEF PartStep, ClientConnect, ClientCleanup, ClientEvent

LEMMA PartInvStep ==
    ASSUME PartInv, PartStep
    PROVE  PartInv'
  BY ClientTypeStep, ObjectThereStep, TriesStep DEF PartInv

\* The calls and returns of the module's own application leave the client alone.
LEMMA CallStep ==
    ASSUME PartInv,
           \/ ConnectCall \/ ConnectReturn \/ DisconnectCall \/ DisconnectReturn
           \/ MessageCall
    PROVE  PartInv'
<1> USE DEF PartInv, ClientTypeOK, ObjectThere, TriesByPoint, SettingUp,
            clientVars, mwVars, AppGoto, RxGoto
<1>1. CASE ConnectCall \/ ConnectReturn
  BY <1>1 DEF ConnectCall, ConnectReturn
<1>2. CASE DisconnectCall \/ DisconnectReturn
  BY <1>2 DEF DisconnectCall, DisconnectReturn
<1>3. CASE MessageCall
  BY <1>3 DEF MessageCall
<1> QED
  BY <1>1, <1>2, <1>3

\* So do all variables, in the module on its own.
LEMMA TypeStep ==
    ASSUME TypeOK, PartInv, Next
    PROVE  TypeOK' /\ PartInv'
<1>1. PartInv'
  BY PartInvStep, CallStep DEF PartStep, Next, AppStep, RxStep
<1> USE DEF TypeOK, Connecting, Cleaning, Handling, clientVars, mwVars, AppGoto, RxGoto,
            Cleanup, AfterHandle
<1>2. CASE ClientConnect
  BY <1>1, <1>2 DEF PartInv, ClientConnect, ConnectBegin, ConnectInitLibrary, ConnectCreate,
     ConnectRegister, ConnectTry, SubscribeTry, ConnectUp, ConnectSetStatusCb, ConnectSetInboundCb
<1>3. CASE ClientCleanup
  BY <1>1, <1>3 DEF PartInv, ClientCleanup, RequestDisconnect, CleanupEnter, CleanupDisconnect,
     CleanupDelete, CleanupDeinit, CleanupClear, ClientTypeOK
<1>4. CASE ConnectCall \/ ConnectReturn \/ DisconnectCall \/ DisconnectReturn
  BY <1>1, <1>4 DEF PartInv, ConnectCall, ConnectReturn, DisconnectCall, DisconnectReturn
<1>5. CASE ClientEvent \/ MessageCall
  BY <1>1, <1>5 DEF PartInv, ClientEvent, EventDisconnected, EventCheckStatusCb, EventNotify,
     MessageCheck, MessageClearRequest, MessageCall
<1>6. CASE LinkLost \/ DisconnectEvent \/ MessageEvent
  BY <1>1, <1>6 DEF PartInv, LinkLost, DisconnectEvent, MessageEvent
<1> QED
  BY <1>1, <1>2, <1>3, <1>4, <1>5, <1>6 DEF Next, AppStep, RxStep

\* The program point tells whether there is an object, and that it is the one
\* whose event the middleware's task is handling.
LEMMA ObjectStep ==
    ASSUME IInv, Next, ReconnectsDirectly = FALSE
    PROVE  ObjectByPoint'
<1> USE HandlesAssumption, RetriesAssumption
        DEF IInv, TypeOK, ClientTypeOK, ObjectByPoint, CallbacksByPoint, FlagsByPoint, TriesByPoint, NoNullCallback,
            NoObject, Settled, SettingUp, Connecting, Cleaning, Handling,
            clientVars, mwVars, AppGoto, RxGoto, Cleanup, AfterHandle, Merge, KeepClientState
<1>1. CASE ConnectBegin \/ ConnectInitLibrary \/ ConnectCreate \/ ConnectRegister
  BY <1>1 DEF ConnectBegin, ConnectInitLibrary, ConnectCreate, ConnectRegister
<1>2. CASE ConnectTry \/ SubscribeTry
  BY <1>2 DEF ConnectTry, SubscribeTry
<1>3. CASE ConnectUp \/ ConnectSetStatusCb \/ ConnectSetInboundCb
  BY <1>3 DEF ConnectUp, ConnectSetStatusCb, ConnectSetInboundCb
<1>4. CASE RequestDisconnect \/ CleanupEnter \/ CleanupDeinit \/ CleanupClear
  BY <1>4 DEF RequestDisconnect, CleanupEnter, CleanupDeinit, CleanupClear
<1>5. CASE CleanupDisconnect
  BY <1>5 DEF CleanupDisconnect
<1>6. CASE CleanupDelete
  BY <1>6 DEF CleanupDelete
<1>7. CASE ConnectCall \/ ConnectReturn \/ DisconnectCall \/ DisconnectReturn
  BY <1>7 DEF ConnectCall, ConnectReturn, DisconnectCall, DisconnectReturn
<1>8. CASE EventDisconnected \/ EventCheckStatusCb \/ EventNotify
  BY <1>8 DEF EventDisconnected, EventCheckStatusCb, EventNotify
<1>9. CASE MessageCheck \/ MessageCall \/ MessageClearRequest
  BY <1>9 DEF MessageCheck, MessageCall, MessageClearRequest
<1>10. CASE LinkLost \/ DisconnectEvent \/ MessageEvent
  BY <1>10 DEF LinkLost, DisconnectEvent, MessageEvent
<1> QED
  BY <1>1, <1>2, <1>3, <1>4, <1>5, <1>6, <1>7, <1>8, <1>9, <1>10
     DEF Next, AppStep, RxStep, ClientConnect, ClientCleanup, ClientEvent

\* The program point tells which callbacks are in place.
LEMMA CallbacksStep ==
    ASSUME IInv, Next, ReconnectsDirectly = FALSE
    PROVE  CallbacksByPoint'
<1> USE HandlesAssumption, RetriesAssumption
        DEF IInv, TypeOK, ClientTypeOK, ObjectByPoint, CallbacksByPoint, FlagsByPoint, TriesByPoint, NoNullCallback,
            NoObject, Settled, SettingUp, Connecting, Cleaning, Handling,
            clientVars, mwVars, AppGoto, RxGoto, Cleanup, AfterHandle, Merge, KeepClientState
<1>1. CASE ConnectBegin \/ ConnectInitLibrary \/ ConnectCreate \/ ConnectRegister
  BY <1>1 DEF ConnectBegin, ConnectInitLibrary, ConnectCreate, ConnectRegister
<1>2. CASE ConnectTry \/ SubscribeTry
  BY <1>2 DEF ConnectTry, SubscribeTry
<1>3. CASE ConnectUp \/ ConnectSetStatusCb \/ ConnectSetInboundCb
  BY <1>3 DEF ConnectUp, ConnectSetStatusCb, ConnectSetInboundCb
<1>4. CASE RequestDisconnect \/ CleanupEnter \/ CleanupDeinit \/ CleanupClear
  BY <1>4 DEF RequestDisconnect, CleanupEnter, CleanupDeinit, CleanupClear
<1>5. CASE CleanupDisconnect
  BY <1>5 DEF CleanupDisconnect
<1>6. CASE CleanupDelete
  BY <1>6 DEF CleanupDelete
<1>7. CASE ConnectCall \/ ConnectReturn \/ DisconnectCall \/ DisconnectReturn
  BY <1>7 DEF ConnectCall, ConnectReturn, DisconnectCall, DisconnectReturn
<1>8. CASE EventDisconnected \/ EventCheckStatusCb \/ EventNotify
  BY <1>8 DEF EventDisconnected, EventCheckStatusCb, EventNotify
<1>9. CASE MessageCheck \/ MessageCall \/ MessageClearRequest
  BY <1>9 DEF MessageCheck, MessageCall, MessageClearRequest
<1>10. CASE LinkLost \/ DisconnectEvent \/ MessageEvent
  BY <1>10 DEF LinkLost, DisconnectEvent, MessageEvent
<1> QED
  BY <1>1, <1>2, <1>3, <1>4, <1>5, <1>6, <1>7, <1>8, <1>9, <1>10
     DEF Next, AppStep, RxStep, ClientConnect, ClientCleanup, ClientEvent

\* The program point tells the flags.
LEMMA FlagsStep ==
    ASSUME IInv, Next, ReconnectsDirectly = FALSE
    PROVE  FlagsByPoint'
<1> USE HandlesAssumption, RetriesAssumption
        DEF IInv, TypeOK, ClientTypeOK, ObjectByPoint, CallbacksByPoint, FlagsByPoint, TriesByPoint, NoNullCallback,
            NoObject, Settled, SettingUp, Connecting, Cleaning, Handling,
            clientVars, mwVars, AppGoto, RxGoto, Cleanup, AfterHandle, Merge, KeepClientState
<1>1. CASE ConnectBegin \/ ConnectInitLibrary \/ ConnectCreate \/ ConnectRegister
  BY <1>1 DEF ConnectBegin, ConnectInitLibrary, ConnectCreate, ConnectRegister
<1>2. CASE ConnectTry \/ SubscribeTry
  BY <1>2 DEF ConnectTry, SubscribeTry
<1>3. CASE ConnectUp \/ ConnectSetStatusCb \/ ConnectSetInboundCb
  BY <1>3 DEF ConnectUp, ConnectSetStatusCb, ConnectSetInboundCb
<1>4. CASE RequestDisconnect \/ CleanupEnter \/ CleanupDeinit \/ CleanupClear
  BY <1>4 DEF RequestDisconnect, CleanupEnter, CleanupDeinit, CleanupClear
<1>5. CASE CleanupDisconnect
  BY <1>5 DEF CleanupDisconnect
<1>6. CASE CleanupDelete
  BY <1>6 DEF CleanupDelete
<1>7. CASE ConnectCall \/ ConnectReturn \/ DisconnectCall \/ DisconnectReturn
  BY <1>7 DEF ConnectCall, ConnectReturn, DisconnectCall, DisconnectReturn
<1>8. CASE EventDisconnected \/ EventCheckStatusCb \/ EventNotify
  BY <1>8 DEF EventDisconnected, EventCheckStatusCb, EventNotify
<1>9. CASE MessageCheck \/ MessageCall \/ MessageClearRequest
  BY <1>9 DEF MessageCheck, MessageCall, MessageClearRequest
<1>10. CASE LinkLost \/ DisconnectEvent \/ MessageEvent
  BY <1>10 DEF LinkLost, DisconnectEvent, MessageEvent
<1> QED
  BY <1>1, <1>2, <1>3, <1>4, <1>5, <1>6, <1>7, <1>8, <1>9, <1>10
     DEF Next, AppStep, RxStep, ClientConnect, ClientCleanup, ClientEvent

\* A callback that was tested is still there when it is called: the statement
\* that clears it runs when there is no object, and so no event being handled.
LEMMA CallbackStep ==
    ASSUME IInv, Next, ReconnectsDirectly = FALSE
    PROVE  NoNullCallback'
<1> USE HandlesAssumption, RetriesAssumption
        DEF IInv, TypeOK, ClientTypeOK, ObjectByPoint, CallbacksByPoint, FlagsByPoint, TriesByPoint, NoNullCallback,
            NoObject, Settled, SettingUp, Connecting, Cleaning, Handling,
            clientVars, mwVars, AppGoto, RxGoto, Cleanup, AfterHandle, Merge, KeepClientState
<1>1. CASE ConnectBegin \/ ConnectInitLibrary \/ ConnectCreate \/ ConnectRegister
  BY <1>1 DEF ConnectBegin, ConnectInitLibrary, ConnectCreate, ConnectRegister
<1>2. CASE ConnectTry \/ SubscribeTry
  BY <1>2 DEF ConnectTry, SubscribeTry
<1>3. CASE ConnectUp \/ ConnectSetStatusCb \/ ConnectSetInboundCb
  BY <1>3 DEF ConnectUp, ConnectSetStatusCb, ConnectSetInboundCb
<1>4. CASE RequestDisconnect \/ CleanupEnter \/ CleanupDeinit \/ CleanupClear
  BY <1>4 DEF RequestDisconnect, CleanupEnter, CleanupDeinit, CleanupClear
<1>5. CASE CleanupDisconnect
  BY <1>5 DEF CleanupDisconnect
<1>6. CASE CleanupDelete
  BY <1>6 DEF CleanupDelete
<1>7. CASE ConnectCall \/ ConnectReturn \/ DisconnectCall \/ DisconnectReturn
  BY <1>7 DEF ConnectCall, ConnectReturn, DisconnectCall, DisconnectReturn
<1>8. CASE EventDisconnected \/ EventCheckStatusCb \/ EventNotify
  BY <1>8 DEF EventDisconnected, EventCheckStatusCb, EventNotify
<1>9. CASE MessageCheck \/ MessageCall \/ MessageClearRequest
  BY <1>9 DEF MessageCheck, MessageCall, MessageClearRequest
<1>10. CASE LinkLost \/ DisconnectEvent \/ MessageEvent
  BY <1>10 DEF LinkLost, DisconnectEvent, MessageEvent
<1> QED
  BY <1>1, <1>2, <1>3, <1>4, <1>5, <1>6, <1>7, <1>8, <1>9, <1>10
     DEF Next, AppStep, RxStep, ClientConnect, ClientCleanup, ClientEvent

-----------------------------------------------------------------------------
(* The theorems.                                                           *)

LEMMA InitIInv == Init => IInv
<1> SUFFICES ASSUME Init PROVE IInv
  OBVIOUS
<1>1. TypeOK
  <2>1. tries = 0 /\ tries < MaxConnRetries
    BY RetriesAssumption DEF Init, ClientInit
  <2>2. /\ isConnected \in BOOLEAN /\ isDisconnectRequested \in BOOLEAN
        /\ isMqttInitialized \in BOOLEAN /\ inboundCb \in BOOLEAN /\ statusCb \in BOOLEAN
        /\ cleanupOk \in BOOLEAN /\ cleanupFailed \in BOOLEAN
    BY DEF Init, ClientInit
  <2>3. /\ handles = {} /\ link = {} /\ subscribed = {} /\ lost = {} /\ notified = {}
        /\ mqttConnection = NoHandle /\ rxHandle = NoHandle
        /\ cleanupTo = "conn.failed" /\ app = "off" /\ rx = "idle"
    BY DEF Init, ClientInit
  <2> QED
    BY <2>1, <2>2, <2>3 DEF TypeOK, ClientTypeOK
<1>2. ObjectByPoint /\ TriesByPoint /\ NoNullCallback
  BY HandlesAssumption
     DEF Init, ClientInit, ObjectByPoint, TriesByPoint, NoNullCallback, SettingUp, Settled
<1>3. CallbacksByPoint /\ FlagsByPoint
  BY DEF Init, ClientInit, CallbacksByPoint, FlagsByPoint, NoObject, SettingUp, Settled
<1> QED
  BY <1>1, <1>2, <1>3 DEF IInv

LEMMA InitPartInv == Init => PartInv
<1>1. Init => ObjectThere
  BY DEF Init, ClientInit, ObjectThere, SettingUp
<1> QED
  BY <1>1, InitIInv DEF IInv, TypeOK, PartInv

LEMMA StepIInv == ASSUME ReconnectsDirectly = FALSE
                  PROVE  IInv /\ [Next]_vars => IInv'
<1>1. ASSUME IInv, Next PROVE IInv'
  <2>1. PartInv
    BY <1>1 DEF IInv, TypeOK, ClientTypeOK, ObjectByPoint, ObjectThere, PartInv
  <2> QED
    BY <1>1, <2>1, TypeStep, ObjectStep, CallbacksStep, FlagsStep, CallbackStep
       DEF IInv, PartInv
<1>2. ASSUME IInv, UNCHANGED vars PROVE IInv'
  BY <1>2 DEF vars, clientVars, mwVars, IInv, TypeOK, ClientTypeOK, ObjectByPoint, CallbacksByPoint,
              FlagsByPoint, TriesByPoint, NoNullCallback
<1> QED
  BY <1>1, <1>2

\* Every variable keeps its type, and no loop goes past its limit, also when
\* the application reconnects over a lost session.
THEOREM TypeCorrect == Spec => []TypeOK
<1> DEFINE Types == TypeOK /\ PartInv
<1>1. Init => Types
  BY InitPartInv, InitIInv DEF IInv
<1>2. Types /\ [Next]_vars => Types'
  <2>1. ASSUME Types, Next PROVE Types'
    BY <2>1, TypeStep
  <2>2. ASSUME Types, UNCHANGED vars PROVE Types'
    BY <2>2 DEF vars, clientVars, mwVars, TypeOK, ClientTypeOK, PartInv, ObjectThere, TriesByPoint
  <2> QED
    BY <2>1, <2>2
<1> QED
  BY <1>1, <1>2, PTL DEF Spec

\* status_cb and mqtt_inbound_msg_cb are tested and called without a lock, and
\* yet neither is NULL when it is called.
THEOREM CallbacksAreThere == ASSUME ReconnectsDirectly = FALSE
                             PROVE  Spec => []NoNullCallback
<1>1. IInv => NoNullCallback
  BY DEF IInv
<1> QED
  BY InitIInv, StepIInv, <1>1, PTL DEF Spec

\* Whatever failed, in iotc_mqtt_client_init() or in the cleanup, nothing of
\* the session remains when control is back with the application.
THEOREM CleanWithoutSession == ASSUME ReconnectsDirectly = FALSE
                               PROVE  Spec => []NothingLeftBehind
<1>1. IInv => NothingLeftBehind
  BY DEF IInv, ObjectByPoint, CallbacksByPoint, FlagsByPoint, NothingLeftBehind, NoObject
<1> QED
  BY InitIInv, StepIInv, <1>1, PTL DEF Spec

\* A session that iotc_mqtt_client_init() reports is subscribed, has both its
\* callbacks, is the only object, and is not deaf to messages.
THEOREM SessionsAreComplete == ASSUME ReconnectsDirectly = FALSE
                               PROVE  Spec => []SessionComplete
<1>1. IInv => SessionComplete
  BY DEF IInv, ObjectByPoint, CallbacksByPoint, FlagsByPoint, SessionComplete, Settled, SettingUp
<1> QED
  BY InitIInv, StepIInv, <1>1, PTL DEF Spec
=============================================================================
