----------------------------- MODULE MqttClient -----------------------------
(***************************************************************************)
(* The MQTT client, src/source/iotc_mqtt_client.c, above the functions     *)
(* of the MQTT middleware (named cy_mqtt_), which are external.            *)
(*                                                                         *)
(* The application task connects and cleans up; the middleware's task runs *)
(* mqtt_event_callback().  They share five static variables and no lock.   *)
(* The first part holds the functions, one action for each step that the   *)
(* other task can see; SdkSession composes them with the message queue.    *)
(* The second part closes the module with an application that connects and *)
(* disconnects.                                                            *)
(***************************************************************************)
EXTENDS Threads, Naturals

CONSTANTS Handles,              \* the middleware's table of MQTT objects
          NoHandle,             \* NULL
          MaxConnRetries,       \* IOTC_MAX_MQTT_CONN_RETRIES
          MaxSubscribeRetries,  \* MAX_SUBSCRIBE_RETRIES
          ReconnectsDirectly    \* may the application connect after a loss
                                \* without disconnecting first?

ASSUME HandlesAssumption == NoHandle \notin Handles
ASSUME RetriesAssumption == /\ MaxConnRetries \in Nat \ {0}
                            /\ MaxSubscribeRetries \in Nat \ {0}
ASSUME ReconnectsAssumption == ReconnectsDirectly \in BOOLEAN

VARIABLES mqttConnection,         \* mqtt_connection
          isConnected,            \* is_connected
          isDisconnectRequested,  \* is_disconnect_requested
          isMqttInitialized,      \* is_mqtt_initialized
          inboundCb,              \* mqtt_inbound_msg_cb # NULL
          statusCb,               \* status_cb # NULL
          tries,                  \* retry_count of the loop app is in
          cleanupTo,              \* where iotc_cleanup_mqtt() returns to
          cleanupOk,              \* its ret is CY_RSLT_SUCCESS
          cleanupFailed           \* history: a step of the last cleanup failed

clientVars == <<mqttConnection, isConnected, isDisconnectRequested,
                isMqttInitialized, inboundCb, statusCb, tries,
                cleanupTo, cleanupOk, cleanupFailed>>

VARIABLES handles,     \* middleware: the objects that exist
          link,        \* middleware: those connected to the broker
          subscribed,  \* middleware: those whose subscription was accepted
          lost,        \* middleware: those whose DISCONNECT event is to come
          rxHandle,    \* mqtt_handle of the event being handled
          notified     \* history: those whose loss status_cb has been told

mwVars == <<handles, link, subscribed, lost, rxHandle, notified>>

vars == <<app, rx, clientVars, mwVars>>

ClientInit == /\ mqttConnection = NoHandle
              /\ isConnected = FALSE
              /\ isDisconnectRequested = FALSE
              /\ isMqttInitialized = FALSE
              /\ inboundCb = FALSE
              /\ statusCb = FALSE
              /\ tries = 0
              /\ cleanupTo = "conn.failed"
              /\ cleanupOk = TRUE
              /\ cleanupFailed = FALSE
              /\ handles = {}
              /\ link = {}
              /\ subscribed = {}
              /\ lost = {}
              /\ rxHandle = NoHandle
              /\ notified = {}

-----------------------------------------------------------------------------
(* The broker and the network.                                             *)

\* A connection breaks; the middleware will report it.
LinkLost ==
    /\ \E h \in link : link' = link \ {h} /\ lost' = lost \union {h}
    /\ UNCHANGED <<app, rx, clientVars, handles, subscribed, rxHandle, notified>>

-----------------------------------------------------------------------------
(* mqtt_event_callback(), on the middleware's task, one event at a time.   *)

\* CY_MQTT_EVENT_TYPE_DISCONNECT
DisconnectEvent ==
    /\ RxGoto("idle", "ev.disc")
    /\ \E h \in lost : rxHandle' = h /\ lost' = lost \ {h}
    /\ UNCHANGED <<clientVars, handles, link, subscribed, notified>>

\* Mutant of EventDisconnected: the flag is not written.
EventIgnored ==
    /\ RxGoto("ev.disc", "ev.check")
    /\ UNCHANGED <<clientVars, mwVars>>

EventDisconnected ==
    /\ RxGoto("ev.disc", "ev.check")
    /\ isConnected' = FALSE
    /\ UNCHANGED <<mqttConnection, isDisconnectRequested, isMqttInitialized,
                   inboundCb, statusCb, tries, cleanupTo, cleanupOk,
                   cleanupFailed, mwVars>>

EventCheckStatusCb ==
    /\ RxGoto("ev.check", IF statusCb THEN "ev.notify" ELSE "idle")
    /\ UNCHANGED <<clientVars, mwVars>>

\* status_cb(IOTC_CS_MQTT_DISCONNECTED): the variable is read a second time,
\* and what it calls must be there.
EventNotify ==
    /\ RxGoto("ev.notify", "idle")
    /\ statusCb
    /\ notified' = notified \union {rxHandle}
    /\ UNCHANGED <<clientVars, handles, link, subscribed, lost, rxHandle>>

\* CY_MQTT_EVENT_TYPE_SUBSCRIPTION_MESSAGE_RECEIVE
MessageEvent ==
    /\ RxGoto("idle", "msg.check")
    /\ \E h \in link \intersect subscribed : rxHandle' = h
    /\ UNCHANGED <<clientVars, handles, link, subscribed, lost, notified>>

\* The copy of the topic may fail, and the function breaks out early.
MessageCheck ==
    /\ IF inboundCb /\ ~isDisconnectRequested
       THEN RxGoto("msg.check", "msg.call") \/ RxGoto("msg.check", "idle")
       ELSE RxGoto("msg.check", "msg.clear")
    /\ UNCHANGED <<clientVars, mwVars>>

\* After mqtt_inbound_msg_cb(), or instead of it.
MessageClearRequest ==
    /\ RxGoto("msg.clear", "idle")
    /\ isDisconnectRequested' = FALSE
    /\ UNCHANGED <<mqttConnection, isConnected, isMqttInitialized, inboundCb,
                   statusCb, tries, cleanupTo, cleanupOk, cleanupFailed, mwVars>>

-----------------------------------------------------------------------------
(* iotc_cleanup_mqtt(), on the application task.                           *)

\* A call of iotc_cleanup_mqtt() that is to return to a program point.
Cleanup(at, to) ==
    /\ AppGoto(at, "cl.down")
    /\ cleanupTo' = to
    /\ tries' = 0

\* The next part of the cleanup: the handle, then the library, then the callbacks.
AfterHandle == IF isMqttInitialized THEN "cl.deinit" ELSE "cl.clear"

\* ret = ret == CY_RSLT_SUCCESS ? result : CY_RSLT_SUCCESS
Merge(ok) == /\ cleanupOk' = (cleanupOk => ok)
             /\ cleanupFailed' = (cleanupFailed \/ ~ok)

\* Mutant of CleanupEnter: the callbacks go first.
CleanupEnterClears ==
    /\ AppGoto("cl.down", IF mqttConnection # NoHandle THEN "cl.disconnect" ELSE AfterHandle)
    /\ isConnected' = FALSE
    /\ inboundCb' = FALSE
    /\ statusCb' = FALSE
    /\ cleanupOk' = TRUE
    /\ cleanupFailed' = FALSE
    /\ UNCHANGED <<mqttConnection, isDisconnectRequested, isMqttInitialized,
                   tries, cleanupTo, mwVars>>

CleanupEnter ==
    /\ AppGoto("cl.down", IF mqttConnection # NoHandle THEN "cl.disconnect" ELSE AfterHandle)
    /\ isConnected' = FALSE
    /\ cleanupOk' = TRUE
    /\ cleanupFailed' = FALSE
    /\ UNCHANGED <<mqttConnection, isDisconnectRequested, isMqttInitialized,
                   inboundCb, statusCb, tries, cleanupTo, mwVars>>

\* Mutant of CleanupDisconnect: a failure is retried until it is none.
CleanupDisconnectRetries ==
    /\ \/ /\ AppGoto("cl.disconnect", "cl.delete")
          /\ link' = link \ {mqttConnection}
          /\ UNCHANGED <<isDisconnectRequested, cleanupOk, cleanupFailed>>
       \/ /\ AppGoto("cl.disconnect", "cl.disconnect")
          /\ isDisconnectRequested' = FALSE
          /\ Merge(FALSE)
          /\ UNCHANGED link
    /\ UNCHANGED <<mqttConnection, isConnected, isMqttInitialized, inboundCb,
                   statusCb, tries, cleanupTo, handles, subscribed, lost,
                   rxHandle, notified>>

\* cy_mqtt_disconnect()
CleanupDisconnect ==
    /\ AppGoto("cl.disconnect", "cl.delete")
    /\ \/ /\ link' = link \ {mqttConnection}
          /\ UNCHANGED <<isDisconnectRequested, cleanupOk, cleanupFailed>>
       \/ /\ isDisconnectRequested' = FALSE
          /\ Merge(FALSE)
          /\ UNCHANGED link
    /\ UNCHANGED <<mqttConnection, isConnected, isMqttInitialized, inboundCb,
                   statusCb, tries, cleanupTo, handles, subscribed, lost,
                   rxHandle, notified>>

\* cy_mqtt_delete() waits for a callback of the handle to return, and whatever
\* it returns the object is gone: the code relies on both when it then clears
\* mqtt_connection and the callbacks.
CleanupDelete ==
    /\ AppGoto("cl.delete", AfterHandle)
    /\ rx = "idle" \/ rxHandle # mqttConnection
    /\ \E ok \in BOOLEAN : Merge(ok)
    /\ handles' = handles \ {mqttConnection}
    /\ link' = link \ {mqttConnection}
    /\ subscribed' = subscribed \ {mqttConnection}
    /\ lost' = lost \ {mqttConnection}
    /\ mqttConnection' = NoHandle
    /\ UNCHANGED <<isConnected, isDisconnectRequested, isMqttInitialized,
                   inboundCb, statusCb, tries, cleanupTo, rxHandle, notified>>

\* cy_mqtt_deinit()
CleanupDeinit ==
    /\ AppGoto("cl.deinit", "cl.clear")
    /\ isMqttInitialized' = FALSE
    /\ \E ok \in BOOLEAN : Merge(ok)
    /\ UNCHANGED <<mqttConnection, isConnected, isDisconnectRequested,
                   inboundCb, statusCb, tries, cleanupTo, mwVars>>

\* Mutant of CleanupClear: only one of the callbacks is forgotten.
CleanupClearsInboundOnly ==
    /\ AppGoto("cl.clear", cleanupTo)
    /\ inboundCb' = FALSE
    /\ UNCHANGED <<mqttConnection, isConnected, isDisconnectRequested,
                   isMqttInitialized, statusCb, tries, cleanupTo, cleanupOk,
                   cleanupFailed, mwVars>>

\* The callbacks go, and ret is returned; here nothing more depends on it, nor
\* on what called.
CleanupClear ==
    /\ AppGoto("cl.clear", cleanupTo)
    /\ inboundCb' = FALSE
    /\ statusCb' = FALSE
    /\ cleanupTo' = "conn.failed"
    /\ cleanupOk' = TRUE
    /\ cleanupFailed' = FALSE
    /\ UNCHANGED <<mqttConnection, isConnected, isDisconnectRequested,
                   isMqttInitialized, tries, mwVars>>

\* iotc_mqtt_client_disconnect(), up to its call of iotc_cleanup_mqtt().
RequestDisconnect ==
    /\ Cleanup("disc.request", "disc.done")
    /\ isDisconnectRequested' = TRUE
    /\ UNCHANGED <<mqttConnection, isConnected, isMqttInitialized, inboundCb,
                   statusCb, cleanupOk, cleanupFailed, mwVars>>

-----------------------------------------------------------------------------
(* iotc_mqtt_client_init(), on the application task.                       *)

\* What the steps of the set up leave alone unless they fail.
KeepClientState == UNCHANGED <<isConnected, isDisconnectRequested, inboundCb,
                               statusCb, cleanupOk, cleanupFailed>>

\* Mutant of ConnectBegin: is_disconnect_requested keeps its value.
ConnectBeginDeaf ==
    /\ AppGoto("conn.enter", "conn.mwinit")
    /\ statusCb' = FALSE
    /\ isConnected' = FALSE
    /\ UNCHANGED <<mqttConnection, isDisconnectRequested, isMqttInitialized,
                   inboundCb, tries, cleanupTo, cleanupOk, cleanupFailed, mwVars>>

\* Without an MQTT configuration the function returns at once.  The statement
\* that clears mqtt_inbound_msg_cb belongs to an "if" with no body of its own
\* and runs only when the configuration has no topic to subscribe to.
ConnectBegin ==
    \/ /\ AppGoto("conn.enter", "conn.failed")
       /\ UNCHANGED <<clientVars, mwVars>>
    \/ /\ AppGoto("conn.enter", "conn.mwinit")
       /\ statusCb' = FALSE
       /\ isConnected' = FALSE
       /\ isDisconnectRequested' = FALSE
       /\ UNCHANGED <<mqttConnection, isMqttInitialized, inboundCb, tries,
                      cleanupTo, cleanupOk, cleanupFailed, mwVars>>

\* cy_mqtt_init()
ConnectInitLibrary ==
    /\ \/ /\ AppGoto("conn.mwinit", "conn.create")
          /\ isMqttInitialized' = TRUE
          /\ UNCHANGED <<tries, cleanupTo>>
       \/ /\ Cleanup("conn.mwinit", "conn.failed")
          /\ UNCHANGED isMqttInitialized
    /\ KeepClientState
    /\ UNCHANGED <<mqttConnection, mwVars>>

\* cy_mqtt_create(): a new object in a free entry of the table, if there is one.
ConnectCreate ==
    /\ \/ /\ AppGoto("conn.create", "conn.register")
          /\ \E h \in Handles \ handles :
                /\ mqttConnection' = h
                /\ handles' = handles \union {h}
                /\ notified' = notified \ {h}
          /\ UNCHANGED <<tries, cleanupTo>>
       \/ /\ Cleanup("conn.create", "conn.failed")
          /\ UNCHANGED <<mqttConnection, handles, notified>>
    /\ KeepClientState
    /\ UNCHANGED <<isMqttInitialized, link, subscribed, lost, rxHandle>>

\* cy_mqtt_register_event_callback()
ConnectRegister ==
    /\ \/ /\ AppGoto("conn.register", "conn.connect")
          /\ UNCHANGED <<tries, cleanupTo>>
       \/ Cleanup("conn.register", "conn.failed")
    /\ KeepClientState
    /\ UNCHANGED <<mqttConnection, isMqttInitialized, mwVars>>

\* Mutant of ConnectTry: one attempt too many.
ConnectTryOnceMore ==
    /\ \/ /\ AppGoto("conn.connect", "conn.subscribe")
          /\ link' = link \union {mqttConnection}
          /\ tries' = 0
          /\ UNCHANGED cleanupTo
       \/ /\ tries + 1 <= MaxConnRetries
          /\ AppGoto("conn.connect", "conn.connect")
          /\ tries' = tries + 1
          /\ UNCHANGED <<link, cleanupTo>>
    /\ KeepClientState
    /\ UNCHANGED <<mqttConnection, isMqttInitialized, handles, subscribed,
                   lost, rxHandle, notified>>

\* One turn of the loop of mqtt_connect().
ConnectTry ==
    /\ \/ /\ AppGoto("conn.connect", "conn.subscribe")
          /\ link' = link \union {mqttConnection}
          /\ tries' = 0
          /\ UNCHANGED cleanupTo
       \/ /\ tries + 1 < MaxConnRetries
          /\ AppGoto("conn.connect", "conn.connect")
          /\ tries' = tries + 1
          /\ UNCHANGED <<link, cleanupTo>>
       \/ /\ tries + 1 = MaxConnRetries
          /\ Cleanup("conn.connect", "conn.failed")
          /\ UNCHANGED link
    /\ KeepClientState
    /\ UNCHANGED <<mqttConnection, isMqttInitialized, handles, subscribed,
                   lost, rxHandle, notified>>

\* Mutants of SubscribeTry: a failure is not counted; the last failure returns
\* without the cleanup.
SubscribeTryUncounted ==
    /\ \/ /\ AppGoto("conn.subscribe", "conn.up")
          /\ mqttConnection \in link
          /\ subscribed' = subscribed \union {mqttConnection}
       \/ /\ AppGoto("conn.subscribe", "conn.subscribe")
          /\ UNCHANGED subscribed
    /\ KeepClientState
    /\ UNCHANGED <<mqttConnection, isMqttInitialized, tries, cleanupTo,
                   handles, link, lost, rxHandle, notified>>

SubscribeTryNoCleanup ==
    /\ \/ /\ AppGoto("conn.subscribe", "conn.up")
          /\ subscribed' = subscribed \union {mqttConnection}
       \/ /\ AppGoto("conn.subscribe", "conn.failed")
          /\ UNCHANGED subscribed
    /\ KeepClientState
    /\ UNCHANGED <<mqttConnection, isMqttInitialized, tries, cleanupTo,
                   handles, link, lost, rxHandle, notified>>

\* One turn of the loop of mqtt_subscribe().
SubscribeTry ==
    /\ \/ /\ AppGoto("conn.subscribe", "conn.up")
          /\ mqttConnection \in link
          /\ subscribed' = subscribed \union {mqttConnection}
          /\ tries' = 0
          /\ UNCHANGED cleanupTo
       \/ /\ tries + 1 < MaxSubscribeRetries
          /\ AppGoto("conn.subscribe", "conn.subscribe")
          /\ tries' = tries + 1
          /\ UNCHANGED <<subscribed, cleanupTo>>
       \/ /\ tries + 1 = MaxSubscribeRetries
          /\ Cleanup("conn.subscribe", "conn.failed")
          /\ UNCHANGED subscribed
    /\ KeepClientState
    /\ UNCHANGED <<mqttConnection, isMqttInitialized, handles, link, lost,
                   rxHandle, notified>>

\* is_connected = true, whatever happened since the broker accepted the
\* subscription.
ConnectUp ==
    /\ AppGoto("conn.up", "conn.statusCb")
    /\ isConnected' = TRUE
    /\ UNCHANGED <<mqttConnection, isDisconnectRequested, isMqttInitialized,
                   inboundCb, statusCb, tries, cleanupTo, cleanupOk,
                   cleanupFailed, mwVars>>

\* Mutant of ConnectSetStatusCb: the application's callback is not installed.
ConnectNoStatusCb ==
    /\ AppGoto("conn.statusCb", "conn.inboundCb")
    /\ UNCHANGED <<clientVars, mwVars>>

ConnectSetStatusCb ==
    /\ AppGoto("conn.statusCb", "conn.inboundCb")
    /\ statusCb' = TRUE
    /\ UNCHANGED <<mqttConnection, isConnected, isDisconnectRequested,
                   isMqttInitialized, inboundCb, tries, cleanupTo, cleanupOk,
                   cleanupFailed, mwVars>>

ConnectSetInboundCb ==
    /\ AppGoto("conn.inboundCb", "conn.ok")
    /\ inboundCb' = TRUE
    /\ UNCHANGED <<mqttConnection, isConnected, isDisconnectRequested,
                   isMqttInitialized, statusCb, tries, cleanupTo, cleanupOk,
                   cleanupFailed, mwVars>>

ClientConnect == \/ ConnectBegin \/ ConnectInitLibrary \/ ConnectCreate
                 \/ ConnectRegister \/ ConnectTry \/ SubscribeTry
                 \/ ConnectUp \/ ConnectSetStatusCb \/ ConnectSetInboundCb

ClientCleanup == \/ RequestDisconnect \/ CleanupEnter \/ CleanupDisconnect
                 \/ CleanupDelete \/ CleanupDeinit \/ CleanupClear

ClientEvent == \/ EventDisconnected \/ EventCheckStatusCb \/ EventNotify
               \/ MessageCheck \/ MessageClearRequest

-----------------------------------------------------------------------------
(* The module on its own.  The application task is "off" without an MQTT   *)
(* session and "idle" within one, which it may have lost.                  *)

Init == app = "off" /\ rx = "idle" /\ ClientInit

ConnectCall ==
    /\ \/ AppGoto("off", "conn.enter")
       \/ ReconnectsDirectly /\ ~isConnected /\ AppGoto("idle", "conn.enter")
    /\ UNCHANGED <<clientVars, mwVars>>

ConnectReturn == /\ AppGoto("conn.ok", "idle") \/ AppGoto("conn.failed", "off")
                 /\ UNCHANGED <<clientVars, mwVars>>

DisconnectCall == /\ \E at \in {"idle", "off"} : AppGoto(at, "disc.request")
                  /\ UNCHANGED <<clientVars, mwVars>>

DisconnectReturn == AppGoto("disc.done", "off") /\ UNCHANGED <<clientVars, mwVars>>

\* mqtt_inbound_msg_cb(), here without what the message queue does.
MessageCall == RxGoto("msg.call", "msg.clear") /\ UNCHANGED <<clientVars, mwVars>>

AppStep == ClientConnect \/ ClientCleanup \/ ConnectReturn \/ DisconnectReturn
RxStep == ClientEvent \/ MessageCall

Next == \/ ConnectCall \/ DisconnectCall \/ AppStep
        \/ LinkLost \/ DisconnectEvent \/ MessageEvent \/ RxStep

\* Both tasks run.  Messages may keep the middleware's task busy, so that
\* cy_mqtt_delete() can proceed again and again without proceeding for good:
\* it waits for a lock, and the lock's queue is fair.
Fairness == /\ WF_vars(AppStep) /\ SF_vars(CleanupDelete)
            /\ WF_vars(RxStep)
            /\ WF_vars(DisconnectEvent)

Spec == Init /\ [][Next]_vars /\ Fairness

-----------------------------------------------------------------------------
(* What is checked of the module on its own.                               *)

Connecting == {"conn.enter", "conn.mwinit", "conn.create", "conn.register",
               "conn.connect", "conn.subscribe", "conn.up", "conn.statusCb",
               "conn.inboundCb", "conn.ok", "conn.failed"}
Cleaning == {"disc.request", "cl.down", "cl.disconnect", "cl.delete",
             "cl.deinit", "cl.clear", "disc.done"}
Handling == {"ev.disc", "ev.check", "ev.notify", "msg.check", "msg.call", "msg.clear"}

\* The variables of iotc_mqtt_client.c and of the middleware have their types,
\* the loops stay within their limits, and the middleware refers to no object
\* that it has deleted.
ClientTypeOK == /\ mqttConnection \in Handles \union {NoHandle}
                /\ isConnected \in BOOLEAN
                /\ isDisconnectRequested \in BOOLEAN
                /\ isMqttInitialized \in BOOLEAN
                /\ inboundCb \in BOOLEAN
                /\ statusCb \in BOOLEAN
                /\ tries \in Nat
                /\ tries < MaxConnRetries \/ tries < MaxSubscribeRetries
                /\ cleanupTo \in {"conn.failed", "disc.done"}
                /\ cleanupOk \in BOOLEAN
                /\ cleanupFailed \in BOOLEAN
                /\ handles \subseteq Handles
                /\ link \subseteq handles
                /\ subscribed \subseteq handles
                /\ lost \subseteq handles
                /\ rxHandle \in Handles \union {NoHandle}
                /\ notified \subseteq Handles

\* Every variable has its type: those above, which hold the limits of the retry
\* loops, and the program points of the two tasks.
TypeOK == /\ app \in {"off", "idle"} \union Connecting \union Cleaning
          /\ rx \in {"idle"} \union Handling
          /\ ClientTypeOK

\* The callback reads status_cb and mqtt_inbound_msg_cb once to test them and
\* once to call them, without a lock: what it calls is never NULL.
NoNullCallback == /\ rx = "ev.notify" => statusCb
                  /\ rx = "msg.call" => inboundCb

\* However iotc_mqtt_client_init() fails, and whatever fails in the cleanup,
\* nothing of the session is left when control is back with the application:
\* no object in the middleware, no callback, no flag, no event being handled.
NothingLeftBehind ==
    app = "off" => /\ handles = {} /\ mqttConnection = NoHandle
                   /\ ~isMqttInitialized /\ ~isConnected
                   /\ ~inboundCb /\ ~statusCb
                   /\ rx = "idle"

\* An established session is complete: mqtt_connection is the one object of
\* the middleware, it is subscribed, both callbacks are in place, and no
\* disconnect request of an earlier session makes it drop a message.
SessionComplete ==
    app = "idle" => /\ handles = {mqttConnection} /\ subscribed = handles
                    /\ isMqttInitialized /\ inboundCb /\ statusCb
                    /\ ~isDisconnectRequested

\* What makes these inductive when the application does not reconnect over a
\* lost session: the program point tells whether there is an object, and the
\* middleware's task can only be handling an event of that object.  A cleanup
\* after a failed set up meets no callback for messages.
NoObject == {"off", "conn.enter", "conn.mwinit", "conn.create", "conn.failed",
             "disc.done", "cl.deinit", "cl.clear"}
Settled == {"conn.ok", "idle"}
SettingUp == {"conn.register", "conn.connect", "conn.subscribe", "conn.up",
              "conn.statusCb", "conn.inboundCb"}

ObjectByPoint ==
    /\ handles = {mqttConnection} \ {NoHandle}
    /\ app \in NoObject => mqttConnection = NoHandle
    /\ app \in SettingUp \union Settled \union {"cl.disconnect", "cl.delete"}
          => mqttConnection # NoHandle
    /\ rx # "idle" => mqttConnection # NoHandle /\ rxHandle = mqttConnection
    /\ app \in {"conn.up", "conn.statusCb", "conn.inboundCb"} \union Settled
          => subscribed = {mqttConnection}

CallbacksByPoint ==
    /\ app \in (NoObject \ {"cl.deinit", "cl.clear"}) \union (SettingUp \ {"conn.inboundCb"})
          => ~statusCb
    /\ app \in (NoObject \ {"cl.deinit", "cl.clear"}) \union SettingUp => ~inboundCb
    /\ app \in Cleaning \ {"disc.request"} /\ cleanupTo = "conn.failed" => ~inboundCb
    /\ app \in {"conn.inboundCb"} \union Settled => statusCb
    /\ app \in Settled => inboundCb

FlagsByPoint ==
    /\ app \in NoObject \ {"conn.create", "cl.deinit"} => ~isMqttInitialized
    /\ app \in {"conn.create"} \union SettingUp \union Settled => isMqttInitialized
    /\ app \in NoObject \union (SettingUp \ {"conn.statusCb", "conn.inboundCb"})
                     \union {"cl.disconnect", "cl.delete"}
          => ~isConnected
    /\ app \in {"conn.mwinit", "conn.create"} \union SettingUp \union Settled
          => ~isDisconnectRequested

TriesByPoint ==
    /\ app = "conn.connect" => tries < MaxConnRetries
    /\ app = "conn.subscribe" => tries < MaxSubscribeRetries
    /\ app \notin {"conn.connect", "conn.subscribe"} => tries = 0

IInv == /\ TypeOK
        /\ ObjectByPoint
        /\ CallbacksByPoint
        /\ FlagsByPoint
        /\ TriesByPoint
        /\ NoNullCallback

\* iotc_cleanup_mqtt() does what its comment says, not to overwrite the oldest
\* failure: the application is told of a failed disconnect.
FailureIsReported ==
    app = "cl.clear" /\ cleanupTo = "disc.done" /\ cleanupFailed => ~cleanupOk

\* An application that was told of a connection and stays in the session is
\* told of its loss: is_connected goes and status_cb is called.
LossIsNoticed ==
    \A h \in Handles :
        (app = "idle" /\ h \in lost) ~> (app # "idle" \/ (~isConnected /\ h \in notified))

\* iotc_mqtt_client_init() returns whatever fails, and so does
\* iotc_mqtt_client_disconnect(), whatever the middleware's task is doing.
CallsReturn == (app \in Connecting \union Cleaning) ~> (app \in {"off", "idle"})
=============================================================================
