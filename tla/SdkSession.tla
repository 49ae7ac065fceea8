---------------------------- MODULE SdkSession ------------------------------
(***************************************************************************)
(* The SDK's session, src/source/iotconnect.c: the message queue, the      *)
(* MQTT client and the identity of the device composed, under the public   *)
(* API of iotconnect.h, after the generation of credentials.               *)
(*                                                                         *)
(* The application task is at "none" before iotconnect_sdk_init() and      *)
(* after iotconnect_sdk_deinit(), at "off" when it is initialised without  *)
(* a session, and at "idle" within a session, which may have been lost.    *)
(* The middleware's task enters the message queue through the MQTT         *)
(* client's callback.  The modules share app and rx.                       *)
(***************************************************************************)
EXTENDS Threads, Naturals, Sequences, FiniteSets

CONSTANTS Capacity, MaxMessages,
          Handles, NoHandle, MaxConnRetries, MaxSubscribeRetries,
          MaxHttpRetries,
          ReconnectsDirectly,  \* may the application connect or deinitialise
                               \* after a loss without disconnecting first?
          CallbackDisconnects, \* may the application disconnect in a callback?
          DeinitsUninitialised, \* may it deinitialise after an
                               \* iotconnect_sdk_init() that failed, or twice?
          Qualification,       \* built with IOTC_AWS_DEVICE_QUALIFICATION?
          MaxSessions          \* bound on the calls of iotconnect_sdk_connect(),
                               \* and with it on iotconnect_sdk_init()

ASSUME QueueAssumption == Capacity \in Nat \ {0} /\ MaxMessages \in Nat
ASSUME ClientAssumption == /\ NoHandle \notin Handles
                           /\ MaxConnRetries \in Nat \ {0}
                           /\ MaxSubscribeRetries \in Nat \ {0}
                           /\ ReconnectsDirectly \in BOOLEAN
ASSUME SessionsAssumption == MaxSessions \in Nat
ASSUME QualificationAssumption == Qualification \in BOOLEAN
ASSUME CallbackAssumption == CallbackDisconnects \in BOOLEAN
ASSUME DeinitAssumption == DeinitsUninitialised \in BOOLEAN
ASSUME HttpRetriesAssumption == MaxHttpRetries \in Nat \ {0}

VARIABLES cyQueue, queueState, isInitialized, clientMsgCb, heap,
          rxMsg, appMsg, received, delivered

VARIABLES mqttConnection, isConnected, isDisconnectRequested,
          isMqttInitialized, inboundCb, statusCb, tries, cleanupTo,
          cleanupOk, cleanupFailed,
          handles, link, subscribed, lost, rxHandle, notified

VARIABLES httpLib, httpObject, httpTries, httpOk, data,
          request, identityOk, urls, bodies, iotcl, answered

VARIABLES contexts, genOk, pems

VARIABLES configSet,  \* config holds the application's configuration
          discTo,     \* where iotconnect_sdk_disconnect() returns to
          session,    \* history: how many calls of iotconnect_sdk_connect()
          born        \* history: the session in which each message arrived

VARIABLE halted       \* the program has jumped to NULL, or worse

MQ == INSTANCE MessageQueue
MC == INSTANCE MqttClient
HI == INSTANCE HttpIdentity
GC == INSTANCE GenCert

mqVars == <<cyQueue, queueState, isInitialized, clientMsgCb, heap,
            rxMsg, appMsg, received, delivered>>
clientVars == <<mqttConnection, isConnected, isDisconnectRequested,
                isMqttInitialized, inboundCb, statusCb, tries, cleanupTo,
                cleanupOk, cleanupFailed,
                handles, link, subscribed, lost, rxHandle, notified>>
identityVars == <<httpLib, httpObject, httpTries, httpOk, data,
                  request, identityOk, urls, bodies, iotcl, answered>>
genVars == <<contexts, genOk, pems>>
sdkVars == <<configSet, discTo, session, born>>

vars == <<app, rx, mqVars, clientVars, identityVars, genVars, sdkVars, halted>>

Init == /\ app = "none" /\ rx = "idle"
        /\ MQ!MqInit
        /\ MC!ClientInit
        /\ HI!HttpInit /\ HI!IdentityInit
        /\ GC!GenInit
        /\ configSet = FALSE
        /\ discTo = "off"
        /\ session = 0
        /\ born = [m \in 1..MaxMessages |-> 0]
        /\ halted = FALSE

-----------------------------------------------------------------------------
(* Actions of the components, which leave the others' variables alone.  No *)
(* task takes a step in a program that has halted.                         *)

Running == ~halted /\ UNCHANGED halted

QueueStep(A) == Running /\ A /\ UNCHANGED <<clientVars, identityVars, genVars, sdkVars>>
ClientStep(A) == Running /\ A /\ UNCHANGED <<mqVars, identityVars, genVars, sdkVars>>
IdentityStep(A) == Running /\ A /\ UNCHANGED <<mqVars, clientVars, genVars, sdkVars>>
GenStep(A) == Running /\ A /\ UNCHANGED <<mqVars, clientVars, identityVars, sdkVars>>
SdkStep(A) == Running /\ A /\ UNCHANGED <<mqVars, clientVars, identityVars, genVars>>

\* A task is about to call through a callback that is NULL by now.  The third,
\* mqtt_inbound_msg_cb, is always there when it is called.
CallsNull == \/ app = "poll.dispatch" /\ ~clientMsgCb
             \/ rx = "ev.notify" /\ ~statusCb

\* A task is about to take from cy_queue or to put into it.
UsesQueue ==
    \/ rx = "mq.put"
    \/ app \in {"poll.get", "disc.flush1", "disc.flush2", "fini.flush1", "fini.flush2"}

\* A jump to NULL stops the program.  What FreeRTOS does with a queue that was
\* not created, or is deleted, is undefined: it may stop the program, or return
\* an error, which is as if the queue were empty.
Halt == /\ ~halted
        /\ CallsNull \/ (UsesQueue /\ queueState # "ready")
        /\ halted' = TRUE
        /\ UNCHANGED <<app, rx, mqVars, clientVars, identityVars, genVars, sdkVars>>

-----------------------------------------------------------------------------
(* iotc_x509_generate_credentials(), before the SDK is initialised.        *)

Generate == GenStep(session = 0 /\ ~isInitialized /\ GC!GenCall("none"))

Generating == GenStep(GC!GenStep \/ GC!GenReturn("none"))

-----------------------------------------------------------------------------
(* iotconnect_sdk_init()                                                   *)

\* The queue first.  If that fails the function returns, and config and its
\* three strings stay.  Past the bound on sessions it always fails.
SdkInit ==
    \E ok \in BOOLEAN :
       /\ Running
       /\ ok => session < MaxSessions
       /\ MQ!InitQueue("none", ok, IF ok THEN "init.check" ELSE "none")
       /\ configSet' = TRUE
       /\ UNCHANGED <<clientVars, identityVars, genVars, discTo, session, born>>

\* Mutant of SdkInitCheck: it returns without iotconnect_sdk_deinit().
SdkInitCheckReturns ==
    SdkStep(/\ \E to \in {"init.library", "none"} : AppGoto("init.check", to)
            /\ UNCHANGED sdkVars)

\* A string is missing or the connection type unknown, and all is undone.
SdkInitCheck ==
    SdkStep(/\ \E to \in {"init.library", "fini.enter"} : AppGoto("init.check", to)
            /\ UNCHANGED sdkVars)

\* iotcl_init(), then the identity, or all is undone.
SdkInitIdentity ==
    IdentityStep(HI!InitLibrary \/ HI!RunIdentity("off", "fini.enter"))

-----------------------------------------------------------------------------
(* iotconnect_sdk_connect()                                                *)

SdkConnect ==
    SdkStep(/\ session < MaxSessions
            /\ ~isConnected
            /\ \/ AppGoto("off", "conn.enter")
               \/ ReconnectsDirectly /\ AppGoto("idle", "conn.enter")
            /\ session' = session + 1
            /\ UNCHANGED <<configSet, discTo, born>>)

\* Connected: the last step is to register on_mqtt_mq_message().
SdkConnected == QueueStep(MQ!Register("conn.ok", "idle"))

\* Mutant of SdkConnectFailed: the result is not looked at.
SdkConnectUnchecked == QueueStep(MQ!Register("conn.failed", "idle"))

SdkConnectFailed == SdkStep(AppGoto("conn.failed", "off") /\ UNCHANGED sdkVars)

-----------------------------------------------------------------------------
(* iotconnect_sdk_poll_inbound_mq()                                        *)

\* Without a session too: client_msg_cb may still be set where a loss was
\* followed by an iotconnect_sdk_connect() that failed.  Such a poll returns to
\* "idle", from where that application may call all that it may from "off".
SdkPollCall == \E at \in {"idle", "off"} : QueueStep(MQ!ProcessEnter(at))

SdkPoll == QueueStep(MQ!GetMessage) \/ QueueStep(MQ!DispatchTo("poll.get"))

SdkPollTimeout == QueueStep(MQ!GetTimeout)

\* on_command_intercept(): the message is the command to start the
\* qualification.  iotc_qualification_start() disconnects and never returns;
\* it goes on to connect, poll and disconnect as any application may.
SdkQualify ==
    /\ Running
    /\ Qualification
    /\ MQ!DispatchTo("disc.flush1")
    /\ discTo' = "off"
    /\ UNCHANGED <<clientVars, identityVars, genVars, configSet, session, born>>

\* A callback of the application disconnects, and then returns to the loop of
\* iotc_mq_process().
SdkCallbackDisconnects ==
    /\ Running
    /\ CallbackDisconnects
    /\ MQ!DispatchTo("disc.flush1")
    /\ discTo' = "poll.get"
    /\ UNCHANGED <<clientVars, identityVars, genVars, configSet, session, born>>

-----------------------------------------------------------------------------
(* iotconnect_sdk_disconnect()                                             *)

SdkDisconnect ==
    SdkStep(/\ \E at \in {"idle", "off"} : AppGoto(at, "disc.flush1")
            /\ discTo' = "off"
            /\ UNCHANGED <<configSet, session, born>>)

\* Mutant of SdkDisconnectQueue: the session is closed before the queue is.
SdkDisconnectNoQueue ==
    QueueStep(MQ!FlushDone("disc.flush1", "disc.request"))

\* iotc_mq_deregister() and iotc_mq_flush()
SdkDisconnectQueue ==
    \/ QueueStep(MQ!FlushOne("disc.flush1"))
    \/ QueueStep(MQ!FlushDone("disc.flush1", "disc.clear"))
    \/ QueueStep(MQ!ClearCallback("disc.clear", "disc.flush2"))
    \/ QueueStep(MQ!FlushOne("disc.flush2"))
    \/ QueueStep(MQ!FlushDone("disc.flush2", "disc.request"))

SdkDisconnected ==
    SdkStep(/\ AppGoto("disc.done", discTo)
            /\ discTo' = "off"
            /\ UNCHANGED <<configSet, session, born>>)

-----------------------------------------------------------------------------
(* iotconnect_sdk_deinit()                                                 *)

\* With a session or without one; and, if the application does not look at the
\* result of iotconnect_sdk_init() or calls it twice, also when there is no queue.
SdkDeinit ==
    SdkStep(/\ \/ AppGoto("off", "fini.enter")
               \/ ReconnectsDirectly /\ AppGoto("idle", "fini.enter")
               \/ /\ DeinitsUninitialised
                  /\ isInitialized \/ queueState # "absent"
                  /\ AppGoto("none", "fini.enter")
            /\ UNCHANGED sdkVars)

\* Mutant of SdkDeinitEnter: it never disconnects.
SdkDeinitEnterSkipsDisconnect ==
    SdkStep(/\ AppGoto("fini.enter", "fini.flush1")
            /\ discTo' = "fini.flush1"
            /\ UNCHANGED <<configSet, session, born>>)

\* It disconnects if is_connected says that there is a connection.
SdkDeinitEnter ==
    SdkStep(/\ \/ /\ isConnected
                  /\ AppGoto("fini.enter", "disc.flush1")
                  /\ discTo' = "fini.flush1"
               \/ /\ ~isConnected
                  /\ AppGoto("fini.enter", "fini.flush1")
                  /\ UNCHANGED discTo
            /\ UNCHANGED <<configSet, session, born>>)

\* iotc_mq_deinit()
SdkDeinitQueue ==
    \/ QueueStep(MQ!FlushOne("fini.flush1"))
    \/ QueueStep(MQ!FlushDone("fini.flush1", "fini.clear"))
    \/ QueueStep(MQ!ClearCallback("fini.clear", "fini.flush2"))
    \/ QueueStep(MQ!FlushDone("fini.flush2", "fini.delete"))
    \/ QueueStep(MQ!DeleteQueue("fini.delete", "fini.config"))

\* config is freed and cleared, and iotcl_deinit() called.
SdkDeinitConfig ==
    /\ Running
    /\ AppGoto("fini.config", "none")
    /\ configSet' = FALSE
    /\ HI!LibraryOff
    /\ UNCHANGED <<mqVars, clientVars, genVars, discTo, session, born>>

-----------------------------------------------------------------------------
(* The middleware's task and the network.                                  *)

\* mqtt_inbound_msg_cb() is on_mqtt_c2d_message(), which passes the message on.
InboundCall ==
    /\ Running
    /\ RxGoto("msg.call", "mq.check")
    /\ MQ!NewMessage
    /\ born' = [born EXCEPT ![received + 1] = session]
    /\ UNCHANGED <<clientVars, identityVars, genVars, configSet, discTo, session>>

InboundQueue == \/ QueueStep(MQ!CheckInbound) \/ QueueStep(MQ!CreateMessage)
                \/ QueueStep(MQ!PutMessage) \/ QueueStep(MQ!PutTimeout)

InboundReturn == SdkStep(RxGoto("rx.done", "msg.clear") /\ UNCHANGED sdkVars)

ClientApp == ClientStep(MC!ClientConnect) \/ ClientStep(MC!ClientCleanup)

ClientEvent == ClientStep(MC!ClientEvent)

\* The broker sends no more messages than the bound lets the queue number.
Broker == \/ ClientStep(MC!LinkLost)
          \/ ClientStep(MC!DisconnectEvent)
          \/ received < MaxMessages /\ ClientStep(MC!MessageEvent)

-----------------------------------------------------------------------------

\* What the application decides to call, and when.
AppCall == Generate \/ SdkInit \/ SdkConnect \/ SdkPollCall \/ SdkDisconnect \/ SdkDeinit

\* What goes on once it has called.
AppStep == \/ Generating \/ SdkInitCheck \/ SdkInitIdentity \/ SdkConnected \/ SdkConnectFailed
           \/ SdkPoll \/ SdkQualify \/ SdkCallbackDisconnects
           \/ SdkDisconnectQueue \/ SdkDisconnected
           \/ SdkDeinitEnter \/ SdkDeinitQueue \/ SdkDeinitConfig
           \/ ClientApp

RxStep == InboundCall \/ InboundQueue \/ InboundReturn \/ ClientEvent

Next == AppCall \/ AppStep \/ SdkPollTimeout \/ RxStep \/ Broker \/ Halt

\* Both tasks run once they are called, and the waiters of the middleware's
\* lock are served in turn.  Nothing is asked of the application between calls,
\* and a poll with a timeout_ms of 0 may wait for a message for ever.
Fairness == /\ WF_vars(AppStep) /\ SF_vars(ClientStep(MC!CleanupDelete))
            /\ WF_vars(RxStep) /\ WF_vars(ClientStep(MC!DisconnectEvent))
            /\ WF_vars(Halt)

Spec == Init /\ [][Next]_vars /\ Fairness

-----------------------------------------------------------------------------
(* Properties                                                              *)

AppPoints == {"none", "init.check", "off", "idle", "poll.get", "poll.dispatch",
              "disc.flush1", "disc.clear", "disc.flush2", "fini.enter",
              "fini.flush1", "fini.clear", "fini.flush2", "fini.delete",
              "fini.config"} \union MC!Connecting \union MC!Cleaning
                \union HI!IdentityPoints \union GC!GenPoints

\* Every variable has its type: those of the four parts, with the capacity of
\* the queue and the limits of the retry loops, whatever else the application
\* and the other parts do, the program points, and those of iotconnect.c.
TypeOK == /\ app \in AppPoints
          /\ rx \in MC!Handling \union MQ!RxPoints
          /\ MQ!QueueTypeOK
          /\ MC!ClientTypeOK
          /\ HI!TypeOK
          /\ GC!TypeOK
          /\ configSet \in BOOLEAN
          /\ halted \in BOOLEAN
          /\ discTo \in {"off", "fini.flush1", "poll.get"}
          /\ session \in 0..MaxSessions
          /\ born \in [1..MaxMessages -> 0..MaxSessions]

\* Whatever the other task does between the test of a callback and its call,
\* what the SDK calls is never NULL: status_cb, mqtt_inbound_msg_cb, and
\* client_msg_cb, which iotc_mq_process() tests only on entry.
NoNullCallback == /\ MC!NoNullCallback
                  /\ app = "poll.dispatch" => clientMsgCb

\* A message of an earlier session can outlive iotconnect_sdk_disconnect(),
\* when its put was past the test of client_msg_cb, but never two.
Stale == {m \in MQ!Queued : born[m] # session}

AtMostOneStale == Cardinality(Stale) <= 1

\* A FreeRTOS queue that does not exist, because iotc_mq_init() failed or
\* iotc_mq_deinit() deleted it, is never put into, polled, or flushed by
\* iotconnect_sdk_disconnect(), whenever the application deinitialises: after a
\* loss, after a failed connect, beside the middleware's task.  The one exception
\* is that iotc_mq_deinit() flushes before it tests is_initialized, and there
\* only where it was called without a queue: whenever the SDK is initialised, or
\* an init past its first step undoes itself, there is one.
Deinitialising == app \in {"fini.flush1", "fini.flush2"}

Initialised == app \in {"off", "idle", "init.check"} \union HI!IdentityPoints

QueueExists == /\ rx = "mq.put" => queueState = "ready"
               /\ UsesQueue /\ ~Deinitialising => queueState = "ready"
               /\ Initialised => queueState = "ready"

\* Without a session, and after iotconnect_sdk_deinit(), the MQTT client is as
\* it was in the beginning, and the middleware's task is out of the SDK.
NoClientLeft ==
    app \in {"none", "off", "init.check"} \union HI!IdentityPoints
        => /\ handles = {} /\ mqttConnection = NoHandle
           /\ ~isMqttInitialized /\ ~isConnected /\ ~inboundCb /\ ~statusCb
           /\ rx = "idle"

\* What iotconnect.h says of the certificates, that they must stay "until sdk
\* is deinitialized": then no object of the middleware refers to them.
CertificatesUnused == app = "none" => handles = {}

\* iotconnect_sdk_init() does all or nothing.  Whatever fails, the library is
\* off afterwards and config is cleared, except after the one early return,
\* which leaves its strings; and when it succeeds the library is configured,
\* though the status of iotcl_init() is lost, and stays so as long as the MQTT
\* client may ask for its configuration.
Closing == {"fini.enter", "fini.flush1", "fini.clear", "fini.flush2",
            "fini.delete", "fini.config"}
InitPoints == {"init.check"} \union HI!IdentityPoints

InitAllOrNothing ==
    /\ app \in {"none"} \union GC!GenPoints =>
          iotcl = "off" /\ (configSet => queueState = "absent")
    /\ app \notin {"none"} \union GC!GenPoints \union InitPoints \union Closing =>
          iotcl = "configured" /\ configSet

\* Nothing of a request for the identity is left, on any path.
RequestAccounted == HI!RequestAccounted

\* The identity comes from two answers, whatever the requests return.
IdentityFromAnswers == HI!IdentityFromAnswers

\* The credentials are both there or the generation fails.
CredentialsAccounted == GC!CredentialsAccounted

\* No copy of a message is lost track of.
HeapExact == MQ!HeapExact

\* Messages reach the application in order and at most once, across sessions.
InOrder == MQ!InOrder

\* Seen from the broker and the application, the SDK is a bounded lossy FIFO,
\* whatever becomes of its sessions and its connections.
ChannelSpec == MQ!ChannelSpec

\* Each call of the API but the poll returns, whatever the other task is doing,
\* unless the program halts.  A disconnect in a callback returns to the loop of
\* iotc_mq_process(), which may then wait for a message for ever.
CallsReturn == (app \notin {"none", "off", "idle", "poll.get", "poll.dispatch"})
                  ~> (app \in {"none", "off", "idle", "poll.get"} \/ halted)

\* An application that stays in a session is told when it is lost, even if it
\* does not poll: is_connected goes and status_cb is called.
InSession == app \in {"idle", "poll.get", "poll.dispatch"}

LossIsNoticed ==
    \A h \in Handles :
        (InSession /\ h \in lost) ~> (~InSession \/ (~isConnected /\ h \in notified))

-----------------------------------------------------------------------------
(* The composition keeps to what MessageQueue and MqttClient assume of     *)
(* their callers, each seen through the program points that it knows.      *)

AppOfQueue ==
    IF app \in {"none", "fini.config"} \union GC!GenPoints THEN "none"
    ELSE IF \/ app = "disc.request"
            \/ app \in MC!Cleaning \ {"disc.done"} /\ cleanupTo = "disc.done"
         THEN "disc.close"
    ELSE IF app \in MQ!AppPoints THEN app ELSE "off"

RxOfQueue == IF rx \in MC!Handling THEN "idle" ELSE rx

AppOfClient ==
    IF app \in MC!Connecting \union MC!Cleaning THEN app
    ELSE IF \/ app \in {"idle", "poll.get", "poll.dispatch"}
            \/ /\ app \in {"disc.flush1", "disc.clear", "disc.flush2"}
               /\ mqttConnection # NoHandle
         THEN "idle" ELSE "off"

RxOfClient == IF rx \in MQ!RxPoints \ {"idle"} THEN "msg.call" ELSE rx

QueueAlone == INSTANCE MessageQueue WITH app <- AppOfQueue, rx <- RxOfQueue
ClientAlone == INSTANCE MqttClient WITH app <- AppOfClient, rx <- RxOfClient

\* The session is a behaviour of the queue on its own: iotconnect.c sets it up,
\* registers, deregisters, flushes and deletes in the order that keeps it in
\* order and its memory accounted, and messages come only in a session.
QueueSpec == QueueAlone!Init /\ [][QueueAlone!Next]_(QueueAlone!vars)

\* It is one of the MQTT client on its own, which is asked to connect only
\* without a session and whose results are heeded.
ClientSpec == ClientAlone!Init /\ [][ClientAlone!Next]_(ClientAlone!vars)
=============================================================================
