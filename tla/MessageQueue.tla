---------------------------- MODULE MessageQueue ----------------------------
(***************************************************************************)
(* The inbound message queue, src/source/iotc_mqtt_mq.c.                   *)
(*                                                                         *)
(* The middleware's task (rx) copies each MQTT message to the heap and     *)
(* puts it in a FreeRTOS queue; the application task (app) takes messages  *)
(* out when it polls, and flushes the queue when it disconnects.  Nothing  *)
(* but the queue itself is locked.  A message is the number of its arrival *)
(* and stands for its topic and payload.                                   *)
(*                                                                         *)
(* The first part holds the operations, each at the grain at which the     *)
(* other task can see it.  SdkSession composes them with the MQTT client.  *)
(* The second part closes the module with the order in which iotconnect.c  *)
(* calls these functions, so that it can be checked on its own.            *)
(***************************************************************************)
EXTENDS Threads, Naturals, Sequences, FiniteSets

CONSTANTS Capacity,     \* queue_size, the application's mq_max_messages
          MaxMessages   \* bound on the messages the broker sends

ASSUME CapacityAssumption == Capacity \in Nat \ {0}
ASSUME MaxMessagesAssumption == MaxMessages \in Nat

VARIABLES cyQueue,        \* the contents of cy_queue
          queueState,     \* the FreeRTOS object behind cy_queue
          isInitialized,  \* is_initialized
          clientMsgCb,    \* client_msg_cb # NULL
          heap,           \* the messages whose copies are allocated
          rxMsg,          \* msg in iotc_mq_on_mqtt_inbound_message()
          appMsg,         \* msg in iotc_mq_process()
          received,       \* how many messages have arrived
          delivered       \* history: the messages passed to client_msg_cb

mqVars == <<cyQueue, queueState, isInitialized, clientMsgCb, heap,
            rxMsg, appMsg, received, delivered>>

vars == <<app, rx, mqVars>>

NoMsg == 0

MqInit == /\ cyQueue = <<>>
          /\ queueState = "absent"
          /\ isInitialized = FALSE
          /\ clientMsgCb = FALSE
          /\ heap = {}
          /\ rxMsg = NoMsg
          /\ appMsg = NoMsg
          /\ received = 0
          /\ delivered = {}

-----------------------------------------------------------------------------
(* iotc_mq_on_mqtt_inbound_message(), on the middleware's task.            *)

\* A message the middleware has not shown before.
NewMessage == /\ received < MaxMessages
              /\ received' = received + 1
              /\ rxMsg' = received + 1
              /\ UNCHANGED <<cyQueue, queueState, isInitialized, clientMsgCb,
                             heap, appMsg, delivered>>

\* An empty payload, or no registered callback, and the message is dropped.
CheckInbound ==
    /\ \E empty \in BOOLEAN :
          RxGoto("mq.check",
                 IF empty \/ ~clientMsgCb THEN "rx.done" ELSE "mq.create")
    /\ UNCHANGED mqVars

\* Copy topic and payload.  If one allocation fails the other is freed.
CreateMessage ==
    /\ \/ /\ RxGoto("mq.create", "mq.put")
          /\ heap' = heap \union {rxMsg}
       \/ /\ RxGoto("mq.create", "rx.done")
          /\ UNCHANGED heap
    /\ UNCHANGED <<cyQueue, queueState, isInitialized, clientMsgCb,
                   rxMsg, appMsg, received, delivered>>

\* Mutants of PutMessage: one slot too many, and a put at the wrong end.
PutPastCapacity ==
    /\ RxGoto("mq.put", "rx.done")
    /\ Len(cyQueue) <= Capacity
    /\ cyQueue' = Append(cyQueue, rxMsg)
    /\ UNCHANGED <<queueState, isInitialized, clientMsgCb, heap,
                   rxMsg, appMsg, received, delivered>>

PutAtFront ==
    /\ RxGoto("mq.put", "rx.done")
    /\ Len(cyQueue) < Capacity
    /\ cyQueue' = <<rxMsg>> \o cyQueue
    /\ UNCHANGED <<queueState, isInitialized, clientMsgCb, heap,
                   rxMsg, appMsg, received, delivered>>

\* cy_rtos_put_queue() finds room within IOTC_MQ_PUT_TIMEOUT.
PutMessage ==
    /\ RxGoto("mq.put", "rx.done")
    /\ Len(cyQueue) < Capacity
    /\ cyQueue' = Append(cyQueue, rxMsg)
    /\ UNCHANGED <<queueState, isInitialized, clientMsgCb, heap,
                   rxMsg, appMsg, received, delivered>>

\* Mutants of PutTimeout: the copy is not freed; the put blocks forever.
PutTimeoutKeepsCopy ==
    /\ RxGoto("mq.put", "rx.done")
    /\ Len(cyQueue) = Capacity
    /\ UNCHANGED mqVars

PutNeverTimesOut == FALSE /\ UNCHANGED vars

\* The queue stayed full for IOTC_MQ_PUT_TIMEOUT: the copy is destroyed.
PutTimeout ==
    /\ RxGoto("mq.put", "rx.done")
    /\ Len(cyQueue) = Capacity
    /\ heap' = heap \ {rxMsg}
    /\ UNCHANGED <<cyQueue, queueState, isInitialized, clientMsgCb,
                   rxMsg, appMsg, received, delivered>>

-----------------------------------------------------------------------------
(* iotc_mq_process(), on the application task.                             *)

\* Without a callback iotc_mq_process() returns at once.
ProcessEnter(at) ==
    /\ AppGoto(at, IF clientMsgCb THEN "poll.get" ELSE at)
    /\ UNCHANGED mqVars

\* Mutant of GetMessage: the message is read and not removed.
PeekMessage ==
    /\ AppGoto("poll.get", "poll.dispatch")
    /\ cyQueue # <<>>
    /\ appMsg' = Head(cyQueue)
    /\ UNCHANGED <<cyQueue, queueState, isInitialized, clientMsgCb, heap,
                   rxMsg, received, delivered>>

\* cy_rtos_get_queue() returns a message.
GetMessage ==
    /\ AppGoto("poll.get", "poll.dispatch")
    /\ cyQueue # <<>>
    /\ appMsg' = Head(cyQueue)
    /\ cyQueue' = Tail(cyQueue)
    /\ UNCHANGED <<queueState, isInitialized, clientMsgCb, heap,
                   rxMsg, received, delivered>>

\* Nothing came within timeout_ms: iotc_mq_process() returns.  It may never do
\* so: a timeout_ms of 0 blocks until a message comes.
GetTimeout ==
    /\ AppGoto("poll.get", "idle")
    /\ cyQueue = <<>>
    /\ UNCHANGED mqVars

\* client_msg_cb(msg) and around the loop.  The variable is read again, and what
\* it calls must be there.  The copy is not freed, neither here nor in the
\* callback; it stays in heap for good.
DispatchTo(next) ==
    /\ AppGoto("poll.dispatch", next)
    /\ clientMsgCb
    /\ delivered' = delivered \union {appMsg}
    /\ appMsg' = NoMsg
    /\ UNCHANGED <<cyQueue, queueState, isInitialized, clientMsgCb, heap,
                   rxMsg, received>>

-----------------------------------------------------------------------------
(* Set up and tear down, on the application task.  at and to are the call  *)
(* site and the point the function returns to.                             *)

\* iotc_mq_init(): is_initialized is set even if the queue was not created.
InitQueue(at, ok, to) ==
    /\ AppGoto(at, to)
    /\ queueState' = IF ok THEN "ready" ELSE "absent"
    /\ cyQueue' = <<>>
    /\ isInitialized' = TRUE
    /\ UNCHANGED <<clientMsgCb, heap, rxMsg, appMsg, received, delivered>>

\* iotc_mq_register()
Register(at, to) ==
    /\ AppGoto(at, to)
    /\ clientMsgCb' = TRUE
    /\ UNCHANGED <<cyQueue, queueState, isInitialized, heap,
                   rxMsg, appMsg, received, delivered>>

\* One turn of the loop of iotc_mq_flush().
FlushOne(at) ==
    /\ AppGoto(at, at)
    /\ cyQueue # <<>>
    /\ heap' = heap \ {Head(cyQueue)}
    /\ cyQueue' = Tail(cyQueue)
    /\ UNCHANGED <<queueState, isInitialized, clientMsgCb,
                   rxMsg, appMsg, received, delivered>>

\* Mutant of FlushDone: iotconnect_sdk_disconnect() without its own flush.
FlushOnlyOnce(at, to) ==
    /\ AppGoto(at, to)
    /\ cyQueue = <<>> \/ at = "disc.flush2"
    /\ UNCHANGED mqVars

\* The queue stayed empty for 1 ms: iotc_mq_flush() returns.
FlushDone(at, to) ==
    /\ AppGoto(at, to)
    /\ cyQueue = <<>>
    /\ UNCHANGED mqVars

\* The second statement of iotc_mq_deregister(), after its flush.
ClearCallback(at, to) ==
    /\ AppGoto(at, to)
    /\ clientMsgCb' = FALSE
    /\ UNCHANGED <<cyQueue, queueState, isInitialized, heap,
                   rxMsg, appMsg, received, delivered>>

\* The end of iotc_mq_deinit(), after iotc_mq_deregister() and iotc_mq_flush().
DeleteQueue(at, to) ==
    /\ AppGoto(at, to)
    /\ isInitialized' = FALSE
    /\ IF isInitialized /\ queueState = "ready"
       THEN \/ queueState' = "deleted" /\ cyQueue' = <<>>
            \/ UNCHANGED <<queueState, cyQueue>>       \* cy_rtos_deinit_queue() failed
       ELSE UNCHANGED <<queueState, cyQueue>>
    /\ UNCHANGED <<clientMsgCb, heap, rxMsg, appMsg, received, delivered>>

-----------------------------------------------------------------------------
(* The module on its own.  iotconnect.c is reduced to the order of its     *)
(* calls: app is "none" before iotconnect_sdk_init() and after             *)
(* iotconnect_sdk_deinit(), "off" while there is no MQTT session,          *)
(* "conn.ok" where the client has just connected, and "idle" between API   *)
(* calls of a session.  SdkSession shows that it keeps to this.            *)

Polling == {"poll.get", "poll.dispatch"}
Disconnecting == {"disc.flush1", "disc.clear", "disc.flush2", "disc.close"}
Closing == {"fini.flush1", "fini.clear", "fini.flush2", "fini.delete"}

\* The middleware calls back only while there is an MQTT session, which begins
\* before client_msg_cb is set and ends after it is cleared.
SessionOpen == app \in {"conn.ok", "idle"} \union Polling \union Disconnecting

Init == app = "none" /\ rx = "idle" /\ MqInit

Receive == SessionOpen /\ RxGoto("idle", "mq.check") /\ NewMessage

InboundReturn == RxGoto("rx.done", "idle") /\ UNCHANGED mqVars

Inbound == CheckInbound \/ CreateMessage \/ PutMessage \/ PutTimeout \/ InboundReturn

\* Without a session too, where it returns at once.
ProcessCall == \E at \in {"idle", "off"} : ProcessEnter(at)

\* The qualification starts within the dispatch: it disconnects and does not
\* return to the loop.
Process == GetMessage \/ DispatchTo("poll.get") \/ DispatchTo("disc.flush1")

SetUp == InitQueue("none", TRUE, "off") \/ InitQueue("none", FALSE, "none")

\* iotc_mqtt_client_init() has connected, and mqtt_inbound_msg_cb is set.
OpenSession == AppGoto("off", "conn.ok") /\ UNCHANGED mqVars

Registered == Register("conn.ok", "idle")

\* Without a session too.
DisconnectCall ==
    (\E at \in {"idle", "off"} : AppGoto(at, "disc.flush1")) /\ UNCHANGED mqVars

\* iotc_mqtt_client_disconnect(): cy_mqtt_delete() waits for the callback.
CloseSession == rx = "idle" /\ AppGoto("disc.close", "off") /\ UNCHANGED mqVars

Disconnect == \/ FlushOne("disc.flush1") \/ FlushDone("disc.flush1", "disc.clear")
              \/ ClearCallback("disc.clear", "disc.flush2")
              \/ FlushOne("disc.flush2") \/ FlushDone("disc.flush2", "disc.close")
              \/ CloseSession

DeinitCall == AppGoto("off", "fini.flush1") /\ UNCHANGED mqVars

Deinit == \/ FlushOne("fini.flush1") \/ FlushDone("fini.flush1", "fini.clear")
          \/ ClearCallback("fini.clear", "fini.flush2")
          \/ FlushDone("fini.flush2", "fini.delete")
          \/ DeleteQueue("fini.delete", "none")

Next == \/ Receive \/ Inbound
        \/ SetUp \/ OpenSession \/ Registered
        \/ ProcessCall \/ Process \/ GetTimeout
        \/ DisconnectCall \/ Disconnect
        \/ DeinitCall \/ Deinit

\* Both tasks are scheduled.  What the application calls is its own choice: it
\* may stay away from the queue for good, or wait for a message for good.
Fairness == /\ WF_vars(Inbound) /\ WF_vars(Registered) /\ WF_vars(Process)
            /\ WF_vars(Disconnect) /\ WF_vars(Deinit)

Spec == Init /\ [][Next]_vars /\ Fairness

-----------------------------------------------------------------------------
(* What is checked of the module on its own.                               *)

Queued == {cyQueue[i] : i \in 1..Len(cyQueue)}

\* The points at which msg of the inbound function is a message being handled.
InFlight == {"mq.check", "mq.create", "mq.put"}

AppPoints == {"none", "off", "conn.ok", "idle"} \union Polling \union Disconnecting \union Closing
RxPoints == InFlight \union {"idle", "rx.done"}

\* The variables of iotc_mqtt_mq.c have their types, and the inbound function
\* never has more than queue_size messages in the queue.
QueueTypeOK == /\ cyQueue \in Seq(1..MaxMessages)
               /\ Len(cyQueue) <= Capacity
               /\ queueState \in {"absent", "ready", "deleted"}
               /\ isInitialized \in BOOLEAN
               /\ clientMsgCb \in BOOLEAN
               /\ heap \subseteq 1..MaxMessages
               /\ rxMsg \in 0..MaxMessages
               /\ appMsg \in 0..MaxMessages
               /\ received \in 0..MaxMessages
               /\ delivered \subseteq 1..MaxMessages

\* Every variable has its type: those above, which hold the bound of the queue,
\* and the program points of the two tasks.
TypeOK == app \in AppPoints /\ rx \in RxPoints /\ QueueTypeOK

\* No copy is lost track of: the allocated copies are those the queue holds,
\* the one the middleware's task is about to put, the one being dispatched,
\* and those that were dispatched, which iotc_mq_process() never frees.
HeapExact ==
    heap = Queued \union (IF rx = "mq.put" THEN {rxMsg} ELSE {})
                  \union (IF app = "poll.dispatch" THEN {appMsg} ELSE {})
                  \union delivered

\* What the header says of mq_max_messages, "up to how many inbound messages
\* to queue up into the message queue": beside the queue only the message
\* being put and the one being dispatched may hold memory.
HeapBounded == Cardinality(heap) <= Capacity + 2

\* The application sees messages in the order of their arrival and none twice,
\* even across sessions: the delivered ones are older than the one being
\* dispatched, which is older than the queue, which is in order and older
\* than the one on its way in.
InOrder ==
    /\ \A i, j \in 1..Len(cyQueue) : i < j => cyQueue[i] < cyQueue[j]
    /\ \A m \in delivered, n \in Queued : m < n
    /\ app = "poll.dispatch" => /\ \A m \in delivered : m < appMsg
                                /\ \A n \in Queued : appMsg < n
    /\ rx \in InFlight => /\ \A m \in delivered \union Queued : m < rxMsg
                          /\ app = "poll.dispatch" => appMsg < rxMsg

\* A put that was past the test of client_msg_cb can land after both flushes
\* of iotconnect_sdk_disconnect(), but then only one: the next session never
\* starts with more than one message of an earlier one.
AtMostOneStale == app = "off" => Len(cyQueue) <= 1

\* What makes these inductive.  Messages carry the number of their arrival;
\* no callback runs without a session; and once client_msg_cb is cleared no
\* message passes the test any more, so that after the second flush there is
\* either one message in the queue or one on its way.
Numbered ==
    /\ Queued \union delivered \subseteq 1..received
    /\ app = "poll.dispatch" => appMsg \in 1..received
    /\ rx \in InFlight => rxMsg \in 1..received

Deregistered ==
    /\ app \in {"none", "off"} \union Closing => rx = "idle" /\ ~clientMsgCb
    /\ app \in {"conn.ok", "disc.flush2", "disc.close"} => ~clientMsgCb
    /\ app \in {"idle"} \union Polling => clientMsgCb
    /\ app = "disc.close" /\ rx \in {"mq.create", "mq.put"} => cyQueue = <<>>
    /\ app = "disc.close" => Len(cyQueue) <= 1
    /\ app \in {"none"} \union (Closing \ {"fini.flush1"}) => cyQueue = <<>>

IInv == /\ TypeOK
        /\ Numbered
        /\ InOrder
        /\ HeapExact
        /\ Deregistered
        /\ AtMostOneStale

\* The middleware's task always gets out of the inbound function, even when
\* the queue is full and the application does not poll.
InboundReturns == (rx # "idle") ~> (rx = "idle")

\* While the session lasts, an application that calls the SDK time and again,
\* as iotconnect.h asks of it, is served every message it has queued.
CallsAgain == []<>(app # "idle")

QueuedIsSettled ==
    CallsAgain => \A m \in 1..MaxMessages :
        (m \in Queued /\ SessionOpen) ~> (m \notin Queued \/ ~SessionOpen)

\* The module implements the bounded lossy FIFO: one more message than the
\* queue holds may be pending, the one being dispatched.
Channel == INSTANCE InboundChannel
             WITH Depth <- Capacity + 1,
                  arrived <- received,
                  undecided <- rx \in InFlight,
                  pending <- IF app = "poll.dispatch"
                             THEN <<appMsg>> \o cyQueue ELSE cyQueue

ChannelSpec == Channel!Spec
=============================================================================
