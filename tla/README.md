# Verification of the Avnet IoTConnect ModusToolbox SDK

TLA+ models of the SDK in `src/` (the library `iotconnect.h`, `iotc_ota.h`,
`iotc_mtb_time.h` and the code behind them), TLC configurations that check them
on small instances, and proofs for TLAPS of what holds for every value of the
constants. Paths below are relative to the repository's root.

- [The system](#the-system): components, state, interactions, what is hard
- [The models](#the-models): modules, and how they correspond to the code
- [The runs](#the-runs): what each shows, bounds, fairness, assumptions
- [Findings](#findings)
- [Proofs](#proofs)
- [What is not modelled](#what-is-not-modelled)
- [Plan](#plan)

## The system

The SDK runs on FreeRTOS with lwIP, above the MQTT, HTTP and OTA middleware of
ModusToolbox and the portable library iotc-c-lib. It has no lock of its own. Its
code runs on these tasks:

| Task | Runs |
|---|---|
| application's | every function of the public API: init, connect, poll, disconnect, deinit, `iotc_ota_run()`, `iotc_mtb_time_obtain()` |
| MQTT middleware's | `mqtt_event_callback()` and what it calls, down to the `put` into the message queue |
| OTA agent's | `iotc_ota_callback()` |
| lwIP's | the SNTP client (`sntp.c`) once it has been started |

### Components

**Message queue** (`source/iotc_mqtt_mq.c`). State: `cy_queue`, `is_initialized`,
`client_msg_cb`, and the heap copies of topic and payload that messages carry.
`iotc_mq_on_mqtt_inbound_message()` copies and puts on the middleware's task;
`iotc_mq_process()` takes and dispatches on the application's;
`iotc_mq_flush()`, `_register()`, `_deregister()`, `_init()` and `_deinit()` set
up and tear down. Correct when messages stay in order and are seen once, when
no copy is lost track of, when the middleware's task is never held for good,
when a session does not inherit the messages of the one before, and when the
queue is not used once deleted.

**MQTT client** (`source/iotc_mqtt_client.c`). State: `mqtt_connection`,
`is_connected`, `is_disconnect_requested`, `is_mqtt_initialized`,
`mqtt_inbound_msg_cb`, `status_cb`. `iotc_mqtt_client_init()` initialises the
library, creates an object, registers the callback, connects and subscribes with
retries; `iotc_cleanup_mqtt()` undoes it, from any failure and from
`iotc_mqtt_client_disconnect()`; the event callback writes the flags and reads
the callbacks from the other task. Correct when nothing is left behind however
it fails, when a callback that is called is there, when a loss is noticed, and
when every call returns.

**SDK session** (`source/iotconnect.c`). State: `config` and its strings. Puts
the two together in a fixed order: `iotconnect_sdk_init()` creates the queue and
obtains the identity or undoes all of it, `_connect()` brings up the client and then registers the
queue's callback, `_poll_inbound_mq()` dispatches, `_disconnect()` deregisters,
flushes and then closes, `_deinit()` does that if connected and deletes the
queue. Built for the AWS qualification, a command message disconnects from
inside the dispatch and never returns. Correct when the promises of the parts
hold of the whole, through any sequence of calls.

**Over-the-air update** (`source/iotc_ota.c`). State: `ota_network_params` with
two heap strings, `ota_agent_params`, `last_session_result`, `app_task_handle`,
and the task notification of the caller. `iotc_ota_start()` starts the agent;
`iotc_ota_run()` also waits up to an hour for the callback's notification;
`iotc_ota_cleanup()` frees the strings. Correct when the strings are freed once,
when the status that is read is of the session asked about, and when the end of a
session ends the wait for that session and no other.

**Network time** (`source/iotc_mtb_time.c`, `source/sntp.c`). State: the SNTP
client's servers, current server, retry timeout, reachability registers and
pending timeouts, `callback_received`. `iotc_mtb_time_obtain()` starts the client and
polls its reachability; lwIP's task runs it. Correct when the client never falls
silent, when its timeouts stay in range, and when "reachable" means that the
clock is set.

**HTTPS client and device identity** (`source/iotc_http_client.c`, and
`run_http_identity()` of `source/iotconnect.c`). State: the response, the URL
contexts, the HTTP client's library and object, iotc-c-lib's configuration. Two
requests, each a ladder of calls with a label to undo each rung; the result of
a request is lost in its own cleanup, and that of `iotcl_init()` in the identity.
Correct when every failure undoes what was done and no more, when no answer is
left on the heap, and when the SDK counts as initialised only over a library
that is configured from the answers.

**Certificate generation** (`source/iotc_gencert.c`). State: the contexts of
Mbed TLS and the two buffers. Correct when a failure of any call is returned and
frees the contexts.

**Telemetry, acknowledgements and C2D parsing**. iotc-c-lib, a submodule that is
not in the repository; the SDK passes strings through.

**Logging and diagnostics**. Prints; no state.

### Interactions

```
broker --> middleware's task --> mqtt_event_callback() --> iotc_mq_on_mqtt_inbound_message()
                                   |  is_connected,               | cy_queue
                                   |  status_cb                   v
application's task -- connect, disconnect, poll --> iotc_mq_process() --> client's callback

application's task -- iotc_ota_run() --> OTA agent's task -- iotc_ota_callback(), notification --> back
application's task -- iotc_mtb_time_obtain() --> lwIP's task: sntp.c -- reachability, clock --> back
```

The session uses the queue, the client and the identity only. OTA and network time share no
state with it, nor with each other.

### What is hard

- A callback is tested and then called, while the other task clears it.
- A `put` that began before `iotc_mq_deregister()` lands after its flush.
- The middleware's task sits in a `put` to a full queue while the application's
  task, which alone empties the queue, waits in `cy_mqtt_delete()` for it.
- Each of some ten calls of the middleware may fail, in set up and in clean up,
  and as many before that, in the identity.
- The first request for the time is sent by the application's task, beside lwIP's.
- A connection is lost at any point of connect, poll, disconnect and deinit.
- An OTA session ends before, during or long after the wait for it.
- Packets and DNS answers are lost, late and duplicated, around retries.

`PROJECT.json` lists each hazard at its line with the properties that cover it,
or the reason why none does.

## The models

| Module | Models | |
|---|---|---|
| `Threads` | the two tasks of the session | program points `app` and `rx`, shared by the modules below |
| `InboundChannel` | what the queue promises | abstract: a bounded, lossy FIFO |
| `MessageQueue` | `iotc_mqtt_mq.c` | checked and proved alone; implements `InboundChannel` |
| `MqttClient` | `iotc_mqtt_client.c` | checked and proved alone, over an external middleware |
| `HttpIdentity` | `iotc_http_client.c`, and the identity in `iotconnect.c` | over an external HTTP client and iotc-c-lib |
| `GenCert` | `iotc_gencert.c` | over an external Mbed TLS |
| `SdkSession` | `iotconnect.c` | `INSTANCE`s of the four, and the API's calls |
| `OtaSession` | `iotc_ota.c` | over an external agent |
| `TimeSync` | `iotc_mtb_time.c`, `sntp.c` | over lwIP's timeouts, DNS and UDP |
| `MessageQueueProofs`, `MqttClientProofs`, `OtaSessionProofs`, `TimeSyncProofs` | | theorems about the module of that name |
| `SdkSessionProofs`, `SdkInitProofs`, `SdkAnyProofs` | | theorems about `SdkSession`: the session of a disciplined application, what is done before it, and what holds of any application |
| `MC*` | | values of the constants for TLC |

Every module uses the same convention: a program point per task, one action per
stretch of code that the other task can see only as a whole. A static variable of the
code is a variable of the same name in camel case; variables called *history*
in their comment are no part of the code and appear in no guard of it.
Definitions whose comment begins with "Mutant of" are plausible bugs, and each is
used to confirm that the properties notice them; nothing in a specification refers
to them.

### MessageQueue

A message is the number of its arrival and stands for its topic and payload. It
lives in `rxMsg` while the middleware's task has it, in `cyQueue`, and in `appMsg`
while it is dispatched; `heap` is the set of messages whose copies are allocated.

| Action | Code |
|---|---|
| `CheckInbound`, `CreateMessage`, `PutMessage`, `PutTimeout` | `iotc_mq_on_mqtt_inbound_message()`: test of payload and callback, copies, `put` with 100 ms, free on failure |
| `ProcessEnter`, `GetMessage`, `GetTimeout`, `DispatchTo` | `iotc_mq_process()`: the test on entry, and the loop, which may wait for a message for ever (a `timeout_ms` of 0) |
| `FlushOne`, `FlushDone`, `ClearCallback` | `iotc_mq_flush()`, `iotc_mq_deregister()` |
| `InitQueue`, `Register`, `DeleteQueue` | `iotc_mq_init()`, `_register()`, `_deinit()` |

These take their program points as parameters, so that `SdkSession` uses them at
its own call sites. The second part of the module closes it with the order in which
`iotconnect.c` makes these calls: the queue is set up; a session opens
(`OpenSession`, from where on messages come) and only then registers its callback
(`Registered`); a poll (`ProcessCall`), which returns at once where no callback is
registered; a disconnect, with a session or without one (`DisconnectCall`),
flushes, deregisters, flushes and closes; and a dispatched message may itself
disconnect and not return to the loop (`Process`). A put that fails for a full queue, a failed
copy, an empty payload, a queue that cannot be created and one that cannot be
deleted are all there. `iotc_mq_process()` tests `client_msg_cb` once, on entry, and
`DispatchTo` has no step where it is NULL by then; nor has `EventNotify` of the client where
`status_cb` is. What happens instead is `Halt` of `SdkSession`.

### MqttClient

`handles`, `link`, `subscribed` and `lost` are the middleware's: objects that
exist, that are connected, that are subscribed, and that have a disconnect event to
come. The application's task walks through `iotc_mqtt_client_init()`
(`ConnectBegin` to `ConnectSetInboundCb`) and `iotc_cleanup_mqtt()`
(`CleanupEnter` to `CleanupClear`). Each call of the middleware succeeds or
fails. The flags are set in the order of the code: `is_connected`, then
`status_cb`, then `mqtt_inbound_msg_cb`. The event callback (`EventDisconnected`,
`EventCheckStatusCb`, `EventNotify`; `MessageCheck`, `MessageClearRequest`)
tests and calls in two steps.

Two details of the code are kept: the statement that clears
`mqtt_inbound_msg_cb` runs only when there is no topic to subscribe to, for it is
the body of the `if` before it; and `ret` in the cleanup goes back to success
after a failure.

### HttpIdentity

An answer is the request it is for and whether it holds JSON; `data` is what
`response.data` points to and `bodies` what is on the heap. `RequestBegin`,
`RequestCreate`, `RequestConnect`, `RequestSend`, `RequestDisconnect`,
`RequestDelete` and `RequestEnd` are the stretches of
`iotconnect_https_request()` between its labels. `httpOk` is what it returns,
the result of its last call, which `Validate` does not read. `DiscoveryUrl`, `ParseDiscovery`,
`Configure` and `IdentityEnd` are `run_http_identity()`, `InitLibrary` the
call of `iotcl_init()` before it. Their program points in the session are
parameters.

### GenCert

`contexts` are those that hold memory, `pems` the buffers that are written. Each
of `KeySetup`, `KeyGenerate`, `KeyWrite`, `CertFill` and `CertWrite` succeeds or
goes to its label `exit`. `iotc_x509_generate_credentials()` is called at most before the
first init, as an application does that connects with what it generates; what a
call leaves is counted when it returns, and then forgotten.

### SdkSession

Adds the calls of the application (`AppCall`: init, connect, disconnect,
deinit, poll, in any order), the order of the steps within each, the
qualification loop (`SdkQualify`), and the joints: a message event of the client
enters the queue (`InboundCall`) and returns to the client (`InboundReturn`).
`ReconnectsDirectly` says whether the application may connect or deinitialise
after a loss without disconnecting first, which the API's checks allow;
`CallbackDisconnects`, whether one of its callbacks may disconnect and return into
the dispatch (`SdkCallbackDisconnects`); `DeinitsUninitialised`, whether it may
deinitialise when there is no queue, after an init that failed or twice. A poll may
come outside of a session too. `SdkInit`, `SdkInitCheck` and
`SdkInitIdentity` are `iotconnect_sdk_init()`, whose failures but the first go
through `iotconnect_sdk_deinit()`.

`Halt` is the end of a program that goes where the code has nothing to hold it: a call
of `status_cb` or `client_msg_cb` that is NULL by then (`CallsNull`), which always
halts, or the use of a FreeRTOS queue that was not created or is deleted
(`UsesQueue`), which may halt or return an error. Once `halted`, no task takes a step.
`mqtt_inbound_msg_cb` is never NULL when it is called (`InboundCallbackIsThere`).

`AppOfQueue`, `RxOfQueue`, `AppOfClient` and `RxOfClient` say where the two tasks are
as `MessageQueue` and `MqttClient` know it: what runs outside of a module is
"off", "idle" or a call that has not returned. Through them `QueueAlone` and
`ClientAlone` are those modules as they are checked alone, over the session's own
state.

### OtaSession

Strings are named by the session they were copied for, so a leak and a double
use show. `StartReset`, `StartCopy`, `StartAgent`, `StartFailed`,
`RunSetHandle`, `RunNotified`, `RunTimeout` and `RunCleanup` are the steps of
`iotc_ota_run()`; a call of `iotc_ota_start()` ends after the agent has been
started. `lastRet` tells a call that was refused by the check of its arguments, which
leaves everything as it was, from one that failed beyond it. `CallbackResult` and `CallbackNotify` are two steps of the callback's
last state; `CallbackStops` is each of its ways to stop the agent early. The
agent runs the SDK's callback or the application's own.

### TimeSync

The SNTP client in polling mode. `timers` counts pending timeouts of
each handler, since `sys_untimeout()` removes one entry only; timeouts are
untimed. A register of `reachability` is the set of its bits, which a shift moves up and, at
its width, out; `retryTimeout` doubles in a word that wraps. An answer is two steps of lwIP's task,
the clock first (`SetSystemTime`) and the register second, between which the application polls.
As in `sntp_recv()`, any packet that is accepted marks the server that is current, whichever
request it answers. A clock that cannot be written fails a `CY_ASSERT` and, where
that is compiled out, changes nothing of what follows: `callback_received` says that
the clock was told the time.
`sntp_init()` sends the first request on the application's task, without lwIP's
lock: `ObtainInit` sends the packet, `ObtainLoad` and `ObtainStore` shift the
register, `ObtainAwait` sets the timeout, and lwIP's task may handle an answer, a
kiss of death or a DNS answer between any two.

## The runs

| Run | Module, config | Expect | Question |
|---|---|---|---|
| `message_queue` | `MCMessageQueue.cfg` | pass | does the queue keep order, account for memory, let both tasks go on, implement the FIFO? |
| `mqtt_client` | `MCMqttClient.cfg` | pass | is the client clean after every failure, complete in a session, and told of losses? |
| `sdk_session` | `MCSdkSession.cfg` | pass | do these hold of the whole, for an application that disconnects after a loss? |
| `session_direct` | `MCSdkSession_direct.cfg` | pass | what still holds for any other: is it still a FIFO, is a failed init undone, does every call return unless the program halts? |
| `ota_session` | `MCOtaSession.cfg` | pass | are strings, status and notification right over successive sessions? |
| `time_sync` | `MCTimeSync.cfg` | pass | does the client go on for ever, and is reachability honest? |
| `queue_memory` | `MCMessageQueue_heap.cfg` | violation | is the memory of inbound messages bounded by the queue? |
| `cleanup_result` | `MCMqttClient_result.cfg` | violation | is a failure of the cleanup reported? |
| `deinit_after_loss` | `MCSdkSession_certs.cfg` | violation | are the certificates free once the SDK is deinitialised? |
| `ota_url` | `MCOtaSession_url.cfg` | violation | does the URL live as long as the agent? |
| `ota_notify` | `MCOtaSession_notify.cfg` | violation | does a completion reach the task that waits? |
| `time_again` | `MCTimeSync_assert.cfg` | violation | may `iotc_mtb_time_obtain()` be called again? |

### What the properties say

*Queue.* `HeapExact`: what is allocated is what the queue, a put and a
dispatch hold, and what has been dispatched. `InOrder`: delivered, dispatched,
queued and incoming messages are in the order of arrival, so none is seen twice.
`AtMostOneStale`: one message at most crosses from a session into the next, the
put that had passed the test of the callback. `InboundReturns`: the
middleware's task always gets out again. `QueuedIsSettled`: an application that
calls time and again is served all that is queued. `ChannelSpec`: every behaviour is
one of `InboundChannel`, with one more message pending than the queue holds (the
one being dispatched).

*Client.* `NoNullCallback`: what was tested is still there when it is called.
It holds because `cy_mqtt_delete()` waits for the callback before the pointers
are cleared. `NothingLeftBehind`, `SessionComplete`: the two states the
application can be in, without and within a session. `LossIsNoticed`: a session
that is lost clears `is_connected` and calls `status_cb`. `CallsReturn`.

*Session.* `NoNullCallback` also for `client_msg_cb` in the middle of
`iotc_mq_process()`; `NoClientLeft`; and the queue's and the client's promises
again, now under the real call order. `QueueSpec` and `ClientSpec` say why they
carry over: the session is a behaviour of the queue and of the client as each
is checked alone, so `iotconnect.c` calls the two only as they may be called and no
message comes outside of a session. In `session_direct` the session is a behaviour of neither, but
`QueueExists` and `InOrder` hold and it is still the bounded
lossy FIFO of `ChannelSpec`. `QueueExists`: the SDK has a queue whenever it is initialised,
and nothing puts into, polls or flushes one that does not exist, be it in a
deinitialisation after a loss and beside the middleware's task, with one exception.
`iotc_mq_deinit()` flushes before it tests `is_initialized`, so where
`iotconnect_sdk_deinit()` is called without a queue, after an init that failed or a
second time, it does use one that does not exist. The run takes these calls too
(`DeinitsUninitialised`), and goes on as with an empty queue or halts. The objects of lost
sessions live on there and their callbacks run beside the set up of the next
session, and TLC refutes three properties of such an application:
`NoNullCallback` (the next `iotc_mqtt_client_init()` clears `status_cb` between
its test and its call), `NoClientLeft` (the old object is never deleted) and
`AtMostOneStale` (nothing flushes the queue between the sessions).

`InitAllOrNothing` (in `session_direct`, which has the shorter request loop and every way to
deinitialise): after a failed init the library is off and `config` cleared,
but for the one early return that leaves its strings, and from a successful one
on until deinit the library is configured. `RequestAccounted`: whichever call fails,
the HTTP client is used only while it is there, and nothing of a request or
an answer is left. `IdentityFromAnswers`: the identity counts only with both answers.
The code ignores what a request returns, and this is what makes it right: the
result is that of the cleanup. `CredentialsAccounted`: no certificate
without its key, no success without both buffers, no context left but the key's.

Where callbacks disconnect, `NoNullCallback` is refuted too, with a
message that was in the middle of its put: `iotc_mq_process()` takes it after the
callback has returned, and `client_msg_cb` is NULL. In `session_direct` that is
the end of the program, which `CallsReturn` (of every call but the poll, which
may wait for a message for ever) names as the one alternative to a return.

`TypeOK` of the session is that of all its parts, with the capacity of the queue and
the limits of the loops.

*OTA.* `UrlAccounted`: what is on the heap is what `ota_network_params` points
to, nothing after `iotc_ota_run()`, nor after a call that failed beyond its check. `StatusIsOfThisSession`: success is never
that of an earlier session. `CompletionEndsWait`: a completion that comes
during the wait ends it. `RunReturns`.

*Time.* `Scheduled`: once started, a timeout or a lookup is always pending, and
the chains of requests are one, plus one for each kiss of death, each late
answer, and an answer that comes before the timeout for it is set. `RetryWithinLimits`: the doubled timeout neither wraps nor exceeds its limit.
`ReachabilityIsRecent`: the register is not zero only when one of the last
eight requests was answered, and whenever it was, except for a server whose last
answer came in the middle of the first request on the application's task
(`overtook`): that task shifts the answer out again, or stores a bit again which
lwIP's task has shifted out since. `ReachableMeansSet`: the application never
sees a reachable server before the clock has been told the time. `ObtainReturns`.

### Bounds, and why they are enough

| Bound | Value | Why |
|---|---|---|
| `Capacity` | 2 | empty, partly full and full differ; the code has no other case (the default is 4). Two messages can be in the wrong order |
| `MaxMessages` | 5 (queue), 3 (session), 2 (`deinit_after_loss`) | fills the queue with one in dispatch and one in a put, and one more after a reconnect; in the session the joints matter, and a full queue with a put that waits needs one message more than the queue holds |
| `Handles` | 2 (client, `session_direct`, `deinit_after_loss`), 1 (`sdk_session`) | the object of the session and one that was left; a disciplined application never has two |
| `MaxConnRetries`, `MaxSubscribeRetries` | 2 (client), 1 (session) | first, further and last attempt; the count itself is not seen outside of the client |
| `MaxHttpRetries` | 2 (`sdk_session`), 1 (the others) | a failure that is retried and one that is not |
| `MaxSessions` | 2 | what one session leaves to the next; deinitialisation and a second init are included. Once they are used up only an init without a queue is left |
| `MaxStarts`, `Tasks` | 3, 2 | a notification of the first session's task that a second session leaves for a third |
| `NumServers` | 2 | the current server and another to go to |
| `ReachBits` | 2 | a bit that moves through the register and drops out of it |
| `RetryTimeout`, `RetryTimeoutMax`, `Word` | 60, 250, 256 | two doublings, and a third product that wraps to a value below the limit |
| `MaxTries`, `MaxCalls` | 2, 2 | the loop's first and last turn; a call while the client runs |
| `MaxExtra` | 3 | one more chain of requests for an answer that overtook its request, and two for kisses of death or late answers: enough to shift a register empty while the first request is being sent |

Deadlock is checked in the runs that pass, except for `session_direct`, where a
program that has halted stops: elsewhere the application may always call something.

### Fairness

- Weak fairness of each task's steps within a call. FreeRTOS runs every ready task in
  the end, and waits with a timeout end: the put after 100 ms, the
  notification after an hour. Not so the get of a poll (`GetTimeout`,
  `SdkPollTimeout`): a `timeout_ms` of 0 blocks until a message comes.
- Weak fairness of `Halt`: a jump to NULL is not put off.
- The application's *choice* to call (`AppCall`, `ProcessCall`, `OtaCall`, `ObtainCall`) has no
  fairness, and polling is a choice: `InboundReturns`, `CallsReturn` and
  `LossIsNoticed` hold of an application that never polls. `QueuedIsSettled` has
  the premise that the application calls time and again, which `iotconnect.h`
  asks of it.
- Strong fairness of `CleanupDelete`: it waits for the middleware's lock, which
  messages may keep taking, and FreeRTOS serves the waiters of a mutex in turn.
- Weak fairness of the disconnect event: the middleware reports a loss. None
  of `LinkLost`, of messages, of the end of a download, or of packets.

### Assumptions about code that is not in the repository

- The MQTT middleware delivers events one at a time, and `cy_mqtt_delete()`
  waits for a callback of that object and frees it whatever it returns. The
  code relies on both when it clears the pointers that the callback uses.
- `cy_http_client_disconnect()`, `_delete()` and `_deinit()` do their work
  whatever they return.
- iotc-c-lib does not configure MQTT unless `iotcl_init()` succeeded: there is
  no configuration to write to, and `iotcl_mqtt_get_config()` returns NULL.
- The application's task does not stay within the first `sntp_send_request()` for as
  long as a timeout of the client, and does not preempt lwIP's in the middle of
  a statement.
- `xTaskNotifyGive(NULL)` reaches no task of the application. With the
  kernel's assertions it stops the program.
- There is one `ota_context`, so one agent at a time, and an agent that cannot
  be started leaves none. `Overlaps` is FALSE: the application starts no session
  while an agent runs. Its strings would be freed under the agent at once.
- `HourIsEnough` is FALSE where properties are shown to hold, so that the
  hour may pass at any time, and TRUE where they are refuted, so that the
  refutation does not need it.
- `LWIP_ASSERT` is compiled out where the run goes on past it.

## Findings

Each is a `violation` run; `PROJECT.json` quotes the lines.

1. `queue_memory`: `iotc_mq_process()` frees no copy it has dispatched
   (`src/source/iotc_mqtt_mq.c:110`). Every delivered message leaks.
2. `cleanup_result`: the merge of results in `iotc_cleanup_mqtt()` returns to
   success after a failure (`src/source/iotc_mqtt_client.c:192`), against its comment.
3. `deinit_after_loss`: `iotconnect_sdk_deinit()` after a loss does not
   disconnect (`src/source/iotconnect.c:334`), so the MQTT object, which refers to
   the certificates, outlives it.
4. `ota_url`: `iotc_ota_run()` takes any pending notification for its own
   (`src/source/iotc_ota.c:304`) and frees the URL under the running agent.
5. `ota_notify`: the task handle is stored after the agent has been started
   (`src/source/iotc_ota.c:302`), so an early completion notifies NULL.
6. `time_again`: a second `iotc_mtb_time_obtain()` sets the mode of a client
   that runs (`src/source/iotc_mtb_time.c:58`), against an assertion of `sntp.c`.

Seen while modelling, without a run: a connection that is lost between the
subscription and the assignment of `is_connected`
(`src/source/iotc_mqtt_client.c:341`) leaves the flag set over a dead session,
and `status_cb` is not called. `LossIsNoticed` speaks of events that come
later. A callback that disconnects and returns may have `iotc_mq_process()` call
NULL (`src/source/iotc_mqtt_mq.c:110`). `iotc_mq_deinit()` flushes before it tests
`is_initialized` (`src/source/iotc_mqtt_mq.c:145`), which an `iotc_mq_init()` that failed
has set all the same (`src/source/iotc_mqtt_mq.c:60`): an `iotconnect_sdk_deinit()` after
such an init, or a second one, takes from a queue that does not exist, although
`src/source/iotconnect.c:282` means to make that safe. `iotc_x509_generate_credentials()` never frees its key
(`src/source/iotc_gencert.c:143`). `iotc_mtb_time_obtain()` calls functions of
`sntp.c` that assert lwIP's core lock (`src/source/sntp.c:732`) without it; the answer
that is lost for this makes it report a failure although the clock is set.

## Proofs

TLAPS proves these for every value of the constants that satisfies the
modules' assumptions (a queue of at least one message, at least one attempt in each
loop, NULL is no object or task, a retry timeout within its maximum and its word, a
register of at least one bit).

| Module | Theorem | Of the specification |
|---|---|---|
| `MessageQueueProofs` | `TypeCorrect` | `[]TypeOK`, with the limit of the queue |
| | `OrderedDelivery` | `[]InOrder` |
| | `HeapAccount` | `[]HeapExact` |
| | `OneStaleMessage` | `[]AtMostOneStale` |
| | `ImplementsChannel` | `ChannelSpec`: it implements `InboundChannel` |
| `MqttClientProofs` | `TypeCorrect` | `[]TypeOK`, with the limits of the loops; for any application |
| | `CallbacksAreThere` | `[]NoNullCallback` |
| | `CleanWithoutSession` | `[]NothingLeftBehind` |
| | `SessionsAreComplete` | `[]SessionComplete` |
| `OtaSessionProofs` | `TypeCorrect` | `[]TypeOK` |
| | `UrlsAreFreed` | `[]UrlAccounted` |
| | `StatusIsCurrent` | `[]StatusIsOfThisSession` |
| | `WaitIsEnded` | `[]CompletionEndsWait` |
| `TimeSyncProofs` | `TypeCorrect` | `[]TypeOK` |
| | `NeverSilent` | `[]Scheduled` |
| | `RetriesWithinLimits` | `[]RetryWithinLimits` |
| | `ReachableIsSet` | `[]ReachableMeansSet` |
| | `ReachabilityRecent` | `[]ReachabilityIsRecent` |
| `SdkSessionProofs` | `ImplementsQueue` | `QueueSpec`: it implements `MessageQueue` |
| | `ImplementsClient` | `ClientSpec`: it implements `MqttClient` |
| | `CallbacksAreThere` | `[]NoNullCallback` |
| | `CleanWithoutSession` | `[]NoClientLeft` |
| | `OneStaleMessage` | `[]AtMostOneStale` |
| `SdkInitProofs` | `CredentialsAreAccounted` | `[]CredentialsAccounted` |
| | `RequestsAreAccounted` | `[]RequestAccounted` |
| | `IdentityIsAnswered` | `[]IdentityFromAnswers` |
| `SdkAnyProofs` | `ImplementsChannel` | `ChannelSpec`: the SDK implements `InboundChannel` |
| | `OrderedDelivery`, `HeapAccount` | `[]InOrder`, `[]HeapExact` |
| | `QueueIsThere` | `[]QueueExists`, also where the application deinitialises without a queue |
| | `InboundCallbackIsThere` | `mqtt_inbound_msg_cb` is not NULL when it is called |
| | `InitIsWhole` | `[]InitAllOrNothing` |
| | `TypeCorrect` | `[]TypeOK`: the types of all parts |

Each invariant follows from an inductive one, `IInv` or `Inv`: it holds of `Init`,
every step keeps it, and it implies the property.

**Queue.** `InOrder` is not inductive: a new message is in order only if nothing
that was seen has a number beyond `received` (`Numbered`). `HeapExact` needs
`InOrder`, since a flush that frees a message must not free one that is also
dispatched or delivered. `AtMostOneStale` needs `Deregistered`: once
`client_msg_cb` is cleared no message passes the test, so after the second flush
there is one message in the queue, or one on its way to an empty queue, and not
both. The lemmas say what `Append` and `Tail` do to the elements of a queue and to
its order; `StepKinds` reduces the actions to a few ways to change the queue, so
that `InOrder` is proved once for each of them, whoever takes the step: `MessagesStep` and
`StepImplements` speak of these ways (`MessageStep`) and not of the program points, so that
`SdkAnyProofs` cites them again. For the refinement
(`StepImplements`) each of these is matched with a step of `InboundChannel`; `Newest`, that the
message on its way in is the last one that arrived, is all it needs besides.

**Client.** `TypeCorrect` holds for any application, since `mqtt_connection` never names an
object that is gone (`ObjectThere`). The other theorems assume `ReconnectsDirectly = FALSE`;
without that the properties are false. `IInv` says for each program point whether there is an object
(`ObjectByPoint`), which callbacks are set (`CallbacksByPoint`), which flags
(`FlagsByPoint`) and what the counter of the loop is (`TriesByPoint`). The heart of it is
that the middleware's task handles events of `mqttConnection` only, so that
`cy_mqtt_delete()` waits for it, and the pointers are cleared after that.

**Over-the-air.** Types and URLs (`Safe`) need no assumption about the application;
they hold even where sessions overlap. The status and the wait assume `Overlaps =
FALSE`, for then an agent is that of the session started last (`OneSession`).
`last_session_result` is reset on the way to the agent, so a success seen later
is this session's (`ResultByPoint`); and nobody has told the caller of its session
before it waits (`ToldByPoint`), so whoever does notifies it.

**Time.** Whatever `sntp_send_request()` and `sntp_try_next_server()` come to,
they leave one timeout more and, for one server at most, a request more in its
register (`Aged`; `RequestLeaves`, `TryNextLeaves`). `Chained` then counts the chains of requests: one, and at most
one more for each answer that came too early or too late, of which `extra` keeps
count. `Marked`: before the first answer no register shows anything, not in memory
nor in what the application's task has loaded of it to shift. The retry timeout
stays within its limits though its doubling wraps, because a doubled value is
taken only if it grew (`DoubledWithin`). `ReachabilityIsRecent` compares zero
with zero, and a shift needs to know which bits there are: in `Recent` the lowest bit of a
register is the number of requests since the last answer (`Exact`), which a shift
and a request keep equal and an answer sets to 0. The application's task stores a
shifted register late, but what it loaded was empty unless the server's
answer overtook it.

**Session.** The theorems of `SdkSessionProofs` assume an application that is
`Disciplined`: it disconnects before it reconnects or deinitialises, not in a
callback, and deinitialises only what it has initialised. Of the other kind, which is that of `session_direct`, they are false. They
are not proved anew: `QP` and `CP` are the proofs of the queue and of the client,
instanced at the program points that the two know, and `QueueStepImplements` and
`ClientStepImplements` show that every step of the session is one of theirs or
leaves them alone. The joint between the two is `CallsInSession`: a message enters
the queue only while the client's callback for messages is set, and at such a point the queue's session is
open. So `Inv`, which is the invariants of both and where a disconnect returns to,
is inductive, and what they imply carries over. Only `OneStaleMessage` needs more,
since a message's session is not known to the queue: behind the first message all
are of this session (`BornInSession`).

**Before the session.** `GenByPoint`, `AnswerByPoint`, `IdentityByPoint` and
`HttpByPoint` say what each point of the two functions holds, and `OtherStep` that
no other step touches it; the three theorems hold for any application. The
identity is right although results are lost because an answer in `response`
is of the request being made, and JSON, where it is used.

**Any application.** One that reconnects or deinitialises after a loss leaves an object in
the middleware, and the client's own invariants fail of it. What stays true, and
carries the theorems of `SdkAnyProofs`, is `Events`: only the object that
`mqtt_connection` names is connected or has a loss to report, and once `is_connected` is
cleared, except where a connection is being opened or taken down, all is `Calm`: no
connection, no loss to come and no message on its way to the queue. For the
client clears `is_connected` in the event of the loss, which is the last of its object, and
`iotc_cleanup_mqtt()` waits for the callback before it deletes the object. So
what `iotc_mq_deinit()` has flushed stays empty until it deletes the queue
(`QueueByPoint`, `NoPutWhenDrained`), no put meets a queue that is gone or was never
there (`QueueIsThere`), and the queue that an init creates replaces an empty one.
With that every step of the SDK is
one of the ways to change the queue that `MessageQueueProofs` knows (`MessageKinds`),
and order, memory and the refinement carry over. `InitByPoint` uses `Events` once more:
the deinitialisation of a failed init finds no connection, so it does not
disconnect and clears all that was set. And of the two callbacks of the client only
`status_cb` can be NULL when it is called: `mqtt_inbound_msg_cb` is cleared where
all is `Calm` (`InboundTestedStep`).

**Model-checked only**: liveness and fairness. `NoNullCallback`, `NoClientLeft`,
`AtMostOneStale`, `QueueSpec` and `ClientSpec` are proved for a disciplined
application only, because TLC refutes them for others, and the theorems of
`MqttClientProofs` but the first for one that does not reconnect directly.

## What is not modelled

- `iotc_mqtt_client_publish()`, `iotc_mqtt_client_is_connected()` and the
  telemetry functions: they change no state of the SDK.
- `iotc_ota_storage_validated()`, `iotc_ota_system_reset()`, `iotc_ota_init()`:
  one call passed on.
- The return at `src/source/iotc_mqtt_client.c:289-292` for an unknown
  connection type: no value of the enumeration leads there.
- `iotconnect_sdk_disconnect()` before `iotconnect_sdk_init()`, which flushes a queue that does not
  exist as `iotconnect_sdk_deinit()` does, and an `iotconnect_sdk_deinit()` before the first
  `iotconnect_sdk_init()` or in a callback.
- What a clock that cannot be written leads to: the code goes on as if it could.
- The heap behind `config`: one flag for the three strings.
- The returns at `src/source/iotconnect.c:151-153` and `300-303`: the connection type
  has been checked before, and a queue of no messages cannot be created.
- The temporary removal of the user name for AWS (`src/source/iotconnect.c:199-204`)
  and the change of topics and host in `iotc_qualification_start()`.
- HTTP requests with a body, which the SDK never makes.
- In `sntp.c`: listen-only mode, `sntp_stop()`, servers from DHCP, the
  round-trip compensation and the arithmetic of timestamps.
- iotc-c-lib: not in the repository.

## Plan

In this order; what is done is marked.

1. **Done.** `MessageQueue` with `InboundChannel`, `MqttClient`, `SdkSession`:
   the path of a message and the life of a session, the core of the SDK.
2. **Done.** Inductive invariants and theorems of `MessageQueue` and `MqttClient`.
3. **Done.** `OtaSession` and `TimeSync`.
4. **Done.** `HttpIdentity` and `GenCert`, composed in `SdkSession`; the first request
   on the application's task in `TimeSync`; callbacks that disconnect.
5. **Done.** Theorem: `MessageQueue` implements `InboundChannel`.
6. **Done.** Theorems of `OtaSession` and of `TimeSync`.
7. **Done.** `SdkSession` implements `MessageQueue` and `MqttClient`, and its
   theorems for every number of sessions.
8. **Done.** `ReachabilityIsRecent` for any width of the register.
9. **Done.** What holds of any application: order, memory, the queue and the
   init without the discipline, and the whole SDK implements `InboundChannel`.
10. **Done.** What holds of the client's callbacks and types when the application
    reconnects directly.
