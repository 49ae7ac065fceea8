----------------------------- MODULE OtaSession ------------------------------
(***************************************************************************)
(* Over-the-air updates, src/source/iotc_ota.c, above the OTA agent of the *)
(* middleware (the functions named cy_ota_ and its task), external.        *)
(*                                                                         *)
(* A task of the application starts a session, with iotc_ota_run(), which  *)
(* waits for the end, or with iotc_ota_start(), which does not.  The agent *)
(* runs in a task of its own and calls iotc_ota_callback() from it.  The   *)
(* two share ota_network_params, last_session_result and app_task_handle,  *)
(* without a lock, and the task notification of FreeRTOS.                  *)
(*                                                                         *)
(* Calls of the API follow one another; each may come from another task.   *)
(***************************************************************************)
EXTENDS Naturals

CONSTANTS Tasks,         \* the application's tasks
          NoTask,        \* a NULL TaskHandle_t
          MaxStarts,     \* bound on the sessions the application starts
          Overlaps,      \* may it start one, or clean up, while the agent runs?
          HourIsEnough   \* is each session over before iotc_ota_run()'s hour is?

ASSUME TasksAssumption == NoTask \notin Tasks
ASSUME StartsAssumption == MaxStarts \in Nat
ASSUME EnvironmentAssumption == Overlaps \in BOOLEAN /\ HourIsEnough \in BOOLEAN

VARIABLES app,                \* program point of the calling task
          caller,             \* the task that makes the call
          sync,               \* the call is iotc_ota_run()
          usrOtaCb,           \* its usr_ota_cb # NULL
          appTaskHandle,      \* app_task_handle
          lastSessionResult,  \* last_session_result
          cbFunc,             \* ota_agent_params.cb_func
          file,               \* ota_network_params.http.file, 0 is NULL
          host,               \* ota_network_params.http.server.host_name
          allocated,          \* the strings on the heap
          lastRet,            \* what the last call returned
          starts              \* the sessions are numbered

sdkVars == <<app, caller, sync, usrOtaCb, appTaskHandle, lastSessionResult,
             cbFunc, file, host, allocated, lastRet, starts>>

VARIABLES agent,          \* program point of the agent's task
          agentCb,        \* the callback it was started with
          agentSession,   \* the session it was started for
          agentStrings,   \* the strings its parameters point to
          notification,   \* the notification value of each task, zero or not
          succeeded,      \* history: the last session whose download succeeded
          toldWaiting     \* history: the last one to complete in the wait for it

agentVars == <<agent, agentCb, agentSession, agentStrings, notification,
               succeeded, toldWaiting>>

vars == <<sdkVars, agentVars>>

Init == /\ app = "idle" /\ caller = NoTask /\ sync = FALSE /\ usrOtaCb = FALSE
        /\ appTaskHandle = NoTask
        /\ lastSessionResult = "general"
        /\ cbFunc = "null" /\ file = 0 /\ host = 0 /\ allocated = {}
        /\ lastRet = "none" /\ starts = 0
        /\ agent = "none" /\ agentCb = "null" /\ agentSession = 0
        /\ agentStrings = {}
        /\ notification = [t \in Tasks |-> FALSE]
        /\ succeeded = 0 /\ toldWaiting = 0

\* Strings are named by the session they were copied for.
Strings(f, h) == {<<"file", n>> : n \in {f} \ {0}} \union {<<"host", n>> : n \in {h} \ {0}}

Goto(from, to) == app = from /\ app' = to
Returns(from, ret) == Goto(from, "idle") /\ lastRet' = ret

-----------------------------------------------------------------------------
(* iotc_ota_cleanup()                                                      *)

Cleanup == /\ cbFunc' = "null"
           /\ allocated' = allocated \ Strings(file, host)
           /\ file' = 0 /\ host' = 0

\* What the application calls after an asynchronous session.
OtaCleanup ==
    /\ app = "idle"
    /\ agent # "none" => Overlaps
    /\ Cleanup
    /\ UNCHANGED <<app, caller, sync, usrOtaCb, appTaskHandle, lastSessionResult,
                   lastRet, starts, agentVars>>

-----------------------------------------------------------------------------
(* iotc_ota_start()                                                        *)

\* A task calls iotc_ota_run() or iotc_ota_start().
OtaCall ==
    /\ Goto("idle", "start.check")
    /\ starts < MaxStarts
    /\ agent # "none" => Overlaps
    /\ starts' = starts + 1
    /\ caller' \in Tasks
    /\ sync' \in BOOLEAN
    /\ usrOtaCb' \in BOOLEAN
    /\ UNCHANGED <<appTaskHandle, lastSessionResult, cbFunc, file, host,
                   allocated, lastRet, agentVars>>

\* No host, no path, or a connection type that is neither AWS nor Azure: it
\* returns before the cleanup of what an earlier session left.
StartCheck ==
    /\ \/ Goto("start.check", "start.reset") /\ UNCHANGED lastRet
       \/ Returns("start.check", "refused")
    /\ UNCHANGED <<caller, sync, usrOtaCb, appTaskHandle, lastSessionResult,
                   cbFunc, file, host, allocated, starts, agentVars>>

\* Mutant of StartReset: the result of the session before stays.
StartResetKeepsResult ==
    /\ Goto("start.reset", "start.copy")
    /\ Cleanup
    /\ UNCHANGED <<caller, sync, usrOtaCb, appTaskHandle, lastSessionResult,
                   lastRet, starts, agentVars>>

StartReset ==
    /\ Goto("start.reset", "start.copy")
    /\ lastSessionResult' = "general"
    /\ Cleanup
    /\ UNCHANGED <<caller, sync, usrOtaCb, appTaskHandle, lastRet, starts, agentVars>>

\* Mutant of StartCopy: no callback of the SDK's own.
StartCopyNoDefault ==
    /\ Goto("start.copy", "start.agent")
    /\ cbFunc' = IF usrOtaCb THEN "user" ELSE "null"
    /\ file' = starts /\ host' = starts
    /\ allocated' = allocated \union Strings(starts, starts)
    /\ UNCHANGED <<caller, sync, usrOtaCb, appTaskHandle, lastSessionResult,
                   lastRet, starts, agentVars>>

\* Each of the two copies may fail; the code does not look.
StartCopy ==
    /\ Goto("start.copy", "start.agent")
    /\ cbFunc' = IF usrOtaCb THEN "user" ELSE "default"
    /\ file' \in {0, starts}
    /\ host' \in {0, starts}
    /\ allocated' = allocated \union Strings(file', host')
    /\ UNCHANGED <<caller, sync, usrOtaCb, appTaskHandle, lastSessionResult,
                   lastRet, starts, agentVars>>

\* cy_ota_agent_start(): there is one ota_context, and so one agent.
StartAgent ==
    /\ agent = "none"
    /\ IF sync THEN Goto("start.agent", "run.handle") /\ UNCHANGED lastRet
               ELSE Returns("start.agent", "ok")
    /\ agent' = "running"
    /\ agentCb' = cbFunc
    /\ agentSession' = starts
    /\ agentStrings' = Strings(file, host)
    /\ UNCHANGED <<caller, sync, usrOtaCb, appTaskHandle, lastSessionResult,
                   cbFunc, file, host, allocated, starts, notification,
                   succeeded, toldWaiting>>

\* Mutant of StartFailed: it returns without the cleanup.
StartFailedKeepsStrings ==
    /\ Returns("start.agent", "error")
    /\ UNCHANGED <<cbFunc, file, host, allocated,
                   caller, sync, usrOtaCb, appTaskHandle, lastSessionResult,
                   starts, agentVars>>

\* cy_ota_agent_start() failed, or there is an agent already.
StartFailed ==
    /\ Returns("start.agent", "error")
    /\ Cleanup
    /\ UNCHANGED <<caller, sync, usrOtaCb, appTaskHandle, lastSessionResult,
                   starts, agentVars>>

-----------------------------------------------------------------------------
(* iotc_ota_run(), once iotc_ota_start() has returned                      *)

\* Mutant of RunSetHandle: the handle is taken only once.
RunSetHandleOnce ==
    /\ Goto("run.handle", "run.wait")
    /\ appTaskHandle' = IF appTaskHandle = NoTask THEN caller ELSE appTaskHandle
    /\ UNCHANGED <<caller, sync, usrOtaCb, lastSessionResult, cbFunc, file, host,
                   allocated, lastRet, starts, agentVars>>

RunSetHandle ==
    /\ Goto("run.handle", "run.wait")
    /\ appTaskHandle' = caller
    /\ UNCHANGED <<caller, sync, usrOtaCb, lastSessionResult, cbFunc, file, host,
                   allocated, lastRet, starts, agentVars>>

\* ulTaskNotifyTake(pdTRUE, ...) returns with a notification and clears it.
RunNotified ==
    /\ Goto("run.wait", "run.cleanup")
    /\ notification[caller]
    /\ notification' = [notification EXCEPT ![caller] = FALSE]
    /\ UNCHANGED <<caller, sync, usrOtaCb, appTaskHandle, lastSessionResult,
                   cbFunc, file, host, allocated, lastRet, starts,
                   agent, agentCb, agentSession, agentStrings,
                   succeeded, toldWaiting>>

\* Mutant of RunTimeout: portMAX_DELAY in place of the hour.
RunWaitsForever == FALSE /\ UNCHANGED vars

\* It returns after an hour.
RunTimeout ==
    /\ Goto("run.wait", "run.cleanup")
    /\ ~notification[caller]
    /\ HourIsEnough => agent = "none"
    /\ UNCHANGED <<caller, sync, usrOtaCb, appTaskHandle, lastSessionResult,
                   cbFunc, file, host, allocated, lastRet, starts, agentVars>>

RunCleanup ==
    /\ Returns("run.cleanup", "ok")
    /\ Cleanup
    /\ UNCHANGED <<caller, sync, usrOtaCb, appTaskHandle, lastSessionResult,
                   starts, agentVars>>

-----------------------------------------------------------------------------
(* The agent's task                                                        *)

\* CY_OTA_STATE_OTA_COMPLETE in iotc_ota_callback(): the result first ...
CallbackResult ==
    /\ agent = "running" /\ agentCb = "default"
    /\ agent' = "notify"
    /\ \E ok \in BOOLEAN :
          /\ lastSessionResult' = IF ok THEN "success" ELSE "failure"
          /\ succeeded' = IF ok THEN agentSession ELSE succeeded
    /\ UNCHANGED <<app, caller, sync, usrOtaCb, appTaskHandle, cbFunc, file, host,
                   allocated, lastRet, starts,
                   agentCb, agentSession, agentStrings, notification, toldWaiting>>

\* ... then xTaskNotifyGive(app_task_handle), and the callback stops the agent.
\* With a NULL handle the kernel's assertion fails or, compiled out, the call
\* writes to no task of the application.
CallbackNotify ==
    /\ agent = "notify"
    /\ agent' = "none"
    /\ notification' = [t \in Tasks |-> notification[t] \/ t = appTaskHandle]
    /\ toldWaiting' = IF app = "run.wait" THEN agentSession ELSE toldWaiting
    /\ UNCHANGED <<sdkVars, agentCb, agentSession, agentStrings, succeeded>>

\* The callback stops the agent at CY_OTA_STATE_JOB_CONNECT, for want of a host,
\* a port or a path, or without callback data: no result, no notification.
CallbackStops ==
    /\ agent = "running" /\ agentCb = "default"
    /\ agent' = "none"
    /\ UNCHANGED <<sdkVars, agentCb, agentSession, agentStrings, notification,
                   succeeded, toldWaiting>>

\* The application's own callback can write neither last_session_result nor
\* app_task_handle, which are static.
UserCallbackEnds ==
    /\ agent = "running" /\ agentCb = "user"
    /\ agent' = "none"
    /\ UNCHANGED <<sdkVars, agentCb, agentSession, agentStrings, notification,
                   succeeded, toldWaiting>>

-----------------------------------------------------------------------------

Start == StartCheck \/ StartReset \/ StartCopy \/ StartAgent \/ StartFailed

Run == RunSetHandle \/ RunNotified \/ RunTimeout \/ RunCleanup

Agent == CallbackResult \/ CallbackNotify \/ CallbackStops \/ UserCallbackEnds

Next == OtaCall \/ OtaCleanup \/ Start \/ Run \/ Agent

\* Both tasks run, and the hour passes.  Nothing is asked of the download.
Fairness == WF_vars(Start \/ Run) /\ WF_vars(CallbackNotify)

Spec == Init /\ [][Next]_vars /\ Fairness

-----------------------------------------------------------------------------
(* Properties                                                              *)

AppPoints == {"idle", "start.check", "start.reset", "start.copy", "start.agent",
              "run.handle", "run.wait", "run.cleanup"}

\* Every variable has its type, and the agent has a callback to call.
TypeOK == /\ app \in AppPoints
          /\ caller \in Tasks \union {NoTask}
          /\ sync \in BOOLEAN
          /\ usrOtaCb \in BOOLEAN
          /\ appTaskHandle \in Tasks \union {NoTask}
          /\ lastSessionResult \in {"general", "success", "failure"}
          /\ cbFunc \in {"null", "default", "user"}
          /\ file \in 0..MaxStarts
          /\ host \in 0..MaxStarts
          /\ allocated \subseteq {"file", "host"} \X (1..MaxStarts)
          /\ lastRet \in {"none", "ok", "refused", "error"}
          /\ starts \in 0..MaxStarts
          /\ agent \in {"none", "running", "notify"}
          /\ agentCb \in {"default", "user"} \union (IF agent = "none" THEN {"null"} ELSE {})
          /\ agentSession \in 0..MaxStarts
          /\ agentStrings \subseteq {"file", "host"} \X (1..MaxStarts)
          /\ notification \in [Tasks -> BOOLEAN]
          /\ succeeded \in 0..MaxStarts
          /\ toldWaiting \in 0..MaxStarts

\* Every copy of a URL is freed once and none is lost: what is on the heap is
\* what ota_network_params points to.  After iotc_ota_run(), and after any call
\* that failed beyond the check of its arguments, that is nothing; nor is there
\* anything when a session makes its copies.
UrlAccounted ==
    /\ allocated = Strings(file, host)
    /\ app = "idle" /\ sync /\ lastRet = "ok" => allocated = {}
    /\ app = "idle" /\ lastRet = "error" => allocated = {}
    /\ app = "start.copy" => allocated = {}

\* When a session was started, CY_RSLT_SUCCESS from
\* iotc_ota_get_download_status() speaks of that session, and never of an
\* earlier one, whatever ended early, timed out or was never told.
StatusIsOfThisSession ==
    app = "idle" /\ lastRet = "ok" /\ lastSessionResult = "success"
        => succeeded = starts

\* A completion that comes while iotc_ota_run() waits for it ends the wait: the
\* notification is the caller's, whichever tasks ran sessions before, and the
\* hour is not waited out.
CompletionEndsWait ==
    app = "run.wait" /\ toldWaiting = starts => notification[caller]

\* iotc_ota_run() returns, even when the callback never notifies it.
RunReturns == (app # "idle") ~> (app = "idle")

\* The agent uses the URL for as long as it runs.  The strings are there,
\* because iotc_ota_run() "will block until the OTA agent completes".
UrlInUse == agent = "running" => agentStrings \subseteq allocated

\* While iotc_ota_run() has a session going, its completion is given to the
\* task that called it.
CompletionReachesCaller ==
    agent = "notify" /\ app \in {"run.handle", "run.wait"} => appTaskHandle = caller
=============================================================================
