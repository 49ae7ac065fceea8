-------------------------- MODULE OtaSessionProofs ---------------------------
(***************************************************************************)
(* OtaSession for any tasks and any number of sessions.  The account of    *)
(* the URLs is inductive as it stands, even where sessions overlap.  The   *)
(* status and the wait need that the agent, while there is one, runs for   *)
(* the session started last, which is what Overlaps = FALSE gives.         *)
(***************************************************************************)
EXTENDS OtaSession, TLAPS

Starting == {"start.check", "start.reset", "start.copy", "start.agent"}
Running == {"run.handle", "run.wait", "run.cleanup"}

\* What a call has set up at each of its points.
CallByPoint == /\ app # "idle" => caller \in Tasks /\ starts # 0
               /\ app = "start.agent" => cbFunc # "null"
               /\ app = "run.wait" => appTaskHandle = caller
               /\ lastRet = "ok" => starts # 0

Safe == TypeOK /\ CallByPoint /\ UrlAccounted

\* There is an agent for the session started last, or none.
OneSession == /\ agent # "none" => agentSession = starts
              /\ app \in Starting => agent = "none"

\* last_session_result is reset on the way to the agent; from then on "success"
\* is that of this session.
ResultByPoint ==
    /\ app \in {"start.copy", "start.agent"} => lastSessionResult = "general"
    /\ app \in Running \/ (app = "idle" /\ lastRet = "ok")
         => (lastSessionResult = "success" => succeeded = starts)

\* Nobody has told the caller before it waits.
ToldByPoint == /\ toldWaiting <= starts
               /\ app \in Starting \union {"run.handle"} => toldWaiting < starts

IInv == /\ Safe
        /\ OneSession /\ ResultByPoint /\ ToldByPoint
        /\ StatusIsOfThisSession /\ CompletionEndsWait

-----------------------------------------------------------------------------
(* Strings                                                                 *)

LEMMA StringsOf ==
    ASSUME NEW f \in 0..MaxStarts, NEW h \in 0..MaxStarts
    PROVE  Strings(f, h) \subseteq {"file", "host"} \X (1..MaxStarts)
<1>1. f \in 1..MaxStarts \/ f = 0
  BY StartsAssumption
<1>2. h \in 1..MaxStarts \/ h = 0
  BY StartsAssumption
<1> QED
  BY <1>1, <1>2 DEF Strings

LEMMA NoStrings == Strings(0, 0) = {}
  BY DEF Strings

\* iotc_ota_cleanup() frees what there is, and leaves nothing.
LEMMA CleanupFrees ==
    ASSUME allocated = Strings(file, host), Cleanup
    PROVE  cbFunc' = "null" /\ file' = 0 /\ host' = 0 /\ allocated' = {}
  BY DEF Cleanup

-----------------------------------------------------------------------------
(* Types and URLs, whether or not sessions overlap                         *)

LEMMA SafeStep == ASSUME Safe, Next PROVE Safe'
<1> USE StartsAssumption DEF Goto, Returns, AppPoints, agentVars, sdkVars
<1>0. TypeOK /\ CallByPoint /\ UrlAccounted /\ 0 \in 0..MaxStarts
  BY DEF Safe
<1>1. CASE OtaCall
  <2>1. TypeOK' /\ CallByPoint'
    BY <1>0, <1>1 DEF OtaCall, TypeOK, CallByPoint
  <2>2. UrlAccounted'
    BY <1>0, <1>1 DEF OtaCall, UrlAccounted, Strings
  <2> QED
    BY <2>1, <2>2 DEF Safe
<1>2. CASE StartCheck
  <2>1. TypeOK' /\ CallByPoint'
    BY <1>0, <1>2 DEF StartCheck, TypeOK, CallByPoint
  <2>2. UrlAccounted'
    BY <1>0, <1>2 DEF StartCheck, UrlAccounted, Strings
  <2> QED
    BY <2>1, <2>2 DEF Safe
<1>3. CASE OtaCleanup \/ StartReset \/ StartFailed \/ RunCleanup
  <2>1. cbFunc' = "null" /\ file' = 0 /\ host' = 0 /\ allocated' = {}
    BY <1>0, <1>3, CleanupFrees DEF OtaCleanup, StartReset, StartFailed, RunCleanup, UrlAccounted
  <2>2. /\ app' \in {"idle", "start.copy"}
        /\ lastRet' \in {"none", "ok", "refused", "error"} /\ lastSessionResult' \in {"general", "success", "failure"}
        /\ UNCHANGED <<caller, sync, usrOtaCb, appTaskHandle, starts, agentVars>>
    BY <1>0, <1>3 DEF OtaCleanup, StartReset, StartFailed, RunCleanup, TypeOK
  <2>3. TypeOK'
    BY <1>0, <2>1, <2>2 DEF TypeOK
  <2>4. CallByPoint'
    <3>1. lastRet' = "ok" => starts # 0
      BY <1>0, <1>3 DEF OtaCleanup, StartReset, StartFailed, RunCleanup, CallByPoint
    <3>2. app' # "idle" => app # "idle"
      BY <1>3 DEF OtaCleanup, StartReset, StartFailed, RunCleanup
    <3> QED
      BY <1>0, <2>2, <3>1, <3>2 DEF CallByPoint
  <2>5. UrlAccounted'
    BY <2>1, NoStrings DEF UrlAccounted
  <2> QED
    BY <2>3, <2>4, <2>5 DEF Safe
<1>4. CASE StartCopy
  <2>1. /\ file' \in 0..MaxStarts /\ host' \in 0..MaxStarts
        /\ allocated' = Strings(file', host')
    BY <1>0, <1>4 DEF StartCopy, TypeOK, UrlAccounted
  <2>2. allocated' \subseteq {"file", "host"} \X (1..MaxStarts)
    BY <2>1, StringsOf
  <2>3. /\ app = "start.copy" /\ app' = "start.agent" /\ cbFunc' \in {"user", "default"}
        /\ UNCHANGED <<caller, sync, usrOtaCb, appTaskHandle, lastSessionResult,
                       lastRet, starts, agentVars>>
    BY <1>4 DEF StartCopy
  <2>4. TypeOK'
    BY <1>0, <2>1, <2>2, <2>3 DEF TypeOK
  <2>5. CallByPoint' /\ UrlAccounted'
    BY <1>0, <2>1, <2>3 DEF CallByPoint, UrlAccounted
  <2> QED
    BY <2>4, <2>5 DEF Safe
<1>5. CASE StartAgent
  <2>1. agentStrings' \subseteq {"file", "host"} \X (1..MaxStarts)
    BY <1>0, <1>5, StringsOf DEF StartAgent, TypeOK
  <2>2. /\ app = "start.agent" /\ app' \in {"run.handle", "idle"}
        /\ app' = "idle" => ~sync /\ lastRet' = "ok"
        /\ lastRet' \in {"none", "ok", "refused", "error"}
        /\ agent' = "running" /\ agentCb' = cbFunc /\ agentSession' = starts
        /\ UNCHANGED <<caller, sync, usrOtaCb, appTaskHandle, lastSessionResult, cbFunc,
                       file, host, allocated, starts, notification, succeeded, toldWaiting>>
    BY <1>0, <1>5 DEF StartAgent, TypeOK
  <2>3. agentCb' \in {"default", "user"}
    BY <1>0, <2>2 DEF TypeOK, CallByPoint
  <2>4. TypeOK'
    BY <1>0, <2>1, <2>2, <2>3 DEF TypeOK
  <2>5. CallByPoint' /\ UrlAccounted'
    BY <1>0, <2>2 DEF CallByPoint, UrlAccounted, Strings
  <2> QED
    BY <2>4, <2>5 DEF Safe
<1>6. CASE RunSetHandle \/ RunNotified \/ RunTimeout
  <2>1. TypeOK' /\ CallByPoint'
    BY <1>0, <1>6 DEF RunSetHandle, RunNotified, RunTimeout, TypeOK, CallByPoint
  <2>2. UrlAccounted'
    BY <1>0, <1>6 DEF RunSetHandle, RunNotified, RunTimeout, UrlAccounted, Strings
  <2> QED
    BY <2>1, <2>2 DEF Safe
<1>7. CASE Agent
  <2>1. TypeOK'
    BY <1>0, <1>7 DEF Agent, CallbackResult, CallbackNotify, CallbackStops, UserCallbackEnds,
                      TypeOK
  <2>2. CallByPoint' /\ UrlAccounted'
    BY <1>0, <1>7 DEF Agent, CallbackResult, CallbackNotify, CallbackStops, UserCallbackEnds,
                      CallByPoint, UrlAccounted, Strings
  <2> QED
    BY <2>1, <2>2 DEF Safe
<1> QED
  BY <1>1, <1>2, <1>3, <1>4, <1>5, <1>6, <1>7 DEF Next, Start, Run

LEMMA SafeStutter == ASSUME Safe, UNCHANGED vars PROVE Safe'
  BY DEF vars, sdkVars, agentVars, Safe, TypeOK, CallByPoint, UrlAccounted, Strings

LEMMA InitSafe == Init => Safe
<1> SUFFICES ASSUME Init PROVE Safe
  OBVIOUS
<1>1. 0 \in 0..MaxStarts
  BY StartsAssumption
<1>2. TypeOK /\ CallByPoint
  BY <1>1 DEF Init, TypeOK, CallByPoint, AppPoints
<1>3. UrlAccounted
  BY NoStrings DEF Init, UrlAccounted
<1> QED
  BY <1>2, <1>3 DEF Safe

-----------------------------------------------------------------------------
(* The status and the wait                                                 *)

LEMMA OneSessionStep ==
    ASSUME IInv, Next, Overlaps = FALSE
    PROVE  OneSession'
<1> USE DEF Goto, Returns, agentVars, sdkVars, Starting
<1>0. OneSession /\ TypeOK
  BY DEF IInv, Safe
<1>1. CASE OtaCall \/ OtaCleanup
  BY <1>0, <1>1 DEF OtaCall, OtaCleanup, OneSession
<1>2. CASE Start
  BY <1>0, <1>2 DEF Start, StartCheck, StartReset, StartCopy, StartAgent, StartFailed, OneSession
<1>3. CASE Run
  BY <1>0, <1>3 DEF Run, RunSetHandle, RunNotified, RunTimeout, RunCleanup, OneSession
<1>4. CASE Agent
  BY <1>0, <1>4 DEF Agent, CallbackResult, CallbackNotify, CallbackStops, UserCallbackEnds,
                    OneSession
<1> QED
  BY <1>1, <1>2, <1>3, <1>4 DEF Next

\* The last call is over where StatusIsOfThisSession speaks of it.
LEMMA ResultStep ==
    ASSUME IInv, Next, Overlaps = FALSE
    PROVE  ResultByPoint' /\ StatusIsOfThisSession'
<1> USE DEF Goto, Returns, agentVars, sdkVars, Running
<1>0. OneSession /\ ResultByPoint
  BY DEF IInv
<1> SUFFICES ResultByPoint'
  BY DEF ResultByPoint, StatusIsOfThisSession
<1>1. CASE OtaCall \/ OtaCleanup
  BY <1>0, <1>1 DEF OtaCall, OtaCleanup, ResultByPoint
<1>2. CASE Start
  BY <1>0, <1>2 DEF Start, StartCheck, StartReset, StartCopy, StartAgent, StartFailed,
                    ResultByPoint
<1>3. CASE Run
  BY <1>0, <1>3 DEF Run, RunSetHandle, RunNotified, RunTimeout, RunCleanup, ResultByPoint
<1>4. CASE CallbackResult
  BY <1>0, <1>4 DEF CallbackResult, OneSession, ResultByPoint, Starting
<1>5. CASE CallbackNotify \/ CallbackStops \/ UserCallbackEnds
  BY <1>0, <1>5 DEF CallbackNotify, CallbackStops, UserCallbackEnds, ResultByPoint
<1> QED
  BY <1>1, <1>2, <1>3, <1>4, <1>5 DEF Next, Agent

LEMMA WaitStep ==
    ASSUME IInv, Next, Overlaps = FALSE
    PROVE  ToldByPoint' /\ CompletionEndsWait'
<1> USE DEF Goto, Returns, agentVars, sdkVars, Starting
<1>0. /\ OneSession /\ ToldByPoint /\ CompletionEndsWait /\ CallByPoint
      /\ starts \in Nat /\ toldWaiting \in Nat /\ notification \in [Tasks -> BOOLEAN]
  BY StartsAssumption DEF IInv, Safe, TypeOK
<1>1. CASE OtaCall \/ OtaCleanup
  BY <1>0, <1>1 DEF OtaCall, OtaCleanup, ToldByPoint, CompletionEndsWait
<1>2. CASE Start
  BY <1>0, <1>2 DEF Start, StartCheck, StartReset, StartCopy, StartAgent, StartFailed,
                    ToldByPoint, CompletionEndsWait
<1>3. CASE Run
  BY <1>0, <1>3 DEF Run, RunSetHandle, RunNotified, RunTimeout, RunCleanup,
                    ToldByPoint, CompletionEndsWait
<1>4. CASE CallbackNotify
  <2>1. /\ UNCHANGED <<app, caller, starts, appTaskHandle>>
        /\ notification' = [t \in Tasks |-> notification[t] \/ t = appTaskHandle]
        /\ toldWaiting' = IF app = "run.wait" THEN agentSession ELSE toldWaiting
        /\ agentSession = starts
    BY <1>0, <1>4 DEF CallbackNotify, OneSession
  <2>2. ToldByPoint'
    BY <1>0, <2>1 DEF ToldByPoint
  <2>3. app = "run.wait" => notification'[caller]
    BY <1>0, <2>1 DEF CallByPoint
  <2> QED
    BY <2>1, <2>2, <2>3 DEF CompletionEndsWait
<1>5. CASE CallbackResult \/ CallbackStops \/ UserCallbackEnds
  BY <1>0, <1>5 DEF CallbackResult, CallbackStops, UserCallbackEnds, ToldByPoint,
                    CompletionEndsWait
<1> QED
  BY <1>1, <1>2, <1>3, <1>4, <1>5 DEF Next, Agent

LEMMA InitIInv == Init => IInv
<1> SUFFICES ASSUME Init PROVE IInv
  OBVIOUS
<1>1. OneSession /\ ResultByPoint /\ ToldByPoint /\ StatusIsOfThisSession /\ CompletionEndsWait
  BY DEF Init, OneSession, ResultByPoint, ToldByPoint, StatusIsOfThisSession,
         CompletionEndsWait, Starting, Running
<1> QED
  BY <1>1, InitSafe DEF IInv

LEMMA StepIInv == ASSUME Overlaps = FALSE
                  PROVE  IInv /\ [Next]_vars => IInv'
<1>1. ASSUME IInv, Next PROVE IInv'
  BY <1>1, SafeStep, OneSessionStep, ResultStep, WaitStep DEF IInv
<1>2. ASSUME IInv, UNCHANGED vars PROVE IInv'
  <2>1. Safe'
    BY <1>2, SafeStutter DEF IInv
  <2> QED
    BY <1>2, <2>1 DEF vars, sdkVars, agentVars, IInv, OneSession, ResultByPoint, ToldByPoint,
                      StatusIsOfThisSession, CompletionEndsWait
<1> QED
  BY <1>1, <1>2

-----------------------------------------------------------------------------
(* The theorems                                                            *)

LEMMA SafeAlways == Spec => []Safe
<1>1. Safe /\ [Next]_vars => Safe'
  BY SafeStep, SafeStutter
<1> QED
  BY InitSafe, <1>1, PTL DEF Spec

\* Every variable keeps its type, and no agent is started without a callback.
THEOREM TypeCorrect == Spec => []TypeOK
<1>1. Safe => TypeOK
  BY DEF Safe
<1> QED
  BY SafeAlways, <1>1, PTL

\* The copies of the URL are what ota_network_params points to, whichever of
\* them failed, and nothing is left of a session that iotc_ota_run() ran; even
\* if the application starts one while an agent runs.
THEOREM UrlsAreFreed == Spec => []UrlAccounted
<1>1. Safe => UrlAccounted
  BY DEF Safe
<1> QED
  BY SafeAlways, <1>1, PTL

\* A success that iotc_ota_get_download_status() reports is that of the
\* session started last.
THEOREM StatusIsCurrent == ASSUME Overlaps = FALSE
                           PROVE  Spec => []StatusIsOfThisSession
<1>1. IInv => StatusIsOfThisSession
  BY DEF IInv
<1> QED
  BY InitIInv, StepIInv, <1>1, PTL DEF Spec

\* A completion that finds iotc_ota_run() waiting for it has notified its task,
\* whatever was notified, timed out or never told before.
THEOREM WaitIsEnded == ASSUME Overlaps = FALSE
                       PROVE  Spec => []CompletionEndsWait
<1>1. IInv => CompletionEndsWait
  BY DEF IInv
<1> QED
  BY InitIInv, StepIInv, <1>1, PTL DEF Spec
=============================================================================
