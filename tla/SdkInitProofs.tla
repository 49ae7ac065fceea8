---------------------------- MODULE SdkInitProofs -----------------------------
(***************************************************************************)
(* What SdkSession does before it has a session, for any sizes, retries    *)
(* and numbers of sessions and whatever the application does: the          *)
(* credentials, and the two requests for the identity.                     *)
(***************************************************************************)
EXTENDS SdkSessionProofs

\* Where the client and iotconnect_sdk_disconnect() may return to.
ReturnsKnown == /\ cleanupTo \in {"conn.failed", "disc.done"}
                /\ discTo \in {"off", "fini.flush1", "poll.get"}

\* The points of the two functions that run before a session.
Before == GC!GenPoints \union HI!IdentityPoints

LEMMA ReturnsKnownStep ==
    ASSUME ReturnsKnown, [Next]_vars
    PROVE  ReturnsKnown'
<1> USE DEF ReturnsKnown, QueueStep, ClientStep, IdentityStep, GenStep, SdkStep, sdkVars, clientVars
<1>1. CASE AppCall
  BY <1>1 DEF AppCall, Generate, SdkInit, SdkConnect, SdkPollCall, SdkDisconnect, SdkDeinit
<1>2. CASE SdkQualify \/ SdkCallbackDisconnects \/ SdkDeinitEnter \/ SdkDeinitConfig
  BY <1>2 DEF SdkQualify, SdkCallbackDisconnects, SdkDeinitEnter, SdkDeinitConfig
<1>3. CASE SdkInitCheck \/ SdkInitIdentity \/ SdkConnected \/ SdkConnectFailed \/ Generating
  BY <1>3 DEF SdkInitCheck, SdkInitIdentity, SdkConnected, SdkConnectFailed, Generating
<1>4. CASE SdkPoll \/ SdkPollTimeout \/ SdkDisconnectQueue \/ SdkDisconnected \/ SdkDeinitQueue
  BY <1>4 DEF SdkPoll, SdkPollTimeout, SdkDisconnectQueue, SdkDisconnected, SdkDeinitQueue
<1>5. CASE ClientApp
  BY <1>5, ClientPointsStep DEF ClientApp
<1>6. CASE InboundCall \/ InboundQueue \/ InboundReturn
  BY <1>6 DEF InboundCall, InboundQueue, InboundReturn
<1>7. CASE ClientEvent \/ Broker
  BY <1>7, EventPointsStep DEF ClientEvent, Broker
<1>8. CASE Halt \/ UNCHANGED vars
  BY <1>8 DEF Halt, vars
<1> QED
  BY <1>1, <1>2, <1>3, <1>4, <1>5, <1>6, <1>7, <1>8 DEF Next, AppStep, RxStep

\* All other steps keep to other points, and to other variables.
LEMMA OtherStep ==
    ASSUME ReturnsKnown, [Next]_vars
    PROVE  \/ Generate \/ Generating \/ SdkInit \/ SdkInitCheck \/ SdkInitIdentity
           \/ SdkDeinit \/ SdkDeinitConfig
           \/ /\ UNCHANGED app \/ {app, app'} \intersect (Before \union {"none"}) = {}
              /\ UNCHANGED <<identityVars, genVars>>
<1> USE DEF ReturnsKnown, QueueStep, ClientStep, IdentityStep, GenStep, SdkStep,
            Before, GC!GenPoints, HI!IdentityPoints, HI!HttpPoints, AppGoto, MQ!AppGoto
<1>1. CASE SdkConnect \/ SdkPollCall \/ SdkDisconnect
  BY <1>1 DEF SdkConnect, SdkPollCall, MQ!ProcessEnter, SdkDisconnect
<1>2. CASE SdkConnected \/ SdkConnectFailed \/ SdkDisconnected \/ SdkDeinitEnter
  BY <1>2 DEF SdkConnected, MQ!Register, SdkConnectFailed, SdkDisconnected, SdkDeinitEnter
<1>3. CASE SdkPoll \/ SdkPollTimeout \/ SdkQualify \/ SdkCallbackDisconnects
  BY <1>3 DEF SdkPoll, SdkPollTimeout, MQ!GetMessage, MQ!GetTimeout, MQ!DispatchTo, SdkQualify,
              SdkCallbackDisconnects
<1>4. CASE SdkDisconnectQueue \/ SdkDeinitQueue
  BY <1>4 DEF SdkDisconnectQueue, SdkDeinitQueue, MQ!FlushOne, MQ!FlushDone, MQ!ClearCallback,
              MQ!DeleteQueue
<1>5. CASE ClientApp
  BY <1>5, ClientPointsStep DEF ClientApp, ClientPoints, MC!Connecting, MC!Cleaning
<1>6. CASE InboundCall \/ InboundQueue \/ InboundReturn
  BY <1>6, InboundPointsStep DEF InboundCall, InboundQueue, InboundReturn, RxGoto
<1>7. CASE ClientEvent \/ Broker
  BY <1>7, EventPointsStep DEF ClientEvent, Broker
<1>8. CASE Halt \/ UNCHANGED vars
  BY <1>8 DEF Halt, vars
<1> QED
  BY <1>1, <1>2, <1>3, <1>4, <1>5, <1>6, <1>7, <1>8 DEF Next, AppCall, AppStep, RxStep

-----------------------------------------------------------------------------
(* The credentials                                                         *)

\* What iotc_x509_generate_credentials() holds and has written, by its points.
KeyPoints == {"gen.seed", "gen.generate", "gen.keypem"}

GenByPoint ==
    /\ app \notin GC!GenPoints \ {"gen.setup"} => contexts = {} /\ pems = {}
    /\ app \in KeyPoints => contexts = {"key", "entropy", "drbg"} /\ pems = {}
    /\ app = "gen.keyexit" => /\ contexts \subseteq {"key", "entropy", "drbg"}
                              /\ genOk => "key" \in contexts /\ pems = {"key"}
    /\ app \in {"gen.fill", "gen.certpem"} => "key" \in contexts /\ pems = {"key"}
    /\ app = "gen.fill" => contexts = {"key"}
    /\ app \in {"gen.certpem", "gen.certexit"} => contexts = {"key", "serial", "drbg", "crt"}
    /\ app = "gen.certexit" => (genOk => pems = {"key", "cert"})
    /\ app = "gen.done" => /\ contexts \subseteq {"key"}
                           /\ genOk => pems = {"key", "cert"} /\ contexts = {"key"}

LEMMA GenByPointStep ==
    ASSUME ReturnsKnown, GenByPoint, [Next]_vars
    PROVE  GenByPoint'
<1> USE DEF GenByPoint, KeyPoints, GC!GenPoints
<1>1. CASE Generate
  BY <1>1 DEF Generate, GenStep, GC!GenCall, GC!AppGoto, GC!genVars
<1>2. CASE Generating
  <2> USE DEF GC!AppGoto, GC!Attempt
  <2>1. CASE GC!KeySetup
    BY <2>1 DEF GC!KeySetup
  <2>2. CASE GC!KeyGenerate \/ GC!KeyWrite
    BY <2>2 DEF GC!KeyGenerate, GC!KeyWrite
  <2>3. CASE GC!KeyExit
    BY <2>3 DEF GC!KeyExit
  <2>4. CASE GC!CertFill
    BY <2>4 DEF GC!CertFill
  <2>5. CASE GC!CertWrite
    BY <2>5 DEF GC!CertWrite
  <2>6. CASE GC!CertExit
    BY <2>6 DEF GC!CertExit
  <2>7. CASE GC!GenReturn("none")
    BY <2>7 DEF GC!GenReturn
  <2> QED
    BY <1>2, <2>1, <2>2, <2>3, <2>4, <2>5, <2>6, <2>7 DEF Generating, GenStep, GC!GenStep
<1>3. CASE SdkInit
  BY <1>3 DEF SdkInit, MQ!InitQueue, MQ!AppGoto, genVars
<1>4. CASE SdkInitCheck \/ SdkDeinit \/ SdkDeinitConfig
  BY <1>4 DEF SdkInitCheck, SdkStep, SdkDeinit, SdkDeinitConfig, AppGoto, genVars
<1>5. CASE SdkInitIdentity
  BY <1>5, IdentityPointsStep DEF SdkInitIdentity, IdentityStep, HI!IdentityPoints,
     HI!HttpPoints, genVars
<1>6. CASE /\ UNCHANGED app \/ {app, app'} \intersect (Before \union {"none"}) = {}
           /\ UNCHANGED <<identityVars, genVars>>
  BY <1>6 DEF Before, genVars
<1> QED
  BY <1>1, <1>2, <1>3, <1>4, <1>5, <1>6, OtherStep

LEMMA CredentialsAccountedStep == GenByPoint => CredentialsAccounted
  BY DEF GenByPoint, CredentialsAccounted, GC!CredentialsAccounted

-----------------------------------------------------------------------------
(* The identity of the device                                              *)

Answerable == {"http.disconnect", "http.delete", "http.deinit", "id.validate", "id.parse",
               "id.configure", "id.cleanup"}
OnConnection == {"http.send", "http.disconnect"}
OnObject == OnConnection \union {"http.connect", "http.delete"}

\* An answer in response is that of the request being made, and is all that is
\* on the heap.
AnswerByPoint ==
    /\ request \in HI!Requests
    /\ data \in {HI!NoBody} \union (HI!Requests \X BOOLEAN)
    /\ data # HI!NoBody => data[1] = request /\ (data[2] => request \in answered)
    /\ app \notin Answerable => data = HI!NoBody
    /\ bodies = {data} \ {HI!NoBody}

\* Which answers there have been, when the second request or its result is used.
IdentityByPoint ==
    /\ answered \subseteq HI!Requests
    /\ request = "identity" => "discovery" \in answered
    /\ app \in {"id.parse", "id.configure"} => HI!IsJson(data)
    /\ app = "id.configure" => request = "identity"
    /\ app \notin HI!IdentityPoints \ {"init.library", "id.url"} => urls = {}
    /\ identityOk \in BOOLEAN
    /\ identityOk => app = "id.cleanup" /\ answered = HI!Requests /\ iotcl = "configured"

\* What there is of the HTTP client.
HttpByPoint ==
    /\ app \in HI!HttpPoints <=> httpLib = TRUE
    /\ httpLib \in BOOLEAN
    /\ app \in OnConnection => httpObject = "connected"
    /\ app \in OnObject => httpObject # "none"
    /\ app \notin OnObject => httpObject = "none"

IdentityInv == AnswerByPoint /\ IdentityByPoint /\ HttpByPoint

LEMMA NotABody == \A r, j : <<r, j>> # HI!NoBody
  BY DEF HI!NoBody

\* The steps of run_http_identity(), one by one.
LEMMA InIdentityStep ==
    ASSUME IdentityInv, HI!InitLibrary \/ HI!RunIdentity("off", "fini.enter")
    PROVE  IdentityInv'
<1> USE NotABody
        DEF IdentityInv, AnswerByPoint, IdentityByPoint, HttpByPoint, Answerable, OnConnection,
            OnObject, HI!Requests, HI!IdentityPoints, HI!HttpPoints, HI!AppGoto, HI!httpVars,
            HI!identityVars
<1>1. CASE HI!InitLibrary
  BY <1>1 DEF HI!InitLibrary
<1>2. CASE HI!DiscoveryUrl("fini.enter")
  BY <1>2 DEF HI!DiscoveryUrl
<1>3. CASE HI!RequestBegin
  BY <1>3 DEF HI!RequestBegin
<1>4. CASE HI!RequestCreate
  BY <1>4 DEF HI!RequestCreate
<1>5. CASE HI!RequestConnect
  BY <1>5 DEF HI!RequestConnect
<1>6. CASE HI!RequestSend
  <2>1. AnswerByPoint'
    BY <1>6 DEF HI!RequestSend, HI!Body, HI!IsJson
  <2>2. IdentityByPoint'
    BY <1>6 DEF HI!RequestSend, HI!Body, HI!IsJson
  <2>3. HttpByPoint'
    BY <1>6 DEF HI!RequestSend, HI!Body, HI!IsJson
  <2> QED
    BY <2>1, <2>2, <2>3
<1>7. CASE HI!RequestDisconnect \/ HI!RequestDelete
  <2>1. AnswerByPoint'
    BY <1>7 DEF HI!RequestDisconnect, HI!RequestDelete
  <2>2. IdentityByPoint'
    <3>1. UNCHANGED <<data, request, identityOk, urls, iotcl, answered>> /\ app \in HI!HttpPoints /\ app' \in HI!HttpPoints
      BY <1>7 DEF HI!RequestDisconnect, HI!RequestDelete
    <3>2. (app' \notin HI!IdentityPoints \ {"init.library", "id.url"} => urls' = {})
      BY <3>1
    <3>3. ~identityOk'
      BY <3>1
    <3> QED
      BY <3>1, <3>2, <3>3
  <2>3. HttpByPoint'
    BY <1>7 DEF HI!RequestDisconnect, HI!RequestDelete
  <2> QED
    BY <2>1, <2>2, <2>3
<1>8. CASE HI!RequestEnd
  BY <1>8 DEF HI!RequestEnd
<1>9. CASE HI!Validate
  BY <1>9 DEF HI!Validate, HI!AfterRequest, HI!IsJson
<1>10. CASE HI!ParseDiscovery
  <2>1. AnswerByPoint'
    BY <1>10 DEF HI!ParseDiscovery, HI!FreeResponse, HI!IsJson
  <2>2. IdentityByPoint'
    <3>1. /\ app = "id.parse" /\ app' \in {"http.init", "id.cleanup"}
          /\ UNCHANGED <<answered, identityOk, iotcl>>
          /\ request' \in {request, "identity"}
      BY <1>10 DEF HI!ParseDiscovery
    <3>2. "discovery" \in answered /\ ~identityOk
      BY <3>1 DEF HI!IsJson
    <3> QED
      BY <3>1, <3>2
  <2>3. HttpByPoint'
    BY <1>10 DEF HI!ParseDiscovery, HI!FreeResponse, HI!IsJson
  <2> QED
    BY <2>1, <2>2, <2>3
<1>11. CASE HI!Configure
  <2>1. AnswerByPoint'
    BY <1>11 DEF HI!Configure, HI!IsJson
  <2>2. IdentityByPoint'
    <3>1. app = "id.configure" /\ app' = "id.cleanup" /\ UNCHANGED <<data, request, urls, answered>>
      BY <1>11 DEF HI!Configure
    <3>2. answered = HI!Requests
      BY <3>1 DEF HI!IsJson
    <3>3. identityOk' \in BOOLEAN /\ (identityOk' => iotcl' = "configured")
      BY <1>11 DEF HI!Configure
    <3> QED
      BY <3>1, <3>2, <3>3
  <2>3. HttpByPoint'
    BY <1>11 DEF HI!Configure, HI!IsJson
  <2> QED
    BY <2>1, <2>2, <2>3
<1>12. CASE HI!IdentityEnd("off", "fini.enter")
  BY <1>12 DEF HI!IdentityEnd, HI!FreeResponse
<1> QED
  BY <1>1, <1>2, <1>3, <1>4, <1>5, <1>6, <1>7, <1>8, <1>9, <1>10, <1>11, <1>12
     DEF HI!RunIdentity, HI!HttpsRequest

\* No other step touches what the identity has, but to clear the library.
LEMMA OutsideIdentity ==
    ASSUME ReturnsKnown, [Next]_vars, ~SdkInitIdentity
    PROVE  /\ UNCHANGED <<httpLib, httpObject, httpTries, httpOk, data,
                          request, identityOk, urls, bodies, answered>>
           /\ \/ UNCHANGED <<app, iotcl>>
              \/ /\ app \notin HI!IdentityPoints
                 /\ app' \notin HI!IdentityPoints \ {"init.library"}
<1> USE DEF HI!IdentityPoints, HI!HttpPoints, AppGoto, identityVars
<1>1. CASE Generate
  BY <1>1 DEF Generate, GenStep, GC!GenCall, GC!AppGoto
<1>2. CASE Generating
  BY <1>2, GenPointsStep DEF Generating, GenStep, GC!GenPoints
<1>3. CASE SdkInit
  BY <1>3 DEF SdkInit, MQ!InitQueue, MQ!AppGoto
<1>4. CASE SdkInitCheck \/ SdkDeinit
  BY <1>4 DEF SdkInitCheck, SdkDeinit, SdkStep
<1>5. CASE SdkDeinitConfig
  BY <1>5 DEF SdkDeinitConfig, HI!LibraryOff, HI!httpVars
<1>6. CASE /\ UNCHANGED app \/ {app, app'} \intersect (Before \union {"none"}) = {}
           /\ UNCHANGED <<identityVars, genVars>>
  BY <1>6 DEF Before
<1> QED
  BY <1>1, <1>2, <1>3, <1>4, <1>5, <1>6, OtherStep

LEMMA IdentityInvStep ==
    ASSUME ReturnsKnown, IdentityInv, [Next]_vars
    PROVE  IdentityInv'
<1>1. CASE SdkInitIdentity
  BY <1>1, InIdentityStep DEF SdkInitIdentity, IdentityStep
<1>2. CASE ~SdkInitIdentity
  <2> USE DEF IdentityInv, HI!IdentityPoints, HI!HttpPoints
  <2>1. AnswerByPoint'
    BY <1>2, OutsideIdentity DEF AnswerByPoint, Answerable
  <2>2. IdentityByPoint'
    BY <1>2, OutsideIdentity DEF IdentityByPoint, HI!IsJson
  <2>3. HttpByPoint'
    BY <1>2, OutsideIdentity DEF HttpByPoint, OnConnection, OnObject
  <2> QED
    BY <2>1, <2>2, <2>3
<1> QED
  BY <1>1, <1>2
-----------------------------------------------------------------------------
(* The types                                                               *)

\* The tasks keep to their program points.
PointsOK == app \in AppPoints /\ rx \in MC!Handling \union MQ!RxPoints

LEMMA PointsStep ==
    ASSUME ReturnsKnown, PointsOK, [Next]_vars
    PROVE  PointsOK'
<1> USE DEF ReturnsKnown, PointsOK, AppPoints, QueueStep, ClientStep, IdentityStep, GenStep, SdkStep,
            MQ!RxPoints, MQ!InFlight, AppGoto, MQ!AppGoto
<1>1. CASE Generate \/ SdkInit \/ SdkConnect \/ SdkPollCall \/ SdkDisconnect \/ SdkDeinit
  BY <1>1 DEF Generate, GC!GenCall, GC!AppGoto, GC!GenPoints, SdkInit, MQ!InitQueue, SdkConnect,
              MC!Connecting, SdkPollCall, MQ!ProcessEnter, SdkDisconnect, SdkDeinit
<1>2. CASE Generating
  BY <1>2, GenPointsStep DEF Generating
<1>3. CASE SdkInitIdentity
  BY <1>3, IdentityPointsStep DEF SdkInitIdentity
<1>4. CASE SdkInitCheck \/ SdkConnected \/ SdkConnectFailed \/ SdkDisconnected
  BY <1>4 DEF SdkInitCheck, HI!IdentityPoints, SdkConnected, MQ!Register, SdkConnectFailed,
              SdkDisconnected
<1>5. CASE SdkPoll \/ SdkPollTimeout \/ SdkQualify \/ SdkCallbackDisconnects
  BY <1>5 DEF SdkPoll, SdkPollTimeout, MQ!GetMessage, MQ!GetTimeout, MQ!DispatchTo, SdkQualify,
              SdkCallbackDisconnects
<1>6. CASE SdkDisconnectQueue \/ SdkDeinitQueue
  BY <1>6 DEF SdkDisconnectQueue, SdkDeinitQueue, MQ!FlushOne, MQ!FlushDone, MQ!ClearCallback,
              MQ!DeleteQueue, MC!Cleaning
<1>7. CASE SdkDeinitEnter \/ SdkDeinitConfig
  BY <1>7 DEF SdkDeinitEnter, SdkDeinitConfig
<1>8. CASE ClientApp
  BY <1>8, ClientPointsStep DEF ClientApp, ClientPoints, MC!Connecting, MC!Cleaning
<1>9. CASE InboundCall \/ InboundQueue \/ InboundReturn
  BY <1>9, InboundPointsStep DEF InboundCall, InboundQueue, InboundReturn, RxGoto, MC!Handling
<1>10. CASE ClientEvent \/ Broker
  BY <1>10, EventPointsStep DEF ClientEvent, Broker
<1>11. CASE Halt \/ UNCHANGED vars
  BY <1>11 DEF Halt, vars
<1> QED
  BY <1>1, <1>2, <1>3, <1>4, <1>5, <1>6, <1>7, <1>8, <1>9, <1>10, <1>11
     DEF Next, AppCall, AppStep, RxStep

LEMMA IdentityTypeStep ==
    ASSUME ReturnsKnown, IdentityInv, HI!TypeOK, [Next]_vars
    PROVE  HI!TypeOK'
<1>1. CASE SdkInitIdentity
  <2> USE HttpRetriesAssumption DEF HI!TypeOK, HI!Requests, HI!AppGoto, HI!httpVars, HI!identityVars
  <2>1. CASE HI!InitLibrary \/ HI!DiscoveryUrl("fini.enter") \/ HI!Validate \/ HI!Configure
    BY <2>1 DEF HI!InitLibrary, HI!DiscoveryUrl, HI!Validate, HI!Configure
  <2>2. CASE HI!RequestBegin \/ HI!RequestCreate
    <3>1. httpLib' \in BOOLEAN /\ httpOk' \in BOOLEAN
      BY <2>2 DEF HI!RequestBegin, HI!RequestCreate
    <3>2. data' \in {HI!NoBody, data} /\ httpTries' \in {0, httpTries}
      BY <2>2 DEF HI!RequestBegin, HI!RequestCreate
    <3>3. /\ httpObject' \in {"none", "created", "connected"}
          /\ UNCHANGED <<request, identityOk, urls, bodies, iotcl, answered>>
      BY <2>2 DEF HI!RequestBegin, HI!RequestCreate
    <3> QED
      BY <3>1, <3>2, <3>3
  <2>3. CASE HI!RequestConnect
    BY <2>3 DEF HI!RequestConnect
  <2>4. CASE HI!RequestSend
    <3>1. data' \in {data} \union (HI!Requests \X BOOLEAN)
      BY <2>4 DEF HI!RequestSend, HI!Body
    <3>2. bodies' \subseteq HI!Requests \X BOOLEAN
      BY <2>4 DEF HI!RequestSend, HI!Body
    <3>3. answered' \subseteq HI!Requests
      <4>1. answered' \in {answered, answered \union {request}}
        BY <2>4 DEF HI!RequestSend
      <4> QED
        BY <4>1
    <3>4. UNCHANGED <<httpLib, httpObject, httpTries, httpOk, request, identityOk, urls, iotcl>>
      BY <2>4 DEF HI!RequestSend
    <3> QED
      BY <3>1, <3>2, <3>3, <3>4
  <2>5. CASE HI!RequestDisconnect \/ HI!RequestDelete \/ HI!RequestEnd
    BY <2>5 DEF HI!RequestDisconnect, HI!RequestDelete, HI!RequestEnd
  <2>6. CASE HI!ParseDiscovery
    BY <2>6 DEF HI!ParseDiscovery, HI!FreeResponse
  <2>7. CASE HI!IdentityEnd("off", "fini.enter")
    <3>1. /\ data' = HI!NoBody /\ bodies' \subseteq bodies /\ urls' = {} /\ answered' = {}
          /\ httpTries' = 0 /\ request' = "discovery"
          /\ UNCHANGED <<httpLib, httpObject, iotcl>>
      BY <2>7 DEF HI!IdentityEnd, HI!FreeResponse
    <3>2. httpOk' \in BOOLEAN /\ identityOk' \in BOOLEAN
      BY <2>7 DEF HI!IdentityEnd
    <3> QED
      BY <3>1, <3>2
  <2> QED
    BY <1>1, <2>1, <2>2, <2>3, <2>4, <2>5, <2>6, <2>7
       DEF SdkInitIdentity, IdentityStep, HI!RunIdentity, HI!HttpsRequest
<1>2. CASE ~SdkInitIdentity
  <2>1. iotcl' \in {iotcl, "off"}
    <3>1. CASE \/ Generate \/ Generating \/ SdkInit \/ SdkInitCheck \/ SdkDeinit
               \/ SdkDeinitConfig
      BY <3>1 DEF Generate, Generating, GenStep, SdkInit, SdkInitCheck, SdkStep, SdkDeinit,
                  SdkDeinitConfig,
                  HI!LibraryOff, identityVars
    <3> QED
      BY <1>2, <3>1, OtherStep DEF identityVars
  <2> QED
    BY <1>2, <2>1, OutsideIdentity DEF HI!TypeOK
<1> QED
  BY <1>1, <1>2

LEMMA GenTypeStep ==
    ASSUME ReturnsKnown, GC!TypeOK, [Next]_vars
    PROVE  GC!TypeOK'
<1> USE DEF GC!TypeOK, genVars, IdentityStep, SdkStep
<1>1. CASE Generate \/ Generating
  BY <1>1 DEF Generate, Generating, GenStep, GC!GenCall, GC!GenStep, GC!GenReturn, GC!KeySetup,
              GC!KeyGenerate, GC!KeyWrite, GC!KeyExit, GC!CertFill, GC!CertWrite, GC!CertExit,
              GC!Attempt, GC!genVars
<1>2. CASE SdkInit \/ SdkInitCheck \/ SdkInitIdentity \/ SdkDeinit \/ SdkDeinitConfig
  BY <1>2 DEF SdkInit, SdkInitCheck, SdkInitIdentity, SdkDeinit, SdkDeinitConfig
<1> QED
  BY <1>1, <1>2, OtherStep

\* The variables of iotconnect.c, and the two histories.
SdkTypeOK == /\ configSet \in BOOLEAN
             /\ halted \in BOOLEAN
             /\ session \in 0..MaxSessions
             /\ born \in [1..MaxMessages -> 0..MaxSessions]

LEMMA SdkTypeStep ==
    ASSUME SdkTypeOK, [Next]_vars
    PROVE  SdkTypeOK'
<1> USE SessionsAssumption
        DEF SdkTypeOK, Running, QueueStep, ClientStep, IdentityStep, GenStep, SdkStep, sdkVars
<1>1. CASE Generate \/ SdkInit \/ SdkPollCall \/ SdkDisconnect \/ SdkDeinit
  BY <1>1 DEF Generate, SdkInit, SdkPollCall, SdkDisconnect, SdkDeinit
<1>2. CASE SdkConnect
  BY <1>2 DEF SdkConnect
<1>3. CASE InboundCall
  BY <1>3 DEF InboundCall
<1>4. CASE SdkInitCheck \/ SdkInitIdentity \/ SdkConnected \/ SdkConnectFailed \/ Generating
  BY <1>4 DEF SdkInitCheck, SdkInitIdentity, SdkConnected, SdkConnectFailed, Generating
<1>5. CASE SdkPoll \/ SdkPollTimeout \/ SdkQualify \/ SdkCallbackDisconnects
  BY <1>5 DEF SdkPoll, SdkPollTimeout, SdkQualify, SdkCallbackDisconnects
<1>6. CASE SdkDisconnectQueue \/ SdkDisconnected \/ SdkDeinitEnter \/ SdkDeinitQueue
  BY <1>6 DEF SdkDisconnectQueue, SdkDisconnected, SdkDeinitEnter, SdkDeinitQueue
<1>7. CASE SdkDeinitConfig \/ ClientApp \/ InboundReturn
  BY <1>7 DEF SdkDeinitConfig, ClientApp, InboundReturn
<1>8. CASE InboundQueue \/ ClientEvent \/ Broker
  BY <1>8 DEF InboundQueue, ClientEvent, Broker
<1>9. CASE Halt \/ UNCHANGED vars
  BY <1>9 DEF Halt, vars
<1> QED
  BY <1>1, <1>2, <1>3, <1>4, <1>5, <1>6, <1>7, <1>8, <1>9 DEF Next, AppCall, AppStep, RxStep

-----------------------------------------------------------------------------
(* The theorems                                                            *)

LEMMA BeforeAlways == Spec => [](ReturnsKnown /\ GenByPoint /\ IdentityInv)
<1>1. Init => ReturnsKnown /\ GenByPoint
  BY DEF Init, ReturnsKnown, MC!ClientInit, GenByPoint, GC!GenInit, KeyPoints
<1>2. Init => IdentityInv
  BY DEF Init, HI!HttpInit, HI!IdentityInit, IdentityInv, AnswerByPoint, IdentityByPoint,
         HttpByPoint, OnConnection, OnObject, HI!Requests, HI!HttpPoints, HI!IdentityPoints,
         HI!NoBody
<1>3. ReturnsKnown /\ GenByPoint /\ IdentityInv /\ [Next]_vars
         => (ReturnsKnown /\ GenByPoint /\ IdentityInv)'
  BY ReturnsKnownStep, GenByPointStep, IdentityInvStep
<1> QED
  BY <1>1, <1>2, <1>3, PTL DEF Spec

\* iotc_x509_generate_credentials() signs with a key that is there, returns
\* success only with both buffers written, and keeps nothing but the key.
THEOREM CredentialsAreAccounted == Spec => []CredentialsAccounted
<1>1. GenByPoint => CredentialsAccounted
  BY CredentialsAccountedStep
<1> QED
  BY BeforeAlways, <1>1, PTL

\* Whichever calls fail in either request, the HTTP client is used only when
\* there is one, is gone after each request, and no answer or URL is left.
THEOREM RequestsAreAccounted == Spec => []RequestAccounted
<1>1. IdentityInv => RequestAccounted
  BY DEF IdentityInv, AnswerByPoint, IdentityByPoint, HttpByPoint, RequestAccounted,
         HI!RequestAccounted, Answerable, OnConnection, OnObject, HI!HttpPoints, HI!IdentityPoints
<1> QED
  BY BeforeAlways, <1>1, PTL

\* A device has an identity only from two answers, in spite of the results of
\* the requests and of iotcl_init() that are lost.
THEOREM IdentityIsAnswered == Spec => []IdentityFromAnswers
<1>1. IdentityInv => IdentityFromAnswers
  BY DEF IdentityInv, IdentityByPoint, IdentityFromAnswers, HI!IdentityFromAnswers
<1> QED
  BY BeforeAlways, <1>1, PTL
=============================================================================
