---------------------------- MODULE HttpIdentity -----------------------------
(***************************************************************************)
(* The identity of the device: run_http_identity() of iotconnect.c, over   *)
(* iotconnect_https_request(), src/source/iotc_http_client.c.  The HTTP    *)
(* client of the middleware (the functions named cy_http_client_) and      *)
(* iotc-c-lib (those named iotcl_) are external.                           *)
(*                                                                         *)
(* Two requests, one after the other on the application's task: discovery  *)
(* answers with the URL to ask for the identity, and the identity with the *)
(* configuration of MQTT.  Each call may fail.  An answer is named by the  *)
(* request it is for, and is JSON or not.                                  *)
(***************************************************************************)
EXTENDS Threads, Naturals

CONSTANT MaxHttpRetries  \* IOTC_HTTP_CONNECT_MAX_RETRIES

VARIABLES httpLib,      \* the HTTP client library is initialised
          httpObject,   \* the object behind handle
          httpTries,    \* how often cy_http_client_connect() has failed
          httpOk,       \* what the last request returned is CY_RSLT_SUCCESS
          data          \* response.data

httpVars == <<httpLib, httpObject, httpTries, httpOk, data>>

VARIABLES request,      \* the request that run_http_identity() is at
          identityOk,   \* its status is 0
          urls,         \* the URL contexts that hold memory
          bodies,       \* the copies of answers on the heap
          iotcl,        \* iotc-c-lib: off, ready, or configured for MQTT
          answered      \* history: the requests whose answer was JSON

identityVars == <<request, identityOk, urls, bodies, iotcl, answered>>

Requests == {"discovery", "identity"}
NoBody == <<>>
Body(json) == <<request, json>>
IsJson(body) == body # NoBody /\ body[2]

HttpInit == /\ httpLib = FALSE /\ httpObject = "none" /\ httpTries = 0
            /\ httpOk = TRUE /\ data = NoBody

IdentityInit == /\ request = "discovery" /\ identityOk = FALSE
                /\ urls = {} /\ bodies = {} /\ iotcl = "off" /\ answered = {}

-----------------------------------------------------------------------------
(* iotconnect_https_request(), between "http.init" and "id.validate".      *)

\* response->data = NULL, and cy_http_client_init()
RequestBegin ==
    /\ data' = NoBody
    /\ \/ /\ AppGoto("http.init", "http.create")
          /\ httpLib' = TRUE
          /\ UNCHANGED httpOk
       \/ /\ AppGoto("http.init", "id.validate")
          /\ httpOk' = FALSE
          /\ UNCHANGED httpLib
    /\ UNCHANGED <<httpObject, httpTries, identityVars>>

\* Mutant of RequestCreate: a failure goes one label too far up.
RequestCreateDeletes ==
    /\ httpTries' = 0
    /\ \/ AppGoto("http.create", "http.connect") /\ httpObject' = "created"
       \/ AppGoto("http.create", "http.delete") /\ UNCHANGED httpObject
    /\ UNCHANGED <<httpLib, httpOk, data, identityVars>>

\* cy_http_client_create()
RequestCreate ==
    /\ httpTries' = 0
    /\ \/ AppGoto("http.create", "http.connect") /\ httpObject' = "created"
       \/ AppGoto("http.create", "http.deinit") /\ UNCHANGED httpObject
    /\ UNCHANGED <<httpLib, httpOk, data, identityVars>>

\* One turn of the loop around cy_http_client_connect().
RequestConnect ==
    /\ \/ /\ AppGoto("http.connect", "http.send")
          /\ httpObject' = "connected"
          /\ UNCHANGED httpTries
       \/ /\ httpTries + 1 < MaxHttpRetries
          /\ AppGoto("http.connect", "http.connect")
          /\ httpTries' = httpTries + 1
          /\ UNCHANGED httpObject
       \/ /\ httpTries + 1 >= MaxHttpRetries
          /\ AppGoto("http.connect", "http.delete")
          /\ UNCHANGED <<httpObject, httpTries>>
    /\ UNCHANGED <<httpLib, httpOk, data, identityVars>>

\* The header is written, the request sent, and the answer copied: all of it,
\* or the header, the request or malloc() failed and there is no data.
RequestSend ==
    /\ AppGoto("http.send", "http.disconnect")
    /\ \/ UNCHANGED <<data, bodies, answered>>
       \/ \E json \in BOOLEAN :
             /\ data' = Body(json)
             /\ bodies' = bodies \union {Body(json)}
             /\ answered' = IF json THEN answered \union {request} ELSE answered
    /\ UNCHANGED <<httpLib, httpObject, httpTries, httpOk,
                   request, identityOk, urls, iotcl>>

\* The three steps of the cleanup are made whatever the one before returned,
\* and what is returned in the end is the result of the last: an error of the
\* request itself is lost.
RequestDisconnect ==
    /\ AppGoto("http.disconnect", "http.delete")
    /\ httpObject' = "created"
    /\ UNCHANGED <<httpLib, httpTries, httpOk, data, identityVars>>

RequestDelete ==
    /\ AppGoto("http.delete", "http.deinit")
    /\ httpObject' = "none"
    /\ UNCHANGED <<httpLib, httpTries, httpOk, data, identityVars>>

RequestEnd ==
    /\ AppGoto("http.deinit", "id.validate")
    /\ httpLib' = FALSE
    /\ httpOk' \in BOOLEAN
    /\ UNCHANGED <<httpObject, httpTries, data, identityVars>>

\* iotconnect_free_https_response()
FreeResponse == data' = NoBody /\ bodies' = bodies \ {data}

HttpsRequest == \/ RequestBegin \/ RequestCreate \/ RequestConnect \/ RequestSend
                \/ RequestDisconnect \/ RequestDelete \/ RequestEnd

-----------------------------------------------------------------------------
(* iotcl_init() and run_http_identity()                                    *)

\* The status of iotcl_init() is overwritten by that of the identity.
InitLibrary ==
    /\ AppGoto("init.library", "id.url")
    /\ iotcl' \in {"off", "ready"}
    /\ UNCHANGED <<httpVars, request, identityOk, urls, bodies, answered>>

\* The URL to start with.  If it cannot be made the function returns at once.
DiscoveryUrl(failed) ==
    /\ \/ AppGoto("id.url", "http.init") /\ urls' = {"discovery"}
       \/ AppGoto("id.url", failed) /\ UNCHANGED urls
    /\ UNCHANGED <<httpVars, request, identityOk, bodies, iotcl, answered>>

AfterRequest == IF request = "discovery" THEN "id.parse" ELSE "id.configure"

\* Mutant of Validate: it relies on what the request returned.
ValidateResult ==
    /\ AppGoto("id.validate", IF httpOk THEN AfterRequest ELSE "id.cleanup")
    /\ UNCHANGED <<httpVars, identityVars>>

\* validate_response(); what iotconnect_https_request() returned is not used.
Validate ==
    /\ AppGoto("id.validate", IF IsJson(data) THEN AfterRequest ELSE "id.cleanup")
    /\ UNCHANGED <<httpVars, identityVars>>

\* iotcl_dra_discovery_parse() makes the second URL and the answer is freed;
\* then the URL is completed.
ParseDiscovery ==
    \/ /\ AppGoto("id.parse", "id.cleanup")
       /\ urls' \in {urls, urls \union {"identity"}}
       /\ UNCHANGED <<httpVars, request, identityOk, bodies, iotcl, answered>>
    \/ /\ \/ AppGoto("id.parse", "http.init") /\ request' = "identity"
          \/ AppGoto("id.parse", "id.cleanup") /\ UNCHANGED request
       /\ FreeResponse
       /\ urls' = urls \union {"identity"}
       /\ UNCHANGED <<httpLib, httpObject, httpTries, httpOk,
                      identityOk, iotcl, answered>>

\* iotcl_dra_identity_configure_library_mqtt() fails if the library is not
\* initialised, for then there is no configuration to write to.
Configure ==
    /\ AppGoto("id.configure", "id.cleanup")
    /\ \/ UNCHANGED <<iotcl, identityOk>>
       \/ iotcl # "off" /\ iotcl' = "configured" /\ identityOk' = TRUE
    /\ UNCHANGED <<httpVars, request, urls, bodies, answered>>

\* The label cleanup, from which both outcomes return; the locals are gone.
IdentityEnd(ok, failed) ==
    /\ AppGoto("id.cleanup", IF identityOk THEN ok ELSE failed)
    /\ urls' = {}
    /\ FreeResponse
    /\ httpTries' = 0 /\ httpOk' = TRUE
    /\ request' = "discovery" /\ identityOk' = FALSE /\ answered' = {}
    /\ UNCHANGED <<httpLib, httpObject, iotcl>>

RunIdentity(ok, failed) ==
    \/ DiscoveryUrl(failed) \/ HttpsRequest \/ Validate \/ ParseDiscovery
    \/ Configure \/ IdentityEnd(ok, failed)

\* iotcl_deinit()
LibraryOff == /\ iotcl' = "off"
              /\ UNCHANGED <<httpVars, request, identityOk, urls, bodies, answered>>

-----------------------------------------------------------------------------
(* What is promised.                                                       *)

HttpPoints == {"http.create", "http.connect", "http.send", "http.disconnect",
               "http.delete", "http.deinit"}
IdentityPoints == {"init.library", "id.url", "http.init", "id.validate",
                   "id.parse", "id.configure", "id.cleanup"} \union HttpPoints

\* Every variable has its type, and the loop stays within its limit.
TypeOK == /\ httpLib \in BOOLEAN
          /\ httpObject \in {"none", "created", "connected"}
          /\ httpTries \in Nat
          /\ httpTries < MaxHttpRetries
          /\ httpOk \in BOOLEAN
          /\ data \in {NoBody} \union (Requests \X BOOLEAN)
          /\ request \in Requests
          /\ identityOk \in BOOLEAN
          /\ urls \subseteq Requests
          /\ bodies \subseteq Requests \X BOOLEAN
          /\ iotcl \in {"off", "ready", "configured"}
          /\ answered \subseteq Requests

\* However a request fails, the middleware is called for an object that exists
\* and sends on a connection that is open, and nothing of the request is left
\* when it returns.  Of the answers only the one that response points to is on
\* the heap, and outside of the identity none, nor any URL.
RequestAccounted ==
    /\ app \in HttpPoints => httpLib
    /\ app \in {"http.connect", "http.disconnect", "http.delete"} => httpObject # "none"
    /\ app \in {"http.send", "http.disconnect"} => httpObject = "connected"
    /\ app \notin HttpPoints => ~httpLib /\ httpObject = "none"
    /\ bodies = {data} \ {NoBody}
    /\ app \notin IdentityPoints => urls = {} /\ bodies = {}

\* The identity counts as obtained only if each of the two requests was
\* answered with JSON, in spite of what iotconnect_https_request() returns,
\* and the library took it, in spite of the lost status of iotcl_init().
IdentityFromAnswers ==
    app = "id.cleanup" /\ identityOk => answered = Requests /\ iotcl = "configured"
=============================================================================
