----------------------------- MODULE PluginBoundary -----------------------------
(***************************************************************************)
(* A call of the agent into a plug-in's binary and the calls back it makes *)
(* on its way.  RawHandlerProxy turns a method of IRawHandler into a       *)
(* CrossBinaryRequest, PluginStub routes it to the handler, the handler's  *)
(* result or exception comes back in a CrossBinaryResponse, and the proxy  *)
(* checks its format.  On the way the handler may give an MDM command,     *)
(* report or send an event through AgentStub, by the same means.           *)
(*                                                                         *)
(* One thread: the calls nest.  What carries the strings - a call of the   *)
(* library in the agent's process, or the pipes - is PluginTransport's.    *)
(***************************************************************************)
EXTENDS HandlerInvocation

CONSTANTS
    PluginHandlerIds,   \* what the plug-in registers, and the agent has proxies for
    MaxCallbacks        \* bound: calls back during one call

ASSUME BoundaryBounds == MaxCallbacks \in Nat

(***************************************************************************)
(* Outcomes: a JSON value of some type, a DMException, which has a code,   *)
(* or another std::exception, which has a text.                            *)
(***************************************************************************)
JsonValue(type, v) == [kind |-> "value", type |-> type, value |-> v]
DMException(code) == [kind |-> "DMException", type |-> "none", value |-> code]
StdException == [kind |-> "stdException", type |-> "none", value |-> "what"]
Nothing == JsonValue("null", "none")
Flag(b) == JsonValue("bool", IF b THEN "true" ELSE "false")

IsException(o) == o.kind # "value"

\* Mutant: a DMException is caught as the std::exception it also is.
CreateFromBaseException(o) ==
    [success |-> ~IsException(o),
     errorType |-> IF IsException(o) THEN "stdException" ELSE "none",
     payload |-> o]

\* CreateFromSuccess, CreateFromException
CrossBinaryResponse(o) ==
    [success |-> ~IsException(o),
     errorType |-> IF IsException(o) THEN o.kind ELSE "none",
     payload |-> o]

\* GetPayloadFromJsonString, ThrowDMException, ThrowStdException
GetPayload(response) ==
    IF response.success THEN response.payload
    ELSE [response.payload EXCEPT !.kind = response.errorType]

\* What the stub's Handle... makes of a handler's result.  A status that is
\* none of succeeded, pending and failed has no string, and what Invoke returns
\* has to be JSON.
HandleResult(method, o) ==
    CASE method = "GetDeploymentStatus" /\ o.value = "notStarted"
           -> DMException("invalidDeploymentStatus")
      [] method = "Invoke" /\ o.value = "text" -> DMException("invalidJsonFormat")
      [] OTHER -> o

\* The type of the result that the proxy insists on, if on any.
CheckedTypes ==
    [m \in {"Start", "GetHandlerType", "IsConfigured", "GetDeploymentStatus",
            "GetDeploymentStatusJson", "GetReportedSchema"} |->
       CASE m = "Start" -> "bool"
         [] m = "IsConfigured" -> "int"
         [] m \in {"GetHandlerType", "GetDeploymentStatus"} -> "string"
         [] OTHER -> "object"]

\* ReportedSchema::FromJsonValue leaves the tags out.
ProxyResult(method, o) ==
    IF IsException(o) THEN o
    ELSE IF method \in DOMAIN CheckedTypes /\ o.type # CheckedTypes[method]
    THEN DMException("invalidJsonFormat")
    ELSE IF method = "GetReportedSchema" THEN [o EXCEPT !.value = "untagged"]
    ELSE o

AcrossBoundary(method, o) ==
    ProxyResult(method,
        GetPayload(CrossBinaryResponse(IF IsException(o) THEN o ELSE HandleResult(method, o))))

Methods == {"Start", "Stop", "OnConnectionStatusChanged", "GetHandlerType", "IsConfigured",
            "GetDeploymentStatus", "SetDeploymentStatus", "GetDeploymentStatusJson", "Invoke",
            "GetReportedSchema"}
Statuses == {"pending", "succeeded", "failed"}
Arguments(method) ==
    CASE method = "OnConnectionStatusChanged" -> {"online", "offline"}
      [] method = "SetDeploymentStatus" -> {"pending", "failed"}
      [] OTHER -> {"none"}
CallbackTargets == {"RunSyncML", "Report", "SendEvent"}

\* What MdmServerProxy::RunSyncML gives the handler; a report and an event
\* give nothing.
SyncMLResult == JsonValue("string", "syncML")

\* AzureRawHost::SendEvent only logs that the SDK refuses the event.
LetsThrow(target) == target # "SendEvent"

\* AgentBinaryProxy::ReverseInvoke
AcrossReverse(o) == GetPayload(CrossBinaryResponse(o))

VARIABLES
    outOfProc,      \* the manifest's
    rawHandlerMap,  \* RawHandlerStub::_rawHandlerMap, by its keys
    hosted,         \* the handlers: [status, statusJson, configured, started, connection]
    where,          \* who runs: "agent", "request", "handler", "callback"; or "ended"
    call,           \* the agent's last call: [method, id, argument]
    result,         \* what the handler made of it
    seen,           \* what the agent got
    back            \* the handler's last call back in this call:
                    \* [target, argument, result, seen, count]

boundaryVars == <<outOfProc, rawHandlerMap, hosted, where, call, result, seen, back>>

NewHandler == [status |-> "notStarted", statusJson |-> "notStarted", configured |-> FALSE,
               started |-> FALSE, connection |-> "unknown"]
NoCall == [method |-> "none", id |-> "none", argument |-> "none"]
NoCallback == [target |-> "none", argument |-> "none", result |-> Nothing, seen |-> Nothing,
               count |-> 0]

BoundaryInit ==
    /\ outOfProc \in BOOLEAN
    /\ rawHandlerMap = PluginHandlerIds
    /\ hosted = [h \in PluginHandlerIds |-> NewHandler]
    /\ where = "agent"
    /\ call = NoCall
    /\ result = Nothing
    /\ seen = Nothing
    /\ back = NoCallback

BoundaryOK ==
    /\ outOfProc \in BOOLEAN
    /\ rawHandlerMap \subseteq PluginHandlerIds
    /\ hosted \in [PluginHandlerIds ->
         [status : Statuses \cup {"notStarted"}, statusJson : Statuses \cup {"notStarted"},
          configured : BOOLEAN, started : BOOLEAN,
          connection : {"unknown", "online", "offline"}]]
    /\ where \in {"agent", "request", "handler", "callback", "ended"}
    /\ call.method \in Methods \cup {"none"}
    /\ back.target \in CallbackTargets \cup {"none"}
    /\ back.count \in 0 .. MaxCallbacks

\* A method of RawHandlerProxy.
CallHandler ==
    /\ where = "agent"
    /\ spent.invocations < MaxInvocations
    /\ spent' = [spent EXCEPT !.invocations = @ + 1]
    /\ \E m \in Methods, h \in PluginHandlerIds : \E a \in Arguments(m) :
         call' = [method |-> m, id |-> h, argument |-> a]
    /\ where' = "request"
    /\ back' = NoCallback
    /\ UNCHANGED <<at, step, errors, deployment, outOfProc, rawHandlerMap, hosted, result, seen>>

\* The call is over: the response goes back through the proxy.
Answer(o) ==
    /\ result' = o
    /\ seen' = AcrossBoundary(call.method, o)
    /\ where' = "agent"

RouteToHandler ==
    /\ where = "request"
    /\ IF call.id \in rawHandlerMap
       THEN where' = "handler" /\ UNCHANGED <<result, seen>>
       ELSE Answer(DMException("invalidRawHandler"))
    /\ UNCHANGED <<frame, outOfProc, rawHandlerMap, hosted, call, back>>

\* What the handlers derived from HandlerBase do and return.
Returned(h) ==
    CASE call.method = "Start" ->
           \E active \in BOOLEAN :
              Answer(Flag(active)) /\ hosted' = [hosted EXCEPT ![h].started = TRUE]
      [] call.method = "Stop" ->
           Answer(Nothing) /\ hosted' = [hosted EXCEPT ![h].started = FALSE]
      [] call.method = "OnConnectionStatusChanged" ->
           Answer(Nothing) /\ hosted' = [hosted EXCEPT ![h].connection = call.argument]
      [] call.method = "GetHandlerType" -> Answer(JsonValue("string", "raw")) /\ UNCHANGED hosted
      [] call.method = "IsConfigured" -> Answer(Flag(hosted[h].configured)) /\ UNCHANGED hosted
      [] call.method = "GetDeploymentStatus" ->
           Answer(JsonValue("string", hosted[h].status)) /\ UNCHANGED hosted
      [] call.method = "SetDeploymentStatus" ->
           /\ Answer(Nothing)
           /\ hosted' = [hosted EXCEPT ![h].status = call.argument, ![h].statusJson = call.argument]
      [] call.method = "GetDeploymentStatusJson" ->
           Answer(JsonValue("object", hosted[h].statusJson)) /\ UNCHANGED hosted
      [] call.method = "Invoke" ->
           \E payload \in {"json", "text", "absent"} :
              /\ Answer(JsonValue("object", payload))
              /\ \/ hosted' = [hosted EXCEPT ![h].configured = TRUE]
                 \/ UNCHANGED hosted
      [] call.method = "GetReportedSchema" -> Answer(JsonValue("object", "tagged")) /\ UNCHANGED hosted

HandlerReturns ==
    /\ where = "handler"
    /\ Returned(call.id)
    /\ UNCHANGED <<frame, outOfProc, rawHandlerMap, call, back>>

\* The methods of a handler that do more than read a member.
Working == {"Start", "Stop", "OnConnectionStatusChanged", "Invoke"}

\* An exception leaves the handler, its own or one of a call back.  Invoke is
\* noexcept, and PluginStub::Invoke too, which catches std::exception: the
\* process ends with what they do not let out.
HandlerThrows ==
    /\ where = "handler"
    /\ call.method \in Working
    /\ \/ /\ IsException(back.seen)
          /\ UNCHANGED spent
          /\ IF call.method = "Invoke" THEN where' = "ended" /\ UNCHANGED <<result, seen>>
             ELSE Answer(back.seen)
       \/ /\ call.method # "Invoke"
          /\ Fault
          /\ \E e \in {DMException("own"), StdException} : Answer(e)
       \/ Fault /\ where' = "ended" /\ UNCHANGED <<result, seen>>
    /\ UNCHANGED <<at, step, errors, deployment, outOfProc, rawHandlerMap, hosted, call, back>>

\* MdmServerProxy, RawHandlerHostProxy.  FinalizeAndReport sets the handler's
\* status before it reports it.
HandlerCallsBack ==
    /\ where = "handler"
    /\ call.method \in {"Start", "OnConnectionStatusChanged", "Invoke"}
    /\ back.count < MaxCallbacks
    /\ \E t \in CallbackTargets :
       \E a \in IF t = "Report" THEN Statuses ELSE {"none"} :
          /\ back' = [target |-> t, argument |-> a, result |-> Nothing, seen |-> Nothing,
                      count |-> back.count + 1]
          /\ hosted' = IF a \in {"succeeded", "failed"}
                       THEN [hosted EXCEPT ![call.id].status = a] ELSE hosted
    /\ where' = "callback"
    /\ UNCHANGED <<frame, outOfProc, rawHandlerMap, call, result, seen>>

\* AgentStub::ReverseInvoke
ReverseInvoke ==
    /\ where = "callback"
    /\ \/ /\ LetsThrow(back.target)
          /\ Fault
          /\ LET o == DMException(back.target)
             IN  back' = [back EXCEPT !.result = o, !.seen = AcrossReverse(o)]
       \/ /\ UNCHANGED spent
          /\ LET o == IF back.target = "RunSyncML" THEN SyncMLResult ELSE Nothing
             IN  back' = [back EXCEPT !.result = o, !.seen = AcrossReverse(o)]
    /\ where' = "handler"
    /\ UNCHANGED <<at, step, errors, deployment, outOfProc, rawHandlerMap, hosted, call, result, seen>>

\* The host process ended between two calls; the next call starts it again and
\* replays what is recorded of its handlers, up to the first that fails.
HostRestarts ==
    /\ where = "agent"
    /\ outOfProc
    /\ Fault
    /\ \E created \in SUBSET PluginHandlerIds :
         /\ rawHandlerMap' = created
         /\ hosted' = [h \in PluginHandlerIds |->
                         IF h \in created
                         THEN [NewHandler EXCEPT !.started = hosted[h].started,
                                                 !.connection = hosted[h].connection]
                         ELSE NewHandler]
    /\ call' = NoCall
    /\ back' = NoCallback
    /\ result' = Nothing /\ seen' = Nothing
    /\ UNCHANGED <<at, step, errors, deployment, outOfProc, where>>

BoundaryStep ==
    \/ CallHandler \/ RouteToHandler \/ HandlerReturns \/ HandlerThrows
    \/ HandlerCallsBack \/ ReverseInvoke \/ HostRestarts

(***************************************************************************)
(* The boundary adds no value and changes no exception: an exception is    *)
(* seen as it was thrown, also one that the agent threw into the plug-in   *)
(* and the plug-in back to the agent; a value is seen as it was returned,  *)
(* but for the tags of a schema; and only three methods can return to the  *)
(* plug-in's stub and throw to the agent: IsConfigured, whose result the   *)
(* proxy takes for a number, a status that no string stands for, and an    *)
(* Invoke whose payload is not JSON.  (PluginStub::Invoke, AgentStub::     *)
(* ReverseInvoke, CrossBinaryResponse, RawHandlerProxy.)                   *)
(***************************************************************************)
BoundaryIsTransparent ==
    /\ where = "agent" =>
         /\ IsException(result) => seen = result
         /\ ~IsException(seen) /\ call.method # "GetReportedSchema" => seen = result
         /\ IsException(seen) /\ ~IsException(result) =>
              call.method \in {"IsConfigured", "GetDeploymentStatus", "Invoke"}
    /\ where = "handler" =>
         /\ back.seen = back.result
         /\ IsException(back.seen) => back.target \in {"RunSyncML", "Report"}

=================================================================================
