------------------------- MODULE PluginHandlersProofs -------------------------
(***************************************************************************)
(* Proofs about PluginHandlers for any sections, any calls, any orders and *)
(* any number of invocations and of failures.                              *)
(*                                                                         *)
(* Each component has an invariant of its own.  A step of another one      *)
(* leaves its variables but not the frame they share, so what is said of   *)
(* the frame is said of the behaviours that follow this component.         *)
(*                                                                         *)
(* At the end: the MDM server that the handlers call implements a          *)
(* procedure call.                                                         *)
(***************************************************************************)
EXTENDS PluginHandlers, FiniteSetTheorems, SequenceTheorems, TLAPS

-----------------------------------------------------------------------------
(* Lists of work that is still to do *)

LEMMA HeadAndTail ==
  ASSUME NEW S, NEW s \in Seq(S), s # << >>
  PROVE /\ Head(s) \in S /\ Tail(s) \in Seq(S)
        /\ ToSet(s) = {Head(s)} \cup ToSet(Tail(s))
<1>1. Head(s) \in S /\ Tail(s) \in Seq(S)
  BY HeadTailProperties
<1>2. Len(s) \in Nat /\ Len(s) > 0 /\ DOMAIN s = 1 .. Len(s)
  BY EmptySeq, LenProperties
<1>3. DOMAIN Tail(s) = 1 .. Len(s) - 1 /\ \A i \in 1 .. Len(s) - 1 : Tail(s)[i] = s[i + 1]
  BY <1>2, HeadTailProperties, LenProperties
<1>4. Head(s) = s[1]
  OBVIOUS
<1>5. ASSUME NEW x \in ToSet(s) PROVE x = Head(s) \/ x \in ToSet(Tail(s))
  <2>1. PICK i \in 1 .. Len(s) : x = s[i]
    BY <1>2, <1>5 DEF ToSet
  <2>2. i = 1 \/ (i - 1 \in 1 .. Len(s) - 1 /\ Tail(s)[i - 1] = s[i])
    BY <1>2, <1>3
  <2> QED
    BY <1>3, <1>4, <2>1, <2>2 DEF ToSet
<1>6. ASSUME NEW x \in ToSet(Tail(s)) PROVE x \in ToSet(s)
  <2>1. PICK i \in 1 .. Len(s) - 1 : x = Tail(s)[i]
    BY <1>3, <1>6 DEF ToSet
  <2>2. i + 1 \in 1 .. Len(s) /\ x = s[i + 1]
    BY <1>2, <1>3, <2>1
  <2> QED
    BY <1>2, <2>2 DEF ToSet
<1>7. Head(s) \in ToSet(s)
  <2>1. 1 \in DOMAIN s
    BY <1>2
  <2> QED
    BY <1>4, <2>1 DEF ToSet
<1> QED
  BY <1>1, <1>5, <1>6, <1>7

LEMMA NothingInEmpty == ToSet(<< >>) = {}
BY DEF ToSet

-----------------------------------------------------------------------------
(* The boundary of a plug-in's binary *)

IsOutcome(o) ==
    /\ o = [kind |-> o.kind, type |-> o.type, value |-> o.value]
    /\ o.kind \in {"value", "DMException", "stdException"}

IsCallback(b) ==
    b = [target |-> b.target, argument |-> b.argument, result |-> b.result, seen |-> b.seen,
         count |-> b.count]

\* What the agent gets of an outcome: BoundaryIsTransparent of one call.
Faithful(method, o, s) ==
    /\ IsException(o) => s = o
    /\ ~IsException(s) /\ method # "GetReportedSchema" => s = o
    /\ IsException(s) /\ ~IsException(o) =>
         method \in {"IsConfigured", "GetDeploymentStatus", "Invoke"}

\* The last result came across as it must, and so did what the handler called
\* back for, at any time in a call.
BoundaryInv ==
    /\ BoundaryOK
    /\ where \in {"request", "handler", "callback"} =>
         /\ call.id \in PluginHandlerIds /\ call.method \in Methods
         /\ call.argument \in Arguments(call.method)
    /\ where = "agent" => Faithful(call.method, result, seen)
    /\ IsCallback(back) /\ IsOutcome(back.seen)
    /\ back.seen = back.result
    /\ IsException(back.seen) => back.target \in {"RunSyncML", "Report"}
    /\ where = "callback" => back.target \in CallbackTargets

\* An exception goes through both proxies unchanged.
LEMMA ExceptionComesBack ==
  ASSUME NEW o, IsOutcome(o)
  PROVE /\ GetPayload(CrossBinaryResponse(o)) = o
        /\ IsException(o) => \A method : AcrossBoundary(method, o) = o
<1>1. GetPayload(CrossBinaryResponse(o)) = o
  BY DEF GetPayload, CrossBinaryResponse, IsException, IsOutcome
<1>2. IsException(o) => \A method : AcrossBoundary(method, o) = o
  BY <1>1 DEF AcrossBoundary, ProxyResult
<1> QED
  BY <1>1, <1>2

LEMMA SpecialOutcomes ==
  /\ \A t, v : IsOutcome(JsonValue(t, v)) /\ ~IsException(JsonValue(t, v))
  /\ \A code : IsOutcome(DMException(code)) /\ IsException(DMException(code))
  /\ \A b : IsOutcome(Flag(b)) /\ ~IsException(Flag(b))
  /\ IsOutcome(Nothing) /\ IsOutcome(StdException) /\ IsOutcome(SyncMLResult)
  /\ ~IsException(Nothing) /\ IsException(StdException) /\ ~IsException(SyncMLResult)
<1>1. \A t, v : IsOutcome(JsonValue(t, v)) /\ ~IsException(JsonValue(t, v))
  BY DEF IsOutcome, JsonValue, IsException
<1>2. \A code : IsOutcome(DMException(code)) /\ IsException(DMException(code))
  BY DEF IsOutcome, DMException, IsException
<1>3. IsOutcome(StdException) /\ IsException(StdException)
  BY DEF IsOutcome, StdException, IsException
<1> QED
  BY <1>1, <1>2, <1>3 DEF Nothing, SyncMLResult, Flag

\* A value of the type that the proxy wants, of a method whose result the
\* stub does not check, comes across.
LEMMA ValueComesAcross ==
  ASSUME NEW o, IsOutcome(o), ~IsException(o), NEW method,
         \/ method \in {"Stop", "OnConnectionStatusChanged", "SetDeploymentStatus"}
         \/ method = "Start" /\ o.type = "bool"
         \/ method = "GetHandlerType" /\ o.type = "string"
         \/ method \in {"GetDeploymentStatusJson", "GetReportedSchema"} /\ o.type = "object"
         \/ method = "IsConfigured" /\ o.type # "int"
         \/ method = "GetDeploymentStatus" /\ o.type = "string"
         \/ method = "Invoke"
  PROVE Faithful(method, o, AcrossBoundary(method, o))
<1> DEFINE h == HandleResult(method, o)
<1>1. IsOutcome(h) /\ (IsException(h) => method \in {"GetDeploymentStatus", "Invoke"})
      /\ (~IsException(h) => h = o)
  <2>1. \/ method = "GetDeploymentStatus" /\ h = DMException("invalidDeploymentStatus")
        \/ method = "Invoke" /\ h = DMException("invalidJsonFormat")
        \/ h = o
    BY DEF HandleResult
  <2> HIDE DEF h
  <2> QED
    BY <2>1, SpecialOutcomes
<1>2. AcrossBoundary(method, o) = ProxyResult(method, h)
  BY <1>1, ExceptionComesBack DEF AcrossBoundary
<1>3. CASE IsException(h)
  BY <1>1, <1>2, <1>3 DEF ProxyResult, Faithful
<1>4. CASE ~IsException(h)
  <2>1. AcrossBoundary(method, o) = ProxyResult(method, o)
    BY <1>1, <1>2, <1>4
  <2>2. DOMAIN CheckedTypes = {"Start", "GetHandlerType", "IsConfigured", "GetDeploymentStatus",
                               "GetDeploymentStatusJson", "GetReportedSchema"}
    BY DEF CheckedTypes
  <2>3. CASE method = "IsConfigured"
    <3>1. method \in DOMAIN CheckedTypes /\ CheckedTypes[method] = "int"
      BY <2>3 DEF CheckedTypes
    <3>2. AcrossBoundary(method, o) = DMException("invalidJsonFormat")
      BY <2>1, <2>3, <3>1 DEF ProxyResult
    <3> QED
      BY <2>3, <3>2, SpecialOutcomes DEF Faithful
  <2>4. CASE method = "GetReportedSchema"
    <3>1. ~IsException([o EXCEPT !.value = "untagged"])
      BY DEF IsException, IsOutcome
    <3>2. CheckedTypes[method] = o.type
      BY <2>4 DEF CheckedTypes
    <3>3. ProxyResult(method, o) = [o EXCEPT !.value = "untagged"]
      BY <2>4, <3>2 DEF ProxyResult
    <3> QED
      BY <2>1, <2>4, <3>1, <3>3 DEF Faithful
  <2>5. CASE method \notin {"IsConfigured", "GetReportedSchema"}
    <3>1. method \in DOMAIN CheckedTypes => CheckedTypes[method] = o.type
      BY <2>2, <2>5 DEF CheckedTypes
    <3>2. ProxyResult(method, o) = o
      BY <3>1, <2>5 DEF ProxyResult
    <3> QED
      BY <2>1, <3>2 DEF Faithful
  <2> QED
    BY <2>3, <2>4, <2>5
<1> QED
  BY <1>3, <1>4

LEMMA BoundaryStarts == Init => BoundaryInv
<1> SUFFICES ASSUME Init PROVE BoundaryInv
  OBVIOUS
<1>1. BoundaryInit
  BY DEF Init
<1>2. BoundaryOK
  BY <1>1, BoundaryBounds DEF BoundaryInit, BoundaryOK, NewHandler, NoCall, NoCallback
<1>3. IsCallback(back) /\ back.seen = Nothing /\ back.result = Nothing
  BY <1>1 DEF BoundaryInit, NoCallback, IsCallback
<1>4. where = "agent" /\ result = Nothing /\ seen = Nothing
  BY <1>1 DEF BoundaryInit
<1> QED
  BY <1>2, <1>3, <1>4, SpecialOutcomes DEF BoundaryInv, Faithful

\* What the handler returns comes across as it must.
LEMMA ReturnedFaithful ==
  ASSUME BoundaryInv, NEW h \in PluginHandlerIds, Returned(h), call.method \in Methods
  PROVE where' = "agent" /\ Faithful(call.method, result', seen')
<1> DEFINE Good(o) ==
      /\ IsOutcome(o) /\ ~IsException(o) /\ Answer(o)
      /\ \/ call.method \in {"Stop", "OnConnectionStatusChanged", "SetDeploymentStatus"}
         \/ call.method = "Start" /\ o.type = "bool"
         \/ call.method = "GetHandlerType" /\ o.type = "string"
         \/ call.method \in {"GetDeploymentStatusJson", "GetReportedSchema"} /\ o.type = "object"
         \/ call.method = "IsConfigured" /\ o.type # "int"
         \/ call.method = "GetDeploymentStatus" /\ o.type = "string"
         \/ call.method = "Invoke"
<1>1. SUFFICES ASSUME NEW o, Good(o)
               PROVE where' = "agent" /\ Faithful(call.method, result', seen')
  <2>2. \A b : IsOutcome(Flag(b)) /\ ~IsException(Flag(b)) /\ Flag(b).type = "bool"
    BY SpecialOutcomes DEF Flag, JsonValue, IsException
  <2>3. \A t, v : /\ IsOutcome(JsonValue(t, v)) /\ ~IsException(JsonValue(t, v))
                             /\ JsonValue(t, v).type = t
    BY SpecialOutcomes DEF JsonValue, IsException
  <2>4. IsOutcome(Nothing) /\ ~IsException(Nothing)
    BY SpecialOutcomes
  <2>5. call.method \in {"Start", "Stop", "OnConnectionStatusChanged"} => \E o : Good(o)
    BY <2>2, <2>4 DEF Returned
  <2>6. call.method = "GetHandlerType" => \E o : Good(o)
    <3>1. call.method = "GetHandlerType" => Answer(JsonValue("string", "raw"))
      BY DEF Returned
    <3> QED
      BY <2>3, <3>1
  <2>7. call.method = "IsConfigured" => \E o : Good(o)
    <3>1. call.method = "IsConfigured" => Answer(Flag(hosted[h].configured))
      BY DEF Returned
    <3> QED
      BY <2>2, <3>1
  <2>8. call.method = "GetDeploymentStatus" => \E o : Good(o)
    <3>1. call.method = "GetDeploymentStatus" => Answer(JsonValue("string", hosted[h].status))
      BY DEF Returned
    <3> QED
      BY <2>3, <3>1
  <2>9. call.method = "SetDeploymentStatus" => \E o : Good(o)
    BY <2>4 DEF Returned
  <2>10. call.method = "GetDeploymentStatusJson" => \E o : Good(o)
    <3>1. call.method = "GetDeploymentStatusJson" =>
            Answer(JsonValue("object", hosted[h].statusJson))
      BY DEF Returned
    <3> QED
      BY <2>3, <3>1
  <2>11. call.method = "Invoke" => \E o : Good(o)
    <3>1. call.method = "Invoke" =>
            \E p \in {"json", "text", "absent"} : Answer(JsonValue("object", p))
      BY DEF Returned
    <3> QED
      BY <2>3, <3>1
  <2>12. call.method = "GetReportedSchema" => \E o : Good(o)
    <3>1. call.method = "GetReportedSchema" => Answer(JsonValue("object", "tagged"))
      BY DEF Returned
    <3> QED
      BY <2>3, <3>1
  <2> QED
    BY <2>5, <2>6, <2>7, <2>8, <2>9, <2>10, <2>11, <2>12 DEF Methods
<1> QED
  BY <1>1, ValueComesAcross DEF Answer

\* An exception, of the handler's or of a call back, comes across.
LEMMA ExceptionFaithful ==
  ASSUME NEW e, IsOutcome(e), IsException(e), Answer(e)
  PROVE where' = "agent" /\ Faithful(call.method, result', seen')
BY ExceptionComesBack DEF Answer, Faithful

\* SetDeploymentStatus writes the two fields of the handler and keeps its type.
LEMMA StatusIsSet ==
  ASSUME NEW S, NEW C,
         NEW v \in [status : S, statusJson : S, configured : BOOLEAN, started : BOOLEAN,
                    connection : C],
         NEW a \in S
  PROVE  [v EXCEPT !.status = a, !.statusJson = a]
           \in [status : S, statusJson : S, configured : BOOLEAN, started : BOOLEAN,
                connection : C]
OBVIOUS

LEMMA BoundaryStepOK ==
  ASSUME BoundaryInv, BoundaryStep
  PROVE BoundaryOK'
<1> USE BoundaryBounds DEF BoundaryInv, BoundaryOK
<1>1. CASE CallHandler
  BY <1>1 DEF CallHandler, NoCallback
<1>2. CASE RouteToHandler
  BY <1>2 DEF RouteToHandler, Answer
<1>3. CASE HandlerReturns
  <2> DEFINE h == call.id
  <2>1. h \in PluginHandlerIds /\ Returned(h) /\ call.method \in Methods
        /\ call.argument \in Arguments(call.method)
    BY <1>3 DEF HandlerReturns
  <2>2. UNCHANGED <<outOfProc, rawHandlerMap, call, back>> /\ where' = "agent"
    BY <1>3, <2>1, ReturnedFaithful DEF HandlerReturns
  <2> HIDE DEF h
  <2>3. hosted' \in [PluginHandlerIds ->
           [status : Statuses \cup {"notStarted"}, statusJson : Statuses \cup {"notStarted"},
            configured : BOOLEAN, started : BOOLEAN,
            connection : {"unknown", "online", "offline"}]]
    <3>1. CASE call.method \in {"Start", "Stop"}
      <4>1. \E b \in BOOLEAN : hosted' = [hosted EXCEPT ![h].started = b]
        <5>1. CASE call.method = "Start"
          BY <2>1, <5>1 DEF Returned
        <5>2. CASE call.method = "Stop"
          BY <2>1, <5>2 DEF Returned
        <5> QED
          BY <3>1, <5>1, <5>2
      <4> QED
        BY <2>1, <4>1
    <3>4. CASE call.method = "OnConnectionStatusChanged"
      <4>1. call.argument \in {"online", "offline"}
            /\ hosted' = [hosted EXCEPT ![h].connection = call.argument]
        BY <2>1, <3>4 DEF Returned, Arguments
      <4> QED
        BY <2>1, <4>1
    <3>2. CASE call.method = "SetDeploymentStatus"
      <4>1. call.argument \in Statuses
            /\ hosted' = [hosted EXCEPT ![h].status = call.argument,
                                       ![h].statusJson = call.argument]
        BY <2>1, <3>2 DEF Returned, Arguments, Statuses
      <4>2. PICK x \in [status : Statuses \cup {"notStarted"},
                        statusJson : Statuses \cup {"notStarted"},
                        configured : BOOLEAN, started : BOOLEAN,
                        connection : {"unknown", "online", "offline"}] :
                   hosted' = [hosted EXCEPT ![h] = x]
        <5>1. hosted' = [hosted EXCEPT ![h] = [hosted[h] EXCEPT !.status = call.argument,
                                                               !.statusJson = call.argument]]
          BY <2>1, <4>1
        <5>2. [hosted[h] EXCEPT !.status = call.argument, !.statusJson = call.argument]
                \in [status : Statuses \cup {"notStarted"},
                     statusJson : Statuses \cup {"notStarted"},
                     configured : BOOLEAN, started : BOOLEAN,
                     connection : {"unknown", "online", "offline"}]
          <6>1. hosted[h] \in [status : Statuses \cup {"notStarted"},
                               statusJson : Statuses \cup {"notStarted"},
                               configured : BOOLEAN, started : BOOLEAN,
                               connection : {"unknown", "online", "offline"}]
            BY <2>1
          <6>2. call.argument \in Statuses \cup {"notStarted"}
            BY <4>1
          <6> QED
            BY ONLY <6>1, <6>2, StatusIsSet
        <5> QED
          BY <5>1, <5>2
      <4> QED
        BY <2>1, <4>2
    <3>3. CASE call.method \notin {"Start", "Stop", "OnConnectionStatusChanged",
                                   "SetDeploymentStatus"}
      <4>1. \/ call.method \in {"GetHandlerType", "IsConfigured", "GetDeploymentStatus"}
            \/ call.method \in {"GetDeploymentStatusJson", "Invoke", "GetReportedSchema"}
        BY <2>1, <3>3 DEF Methods
      <4>2. CASE call.method = "GetHandlerType"
        BY <2>1, <4>2 DEF Returned
      <4>3. CASE call.method = "IsConfigured"
        BY <2>1, <4>3 DEF Returned
      <4>4. CASE call.method = "GetDeploymentStatus"
        BY <2>1, <4>4 DEF Returned
      <4>5. CASE call.method = "GetDeploymentStatusJson"
        BY <2>1, <4>5 DEF Returned
      <4>6. CASE call.method = "Invoke"
        <5>1. hosted' = [hosted EXCEPT ![h].configured = TRUE] \/ hosted' = hosted
          BY <2>1, <4>6 DEF Returned
        <5>2. CASE hosted' = hosted
          BY <5>2
        <5>3. CASE hosted' = [hosted EXCEPT ![h].configured = TRUE]
          <6>1. hosted \in [PluginHandlerIds ->
                 [status : Statuses \cup {"notStarted"}, statusJson : Statuses \cup {"notStarted"},
                  configured : BOOLEAN, started : BOOLEAN,
                  connection : {"unknown", "online", "offline"}]]
            OBVIOUS
          <6>2. h \in PluginHandlerIds
            BY <2>1
          <6> QED
            BY ONLY <5>3, <6>1, <6>2
        <5> QED
          BY ONLY <5>1, <5>2, <5>3
      <4>7. CASE call.method = "GetReportedSchema"
        BY <2>1, <4>7 DEF Returned
      <4> QED
        BY <4>1, <4>2, <4>3, <4>4, <4>5, <4>6, <4>7
    <3> QED
      BY <3>1, <3>2, <3>3, <3>4
  <2> QED
    BY <2>2, <2>3
<1>4. CASE HandlerThrows
  BY <1>4 DEF HandlerThrows, Answer
<1>5. CASE HandlerCallsBack
  BY <1>5 DEF HandlerCallsBack, CallbackTargets, Statuses
<1>6. CASE ReverseInvoke
  <2>1. \E o : back' = [back EXCEPT !.result = o, !.seen = AcrossReverse(o)]
    BY <1>6, Zenon DEF ReverseInvoke
  <2>2. back'.target = back.target /\ back'.count = back.count
    BY <2>1 DEF IsCallback
  <2> QED
    BY <1>6, <2>2 DEF ReverseInvoke
<1>7. CASE HostRestarts
  <2>1. PICK created \in SUBSET PluginHandlerIds :
           /\ rawHandlerMap' = created
           /\ hosted' = [h \in PluginHandlerIds |->
                           IF h \in created
                           THEN [NewHandler EXCEPT !.started = hosted[h].started,
                                                   !.connection = hosted[h].connection]
                           ELSE NewHandler]
    BY <1>7 DEF HostRestarts
  <2>2. \A h \in PluginHandlerIds :
           hosted[h].started \in BOOLEAN
           /\ hosted[h].connection \in {"unknown", "online", "offline"}
    OBVIOUS
  <2>3. hosted' \in [PluginHandlerIds ->
           [status : Statuses \cup {"notStarted"}, statusJson : Statuses \cup {"notStarted"},
            configured : BOOLEAN, started : BOOLEAN,
            connection : {"unknown", "online", "offline"}]]
    BY <2>1, <2>2 DEF NewHandler
  <2>4. /\ rawHandlerMap' \subseteq PluginHandlerIds
        /\ outOfProc' \in BOOLEAN /\ where' \in {"agent", "request", "handler", "callback", "ended"}
    BY <1>7, <2>1 DEF HostRestarts
  <2>5. call'.method = "none" /\ back'.target = "none" /\ back'.count = 0
    BY <1>7 DEF HostRestarts, NoCall, NoCallback
  <2> QED
    BY <2>3, <2>4, <2>5
<1> QED
  BY <1>1, <1>2, <1>3, <1>4, <1>5, <1>6, <1>7 DEF BoundaryStep

LEMMA BoundaryStepKeepsInv ==
  ASSUME BoundaryInv, BoundaryStep
  PROVE BoundaryInv'
<1>0. BoundaryOK'
  BY BoundaryStepOK
<1> DEFINE Calling == where \in {"request", "handler", "callback"} =>
                        /\ call.id \in PluginHandlerIds /\ call.method \in Methods
                        /\ call.argument \in Arguments(call.method)
           Backed(b) == /\ IsCallback(b) /\ IsOutcome(b.seen) /\ b.seen = b.result
                        /\ IsException(b.seen) => b.target \in {"RunSyncML", "Report"}
           CalledBack == where = "callback" => back.target \in CallbackTargets
           Seen == where = "agent" => Faithful(call.method, result, seen)
<1>1. BoundaryInv <=> BoundaryOK /\ Calling /\ Seen /\ Backed(back) /\ CalledBack
  BY DEF BoundaryInv
<1>2. BoundaryInv' <=> BoundaryOK' /\ Calling' /\ Seen' /\ Backed(back') /\ CalledBack'
  BY DEF BoundaryInv
<1>3. Backed(NoCallback)
  BY SpecialOutcomes DEF NoCallback, IsCallback
<1>4. CASE CallHandler
  <2>1. where' = "request" /\ back' = NoCallback
    BY <1>4 DEF CallHandler
  <2>2. Calling'
    BY <1>4 DEF CallHandler
  <2> QED
    BY <1>0, <1>2, <1>3, <2>1, <2>2
<1>5. CASE RouteToHandler
  <2>1. UNCHANGED <<call, back>> /\ where = "request"
    BY <1>5 DEF RouteToHandler
  <2>2. CASE where' = "handler"
    BY <1>0, <1>1, <1>2, <2>1, <2>2
  <2>3. CASE Answer(DMException("invalidRawHandler"))
    <3>1. where' = "agent" /\ Faithful(call.method, result', seen')
      BY <2>3, SpecialOutcomes, ExceptionFaithful
    <3> QED
      BY <1>0, <1>1, <1>2, <2>1, <3>1
  <2> QED
    BY <1>5, <2>2, <2>3 DEF RouteToHandler
<1>6. CASE HandlerReturns
  <2>1. where = "handler" /\ Returned(call.id) /\ UNCHANGED <<call, back>>
    BY <1>6 DEF HandlerReturns
  <2>2. where' = "agent" /\ Faithful(call.method, result', seen')
    BY <1>1, <2>1, ReturnedFaithful
  <2> QED
    BY <1>0, <1>1, <1>2, <2>1, <2>2
<1>7. CASE HandlerThrows
  <2>1. where = "handler" /\ UNCHANGED <<call, back>>
    BY <1>7 DEF HandlerThrows
  <2>2. \/ where' = "ended"
        \/ \E e : IsOutcome(e) /\ IsException(e) /\ Answer(e)
    <3>1. IsOutcome(back.seen) /\ IsOutcome(StdException) /\ IsException(StdException)
          /\ IsOutcome(DMException("own")) /\ IsException(DMException("own"))
      BY <1>1, SpecialOutcomes
    <3> QED
      BY <1>7, <3>1 DEF HandlerThrows
  <2>3. where' = "ended" \/ (where' = "agent" /\ Faithful(call.method, result', seen'))
    BY <2>2, ExceptionFaithful
  <2> QED
    BY <1>0, <1>1, <1>2, <2>1, <2>3
<1>8. CASE HandlerCallsBack
  <2>1. where = "handler" /\ where' = "callback" /\ UNCHANGED call
    BY <1>8 DEF HandlerCallsBack
  <2>2. back'.target \in CallbackTargets /\ back'.seen = Nothing /\ back'.result = Nothing
        /\ IsCallback(back')
    BY <1>8 DEF HandlerCallsBack, IsCallback
  <2> QED
    BY <1>0, <1>1, <1>2, <2>1, <2>2, SpecialOutcomes
<1>9. CASE ReverseInvoke
  <2>1. where = "callback" /\ where' = "handler" /\ UNCHANGED call
    BY <1>9 DEF ReverseInvoke
  <2>2. PICK o : /\ back' = [back EXCEPT !.result = o, !.seen = AcrossReverse(o)]
                 /\ \/ o = DMException(back.target) /\ LetsThrow(back.target)
                    \/ o \in {SyncMLResult, Nothing}
    BY <1>9, Zenon DEF ReverseInvoke
  <2>3. IsOutcome(o) /\ (IsException(o) => LetsThrow(back.target))
    BY <2>2, SpecialOutcomes
  <2>4. AcrossReverse(o) = o
    BY <2>3, ExceptionComesBack DEF AcrossReverse
  <2>5. IsCallback(back') /\ back'.seen = o /\ back'.result = o /\ back'.target = back.target
    BY <1>1, <2>2, <2>4 DEF IsCallback
  <2>6. LetsThrow(back.target) => back.target \in {"RunSyncML", "Report"}
    BY <1>1, <2>1 DEF CallbackTargets, LetsThrow
  <2> QED
    BY <1>0, <1>1, <1>2, <2>1, <2>3, <2>5, <2>6
<1>10. CASE HostRestarts
  <2>1. where = "agent" /\ where' = "agent" /\ back' = NoCallback
        /\ result' = Nothing /\ seen' = Nothing
    BY <1>10 DEF HostRestarts
  <2> QED
    BY <1>0, <1>2, <1>3, <2>1, SpecialOutcomes DEF Faithful
<1> QED
  BY <1>4, <1>5, <1>6, <1>7, <1>8, <1>9, <1>10 DEF BoundaryStep

LEMMA BoundaryInvKept == BoundaryInv /\ [Next]_pluginVars => BoundaryInv'
<1> SUFFICES ASSUME BoundaryInv, [Next]_pluginVars PROVE BoundaryInv'
  OBVIOUS
<1>1. BoundaryStep \/ UNCHANGED boundaryVars
  BY DEF Next, pluginVars, handlerVars
<1>2. ASSUME UNCHANGED boundaryVars PROVE BoundaryInv'
  BY <1>2 DEF boundaryVars, BoundaryInv, BoundaryOK
<1> QED
  BY <1>1, <1>2, BoundaryStepKeepsInv

(***************************************************************************)
(* For any handlers, any results and any callbacks: a call of the agent    *)
(* into a plug-in's binary and the calls back that it makes give what they *)
(* would give without the boundary, but for the three methods and the tags *)
(* that BoundaryIsTransparent names.  (RawHandlerProxy, PluginStub,        *)
(* AgentStub::ReverseInvoke, CrossBinaryResponse.)                         *)
(***************************************************************************)
THEOREM CrossesUnchanged == Spec => []BoundaryIsTransparent
<1>1. BoundaryInv => BoundaryIsTransparent
  BY DEF BoundaryInv, BoundaryIsTransparent, Faithful
<1> QED
  BY <1>1, BoundaryStarts, BoundaryInvKept, PTL DEF Spec

-----------------------------------------------------------------------------
(* The handlers of independent settings *)

NtpServerSet ==
    timeCache["ntpServer"] # Absent => timeDevice["ntpServer"] = timeCache["ntpServer"]
TimeZoneSet == Present = {} \/ \A l \in TimeZoneFields : timeDevice[l] = TimeZone(l)

\* Unless it was lost the handler's memory has all that the IoT Hub asks for:
\* it may have more, the leaves removed before a connection.
MemoryInv ==
    ~forgotten => \A l \in Leaves : timeDesired[l] # Absent => timeCache[l] = timeDesired[l]

\* Without an error each step has set its part of the memory's section.
TimeProgressInv ==
    /\ at = "apply" => timeChange.kind = "good"
    /\ at = "apply" /\ step \in {"timeZone", "report"} /\ ~errors => NtpServerSet
    /\ at = "apply" /\ step = "report" /\ ~errors => TimeZoneSet
    /\ at = "finalize" /\ timeChange.kind = "good" /\ ~errors => NtpServerSet /\ TimeZoneSet
    /\ Applied /\ timeChange.kind = "good" => NtpServerSet /\ TimeZoneSet

TimeInv ==
    /\ TimeOK
    /\ MemoryInv
    /\ part = "time" => TimeProgressInv
    /\ part # "time" => timeDesired = [l \in Leaves |-> Absent]

LEMMA TimeStarts == Init => TimeInv
<1> SUFFICES ASSUME Init PROVE TimeInv
  OBVIOUS
<1>1. TimeInit /\ FrameInit
  BY DEF Init
<1>2. TimeOK
  BY <1>1 DEF TimeInit, TimeOK, Sections, SectionKinds
<1> QED
  BY <1>1, <1>2 DEF TimeInit, FrameInit, TimeInv, MemoryInv, TimeProgressInv, Applied

\* What comes, from the cloud's change or from the whole section, is merged
\* into the memory as the IoT Hub merges it.
LEMMA InvokeTimeOK ==
  ASSUME TimeInv, NEW kind \in SectionKinds, NEW detailed \in BOOLEAN,
         NEW source \in [Leaves -> TimeValues \cup {Absent, "same"}],
         InvokeTime(kind, detailed, source), timeDesired' \in Sections, forgotten' \in BOOLEAN,
         ~forgotten' => \A l \in Leaves : timeDesired'[l] # Absent =>
            IF source[l] = "same" THEN ~forgotten /\ timeDesired'[l] = timeDesired[l]
            ELSE timeDesired'[l] = source[l]
  PROVE TimeOK' /\ MemoryInv' /\ TimeProgressInv'
<1>1. TimeOK'
  BY DEF TimeInv, TimeOK, InvokeTime, Merge, Sections
<1>2. MemoryInv'
  BY DEF TimeInv, TimeOK, MemoryInv, InvokeTime, Merge, Sections
<1>3. TimeProgressInv'
  <2>1. timeChange'.kind = kind /\ at' = (IF kind = "good" THEN "apply" ELSE "finalize")
        /\ (kind = "good" => step' = "ntpServer")
    BY DEF InvokeTime, Invoke, Begin
  <2> QED
    BY <2>1 DEF TimeProgressInv, Applied
<1> QED
  BY <1>1, <1>2, <1>3

LEMMA TimeStepOK ==
  ASSUME TimeInv, TimeStep, part = "time"
  PROVE TimeOK' /\ MemoryInv' /\ TimeProgressInv'
<1> USE TimeParametersOK
<1>1. CASE CloudChanges
  <2>1. PICK c \in TimeChanges : /\ timeDesired' = Changed(timeDesired, c)
                                 /\ InvokeTime(c.kind, c.detailed, c.leaves)
                                 /\ UNCHANGED forgotten
    BY <1>1 DEF CloudChanges
  <2>2. c.kind \in SectionKinds /\ c.detailed \in BOOLEAN
        /\ c.leaves \in [Leaves -> TimeValues \cup {Absent, "same"}]
    OBVIOUS
  <2>3. timeDesired' \in Sections /\ forgotten' \in BOOLEAN
    BY <2>1, <2>2 DEF TimeInv, TimeOK, Changed, Sections
  <2>4. \A l \in Leaves : IF c.leaves[l] = "same" THEN timeDesired'[l] = timeDesired[l]
                          ELSE timeDesired'[l] = c.leaves[l]
    BY <2>1 DEF Changed
  <2> QED
    BY <2>1, <2>2, <2>3, <2>4, InvokeTimeOK
<1>2. CASE Reconnects
  <2> DEFINE whole == [l \in Leaves |-> IF timeDesired[l] = Absent THEN "same" ELSE timeDesired[l]]
  <2>1. InvokeTime("good", timeChange.detailed, whole) /\ UNCHANGED timeDesired
        /\ forgotten' = FALSE
    BY <1>2 DEF Reconnects
  <2>2. whole \in [Leaves -> TimeValues \cup {Absent, "same"}]
        /\ timeChange.detailed \in BOOLEAN /\ "good" \in SectionKinds
    BY DEF TimeInv, TimeOK, Sections, SectionKinds
  <2>3. timeDesired' \in Sections /\ forgotten' \in BOOLEAN
    BY <2>1 DEF TimeInv, TimeOK
  <2>4. \A l \in Leaves : timeDesired'[l] # Absent =>
           whole[l] = timeDesired[l] /\ whole[l] # "same" /\ timeDesired'[l] = timeDesired[l]
    BY <2>1 DEF TimeInv, TimeOK, Sections
  <2> HIDE DEF whole
  <2> QED
    BY <2>1, <2>2, <2>3, <2>4, InvokeTimeOK
<1> DEFINE Same == UNCHANGED <<timeDesired, timeCache, timeChange, forgotten>>
<1>3. Same => (NtpServerSet' <=> (timeCache["ntpServer"] # Absent =>
                                    timeDevice'["ntpServer"] = timeCache["ntpServer"]))
              /\ (TimeZoneSet' <=> (Present = {} \/
                                      \A l \in TimeZoneFields : timeDevice'[l] = TimeZone(l)))
              /\ (MemoryInv => MemoryInv')
  BY DEF NtpServerSet, TimeZoneSet, MemoryInv, Present, TimeZone
<1>4. TimeOK /\ MemoryInv /\ TimeProgressInv
  BY DEF TimeInv
<1>5. CASE SetSubGroupNtpServer
  <2>1. Same /\ at = "apply" /\ step = "ntpServer" /\ at' = "apply" /\ step' = "timeZone"
    BY <1>5 DEF SetSubGroupNtpServer, At, Go, FailTo, Move
  <2>2. timeDevice' \in [Leaves -> TimeValues \cup {"default"}]
    BY <1>4, <1>5 DEF SetSubGroupNtpServer, TimeOK, Sections, Leaves
  <2>3. ~errors' => NtpServerSet'
    <3>1. ~errors' => timeDevice' = IF timeCache["ntpServer"] = Absent THEN timeDevice
                                    ELSE [timeDevice EXCEPT !["ntpServer"] = timeCache["ntpServer"]]
      BY <1>5 DEF SetSubGroupNtpServer, FailTo
    <3>2. timeDevice \in [Leaves -> TimeValues \cup {"default"}] /\ "ntpServer" \in Leaves
      BY <1>4 DEF TimeOK, Leaves
    <3> QED
      BY <1>3, <2>1, <3>1, <3>2
  <2>4. TimeOK'
    BY <1>4, <2>1, <2>2 DEF TimeOK
  <2> QED
    BY <1>3, <1>4, <2>1, <2>3, <2>4 DEF TimeProgressInv, Applied
<1>6. CASE SetSubGroupTimeZone
  <2>1. Same /\ at = "apply" /\ step = "timeZone" /\ at' = "apply" /\ step' = "report"
    BY <1>6 DEF SetSubGroupTimeZone, At, Go, FailTo, Throw, Move
  <2>2. \/ UNCHANGED <<timeDevice, errors>> /\ Present = {}
        \/ UNCHANGED timeDevice /\ errors' = TRUE
        \/ /\ timeDevice' = [l \in Leaves |-> IF l \in TimeZoneFields THEN TimeZone(l)
                                              ELSE timeDevice[l]]
           /\ Present = TimeZoneFields /\ UNCHANGED errors
    BY <1>6 DEF SetSubGroupTimeZone, Go, FailTo, Throw
  <2>3. timeDevice' \in [Leaves -> TimeValues \cup {"default"}]
    <3>1. Present = TimeZoneFields => \A l \in TimeZoneFields : TimeZone(l) \in TimeValues
      BY <1>4 DEF Present, TimeZone, TimeOK, Sections, Leaves
    <3> QED
      BY <1>4, <2>2, <3>1 DEF TimeOK, Leaves
  <2>4. ~errors' => NtpServerSet' /\ TimeZoneSet'
    <3>1. ~errors' => ~errors
      BY <2>2
    <3>2. ~errors' => NtpServerSet
      BY <1>4, <2>1, <3>1 DEF TimeProgressInv
    <3>3. "ntpServer" \notin TimeZoneFields /\ TimeZoneFields \subseteq Leaves /\ "ntpServer" \in Leaves
      BY DEF Leaves
    <3>4. timeDevice'["ntpServer"] = timeDevice["ntpServer"]
      BY <2>2, <3>3
    <3>5. ~errors' => TimeZoneSet'
      BY <1>3, <2>1, <2>2, <3>3
    <3> QED
      BY <1>3, <2>1, <3>2, <3>4, <3>5 DEF NtpServerSet
  <2>5. TimeOK'
    BY <1>4, <2>1, <2>3 DEF TimeOK
  <2> QED
    BY <1>3, <1>4, <2>1, <2>4, <2>5 DEF TimeProgressInv, Applied
<1>7. ASSUME UNCHANGED timeVars
      PROVE TimeOK' /\ MemoryInv' /\ (NtpServerSet' <=> NtpServerSet)
            /\ (TimeZoneSet' <=> TimeZoneSet) /\ timeChange' = timeChange
  <2>1. Same /\ timeDevice' = timeDevice
    BY <1>7 DEF timeVars
  <2> QED
    BY <1>3, <1>4, <2>1 DEF TimeOK, NtpServerSet, TimeZoneSet
<1>8. CASE ReportTime
  <2>1. UNCHANGED timeVars /\ at = "apply" /\ step = "report" /\ at' = "finalize"
        /\ (~errors' => ~errors)
    BY <1>8 DEF ReportTime, At, Leave
  <2> QED
    BY <1>4, <1>7, <2>1 DEF TimeProgressInv, Applied
<1>9. CASE FinalizeAndReport /\ UNCHANGED timeVars
  <2>1. UNCHANGED timeVars /\ at = "finalize" /\ at' = "idle"
        /\ (deployment' = "succeeded" => ~errors)
    BY <1>9 DEF FinalizeAndReport, Return
  <2> QED
    BY <1>4, <1>7, <2>1 DEF TimeProgressInv, Applied
<1>10. CASE TimeHostEnds
  <2>1. timeCache' = [l \in Leaves |-> Absent] /\ forgotten' = TRUE
        /\ UNCHANGED <<timeDesired, timeChange, timeDevice>> /\ at' = "idle"
    BY <1>10 DEF TimeHostEnds, HostEnds
  <2>2. TimeOK' /\ MemoryInv'
    BY <1>4, <2>1 DEF TimeOK, MemoryInv, Sections
  <2>3. NtpServerSet' /\ TimeZoneSet'
    BY <2>1 DEF NtpServerSet, TimeZoneSet, Present, Leaves
  <2> QED
    BY <2>1, <2>2, <2>3 DEF TimeProgressInv
<1> QED
  BY <1>1, <1>2, <1>5, <1>6, <1>8, <1>9, <1>10 DEF TimeStep

LEMMA TimeInvKept == TimeInv /\ [Next]_pluginVars => TimeInv'
<1> SUFFICES ASSUME TimeInv, [Next]_pluginVars PROVE TimeInv'
  OBVIOUS
<1>1. CASE part = "time" /\ TimeStep /\ UNCHANGED part
  BY <1>1, TimeStepOK DEF TimeInv
<1>2. CASE part # "time" /\ UNCHANGED <<part, timeVars>>
  BY <1>2 DEF TimeInv, TimeOK, MemoryInv, timeVars
<1>3. CASE UNCHANGED <<part, frame, timeVars>>
  BY <1>3 DEF TimeInv, TimeOK, MemoryInv, TimeProgressInv, Applied, NtpServerSet, TimeZoneSet,
              Present, TimeZone, timeVars, frame
<1>4. \/ part = "time" /\ TimeStep /\ UNCHANGED part
      \/ part # "time" /\ UNCHANGED <<part, timeVars>>
      \/ UNCHANGED <<part, frame, timeVars>>
  BY DEF Next, pluginVars, handlerVars
<1> QED
  BY <1>1, <1>2, <1>3, <1>4

LEMMA TimeInvImplies == TimeInv => TimeApplied
<1> SUFFICES ASSUME TimeInv, Applied, timeChange.kind = "good", ~forgotten,
                    NEW l \in Leaves \ {DaylightDate}, timeDesired[l] # Absent
             PROVE timeDevice[l] = timeDesired[l]
  BY DEF TimeApplied
<1>1. timeCache[l] = timeDesired[l] /\ NtpServerSet /\ TimeZoneSet
  BY DEF TimeInv, MemoryInv, TimeProgressInv
<1>2. l \in TimeZoneFields => l \in Present /\ TimeZone(l) = timeCache[l]
  BY <1>1 DEF Present, TimeZone
<1> QED
  BY <1>1, <1>2 DEF NtpServerSet, TimeZoneSet, Leaves

InForce(s) == policySection.values[s] # "absent" => policies[s] = policySection.values[s]
Shown(s) == ~policyHandler.tryRead => policyReported[s] = policies[s]

\* Without an error the settings that are not left to be set are in force, and
\* those that are not left to be read are in the report.
PolicyProgressInv ==
    /\ at \in {"idle", "apply", "finalize"}
    /\ at = "apply" => policySection.kind = "good" /\ step \in {"set", "get"}
    /\ at \in {"apply", "finalize"} /\ policySection.kind = "good" => deployment = "pending"
    /\ at = "apply" /\ step = "set" /\ ~errors =>
         \A s \in Settings \ ToSet(policyTodo) : InForce(s)
    /\ at = "apply" /\ step = "get" => policySection.detailed
    /\ at = "apply" /\ step = "get" /\ ~errors =>
         /\ \A s \in Settings : InForce(s)
         /\ \A s \in Settings \ ToSet(policyTodo) : Shown(s)
    /\ ((at = "finalize" /\ ~errors) \/ Applied) /\ policySection.kind = "good" =>
         \A s \in Settings : InForce(s) /\ (policySection.detailed => Shown(s))

PolicyInv ==
    /\ PoliciesOK
    /\ part = "policies" => PolicyProgressInv
    /\ part # "policies" => policySection.kind # "good"

LEMMA PoliciesStart == Init => PolicyInv
<1> SUFFICES ASSUME Init PROVE PolicyInv
  OBVIOUS
<1>1. PoliciesInit /\ FrameInit
  BY DEF Init
<1>2. policyTodo \in Seq(Settings)
  BY <1>1, EmptySeq DEF PoliciesInit
<1>3. PoliciesOK
  BY <1>1, <1>2 DEF PoliciesInit, PoliciesOK, NoPolicies
<1>4. policySection.kind = "none"
  BY <1>1 DEF PoliciesInit, NoPolicySection
<1> QED
  BY <1>1, <1>3, <1>4 DEF FrameInit, PolicyInv, PolicyProgressInv, Applied

LEMMA PolicyTypes ==
  ASSUME PoliciesOK
  PROVE /\ policySection.kind = "good" => policySection \in PolicySections
        /\ policySection.values \in [Settings -> PolicyValues \cup {"absent", "invalid"}]
        /\ policySection.detailed \in BOOLEAN
        /\ policyTodo # << >> => /\ Setting \in Settings
                                 /\ Tail(policyTodo) \in Seq(Settings)
                                 /\ ToSet(policyTodo) = {Setting} \cup ToSet(Tail(policyTodo))
        /\ policyTodo = << >> => ToSet(policyTodo) = {}
<1>1. policySection \in PolicySections \/ policySection = NoPolicySection
  BY DEF PoliciesOK
<1>2. policySection.values \in [Settings -> PolicyValues \cup {"absent", "invalid"}]
      /\ policySection.detailed \in BOOLEAN
      /\ (policySection.kind = "good" => policySection \in PolicySections)
  <2>1. CASE policySection \in PolicySections
    BY <2>1, PoliciesParametersOK
  <2>2. CASE policySection = NoPolicySection
    BY <2>2 DEF NoPolicySection, NoPolicies
  <2> QED
    BY <1>1, <2>1, <2>2
<1>3. policyTodo \in Seq(Settings)
  BY DEF PoliciesOK
<1> QED
  BY <1>2, <1>3, HeadAndTail, NothingInEmpty DEF Setting

LEMMA PoliciesStepOK ==
  ASSUME PolicyInv, PoliciesStep, part = "policies"
  PROVE PoliciesOK' /\ PolicyProgressInv'
<1>1. PoliciesOK /\ PolicyProgressInv
  BY DEF PolicyInv
<1>2. CASE InvokePolicies
  <2>1. PICK s \in PolicySections : /\ Invoke(s.kind, "set")
                                    /\ policySection' = s /\ policyTodo' = SettingOrder
                                    /\ policyReported' = NoPolicies
                                    /\ UNCHANGED <<policyHandler, policies>>
    BY <1>2 DEF InvokePolicies
  <2>2. PoliciesOK'
    BY <1>1, <2>1, PoliciesParametersOK DEF PoliciesOK, NoPolicies
  <2>3. at' = (IF s.kind = "good" THEN "apply" ELSE "finalize")
        /\ (s.kind = "good" => step' = "set" /\ deployment' = "pending")
    BY <2>1 DEF Invoke, Begin
  <2>4. Settings \ ToSet(policyTodo)' = {}
    BY <2>1 DEF Settings
  <2> QED
    BY <2>1, <2>2, <2>3, <2>4 DEF PolicyProgressInv, Applied
<1>3. CASE SetSubGroup
  <2>1. /\ at = "apply" /\ step = "set" /\ UNCHANGED <<at, step, deployment>>
        /\ policyTodo # << >> /\ policyTodo' = Tail(policyTodo)
        /\ UNCHANGED <<policyHandler, policySection, policyReported>>
    BY <1>3 DEF SetSubGroup, At, Go, Throw, FailTo, Move
  <2>2. \/ Value \in PolicyValues /\ policies' = [policies EXCEPT ![Setting] = Value]
        \/ UNCHANGED policies /\ (Value = "absent" \/ errors')
    BY <1>3 DEF SetSubGroup, Throw, FailTo
  <2>3. ~errors' => ~errors
    BY <1>3 DEF SetSubGroup, Go, Throw, FailTo
  <2>4. PoliciesOK'
    BY <1>1, <2>1, <2>2, PolicyTypes DEF PoliciesOK
  <2>5. ~errors' => \A s \in Settings \ ToSet(policyTodo)' : InForce(s)'
    <3> SUFFICES ASSUME ~errors', NEW s \in Settings, s \notin ToSet(policyTodo') PROVE InForce(s)'
      OBVIOUS
    <3>1. CASE s = Setting
      BY <1>1, <2>1, <2>2, <3>1 DEF InForce, Value, PoliciesOK
    <3>2. CASE s # Setting
      <4>1. InForce(s)
        BY <1>1, <2>1, <2>3, <3>2, PolicyTypes DEF PolicyProgressInv
      <4> QED
        BY <1>1, <2>1, <2>2, <3>2, <4>1 DEF InForce, PoliciesOK
    <3> QED
      BY <3>1, <3>2
  <2> QED
    BY <1>1, <2>1, <2>4, <2>5 DEF PolicyProgressInv, Applied
<1>4. CASE AllSet
  <2>1. /\ at = "apply" /\ step = "set" /\ at' = "apply" /\ step' = "get"
        /\ UNCHANGED <<deployment, errors, policyHandler, policies, policySection, policyReported>>
        /\ policyTodo = << >> /\ policyTodo' = SettingOrder /\ policySection.detailed
    BY <1>4 DEF AllSet, At, Go, Move
  <2>2. PoliciesOK'
    BY <1>1, <2>1, PoliciesParametersOK DEF PoliciesOK
  <2>3. ~errors => \A s \in Settings : InForce(s)'
    BY <1>1, <2>1, PolicyTypes DEF PolicyProgressInv, InForce
  <2>4. Settings \ ToSet(policyTodo)' = {}
    BY <2>1 DEF Settings
  <2> QED
    BY <1>1, <2>1, <2>2, <2>3, <2>4 DEF PolicyProgressInv, Applied
<1>5. CASE GetSubGroup
  <2>1. /\ at = "apply" /\ step = "get" /\ UNCHANGED <<at, step, deployment>>
        /\ policyTodo # << >> /\ policyTodo' = Tail(policyTodo)
        /\ UNCHANGED <<policyHandler, policies, policySection>>
        /\ (~errors' => ~errors)
    BY <1>5 DEF GetSubGroup, At, Go, Throw, FailTo, Move
  <2>2. \/ policies[Setting] # "unset"
           /\ policyReported' = [policyReported EXCEPT ![Setting] = policies[Setting]]
        \/ policyHandler.tryRead
           /\ \E v \in PolicyValues : policyReported' = [policyReported EXCEPT ![Setting] = v]
        \/ errors' /\ UNCHANGED policyReported
    BY <1>5 DEF GetSubGroup, Throw, FailTo, Reports
  <2>3. PoliciesOK'
    <3>1. policies[Setting] \in PolicyValues \cup {"unset"}
      BY <1>1, <2>1, PolicyTypes DEF PoliciesOK
    <3>2. policyReported' \in [Settings -> PolicyValues \cup {"absent", "unset"}]
      BY <1>1, <2>2, <3>1 DEF PoliciesOK
    <3> QED
      BY <1>1, <2>1, <3>2, PolicyTypes DEF PoliciesOK
  <2>4. ~errors' => \A s \in Settings \ ToSet(policyTodo)' : Shown(s)'
    <3> SUFFICES ASSUME ~errors', NEW s \in Settings, s \notin ToSet(policyTodo') PROVE Shown(s)'
      OBVIOUS
    <3>1. CASE s = Setting
      BY <1>1, <2>1, <2>2, <3>1 DEF Shown, PoliciesOK
    <3>2. CASE s # Setting
      <4>1. Shown(s)
        BY <1>1, <2>1, <3>2, PolicyTypes DEF PolicyProgressInv
      <4> QED
        BY <1>1, <2>1, <2>2, <3>2, <4>1 DEF Shown, PoliciesOK
    <3> QED
      BY <3>1, <3>2
  <2>5. \A s : InForce(s)' <=> InForce(s)
    BY <2>1 DEF InForce
  <2> QED
    BY <1>1, <2>1, <2>3, <2>4, <2>5 DEF PolicyProgressInv, Applied
<1>6. ASSUME UNCHANGED policyVars
      PROVE PoliciesOK' /\ \A s : (InForce(s)' <=> InForce(s)) /\ (Shown(s)' <=> Shown(s))
  BY <1>1, <1>6 DEF policyVars, PoliciesOK, InForce, Shown
<1>7. CASE ReportPolicies
  <2>1. /\ UNCHANGED policyVars /\ policyTodo = << >> /\ at = "apply"
        /\ step = (IF policySection.detailed THEN "get" ELSE "set")
        /\ at' = "finalize" /\ UNCHANGED deployment /\ (~errors' => ~errors)
    BY <1>7 DEF ReportPolicies, At, Leave
  <2>2. ~errors => \A s \in Settings : InForce(s) /\ (policySection.detailed => Shown(s))
    BY <1>1, <2>1, PolicyTypes DEF PolicyProgressInv
  <2> QED
    BY <1>1, <1>6, <2>1, <2>2 DEF PolicyProgressInv, policyVars, Applied
<1>8. CASE FinalizeAndReport /\ UNCHANGED policyVars
  <2>1. at = "finalize" /\ at' = "idle" /\ (deployment' = "succeeded" => ~errors)
    BY <1>8 DEF FinalizeAndReport, Return
  <2> QED
    BY <1>1, <1>6, <1>8, <2>1 DEF PolicyProgressInv, Applied, policyVars
<1>9. CASE HostEnds /\ UNCHANGED policyVars
  <2>1. at' = "idle" /\ UNCHANGED deployment
    BY <1>9 DEF HostEnds
  <2>2. Applied' /\ policySection.kind = "good" =>
           at \notin {"apply", "finalize"} /\ deployment = "succeeded"
    BY <1>1, <2>1 DEF PolicyProgressInv, Applied
  <2> QED
    BY <1>1, <1>6, <1>9, <2>1, <2>2 DEF PolicyProgressInv, Applied, policyVars
<1> QED
  BY <1>2, <1>3, <1>4, <1>5, <1>7, <1>8, <1>9 DEF PoliciesStep

LEMMA PolicyInvKept == PolicyInv /\ [Next]_pluginVars => PolicyInv'
<1> SUFFICES ASSUME PolicyInv, [Next]_pluginVars PROVE PolicyInv'
  OBVIOUS
<1>1. CASE part = "policies" /\ PoliciesStep /\ UNCHANGED part
  BY <1>1, PoliciesStepOK DEF PolicyInv
<1>2. CASE part # "policies" /\ UNCHANGED <<part, policyVars>>
  BY <1>2 DEF PolicyInv, PoliciesOK, policyVars
<1>3. CASE UNCHANGED <<part, frame, policyVars>>
  BY <1>3 DEF PolicyInv, PoliciesOK, PolicyProgressInv, Applied, InForce, Shown, policyVars, frame
<1>4. \/ part = "policies" /\ PoliciesStep /\ UNCHANGED part
      \/ part # "policies" /\ UNCHANGED <<part, policyVars>>
      \/ UNCHANGED <<part, frame, policyVars>>
  BY DEF Next, pluginVars, handlerVars
<1> QED
  BY <1>1, <1>2, <1>3, <1>4

(***************************************************************************)
(* For any settings, sections and failures: when a handler of independent  *)
(* settings reports success, what was asked for is in force.               *)
(* (TimeStateHandler with JsonHelpers::Merge; WindowsUpdateHandler,        *)
(* RebootStateHandler and WindowsTelemetryStateHandler.)                   *)
(***************************************************************************)
THEOREM SuccessMeansSet == Spec => []SettingsApplied
<1>1. PolicyInv => PoliciesApplied
  BY DEF PolicyInv, PolicyProgressInv, PoliciesApplied, InForce, Shown
<1>2. TimeInv /\ PolicyInv => SettingsApplied
  BY <1>1, TimeInvImplies DEF SettingsApplied
<1> QED
  BY <1>2, TimeStarts, TimeInvKept, PoliciesStart, PolicyInvKept, PTL DEF Spec

-----------------------------------------------------------------------------
(* The handlers that only report *)

\* What was to be read and could not be.
LeftOut == {p \in InfoProperties \ ToSet(infoTodo) : infoRead[p] = "absent"}
Gaps(shown) == {p \in InfoProperties : shown[p] = "absent"}
GapsExplained(shown) == Cardinality(Gaps(shown)) \in 0 .. spent.faults \cup {Len(InfoOrder)}

\* Each property that is passed without a value has cost a failure and left an
\* error, unless nothing is to be read at all.
InfoProgressInv ==
    /\ at \in {"idle", "apply", "finalize"}
    /\ spent.faults \in Nat
    /\ at = "apply" =>
         \/ infoTodo = << >> /\ infoRead = EmptyInfo /\ infoAsked = EmptyInfo
         \/ /\ infoAsked = AllInfo
            /\ infoRead \in [InfoProperties -> {"absent", "value"}]
            /\ Cardinality(LeftOut) <= spent.faults
            /\ ~errors => LeftOut = {}
    /\ at = "finalize" =>
         /\ GapsExplained(infoRead)
         /\ ~errors => infoRead = infoAsked
    /\ infoTwin = "report" => GapsExplained(infoShown)
    /\ at = "idle" /\ deployment = "succeeded" /\ ~unanswered => infoShown = infoAsked
    /\ at = "idle" /\ infoTwin = "refreshing" => unanswered

InfoInv ==
    /\ infoTodo \in Seq(InfoProperties)
    /\ part = "info" => InfoProgressInv
    /\ part # "info" => infoTwin = "none" /\ infoShown = infoAsked

LEMMA InfoFinite ==
  /\ IsFiniteSet(InfoProperties) /\ Cardinality(InfoProperties) = Len(InfoOrder)
  /\ Len(InfoOrder) \in Nat
<1>1. InfoOrder \in Seq(InfoProperties) /\ IsInjective(InfoOrder)
  BY InfoParametersOK
<1>2. Len(InfoOrder) \in Nat /\ DOMAIN InfoOrder = 1 .. Len(InfoOrder)
      /\ InfoOrder \in [1 .. Len(InfoOrder) -> InfoProperties]
  BY <1>1, LenProperties
<1>3. InfoOrder \in Bijection(1 .. Len(InfoOrder), InfoProperties)
  BY <1>1, <1>2 DEF Bijection, Injection, Surjection, IsInjective, InfoProperties, ToSet
<1>4. ExistsBijection(1 .. Len(InfoOrder), InfoProperties)
  BY <1>3 DEF ExistsBijection
<1>5. IsFiniteSet(1 .. Len(InfoOrder)) /\ Cardinality(1 .. Len(InfoOrder)) = Len(InfoOrder)
  BY <1>2, FS_Interval
<1> QED
  BY <1>2, <1>4, <1>5, FS_Bijection

LEMMA InfoSubsets ==
  ASSUME NEW P, P \subseteq InfoProperties
  PROVE IsFiniteSet(P) /\ Cardinality(P) \in Nat
BY InfoFinite, FS_Subset, FS_CardinalityType

\* The reports with nothing, with nulls and with all values have no gap that
\* needs an explanation.
LEMMA WholeReports ==
  ASSUME spent.faults \in Nat
  PROVE GapsExplained(NoInfo) /\ GapsExplained(EmptyInfo) /\ GapsExplained(AllInfo)
<1>1. Gaps(NoInfo) = InfoProperties /\ Gaps(EmptyInfo) = {} /\ Gaps(AllInfo) = {}
  BY DEF Gaps, NoInfo, EmptyInfo, AllInfo
<1> QED
  BY <1>1, InfoFinite, FS_EmptySet DEF GapsExplained

LEMMA InfoStarts == Init => InfoInv
<1> SUFFICES ASSUME Init PROVE InfoInv
  OBVIOUS
<1>1. InfoInit /\ FrameInit
  BY DEF Init
<1>2. infoTodo \in Seq(InfoProperties)
  BY <1>1, EmptySeq DEF InfoInit
<1> QED
  BY <1>1, <1>2 DEF FrameInit, InfoInit, InfoInv, InfoProgressInv

\* A read that begins with everything still to do has nothing unread.
LEMMA ReadingBegins ==
  ASSUME infoTodo = InfoOrder, infoRead = NoInfo, spent.faults \in Nat
  PROVE /\ infoRead \in [InfoProperties -> {"absent", "value"}]
        /\ Cardinality(LeftOut) <= spent.faults /\ LeftOut = {}
<1>1. LeftOut = {}
  BY DEF LeftOut, InfoProperties
<1> QED
  BY <1>1, FS_EmptySet DEF NoInfo

LEMMA ReadPropertyOK ==
  ASSUME InfoProgressInv, infoTodo \in Seq(InfoProperties), ReadProperty
  PROVE InfoProgressInv'
<1>1. at = "apply" /\ at' = "apply" /\ infoTodo # << >> /\ infoTodo' = Tail(infoTodo)
      /\ UNCHANGED <<deployment, infoTwin, infoShown, infoAsked, unanswered>>
  BY DEF ReadProperty, At, Go, FailTo, Move
<1>2. /\ infoAsked = AllInfo
      /\ infoRead \in [InfoProperties -> {"absent", "value"}]
      /\ Cardinality(LeftOut) <= spent.faults
      /\ ~errors => LeftOut = {}
      /\ spent.faults \in Nat
  BY <1>1 DEF InfoProgressInv
<1> DEFINE p == Head(infoTodo)
<1>3. p \in InfoProperties /\ ToSet(infoTodo) = {p} \cup ToSet(Tail(infoTodo))
  BY <1>1, HeadAndTail
<1> HIDE DEF p
<1>4. IsFiniteSet(LeftOut) /\ Cardinality(LeftOut) \in Nat
  BY InfoSubsets DEF LeftOut
<1>5. CASE infoRead' = [infoRead EXCEPT ![p] = "value"] /\ UNCHANGED <<errors, spent>>
  <2>1. infoRead' \in [InfoProperties -> {"absent", "value"}] /\ LeftOut' \subseteq LeftOut
    BY <1>1, <1>2, <1>3, <1>5 DEF LeftOut
  <2>2. Cardinality(LeftOut') <= Cardinality(LeftOut) /\ Cardinality(LeftOut') \in Nat
    BY <1>4, <2>1, FS_Subset, FS_CardinalityType
  <2>3. Cardinality(LeftOut') <= spent'.faults /\ (~errors' => LeftOut' = {})
    BY <1>2, <1>4, <1>5, <2>1, <2>2
  <2> QED
    BY <1>1, <1>5, <2>1, <2>3 DEF InfoProgressInv, GapsExplained
<1>6. CASE UNCHANGED infoRead /\ errors' = TRUE /\ Fault
  <2>1. spent'.faults = spent.faults + 1
    BY <1>2, <1>6 DEF Fault
  <2>2. LeftOut' \subseteq LeftOut \cup {p}
    BY <1>1, <1>3, <1>6 DEF LeftOut
  <2>3. IsFiniteSet(LeftOut \cup {p}) /\ Cardinality(LeftOut \cup {p}) <= Cardinality(LeftOut) + 1
        /\ Cardinality(LeftOut \cup {p}) \in Nat
    <3>1. /\ IsFiniteSet(LeftOut \cup {p})
          /\ Cardinality(LeftOut \cup {p}) =
               IF p \in LeftOut THEN Cardinality(LeftOut) ELSE Cardinality(LeftOut) + 1
      BY <1>4, FS_AddElement
    <3> QED
      BY <1>4, <3>1
  <2>4. Cardinality(LeftOut') <= Cardinality(LeftOut \cup {p}) /\ Cardinality(LeftOut') \in Nat
    BY <2>2, <2>3, FS_Subset, FS_CardinalityType
  <2>5. Cardinality(LeftOut)' <= spent'.faults
    BY <1>2, <1>4, <2>1, <2>3, <2>4
  <2>6. infoTwin = "report" => GapsExplained(infoShown)'
    <3> SUFFICES ASSUME infoTwin = "report" PROVE GapsExplained(infoShown)'
      OBVIOUS
    <3>1. GapsExplained(infoShown) /\ infoShown' = infoShown
      BY <1>1 DEF InfoProgressInv
    <3>2. 0 .. spent.faults \subseteq 0 .. spent'.faults
      BY <1>2, <2>1
    <3> QED
      BY <3>1, <3>2 DEF GapsExplained, Gaps
  <2> QED
    BY <1>1, <1>2, <1>6, <2>1, <2>5, <2>6 DEF InfoProgressInv
<1> QED
  BY <1>5, <1>6 DEF ReadProperty, Go, FailTo, p

LEMMA InfoStepOK ==
  ASSUME InfoInv, InfoStep, part = "info"
  PROVE infoTodo' \in Seq(InfoProperties) /\ InfoProgressInv'
<1>1. infoTodo \in Seq(InfoProperties) /\ InfoProgressInv /\ spent.faults \in Nat
  BY DEF InfoInv, InfoProgressInv
<1>2. << >> \in Seq(InfoProperties) /\ InfoOrder \in Seq(InfoProperties)
  BY EmptySeq, InfoParametersOK
<1>3. CASE InvokeInfo
  <2>1. PICK s \in InfoSections :
           /\ Invoke(s.kind, "read")
           /\ infoTodo' = IF s.kind = "good" /\ s.detailed THEN InfoOrder ELSE << >>
           /\ infoRead' = IF s.kind = "good" /\ ~s.detailed THEN EmptyInfo ELSE NoInfo
           /\ infoTwin' = IF s.kind = "refreshing" THEN infoTwin ELSE "refreshing"
           /\ infoAsked' = AskedBy(s)
           /\ UNCHANGED <<reportOnConnect, infoShown, unanswered>>
    BY <1>3 DEF InvokeInfo
  <2>2. /\ at' = (IF s.kind = "good" THEN "apply" ELSE "finalize")
        /\ spent' = [spent EXCEPT !.invocations = @ + 1]
        /\ deployment' = (IF s.kind = "refreshing" THEN deployment ELSE "pending")
        /\ errors' = (s.kind = "wrongVersion")
    BY <2>1 DEF Invoke, Begin
  <2>3. spent'.faults = spent.faults
    BY <2>2
  <2>4. at' = "apply" =>
          \/ infoTodo' = << >> /\ infoRead' = EmptyInfo /\ infoAsked' = EmptyInfo
          \/ infoTodo' = InfoOrder /\ infoRead' = NoInfo /\ infoAsked' = AllInfo
    BY <2>1, <2>2 DEF AskedBy
  <2>5. infoTodo' = InfoOrder /\ infoRead' = NoInfo =>
          /\ infoRead' \in [InfoProperties -> {"absent", "value"}]
          /\ Cardinality(LeftOut)' <= spent'.faults /\ LeftOut' = {}
    <3>1. (infoTodo = InfoOrder /\ infoRead = NoInfo /\ spent.faults \in Nat =>
             /\ infoRead \in [InfoProperties -> {"absent", "value"}]
             /\ Cardinality(LeftOut) <= spent.faults /\ LeftOut = {})'
      BY ReadingBegins, PTL
    <3> QED
      BY <1>1, <2>3, <3>1
  <2>6. GapsExplained(NoInfo)' /\ (infoTwin = "report" => GapsExplained(infoShown)')
    BY <1>1, <2>1, <2>3, WholeReports DEF GapsExplained, Gaps, InfoProgressInv
  <2>7. at' = "finalize" => infoRead' = NoInfo /\ infoAsked' = NoInfo
    BY <2>1, <2>2 DEF AskedBy
  <2>8. InfoProgressInv'
    <3>1. at' \in {"idle", "apply", "finalize"} /\ spent'.faults \in Nat /\ at' # "idle"
      BY <1>1, <2>2, <2>3
    <3>2. infoTwin' = "report" => infoTwin = "report" /\ deployment' = deployment
      BY <2>1, <2>2
    <3>3. at' = "finalize" => GapsExplained(infoRead)'
      BY <2>6, <2>7 DEF GapsExplained, Gaps
    <3>4. infoTwin' = "report" => GapsExplained(infoShown)'
      BY <2>1, <2>6, <3>2
    <3> QED
      BY <1>1, <2>1, <2>4, <2>5, <2>7, <3>1, <3>2, <3>3, <3>4 DEF InfoProgressInv
  <2> QED
    BY <1>2, <2>1, <2>8
<1>4. CASE Online
  <2>1. /\ at = "idle" /\ spent' = [spent EXCEPT !.invocations = @ + 1]
        /\ deployment' = "pending" /\ infoTwin' = "refreshing" /\ infoRead' = NoInfo
        /\ infoAsked' = AllInfo
        /\ \/ reportOnConnect /\ at' = "apply" /\ infoTodo' = InfoOrder
           \/ ~reportOnConnect /\ at' = "idle" /\ UNCHANGED infoTodo /\ unanswered'
    BY <1>4 DEF Online
  <2>2. spent'.faults = spent.faults
    BY <2>1
  <2>3. at' = "apply" =>
          /\ infoRead' \in [InfoProperties -> {"absent", "value"}]
          /\ Cardinality(LeftOut)' <= spent'.faults /\ LeftOut' = {}
    <3>1. (infoTodo = InfoOrder /\ infoRead = NoInfo /\ spent.faults \in Nat =>
             /\ infoRead \in [InfoProperties -> {"absent", "value"}]
             /\ Cardinality(LeftOut) <= spent.faults /\ LeftOut = {})'
      BY ReadingBegins, PTL
    <3> QED
      BY <1>1, <2>1, <2>2, <3>1
  <2>4. InfoProgressInv'
    BY <1>1, <2>1, <2>2, <2>3 DEF InfoProgressInv
  <2> QED
    BY <1>1, <1>2, <2>1, <2>4
<1>5. CASE ReadProperty
  <2>1. infoTodo' \in Seq(InfoProperties)
    BY <1>1, <1>5, HeadAndTail DEF ReadProperty
  <2> QED
    BY <1>1, <1>5, <2>1, ReadPropertyOK
<1>6. CASE AllRead
  <2>1. /\ at = "apply" /\ infoTodo = << >> /\ at' = "finalize"
        /\ (~errors' => ~errors) /\ UNCHANGED <<deployment, spent, infoVars>>
    BY <1>6 DEF AllRead, At, Leave
  <2>2. Gaps(infoRead) = LeftOut
    BY <2>1, NothingInEmpty DEF Gaps, LeftOut
  <2>3. GapsExplained(infoRead) /\ (~errors => infoRead = infoAsked)
    <3>1. CASE infoRead = EmptyInfo /\ infoAsked = EmptyInfo
      BY <1>1, <3>1, WholeReports
    <3>2. CASE /\ infoAsked = AllInfo
               /\ infoRead \in [InfoProperties -> {"absent", "value"}]
               /\ Cardinality(LeftOut) <= spent.faults
               /\ ~errors => LeftOut = {}
      <4>1. Cardinality(LeftOut) \in Nat
        BY InfoSubsets DEF LeftOut
      <4>2. GapsExplained(infoRead)
        BY <1>1, <2>2, <3>2, <4>1 DEF GapsExplained
      <4>3. ~errors => infoRead = AllInfo
        BY <2>2, <3>2 DEF Gaps, AllInfo
      <4> QED
        BY <3>2, <4>2, <4>3
    <3> QED
      BY <1>1, <2>1, <3>1, <3>2 DEF InfoProgressInv
  <2> QED
    BY <1>1, <2>1, <2>3 DEF InfoProgressInv, infoVars, GapsExplained, Gaps
<1>7. CASE ReportInfo
  <2>1. /\ at = "finalize" /\ at' = "idle" /\ infoTwin' = "report" /\ infoShown' = infoRead
        /\ UNCHANGED <<spent, infoTodo, infoRead, infoAsked>>
        /\ (deployment' = "succeeded" => ~errors)
    BY <1>7 DEF ReportInfo, FinalizeAndReport, Return
  <2>2. GapsExplained(infoShown)'
    BY <1>1, <2>1 DEF InfoProgressInv, GapsExplained, Gaps
  <2> QED
    BY <1>1, <2>1, <2>2 DEF InfoProgressInv
<1>8. CASE InfoHostEnds
  <2>1. /\ at' = "idle" /\ infoTodo' = << >> /\ UNCHANGED <<deployment, infoTwin, infoShown>>
        /\ UNCHANGED infoAsked
        /\ unanswered' = (unanswered \/ at # "idle")
        /\ spent' = [spent EXCEPT !.faults = @ + 1]
    BY <1>8 DEF InfoHostEnds, HostEnds, Fault
  <2>2. spent'.faults \in Nat /\ 0 .. spent.faults \subseteq 0 .. spent'.faults
    <3>1. spent'.faults = spent.faults + 1 \/ spent' = spent
      BY <1>8, <1>1 DEF InfoHostEnds, HostEnds, Fault
    <3> QED
      BY <1>1, <3>1
  <2>3. infoTwin = "report" => GapsExplained(infoShown)'
    BY <1>1, <2>1, <2>2 DEF InfoProgressInv, GapsExplained, Gaps
  <2>4. InfoProgressInv'
    BY <1>1, <2>1, <2>2, <2>3 DEF InfoProgressInv
  <2> QED
    BY <1>2, <2>1, <2>4
\* A failure more explains no fewer gaps.
<1>9. ASSUME spent'.faults = spent.faults + 1, infoShown' = infoShown, infoTwin = "report"
      PROVE GapsExplained(infoShown)'
  <2>1. 0 .. spent.faults \subseteq 0 .. spent'.faults
    BY <1>1, <1>9
  <2> QED
    BY <1>1, <1>9, <2>1 DEF InfoProgressInv, GapsExplained, Gaps
<1>10. CASE RefreshingRefused
  <2>1. /\ at = "idle" /\ spent'.faults = spent.faults + 1
        /\ UNCHANGED <<deployment, infoTwin, infoShown>>
        /\ \/ at' = "finalize" /\ errors' = TRUE /\ infoTodo' = << >> /\ infoRead' = NoInfo
           \/ at' = "idle" /\ unanswered' = TRUE /\ UNCHANGED infoTodo
    BY <1>10 DEF RefreshingRefused, Requested
  <2>2. GapsExplained(NoInfo)'
    BY <1>1, <2>1, WholeReports DEF GapsExplained, Gaps
  <2>3. at' = "finalize" => GapsExplained(infoRead)'
    BY <2>1, <2>2 DEF GapsExplained, Gaps
  <2>4. spent'.faults \in Nat
    BY <1>1, <2>1
  <2>5. InfoProgressInv'
    BY <1>9, <2>1, <2>3, <2>4 DEF InfoProgressInv
  <2> QED
    BY <1>1, <1>2, <2>1, <2>5
<1>11. CASE ReportInfoRefused
  <2>1. /\ at' = "idle" /\ unanswered' = TRUE
        /\ UNCHANGED <<deployment, infoTodo, infoTwin, infoShown>>
        /\ spent' = [spent EXCEPT !.faults = @ + 1]
    BY <1>11 DEF ReportInfoRefused, Fault
  <2>2. spent'.faults = spent.faults + 1
    BY <1>11, <2>1 DEF Fault
  <2>3. InfoProgressInv'
    BY <1>1, <1>9, <2>1, <2>2 DEF InfoProgressInv
  <2> QED
    BY <1>1, <2>1, <2>3
<1> QED
  BY <1>3, <1>4, <1>5, <1>6, <1>7, <1>8, <1>10, <1>11 DEF InfoStep

LEMMA InfoInvKept == InfoInv /\ [Next]_pluginVars => InfoInv'
<1> SUFFICES ASSUME InfoInv, [Next]_pluginVars PROVE InfoInv'
  OBVIOUS
<1>1. CASE part = "info" /\ InfoStep /\ UNCHANGED part
  BY <1>1, InfoStepOK DEF InfoInv
<1>2. CASE part # "info" /\ UNCHANGED <<part, infoVars>>
  BY <1>2 DEF InfoInv, infoVars
<1>3. CASE UNCHANGED <<part, frame, infoVars>>
  BY <1>3 DEF InfoInv, InfoProgressInv, GapsExplained, Gaps, LeftOut, infoVars, frame
<1>4. \/ part = "info" /\ InfoStep /\ UNCHANGED part
      \/ part # "info" /\ UNCHANGED <<part, infoVars>>
      \/ UNCHANGED <<part, frame, infoVars>>
  BY DEF Next, pluginVars, handlerVars
<1> QED
  BY <1>1, <1>2, <1>3, <1>4

LEMMA InfoInvImplies == InfoInv => InfoComesBack
<1>1. part # "info" => (InfoInv => InfoComesBack)
  BY DEF InfoInv, InfoComesBack
<1>2. part = "info" /\ InfoInv => InfoComesBack
  BY DEF InfoInv, InfoProgressInv, InfoComesBack, GapsExplained, Gaps, AllInfo
<1> QED
  BY <1>1, <1>2

\* A list has only what was asked for, and what it must have of ids.
OnlyAsked(listed) == listed \subseteq AskedFor
Lists(listed, ids) ==
    \A h \in ids \cap AskedFor : h \notin InPlugin \/ reportingModel.tags = {} => h \in listed

\* The list under construction is right of the handlers asked so far, and the
\* last report is right while its model is the one in force: until the next
\* section is applied.
SchemaProgressInv ==
    /\ connecting /\ at = "apply" => step = "schemas"
    /\ at = "apply" /\ step \in {"subGroup", "subGroupOnly"} => schemasFound = {}
    /\ at = "apply" /\ step = "schemas" /\ schemasMode = "list" =>
         OnlyAsked(schemasFound) /\ Lists(schemasFound, SchemaIds \ ToSet(schemasTodo))
    /\ at = "finalize" /\ schemasMode = "list" /\ ~errors =>
         OnlyAsked(schemasFound) /\ Lists(schemasFound, SchemaIds)
    /\ schemasReport.full /\ (at = "idle" \/ connecting) =>
         /\ OnlyAsked(schemasReport.listed) /\ Lists(schemasReport.listed, SchemaIds)
         /\ schemasReport.listed \subseteq schemasTwin

SchemasInv ==
    /\ schemasTodo \in Seq(SchemaIds) /\ schemasConfigured \in BOOLEAN
    /\ part = "schemas" => SchemaProgressInv
    /\ part # "schemas" => ~schemasReport.full

\* What the agent's handlers, and what those of a plug-in answer.
LEMMA AskedAnswers ==
  /\ \A h : h \notin InPlugin => \A method, o : Asked(method, h, o) = o
  /\ \A h \in InPlugin, b \in BOOLEAN :
        Asked("IsConfigured", h, Flag(b)) = DMException("invalidJsonFormat")
  /\ \A h \in InPlugin : TagsAsked(h) = {}
  /\ \A h : h \notin InPlugin => TagsAsked(h) = SchemaTags[h]
<1>1. \A h : h \notin InPlugin => \A method, o : Asked(method, h, o) = o
  BY DEF Asked
<1>2. ASSUME NEW b \in BOOLEAN
      PROVE AcrossBoundary("IsConfigured", Flag(b)) = DMException("invalidJsonFormat")
  <2>1. HandleResult("IsConfigured", Flag(b)) = Flag(b) /\ IsOutcome(Flag(b)) /\ ~IsException(Flag(b))
    BY SpecialOutcomes DEF HandleResult
  <2>2. AcrossBoundary("IsConfigured", Flag(b)) = ProxyResult("IsConfigured", Flag(b))
    BY <2>1, ExceptionComesBack DEF AcrossBoundary
  <2>3. Flag(b).type = "bool" /\ "IsConfigured" \in DOMAIN CheckedTypes
        /\ CheckedTypes["IsConfigured"] = "int"
    BY DEF Flag, JsonValue, CheckedTypes
  <2> QED
    BY <2>1, <2>2, <2>3 DEF ProxyResult
<1>3. AcrossBoundary("GetReportedSchema", JsonValue("object", "tagged")).value = "untagged"
  <2> DEFINE o == JsonValue("object", "tagged")
  <2>1. HandleResult("GetReportedSchema", o) = o /\ IsOutcome(o) /\ ~IsException(o)
    BY SpecialOutcomes DEF HandleResult
  <2>2. AcrossBoundary("GetReportedSchema", o) = ProxyResult("GetReportedSchema", o)
    BY <2>1, ExceptionComesBack DEF AcrossBoundary
  <2>3. CheckedTypes["GetReportedSchema"] = "object" /\ o.type = "object"
    BY DEF CheckedTypes, JsonValue
  <2>4. ProxyResult("GetReportedSchema", o) = [o EXCEPT !.value = "untagged"]
    BY <2>1, <2>3 DEF ProxyResult
  <2> QED
    BY <2>2, <2>4 DEF JsonValue
<1>4. \A h \in InPlugin : TagsAsked(h) = {}
  BY <1>3 DEF Asked, TagsAsked
<1>5. JsonValue("object", "tagged").value = "tagged"
  BY DEF JsonValue
<1>6. \A h : h \notin InPlugin => TagsAsked(h) = SchemaTags[h]
  BY <1>1, <1>5 DEF TagsAsked
<1> QED
  BY <1>1, <1>2, <1>4, <1>6 DEF Asked

\* A handler is listed if it is asked for, but for the tags of a plug-in's.
LEMMA ListedIfAsked ==
  ASSUME NEW h \in SchemaIds, ~IsException(GroupAsked(h)), schemasConfigured \in BOOLEAN
  PROVE LET included == GroupAsked(h) = Flag(TRUE) /\ IsTypeIncluded /\ HasAnyTag(h)
        IN  /\ included => h \in AskedFor
            /\ h \in AskedFor /\ (h \notin InPlugin \/ reportingModel.tags = {}) => included
<1> DEFINE Group == \/ "all" \in reportingModel.groups \/ h \in reportingModel.groups
                    \/ "configured" \in reportingModel.groups /\ IsHandlerConfigured(h)
<1>1. Flag(TRUE) # Flag(FALSE) /\ \A b \in BOOLEAN : Flag(b) = Flag(TRUE) <=> b
  BY DEF Flag, JsonValue
<1>2. IsHandlerConfigured(h) \in BOOLEAN
  <2>1. (h \in ConfiguredHandlers) \in BOOLEAN
    OBVIOUS
  <2> QED
    BY <2>1 DEF IsHandlerConfigured
<1>3. GroupAsked(h) = Flag(TRUE) <=> Group
  <2>1. CASE "all" \in reportingModel.groups
    BY <2>1 DEF GroupAsked
  <2>2. CASE "all" \notin reportingModel.groups /\ h \notin InPlugin
    <3>1. Asked("IsConfigured", h, Flag(IsHandlerConfigured(h))) = Flag(IsHandlerConfigured(h))
      BY <2>2, AskedAnswers
    <3>2. GroupAsked(h) =
            IF "configured" \in reportingModel.groups /\ IsHandlerConfigured(h)
            THEN Flag(TRUE) ELSE Flag(h \in reportingModel.groups)
      <4>1. CASE IsHandlerConfigured(h)
        <5>1. Flag(IsHandlerConfigured(h)) = Flag(TRUE)
          BY <4>1, <1>1, <1>2
        <5> QED
          BY <1>1, <2>2, <3>1, <4>1, <5>1 DEF GroupAsked
      <4>2. CASE ~IsHandlerConfigured(h)
        <5>1. Flag(IsHandlerConfigured(h)) = Flag(FALSE)
          BY <4>2, <1>2
        <5> QED
          BY <1>1, <2>2, <3>1, <4>2, <5>1 DEF GroupAsked
      <4> QED
        BY <4>1, <4>2
    <3>3. (h \in reportingModel.groups) \in BOOLEAN
      OBVIOUS
    <3> QED
      BY <1>1, <2>2, <3>2, <3>3
  <2>3. CASE "all" \notin reportingModel.groups /\ h \in InPlugin
    <3>1. Asked("IsConfigured", h, Flag(IsHandlerConfigured(h))) = DMException("invalidJsonFormat")
      BY <1>2, <2>3, AskedAnswers
    <3>2. IsException(DMException("invalidJsonFormat")) /\ ~IsException(Flag(FALSE))
      BY SpecialOutcomes
    <3>3. "configured" \notin reportingModel.groups
      BY <2>3, <3>1, <3>2 DEF GroupAsked
    <3>4. GroupAsked(h) = Flag(h \in reportingModel.groups)
      BY <2>3, <3>3 DEF GroupAsked
    <3>5. (h \in reportingModel.groups) \in BOOLEAN
      OBVIOUS
    <3> QED
      BY <1>1, <2>3, <3>3, <3>4, <3>5
  <2> QED
    BY <2>1, <2>2, <2>3
<1>4. h \in AskedFor <=> /\ Group /\ IsTypeIncluded
                         /\ reportingModel.tags = {} \/ SchemaTags[h] \cap reportingModel.tags # {}
  BY DEF AskedFor, IsTypeIncluded
<1>5. HasAnyTag(h) => reportingModel.tags = {} \/ SchemaTags[h] \cap reportingModel.tags # {}
  BY AskedAnswers DEF HasAnyTag
<1>6. h \notin InPlugin \/ reportingModel.tags = {} =>
        (HasAnyTag(h) <=> reportingModel.tags = {} \/ SchemaTags[h] \cap reportingModel.tags # {})
  BY AskedAnswers DEF HasAnyTag
<1> HIDE DEF Group
<1> QED
  BY <1>3, <1>4, <1>5, <1>6

LEMMA ListSchemaOK ==
  ASSUME SchemaProgressInv, schemasTodo \in Seq(SchemaIds), schemasConfigured \in BOOLEAN, ListSchema
  PROVE schemasTodo' \in Seq(SchemaIds) /\ SchemaProgressInv'
<1> DEFINE h == Head(schemasTodo)
           group == GroupAsked(h)
           included == group = Flag(TRUE) /\ IsTypeIncluded /\ HasAnyTag(h)
<1>1. /\ at = "apply" /\ step = "schemas" /\ schemasTodo # << >>
      /\ UNCHANGED <<reportingModel, schemasConfigured, connecting, schemasMode,
                     schemasReport, schemasTwin>>
  BY DEF ListSchema, At
<1>2. h \in SchemaIds /\ Tail(schemasTodo) \in Seq(SchemaIds)
      /\ ToSet(schemasTodo) = {h} \cup ToSet(Tail(schemasTodo))
  BY <1>1, HeadAndTail
<1>3. << >> \in Seq(SchemaIds)
  BY EmptySeq
<1>4. \A L : (OnlyAsked(L)' <=> OnlyAsked(L)') /\ AskedFor' = AskedFor
  BY <1>1 DEF AskedFor, IsHandlerConfigured
<1>5. CASE BuildReportedThrows
  <2>1. schemasTodo' = << >>
    BY <1>5 DEF BuildReportedThrows
  <2>2. CASE connecting
    <3>1. at' = "idle"
      BY <1>5, <2>2 DEF BuildReportedThrows
    <3> QED
      BY <1>1, <1>3, <1>4, <2>1, <2>2, <3>1 DEF SchemaProgressInv, OnlyAsked, Lists
  <2>3. CASE ~connecting
    <3>1. at' = "finalize" /\ errors'
      BY <1>5, <2>3 DEF BuildReportedThrows, Leave
    <3> QED
      BY <1>1, <1>3, <2>1, <2>3, <3>1 DEF SchemaProgressInv
  <2> QED
    BY <2>2, <2>3
<1>6. CASE /\ ~IsException(group)
           /\ schemasTodo' = Tail(schemasTodo)
           /\ schemasFound' = schemasFound \cup (IF included THEN {h} ELSE {})
           /\ Go("schemas")
  <2>1. at' = "apply" /\ step' = "schemas"
    BY <1>1, <1>6 DEF Go, Move
  <2>2. /\ included => h \in AskedFor
        /\ h \in AskedFor /\ (h \notin InPlugin \/ reportingModel.tags = {}) => included
    BY <1>2, <1>6, ListedIfAsked
  <2> HIDE DEF h, included
  <2>3. schemasMode = "list" =>
          OnlyAsked(schemasFound)' /\ Lists(schemasFound, SchemaIds \ ToSet(schemasTodo))'
    <3> SUFFICES ASSUME schemasMode = "list"
                 PROVE OnlyAsked(schemasFound)' /\ Lists(schemasFound, SchemaIds \ ToSet(schemasTodo))'
      OBVIOUS
    <3>1. OnlyAsked(schemasFound) /\ Lists(schemasFound, SchemaIds \ ToSet(schemasTodo))
      BY <1>1 DEF SchemaProgressInv
    <3>2. OnlyAsked(schemasFound)'
      BY <1>4, <1>6, <2>2, <3>1 DEF OnlyAsked
    <3>3. Lists(schemasFound, SchemaIds \ ToSet(schemasTodo))'
      BY <1>1, <1>2, <1>4, <1>6, <2>2, <3>1 DEF Lists
    <3> QED
      BY <3>2, <3>3
  <2>4. schemasReport.full /\ connecting =>
          /\ OnlyAsked(schemasReport.listed)' /\ Lists(schemasReport.listed, SchemaIds)'
          /\ schemasReport.listed \subseteq schemasTwin
    BY <1>1, <1>4 DEF SchemaProgressInv, OnlyAsked, Lists
  <2> QED
    BY <1>1, <1>2, <1>6, <2>1, <2>3, <2>4 DEF SchemaProgressInv
<1> QED
  BY <1>5, <1>6 DEF ListSchema

LEMMA SchemasStepOK ==
  ASSUME SchemasInv, schemasConfigured \in BOOLEAN, SchemasStep, part = "schemas"
  PROVE schemasTodo' \in Seq(SchemaIds) /\ SchemaProgressInv'
<1>1. schemasTodo \in Seq(SchemaIds) /\ SchemaProgressInv
  BY DEF SchemasInv
<1>2. << >> \in Seq(SchemaIds) /\ SchemaOrder \in Seq(SchemaIds) /\ ToSet(SchemaOrder) = SchemaIds
  BY EmptySeq, SchemaParametersOK DEF SchemaIds
<1>3. ASSUME UNCHANGED <<reportingModel, schemasConfigured>>
      PROVE \A L, ids : (OnlyAsked(L)' <=> OnlyAsked(L')) /\ (Lists(L, ids)' <=> Lists(L', ids'))
  BY <1>3 DEF OnlyAsked, Lists, AskedFor, IsHandlerConfigured
<1>4. CASE InvokeSchemas
  <2>1. PICK s \in SchemaSections : Begin(s.kind, IF s.detailed THEN "subGroup" ELSE "subGroupOnly")
    BY <1>4 DEF InvokeSchemas
  <2>2. at' \in {"apply", "finalize"} /\ (at' = "apply" => step' \in {"subGroup", "subGroupOnly"})
    BY <2>1 DEF Begin
  <2>3. connecting' = FALSE /\ schemasMode' = "nothing" /\ schemasFound' = {}
        /\ UNCHANGED schemasTodo
    BY <1>4 DEF InvokeSchemas
  <2> QED
    BY <1>1, <2>2, <2>3 DEF SchemaProgressInv
<1>5. CASE SetReportingModel
  <2>1. PICK here \in {"subGroup", "subGroupOnly"} :
          /\ At(here)
          /\ \/ Leave(TRUE) /\ UNCHANGED <<reportingModel, schemasConfigured, schemasTodo, schemasMode>>
             \/ /\ schemasMode' = (IF here = "subGroup" THEN "list" ELSE "null")
                /\ schemasTodo' = (IF here = "subGroup" THEN SchemaOrder ELSE << >>)
                /\ Move("schemas")
          /\ UNCHANGED <<connecting, schemasFound>>
    BY <1>5 DEF SetReportingModel
  <2>2. at = "apply" /\ ~connecting /\ schemasFound' = schemasFound
    BY <1>1, <2>1 DEF SchemaProgressInv, At
  <2>3. CASE Leave(TRUE) /\ UNCHANGED schemasTodo
    BY <1>1, <2>1, <2>2, <2>3 DEF SchemaProgressInv, Leave
  <2>4. CASE Move("schemas") /\ here = "subGroupOnly" /\ schemasMode' = "null" /\ schemasTodo' = << >>
    BY <1>2, <2>1, <2>2, <2>4 DEF SchemaProgressInv, Move
  <2>5. CASE Move("schemas") /\ here = "subGroup" /\ schemasTodo' = SchemaOrder
    <3>1. SchemaIds \ ToSet(schemasTodo)' = {}
      BY <1>2, <2>5
    <3>2. schemasFound = {}
      BY <1>1, <2>1, <2>2, <2>5 DEF SchemaProgressInv, At
    <3> QED
      BY <1>2, <2>1, <2>2, <2>5, <3>1, <3>2 DEF SchemaProgressInv, Move, OnlyAsked, Lists
  <2> QED
    BY <2>1, <2>3, <2>4, <2>5
<1>6. CASE SchemasOnline
  <2>1. /\ at = "idle" /\ at' = "apply" /\ step' = "schemas" /\ connecting'
        /\ schemasTodo' = SchemaOrder /\ schemasFound' = {}
        /\ UNCHANGED <<reportingModel, schemasConfigured, schemasReport, schemasTwin>>
    BY <1>6 DEF SchemasOnline
  <2>2. OnlyAsked(schemasFound)' /\ Lists(schemasFound, SchemaIds \ ToSet(schemasTodo))'
    BY <1>2, <2>1 DEF OnlyAsked, Lists
  <2> QED
    BY <1>1, <1>2, <1>3, <2>1, <2>2 DEF SchemaProgressInv
<1>7. CASE ListSchema
  BY <1>1, <1>7, ListSchemaOK
<1>8. CASE AllAsked
  <2>1. /\ at = "apply" /\ step = "schemas" /\ schemasTodo = << >> /\ at' = "finalize"
        /\ (~errors' => ~errors) /\ UNCHANGED schemasVars
    BY <1>8 DEF AllAsked, At, Leave
  <2>2. SchemaIds \ ToSet(schemasTodo) = SchemaIds
    BY <2>1, NothingInEmpty
  <2>3. UNCHANGED <<reportingModel, schemasConfigured, connecting, schemasTodo, schemasFound,
                    schemasMode, schemasReport, schemasTwin>>
    BY <2>1 DEF schemasVars
  <2> QED
    BY <1>1, <1>3, <2>1, <2>2, <2>3 DEF SchemaProgressInv
<1>9. CASE ReportSchemas
  <2>1. /\ at = "finalize" /\ at' = "idle"
        /\ schemasReport' = [full |-> ~errors /\ schemasMode = "list", listed |-> schemasFound]
        /\ schemasTwin' = (IF schemasMode = "null" THEN {} ELSE schemasTwin \cup schemasFound)
        /\ UNCHANGED <<reportingModel, schemasConfigured, connecting, schemasTodo, schemasFound,
                       schemasMode>>
    BY <1>9 DEF ReportSchemas, FinalizeAndReport, Return
  <2>2. schemasReport'.listed = schemasFound /\ (schemasReport'.full <=> ~errors /\ schemasMode = "list")
    BY <2>1
  <2> QED
    BY <1>1, <1>3, <2>1, <2>2 DEF SchemaProgressInv
<1>10. CASE ReportSchemasFails
  <2>1. at' = (IF connecting THEN "idle" ELSE "terminated") /\ UNCHANGED schemasVars
    BY <1>10 DEF ReportSchemasFails
  <2>2. UNCHANGED <<reportingModel, schemasConfigured, connecting, schemasTodo, schemasFound,
                    schemasMode, schemasReport, schemasTwin>>
    BY <2>1 DEF schemasVars
  <2> QED
    BY <1>1, <1>3, <2>1, <2>2 DEF SchemaProgressInv
<1> QED
  BY <1>4, <1>5, <1>6, <1>7, <1>8, <1>9, <1>10 DEF SchemasStep

LEMMA SchemasInvKept == SchemasInv /\ [Next]_pluginVars => SchemasInv'
<1> SUFFICES ASSUME SchemasInv, [Next]_pluginVars PROVE SchemasInv'
  OBVIOUS
<1>1. CASE part = "schemas" /\ SchemasStep /\ UNCHANGED part
  <2>1. schemasConfigured' \in BOOLEAN
    BY <1>1 DEF SchemasInv, SchemasStep, InvokeSchemas, SetReportingModel, SchemasOnline,
                ListSchema, AllAsked, ReportSchemas, ReportSchemasFails, schemasVars
  <2>2. schemasTodo' \in Seq(SchemaIds) /\ SchemaProgressInv'
    BY <1>1, SchemasStepOK DEF SchemasInv
  <2> QED
    BY <1>1, <2>1, <2>2 DEF SchemasInv
<1>2. CASE part # "schemas" /\ UNCHANGED <<part, schemasVars>>
  BY <1>2 DEF SchemasInv, schemasVars
<1>3. CASE UNCHANGED <<part, frame, schemasVars>>
  BY <1>3 DEF SchemasInv, SchemaProgressInv, OnlyAsked, Lists, AskedFor, IsHandlerConfigured,
              schemasVars, frame
<1>4. \/ part = "schemas" /\ SchemasStep /\ UNCHANGED part
      \/ part # "schemas" /\ UNCHANGED <<part, schemasVars>>
      \/ UNCHANGED <<part, frame, schemasVars>>
  BY DEF Next, pluginVars, handlerVars
<1> QED
  BY <1>1, <1>2, <1>3, <1>4

LEMMA SchemasStart == Init => SchemasInv
<1> SUFFICES ASSUME Init PROVE SchemasInv
  OBVIOUS
<1>1. SchemasInit /\ FrameInit
  BY DEF Init
<1>2. schemasTodo \in Seq(SchemaIds)
  BY <1>1, EmptySeq DEF SchemasInit
<1>3. ~schemasReport.full /\ schemasConfigured \in BOOLEAN /\ at = "idle"
  BY <1>1 DEF SchemasInit, FrameInit
<1> QED
  BY <1>2, <1>3 DEF SchemasInv, SchemaProgressInv

LEMMA SchemasInvImplies == SchemasInv => SchemasMatchRequest
<1> SUFFICES ASSUME SchemasInv, at = "idle", schemasReport.full
             PROVE LET listed == schemasReport.listed
                   IN  /\ listed \subseteq AskedFor \cap schemasTwin
                       /\ AskedFor \ InPlugin \subseteq listed
                       /\ reportingModel.tags = {} => AskedFor \subseteq listed
  BY DEF SchemasMatchRequest
<1>1. /\ OnlyAsked(schemasReport.listed) /\ Lists(schemasReport.listed, SchemaIds)
      /\ schemasReport.listed \subseteq schemasTwin
  BY DEF SchemasInv, SchemaProgressInv
<1>2. AskedFor \subseteq SchemaIds
  BY DEF AskedFor
<1> QED
  BY <1>1, <1>2 DEF OnlyAsked, Lists

(***************************************************************************)
(* For any properties and any handlers, in any order: the two handlers     *)
(* that only report show what was asked for, and the gaps of a failed      *)
(* report are no more than the failures.  (DeviceInfoHandler,              *)
(* DeviceSchemaHandler.)                                                   *)
(***************************************************************************)
THEOREM ReportsShowWhatWasAsked == Spec => []ReportsAnswerRequest
<1>1. InfoInv /\ SchemasInv => ReportsAnswerRequest
  BY InfoInvImplies, SchemasInvImplies DEF ReportsAnswerRequest
<1> QED
  BY <1>1, InfoStarts, InfoInvKept, SchemasStart, SchemasInvKept, PTL DEF Spec

-----------------------------------------------------------------------------
(* The direct methods *)

\* The TPM was cleared if the call asked for it, as far as anyone was told.
TpmHandled == methodCall.clearTpm => device.tpm = "clear" \/ tpmUncleared

\* What has been done of a call is told by the steps that are left of it.
StepsInv ==
    LET c == methodCall
    IN  /\ c.method = "FactoryReset" =>
             \/ methodTodo = <<"ClearTpm", "bcdedit", "reboot">>
             \/ methodTodo = <<"bcdedit", "reboot">> /\ TpmHandled
             \/ methodTodo = <<"reboot">> /\ TpmHandled /\ device.boot = "recovery"
             \/ methodTodo = << >>
        /\ c.method = "RemoteWipe" =>
             \/ methodTodo = <<"ClearTpm", "wipe", "reboot">>
             \/ methodTodo = <<"wipe", "reboot">> /\ TpmHandled
             \/ methodTodo = <<"reboot">> /\ TpmHandled /\ device.wiped
             \/ methodTodo = << >>
        /\ c.method = "Reboot" => methodTodo \in {<<"reboot">>, << >>}
        /\ c.method = "UploadLogFile" =>
             \/ methodTodo \in {<<"container", "upload">>, <<"upload">>}
             \/ methodTodo = << >> /\ c.file \in container
        /\ c.method = "DeleteLogFile" =>
             \/ methodTodo \in {<<"find", "delete">>, <<"delete">>}
             \/ methodTodo = << >> /\ c.file \notin logFolder \ FilesInUse
        /\ c.method = "EnumerateLogFiles" =>
             \/ methodTodo = <<"list">>
             \/ methodTodo = << >> /\ methodAnswer.payload = logFolder
        /\ c.method \in {"StartApp", "StopApp"} =>
             \/ methodTodo = <<"iotstartup">>
             \/ methodTodo = << >> /\ appRuns = (c.method = "StartApp")
        /\ c.method \in {"EnumerateLogFolders", "GetInstalledApps", "CertificateDetail"} =>
             methodTodo \in {<<"query">>, << >>}

\* A call that has no error and no steps left has had all of them.
MethodProgressInv ==
    /\ at \in {"apply", "finalize"} => methodCall \in MethodCalls
    /\ at = "apply" => StepsInv
    /\ at = "finalize" /\ ~errors => StepsInv /\ methodTodo = << >>

MethodShapes ==
    /\ device = [tpm |-> device.tpm, boot |-> device.boot, wiped |-> device.wiped,
                 rebooting |-> device.rebooting]
    /\ methodAnswer = [code |-> methodAnswer.code, payload |-> methodAnswer.payload]

MethodsInv ==
    /\ MethodShapes
    /\ part = "methods" => MethodProgressInv

LEMMA MethodsStart == Init => MethodsInv
<1> SUFFICES ASSUME Init PROVE MethodsInv
  OBVIOUS
<1>1. MethodsInit /\ FrameInit
  BY DEF Init
<1> QED
  BY <1>1 DEF MethodsInit, FrameInit, MethodsInv, MethodShapes, MethodProgressInv, NoAnswer

LEMMA MethodCallShape ==
  ASSUME NEW c \in MethodCalls
  PROVE /\ c.method \in DeviceMethods \cup {"UploadLogFile", "DeleteLogFile",
                          "EnumerateLogFiles", "EnumerateLogFolders", "StartApp",
                          "StopApp", "GetInstalledApps", "CertificateDetail"}
        /\ c.kind \in {"wrongVersion", "good"} /\ c.clearTpm \in BOOLEAN
  BY MethodsParametersOK DEF SectionKinds

LEMMA OneBefore ==
  ASSUME NEW x, NEW y, NEW z
  PROVE <<x>> \o <<y, z>> = <<x, y, z>> /\ << >> \o <<y, z>> = <<y, z>>
<1> DEFINE S == {x, y, z}
           s == <<x>> \o <<y, z>>
<1>1. <<x>> \in Seq(S) /\ <<y, z>> \in Seq(S) /\ <<x, y, z>> \in Seq(S)
  OBVIOUS
<1>2. s \in Seq(S) /\ Len(s) = 3 /\ s[1] = x /\ s[2] = y /\ s[3] = z
  BY <1>1, ConcatProperties
<1>3. << >> \o <<y, z>> = <<y, z>>
  BY <1>1, ConcatEmptySeq
<1> HIDE DEF s
<1>4. s = <<x, y, z>>
  BY <1>1, <1>2
<1> QED
  BY <1>3, <1>4 DEF s

\* A call begins with all its steps.
LEMMA InvokeMethodOK ==
  ASSUME InvokeMethod
  PROVE MethodProgressInv'
<1>1. PICK c \in MethodCalls :
        /\ Begin(IF c.parameters THEN c.kind ELSE "wrongVersion", "commands")
        /\ methodCall' = c
        /\ methodTodo' = StepsOf(c)
        /\ UNCHANGED testMode
  BY DEF InvokeMethod
<1>2. /\ at' \in {"apply", "finalize"} /\ methodCall' \in MethodCalls
      /\ at' = "finalize" => errors'
  BY <1>1, MethodCallShape DEF Begin
<1>3. StepsInv'
  <2> DEFINE s == StepsOf(c)
  <2>1. c.method = "FactoryReset" =>
          s = (IF testMode THEN << >> ELSE FactoryReset(c))
    BY DEF StepsOf, DeviceMethods
  <2>2. c.method = "RemoteWipe" =>
          s = (IF testMode THEN << >> ELSE RemoteWipe(c))
    BY DEF StepsOf, DeviceMethods
  <2>3. c.method = "Reboot" => s = (IF testMode THEN << >> ELSE <<"reboot">>)
    BY DEF StepsOf, DeviceMethods, Reboot
  <2>4. FactoryReset(c) = IF c.clearTpm THEN <<"ClearTpm", "bcdedit", "reboot">>
                          ELSE <<"bcdedit", "reboot">>
    BY OneBefore DEF FactoryReset, IfAsked
  <2>5. RemoteWipe(c) = IF c.clearTpm THEN <<"ClearTpm", "wipe", "reboot">>
                        ELSE <<"wipe", "reboot">>
    BY OneBefore DEF RemoteWipe, IfAsked
  <2>6. /\ c.method = "UploadLogFile" => s = <<"container", "upload">>
        /\ c.method = "DeleteLogFile" => s = <<"find", "delete">>
        /\ c.method = "EnumerateLogFiles" => s = <<"list">>
        /\ c.method \in {"StartApp", "StopApp"} => s = <<"iotstartup">>
        /\ c.method \in {"EnumerateLogFolders", "GetInstalledApps", "CertificateDetail"} =>
             s = <<"query">>
    BY DEF StepsOf, DeviceMethods, UploadLogFile, DeleteLogFile, EnumerateLogFiles,
           EnumerateLogFolders, UwpManageAppLifeCycle, UwpGetInstalledApps,
           CertificateDetailedInfo
  <2>7. methodTodo' = s /\ methodCall' = c
    BY <1>1
  <2> HIDE DEF s
  <2> QED
    BY <2>1, <2>2, <2>3, <2>4, <2>5, <2>6, <2>7 DEF StepsInv, TpmHandled
<1> QED
  BY <1>2, <1>3 DEF MethodProgressInv

\* A step that is done leaves those after it.
LEMMA StepsLeft ==
  /\ Tail(<<"ClearTpm", "bcdedit", "reboot">>) = <<"bcdedit", "reboot">>
  /\ Tail(<<"ClearTpm", "wipe", "reboot">>) = <<"wipe", "reboot">>
  /\ Tail(<<"bcdedit", "reboot">>) = <<"reboot">> /\ Tail(<<"wipe", "reboot">>) = <<"reboot">>
  /\ Tail(<<"container", "upload">>) = <<"upload">> /\ Tail(<<"find", "delete">>) = <<"delete">>
  /\ \A x : Tail(<<x>>) = << >>
  OBVIOUS

\* A step's place in its method.
LEMMA StepsThatAre ==
  ASSUME MethodsInv, part = "methods", NEW command, Doing(command)
  PROVE LET c == methodCall
            left == Tail(methodTodo)
        IN /\ c \in MethodCalls
           /\ StepsInv
           /\ command = "ClearTpm" =>
                \/ c.method = "FactoryReset" /\ left = <<"bcdedit", "reboot">>
                \/ c.method = "RemoteWipe" /\ left = <<"wipe", "reboot">>
           /\ command = "bcdedit" =>
                c.method = "FactoryReset" /\ left = <<"reboot">> /\ TpmHandled
           /\ command = "wipe" =>
                c.method = "RemoteWipe" /\ left = <<"reboot">> /\ TpmHandled
           /\ command = "reboot" =>
                /\ c.method \in DeviceMethods /\ left = << >>
                /\ c.method = "FactoryReset" => device.boot = "recovery" /\ TpmHandled
                /\ c.method = "RemoteWipe" => device.wiped /\ TpmHandled
           /\ command = "container" => c.method = "UploadLogFile" /\ left = <<"upload">>
           /\ command = "upload" => c.method = "UploadLogFile" /\ left = << >>
           /\ command = "find" => c.method = "DeleteLogFile" /\ left = <<"delete">>
           /\ command = "delete" => c.method = "DeleteLogFile" /\ left = << >>
           /\ command = "list" => c.method = "EnumerateLogFiles" /\ left = << >>
           /\ command = "iotstartup" => c.method \in {"StartApp", "StopApp"} /\ left = << >>
           /\ command = "query" =>
                /\ c.method \in {"EnumerateLogFolders", "GetInstalledApps", "CertificateDetail"}
                /\ left = << >>
<1> DEFINE c == methodCall
           m == methodCall.method
<1>1. at = "apply" /\ methodTodo # << >> /\ command = Head(methodTodo)
  BY DEF Doing, At
<1>2. StepsInv /\ c \in MethodCalls
  BY <1>1 DEF MethodsInv, MethodProgressInv
<1>3. m \in DeviceMethods \cup {"UploadLogFile", "DeleteLogFile", "EnumerateLogFiles",
                "EnumerateLogFolders", "StartApp", "StopApp", "GetInstalledApps",
                "CertificateDetail"}
  BY <1>2, MethodCallShape
<1>4. /\ m = "FactoryReset" =>
           \/ methodTodo = <<"ClearTpm", "bcdedit", "reboot">> /\ command = "ClearTpm"
           \/ methodTodo = <<"bcdedit", "reboot">> /\ TpmHandled /\ command = "bcdedit"
           \/ /\ methodTodo = <<"reboot">> /\ TpmHandled /\ device.boot = "recovery"
              /\ command = "reboot"
      /\ m = "RemoteWipe" =>
           \/ methodTodo = <<"ClearTpm", "wipe", "reboot">> /\ command = "ClearTpm"
           \/ methodTodo = <<"wipe", "reboot">> /\ TpmHandled /\ command = "wipe"
           \/ methodTodo = <<"reboot">> /\ TpmHandled /\ device.wiped /\ command = "reboot"
      /\ m = "Reboot" => methodTodo = <<"reboot">> /\ command = "reboot"
  BY <1>1, <1>2 DEF StepsInv
<1>5. /\ m = "UploadLogFile" =>
           \/ methodTodo = <<"container", "upload">> /\ command = "container"
           \/ methodTodo = <<"upload">> /\ command = "upload"
      /\ m = "DeleteLogFile" =>
           \/ methodTodo = <<"find", "delete">> /\ command = "find"
           \/ methodTodo = <<"delete">> /\ command = "delete"
      /\ m = "EnumerateLogFiles" => methodTodo = <<"list">> /\ command = "list"
      /\ m \in {"StartApp", "StopApp"} =>
           methodTodo = <<"iotstartup">> /\ command = "iotstartup"
      /\ m \in {"EnumerateLogFolders", "GetInstalledApps", "CertificateDetail"} =>
           methodTodo = <<"query">> /\ command = "query"
  BY <1>1, <1>2 DEF StepsInv
<1> HIDE DEF m
<1> QED
  BY <1>2, <1>3, <1>4, <1>5, StepsLeft DEF DeviceMethods, m

LEMMA MethodsStepOK ==
  ASSUME MethodsInv, MethodsStep, part = "methods"
  PROVE MethodShapes' /\ MethodProgressInv' /\ StepKeepsPromise
<1>1. MethodShapes /\ MethodProgressInv
  BY DEF MethodsInv
<1> DEFINE Quiet == device' = device /\ methodAnswer' = methodAnswer
           Moves == /\ at' = "apply" /\ methodTodo' = Tail(methodTodo)
                    /\ UNCHANGED <<methodCall, testMode>>
           Ordered == device'.rebooting /\ ~device.rebooting
           Answered == methodAnswer'.code = "success" /\ methodAnswer.code # "success"
<1>2. Quiet => MethodShapes' /\ StepKeepsPromise
  BY <1>1 DEF MethodShapes, StepKeepsPromise
<1>3. ASSUME ~Ordered, ~Answered PROVE StepKeepsPromise
  BY <1>3 DEF StepKeepsPromise
<1>4. Moves /\ methodCall \in MethodCalls /\ StepsInv' => MethodProgressInv'
  BY DEF MethodProgressInv
<1>5. CASE InvokeMethod
  <2>1. MethodProgressInv'
    BY <1>5, InvokeMethodOK
  <2>2. device' = device /\ methodAnswer' = NoAnswer
    BY <1>5 DEF InvokeMethod
  <2> QED
    BY <1>1, <2>1, <2>2 DEF MethodShapes, NoAnswer, StepKeepsPromise
<1>6. CASE ClearTpm
  <2>1. Doing("ClearTpm") /\ Moves /\ UNCHANGED methodAnswer
        /\ \/ device' = [device EXCEPT !.tpm = "clear"] /\ UNCHANGED tpmUncleared
           \/ tpmUncleared' = TRUE /\ UNCHANGED device
    BY <1>6 DEF ClearTpm, Done, Unchecked, Go, Move, SameCall, Doing, At
  <2>2. methodCall \in MethodCalls
        /\ (\/ methodCall.method = "FactoryReset" /\ methodTodo' = <<"bcdedit", "reboot">>
            \/ methodCall.method = "RemoteWipe" /\ methodTodo' = <<"wipe", "reboot">>)
    BY <2>1, StepsThatAre
  <2>3. MethodShapes' /\ TpmHandled' /\ ~Ordered
    BY <1>1, <2>1 DEF MethodShapes, TpmHandled
  <2>4. StepsInv'
    BY <2>1, <2>2, <2>3 DEF StepsInv
  <2> QED
    BY <1>3, <1>4, <2>1, <2>2, <2>3, <2>4
<1>7. CASE SetBootSequence
  <2>1. Doing("bcdedit") /\ Moves /\ UNCHANGED <<methodAnswer, tpmUncleared>>
        /\ device' = [device EXCEPT !.boot = "recovery"]
    BY <1>7 DEF SetBootSequence, Done, Go, Move, SameCall, Doing, At
  <2>2. methodCall \in MethodCalls /\ methodCall.method = "FactoryReset"
        /\ methodTodo' = <<"reboot">> /\ TpmHandled
    BY <2>1, StepsThatAre
  <2>3. MethodShapes' /\ TpmHandled' /\ ~Ordered /\ device'.boot = "recovery"
    BY <1>1, <2>1, <2>2 DEF MethodShapes, TpmHandled
  <2>4. StepsInv'
    BY <2>1, <2>2, <2>3 DEF StepsInv
  <2> QED
    BY <1>3, <1>4, <2>1, <2>2, <2>3, <2>4
<1>8. CASE Wipe
  <2>1. Doing("wipe") /\ Moves /\ UNCHANGED <<methodAnswer, tpmUncleared>>
        /\ device' = [device EXCEPT !.wiped = TRUE]
    BY <1>8 DEF Wipe, Done, Go, Move, SameCall, Doing, At
  <2>2. methodCall \in MethodCalls /\ methodCall.method = "RemoteWipe"
        /\ methodTodo' = <<"reboot">> /\ TpmHandled
    BY <2>1, StepsThatAre
  <2>3. MethodShapes' /\ TpmHandled' /\ ~Ordered /\ device'.wiped
    BY <1>1, <2>1, <2>2 DEF MethodShapes, TpmHandled
  <2>4. StepsInv'
    BY <2>1, <2>2, <2>3 DEF StepsInv
  <2> QED
    BY <1>3, <1>4, <2>1, <2>2, <2>3, <2>4
<1>9. CASE ImmediateReboot
  <2>1. Doing("reboot") /\ Moves /\ UNCHANGED <<methodAnswer, tpmUncleared>>
        /\ device' = [device EXCEPT !.rebooting = TRUE]
    BY <1>9 DEF ImmediateReboot, Done, Go, Move, SameCall, Doing, At
  <2>2. /\ methodCall \in MethodCalls /\ methodCall.method \in DeviceMethods
        /\ methodTodo' = << >>
        /\ methodCall.method = "FactoryReset" => device.boot = "recovery" /\ TpmHandled
        /\ methodCall.method = "RemoteWipe" => device.wiped /\ TpmHandled
    BY <2>1, StepsThatAre
  <2>3. MethodShapes' /\ StepsInv'
    BY <1>1, <2>1, <2>2 DEF MethodShapes, StepsInv, DeviceMethods
  <2>4. StepKeepsPromise
    BY <2>1, <2>2 DEF StepKeepsPromise, TpmHandled
  <2> QED
    BY <1>4, <2>1, <2>2, <2>3, <2>4
<1>10. CASE CreateContainer
  <2>1. Doing("container") /\ Moves /\ Quiet
    BY <1>10 DEF CreateContainer, Done, Go, Move, SameCall, target, Doing, At
  <2>2. methodCall \in MethodCalls /\ methodCall.method = "UploadLogFile"
        /\ methodTodo' = <<"upload">>
    BY <2>1, StepsThatAre
  <2>3. StepsInv'
    BY <2>1, <2>2 DEF StepsInv
  <2> QED
    BY <1>2, <1>4, <2>1, <2>2, <2>3
<1>11. CASE UploadFromStream
  <2>1. Doing("upload") /\ Moves /\ Quiet /\ methodCall.file \in container'
    BY <1>11 DEF UploadFromStream, Done, Go, Move, SameCall, Doing, At
  <2>2. methodCall \in MethodCalls /\ methodCall.method = "UploadLogFile"
        /\ methodTodo' = << >>
    BY <2>1, StepsThatAre
  <2>3. StepsInv'
    BY <2>1, <2>2 DEF StepsInv
  <2> QED
    BY <1>2, <1>4, <2>1, <2>2, <2>3
<1>12. CASE FindFile
  <2>1. Doing("find") /\ Moves /\ Quiet
    BY <1>12 DEF FindFile, Done, Go, Move, SameCall, target, Doing, At
  <2>2. methodCall \in MethodCalls /\ methodCall.method = "DeleteLogFile"
        /\ methodTodo' = <<"delete">>
    BY <2>1, StepsThatAre
  <2>3. StepsInv'
    BY <2>1, <2>2 DEF StepsInv
  <2> QED
    BY <1>2, <1>4, <2>1, <2>2, <2>3
<1>13. CASE DeleteFile
  <2>1. Doing("delete") /\ Moves /\ Quiet
        /\ logFolder' = (IF methodCall.file \in FilesInUse THEN logFolder
                         ELSE logFolder \ {methodCall.file})
    BY <1>13 DEF DeleteFile, Done, Go, Move, SameCall, Doing, At
  <2>2. methodCall \in MethodCalls /\ methodCall.method = "DeleteLogFile"
        /\ methodTodo' = << >>
    BY <2>1, StepsThatAre
  <2>3. StepsInv'
    BY <2>1, <2>2 DEF StepsInv
  <2> QED
    BY <1>2, <1>4, <2>1, <2>2, <2>3
<1>14. CASE GetFileSystemObjectNames
  <2>1. Doing("list") /\ Moves /\ UNCHANGED <<device, logFolder>>
        /\ methodAnswer' = [methodAnswer EXCEPT !.payload = logFolder]
    BY <1>14 DEF GetFileSystemObjectNames, Done, Go, Move, target, Doing, At
  <2>2. methodCall \in MethodCalls /\ methodCall.method = "EnumerateLogFiles"
        /\ methodTodo' = << >>
    BY <2>1, StepsThatAre
  <2>3. MethodShapes' /\ ~Ordered /\ ~Answered /\ methodAnswer'.payload = logFolder'
    BY <1>1, <2>1 DEF MethodShapes
  <2>4. StepsInv'
    BY <2>1, <2>2, <2>3 DEF StepsInv
  <2> QED
    BY <1>3, <1>4, <2>1, <2>2, <2>3, <2>4
<1>15. CASE StartStopApp
  <2>1. Doing("iotstartup") /\ Moves /\ Quiet
        /\ appRuns' = (methodCall.method = "StartApp")
    BY <1>15 DEF StartStopApp, Done, Go, Move, SameCall, Doing, At
  <2>2. methodCall \in MethodCalls /\ methodCall.method \in {"StartApp", "StopApp"}
        /\ methodTodo' = << >>
    BY <2>1, StepsThatAre
  <2>3. StepsInv'
    BY <2>1, <2>2 DEF StepsInv
  <2> QED
    BY <1>2, <1>4, <2>1, <2>2, <2>3
<1>16. CASE Query
  <2>1. Doing("query") /\ Moves /\ Quiet
    BY <1>16 DEF Query, Done, Go, Move, SameCall, target, Doing, At
  <2>2. /\ methodCall \in MethodCalls /\ methodTodo' = << >>
        /\ methodCall.method \in {"EnumerateLogFolders", "GetInstalledApps", "CertificateDetail"}
    BY <2>1, StepsThatAre
  <2>3. StepsInv'
    BY <2>1, <2>2 DEF StepsInv
  <2> QED
    BY <1>2, <1>4, <2>1, <2>2, <2>3
<1>17. CASE CommandThrows
  <2>1. Quiet /\ at = "apply" /\ at' = "finalize" /\ errors' /\ UNCHANGED methodCall
    BY <1>17 DEF CommandThrows, Leave, SameCall, target, At
  <2> QED
    BY <1>1, <1>2, <2>1 DEF MethodProgressInv
<1>18. CASE AllDone
  <2>1. UNCHANGED methodVars /\ methodTodo = << >> /\ at = "apply" /\ at' = "finalize"
    BY <1>18 DEF AllDone, Leave, At
  <2>2. Quiet /\ methodCall' = methodCall /\ methodTodo' = methodTodo /\ StepsInv'
    BY <1>1, <2>1 DEF MethodProgressInv, StepsInv, TpmHandled, methodVars
  <2> QED
    BY <1>1, <1>2, <2>1, <2>2 DEF MethodProgressInv
<1>19. CASE AnswerMethod
  <2>1. /\ at = "finalize" /\ at' = "idle" /\ UNCHANGED device
        /\ methodAnswer' = IF errors THEN [code |-> "failure", payload |-> {}]
                           ELSE [methodAnswer EXCEPT !.code = "success"]
    BY <1>19 DEF AnswerMethod, Return, target
  <2>2. ~errors => StepsInv /\ methodTodo = << >>
    BY <1>1, <2>1 DEF MethodProgressInv
  <2>3. methodAnswer'.code = "success" => ~errors
    BY <2>1
  <2>4. ~errors => /\ methodCall.method = "UploadLogFile" => methodCall.file \in container
                   /\ methodCall.method = "DeleteLogFile" =>
                        methodCall.file \notin logFolder \ FilesInUse
                   /\ methodCall.method = "EnumerateLogFiles" =>
                        methodAnswer.payload = logFolder
                   /\ methodCall.method \in {"StartApp", "StopApp"} =>
                        appRuns = (methodCall.method = "StartApp")
    BY <2>2 DEF StepsInv
  <2>5. MethodShapes' /\ ~Ordered
    BY <1>1, <2>1 DEF MethodShapes
  <2>6. StepKeepsPromise
    BY <2>3, <2>4, <2>5 DEF StepKeepsPromise
  <2> QED
    BY <2>1, <2>5, <2>6 DEF MethodProgressInv
<1>20. CASE MethodLost
  <2>1. device' = device /\ at' = "idle"
        /\ (methodAnswer' = methodAnswer \/ methodAnswer' = [NoAnswer EXCEPT !.code = "lost"])
    BY <1>20 DEF MethodLost, HostEnds, target
  <2> QED
    BY <1>1, <1>3, <2>1 DEF MethodProgressInv, MethodShapes, NoAnswer
<1>21. CASE DeviceReboots
  <2>1. device' = [device EXCEPT !.rebooting = FALSE] /\ at' \in {"idle", "terminated"}
        /\ (methodAnswer' = methodAnswer \/ methodAnswer' = [NoAnswer EXCEPT !.code = "lost"])
    BY <1>21 DEF DeviceReboots
  <2> QED
    BY <1>1, <1>3, <2>1 DEF MethodProgressInv, MethodShapes, NoAnswer
<1> QED
  BY <1>5, <1>6, <1>7, <1>8, <1>9, <1>10, <1>11, <1>12, <1>13, <1>14, <1>15, <1>16, <1>17,
     <1>18, <1>19, <1>20, <1>21 DEF MethodsStep

LEMMA MethodsNext ==
  MethodsInv /\ [Next]_pluginVars => MethodsInv' /\ [StepKeepsPromise]_methodVars
<1> SUFFICES ASSUME MethodsInv, [Next]_pluginVars
             PROVE MethodsInv' /\ [StepKeepsPromise]_methodVars
  OBVIOUS
<1>1. CASE part = "methods" /\ MethodsStep /\ UNCHANGED part
  BY <1>1, MethodsStepOK DEF MethodsInv
<1>2. CASE part # "methods" /\ UNCHANGED <<part, methodVars>>
  BY <1>2 DEF MethodsInv, MethodShapes, methodVars
<1>3. CASE UNCHANGED <<part, frame, methodVars>>
  <2>1. StepsInv => StepsInv'
    BY <1>3 DEF StepsInv, TpmHandled, methodVars
  <2> QED
    BY <1>3, <2>1 DEF MethodsInv, MethodShapes, MethodProgressInv, methodVars, frame
<1>4. \/ part = "methods" /\ MethodsStep /\ UNCHANGED part
      \/ part # "methods" /\ UNCHANGED <<part, methodVars>>
      \/ UNCHANGED <<part, frame, methodVars>>
  BY DEF Next, pluginVars, handlerVars
<1> QED
  BY <1>1, <1>2, <1>3, <1>4

\* A device is told to restart only after what the call is for was done, in
\* this call or an earlier one, and a method that answers success did what it was
\* asked for, whatever was interrupted before.  (Invoke of the plugins' direct
\* methods.)
THEOREM MethodsDoAsAnswered == Spec => MethodsKeepPromise
  BY MethodsStart, MethodsNext, PTL DEF Spec, MethodsKeepPromise

\* What InOrderOf lists are sequences of exactly these members, none of them
\* twice if the order has none twice.
LEMMA SequenceRangeFinite ==
  ASSUME NEW T, NEW s \in Seq(T)
  PROVE IsFiniteSet(ToSet(s))
<1> DEFINE n == Len(s)
<1>1. n \in Nat /\ DOMAIN s = 1 .. n
  BY LenProperties
<1>2. IsFiniteSet(1 .. n)
  BY <1>1, FS_Interval
<1>3. s \in Surjection(1 .. n, ToSet(s))
  BY <1>1 DEF Surjection, ToSet
<1> HIDE DEF n
<1> QED
  BY <1>2, <1>3, FS_Surjection

LEMMA ListedInOrder ==
  ASSUME NEW T, NEW order \in Seq(T), NEW S, S \subseteq ToSet(order),
         NEW q \in InOrderOf(order, S)
  PROVE /\ q \in Seq(S) /\ ToSet(q) = S
        /\ IsInjective(order) => \A i, j \in 1 .. Len(q) : i # j => q[i] # q[j]
<1> DEFINE n == Cardinality(S)
<1>1. n \in Nat
  BY SequenceRangeFinite, FS_Subset, FS_CardinalityType
<1>2. q \in [1 .. n -> S] /\ S \subseteq Range(q)
  BY DEF InOrderOf
<1>3. q \in Seq(S) /\ Len(q) = n /\ DOMAIN q = 1 .. n
  BY <1>1, <1>2
<1>4. ToSet(q) = S
  BY <1>2, <1>3 DEF ToSet, Range
<1>5. ASSUME IsInjective(order), NEW i \in 1 .. n, NEW j \in 1 .. n, i < j
      PROVE q[i] # q[j]
  <2>1. PICK k, l \in DOMAIN order : k < l /\ order[k] = q[i] /\ order[l] = q[j]
    BY <1>3, <1>5 DEF InOrderOf
  <2>2. k # l
    BY <2>1, LenProperties
  <2> QED
    BY <1>5, <2>1, <2>2 DEF IsInjective
<1>6. ASSUME IsInjective(order), NEW i \in 1 .. n, NEW j \in 1 .. n, i # j
      PROVE q[i] # q[j]
  <2>1. i < j \/ j < i
    BY <1>1, <1>6
  <2> QED
    BY <1>5, <1>6, <2>1
<1> QED
  BY <1>3, <1>4, <1>6

-----------------------------------------------------------------------------
(* The diagnostic logs *)

ProvidersDone(c) ==
    \A p \in TraceProviders : Desired(c).providers[p] # "absent" =>
                               logProviders[c][p] = Desired(c).providers[p]

CollectorDone(c) ==
    /\ c \in collectorNodes
    /\ logFirst[c] = Desired(c).settings /\ ProvidersDone(c)
    /\ c \in tracing <=> Desired(c).started

\* The file that c's log was to go to holds the log of a collector that was
\* stopped, or one with this file could not be saved.
Saved(c) ==
    \E d \in stopped : /\ Desired(d).file = Desired(c).file
                       /\ d \in unsaved \/ logFile[Desired(c).file] = d

\* How far the collector at the head of the list has come.
HeadInv ==
    /\ step \in {"providers", "status", "etl"} =>
         Collector \in collectorNodes /\ logFirst[Collector] = Desired(Collector).settings
    /\ step \in {"status", "etl"} => ProvidersDone(Collector)
    /\ step = "etl" => /\ ~Desired(Collector).started /\ Collector \notin tracing
                       /\ Collector \in stopped

\* Without an error all collectors but those of the list are as the section
\* says, and a log is only missing while its collector is at the head.
LogsDone ==
    /\ \A c \in Collectors \ ToSet(logTodo) : Desired(c).fields = "all" => CollectorDone(c)
    /\ \A c \in stopped : Saved(c) \/ (at = "apply" /\ step = "etl" /\ c = Collector)

LogProgressInv ==
    /\ at \in {"idle", "apply", "finalize"}
    /\ at = "apply" =>
         /\ logSection.kind = "good"
         /\ step \in {"parse", "mode", "lookup", "settings", "providers", "status", "etl"}
         /\ logTodo # << >> \/ step \in {"parse", "mode"}
    /\ at \in {"apply", "finalize"} /\ logSection.kind = "good" => deployment = "pending"
    /\ at = "apply" /\ step = "parse" => stopped = {}
    /\ at = "apply" => HeadInv
    /\ at = "apply" /\ step # "parse" /\ ~errors => LogsDone
    /\ ((at = "finalize" /\ ~errors) \/ Applied) /\ logSection.kind = "good" =>
         LogsDone /\ logTodo = << >>

LogsInv ==
    /\ LogsOK
    /\ part = "logs" => LogProgressInv
    /\ part # "logs" => logSection.kind # "good"

LEMMA LogsStart == Init => LogsInv
<1> SUFFICES ASSUME Init PROVE LogsInv
  OBVIOUS
<1>1. LogsInit /\ FrameInit
  BY DEF Init
<1>2. LogsOK
  BY <1>1 DEF LogsInit, LogsOK
<1> QED
  BY <1>1, <1>2 DEF LogsInit, FrameInit, LogsInv, LogProgressInv, NoLogSection, Applied

LEMMA LogTypes ==
  ASSUME LogsInv
  PROVE /\ CollectorOrder \in Seq(Collectors)
        /\ logSection.kind = "good" => \A c \in Collectors :
             /\ Desired(c).settings \in LogSettings /\ Desired(c).started \in BOOLEAN
             /\ Desired(c).providers \in [TraceProviders -> LogSettings \cup {"absent"}]
             /\ Desired(c).file \in EtlFiles
        /\ logTodo # << >> => /\ Collector \in Collectors
                              /\ Tail(logTodo) \in Seq(Collectors)
                              /\ ToSet(logTodo) = {Collector} \cup ToSet(Tail(logTodo))
<1>1. LogsOK
  BY DEF LogsInv
<1>2. logSection.kind = "good" => logSection \in LogSections
  BY <1>1 DEF LogsOK, NoLogSection
<1>3. logSection.kind = "good" => logSection.collectors \in [Collectors -> CollectorEntries]
  BY <1>2, LogsParametersOK
<1> QED
  BY <1>1, <1>3, LogsParametersOK, HeadAndTail DEF LogsOK, Desired, CollectorEntries, Collector

\* The list goes on to the next collector: the head was done, or an error is noted.
LEMMA NextCollectorOK ==
  ASSUME LogsInv, part = "logs", at = "apply", step # "parse", logTodo # << >>, NextCollector,
         at' = "apply", step' = "mode", LogsOK', UNCHANGED <<logSection, deployment>>,
         ~errors' => ~errors,
         \A c \in Collectors \ {Collector} : CollectorDone(c) => CollectorDone(c)',
         NEW h, h = Collector, ~errors' /\ Desired(h).fields = "all" => CollectorDone(h)',
         ~errors' => \A c \in stopped' :
            \/ Saved(c)'
            \/ c \in stopped /\ (Saved(c) => Saved(c)') /\ (step = "etl" => c # Collector)
  PROVE LogProgressInv'
<1>1. LogProgressInv /\ LogsOK
  BY DEF LogsInv
<1>2. logTodo' = Tail(logTodo) /\ ToSet(logTodo) = {Collector} \cup ToSet(logTodo')
  BY LogTypes DEF NextCollector
<1>3. \A c : Desired(c)' = Desired(c)
  BY DEF Desired
<1>4. ASSUME ~errors' PROVE LogsDone'
  <2>1. LogsDone
    BY <1>1, <1>4 DEF LogProgressInv
  <2>2. ASSUME NEW c \in Collectors \ ToSet(logTodo'), Desired(c).fields = "all"
        PROVE CollectorDone(c)'
    <3>1. CASE c = Collector
      BY <1>4, <2>2, <3>1
    <3>2. CASE c # Collector
      <4>1. c \in Collectors \ ToSet(logTodo)
        BY <1>2, <2>2, <3>2
      <4> QED
        BY <2>1, <2>2, <3>2, <4>1 DEF LogsDone
    <3> QED
      BY <3>1, <3>2
  <2>3. ASSUME NEW c \in stopped'
        PROVE Saved(c)'
    <3>1. CASE c \in stopped /\ (Saved(c) => Saved(c)') /\ (step = "etl" => c # Collector)
      BY <2>1, <3>1 DEF LogsDone
    <3> QED
      BY <1>4, <2>3, <3>1
  <2> QED
    BY <1>3, <2>2, <2>3 DEF LogsDone
<1> QED
  BY <1>1, <1>4 DEF LogProgressInv, HeadInv, Applied

LEMMA LogsStepOK ==
  ASSUME LogsInv, LogsStep, part = "logs"
  PROVE LogsOK' /\ LogProgressInv'
<1>1. LogProgressInv /\ LogsOK
  BY DEF LogsInv
<1>2. \A c : logSection' = logSection => Desired(c)' = Desired(c)
  BY DEF Desired
<1> DEFINE Stays == UNCHANGED <<logSection, logTodo, deployment>> /\ at = "apply" /\ at' = "apply"
                    /\ logTodo # << >>
           Kept(c) == CollectorDone(c) => CollectorDone(c)'
           AllKept == \A c \in Collectors \ {Collector} : Kept(c)
           Logged(h) == \A c \in stopped' : \/ Saved(c)'
                                            \/ c = h /\ step' = "etl"
                                            \/ c \in stopped /\ (Saved(c) => Saved(c)')
<1>a. UNCHANGED <<stopped, unsaved, logFile, logSection>> => \A c : Saved(c)' = Saved(c)
  BY DEF Saved, Desired
<1>b. UNCHANGED <<logProviders, logSection>> => \A c : ProvidersDone(c)' = ProvidersDone(c)
  BY DEF ProvidersDone, Desired
\* A step in the midst of a collector's operation.
<1>3. ASSUME Stays, step \notin {"parse", "etl"}, step' # "parse", LogsOK', HeadInv', AllKept,
             step' \in {"mode", "lookup", "settings", "providers", "status", "etl"},
             ~errors' => ~errors, Logged(Collector)
      PROVE LogProgressInv'
  <2>1. Collector' = Collector /\ ToSet(logTodo)' = ToSet(logTodo)
    BY <1>3 DEF Collector
  <2>2. ASSUME ~errors' PROVE LogsDone'
    <3>1. LogsDone
      BY <1>1, <1>3, <2>2 DEF LogProgressInv
    <3>2. Collector \in ToSet(logTodo)
      BY <1>3, LogTypes
    <3>3. \A c \in Collectors \ ToSet(logTodo) : Desired(c).fields = "all" => CollectorDone(c)'
      BY <1>3, <3>1, <3>2 DEF LogsDone
    <3>4. \A c \in stopped' : Saved(c)' \/ (c = Collector /\ step' = "etl")
      BY <1>3, <3>1 DEF LogsDone
    <3> QED
      BY <1>2, <1>3, <2>1, <3>3, <3>4 DEF LogsDone
  <2> QED
    BY <1>1, <1>3, <2>1, <2>2 DEF LogProgressInv, Applied
<1>4. CASE InvokeLogs
  <2>1. PICK s \in LogSections :
           /\ Invoke(s.kind, "parse") /\ logSection' = s /\ logTodo' = << >>
           /\ stopped' = {} /\ unsaved' = {}
           /\ UNCHANGED <<collectorNodes, logFirst, logProviders, tracing, logFile>>
    BY <1>4 DEF InvokeLogs
  <2>2. LogsOK'
    BY <1>1, <2>1 DEF LogsOK
  <2>3. /\ at' = (IF s.kind = "good" THEN "apply" ELSE "finalize")
        /\ (s.kind = "good" => step' = "parse" /\ deployment' = "pending")
    BY <2>1 DEF Invoke, Begin
  <2> QED
    BY <2>1, <2>2, <2>3 DEF LogProgressInv, Applied, HeadInv
<1>5. CASE Parse
  <2> DEFINE kept == {c \in Collectors : Desired(c).fields \in {"all", "none"}}
  <2>1. at = "apply" /\ step = "parse" /\ at' = "apply" /\ step' = "mode"
        /\ UNCHANGED <<logSection, deployment, stopped, unsaved>>
        /\ logTodo' \in InOrderOf(CollectorOrder, kept)
        /\ UNCHANGED <<collectorNodes, logFirst, logProviders, tracing, logFile>>
    BY <1>5 DEF Parse, At, Throw, Go, Move
  <2>2. logTodo' \in Seq(kept) /\ ToSet(logTodo') = kept
    BY <2>1, ListedInOrder, LogTypes DEF Collectors
  <2>3. logTodo' \in Seq(Collectors)
    BY <2>2
  <2>4. LogsOK'
    BY <1>1, <2>1, <2>3 DEF LogsOK
  <2>5. LogsDone'
    <3>1. stopped' = {}
      BY <1>1, <2>1 DEF LogProgressInv
    <3> QED
      BY <1>2, <2>1, <2>2, <3>1 DEF LogsDone
  <2> QED
    BY <1>1, <2>1, <2>4, <2>5 DEF LogProgressInv, HeadInv, Applied
<1>6. CASE WriteReportingMode
  <2>1. /\ at = "apply" /\ step = "mode" /\ logTodo # << >> /\ at' = "apply"
        /\ UNCHANGED <<collectorNodes, logFirst, logProviders, tracing, logFile, logSection,
                       stopped, unsaved, deployment>>
        /\ ~errors' => ~errors
        /\ \/ NextCollector /\ step' = "mode" /\ (~errors' => Desired(Collector).fields = "none")
           \/ UNCHANGED logTodo /\ step' = "lookup"
    BY <1>6 DEF WriteReportingMode, Applying, At, CommandFails, FailTo, Throw, Go, Move
  <2>2. LogsOK'
    BY <1>1, <2>1, LogTypes DEF LogsOK, NextCollector
  <2>3. \A c : CollectorDone(c)' = CollectorDone(c)
    BY <2>1, <1>2, <1>b DEF CollectorDone
  <2>4. CASE step' = "lookup"
    BY <1>1, <1>3, <1>a, <2>1, <2>2, <2>3, <2>4 DEF HeadInv, LogsOK, Collector
  <2>5. CASE step' = "mode"
    <3>1. PICK h : h = Collector
      OBVIOUS
    <3>2. LogsInv /\ step # "parse" /\ NextCollector /\ UNCHANGED <<logSection, deployment>>
      BY <2>1, <2>5
    <3>3. ~errors' /\ Desired(h).fields = "all" => CollectorDone(h)'
      BY <2>1, <2>5, <3>1
    <3> QED
      BY <1>a, <2>1, <2>2, <2>3, <2>5, <3>1, <3>2, <3>3, NextCollectorOK
  <2> QED
    BY <2>1, <2>4, <2>5
\* A command that fails.
<1>7. ASSUME at = "apply", at' = "apply", step' = "mode", LogsOK', errors',
             UNCHANGED <<logSection, deployment>>
      PROVE LogProgressInv'
  BY <1>1, <1>7 DEF LogProgressInv, HeadInv, Applied
<1>8. CASE AddCollector
  <2>1. /\ at = "apply" /\ step = "lookup" /\ logTodo # << >> /\ at' = "apply"
        /\ UNCHANGED <<logFirst, logProviders, tracing, logFile, logSection, stopped, unsaved,
                       deployment>>
        /\ \/ /\ collectorNodes' = (IF Listed(Collector) THEN collectorNodes
                                     ELSE collectorNodes \cup {Collector})
              /\ UNCHANGED <<logTodo, errors>> /\ step' = "settings"
           \/ UNCHANGED collectorNodes /\ errors' = TRUE /\ step' = "mode" /\ NextCollector
    BY <1>8 DEF AddCollector, Applying, At, CommandFails, FailTo, Go, Move
  <2>2. collectorNodes \subseteq collectorNodes' /\ LogsOK'
    <3>1. collectorNodes \subseteq collectorNodes' /\ collectorNodes' \subseteq Collectors
      BY <1>1, <2>1, LogTypes DEF LogsOK
    <3>2. logTodo' \in Seq(Collectors)
      BY <1>1, <2>1, LogTypes DEF LogsOK, NextCollector
    <3> QED
      BY <1>1, <2>1, <3>1, <3>2 DEF LogsOK
  <2>3. \A c : CollectorDone(c) => CollectorDone(c)'
    BY <1>2, <1>b, <2>1, <2>2 DEF CollectorDone
  <2>4. CASE step' = "settings"
    BY <1>3, <1>a, <2>1, <2>2, <2>3, <2>4 DEF HeadInv
  <2> QED
    BY <1>7, <2>1, <2>2, <2>4
<1>9. CASE SetSettings
  <2>1. /\ at = "apply" /\ step = "settings" /\ logTodo # << >> /\ at' = "apply"
        /\ UNCHANGED <<collectorNodes, logProviders, tracing, logFile, logSection, stopped,
                       unsaved, deployment>>
        /\ \/ /\ Collector \in collectorNodes
              /\ logFirst' = [logFirst EXCEPT ![Collector] = Desired(Collector).settings]
              /\ UNCHANGED <<logTodo, errors>> /\ step' = "providers"
           \/ /\ \/ UNCHANGED logFirst
                 \/ logFirst' = [logFirst EXCEPT ![Collector] = "mixed"]
              /\ errors' = TRUE /\ step' = "mode" /\ NextCollector
    BY <1>9 DEF SetSettings, Applying, At, CommandFails, FailTo, Throw, Go, Move
  <2>2. Collector \in Collectors /\ Desired(Collector).settings \in LogSettings
        /\ logTodo' \in Seq(Collectors)
    BY <1>1, <2>1, LogTypes DEF LogsOK, LogProgressInv, NextCollector
  <2>3. LogsOK'
    BY <1>1, <2>1, <2>2 DEF LogsOK
  <2>4. CASE step' = "providers"
    <3>1. logFirst' = [logFirst EXCEPT ![Collector] = Desired(Collector).settings]
          /\ Collector' = Collector /\ Desired(Collector)' = Desired(Collector)
      BY <1>2, <2>1, <2>4 DEF Collector
    <3>2. HeadInv'
      BY <1>1, <2>1, <2>2, <2>4, <3>1 DEF HeadInv, LogsOK
    <3>3. AllKept
      BY <1>1, <1>2, <1>b, <2>1, <3>1 DEF CollectorDone, LogsOK
    <3> QED
      BY <1>3, <1>a, <2>1, <2>3, <2>4, <3>2, <3>3
  <2> QED
    BY <1>7, <2>1, <2>3, <2>4
<1>10. CASE SetProviders
  <2>1. /\ at = "apply" /\ step = "providers" /\ logTodo # << >> /\ at' = "apply"
        /\ UNCHANGED <<collectorNodes, logFirst, tracing, logFile, logSection, stopped,
                       unsaved, deployment>>
        /\ \/ ProvidersSet(Wanted, {}) /\ UNCHANGED <<logTodo, errors>> /\ step' = "status"
           \/ /\ UNCHANGED logProviders \/ (\E done, half : ProvidersSet(done, half))
              /\ errors' = TRUE /\ step' = "mode" /\ NextCollector
    BY <1>10 DEF SetProviders, Applying, At, CommandFails, FailTo, Go, Move
  <2>2. /\ Collector \in Collectors /\ logTodo' \in Seq(Collectors)
        /\ Desired(Collector).providers \in [TraceProviders -> LogSettings \cup {"absent"}]
    BY <1>1, <2>1, LogTypes DEF LogsOK, LogProgressInv, NextCollector
  <2> DEFINE Kinds == [TraceProviders -> LogSettings \cup {"absent", "mixed"}]
             After(done, half) ==
               [p \in TraceProviders |-> IF p \in done THEN Desired(Collector).providers[p]
                                         ELSE IF p \in half THEN "mixed"
                                         ELSE logProviders[Collector][p]]
  <2>3. logProviders \in [Collectors -> Kinds]
    BY <1>1 DEF LogsOK
  <2>4. ASSUME NEW done, NEW half, ProvidersSet(done, half)
        PROVE /\ logProviders' = [logProviders EXCEPT ![Collector] = After(done, half)]
              /\ logProviders' \in [Collectors -> Kinds]
    <3>1. logProviders' = [logProviders EXCEPT ![Collector] = After(done, half)]
      BY <2>4 DEF ProvidersSet
    <3>2. After(done, half) \in Kinds
      <4>1. logProviders[Collector] \in Kinds
        BY <2>2, <2>3
      <4> QED
        BY <2>2, <4>1
    <3> HIDE DEF After, Kinds
    <3> QED
      BY <2>2, <2>3, <3>1, <3>2
  <2>5. LogsOK'
    <3>1. logProviders' \in [Collectors -> Kinds]
      BY <2>1, <2>3, <2>4
    <3> QED
      BY <1>1, <2>1, <2>2, <3>1 DEF LogsOK
  <2>6. CASE step' = "status"
    <3>1. /\ logProviders' = [logProviders EXCEPT ![Collector] = After(Wanted, {})]
          /\ Collector' = Collector /\ UNCHANGED logTodo
      BY <2>1, <2>4, <2>6 DEF Collector
    <3>2. PICK h : h = Collector
      OBVIOUS
    <3>3. logProviders'[h] = After(Wanted, {})
      <4> HIDE DEF After
      <4> QED
        BY <2>2, <2>3, <3>1, <3>2
    <3>4. ProvidersDone(h)'
      BY <1>2, <2>1, <3>2, <3>3 DEF ProvidersDone, Wanted
    <3>5. HeadInv'
      <4>1. h \in collectorNodes /\ logFirst[h] = Desired(h).settings
        BY <1>1, <2>1, <3>2 DEF HeadInv, LogProgressInv
      <4>2. Collector' = h
        BY <3>1, <3>2
      <4> QED
        BY <1>2, <2>1, <2>6, <3>4, <4>1, <4>2 DEF HeadInv
    <3>6. ASSUME NEW c \in Collectors \ {Collector} PROVE Kept(c)
      <4>1. logProviders'[c] = logProviders[c]
        <5> HIDE DEF After
        <5> QED
          BY <2>3, <3>1, <3>6
      <4> QED
        BY <1>2, <2>1, <4>1 DEF CollectorDone, ProvidersDone
    <3> QED
      BY <1>3, <1>a, <2>1, <2>5, <2>6, <3>1, <3>5, <3>6
  <2> QED
    BY <1>7, <2>1, <2>5, <2>6
<1>11. CASE StartOrStop
  <2>1. /\ at = "apply" /\ step = "status" /\ logTodo # << >> /\ at' = "apply"
        /\ UNCHANGED <<collectorNodes, logFirst, logProviders, logFile, logSection, unsaved,
                       deployment>>
        /\ \/ /\ Desired(Collector).started /\ tracing' = tracing \cup {Collector}
              /\ NextCollector /\ step' = "mode" /\ UNCHANGED <<stopped, errors>>
           \/ /\ ~Desired(Collector).started /\ Collector \notin tracing
              /\ NextCollector /\ step' = "mode" /\ UNCHANGED <<tracing, stopped, errors>>
           \/ /\ ~Desired(Collector).started /\ Collector \in tracing
              /\ tracing' = tracing \ {Collector} /\ stopped' = stopped \cup {Collector}
              /\ UNCHANGED <<logTodo, errors>> /\ step' = "etl"
           \/ UNCHANGED <<tracing, stopped>> /\ errors' = TRUE /\ step' = "mode" /\ NextCollector
    BY <1>11 DEF StartOrStop, Applying, At, CommandFails, FailTo, Go, Move
  <2>2. /\ Collector \in collectorNodes /\ Collector \in Collectors
        /\ logFirst[Collector] = Desired(Collector).settings
        /\ ProvidersDone(Collector)
    BY <1>1, <2>1, LogTypes DEF LogProgressInv, HeadInv
  <2>3. LogsOK'
    <3>1. tracing' \subseteq collectorNodes /\ stopped' \subseteq Collectors /\ unsaved' \subseteq stopped'
      BY <1>1, <2>1, <2>2 DEF LogsOK
    <3>2. logTodo' \in Seq(Collectors)
      BY <1>1, <2>1, LogTypes DEF LogsOK, NextCollector
    <3> QED
      BY <1>1, <2>1, <3>1, <3>2 DEF LogsOK
  <2>4. AllKept
    BY <1>2, <1>b, <2>1 DEF CollectorDone
  <2>5. CASE step' = "etl"
    <3>1. Collector' = Collector /\ Desired(Collector)' = Desired(Collector)
      BY <1>2, <2>1, <2>5 DEF Collector
    <3>2. HeadInv'
      <4>1. PICK h : h = Collector
        OBVIOUS
      <4>2. ProvidersDone(h)' /\ Collector' = h
        BY <1>b, <2>1, <2>2, <3>1, <4>1
      <4> QED
        BY <2>1, <2>2, <2>5, <3>1, <4>1, <4>2 DEF HeadInv
    <3>3. stopped' = stopped \cup {Collector}
      BY <2>1, <2>5
    <3>4. \A c : Saved(c) => Saved(c)'
      BY <1>2, <2>1, <3>3 DEF Saved
    <3>5. Logged(Collector)
      BY <2>5, <3>3, <3>4
    <3>6. Stays
      BY <2>1, <2>5
    <3> QED
      BY <1>3, <2>1, <2>3, <2>4, <2>5, <3>2, <3>5, <3>6
  <2>6. CASE step' = "mode" /\ ~errors'
    <3>1. PICK h : h = Collector
      OBVIOUS
    <3>2. CollectorDone(h)'
      BY <1>2, <1>b, <2>1, <2>2, <2>6, <3>1 DEF CollectorDone
    <3>3. NextCollector /\ UNCHANGED <<stopped, unsaved, logFile, logSection, deployment>> /\ ~errors
      BY <2>1, <2>6
    <3> QED
      BY <1>a, <2>1, <2>3, <2>4, <2>6, <3>1, <3>2, <3>3, NextCollectorOK
  <2> QED
    BY <1>7, <2>1, <2>3, <2>5, <2>6
<1>12. CASE CreateEtlFile
  <2>1. /\ at = "apply" /\ step = "etl" /\ logTodo # << >> /\ at' = "apply" /\ step' = "mode"
        /\ NextCollector
        /\ UNCHANGED <<collectorNodes, logFirst, logProviders, tracing, logSection, stopped,
                       deployment>>
        /\ \/ /\ logFile' = [logFile EXCEPT ![Desired(Collector).file] = Collector]
              /\ UNCHANGED <<errors, unsaved>>
           \/ /\ \E content \in {"empty", "broken", logFile[Desired(Collector).file]} :
                    logFile' = [logFile EXCEPT ![Desired(Collector).file] = content]
              /\ unsaved' = unsaved \cup {Collector} /\ UNCHANGED errors
           \/ UNCHANGED <<logFile, unsaved>> /\ errors' = TRUE
    BY <1>12 DEF CreateEtlFile, Applying, At, CommandFails, FailTo, Go, Move
  <2>2. /\ Collector \in collectorNodes /\ Collector \in Collectors
        /\ logFirst[Collector] = Desired(Collector).settings /\ ProvidersDone(Collector)
        /\ ~Desired(Collector).started /\ Collector \notin tracing /\ Collector \in stopped
        /\ Desired(Collector).file \in EtlFiles
    BY <1>1, <2>1, LogTypes DEF LogProgressInv, HeadInv
  <2>3. logFile \in [EtlFiles -> Collectors \cup {"none", "empty", "broken"}]
    BY <1>1 DEF LogsOK
  <2>4. LogsOK'
    <3>1. logFile' \in [EtlFiles -> Collectors \cup {"none", "empty", "broken"}]
      BY <2>1, <2>2, <2>3
    <3>2. logTodo' \in Seq(Collectors)
      BY <1>1, <2>1, LogTypes DEF LogsOK, NextCollector
    <3>3. unsaved' \subseteq stopped'
      BY <1>1, <2>1, <2>2 DEF LogsOK
    <3> QED
      BY <1>1, <2>1, <3>1, <3>2, <3>3 DEF LogsOK
  <2>5. AllKept
    BY <1>2, <1>b, <2>1 DEF CollectorDone
  <2>6. CASE ~errors'
    <3>1. PICK h : h = Collector
      OBVIOUS
    <3>2. CollectorDone(h)' /\ ~errors
      BY <1>2, <1>b, <2>1, <2>2, <2>6, <3>1 DEF CollectorDone
    <3>3. ASSUME NEW c \in stopped'
          PROVE  \/ Saved(c)'
                 \/ c \in stopped /\ (Saved(c) => Saved(c)') /\ c # Collector
      <4>1. CASE Desired(c).file = Desired(h).file
        <5>1. h \in unsaved' \/ logFile'[Desired(c).file] = h
          BY <2>1, <2>2, <2>3, <2>6, <3>1, <4>1
        <5> QED
          BY <1>2, <2>1, <2>2, <3>1, <4>1, <5>1 DEF Saved
      <4>2. CASE Desired(c).file # Desired(h).file
        <5>1. logFile'[Desired(c).file] = logFile[Desired(c).file]
          <6>1. PICK f, g : f = Desired(h).file /\ g = Desired(c).file
            OBVIOUS
          <6>2. (\E x : logFile' = [logFile EXCEPT ![f] = x]) \/ logFile' = logFile
            BY <2>1, <3>1, <6>1
          <6>3. c \in Collectors
            BY <1>1, <2>1, <3>3 DEF LogsOK
          <6>4. g \in EtlFiles
            BY <1>1, <2>1, <6>1, <6>3, LogTypes DEF LogProgressInv
          <6>5. logFile'[g] = logFile[g]
            BY <2>3, <4>2, <6>1, <6>2, <6>4
          <6> QED
            BY <6>1, <6>5
        <5>2. unsaved \subseteq unsaved'
          BY <2>1
        <5>3. Saved(c) => Saved(c)'
          BY <1>2, <2>1, <5>1, <5>2 DEF Saved
        <5> QED
          BY <2>1, <3>1, <3>3, <4>2, <5>3
      <4> QED
        BY <4>1, <4>2
    <3> QED
      BY <2>1, <2>4, <2>5, <2>6, <3>1, <3>2, <3>3, NextCollectorOK
  <2> QED
    BY <1>7, <2>1, <2>4, <2>6
<1>13. ASSUME UNCHANGED logs
       PROVE LogsOK' /\ (LogsDone /\ ~(at = "apply" /\ step = "etl") => LogsDone')
  <2>1. UNCHANGED <<collectorNodes, logFirst, logProviders, tracing, logFile, logSection, logTodo,
                    stopped, unsaved>>
    BY <1>13 DEF logs
  <2>2. \A c : /\ CollectorDone(c)' = CollectorDone(c) /\ Desired(c)' = Desired(c)
               /\ Saved(c)' = Saved(c)
    BY <1>a, <1>b, <2>1 DEF CollectorDone, Desired
  <2>3. LogsOK'
    BY <1>1, <2>1 DEF LogsOK
  <2> QED
    BY <2>1, <2>2, <2>3 DEF LogsDone
<1>14. CASE ReportLogs
  <2>1. UNCHANGED <<logs, deployment>> /\ at = "apply" /\ step = "mode" /\ logTodo = << >>
        /\ at' = "finalize" /\ (~errors' => ~errors)
    BY <1>14 DEF ReportLogs, GetCollectors, Leave, At
  <2>2. logSection' = logSection /\ logTodo' = logTodo
    BY <2>1 DEF logs
  <2>3. ~errors' => LogsDone'
    BY <1>1, <1>13, <2>1 DEF LogProgressInv
  <2> QED
    BY <1>1, <1>13, <2>1, <2>2, <2>3 DEF LogProgressInv, Applied
<1>15. CASE (FinalizeAndReport \/ HostEnds) /\ UNCHANGED logs
  <2>1. logSection' = logSection /\ logTodo' = logTodo /\ at' = "idle"
    BY <1>15 DEF logs, FinalizeAndReport, HostEnds, Return
  <2>2. ASSUME deployment' = "succeeded", logSection.kind = "good"
        PROVE LogsDone' /\ logTodo = << >>
    <3>1. \/ at = "finalize" /\ ~errors
          \/ deployment = "succeeded"
      BY <1>15, <2>2 DEF FinalizeAndReport, HostEnds, Return
    <3>2. (at = "finalize" /\ ~errors) \/ Applied
      BY <1>1, <2>2, <3>1 DEF LogProgressInv, Applied
    <3>3. LogsDone /\ logTodo = << >> /\ at # "apply"
      BY <1>1, <2>2, <3>2 DEF LogProgressInv, Applied
    <3>4. LogsDone'
      BY <1>13, <1>15, <2>1, <3>3 DEF LogsDone
    <3> QED
      BY <3>3, <3>4
  <2> QED
    BY <1>13, <1>15, <2>1, <2>2 DEF LogProgressInv, Applied
<1> QED
  BY <1>4, <1>5, <1>6, <1>8, <1>9, <1>10, <1>11, <1>12, <1>14, <1>15 DEF LogsStep

LEMMA LogsInvKept == LogsInv /\ [Next]_pluginVars => LogsInv'
<1> SUFFICES ASSUME LogsInv, [Next]_pluginVars PROVE LogsInv'
  OBVIOUS
<1>1. CASE part = "logs" /\ LogsStep /\ UNCHANGED part
  BY <1>1, LogsStepOK DEF LogsInv
<1>2. CASE part # "logs" /\ UNCHANGED <<part, logs>>
  BY <1>2 DEF LogsInv, LogsOK, logs
<1>3. CASE UNCHANGED <<part, frame, logs>>
  BY <1>3 DEF LogsInv, LogsOK, LogProgressInv, Applied, LogsDone, HeadInv, CollectorDone,
              ProvidersDone, Saved, Desired, Collector, logs, frame
<1>4. \/ part = "logs" /\ LogsStep /\ UNCHANGED part
      \/ part # "logs" /\ UNCHANGED <<part, logs>>
      \/ UNCHANGED <<part, frame, logs>>
  BY DEF Next, pluginVars, handlerVars
<1> QED
  BY <1>1, <1>2, <1>3, <1>4

LEMMA LogsInvImplies == LogsInv => CollectorsApplied
<1> SUFFICES ASSUME LogsInv, Applied, logSection.kind = "good" PROVE CollectorsApplied
  BY DEF CollectorsApplied
<1>1. LogsDone /\ logTodo = << >> /\ at = "idle"
  BY DEF LogsInv, LogProgressInv, Applied
<1>2. \A c \in Collectors : Desired(c).fields = "all" => CollectorDone(c)
  BY <1>1, NothingInEmpty DEF LogsDone
<1> QED
  BY <1>1, <1>2 DEF LogsDone, CollectorDone, ProvidersDone, Saved, CollectorsApplied

\* A collector and its providers are as the section says when success is reported, for
\* any names that contain each other and whatever was stopped half-way before; and a file
\* for logs holds the log of a collector that was stopped with it, unless one of those
\* could not be read or written, which nobody notices.
\* (DiagnosticLogsManagementStateHandler::Invoke, ApplyCollectorConfiguration, CreateEtlFile.)
THEOREM SuccessMeansCollected == Spec => []CollectorsApplied
  BY LogsStart, LogsInvKept, LogsInvImplies, PTL DEF Spec

-----------------------------------------------------------------------------
(* The apps *)

MentionedApps == {a \in Apps : Entry(a).mentioned}
TodoApps == {appTodo[i].app : i \in DOMAIN appTodo}

\* What is to come: apps of the section, each once, with the action that its version still asks
\* for, and after the first no app for the foreground.
TodoInv ==
    /\ \A i, j \in DOMAIN appTodo : i # j => appTodo[i].app # appTodo[j].app
    /\ \A i \in DOMAIN appTodo :
         /\ step = "app" \/ i > 1 => appTodo[i].action = AppAction(appTodo[i].app)
         /\ i > 1 => appTodo[i].app \notin Foregrounds
         /\ Entry(appTodo[i].app).mentioned

\* Where the app being treated stands.
TreatedInv ==
    /\ step \in {"install", "startup"} => appTodo # << >>
    /\ step = "install" => Entry(State.app).version > 0
    /\ step = "startup" /\ Entry(State.app).ownPackage =>
         appVersion[State.app] = Entry(State.app).version

\* An accepted section names one foreground app at most, and one if the app now
\* in the foreground has to leave it.
ForegroundInv ==
    /\ \A a, b \in Foregrounds : a = b
    /\ (Entry(foregroundApp).mentioned
          /\ (Entry(foregroundApp).version = 0 \/ Startup(foregroundApp) = "none"))
         => Foregrounds # {}

AppDone(a) ==
    /\ Entry(a).ownPackage => appVersion[a] = Entry(a).version
    /\ Startup(a) = "background" => a \in backgroundApps
    /\ Startup(a) = "none" => a \notin backgroundApps

\* Without an error the apps that are not to come are as the section says, and
\* the foreground app is set unless it is the one to come first.
AppsDone ==
    /\ \A a \in MentionedApps \ TodoApps : AppDone(a)
    /\ Foregrounds = {} \/ foregroundApp \in Foregrounds
         \/ (appTodo # << >> /\ State.app \in Foregrounds)

AppProgressInv ==
    /\ at \in {"idle", "apply", "finalize"}
    /\ at = "apply" =>
         appSection.kind = "good" /\ step \in {"validate", "app", "install", "startup"}
    /\ at \in {"apply", "finalize"} /\ appSection.kind = "good" => deployment = "pending"
    /\ at = "apply" /\ step = "validate" => appTodo = << >>
    /\ at = "apply" => TodoInv /\ TreatedInv
    /\ at = "apply" /\ step # "validate" => ForegroundInv \/ (appTodo = << >> /\ errors)
    /\ at = "apply" /\ step # "validate" /\ ~errors => AppsDone
    /\ ((at = "finalize" /\ ~errors) \/ Applied) /\ appSection.kind = "good" =>
         ForegroundInv /\ AppsDone /\ appTodo = << >>

AppsInv ==
    /\ AppsOK
    /\ part = "apps" => AppProgressInv
    /\ part # "apps" => appSection.kind # "good"

LEMMA AppsStart == Init => AppsInv
<1> SUFFICES ASSUME Init PROVE AppsInv
  OBVIOUS
<1>1. AppsInit /\ FrameInit
  BY DEF Init
<1>2. AppsOK
  <2>1. appVersion \in [Apps -> Versions] /\ foregroundApp \in Apps /\ backgroundApps = {}
        /\ appSection = NoAppSection /\ appTodo = << >> /\ notFound = FALSE
    BY <1>1 DEF AppsInit
  <2>2. appTodo \in Seq(DesiredAppStates)
    BY <2>1
  <2>3. appSection \in AppSections \cup {NoAppSection}
    BY <2>1
  <2> QED
    BY <2>1, <2>2, <2>3 DEF AppsOK
<1> QED
  BY <1>1, <1>2 DEF AppsInit, FrameInit, AppsInv, AppProgressInv, NoAppSection, Applied

LEMMA AppTypes ==
  ASSUME AppsInv
  PROVE /\ appSection.kind = "good" => \A a \in Apps :
             /\ Entry(a).version \in Nat /\ Entry(a).mentioned \in BOOLEAN
             /\ Entry(a).version \in Versions
             /\ Entry(a).ownPackage \in BOOLEAN
        /\ \A a \in Apps : appVersion[a] \in Nat
        /\ \A i \in DOMAIN appTodo : appTodo[i].app \in Apps
        /\ DOMAIN appTodo = 1 .. Len(appTodo) /\ Len(appTodo) \in Nat
        /\ foregroundApp \in Apps
<1>1. AppsOK
  BY DEF AppsInv
<1>2. appSection.kind = "good" => appSection \in AppSections
  BY <1>1 DEF AppsOK, NoAppSection
<1>3. appSection.kind = "good" => appSection.apps \in [Apps -> AppEntries]
  BY <1>2, AppsParametersOK
<1>4. Versions \subseteq Nat
  BY AppsParametersOK DEF Versions
<1>5. \A i \in DOMAIN appTodo : appTodo[i].app \in Apps
  <2>1. \A i \in DOMAIN appTodo : appTodo[i] \in DesiredAppStates
    BY <1>1 DEF AppsOK
  <2> QED
    BY <2>1 DEF DesiredAppStates
<1>6. ASSUME appSection.kind = "good", NEW a \in Apps
      PROVE  /\ Entry(a).version \in Nat /\ Entry(a).mentioned \in BOOLEAN
             /\ Entry(a).version \in Versions /\ Entry(a).ownPackage \in BOOLEAN
  <2>1. Entry(a) \in AppEntries
    BY <1>3, <1>6 DEF Entry
  <2> QED
    BY <1>4, <2>1 DEF AppEntries
<1>7. /\ \A a \in Apps : appVersion[a] \in Nat
      /\ foregroundApp \in Apps
  BY <1>1, <1>4 DEF AppsOK
<1>8. DOMAIN appTodo = 1 .. Len(appTodo) /\ Len(appTodo) \in Nat
  BY <1>1 DEF AppsOK
<1> QED
  BY <1>5, <1>6, <1>7, <1>8

LEMMA AppActionIs ==
  ASSUME NEW a, appVersion[a] \in Nat, Entry(a).version \in Nat
  PROVE /\ AppAction(a) \in AppActions
        /\ Entry(a).version = 0 <=> AppAction(a) = "uninstall"
        /\ AppAction(a) = "query" => appVersion[a] = Entry(a).version
<1> DEFINE have == appVersion[a]
           want == Entry(a).version
<1>1. \/ want = 0 /\ AppAction(a) = "uninstall"
      \/ want # 0 /\ AppAction(a) \in {"install", "upgrade", "downgrade"}
      \/ want # 0 /\ AppAction(a) = "query" /\ have = want
  <2>1. have \in Nat /\ want \in Nat
    OBVIOUS
  <2>2. AppAction(a) = CASE want = 0                -> "uninstall"
                         [] have = 0 /\ want > 0    -> "install"
                         [] have = want /\ want > 0 -> "query"
                         [] 0 < have /\ have < want -> "upgrade"
                         [] 0 < want /\ want < have -> "downgrade"
    BY DEF AppAction
  <2> HIDE DEF have, want
  <2> QED
    BY <2>1, <2>2
<1> QED
  BY <1>1 DEF AppActions

LEMMA ReorderedOK ==
  ASSUME AppsInv, appSection.kind = "good", NEW named \in InOrderOf(AppOrder, MentionedApps),
         \A a, b \in Foregrounds : a = b,
         NEW r, r = Reordered(DesiredStates(named))
  PROVE /\ r \in Seq(DesiredAppStates)
        /\ {r[k].app : k \in DOMAIN r} = MentionedApps
        /\ \A k, l \in DOMAIN r : k # l => r[k].app # r[l].app
        /\ \A k \in DOMAIN r : /\ r[k].action = AppAction(r[k].app)
                               /\ k > 1 => r[k].app \notin Foregrounds
        /\ Foregrounds # {} => r # << >> /\ r[1].app \in Foregrounds
<1> DEFINE n == Len(named)
           states == DesiredStates(named)
           fits(q) == /\ q \in Seq(DesiredAppStates) /\ Len(q) = n
                      /\ \A k \in 1 .. n : q[k].action = AppAction(q[k].app)
<1>0. r = Reordered(states)
  OBVIOUS
<1>1. AppOrder \in Seq(Apps) /\ IsInjective(AppOrder) /\ MentionedApps \subseteq Apps
      /\ Apps = ToSet(AppOrder)
  BY AppsParametersOK DEF MentionedApps, Apps
<1>2. /\ named \in Seq(MentionedApps) /\ ToSet(named) = MentionedApps
      /\ \A k, l \in 1 .. n : k # l => named[k] # named[l]
  BY <1>1, ListedInOrder
<1>3. n \in Nat /\ DOMAIN named = 1 .. n /\ \A k \in 1 .. n : named[k] \in MentionedApps
  BY <1>2, LenProperties
<1>4. \A a \in MentionedApps : \E k \in 1 .. n : named[k] = a
  BY <1>2, <1>3 DEF ToSet
<1>5. /\ states = [k \in 1 .. n |-> [app |-> named[k], action |-> AppAction(named[k])]]
      /\ \A k \in 1 .. n : states[k] \in DesiredAppStates
  <2>1. states = [k \in 1 .. n |-> [app |-> named[k], action |-> AppAction(named[k])]]
    BY <1>3 DEF DesiredStates
  <2>2. \A k \in 1 .. n : named[k] \in Apps /\ AppAction(named[k]) \in AppActions
    BY <1>1, <1>3, AppTypes, AppActionIs
  <2> QED
    BY <2>1, <2>2 DEF DesiredAppStates
<1>6. DOMAIN states = 1 .. n /\ \A k \in 1 .. n : /\ states[k].app = named[k]
                                                  /\ states[k].action = AppAction(named[k])
  BY <1>5
<1>7. Foregrounds \subseteq MentionedApps
      /\ \A a \in MentionedApps : a \in Foregrounds <=> Startup(a) = "foreground"
  BY DEF Foregrounds, MentionedApps
<1> HIDE DEF states, n
\* The order is one of the same apps.
<1>8. ASSUME NEW p \in [1 .. n -> 1 .. n], \A k \in 1 .. n : \E l \in 1 .. n : p[l] = k,
             \A k, l \in 1 .. n : k # l => p[k] # p[l],
             r = [k \in 1 .. n |-> states[p[k]]],
             \A k \in 1 .. n : k > 1 => named[p[k]] \notin Foregrounds,
             Foregrounds # {} => n > 0 /\ named[p[1]] \in Foregrounds
      PROVE /\ r \in Seq(DesiredAppStates)
            /\ {r[k].app : k \in DOMAIN r} = MentionedApps
            /\ \A k, l \in DOMAIN r : k # l => r[k].app # r[l].app
            /\ \A k \in DOMAIN r : /\ r[k].action = AppAction(r[k].app)
                                   /\ k > 1 => r[k].app \notin Foregrounds
            /\ Foregrounds # {} => r # << >> /\ r[1].app \in Foregrounds
  <2>1. /\ DOMAIN r = 1 .. n
        /\ \A k \in 1 .. n : r[k] = states[p[k]] /\ r[k].app = named[p[k]]
                             /\ r[k].action = AppAction(named[p[k]])
    BY <1>6, <1>8
  <2>2. r \in Seq(DesiredAppStates) /\ Len(r) = n
    <3>1. r \in [1 .. n -> DesiredAppStates]
      <4>1. \A k \in 1 .. n : states[p[k]] \in DesiredAppStates
        BY <1>5, <1>8
      <4> QED
        BY <1>8, <4>1
    <3> QED
      BY <1>3, <3>1
  <2>3. {r[k].app : k \in DOMAIN r} = MentionedApps
    <3>1. \A k \in 1 .. n : r[k].app \in MentionedApps
      <4>1. \A k \in 1 .. n : p[k] \in 1 .. n
        BY <1>8
      <4>2. \A k \in 1 .. n : named[p[k]] \in MentionedApps
        BY <1>3, <4>1
      <4> QED
        BY ONLY <2>1, <4>2
    <3>2. \A a \in MentionedApps : \E k \in 1 .. n : r[k].app = a
      <4> SUFFICES ASSUME NEW a \in MentionedApps
                   PROVE  \E k \in 1 .. n : r[k].app = a
        OBVIOUS
      <4>1. PICK k \in 1 .. n : named[k] = a
        BY <1>4
      <4>2. PICK l \in 1 .. n : p[l] = k
        BY <1>8
      <4> QED
        BY <2>1, <4>1, <4>2
    <3> QED
      BY <2>1, <3>1, <3>2
  <2>4. \A k, l \in 1 .. n : k # l => r[k].app # r[l].app
    <3>1. \A k, l \in 1 .. n : k # l => p[k] # p[l] /\ p[k] \in 1 .. n /\ p[l] \in 1 .. n
      BY ONLY <1>8
    <3>2. \A k, l \in 1 .. n : k # l => named[p[k]] # named[p[l]]
      BY <1>2, <3>1
    <3> QED
      BY <2>1, <3>2
  <2>5. Foregrounds # {} => r # << >> /\ r[1].app \in Foregrounds
    <3>1. Foregrounds # {} => 1 \in 1 .. n /\ n # 0 /\ named[p[1]] \in Foregrounds
      BY <1>3, <1>8
    <3>2. r = << >> => Len(r) = 0
      OBVIOUS
    <3> QED
      BY <2>1, <2>2, <3>1, <3>2
  <2>6. \A k \in 1 .. n : /\ r[k].action = AppAction(r[k].app)
                          /\ k > 1 => r[k].app \notin Foregrounds
    BY <1>8, <2>1
  <2> QED
    BY <2>1, <2>2, <2>3, <2>4, <2>5, <2>6
<1>9. Foregrounds # {} => n > 0
  BY <1>3, <1>4, <1>7
<1>10. CASE Foregrounds = {} \/ Startup(states[1].app) = "foreground"
  <2> DEFINE p == [k \in 1 .. n |-> k]
  <2>1. r = [k \in 1 .. n |-> states[p[k]]]
    <3>1. r = states
      BY <1>0, <1>10 DEF Reordered
    <3> QED
      BY <1>5, <3>1
  <2>2. Foregrounds # {} => named[1] \in Foregrounds
    BY <1>3, <1>6, <1>7, <1>9, <1>10
  <2>3. \A k \in 1 .. n : k > 1 => named[k] \notin Foregrounds
    BY <1>2, <1>3, <1>9, <2>2
  <2>4. /\ p \in [1 .. n -> 1 .. n] /\ \A k \in 1 .. n : p[k] = k
        /\ n > 0 => 1 \in 1 .. n
    BY <1>3
  <2> HIDE DEF p
  <2>5. \A k, l \in 1 .. n : k # l => p[k] # p[l]
    BY <2>4
  <2>6. \A k \in 1 .. n : k > 1 => named[p[k]] \notin Foregrounds
    BY <2>3, <2>4
  <2>7. Foregrounds # {} => n > 0 /\ named[p[1]] \in Foregrounds
    BY <1>9, <2>2, <2>4
  <2> QED
    BY <1>8, <2>1, <2>4, <2>5, <2>6, <2>7
<1>11. CASE ~(Foregrounds = {} \/ Startup(states[1].app) = "foreground")
  <2> DEFINE i == CHOOSE j \in DOMAIN states : states[j].app \in Foregrounds
             p == [k \in 1 .. n |-> IF k = 1 THEN i ELSE IF k = i THEN 1 ELSE k]
  <2>1. i \in 1 .. n /\ named[i] \in Foregrounds
    <3>1. \E j \in DOMAIN states : states[j].app \in Foregrounds
      BY <1>4, <1>6, <1>7, <1>11
    <3> QED
      BY <1>6, <3>1
  <2>2. i # 1
    BY <1>3, <1>6, <1>7, <1>9, <1>11, <2>1
  <2>3. r = [k \in DOMAIN states |-> states[CASE k = 1 -> i [] k = i -> 1 [] OTHER -> k]]
    BY <1>0, <1>11 DEF Reordered
  <2> HIDE DEF i
  <2>4. \A k : (CASE k = 1 -> i [] k = i -> 1 [] OTHER -> k)
               = IF k = 1 THEN i ELSE IF k = i THEN 1 ELSE k
    BY <2>2
  <2>5. r = [k \in 1 .. n |-> states[p[k]]]
    BY <1>6, <2>3, <2>4
  <2>6. p \in [1 .. n -> 1 .. n] /\ n > 0
    BY <1>3, <1>9, <1>11, <2>1
  <2>7. \A k \in 1 .. n : \E l \in 1 .. n : p[l] = k
    BY <1>3, <2>1, <2>6
  <2>8. \A k, l \in 1 .. n : k # l => p[k] # p[l]
    BY <2>1, <2>2
  <2>9. p[1] = i /\ 1 \in 1 .. n
    BY <1>3, <2>6
  <2>10. \A k \in 1 .. n : k > 1 => named[p[k]] \notin Foregrounds
    BY <1>2, <2>1, <2>6, <2>8, <2>9
  <2> HIDE DEF p
  <2> QED
    BY <1>8, <2>1, <2>5, <2>6, <2>7, <2>8, <2>9, <2>10
<1> QED
  BY <1>10, <1>11

\* What a section says does not change while it is applied.
LEMMA SectionStays ==
  ASSUME appSection' = appSection
  PROVE /\ \A a : Entry(a)' = Entry(a) /\ Startup(a)' = Startup(a)
        /\ Foregrounds' = Foregrounds /\ MentionedApps' = MentionedApps
        /\ \A a : appVersion'[a] = appVersion[a] => AppAction(a)' = AppAction(a)
<1>1. \A a : Entry(a)' = Entry(a)
  BY DEF Entry
<1>2. \A a : Startup(a)' = Startup(a)
  BY <1>1 DEF Startup
<1>3. \A a : appVersion'[a] = appVersion[a] => AppAction(a)' = AppAction(a)
  BY <1>1 DEF AppAction
<1> QED
  BY <1>1, <1>2, <1>3 DEF Foregrounds, MentionedApps

\* The apps to come without the first.
LEMMA TodoWithoutFirst ==
  ASSUME AppsInv, appTodo # << >>, NextApp,
         \A i, j \in DOMAIN appTodo : i # j => appTodo[i].app # appTodo[j].app
  PROVE /\ 1 \in DOMAIN appTodo /\ State = appTodo[1] /\ State.app \in Apps
        /\ DOMAIN appTodo' = 1 .. Len(appTodo) - 1
        /\ \A i \in DOMAIN appTodo' : /\ i + 1 \in DOMAIN appTodo /\ i + 1 > 1
                                      /\ appTodo'[i] = appTodo[i + 1]
                                      /\ appTodo'[i].app # State.app
        /\ TodoApps = {State.app} \cup TodoApps'
        /\ appTodo' \in Seq(DesiredAppStates)
<1>1. appTodo \in Seq(DesiredAppStates)
  BY DEF AppsInv, AppsOK
<1>2. Len(appTodo) \in Nat /\ Len(appTodo) > 0 /\ DOMAIN appTodo = 1 .. Len(appTodo)
  BY <1>1
<1>3. appTodo' = Tail(appTodo) /\ State = appTodo[1]
  BY <1>1 DEF NextApp, State
<1>4. /\ appTodo' \in Seq(DesiredAppStates) /\ DOMAIN appTodo' = 1 .. Len(appTodo) - 1
      /\ \A i \in 1 .. Len(appTodo) - 1 : appTodo'[i] = appTodo[i + 1]
  BY <1>1, <1>2, <1>3
<1>5. \A i \in DOMAIN appTodo' : i + 1 \in DOMAIN appTodo /\ i + 1 > 1 /\ i + 1 # 1
  BY <1>2, <1>4
<1>6. 1 \in DOMAIN appTodo
  BY <1>2
<1>7. TodoApps = {State.app} \cup TodoApps'
  <2>1. TodoApps' = {appTodo'[i].app : i \in DOMAIN appTodo'}
    BY DEF TodoApps
  <2>2. \A i \in DOMAIN appTodo : i = 1 \/ (i - 1 \in DOMAIN appTodo' /\ appTodo'[i - 1] = appTodo[i])
    BY <1>2, <1>4
  <2>3. \A i \in DOMAIN appTodo : appTodo[i].app \in {State.app} \cup TodoApps'
    BY <1>3, <2>1, <2>2
  <2>4. \A i \in DOMAIN appTodo' : appTodo'[i].app \in TodoApps
    BY <1>4, <1>5 DEF TodoApps
  <2> QED
    BY <1>3, <1>6, <2>1, <2>3, <2>4 DEF TodoApps
<1> QED
  BY <1>3, <1>4, <1>5, <1>6, <1>7, AppTypes

\* An app's operation ends: it is done, or an error is noted.
LEMMA NextAppOK ==
  ASSUME AppsInv, part = "apps", at = "apply", step \in {"app", "install", "startup"},
         appTodo # << >>, NextApp, at' = "apply", step' = "app",
         UNCHANGED <<appSection, deployment>>, ~errors' => ~errors,
         NEW h, h = State.app,
         \A a \in Apps \ {h} : /\ appVersion'[a] = appVersion[a]
                               /\ a \in backgroundApps' <=> a \in backgroundApps,
         foregroundApp' = foregroundApp \/ foregroundApp' \in Foregrounds,
         ~errors' /\ h \in Foregrounds => foregroundApp' = h,
         ~errors' => AppDone(h)'
  PROVE AppProgressInv'
<1>1. AppProgressInv /\ appSection.kind = "good" /\ TodoInv /\ ForegroundInv
  BY DEF AppsInv, AppProgressInv
<1>2. \A i, j \in DOMAIN appTodo : i # j => appTodo[i].app # appTodo[j].app
  BY <1>1 DEF TodoInv
<1>3. /\ 1 \in DOMAIN appTodo /\ State = appTodo[1] /\ State.app \in Apps
      /\ DOMAIN appTodo' = 1 .. Len(appTodo) - 1
      /\ \A i \in DOMAIN appTodo' : /\ i + 1 \in DOMAIN appTodo /\ i + 1 > 1
                                    /\ appTodo'[i] = appTodo[i + 1]
                                    /\ appTodo'[i].app # State.app
      /\ TodoApps = {State.app} \cup TodoApps'
      /\ appTodo' \in Seq(DesiredAppStates)
  BY <1>2, TodoWithoutFirst
<1>4. \A i \in DOMAIN appTodo' : appTodo'[i].app \in Apps \ {h}
  BY <1>3, AppTypes
<1>5. TodoInv'
  <2>1. \A i \in DOMAIN appTodo' : /\ appTodo'[i].action = AppAction(appTodo'[i].app)
                                   /\ appTodo'[i].app \notin Foregrounds
                                   /\ Entry(appTodo'[i].app).mentioned
    BY <1>1, <1>3 DEF TodoInv
  <2>2. \A a \in Apps \ {h} : AppAction(a)' = AppAction(a)
    BY SectionStays
  <2>3. \A i, j \in DOMAIN appTodo' : i # j => appTodo'[i].app # appTodo'[j].app
    <3>1. \A i, j \in DOMAIN appTodo' : i # j => i + 1 # j + 1
      BY <1>3, AppTypes
    <3> QED
      BY <1>2, <1>3, <3>1
  <2> QED
    BY <1>4, <2>1, <2>2, <2>3, SectionStays DEF TodoInv
<1>6. ForegroundInv'
  <2>1. \A a \in Foregrounds : Entry(a).version # 0 /\ Startup(a) # "none"
    BY DEF Foregrounds, Startup
  <2> QED
    BY <1>1, <2>1, SectionStays DEF ForegroundInv
<1>7. ASSUME ~errors' PROVE AppsDone'
  <2>1. AppsDone
    BY <1>1, <1>7 DEF AppProgressInv
  <2>2. ASSUME NEW a \in MentionedApps \ TodoApps' PROVE AppDone(a)'
    <3>1. CASE a = h
      BY <1>7, <3>1
    <3>2. CASE a # h
      <4>1. AppDone(a) /\ a \in Apps \ {h}
        BY <1>3, <2>1, <2>2, <3>2 DEF AppsDone, MentionedApps
      <4> QED
        BY <4>1, SectionStays DEF AppDone
    <3> QED
      BY <3>1, <3>2
  <2>3. Foregrounds = {} \/ foregroundApp' \in Foregrounds
    <3>1. CASE foregroundApp' \in Foregrounds
      BY <3>1
    <3>2. CASE State.app \in Foregrounds
      BY <1>7, <3>2
    <3>3. CASE foregroundApp' = foregroundApp /\ State.app \notin Foregrounds
      BY <2>1, <3>3 DEF AppsDone
    <3> QED
      BY <3>1, <3>2, <3>3
  <2> QED
    BY <2>2, <2>3, SectionStays DEF AppsDone
<1>8. TreatedInv'
  BY DEF TreatedInv
<1> QED
  BY <1>1, <1>5, <1>6, <1>7, <1>8 DEF AppProgressInv, Applied

\* An app's operation goes on.
LEMMA SameAppOK ==
  ASSUME AppsInv, part = "apps", at = "apply", step \in {"app", "install"}, appTodo # << >>,
         at' = "apply", step' \in {"install", "startup"},
         UNCHANGED <<appSection, deployment, errors, appTodo, foregroundApp, backgroundApps>>,
         \A a \in Apps \ {State.app} : appVersion'[a] = appVersion[a],
         TreatedInv'
  PROVE AppProgressInv'
<1>1. AppProgressInv /\ appSection.kind = "good" /\ TodoInv /\ ForegroundInv
  BY DEF AppsInv, AppProgressInv
<1>2. State = appTodo[1] /\ 1 \in DOMAIN appTodo /\ TodoApps' = TodoApps /\ State' = State
      /\ DOMAIN appTodo = 1 .. Len(appTodo) /\ Len(appTodo) \in Nat
  <2>1. appTodo \in Seq(DesiredAppStates)
    BY DEF AppsInv, AppsOK
  <2> QED
    BY <2>1 DEF State, TodoApps
<1>3. State.app \in TodoApps
  BY <1>2 DEF TodoApps
<1>4. TodoInv'
  <2>1. \A i \in DOMAIN appTodo : i > 1 => appTodo[i].app \in Apps \ {State.app}
    BY <1>1, <1>2, AppTypes DEF TodoInv
  <2>2. \A i \in DOMAIN appTodo : i > 1 => appTodo[i].action = AppAction(appTodo[i].app)'
    BY <1>1, <2>1, SectionStays DEF TodoInv
  <2> QED
    BY <1>1, <2>2, SectionStays DEF TodoInv
<1>5. ForegroundInv'
  BY <1>1, SectionStays DEF ForegroundInv
<1>6. ~errors' => AppsDone'
  <2>1. ~errors => AppsDone
    BY <1>1 DEF AppProgressInv
  <2>2. \A a \in MentionedApps \ TodoApps : AppDone(a) => AppDone(a)'
    BY <1>3, SectionStays DEF AppDone, MentionedApps
  <2> QED
    BY <1>2, <2>1, <2>2, SectionStays DEF AppsDone
<1> QED
  BY <1>1, <1>4, <1>5, <1>6 DEF AppProgressInv, Applied

LEMMA AppsStepOK ==
  ASSUME AppsInv, AppsStep, part = "apps"
  PROVE AppsOK' /\ AppProgressInv' /\ RemovesForegroundLast
<1>1. AppsOK /\ AppProgressInv
  BY DEF AppsInv
<1> DEFINE h == State.app
           Kept == appVersion' = appVersion
<1>2. Kept => RemovesForegroundLast
  BY DEF RemovesForegroundLast
<1>3. ASSUME UNCHANGED uwpApps
      PROVE AppsOK' /\ RemovesForegroundLast
  <2>1. UNCHANGED <<appVersion, foregroundApp, backgroundApps, appSection, appTodo, notFound>>
    BY <1>3 DEF uwpApps
  <2> QED
    BY <1>1, <1>2, <2>1 DEF AppsOK
<1>4. CASE InvokeApps
  <2>1. Kept /\ UNCHANGED <<foregroundApp, backgroundApps>> /\ appSection' \in AppSections
        /\ appTodo' = << >> /\ notFound' = FALSE
    BY <1>4 DEF InvokeApps, appDevice
  <2>2. appTodo' \in Seq(DesiredAppStates)
    BY <2>1
  <2>3. AppsOK'
    BY <1>1, <2>1, <2>2 DEF AppsOK
  <2>4. /\ appSection'.kind = "good" => at' = "apply" /\ step' = "validate"
                                        /\ deployment' = "pending"
        /\ appSection'.kind # "good" => at' = "finalize"
    BY <1>4 DEF InvokeApps, Invoke, Begin
  <2>5. at' = "apply" => TodoInv' /\ TreatedInv'
    <3>1. DOMAIN appTodo' = {}
      BY <2>1
    <3>2. at' = "apply" => step' = "validate"
      BY <2>4
    <3> QED
      BY <3>1, <3>2 DEF TodoInv, TreatedInv
  <2> QED
    BY <1>2, <2>1, <2>3, <2>4, <2>5 DEF AppProgressInv, Applied
<1>5. CASE ReorderAndValidate
  <2>1. /\ at = "apply" /\ step = "validate" /\ at' = "apply" /\ step' = "app"
        /\ Kept /\ UNCHANGED <<foregroundApp, backgroundApps, appSection, notFound, deployment>>
        /\ \/ /\ Valid /\ errors' = errors
              /\ \E named \in InOrderOf(AppOrder, MentionedApps) :
                   appTodo' = Reordered(DesiredStates(named))
           \/ errors' /\ appTodo' = appTodo
    BY <1>5 DEF ReorderAndValidate, appDevice, At, Go, Throw, FailTo, Move, MentionedApps
  <2>2. appSection.kind = "good" /\ deployment = "pending" /\ appTodo = << >>
    BY <1>1, <2>1 DEF AppProgressInv
  <2>3. CASE errors' /\ appTodo' = appTodo
    <3>1. AppsOK'
      BY <1>1, <2>1, <2>3 DEF AppsOK
    <3>2. DOMAIN appTodo' = {}
      BY <2>2, <2>3
    <3>3. TodoInv' /\ TreatedInv'
      BY <2>1, <3>2 DEF TodoInv, TreatedInv
    <3> QED
      BY <1>2, <2>1, <2>2, <2>3, <3>1, <3>3 DEF AppProgressInv, Applied
  <2>4. ASSUME Valid, NEW named \in InOrderOf(AppOrder, MentionedApps),
               appTodo' = Reordered(DesiredStates(named))
        PROVE AppsOK' /\ AppProgressInv'
    <3>1. ForegroundInv
      BY <2>4 DEF Valid, GetStartupApp, ForegroundInv
    <3>2. PICK r : r = appTodo'
      OBVIOUS
    <3>3. /\ r \in Seq(DesiredAppStates)
          /\ {r[k].app : k \in DOMAIN r} = MentionedApps
          /\ \A k, l \in DOMAIN r : k # l => r[k].app # r[l].app
          /\ \A k \in DOMAIN r : /\ r[k].action = AppAction(r[k].app)
                                 /\ k > 1 => r[k].app \notin Foregrounds
          /\ Foregrounds # {} => r # << >> /\ r[1].app \in Foregrounds
      BY <2>2, <2>4, <3>1, <3>2, ReorderedOK DEF ForegroundInv
    <3>4. AppsOK'
      BY <1>1, <2>1, <3>2, <3>3 DEF AppsOK
    <3>5. TodoInv'
      <4>1. \A k \in DOMAIN r : r[k].app \in Apps /\ Entry(r[k].app).mentioned
        BY <3>3 DEF MentionedApps
      <4>2. \A a \in Apps : AppAction(a)' = AppAction(a)
        BY <2>1, SectionStays
      <4>3. \A a : Entry(a)' = Entry(a)
        BY <2>1, SectionStays
      <4> QED
        BY <2>1, <3>2, <3>3, <4>1, <4>2, <4>3, SectionStays DEF TodoInv
    <3>6. ForegroundInv'
      BY <2>1, <3>1, SectionStays DEF ForegroundInv
    <3>7. AppsDone'
      <4>1. TodoApps' = MentionedApps'
        BY <2>1, <3>2, <3>3, SectionStays DEF TodoApps
      <4>2. Foregrounds # {} => appTodo' # << >> /\ State'.app \in Foregrounds
        <5>1. State' = r[1]
          BY <3>2, <3>3 DEF State
        <5> QED
          BY <3>2, <3>3, <5>1
      <4> QED
        BY <2>1, <4>1, <4>2, SectionStays DEF AppsDone
    <3>8. TreatedInv'
      BY <2>1 DEF TreatedInv
    <3> QED
      BY <2>1, <2>2, <3>4, <3>5, <3>6, <3>7, <3>8 DEF AppProgressInv, Applied
  <2> QED
    BY <1>2, <2>1, <2>3, <2>4
<1>6. ASSUME at = "apply", appTodo # << >>, step # "validate"
      PROVE /\ appSection.kind = "good" /\ TodoInv /\ TreatedInv /\ ForegroundInv
            /\ State = appTodo[1] /\ 1 \in DOMAIN appTodo /\ h \in Apps
            /\ Entry(h).version \in Versions /\ Entry(h).version \in Nat
            /\ appVersion[h] \in Nat /\ Entry(h).mentioned
            /\ step = "app" => State.action = AppAction(h)
            /\ Tail(appTodo) \in Seq(DesiredAppStates)
  <2>1. appSection.kind = "good" /\ TodoInv /\ TreatedInv /\ ForegroundInv
    BY <1>1, <1>6 DEF AppProgressInv
  <2>2. State = appTodo[1] /\ 1 \in DOMAIN appTodo /\ Tail(appTodo) \in Seq(DesiredAppStates)
    BY <1>1, <1>6 DEF State, AppsOK
  <2> QED
    BY <2>1, <2>2, AppTypes DEF TodoInv
<1>7. CASE UninstallApp
  <2>1. /\ at = "apply" /\ step = "app" /\ appTodo # << >>
        /\ State.action \in {"uninstall", "downgrade"} /\ at' = "apply"
        /\ UNCHANGED <<foregroundApp, backgroundApps, appSection, notFound, deployment>>
        /\ \/ /\ appVersion' = [appVersion EXCEPT ![h] = 0] /\ errors' = errors
              /\ \/ State.action = "uninstall" /\ NextApp /\ step' = "app"
                 \/ State.action # "uninstall" /\ appTodo' = appTodo /\ step' = "install"
           \/ errors' /\ step' = "app" /\ NextApp /\ Kept
    BY <1>7 DEF UninstallApp, Treating, At, Go, FailTo, Move
  <2>2. Entry(h).version = 0 <=> State.action = "uninstall"
    BY <1>6, <2>1, AppActionIs
  <2>3. appVersion' \in [Apps -> Versions] /\ \A a \in Apps \ {h} : appVersion'[a] = appVersion[a]
    <3>1. 0 \in Versions
      BY AppsParametersOK DEF Versions
    <3> QED
      BY <1>1, <2>1, <3>1 DEF AppsOK
  <2>4. AppsOK'
    BY <1>1, <1>6, <2>1, <2>3 DEF AppsOK, NextApp
  <2>5. RemovesForegroundLast
    <3>1. CASE State.action # "uninstall"
      BY <1>6, <2>1, <2>2, <2>3, <3>1 DEF RemovesForegroundLast
    <3>2. CASE State.action = "uninstall"
      <4>1. h \notin Foregrounds
        BY <2>2, <3>2 DEF Foregrounds, Startup
      <4>2. \A i \in DOMAIN appTodo : appTodo[i].app \notin Foregrounds
        <5>1. \A i \in DOMAIN appTodo : i = 1 \/ i > 1
          BY AppTypes
        <5> QED
          BY <1>6, <2>1, <4>1, <5>1 DEF TodoInv
      <4>3. h = foregroundApp => Foregrounds \ {h} # {}
        BY <1>6, <2>1, <2>2, <3>2, <4>1 DEF ForegroundInv
      <4> QED
        BY <2>3, <4>2, <4>3 DEF RemovesForegroundLast
    <3> QED
      BY <3>1, <3>2
  <2>6. CASE step' = "install" /\ appTodo' = appTodo
    <3>1. TreatedInv'
      <4>1. State' = State /\ Entry(h)' = Entry(h)
        BY <2>1, <2>6 DEF State, Entry
      <4> QED
        BY <1>6, <2>1, <2>2, <2>6, <4>1 DEF TreatedInv
    <3> QED
      BY <2>1, <2>3, <2>4, <2>5, <2>6, <3>1, SameAppOK
  <2>7. CASE step' = "app" /\ NextApp
    <3>1. PICK g : g = h
      OBVIOUS
    <3>2. ~errors' => AppDone(g)'
      <4>1. ~errors' => appVersion'[g] = 0 /\ Entry(g).version = 0
        BY <1>1, <1>6, <2>1, <2>2, <2>7, <3>1 DEF AppsOK
      <4> QED
        BY <2>1, <4>1, SectionStays DEF AppDone, Startup
    <3>3. g \notin Foregrounds \/ errors'
      BY <2>1, <2>2, <2>7, <3>1 DEF Foregrounds, Startup
    <3> QED
      BY <2>1, <2>3, <2>4, <2>5, <2>7, <3>1, <3>2, <3>3, NextAppOK
  <2> QED
    BY <2>1, <2>6, <2>7
<1>8. CASE NoUninstall
  <2>1. /\ at = "apply" /\ step = "app" /\ appTodo # << >>
        /\ State.action \in {"install", "upgrade", "query"} /\ at' = "apply"
        /\ step' = IF State.action = "query" THEN "startup" ELSE "install"
        /\ UNCHANGED <<errors, deployment, uwpApps>>
    BY <1>8 DEF NoUninstall, Treating, At, Go, Move
  <2>2. UNCHANGED <<appVersion, foregroundApp, backgroundApps, appSection, appTodo>>
    BY <2>1 DEF uwpApps
  <2>3. TreatedInv'
    <3>1. State' = State /\ Entry(h)' = Entry(h)
      BY <2>2 DEF State, Entry
    <3>2. Entry(h).version > 0 /\ (State.action = "query" => appVersion[h] = Entry(h).version)
      BY <1>6, <2>1, AppActionIs
    <3> QED
      BY <2>1, <2>2, <3>1, <3>2 DEF TreatedInv
  <2> QED
    BY <1>3, <2>1, <2>2, <2>3, SameAppOK
<1>9. CASE NoConnectionString
  <2>1. /\ at = "apply" /\ step = "install" /\ at' = "apply" /\ step' = "app"
        /\ errors' /\ NextApp /\ Kept
        /\ UNCHANGED <<foregroundApp, backgroundApps, appSection, notFound, deployment>>
    BY <1>9 DEF NoConnectionString, At, Throw, Move, appDevice
  <2>2. appTodo # << >>
    BY <1>1, <2>1 DEF AppProgressInv, TreatedInv
  <2>3. AppsOK'
    BY <1>1, <1>6, <2>1, <2>2 DEF AppsOK, NextApp
  <2>4. PICK g : g = h
    OBVIOUS
  <2> QED
    BY <1>2, <2>1, <2>2, <2>3, <2>4, NextAppOK
<1>10. CASE InstallApp
  <2>1. /\ at = "apply" /\ step = "install" /\ at' = "apply"
        /\ UNCHANGED <<foregroundApp, backgroundApps, appSection, notFound, deployment>>
        /\ \/ Kept
           \/ /\ Entry(h).ownPackage
              /\ appVersion' = [appVersion EXCEPT ![h] = Entry(h).version]
        /\ \/ /\ step' = "startup" /\ errors' = errors /\ appTodo' = appTodo
              /\ Entry(h).ownPackage => appVersion' = [appVersion EXCEPT ![h] = Entry(h).version]
           \/ step' = "app" /\ errors' /\ NextApp
    BY <1>10 DEF InstallApp, At, Go, FailTo, Move
  <2>2. appTodo # << >> /\ Entry(h).version > 0
    BY <1>1, <2>1 DEF AppProgressInv, TreatedInv
  <2>3. /\ appVersion' \in [Apps -> Versions]
        /\ \A a \in Apps \ {h} : appVersion'[a] = appVersion[a]
        /\ appVersion'[h] \in {appVersion[h], Entry(h).version}
        /\ Entry(h).ownPackage /\ step' = "startup" => appVersion'[h] = Entry(h).version
    BY <1>1, <1>6, <2>1, <2>2 DEF AppsOK
  <2>4. AppsOK'
    BY <1>1, <1>6, <2>1, <2>2, <2>3 DEF AppsOK, NextApp
  <2>5. RemovesForegroundLast
    BY <1>6, <2>1, <2>2, <2>3 DEF RemovesForegroundLast
  <2>6. CASE step' = "startup" /\ errors' = errors /\ appTodo' = appTodo
    <3>1. TreatedInv'
      <4>1. State' = State /\ Entry(h)' = Entry(h)
        BY <2>1, <2>6 DEF State, Entry
      <4> QED
        BY <2>2, <2>3, <2>6, <4>1 DEF TreatedInv
    <3> QED
      BY <2>1, <2>2, <2>3, <2>4, <2>5, <2>6, <3>1, SameAppOK
  <2>7. CASE step' = "app" /\ errors' /\ NextApp
    <3>1. PICK g : g = h
      OBVIOUS
    <3> QED
      BY <2>1, <2>2, <2>3, <2>4, <2>5, <2>7, <3>1, NextAppOK
  <2> QED
    BY <2>1, <2>6, <2>7
<1>11. CASE ApplyStartup
  <2>1. /\ at = "apply" /\ step = "startup" /\ at' = "apply" /\ step' = "app"
        /\ NextApp /\ Kept /\ UNCHANGED <<appSection, deployment>>
        /\ \/ errors' = errors /\ UpdateAppStartup(h)
           \/ errors' /\ UNCHANGED <<foregroundApp, backgroundApps>>
        /\ notFound' \in {notFound, notFound \/ appVersion[h] = 0}
    BY <1>11 DEF ApplyStartup, At, Go, FailTo, Move
  <2>2. /\ appTodo # << >>
        /\ Entry(h).ownPackage => appVersion[h] = Entry(h).version
    BY <1>1, <2>1 DEF AppProgressInv, TreatedInv
  <2>3. /\ foregroundApp' = foregroundApp \/ (Startup(h) = "foreground" /\ foregroundApp' = h)
        /\ \A a \in Apps \ {h} : a \in backgroundApps' <=> a \in backgroundApps
        /\ backgroundApps' \subseteq backgroundApps \cup {h}
        /\ ~errors' => /\ Startup(h) = "foreground" => foregroundApp' = h
                       /\ Startup(h) = "background" => h \in backgroundApps'
                       /\ Startup(h) = "none" => h \notin backgroundApps'
    BY <2>1 DEF UpdateAppStartup
  <2>4. AppsOK'
    BY <1>1, <1>6, <2>1, <2>2, <2>3 DEF AppsOK, NextApp
  <2>5. PICK g : g = h
    OBVIOUS
  <2>6. ~errors' => AppDone(g)'
    BY <2>1, <2>2, <2>3, <2>5, SectionStays DEF AppDone
  <2>7. /\ foregroundApp' = foregroundApp \/ foregroundApp' \in Foregrounds
        /\ ~errors' /\ g \in Foregrounds => foregroundApp' = g
    BY <1>6, <2>1, <2>2, <2>3, <2>5 DEF Foregrounds
  <2>8. ~errors' => ~errors
    BY <2>1
  <2> QED
    BY <1>2, <2>1, <2>2, <2>3, <2>4, <2>5, <2>6, <2>7, <2>8, NextAppOK
<1>12. ASSUME UNCHANGED uwpApps
       PROVE /\ ForegroundInv' = ForegroundInv /\ AppsDone' = AppsDone
             /\ appSection' = appSection /\ appTodo' = appTodo
  <2>1. UNCHANGED <<appVersion, foregroundApp, backgroundApps, appSection, appTodo>>
    BY <1>12 DEF uwpApps
  <2>2. \A a : AppDone(a)' = AppDone(a)
    BY <2>1, SectionStays DEF AppDone
  <2>3. State' = State /\ TodoApps' = TodoApps
    BY <2>1 DEF State, TodoApps
  <2> QED
    BY <2>1, <2>2, <2>3, SectionStays DEF ForegroundInv, AppsDone
<1>13. CASE ReportApps
  <2>1. UNCHANGED <<uwpApps, deployment>> /\ at = "apply" /\ step = "app" /\ appTodo = << >>
        /\ at' = "finalize" /\ (~errors' => ~errors)
    BY <1>13 DEF ReportApps, Leave, At
  <2>2. ~errors => ForegroundInv /\ AppsDone
    BY <1>1, <2>1 DEF AppProgressInv
  <2>3. deployment = "pending"
    BY <1>1, <2>1 DEF AppProgressInv
  <2> QED
    BY <1>3, <1>12, <2>1, <2>2, <2>3 DEF AppProgressInv, Applied
<1>14. CASE ReportEndsHost \/ ((FinalizeAndReport \/ HostEnds) /\ UNCHANGED uwpApps)
  <2>1. UNCHANGED uwpApps /\ at' = "idle"
    BY <1>14 DEF ReportEndsHost, FinalizeAndReport, HostEnds, Return
  <2>2. ASSUME deployment' = "succeeded", appSection.kind = "good"
        PROVE ForegroundInv /\ AppsDone /\ appTodo = << >>
    <3>1. \/ at = "finalize" /\ ~errors
          \/ deployment = "succeeded"
      BY <1>14, <2>2 DEF ReportEndsHost, FinalizeAndReport, HostEnds, Return
    <3>2. (at = "finalize" /\ ~errors) \/ Applied
      BY <1>1, <2>2, <3>1 DEF AppProgressInv, Applied
    <3> QED
      BY <1>1, <2>2, <3>2 DEF AppProgressInv
  <2> QED
    BY <1>3, <1>12, <2>1, <2>2 DEF AppProgressInv, Applied
<1> QED
  BY <1>4, <1>5, <1>7, <1>8, <1>9, <1>10, <1>11, <1>13, <1>14 DEF AppsStep

LEMMA AppsNext ==
  AppsInv /\ [Next]_pluginVars => AppsInv' /\ [RemovesForegroundLast]_uwpApps
<1> SUFFICES ASSUME AppsInv, [Next]_pluginVars
             PROVE AppsInv' /\ [RemovesForegroundLast]_uwpApps
  OBVIOUS
<1>1. CASE part = "apps" /\ AppsStep /\ UNCHANGED part
  BY <1>1, AppsStepOK DEF AppsInv
<1>2. CASE part # "apps" /\ UNCHANGED <<part, uwpApps>>
  BY <1>2 DEF AppsInv, AppsOK, uwpApps
<1>3. CASE UNCHANGED <<part, frame, uwpApps>>
  <2>1. UNCHANGED <<appVersion, foregroundApp, backgroundApps, appSection, appTodo, notFound,
                    at, step, errors, deployment>>
    BY <1>3 DEF uwpApps, frame
  <2>2. \A a : AppDone(a)' = AppDone(a) /\ AppAction(a)' = AppAction(a)
    BY <2>1, SectionStays DEF AppDone, AppAction, Entry
  <2>3. State' = State /\ TodoApps' = TodoApps
    BY <2>1 DEF State, TodoApps
  <2>4. AppsDone' = AppsDone /\ ForegroundInv' = ForegroundInv /\ TodoInv' = TodoInv
        /\ TreatedInv' = TreatedInv
    BY <2>1, <2>2, <2>3, SectionStays DEF AppsDone, ForegroundInv, TodoInv, TreatedInv
  <2>5. AppsOK'
    BY <2>1 DEF AppsInv, AppsOK
  <2> QED
    BY <1>3, <2>1, <2>4, <2>5 DEF AppsInv, AppProgressInv, Applied
<1>4. \/ part = "apps" /\ AppsStep /\ UNCHANGED part
      \/ part # "apps" /\ UNCHANGED <<part, uwpApps>>
      \/ UNCHANGED <<part, frame, uwpApps>>
  BY DEF Next, pluginVars, handlerVars
<1> QED
  BY <1>1, <1>2, <1>3, <1>4

LEMMA AppsInvImplies == AppsInv => AppsApplied
<1> SUFFICES ASSUME AppsInv, Applied, appSection.kind = "good" PROVE AppsApplied
  BY DEF AppsApplied
<1>1. ForegroundInv /\ AppsDone /\ appTodo = << >>
  BY DEF AppsInv, AppProgressInv
<1>2. TodoApps = {}
  BY <1>1 DEF TodoApps
<1>3. ASSUME NEW a \in Apps, Entry(a).mentioned
      PROVE /\ AppDone(a)
            /\ Startup(a) = "foreground" => foregroundApp = a
            /\ Startup(a) = "none" => foregroundApp # a
  <2>1. AppDone(a)
    BY <1>1, <1>2, <1>3 DEF AppsDone, MentionedApps
  <2>2. Foregrounds = {} \/ foregroundApp \in Foregrounds
    BY <1>1 DEF AppsDone
  <2>3. Startup(a) = "foreground" <=> a \in Foregrounds
    BY <1>3 DEF Foregrounds
  <2>4. Startup(a) = "foreground" => foregroundApp = a
    BY <1>1, <2>2, <2>3 DEF ForegroundInv
  <2>5. Startup(a) = "none" => foregroundApp # a
    <3>1. ASSUME Startup(a) = "none", foregroundApp = a PROVE FALSE
      BY <1>1, <1>3, <2>2, <2>3, <3>1 DEF ForegroundInv
    <3> QED
      BY <3>1
  <2> QED
    BY <2>1, <2>4, <2>5
<1> QED
  BY <1>3 DEF AppDone, AppsApplied

\* When success is reported the packages have the versions asked for and the
\* lists of startup apps are as asked for, whatever was installed before and
\* whichever apps failed in earlier invocations.
\* (UwpAppManagementHandler::Invoke, ModifyApplicationHandler.)
THEOREM SuccessMeansInstalled == Spec => []AppsApplied
<1>1. AppsInv /\ [Next]_pluginVars => AppsInv'
  BY AppsNext
<1> QED
  BY <1>1, AppsStart, AppsInvImplies, PTL DEF Spec

\* The foreground app's package is removed for its own downgrade, or after the
\* new foreground app has had its turn, however the section lists them.
\* (UwpAppManagementHandler::ReorderAndValidate, UninstallApp.)
THEOREM ForegroundGoesLast == Spec => ForegroundRemovedLast
  BY AppsStart, AppsNext, PTL DEF Spec, ForegroundRemovedLast

-----------------------------------------------------------------------------
(* The certificates *)

Visits == {certTodo.visit[i] : i \in DOMAIN certTodo.visit}
Removals == {certTodo.uninstall[i] : i \in DOMAIN certTodo.uninstall}
Additions == {certTodo.install[i].thumbprint : i \in DOMAIN certTodo.install}

EntryOf(s, t) == certSection.certs[s][t]

\* The blob of an entry to install holds certificate t.
Delivers(e, t) == e.state = "installed" /\ e.blob # "none" /\ HeldBy[e.blob] = t
Delivered(s) == {t \in Thumbprints : \E u \in Thumbprints : Delivers(EntryOf(s, u), t)}

StoreDone(s) ==
    \A t \in Thumbprints :
       /\ EntryOf(s, t).state = "uninstalled" => t \notin certStores[s] \/ t \in Delivered(s)
       /\ Delivers(EntryOf(s, t), t) => t \in certStores[s]

\* What is left to do for the store makes the entry true.
EntryDone(t) ==
    /\ Entries[t].state = "uninstalled" =>
         t \notin certStores[Store] \/ t \in Removals \/ t \in Delivered(Store)
    /\ Delivers(Entries[t], t) => t \in certStores[Store] \/ t \in Additions

NotVisited == IF step = "readStore" THEN Mentioned ELSE Visits

\* What is left to do for the store is what the section says, and each list is
\* dealt with before the next.
CertTodoInv ==
    /\ step = "readStore" => certTodo.visit = << >>
    /\ step = "readStore" => certTodo.install = << >>
    /\ step \in {"uninstall", "install"} => certTodo.visit = << >>
    /\ step \in {"readStore", "install"} => certTodo.uninstall = << >>
    /\ \A t \in Removals : Entries[t].state = "uninstalled"
    /\ Additions \subseteq Delivered(Store)

\* The list to report holds installed certificates only, and none of those that
\* are still to be removed.
CertInstalledInv ==
    /\ \A s \in Stores : certInstalled[s] \subseteq certStores[s]
    /\ \A i \in DOMAIN StoreOrder : i > certStore => certInstalled[StoreOrder[i]] = {}
    /\ step \in {"readStore", "visit", "uninstall"} =>
         \A t \in certInstalled[Store] : Entries[t].state = "installed"

CertProgressInv ==
    /\ at \in {"idle", "apply", "finalize"}
    /\ at \in {"apply", "finalize"} /\ certSection.kind = "good" => deployment = "pending"
    /\ at = "apply" =>
         /\ certSection.kind = "good" /\ step \in {"readStore", "visit", "uninstall", "install"}
         /\ certReported = NoCertificates
         /\ CertTodoInv /\ CertInstalledInv
    /\ at = "apply" /\ ~errors =>
         /\ \A i \in DOMAIN StoreOrder : i < certStore => StoreDone(StoreOrder[i])
         /\ \A t \in Thumbprints \ NotVisited : EntryDone(t)
    /\ ((at = "finalize" /\ ~errors) \/ Applied) /\ certSection.kind = "good" =>
         \A s \in Stores : StoreDone(s)

CertsInv ==
    /\ CertificatesOK
    /\ \A s \in Stores \ {MySystem} : certReported[s] \subseteq certStores[s]
    /\ part = "certificates" => CertProgressInv
    /\ part # "certificates" => certSection.kind # "good"

\* SetToSeq lists every member.
LEMMA ListedAll ==
  ASSUME NEW S, IsFiniteSet(S), NEW q, q = SetToSeq(S)
  PROVE q \in Seq(S) /\ {q[i] : i \in DOMAIN q} = S
<1> DEFINE n == Cardinality(S)
<1>1. n \in Nat /\ ExistsBijection(1 .. n, S)
  BY FS_CardinalityType
<1>2. \E f \in [1 .. n -> S] : IsInjective(f)
  BY <1>1 DEF ExistsBijection, Bijection, Injection
<1>3. q \in [1 .. n -> S] /\ IsInjective(q)
  BY <1>2 DEF SetToSeq
<1>4. IsFiniteSet(1 .. n) /\ Cardinality(1 .. n) = n
  BY <1>1, FS_Interval
<1>5. q \in Injection(1 .. n, S)
  BY <1>3 DEF Injection
<1>6. q \in Surjection(1 .. n, S)
  BY <1>4, <1>5, FS_Injection
<1>7. q \in Seq(S) /\ DOMAIN q = 1 .. n
  BY <1>1, <1>3
<1> HIDE DEF n
<1> QED
  BY <1>3, <1>6, <1>7 DEF Surjection

\* The first of a list and the others.
LEMMA FirstAndOthers ==
  ASSUME NEW T, NEW s \in Seq(T), s # << >>
  PROVE /\ Tail(s) \in Seq(T) /\ Head(s) = s[1] /\ 1 \in DOMAIN s /\ Head(s) \in T
        /\ \A i \in DOMAIN s : i = 1 \/ (i - 1 \in DOMAIN Tail(s) /\ Tail(s)[i - 1] = s[i])
        /\ \A i \in DOMAIN Tail(s) : i + 1 \in DOMAIN s /\ Tail(s)[i] = s[i + 1]
<1>1. Len(s) \in Nat /\ Len(s) > 0 /\ DOMAIN s = 1 .. Len(s)
  OBVIOUS
<1>2. /\ Tail(s) \in Seq(T) /\ DOMAIN Tail(s) = 1 .. Len(s) - 1
      /\ \A i \in 1 .. Len(s) - 1 : Tail(s)[i] = s[i + 1]
  BY <1>1
<1>3. \A i \in 1 .. Len(s) : i = 1 \/ (i - 1 \in 1 .. Len(s) - 1 /\ (i - 1) + 1 = i)
  BY <1>1
<1>4. \A i \in 1 .. Len(s) - 1 : i + 1 \in 1 .. Len(s)
  BY <1>1
<1>5. Head(s) = s[1] /\ s[1] \in T
  BY <1>1
<1> QED
  BY <1>1, <1>2, <1>3, <1>4, <1>5

LEMMA ListWithOneMore ==
  ASSUME NEW T, NEW s \in Seq(T), NEW x \in T, NEW q, q = Append(s, x)
  PROVE /\ q \in Seq(T)
        /\ \A i \in DOMAIN s : i \in DOMAIN q /\ q[i] = s[i]
        /\ \E i \in DOMAIN q : q[i] = x
        /\ \A i \in DOMAIN q : q[i] = x \/ (i \in DOMAIN s /\ q[i] = s[i])
<1>1. Len(s) \in Nat /\ DOMAIN s = 1 .. Len(s)
  OBVIOUS
<1>2. q \in Seq(T) /\ DOMAIN q = 1 .. Len(s) + 1 /\ q[Len(s) + 1] = x
      /\ \A i \in 1 .. Len(s) : q[i] = s[i]
  BY <1>1
<1>3. \A i \in 1 .. Len(s) + 1 : i = Len(s) + 1 \/ i \in 1 .. Len(s)
  BY <1>1
<1>4. Len(s) + 1 \in 1 .. Len(s) + 1 /\ \A i \in 1 .. Len(s) : i \in 1 .. Len(s) + 1
  BY <1>1
<1> QED
  BY <1>1, <1>2, <1>3, <1>4

LEMMA StoresAre ==
  /\ \A i \in DOMAIN StoreOrder : StoreOrder[i] \in Stores
  /\ \A s \in Stores : \E i \in DOMAIN StoreOrder : s = StoreOrder[i]
  /\ \A i, j \in DOMAIN StoreOrder : i # j => StoreOrder[i] # StoreOrder[j]
  /\ DOMAIN StoreOrder = 1 .. Len(StoreOrder) /\ Len(StoreOrder) \in Nat
  /\ 1 \in DOMAIN StoreOrder
<1>1. StoreOrder \in Seq(Stores) /\ IsInjective(StoreOrder) /\ Stores = ToSet(StoreOrder)
      /\ MyUser \in Stores
  BY CertificatesParametersOK DEF Stores
<1>2. \A s \in Stores : \E i \in DOMAIN StoreOrder : s = StoreOrder[i]
  BY <1>1 DEF ToSet
<1>3. DOMAIN StoreOrder = 1 .. Len(StoreOrder) /\ Len(StoreOrder) \in Nat
      /\ \A i \in DOMAIN StoreOrder : StoreOrder[i] \in Stores
  BY <1>1
<1>4. 1 \in DOMAIN StoreOrder
  BY <1>1, <1>2, <1>3
<1>5. \A i, j \in DOMAIN StoreOrder : i # j => StoreOrder[i] # StoreOrder[j]
  BY <1>1 DEF IsInjective
<1> QED
  BY <1>2, <1>3, <1>4, <1>5

LEMMA CertsStart == Init => CertsInv
<1> SUFFICES ASSUME Init PROVE CertsInv
  OBVIOUS
<1>1. CertificatesInit /\ FrameInit
  BY DEF Init
<1>2. CertificatesOK
  <2>1. NoCertTodo \in [visit : Seq(Thumbprints), uninstall : Seq(Thumbprints),
                        install : Seq(CertificateFile)]
    BY DEF NoCertTodo
  <2>2. certStore \in DOMAIN StoreOrder
    BY <1>1, StoresAre DEF CertificatesInit
  <2>3. NoCertificates \in [Stores -> SUBSET Thumbprints]
    BY DEF NoCertificates
  <2> QED
    BY <1>1, <2>1, <2>2, <2>3 DEF CertificatesInit, CertificatesOK
<1>3. \A s \in Stores : certReported[s] = {}
  BY <1>1 DEF CertificatesInit, NoCertificates
<1> QED
  BY <1>1, <1>2, <1>3 DEF CertificatesInit, FrameInit, CertsInv, CertProgressInv,
                          NoCertificateSection, Applied

LEMMA CertTypes ==
  ASSUME CertsInv
  PROVE /\ Store \in Stores /\ certStores[Store] \subseteq Thumbprints
        /\ certTodo = [visit |-> certTodo.visit, uninstall |-> certTodo.uninstall,
                       install |-> certTodo.install]
        /\ certTodo.visit \in Seq(Thumbprints) /\ certTodo.uninstall \in Seq(Thumbprints)
        /\ certTodo.install \in Seq(CertificateFile)
        /\ certStore \in Nat /\ certStore \in DOMAIN StoreOrder
        /\ \A t : Entries[t] = EntryOf(Store, t)
        /\ certSection.kind = "good" =>
             \A t \in Thumbprints : Entries[t].blob \in Blobs \cup {"none"}
<1>1. CertificatesOK
  BY DEF CertsInv
<1>2. Store \in Stores /\ certStore \in Nat /\ certStore \in DOMAIN StoreOrder
  BY <1>1, StoresAre DEF CertificatesOK, Store
<1>3. \A t : Entries[t] = EntryOf(Store, t)
  BY DEF Entries, EntryOf
<1>4. certSection.kind = "good" =>
        \A t \in Thumbprints : Entries[t].blob \in Blobs \cup {"none"}
  <2>1. certSection.kind = "good" => certSection \in CertificateSections
    BY <1>1 DEF CertificatesOK, NoCertificateSection
  <2>2. certSection.kind = "good" =>
          certSection.certs \in [Stores -> [Thumbprints -> CertificateEntries]]
    BY <2>1, CertificatesParametersOK
  <2>3. certSection.kind = "good" => \A t \in Thumbprints : Entries[t] \in CertificateEntries
    BY <1>2, <2>2 DEF Entries
  <2> QED
    BY <2>3 DEF CertificateEntries
<1> QED
  BY <1>1, <1>2, <1>3, <1>4 DEF CertificatesOK

\* What a section says does not change while it is applied.
LEMMA CertSectionStays ==
  ASSUME certSection' = certSection
  PROVE /\ \A s, t : EntryOf(s, t)' = EntryOf(s, t)
        /\ \A s : Delivered(s)' = Delivered(s)
        /\ certStore' = certStore => Store' = Store /\ Entries' = Entries
                                     /\ Mentioned' = Mentioned
<1>1. \A s, t : EntryOf(s, t)' = EntryOf(s, t)
  BY DEF EntryOf
<1>2. \A s : Delivered(s)' = Delivered(s)
  BY <1>1 DEF Delivered
<1> QED
  BY <1>1, <1>2 DEF Store, Entries, Mentioned

\* The stores that were applied stay as they are.
LEMMA EarlierStoresStay ==
  ASSUME CertsInv, certSection' = certSection,
         \A s \in Stores \ {Store} : certStores'[s] = certStores[s],
         NEW i \in DOMAIN StoreOrder, i < certStore, StoreDone(StoreOrder[i])
  PROVE StoreDone(StoreOrder[i])'
<1>1. StoreOrder[i] \in Stores \ {Store}
  BY StoresAre, CertTypes DEF Store
<1>2. certStores'[StoreOrder[i]] = certStores[StoreOrder[i]]
  BY <1>1
<1> QED
  BY <1>2, CertSectionStays DEF StoreDone

LEMMA NothingVisitedYet ==
  step = "readStore" => \A t \in Thumbprints \ NotVisited : EntryDone(t)
  BY DEF NotVisited, Mentioned, EntryDone, Delivers

LEMMA NothingLeft ==
  /\ certTodo.visit = << >> => Visits = {}
  /\ certTodo.uninstall = << >> => Removals = {}
  /\ certTodo.install = << >> => Additions = {}
<1>1. \A i : i \notin DOMAIN << >>
  OBVIOUS
<1> QED
  BY <1>1 DEF Visits, Removals, Additions

\* An entry is visited: its operation noted what to do, or an error.
LEMMA VisitedOK ==
  ASSUME CertsInv, part = "certificates", at = "apply", step = "visit", certTodo.visit # << >>,
         at' = "apply", step' = "visit",
         UNCHANGED <<certSection, deployment, certStore, certStores, certReported>>,
         NEW v, v = Visited,
         certTodo'.visit = Tail(certTodo.visit),
         Removals \subseteq Removals',
         \A t \in Removals' : t \in Removals \/ Entries[t].state = "uninstalled",
         Additions \subseteq Additions', Additions' \subseteq Additions \cup Delivered(Store),
         CertInstalledInv', ~errors' => ~errors /\ EntryDone(v)'
  PROVE CertProgressInv'
<1>1. CertProgressInv /\ CertTodoInv
  BY DEF CertsInv, CertProgressInv
<1>2. Visits \subseteq {v} \cup Visits'
  <2>1. PICK w \in Seq(Thumbprints) : w = certTodo.visit
    BY CertTypes
  <2>2. \A i \in DOMAIN w : w[i] = v \/ (i - 1 \in DOMAIN Tail(w) /\ w[i] = Tail(w)[i - 1])
    BY <2>1, FirstAndOthers DEF Visited
  <2>3. certTodo'.visit = Tail(w)
    BY <2>1
  <2> QED
    BY <2>1, <2>2, <2>3 DEF Visits
<1>3. CertTodoInv'
  BY <1>1, CertSectionStays DEF CertTodoInv
<1>4. ASSUME ~errors'
      PROVE /\ \A i \in DOMAIN StoreOrder : i < certStore => StoreDone(StoreOrder[i])'
            /\ \A t \in Thumbprints \ NotVisited' : EntryDone(t)'
  <2>1. /\ \A i \in DOMAIN StoreOrder : i < certStore => StoreDone(StoreOrder[i])
        /\ \A t \in Thumbprints \ Visits : EntryDone(t)
    BY <1>1, <1>4 DEF CertProgressInv, NotVisited
  <2>2. \A i \in DOMAIN StoreOrder : i < certStore => StoreDone(StoreOrder[i])'
    BY <2>1, EarlierStoresStay
  <2>3. \A t \in Thumbprints \ Visits : EntryDone(t)'
    BY <2>1, CertSectionStays DEF EntryDone
  <2> QED
    BY <1>2, <1>4, <2>2, <2>3 DEF NotVisited
<1> QED
  BY <1>1, <1>3, <1>4 DEF CertProgressInv, Applied

\* Control moves on in a store, or one of its certificates is treated.
LEMMA SameStoreOK ==
  ASSUME CertsInv, part = "certificates", at = "apply",
         at' = "apply", step' \in {"visit", "uninstall", "install"},
         UNCHANGED <<certSection, deployment, certStore, certReported>>,
         \A s \in Stores \ {Store} : certStores'[s] = certStores[s],
         CertTodoInv', CertInstalledInv',
         ~errors' => ~errors /\ \A t \in Thumbprints \ NotVisited' : EntryDone(t)'
  PROVE CertProgressInv'
<1>1. CertProgressInv
  BY DEF CertsInv
<1>2. ASSUME ~errors'
      PROVE \A i \in DOMAIN StoreOrder : i < certStore => StoreDone(StoreOrder[i])'
  BY <1>1, <1>2, EarlierStoresStay DEF CertProgressInv
<1> QED
  BY <1>1, <1>2 DEF CertProgressInv, Applied

LEMMA CertsStepOK ==
  ASSUME CertsInv, CertificatesStep, part = "certificates"
  PROVE /\ CertificatesOK' /\ CertProgressInv'
        /\ \A s \in Stores \ {MySystem} : (certReported[s] \subseteq certStores[s])'
<1>1. /\ CertificatesOK /\ CertProgressInv
      /\ \A s \in Stores \ {MySystem} : certReported[s] \subseteq certStores[s]
  BY DEF CertsInv
<1> DEFINE ListTrue == \A s \in Stores \ {MySystem} : (certReported[s] \subseteq certStores[s])'
           Todos == [visit : Seq(Thumbprints), uninstall : Seq(Thumbprints),
                     install : Seq(CertificateFile)]
<1>2. certReported' = NoCertificates => ListTrue
  BY DEF NoCertificates
<1>3. ASSUME UNCHANGED certs
      PROVE /\ CertificatesOK' /\ ListTrue
            /\ UNCHANGED <<certStores, certSection, certStore, certTodo, certInstalled,
                           certReported>>
            /\ \A s : StoreDone(s)' = StoreDone(s)
            /\ \A t : EntryDone(t)' = EntryDone(t)
            /\ Visits' = Visits /\ Removals' = Removals /\ Additions' = Additions
            /\ Store' = Store /\ Entries' = Entries /\ Delivered(Store)' = Delivered(Store)
  <2>1. UNCHANGED <<certStores, certSection, certFiles, certStore, certTodo, certInstalled,
                    certReported>>
    BY <1>3 DEF certs
  <2>2. CertificatesOK' /\ ListTrue
    BY <1>1, <2>1 DEF CertificatesOK
  <2>3. \A s : StoreDone(s)' = StoreDone(s)
    BY <2>1, CertSectionStays DEF StoreDone
  <2>4. Visits' = Visits /\ Removals' = Removals /\ Additions' = Additions
    BY <2>1 DEF Visits, Removals, Additions
  <2>5. Store' = Store /\ Entries' = Entries /\ Delivered(Store)' = Delivered(Store)
    BY <2>1 DEF Store, Entries, Delivered, EntryOf
  <2>6. \A t : EntryDone(t)' = EntryDone(t)
    BY <2>1, <2>4, <2>5 DEF EntryDone
  <2> QED
    BY <2>1, <2>2, <2>3, <2>4, <2>5, <2>6
<1>4. CASE InvokeCertificates
  <2>1. /\ certSection' \in CertificateSections /\ certStore' = 1 /\ certTodo' = NoCertTodo
        /\ certInstalled' = NoCertificates /\ UNCHANGED <<certStores, certFiles>>
        /\ certReported' = certReported \/ certReported' = NoCertificates
        /\ certSection'.kind = "good" => /\ at' = "apply" /\ step' = "readStore"
                                         /\ deployment' = "pending"
                                         /\ certReported' = NoCertificates
        /\ certSection'.kind # "good" => at' = "finalize"
    BY <1>4 DEF InvokeCertificates, Invoke, Begin
  <2>2. CertificatesOK'
    <3>1. NoCertTodo \in Todos
      BY DEF NoCertTodo
    <3>2. certStore' \in DOMAIN StoreOrder
      BY <2>1, StoresAre
    <3>3. NoCertificates \in [Stores -> SUBSET Thumbprints]
      BY DEF NoCertificates
    <3> QED
      BY <1>1, <2>1, <3>1, <3>2, <3>3 DEF CertificatesOK
  <2>3. ListTrue
    BY <1>1, <1>2, <2>1
  <2>4. Visits' = {} /\ Removals' = {} /\ Additions' = {}
    <3>1. certTodo'.visit = << >> /\ certTodo'.uninstall = << >> /\ certTodo'.install = << >>
      BY <2>1 DEF NoCertTodo
    <3>2. /\ (certTodo.visit = << >> => Visits = {})'
          /\ (certTodo.uninstall = << >> => Removals = {})'
          /\ (certTodo.install = << >> => Additions = {})'
      BY NothingLeft, PTL
    <3> QED
      BY <3>1, <3>2
  <2>5. at' = "apply" => CertTodoInv'
    BY <2>1, <2>4 DEF CertTodoInv, NoCertTodo
  <2>6. CertInstalledInv'
    <3>1. \A s \in Stores : certInstalled'[s] = {}
      BY <2>1 DEF NoCertificates
    <3>2. Store' \in Stores
      BY <2>1, StoresAre DEF Store
    <3> QED
      BY <3>1, <3>2, StoresAre DEF CertInstalledInv
  <2>7. at' = "apply" => \A t \in Thumbprints \ NotVisited' : EntryDone(t)'
    <3>1. at' = "apply" => step' = "readStore"
      BY <2>1
    <3>2. (step = "readStore" => \A t \in Thumbprints \ NotVisited : EntryDone(t))'
      BY NothingVisitedYet, PTL
    <3> QED
      BY <3>1, <3>2
  <2>8. \A i \in DOMAIN StoreOrder : ~(i < certStore')
    BY <2>1, StoresAre
  <2> QED
    BY <2>1, <2>2, <2>3, <2>5, <2>6, <2>7, <2>8 DEF CertProgressInv, Applied
<1>5. ASSUME at = "apply"
      PROVE /\ certSection.kind = "good" /\ deployment = "pending"
            /\ certReported = NoCertificates /\ CertTodoInv /\ CertInstalledInv
            /\ ~errors => /\ \A i \in DOMAIN StoreOrder : i < certStore => StoreDone(StoreOrder[i])
                          /\ \A t \in Thumbprints \ NotVisited : EntryDone(t)
  BY <1>1, <1>5 DEF CertProgressInv
<1>6. CASE ReadStore
  <2>1. /\ at = "apply" /\ step = "readStore" /\ at' = "apply"
        /\ UNCHANGED <<certStores, certSection, certFiles, certStore, certInstalled,
                       certReported, deployment>>
        /\ \/ /\ certTodo' = [certTodo EXCEPT !.visit = SetToSeq(Mentioned)]
              /\ step' = "visit" /\ (~errors' => ~errors)
           \/ step' = "uninstall" /\ errors' /\ certTodo' = certTodo
    BY <1>6 DEF ReadStore, At, Go, FailTo, Move
  <2>2. IsFiniteSet(Mentioned) /\ Mentioned \subseteq Thumbprints
    BY CertificatesParametersOK, FS_Subset DEF Mentioned
  <2>3. PICK q : q = SetToSeq(Mentioned)
    OBVIOUS
  <2>4. PICK S : S = Mentioned
    OBVIOUS
  <2>5. q \in Seq(S) /\ {q[i] : i \in DOMAIN q} = S
    BY <2>2, <2>3, <2>4, ListedAll
  <2>6. q \in Seq(Thumbprints)
    BY <2>2, <2>4, <2>5
  <2>7. /\ certTodo'.uninstall = certTodo.uninstall /\ certTodo'.install = certTodo.install
        /\ step' = "visit" => certTodo'.visit = q
        /\ step' # "visit" => certTodo'.visit = certTodo.visit
        /\ certTodo' \in Todos
    <3>1. certTodo = [visit |-> certTodo.visit, uninstall |-> certTodo.uninstall,
                      install |-> certTodo.install]
          /\ certTodo \in Todos
      BY CertTypes
    <3>2. CASE step' = "visit" /\ certTodo' = [certTodo EXCEPT !.visit = q]
      BY <2>6, <3>1, <3>2
    <3>3. CASE step' = "uninstall" /\ certTodo' = certTodo
      BY <3>1, <3>3
    <3> QED
      BY <2>1, <2>3, <3>2, <3>3
  <2>8. CertificatesOK'
    BY <1>1, <2>1, <2>7 DEF CertificatesOK
  <2>9. /\ Removals' = Removals /\ Additions' = Additions
        /\ step' = "visit" => NotVisited' = NotVisited
    <3>1. Removals' = Removals /\ Additions' = Additions
      BY <2>7 DEF Removals, Additions
    <3>2. step' = "visit" => Visits' = S
      BY <2>5, <2>7 DEF Visits
    <3> QED
      BY <2>1, <2>4, <3>1, <3>2 DEF NotVisited
  <2>10. CertTodoInv' /\ CertInstalledInv'
    BY <1>5, <2>1, <2>7, <2>9, CertSectionStays DEF CertTodoInv, CertInstalledInv
  <2>11. \A t : EntryDone(t)' = EntryDone(t)
    BY <2>1, <2>9, CertSectionStays DEF EntryDone
  <2>12. ListTrue
    BY <1>2, <1>5, <2>1
  <2>13. ~errors' => ~errors /\ \A t \in Thumbprints \ NotVisited' : EntryDone(t)'
    BY <1>5, <2>1, <2>9, <2>11
  <2> QED
    BY <2>1, <2>8, <2>10, <2>12, <2>13, SameStoreOK
<1>7. ASSUME at = "apply", step = "visit", certTodo.visit # << >>
      PROVE /\ Visited \in Thumbprints /\ Tail(certTodo.visit) \in Seq(Thumbprints)
            /\ Skip = [visit |-> Tail(certTodo.visit), uninstall |-> certTodo.uninstall,
                       install |-> certTodo.install]
            /\ Skip \in Todos
  <2>1. Visited \in Thumbprints /\ Tail(certTodo.visit) \in Seq(Thumbprints)
    BY <1>7, CertTypes, FirstAndOthers DEF Visited
  <2>2. Skip = [visit |-> Tail(certTodo.visit), uninstall |-> certTodo.uninstall,
                install |-> certTodo.install]
    <3>1. PICK a, b, c : certTodo = [visit |-> a, uninstall |-> b, install |-> c]
      BY CertTypes
    <3>2. certTodo.visit = a
      BY <3>1
    <3>3. Skip = [certTodo EXCEPT !.visit = Tail(a)]
      BY <3>2 DEF Skip
    <3>4. PICK d : d = Tail(a)
      OBVIOUS
    <3>5. Skip = [visit |-> d, uninstall |-> b, install |-> c]
      BY <3>1, <3>3, <3>4
    <3> QED
      BY <3>1, <3>4, <3>5
  <2> QED
    BY <2>1, <2>2, CertTypes
\* An entry that needs nothing, or is refused.
<1>8. ASSUME at = "apply", step = "visit", certTodo.visit # << >>, at' = "apply", step' = "visit",
             certTodo' = Skip,
             UNCHANGED <<certSection, certStores, certStore, certReported, deployment>>,
             certFiles' \in [FileNames -> Thumbprints \cup {"garbage", "none"}],
             \/ certInstalled' = certInstalled
             \/ /\ certInstalled' = [certInstalled EXCEPT ![Store] = @ \cup {Visited}]
                /\ Entries[Visited].state = "installed" /\ Visited \in certStores[Store],
             ~errors' => ~errors /\ EntryDone(Visited)
      PROVE CertificatesOK' /\ CertProgressInv' /\ ListTrue
  <2>1. certTodo'.visit = Tail(certTodo.visit) /\ certTodo'.uninstall = certTodo.uninstall
        /\ certTodo'.install = certTodo.install /\ certTodo' \in Todos
    <3>1. certTodo' = [visit |-> Tail(certTodo.visit), uninstall |-> certTodo.uninstall,
                       install |-> certTodo.install]
      BY <1>7, <1>8
    <3>2. certTodo' \in Todos
      BY <1>7, <1>8
    <3> QED
      BY <3>1, <3>2
  <2>2. Removals' = Removals /\ Additions' = Additions
    BY <2>1 DEF Removals, Additions
  <2>3. /\ certInstalled' \in [Stores -> SUBSET Thumbprints]
        /\ \A s \in Stores : s # Store => certInstalled'[s] = certInstalled[s]
        /\ \A t \in certInstalled'[Store] :
             \/ t \in certInstalled[Store]
             \/ Entries[t].state = "installed" /\ t \in certStores[Store]
    <3>1. PICK h, v : h = Store /\ v = Visited
      OBVIOUS
    <3>2. certInstalled \in [Stores -> SUBSET Thumbprints] /\ h \in Stores /\ v \in Thumbprints
      BY <1>1, <1>7, <1>8, <3>1, CertTypes DEF CertificatesOK
    <3>3. CASE certInstalled' = certInstalled
      BY <3>2, <3>3
    <3>4. CASE /\ certInstalled' = [certInstalled EXCEPT ![h] = @ \cup {v}]
               /\ Entries[v].state = "installed" /\ v \in certStores[h]
      <4>1. certInstalled' \in [Stores -> SUBSET Thumbprints]
            /\ certInstalled'[h] = certInstalled[h] \cup {v}
            /\ \A s \in Stores : s # h => certInstalled'[s] = certInstalled[s]
        BY <3>2, <3>4
      <4> QED
        BY <3>1, <3>4, <4>1
    <3> QED
      BY <1>8, <3>1, <3>3, <3>4
  <2>4. CertificatesOK'
    BY <1>1, <1>8, <2>1, <2>3 DEF CertificatesOK
  <2>5. CertInstalledInv'
    <3>1. \A s \in Stores : certInstalled'[s] \subseteq certStores[s]
      BY <1>5, <1>8, <2>3 DEF CertInstalledInv
    <3>2. \A i \in DOMAIN StoreOrder : i > certStore => StoreOrder[i] # Store
      BY StoresAre, CertTypes DEF Store
    <3>3. \A i \in DOMAIN StoreOrder : i > certStore => certInstalled'[StoreOrder[i]] = {}
      BY <1>5, <1>8, <2>3, <3>2, StoresAre DEF CertInstalledInv
    <3>4. \A t \in certInstalled'[Store] : Entries[t].state = "installed"
      BY <1>5, <1>8, <2>3 DEF CertInstalledInv
    <3> QED
      BY <1>8, <3>1, <3>3, <3>4, CertSectionStays DEF CertInstalledInv
  <2>6. PICK v : v = Visited
    OBVIOUS
  <2>7. \A t : EntryDone(t)' = EntryDone(t)
    BY <1>8, <2>2, CertSectionStays DEF EntryDone
  <2>8. ListTrue
    BY <1>2, <1>5, <1>8
  <2>9. ~errors' => ~errors /\ EntryDone(v)'
    BY <1>8, <2>6, <2>7
  <2> QED
    BY <1>8, <2>1, <2>2, <2>4, <2>5, <2>6, <2>8, <2>9, VisitedOK
<1>9. CASE AlreadyInstalled
  <2>1. /\ at = "apply" /\ step = "visit" /\ certTodo.visit # << >> /\ at' = "apply"
        /\ step' = "visit" /\ certTodo' = Skip /\ errors' = errors
        /\ UNCHANGED <<certSection, certStores, certFiles, certStore, certReported, deployment>>
        /\ certInstalled' = [certInstalled EXCEPT ![Store] = @ \cup {Visited}]
        /\ Entries[Visited].state = "installed" /\ Visited \in certStores[Store]
    BY <1>9 DEF AlreadyInstalled, Visiting, At, Go, Move
  <2>2. EntryDone(Visited)
    BY <2>1 DEF EntryDone
  <2> QED
    BY <1>1, <1>8, <2>1, <2>2 DEF CertificatesOK
<1>10. CASE AlreadyUninstalled
  <2>1. /\ at = "apply" /\ step = "visit" /\ certTodo.visit # << >> /\ at' = "apply"
        /\ step' = "visit" /\ certTodo' = Skip /\ errors' = errors
        /\ UNCHANGED <<certSection, certStores, certFiles, certStore, certReported, deployment,
                       certInstalled>>
        /\ Entries[Visited].state = "uninstalled" /\ Visited \notin certStores[Store]
    BY <1>10 DEF AlreadyUninstalled, Visiting, At, Go, Move
  <2>2. EntryDone(Visited)
    BY <2>1 DEF EntryDone, Delivers
  <2> QED
    BY <1>1, <1>8, <2>1, <2>2 DEF CertificatesOK
<1>11. CASE InvalidEntry
  <2>1. /\ at = "apply" /\ step = "visit" /\ certTodo.visit # << >> /\ at' = "apply"
        /\ step' = "visit" /\ certTodo' = Skip /\ errors'
        /\ UNCHANGED <<certSection, certStores, certFiles, certStore, certReported, deployment,
                       certInstalled>>
    BY <1>11 DEF InvalidEntry, Visiting, At, Throw, Move
  <2> QED
    BY <1>1, <1>8, <2>1 DEF CertificatesOK
<1>12. CASE ToUninstall
  <2>1. /\ at = "apply" /\ step = "visit" /\ certTodo.visit # << >> /\ at' = "apply"
        /\ step' = "visit" /\ (~errors' => ~errors)
        /\ certTodo' = [Skip EXCEPT !.uninstall = Append(@, Visited)]
        /\ UNCHANGED <<certSection, certStores, certFiles, certStore, certReported, deployment,
                       certInstalled>>
        /\ Entries[Visited].state = "uninstalled"
    BY <1>12 DEF ToUninstall, Visiting, At, Go, Move
  <2>2. PICK v : v = Visited
    OBVIOUS
  <2>3. PICK w \in Seq(Thumbprints) : w = certTodo.uninstall
    BY CertTypes
  <2>4. PICK q : q = Append(w, v)
    OBVIOUS
  <2>5. /\ q \in Seq(Thumbprints)
        /\ \A i \in DOMAIN w : i \in DOMAIN q /\ q[i] = w[i]
        /\ \E i \in DOMAIN q : q[i] = v
        /\ \A i \in DOMAIN q : q[i] = v \/ (i \in DOMAIN w /\ q[i] = w[i])
    <3>1. v \in Thumbprints
      BY <1>7, <2>1, <2>2
    <3> QED
      BY <2>3, <2>4, <3>1, ListWithOneMore
  <2>6. certTodo'.visit = Tail(certTodo.visit) /\ certTodo'.uninstall = q
        /\ certTodo'.install = certTodo.install /\ certTodo' \in Todos
    <3>1. Skip = [visit |-> Tail(certTodo.visit), uninstall |-> w, install |-> certTodo.install]
          /\ Tail(certTodo.visit) \in Seq(Thumbprints)
      BY <1>7, <2>1, <2>3
    <3>2. PICK a, c : a = Tail(certTodo.visit) /\ c = certTodo.install
      OBVIOUS
    <3>3. certTodo' = [visit |-> a, uninstall |-> q, install |-> c]
      BY <2>1, <2>2, <2>4, <3>1, <3>2
    <3>4. a \in Seq(Thumbprints) /\ c \in Seq(CertificateFile)
      BY <3>1, <3>2, CertTypes
    <3> QED
      BY <2>5, <3>2, <3>3, <3>4
  <2>7. Removals' = Removals \cup {v} /\ Additions' = Additions
    <3>1. Additions' = Additions
      BY <2>6 DEF Additions
    <3>2. Removals = {w[i] : i \in DOMAIN w} /\ Removals' = {q[i] : i \in DOMAIN q}
      BY <2>3, <2>6 DEF Removals
    <3>3. Removals \subseteq Removals' /\ v \in Removals'
      BY <2>5, <3>2
    <3>4. Removals' \subseteq Removals \cup {v}
      BY <2>5, <3>2
    <3> QED
      BY <3>1, <3>3, <3>4
  <2>8. CertificatesOK'
    BY <1>1, <2>1, <2>6 DEF CertificatesOK
  <2>9. CertInstalledInv' /\ ListTrue
    BY <1>2, <1>5, <2>1, CertSectionStays DEF CertInstalledInv
  <2>10. EntryDone(v)'
    BY <2>1, <2>2, <2>7, CertSectionStays DEF EntryDone, Delivers
  <2> QED
    BY <2>1, <2>2, <2>6, <2>7, <2>8, <2>9, <2>10, VisitedOK
<1>13. CASE DownloadCertificateFromBlob
  <2> DEFINE blob == Entries[Visited].blob
             file == [name |-> FileNameOf[blob], thumbprint |-> HeldBy[blob]]
  <2>1. /\ at = "apply" /\ step = "visit" /\ certTodo.visit # << >> /\ at' = "apply"
        /\ step' = "visit"
        /\ UNCHANGED <<certSection, certStores, certStore, certReported, deployment,
                       certInstalled>>
        /\ Entries[Visited].state = "installed" /\ blob # "none"
        /\ \/ certFiles' = [certFiles EXCEPT ![FileNameOf[blob]] = HeldBy[blob]]
           \/ certFiles' = certFiles
        /\ \/ certTodo' = Skip /\ errors'
           \/ /\ HeldBy[blob] # "garbage" /\ (~errors' => ~errors)
              /\ certTodo' = [Skip EXCEPT !.install = Append(@, file)]
    BY <1>13 DEF DownloadCertificateFromBlob, Visiting, ToDownload, CanDownload, At, Go, Move,
                 Throw, FailTo
  <2>2. blob \in Blobs /\ FileNameOf[blob] \in FileNames
        /\ HeldBy[blob] \in Thumbprints \cup {"garbage"}
    BY <1>5, <1>7, <2>1, CertTypes, CertificatesParametersOK
  <2>3. certFiles' \in [FileNames -> Thumbprints \cup {"garbage", "none"}]
    BY <1>1, <2>1, <2>2 DEF CertificatesOK
  <2>4. CASE certTodo' = Skip /\ errors'
    BY <1>8, <2>1, <2>3, <2>4
  <2>5. CASE /\ HeldBy[blob] # "garbage" /\ (~errors' => ~errors)
             /\ certTodo' = [Skip EXCEPT !.install = Append(@, file)]
    <3>1. PICK v : v = Visited
      OBVIOUS
    <3>2. PICK w \in Seq(CertificateFile) : w = certTodo.install
      BY CertTypes
    <3>3. PICK f : f = file
      OBVIOUS
    <3>4. f \in CertificateFile /\ f.thumbprint = HeldBy[blob] /\ f.thumbprint \in Thumbprints
      BY <2>2, <2>5, <3>3 DEF CertificateFile
    <3>5. PICK q : q = Append(w, f)
      OBVIOUS
    <3>6. /\ q \in Seq(CertificateFile)
          /\ \A i \in DOMAIN w : i \in DOMAIN q /\ q[i] = w[i]
          /\ \E i \in DOMAIN q : q[i] = f
          /\ \A i \in DOMAIN q : q[i] = f \/ (i \in DOMAIN w /\ q[i] = w[i])
      BY <3>4, <3>5, ListWithOneMore
    <3>7. certTodo'.visit = Tail(certTodo.visit) /\ certTodo'.uninstall = certTodo.uninstall
          /\ certTodo'.install = q /\ certTodo' \in Todos
      <4>1. PICK a, b : a = Tail(certTodo.visit) /\ b = certTodo.uninstall
        OBVIOUS
      <4>2. Skip = [visit |-> a, uninstall |-> b, install |-> w] /\ a \in Seq(Thumbprints)
            /\ b \in Seq(Thumbprints)
        BY <1>7, <2>1, <3>2, <4>1, CertTypes
      <4>3. certTodo' = [Skip EXCEPT !.install = Append(@, f)]
        BY <2>5, <3>3
      <4>4. certTodo' = [visit |-> a, uninstall |-> b, install |-> q]
        BY <3>5, <4>2, <4>3
      <4> QED
        BY <3>6, <4>1, <4>2, <4>4
    <3>8. Removals' = Removals /\ Additions' = Additions \cup {f.thumbprint}
      <4>1. Removals' = Removals
        BY <3>7 DEF Removals
      <4>2. Additions = {w[i].thumbprint : i \in DOMAIN w}
            /\ Additions' = {q[i].thumbprint : i \in DOMAIN q}
        BY <3>2, <3>7 DEF Additions
      <4>3. Additions \subseteq Additions' /\ f.thumbprint \in Additions'
        BY <3>6, <4>2
      <4>4. Additions' \subseteq Additions \cup {f.thumbprint}
        BY <3>6, <4>2
      <4> QED
        BY <4>1, <4>3, <4>4
    <3>9. f.thumbprint \in Delivered(Store)
      <4>1. Delivers(EntryOf(Store, v), f.thumbprint) /\ v \in Thumbprints
        BY <1>7, <2>1, <3>1, <3>4, CertTypes DEF Delivers
      <4> QED
        BY <3>4, <4>1 DEF Delivered
    <3>10. EntryDone(v)'
      <4>1. Entries[v].state = "installed"
            /\ \A t : Delivers(Entries[v], t) => t = f.thumbprint
        BY <2>1, <3>1, <3>4 DEF Delivers
      <4> QED
        BY <2>1, <3>8, <4>1, CertSectionStays DEF EntryDone
    <3>11. CertificatesOK'
      BY <1>1, <2>1, <2>3, <3>7 DEF CertificatesOK
    <3>12. CertInstalledInv' /\ ListTrue
      BY <1>2, <1>5, <2>1, CertSectionStays DEF CertInstalledInv
    <3> QED
      BY <2>1, <2>5, <3>1, <3>7, <3>8, <3>9, <3>10, <3>11, <3>12, VisitedOK
  <2> QED
    BY <2>1, <2>4, <2>5
\* Nothing is left of a list, and control moves on.
<1>14. CASE AllVisited \/ AllUninstalled
  <2>1. /\ UNCHANGED <<certs, deployment>> /\ at = "apply" /\ at' = "apply"
        /\ (~errors' => ~errors)
        /\ \/ step = "visit" /\ certTodo.visit = << >> /\ step' = "uninstall"
           \/ step = "uninstall" /\ certTodo.uninstall = << >> /\ step' = "install"
    BY <1>14 DEF AllVisited, AllUninstalled, At, Go, Move
  <2>2. CertTodoInv'
    BY <1>3, <1>5, <2>1 DEF CertTodoInv
  <2>3. CertInstalledInv'
    BY <1>3, <1>5, <2>1 DEF CertInstalledInv
  <2>4. NotVisited' = NotVisited
    BY <1>3, <2>1 DEF NotVisited
  <2>5. ~errors' => ~errors /\ \A t \in Thumbprints \ NotVisited' : EntryDone(t)'
    BY <1>3, <1>5, <2>1, <2>4
  <2>6. \A s \in Stores \ {Store} : certStores'[s] = certStores[s]
    BY <1>3, <2>1
  <2>7. CertificatesOK' /\ ListTrue /\ UNCHANGED <<certSection, certStore, certReported>>
    BY <1>3, <2>1
  <2> QED
    BY <2>1, <2>2, <2>3, <2>5, <2>6, <2>7, SameStoreOK
<1>15. CASE UninstallCertificateHandler
  <2>1. /\ at = "apply" /\ step = "uninstall" /\ certTodo.uninstall # << >>
        /\ at' = "apply" /\ step' = "uninstall"
        /\ certTodo' = [certTodo EXCEPT !.uninstall = Tail(@)]
        /\ UNCHANGED <<certSection, certFiles, certStore, certInstalled, certReported, deployment>>
        /\ \/ /\ certStores' = [certStores EXCEPT ![Store] = @ \ {Head(certTodo.uninstall)}]
              /\ (~errors' => ~errors)
           \/ certStores' = certStores /\ errors'
    BY <1>15 DEF UninstallCertificateHandler, At, Go, FailTo, Move
  <2>2. PICK w \in Seq(Thumbprints) : w = certTodo.uninstall
    BY CertTypes
  <2>3. PICK u : u = Head(w)
    OBVIOUS
  <2>4. /\ Tail(w) \in Seq(Thumbprints) /\ u \in Thumbprints /\ u = w[1] /\ 1 \in DOMAIN w
        /\ \A i \in DOMAIN w : i = 1 \/ (i - 1 \in DOMAIN Tail(w) /\ Tail(w)[i - 1] = w[i])
        /\ \A i \in DOMAIN Tail(w) : i + 1 \in DOMAIN w /\ Tail(w)[i] = w[i + 1]
    BY <2>1, <2>2, <2>3, FirstAndOthers
  <2>5. certTodo'.visit = certTodo.visit /\ certTodo'.uninstall = Tail(w)
        /\ certTodo'.install = certTodo.install /\ certTodo' \in Todos
    BY <2>1, <2>2, <2>4, CertTypes
  <2>6. Removals = Removals' \cup {u} /\ Additions' = Additions /\ Visits' = Visits
    <3>1. Additions' = Additions /\ Visits' = Visits
      BY <2>5 DEF Additions, Visits
    <3>2. Removals = {w[i] : i \in DOMAIN w} /\ Removals' = {Tail(w)[i] : i \in DOMAIN Tail(w)}
      BY <2>2, <2>5 DEF Removals
    <3>3. Removals' \subseteq Removals /\ u \in Removals
      BY <2>4, <3>2
    <3>4. Removals \subseteq Removals' \cup {u}
      <4>1. \A i \in DOMAIN w : w[i] = u \/ \E j \in DOMAIN Tail(w) : w[i] = Tail(w)[j]
        BY <2>4
      <4> QED
        BY <3>2, <4>1
    <3> QED
      BY <3>1, <3>3, <3>4
  <2>7. /\ certStores' \in [Stores -> SUBSET Thumbprints]
        /\ \A s \in Stores \ {Store} : certStores'[s] = certStores[s]
        /\ certStores'[Store] \subseteq certStores[Store]
        /\ certStores[Store] \subseteq certStores'[Store] \cup {u}
        /\ ~errors' => ~errors /\ u \notin certStores'[Store]
    <3>1. PICK h : h = Store
      OBVIOUS
    <3>2. certStores \in [Stores -> SUBSET Thumbprints] /\ h \in Stores
      BY <1>1, <3>1, CertTypes DEF CertificatesOK
    <3>3. \/ certStores' = [certStores EXCEPT ![h] = @ \ {u}] /\ (~errors' => ~errors)
          \/ certStores' = certStores /\ errors'
      BY <2>1, <2>2, <2>3, <3>1
    <3>4. CASE certStores' = [certStores EXCEPT ![h] = @ \ {u}] /\ (~errors' => ~errors)
      <4>1. /\ certStores' \in [Stores -> SUBSET Thumbprints]
            /\ certStores'[h] = certStores[h] \ {u}
            /\ \A s \in Stores \ {h} : certStores'[s] = certStores[s]
        BY <3>2, <3>4
      <4> QED
        BY <3>1, <3>4, <4>1
    <3>5. CASE certStores' = certStores /\ errors'
      BY <3>2, <3>5
    <3> QED
      BY <3>3, <3>4, <3>5
  <2>8. CertificatesOK'
    BY <1>1, <2>1, <2>5, <2>7 DEF CertificatesOK
  <2>9. CertTodoInv'
    BY <1>5, <2>1, <2>5, <2>6, CertSectionStays DEF CertTodoInv
  <2>10. Entries[u].state = "uninstalled"
    BY <1>5, <2>1, <2>6 DEF CertTodoInv
  <2>11. CertInstalledInv'
    <3>1. u \notin certInstalled[Store]
      BY <1>5, <2>1, <2>10 DEF CertInstalledInv
    <3>2. \A s \in Stores : certInstalled[s] \subseteq certStores'[s]
      <4>1. \A s \in Stores : certInstalled[s] \subseteq certStores[s]
        BY <1>5, <2>1 DEF CertInstalledInv
      <4> QED
        BY <2>7, <3>1, <4>1
    <3> QED
      BY <1>5, <2>1, <3>2, CertSectionStays DEF CertInstalledInv
  <2>12. \A t \in Thumbprints : EntryDone(t) /\ ~errors' => EntryDone(t)'
    <3>1. \A t : Delivers(Entries[t], t) => t # u
      BY <2>10 DEF Delivers
    <3> QED
      BY <2>1, <2>6, <2>7, <3>1, CertSectionStays DEF EntryDone
  <2>13. NotVisited' = NotVisited
    BY <2>1, <2>6 DEF NotVisited
  <2>14. ~errors' => ~errors /\ \A t \in Thumbprints \ NotVisited' : EntryDone(t)'
    BY <1>5, <2>1, <2>7, <2>12, <2>13
  <2>15. ListTrue
    BY <1>2, <1>5, <2>1
  <2> QED
    BY <2>1, <2>7, <2>8, <2>9, <2>11, <2>14, <2>15, SameStoreOK
<1>16. CASE InstallCertificateHandler
  <2>1. /\ at = "apply" /\ step = "install" /\ certTodo.install # << >>
        /\ at' = "apply" /\ step' = "install"
        /\ certTodo' = [certTodo EXCEPT !.install = Tail(@)]
        /\ certFiles' = [certFiles EXCEPT ![Head(certTodo.install).name] = "none"]
        /\ UNCHANGED <<certSection, certStore, certReported, deployment>>
        /\ \/ /\ certStores' = [certStores EXCEPT
                                  ![Store] = @ \cup {Head(certTodo.install).thumbprint}]
              /\ certInstalled' = [certInstalled EXCEPT
                                     ![Store] = @ \cup {Head(certTodo.install).thumbprint}]
              /\ (~errors' => ~errors)
           \/ certStores' = certStores /\ certInstalled' = certInstalled /\ errors'
    BY <1>16 DEF InstallCertificateHandler, At, Go, FailTo, Throw, Move
  <2>2. PICK w \in Seq(CertificateFile) : w = certTodo.install
    BY CertTypes
  <2>3. PICK f : f = Head(w)
    OBVIOUS
  <2>4. /\ Tail(w) \in Seq(CertificateFile) /\ f \in CertificateFile /\ f = w[1] /\ 1 \in DOMAIN w
        /\ \A i \in DOMAIN w : i = 1 \/ (i - 1 \in DOMAIN Tail(w) /\ Tail(w)[i - 1] = w[i])
        /\ \A i \in DOMAIN Tail(w) : i + 1 \in DOMAIN w /\ Tail(w)[i] = w[i + 1]
    BY <2>1, <2>2, <2>3, FirstAndOthers
  <2>5. certTodo'.visit = certTodo.visit /\ certTodo'.uninstall = certTodo.uninstall
        /\ certTodo'.install = Tail(w) /\ certTodo' \in Todos
    BY <2>1, <2>2, <2>4, CertTypes
  <2>6. PICK u : u = f.thumbprint
    OBVIOUS
  <2>7. Additions = Additions' \cup {u} /\ Removals' = Removals /\ Visits' = Visits
    <3>1. Removals' = Removals /\ Visits' = Visits
      BY <2>5 DEF Removals, Visits
    <3>2. /\ Additions = {w[i].thumbprint : i \in DOMAIN w}
          /\ Additions' = {Tail(w)[i].thumbprint : i \in DOMAIN Tail(w)}
      BY <2>2, <2>5 DEF Additions
    <3>3. Additions' \subseteq Additions /\ u \in Additions
      BY <2>4, <2>6, <3>2
    <3>4. Additions \subseteq Additions' \cup {u}
      <4>1. \A i \in DOMAIN w :
               \/ w[i].thumbprint = u
               \/ \E j \in DOMAIN Tail(w) : w[i].thumbprint = Tail(w)[j].thumbprint
        BY <2>4, <2>6
      <4> QED
        BY <3>2, <4>1
    <3> QED
      BY <3>1, <3>3, <3>4
  <2>8. u \in Thumbprints /\ f.name \in FileNames
    BY <2>4, <2>6 DEF CertificateFile
  <2>9. /\ certStores' \in [Stores -> SUBSET Thumbprints]
        /\ certInstalled' \in [Stores -> SUBSET Thumbprints]
        /\ \A s \in Stores \ {Store} : certStores'[s] = certStores[s]
                                       /\ certInstalled'[s] = certInstalled[s]
        /\ \/ /\ certStores'[Store] = certStores[Store] \cup {u}
              /\ certInstalled'[Store] = certInstalled[Store] \cup {u}
              /\ (~errors' => ~errors)
           \/ certStores' = certStores /\ certInstalled' = certInstalled /\ errors'
    <3>1. PICK h : h = Store
      OBVIOUS
    <3>2. certStores \in [Stores -> SUBSET Thumbprints] /\ h \in Stores
          /\ certInstalled \in [Stores -> SUBSET Thumbprints]
      BY <1>1, <3>1, CertTypes DEF CertificatesOK
    <3>3. \/ /\ certStores' = [certStores EXCEPT ![h] = @ \cup {u}]
             /\ certInstalled' = [certInstalled EXCEPT ![h] = @ \cup {u}]
             /\ (~errors' => ~errors)
          \/ certStores' = certStores /\ certInstalled' = certInstalled /\ errors'
      BY <2>1, <2>2, <2>3, <2>6, <3>1
    <3>4. CASE /\ certStores' = [certStores EXCEPT ![h] = @ \cup {u}]
               /\ certInstalled' = [certInstalled EXCEPT ![h] = @ \cup {u}]
               /\ (~errors' => ~errors)
      <4>1. /\ certStores' \in [Stores -> SUBSET Thumbprints]
            /\ certStores'[h] = certStores[h] \cup {u}
            /\ \A s \in Stores \ {h} : certStores'[s] = certStores[s]
        BY <2>8, <3>2, <3>4
      <4>2. /\ certInstalled' \in [Stores -> SUBSET Thumbprints]
            /\ certInstalled'[h] = certInstalled[h] \cup {u}
            /\ \A s \in Stores \ {h} : certInstalled'[s] = certInstalled[s]
        BY <2>8, <3>2, <3>4
      <4> QED
        BY <3>1, <3>4, <4>1, <4>2
    <3>5. CASE certStores' = certStores /\ certInstalled' = certInstalled /\ errors'
      BY <3>2, <3>5
    <3> QED
      BY <3>3, <3>4, <3>5
  <2>10. CertificatesOK'
    <3>1. certFiles' \in [FileNames -> Thumbprints \cup {"garbage", "none"}]
      BY <1>1, <2>1 DEF CertificatesOK
    <3> QED
      BY <1>1, <2>1, <2>5, <2>9, <3>1 DEF CertificatesOK
  <2>11. CertTodoInv'
    BY <1>5, <2>1, <2>5, <2>7, CertSectionStays DEF CertTodoInv
  <2>12. u \in Delivered(Store)
    BY <1>5, <2>1, <2>7 DEF CertTodoInv
  <2>13. CertInstalledInv'
    <3>1. \A s \in Stores : certInstalled'[s] \subseteq certStores'[s]
      <4>1. \A s \in Stores : certInstalled[s] \subseteq certStores[s]
        BY <1>5, <2>1 DEF CertInstalledInv
      <4> QED
        BY <2>9, <4>1
    <3>2. \A i \in DOMAIN StoreOrder : i > certStore => StoreOrder[i] # Store
      BY StoresAre, CertTypes DEF Store
    <3>3. \A i \in DOMAIN StoreOrder : i > certStore => certInstalled'[StoreOrder[i]] = {}
      BY <1>5, <2>1, <2>9, <3>2, StoresAre DEF CertInstalledInv
    <3> QED
      BY <2>1, <3>1, <3>3 DEF CertInstalledInv
  <2>14. \A t \in Thumbprints : EntryDone(t) /\ ~errors' => EntryDone(t)'
    <3>1. ~errors' => certStores'[Store] = certStores[Store] \cup {u}
      BY <2>9
    <3> QED
      BY <2>1, <2>7, <2>12, <3>1, CertSectionStays DEF EntryDone
  <2>15. NotVisited' = NotVisited
    BY <2>1, <2>7 DEF NotVisited
  <2>16. ~errors' => ~errors /\ \A t \in Thumbprints \ NotVisited' : EntryDone(t)'
    BY <1>5, <2>1, <2>9, <2>14, <2>15
  <2>17. ListTrue
    BY <1>2, <1>5, <2>1
  <2> QED
    BY <2>1, <2>9, <2>10, <2>11, <2>13, <2>16, <2>17, SameStoreOK
<1>17. CASE InstallReadFails
  <2>1. UNCHANGED <<certs, deployment>> /\ at = "apply" /\ at' = "finalize" /\ errors'
    BY <1>17 DEF InstallReadFails, Leave, At
  <2>2. certSection' = certSection
    BY <1>3, <2>1
  <2> QED
    BY <1>3, <1>5, <2>1, <2>2 DEF CertProgressInv, Applied
\* Without an error the store is as the section says when nothing is left to do.
<1>18. ASSUME StoreApplied
       PROVE /\ at = "apply" /\ step = "install" /\ certTodo = NoCertTodo
             /\ Removals = {} /\ Additions = {}
             /\ ~errors => StoreDone(Store)
  <2>1. at = "apply" /\ step = "install" /\ certTodo.install = << >>
    BY <1>18 DEF StoreApplied, At
  <2>2. certTodo.visit = << >> /\ certTodo.uninstall = << >>
    BY <1>5, <2>1 DEF CertTodoInv
  <2>3. certTodo = NoCertTodo
    BY <2>1, <2>2, CertTypes DEF NoCertTodo
  <2>4. Visits = {} /\ Removals = {} /\ Additions = {}
    BY <2>1, <2>2, NothingLeft
  <2>5. ~errors => \A t \in Thumbprints : EntryDone(t)
    BY <1>5, <2>1, <2>4 DEF NotVisited
  <2>6. ~errors => StoreDone(Store)
    BY <2>4, <2>5, CertTypes DEF EntryDone, StoreDone
  <2> QED
    BY <2>1, <2>3, <2>4, <2>6
<1>19. CASE NextStore
  <2>1. /\ StoreApplied /\ certStore < Len(StoreOrder) /\ certStore' = certStore + 1
        /\ at' = at /\ step' = "readStore" /\ (~errors' => ~errors)
        /\ UNCHANGED <<certStores, certSection, certFiles, certTodo, certInstalled, certReported,
                       deployment>>
    BY <1>19 DEF NextStore, Go, Move
  <2>2. certStore' \in DOMAIN StoreOrder /\ Store' = StoreOrder[certStore + 1]
    BY <2>1, StoresAre, CertTypes DEF Store
  <2>3. CertificatesOK'
    BY <1>1, <2>1, <2>2 DEF CertificatesOK
  <2>4. Visits' = {} /\ Removals' = {} /\ Additions' = {}
    <3>1. certTodo'.visit = << >> /\ certTodo'.uninstall = << >> /\ certTodo'.install = << >>
      BY <1>18, <2>1 DEF NoCertTodo
    <3>2. /\ (certTodo.visit = << >> => Visits = {})'
          /\ (certTodo.uninstall = << >> => Removals = {})'
          /\ (certTodo.install = << >> => Additions = {})'
      BY NothingLeft, PTL
    <3> QED
      BY <3>1, <3>2
  <2>5. CertTodoInv'
    BY <1>18, <2>1, <2>4 DEF CertTodoInv, NoCertTodo
  <2>6. CertInstalledInv'
    <3>1. certStore + 1 > certStore /\ \A i \in DOMAIN StoreOrder :
                                         i > certStore + 1 => i > certStore
      BY StoresAre, CertTypes
    <3>2. certInstalled'[Store'] = {}
      BY <1>5, <1>18, <2>1, <2>2, <3>1 DEF CertInstalledInv
    <3> QED
      BY <1>5, <1>18, <2>1, <3>1, <3>2 DEF CertInstalledInv
  <2>7. \A t \in Thumbprints \ NotVisited' : EntryDone(t)'
    <3>1. step' = "readStore"
      BY <2>1
    <3>2. (step = "readStore" => \A t \in Thumbprints \ NotVisited : EntryDone(t))'
      BY NothingVisitedYet, PTL
    <3> QED
      BY <3>1, <3>2
  <2>8. ASSUME ~errors', NEW i \in DOMAIN StoreOrder, i < certStore + 1
        PROVE StoreDone(StoreOrder[i])'
    <3>1. i < certStore \/ i = certStore
      BY <2>8, StoresAre, CertTypes
    <3>2. StoreDone(StoreOrder[i])
      BY <1>5, <1>18, <2>1, <2>8, <3>1 DEF Store
    <3> QED
      BY <2>1, <3>2, CertSectionStays DEF StoreDone
  <2>9. ListTrue
    BY <1>2, <1>5, <1>18, <2>1
  <2> QED
    BY <1>5, <1>18, <2>1, <2>3, <2>5, <2>6, <2>7, <2>8, <2>9 DEF CertProgressInv, Applied
<1>20. CASE BuildReported
  <2>1. /\ StoreApplied /\ certStore = Len(StoreOrder) /\ at' = "finalize" /\ (~errors' => ~errors)
        /\ certReported' = NoCertificates
           \/ certReported' = [s \in Stores |-> ReportedList(s)]
        /\ UNCHANGED <<certStores, certSection, certFiles, certStore, certTodo, certInstalled,
                       deployment>>
    BY <1>20 DEF BuildReported, Leave
  <2>2. /\ NoCertificates \in [Stores -> SUBSET Thumbprints]
        /\ [s \in Stores |-> ReportedList(s)] \in [Stores -> SUBSET Thumbprints]
    BY <1>1, CertificatesParametersOK DEF CertificatesOK, NoCertificates, ReportedList
  <2>3. CertificatesOK'
    BY <1>1, <2>1, <2>2 DEF CertificatesOK
  <2>4. ListTrue
    <3>1. certReported' = [s \in Stores |-> ReportedList(s)]
            => \A s \in Stores \ {MySystem} : certReported'[s] = certInstalled[s]
      BY DEF ReportedList
    <3>2. \A s \in Stores : certInstalled[s] \subseteq certStores[s]
      BY <1>5, <1>18, <2>1 DEF CertInstalledInv
    <3> QED
      BY <1>2, <2>1, <3>1, <3>2
  <2>5. ASSUME ~errors', NEW s \in Stores PROVE StoreDone(s)'
    <3>1. PICK i \in DOMAIN StoreOrder : s = StoreOrder[i]
      BY StoresAre
    <3>2. i < certStore \/ i = certStore
      BY <2>1, StoresAre, CertTypes
    <3>3. StoreDone(s)
      BY <1>5, <1>18, <2>1, <2>5, <3>1, <3>2 DEF Store
    <3> QED
      BY <2>1, <3>3, CertSectionStays DEF StoreDone
  <2> QED
    BY <1>5, <1>18, <2>1, <2>3, <2>4, <2>5 DEF CertProgressInv, Applied
<1>21. CASE (FinalizeAndReport \/ HostEnds) /\ UNCHANGED certs
  <2>1. at' = "idle"
    BY <1>21 DEF FinalizeAndReport, HostEnds, Return
  <2>2. ASSUME deployment' = "succeeded", certSection.kind = "good"
        PROVE \A s \in Stores : StoreDone(s)
    <3>1. \/ at = "finalize" /\ ~errors
          \/ deployment = "succeeded"
      BY <1>21, <2>2 DEF FinalizeAndReport, HostEnds, Return
    <3>2. (at = "finalize" /\ ~errors) \/ Applied
      BY <1>1, <2>2, <3>1 DEF CertProgressInv, Applied
    <3> QED
      BY <1>1, <2>2, <3>2 DEF CertProgressInv
  <2>3. CertificatesOK' /\ ListTrue /\ certSection' = certSection
        /\ \A s : StoreDone(s)' = StoreDone(s)
    BY <1>3, <1>21
  <2> QED
    BY <2>1, <2>2, <2>3 DEF CertProgressInv, Applied
<1> QED
  BY <1>4, <1>6, <1>9, <1>10, <1>11, <1>12, <1>13, <1>14, <1>15, <1>16, <1>17, <1>19, <1>20,
     <1>21 DEF CertificatesStep

LEMMA CertsInvKept == CertsInv /\ [Next]_pluginVars => CertsInv'
<1> SUFFICES ASSUME CertsInv, [Next]_pluginVars PROVE CertsInv'
  OBVIOUS
<1>1. CASE part = "certificates" /\ CertificatesStep /\ UNCHANGED part
  BY <1>1, CertsStepOK DEF CertsInv
<1>2. CASE part # "certificates" /\ UNCHANGED <<part, certs>>
  BY <1>2 DEF CertsInv, CertificatesOK, certs
<1>3. CASE UNCHANGED <<part, frame, certs>>
  <2>1. UNCHANGED <<certStores, certSection, certFiles, certStore, certTodo, certInstalled,
                    certReported, at, step, errors, deployment>>
    BY <1>3 DEF certs, frame
  <2>2. Visits' = Visits /\ Removals' = Removals /\ Additions' = Additions
    BY <2>1 DEF Visits, Removals, Additions
  <2>3. \A s : StoreDone(s)' = StoreDone(s)
    BY <2>1, CertSectionStays DEF StoreDone
  <2>4. \A t : EntryDone(t)' = EntryDone(t)
    BY <2>1, <2>2, CertSectionStays DEF EntryDone
  <2>5. CertTodoInv' = CertTodoInv /\ CertInstalledInv' = CertInstalledInv
        /\ NotVisited' = NotVisited
    BY <2>1, <2>2, CertSectionStays DEF CertTodoInv, CertInstalledInv, NotVisited
  <2>6. CertificatesOK'
    BY <2>1 DEF CertsInv, CertificatesOK
  <2> QED
    BY <1>3, <2>1, <2>3, <2>4, <2>5, <2>6 DEF CertsInv, CertProgressInv, Applied
<1>4. \/ part = "certificates" /\ CertificatesStep /\ UNCHANGED part
      \/ part # "certificates" /\ UNCHANGED <<part, certs>>
      \/ UNCHANGED <<part, frame, certs>>
  BY DEF Next, pluginVars, handlerVars
<1> QED
  BY <1>1, <1>2, <1>3, <1>4

LEMMA CertsInvImplies == CertsInv => CertificatesConsistent
<1> SUFFICES ASSUME CertsInv PROVE CertificatesConsistent
  OBVIOUS
<1>1. ReportedCertificatesInstalled
  BY DEF CertsInv, ReportedCertificatesInstalled
<1>2. ASSUME Applied, certSection.kind = "good", NEW s \in Stores, NEW t \in Thumbprints,
             NEW e, e = certSection.certs[s][t]
      PROVE /\ e.state = "uninstalled" => \/ t \notin certStores[s]
                                          \/ \E u \in Thumbprints :
                                               Delivers(certSection.certs[s][u], t)
            /\ Delivers(e, t) => t \in certStores[s]
  <2>1. StoreDone(s) /\ e = EntryOf(s, t)
    BY <1>2 DEF CertsInv, CertProgressInv, Applied, EntryOf
  <2> QED
    BY <2>1 DEF StoreDone, Delivered, EntryOf
<1>3. CertificatesApplied
  BY <1>2 DEF CertificatesApplied, Delivers
<1> QED
  BY <1>1, <1>3 DEF CertificatesConsistent

\* Whatever the entries of a section and the blobs, whichever of them share a file,
\* and whatever failed before: a reported success means that the stores are as the
\* section says, and a certificate that the twin shows as installed is.
\* (CertificateManagementHandler::Invoke, ModifyCertificatesHandler.)
THEOREM SuccessMeansInStores == Spec => []CertificatesConsistent
  BY CertsStart, CertsInvKept, CertsInvImplies, PTL DEF Spec

-----------------------------------------------------------------------------
(* The MDM server, for any number of threads *)

(***************************************************************************)
(* The inductive invariant: the lock is held from the queueing of a task   *)
(* to its answer, so the queue never holds more than the task of the       *)
(* lock's holder, and that task is at one place.                           *)
(***************************************************************************)
Inside(c) == caller[c] \in {"enqueue", "notify", "get"}

Queued(c)   == tasks = <<c>> /\ current = NoCaller /\ answer[c] = "none"
Running(c)  == tasks = << >> /\ current = c /\ answer[c] = "none"
Answered(c) == tasks = << >> /\ current = NoCaller /\ answer[c] # "none"
NoTask      == tasks = << >> /\ current = NoCaller

LockHeld ==
    /\ \A c \in MdmCallers : Inside(c) <=> lock = c
    /\ lock = NoCaller => NoTask

OneTask ==
    /\ \A c \in MdmCallers : caller[c] = "enqueue" => NoTask
    /\ \A c \in MdmCallers :
         caller[c] \in {"notify", "get"} => Queued(c) \/ Running(c) \/ Answered(c)
    /\ \A c \in MdmCallers :
         caller[c] \in {"idle", "lock", "enqueue"} => answer[c] = "none"
    /\ worker = "run" <=> current # NoCaller

MInv == MdmOK /\ LockHeld /\ OneTask

-----------------------------------------------------------------------------
LEMMA MdmInitOK == MdmInit => MInv
  <1> SUFFICES ASSUME MdmInit PROVE MInv
    OBVIOUS
  <1>1. MdmOK
    BY MdmParametersOK DEF MdmInit, MdmOK
  <1>2. LockHeld /\ OneTask
    BY MdmParametersOK DEF MdmInit, LockHeld, OneTask, Inside, NoTask
  <1> QED
    BY <1>1, <1>2 DEF MInv

\* The steps of a thread.
LEMMA MdmCallerStep ==
    ASSUME MInv, NEW c \in MdmCallers, RunSyncML(c) \/ CallerStep(c)
    PROVE  MInv'
  <1> USE MdmParametersOK DEF MInv
  <1>1. CASE RunSyncML(c)
    <2>1. MdmOK'
      BY <1>1 DEF RunSyncML, MdmOK
    <2>2. LockHeld' /\ OneTask'
      BY <1>1 DEF RunSyncML, MdmOK, LockHeld, OneTask, Inside, NoTask, Queued, Running, Answered
    <2> QED
      BY <2>1, <2>2
  <1>2. CASE LockServer(c)
    <2>1. MdmOK'
      BY <1>2 DEF LockServer, MdmOK
    <2>2. LockHeld' /\ OneTask'
      BY <1>2 DEF LockServer, MdmOK, LockHeld, OneTask, Inside, NoTask, Queued, Running, Answered
    <2> QED
      BY <2>1, <2>2
  <1>3. CASE Enqueue(c)
    <2>1. tasks = << >> /\ current = NoCaller /\ answer[c] = "none" /\ lock = c
      BY <1>3 DEF Enqueue, LockHeld, OneTask, NoTask, Inside
    <2>2. tasks' = <<c>>
      BY <1>3, <2>1 DEF Enqueue
    <2>3. MdmOK'
      BY <1>3, <2>2 DEF Enqueue, MdmOK
    <2>4. LockHeld' /\ OneTask'
      BY <1>3, <2>1, <2>2 DEF Enqueue, MdmOK, LockHeld, OneTask, Inside, NoTask, Queued, Running, Answered
    <2> QED
      BY <2>3, <2>4
  <1>4. CASE Notify(c)
    <2>1. MdmOK'
      BY <1>4 DEF Notify, MdmOK
    <2>2. LockHeld' /\ OneTask'
      BY <1>4 DEF Notify, MdmOK, LockHeld, OneTask, Inside, NoTask, Queued, Running, Answered
    <2> QED
      BY <2>1, <2>2
  <1>5. CASE GetResult(c)
    <2>1. lock = c /\ NoTask
      BY <1>5 DEF GetResult, LockHeld, OneTask, Inside, NoTask, Queued, Running, Answered
    <2>2. MdmOK'
      BY <1>5 DEF GetResult, MdmOK
    <2>3. LockHeld' /\ OneTask'
      BY <1>5, <2>1 DEF GetResult, MdmOK, LockHeld, OneTask, Inside, NoTask, Queued, Running, Answered
    <2> QED
      BY <2>2, <2>3
  <1> QED
    BY <1>1, <1>2, <1>3, <1>4, <1>5 DEF CallerStep

\* Whose task the worker finds, and whose it runs.
LEMMA WorkerFinds ==
    ASSUME MInv
    PROVE  /\ tasks # << >> => /\ lock \in MdmCallers /\ tasks = <<lock>> /\ Queued(lock)
                               /\ caller[lock] \in {"notify", "get"}
           /\ current # NoCaller => /\ lock \in MdmCallers /\ current = lock /\ Running(lock)
                                    /\ caller[lock] \in {"notify", "get"}
  <1>1. lock \in MdmCallers =>
          \/ caller[lock] = "enqueue" /\ NoTask
          \/ caller[lock] \in {"notify", "get"} /\ (Queued(lock) \/ Running(lock) \/ Answered(lock))
    BY DEF MInv, LockHeld, OneTask, Inside
  <1>2. lock \notin MdmCallers => NoTask
    BY DEF MInv, MdmOK, LockHeld
  <1> QED
    BY <1>1, <1>2, MdmParametersOK DEF NoTask, Queued, Running, Answered

LEMMA MdmWorkerStep ==
    ASSUME MInv, WorkerStep \/ WakesSpuriously
    PROVE  MInv'
  <1> USE MdmParametersOK DEF MInv
  <1>1. CASE Dequeue /\ tasks = << >>
    <2>1. MdmOK'
      BY <1>1 DEF Dequeue, MdmOK
    <2>2. LockHeld' /\ OneTask'
      BY <1>1 DEF Dequeue, MdmOK, LockHeld, OneTask, Inside, NoTask, Queued, Running, Answered
    <2> QED
      BY <2>1, <2>2
  <1>2. CASE Dequeue /\ tasks # << >>
    <2>1. /\ lock \in MdmCallers /\ tasks = <<lock>> /\ Queued(lock)
          /\ caller[lock] \in {"notify", "get"}
      BY <1>2, WorkerFinds
    <2>2. tasks' = << >> /\ current' = lock /\ worker' = "run"
      BY <1>2, <2>1 DEF Dequeue
    <2>3. MdmOK'
      BY <1>2, <2>1, <2>2 DEF Dequeue, MdmOK
    <2>4. LockHeld' /\ OneTask'
      BY <1>2, <2>1, <2>2 DEF Dequeue, MdmOK, LockHeld, OneTask, Inside, NoTask, Queued, Running,
                              Answered
    <2> QED
      BY <2>3, <2>4
  <1>3. CASE Process
    <2>1. /\ lock \in MdmCallers /\ current = lock /\ Running(lock)
          /\ caller[lock] \in {"notify", "get"}
      BY <1>3, WorkerFinds DEF Process, OneTask
    <2>2. /\ current' = NoCaller /\ tasks' = << >> /\ worker' = "check"
          /\ answer'[lock] \in {"result", "exception"}
          /\ \A d \in MdmCallers : d # lock => answer'[d] = answer[d]
      BY <1>3, <2>1 DEF Process, Running, MdmOK
    <2>3. MdmOK'
      BY <1>3, <2>1, <2>2 DEF Process, MdmOK
    <2>4. LockHeld' /\ OneTask'
      BY <1>3, <2>1, <2>2 DEF Process, MdmOK, LockHeld, OneTask, Inside, NoTask, Queued, Running,
                              Answered
    <2> QED
      BY <2>3, <2>4
  <1>4. CASE WakesSpuriously
    <2>1. MdmOK'
      BY <1>4 DEF WakesSpuriously, MdmOK
    <2>2. LockHeld' /\ OneTask'
      BY <1>4 DEF WakesSpuriously, MdmOK, LockHeld, OneTask, Inside, NoTask, Queued, Running,
                  Answered
    <2> QED
      BY <2>1, <2>2
  <1> QED
    BY <1>1, <1>2, <1>3, <1>4 DEF WorkerStep

LEMMA MdmStutter == ASSUME MInv, UNCHANGED mdm PROVE MInv'
  BY DEF MInv, mdm, MdmOK, LockHeld, OneTask, Inside, NoTask, Queued, Running, Answered

(***************************************************************************)
(* At any time the queue holds no more than the task of the thread that    *)
(* has the lock, which is queued, run by the worker or answered.           *)
(* (MdmServer::RunSyncML holds _lock from Enqueue to futureResult.get().)  *)
(***************************************************************************)
THEOREM OneTaskAtATime == MdmSpec => []MInv
  <1>1. MInv /\ [MdmStep]_mdm => MInv'
    BY MdmCallerStep, MdmWorkerStep, MdmStutter DEF MdmStep, CallerStep
  <1> QED
    BY MdmInitOK, <1>1, PTL DEF MdmSpec

-----------------------------------------------------------------------------
(* The refinement *)

\* Only the lock's holder is anywhere but idle.
LEMMA OthersIdle ==
    ASSUME MInv, NEW d \in MdmCallers, d # lock
    PROVE  CallPhase[d] = "idle"
  <1>1. caller[d] \in {"idle", "lock"}
    BY DEF MInv, MdmOK, LockHeld, Inside
  <1> QED
    BY <1>1, MdmParametersOK DEF CallPhase, Phase

\* A step of the server changes the phase of one thread at most.
LEMMA PhaseMoves ==
    ASSUME NEW c \in MdmCallers, NEW p,
           Phase(c)' = p,
           \A d \in MdmCallers : d # c => Phase(d)' = Phase(d)
    PROVE  CallPhase' = [CallPhase EXCEPT ![c] = p]
  BY MdmParametersOK DEF CallPhase

LEMMA PhasesStay ==
    ASSUME \A d \in MdmCallers : Phase(d)' = Phase(d)
    PROVE  CallPhase' = CallPhase
  BY MdmParametersOK DEF CallPhase

LEMMA RefinesInit == MdmInit => Calls!Init
  <1> SUFFICES ASSUME MdmInit PROVE Calls!Init
    OBVIOUS
  <1>1. \A c \in MdmCallers : Phase(c) = "idle"
    BY DEF MdmInit, Phase
  <1> QED
    BY <1>1, MdmParametersOK DEF CallPhase, Calls!Init, Calls!Callers

LEMMA RefinesStep ==
    ASSUME MInv, [MdmStep]_mdm
    PROVE  [Calls!Next]_CallPhase
  <1> USE MdmParametersOK
  <1>1. ASSUME NEW c \in MdmCallers, RunSyncML(c) \/ LockServer(c) \/ Notify(c)
        PROVE  CallPhase' = CallPhase
    <2>1. \A d \in MdmCallers : Phase(d)' = Phase(d)
      BY <1>1 DEF RunSyncML, LockServer, Notify, Phase, MInv, MdmOK
    <2> QED
      BY <2>1, PhasesStay
  <1>2. ASSUME NEW c \in MdmCallers, Enqueue(c) PROVE Calls!Ask(c)
    <2>1. lock = c /\ current = NoCaller /\ answer[c] = "none"
      BY <1>2 DEF Enqueue, MInv, LockHeld, OneTask, Inside, NoTask
    <2>2. Phase(c) = "idle" /\ Phase(c)' = "asked"
      BY <1>2, <2>1 DEF Enqueue, Phase, MInv, MdmOK
    <2>3. \A d \in MdmCallers : d # c => Phase(d)' = Phase(d)
      BY <1>2 DEF Enqueue, Phase, MInv, MdmOK
    <2>4. CallPhase' = [CallPhase EXCEPT ![c] = "asked"]
      BY <2>2, <2>3, PhaseMoves
    <2>5. \A d \in MdmCallers : CallPhase[d] = "idle"
      BY <2>1, <2>2, OthersIdle DEF CallPhase
    <2> QED
      BY <2>4, <2>5 DEF Calls!Ask, Calls!MayAsk
  <1>3. ASSUME NEW c \in MdmCallers, GetResult(c) PROVE Calls!Return(c)
    <2>1. Phase(c) = "answered" /\ Phase(c)' = "idle"
      BY <1>3 DEF GetResult, Phase, MInv, MdmOK
    <2>2. \A d \in MdmCallers : d # c => Phase(d)' = Phase(d)
      BY <1>3 DEF GetResult, Phase, MInv, MdmOK
    <2>3. CallPhase' = [CallPhase EXCEPT ![c] = "idle"]
      BY <2>1, <2>2, PhaseMoves
    <2> QED
      BY <2>1, <2>3 DEF Calls!Return, CallPhase
  <1>4. CASE Dequeue /\ tasks = << >>
    <2>1. \A d \in MdmCallers : Phase(d)' = Phase(d)
      BY <1>4 DEF Dequeue, Phase
    <2> QED
      BY <2>1, PhasesStay
  <1>5. CASE Dequeue /\ tasks # << >>
    <2>1. /\ lock \in MdmCallers /\ tasks = <<lock>> /\ Queued(lock)
          /\ caller[lock] \in {"notify", "get"}
      BY <1>5, WorkerFinds
    <2>2. current' = lock /\ UNCHANGED <<caller, answer, lock>>
      BY <1>5, <2>1 DEF Dequeue
    <2>3. Phase(lock) = "asked" /\ Phase(lock)' = "running"
      BY <2>1, <2>2 DEF Phase, Queued
    <2>4. \A d \in MdmCallers : d # lock => Phase(d)' = Phase(d)
      BY <2>1, <2>2 DEF Phase, Queued
    <2> DEFINE c == lock
    <2>5. CallPhase' = [CallPhase EXCEPT ![c] = "running"]
      BY <2>1, <2>3, <2>4, <1>5, PhaseMoves DEF Dequeue
    <2>6. \A d \in MdmCallers : CallPhase[d] # "running"
      BY <2>3, OthersIdle DEF CallPhase
    <2>7. Calls!Run(lock)
      BY <2>1, <2>3, <2>5, <2>6 DEF Calls!Run, Calls!Callers, CallPhase
    <2> QED
      BY <2>1, <2>7 DEF Calls!Next, Calls!Callers
  <1>6. CASE Process
    <2>1. /\ lock \in MdmCallers /\ current = lock /\ Running(lock)
          /\ caller[lock] \in {"notify", "get"}
      BY <1>6, WorkerFinds DEF Process, MInv, OneTask
    <2>2. /\ answer'[lock] \in {"result", "exception"} /\ current' = NoCaller
          /\ \A d \in MdmCallers : d # lock => answer'[d] = answer[d]
          /\ UNCHANGED <<caller, lock>>
      BY <1>6, <2>1 DEF Process, MInv, MdmOK
    <2>3. Phase(lock) = "running" /\ Phase(lock)' = "answered"
      BY <2>1, <2>2 DEF Phase, Running
    <2>4. \A d \in MdmCallers : d # lock => Phase(d)' = Phase(d)
      BY <2>1, <2>2 DEF Phase, Running
    <2>5. CallPhase' = [CallPhase EXCEPT ![lock] = "answered"]
      BY <2>1, <2>2, <2>3, <2>4, PhaseMoves
    <2>6. Calls!Answer(lock)
      BY <2>1, <2>3, <2>5 DEF Calls!Answer, CallPhase
    <2> QED
      BY <2>1, <2>6 DEF Calls!Next, Calls!Callers
  <1>7. CASE WakesSpuriously \/ UNCHANGED mdm
    <2>1. \A d \in MdmCallers : Phase(d)' = Phase(d)
      BY <1>7 DEF WakesSpuriously, mdm, Phase
    <2> QED
      BY <2>1, PhasesStay
  <1>8. ASSUME NEW c \in MdmCallers, Calls!Ask(c) \/ Calls!Return(c) PROVE Calls!Next
    BY <1>8 DEF Calls!Next, Calls!Callers
  <1> QED
    BY <1>1, <1>2, <1>3, <1>4, <1>5, <1>6, <1>7, <1>8 DEF MdmStep, CallerStep, WorkerStep

(***************************************************************************)
(* For any number of threads and commands, each RunSyncML is a procedure   *)
(* call on the worker: the queue, the condition variable and the futures   *)
(* implement SynchronousCall.  (MdmServer::RunSyncML, TaskQueue.)          *)
(***************************************************************************)
THEOREM CommandsRefine == MdmSpec => CommandIsSynchronousCall
  <1>1. MInv /\ [MdmStep]_mdm => [Calls!Next]_CallPhase
    BY RefinesStep
  <1> QED
    BY RefinesInit, OneTaskAtATime, <1>1, PTL DEF MdmSpec, CommandIsSynchronousCall, Calls!Spec

================================================================================
