---------------------------- MODULE UwpBridgeProofs ----------------------------
(***************************************************************************)
(* Proofs about the agent, for any set of handles, any configuration and   *)
(* any failures, and about the agent with its bridge, for any set of apps  *)
(* and scope ids: what is shown of the agent alone also holds with a       *)
(* bridge that can end the process at any time.                            *)
(*                                                                         *)
(* The agent first.  Its inductive invariant says, for each point of the   *)
(* worker, which handles and platform it holds there, and how far it can   *)
(* be from looking at the event again.                                     *)
(***************************************************************************)
EXTENDS UwpBridge, TLAPS

\* Before a connection is begun there is none, and no platform.
Apart == {"off", "create", "setup", "init", "recover", "ended"}

HubInv ==
    /\ pc \in Apart => live = {} /\ platform = 0 /\ clientHandle = NoHandle
    /\ pc = "wait" /\ ~connected => live = {} /\ platform = 0 /\ clientHandle = NoHandle
    /\ pc \in {"token", "connect"} => live = {} /\ platform = 1 /\ clientHandle = NoHandle
    /\ pc = "enable" \/ (pc \in {"wait", "disable", "disconnect"} /\ connected) =>
         clientHandle = hostHandle /\ live = {hostHandle} /\ platform = 1
    /\ pc \in {"disable", "disconnect"} => connected
    /\ live \subseteq {clientHandle}

\* The handlers are started throughout the loop of Run.
HandlersInv ==
    /\ pc \in {"wait", "disable", "disconnect", "init", "token", "connect", "enable"} =>
         handlers = "started"
    /\ pc = "wait" /\ connected => told = "online"

\* Between the look at the event and the connection, it was set only lately.
StopInv ==
    /\ stopEvent \in {"none", "clear"} => late = 0
    /\ stopEvent = "set" => late <= 1
    /\ stopEvent = "set" /\ pc \in {"disable", "disconnect", "init"} => late = 0

\* The worker begins after the service, and creates the event once.
BeginInv ==
    /\ svc = "start" => pc = "off"
    /\ pc \in {"off", "create"} => stopEvent = "none"

IInv == TypeOK /\ HubInv /\ HandlersInv /\ StopInv /\ BeginInv

-----------------------------------------------------------------------------
\* The service has not started its worker.
LEMMA InitInv == Init => IInv
<1> SUFFICES ASSUME Init PROVE IInv
  OBVIOUS
<1>1. dps \in BOOLEAN /\ triedDps \in BOOLEAN /\ connected \in BOOLEAN
  BY ParametersOK, Zenon DEF Init, ParametersOK
<1>2. platform \in 0 .. 1 /\ late \in 0 .. 2
  BY DEF Init
<1>3. TypeOK
  BY <1>1, <1>2, Zenon DEF Init, TypeOK
<1>4. HubInv /\ HandlersInv /\ StopInv /\ BeginInv
  BY DEF Init, HubInv, HandlersInv, StopInv, BeginInv, Apart
<1>5. QED
  BY <1>3, <1>4 DEF IInv

\* The service's threads change neither the worker's variables nor, while the
\* event is not set, the ghost.
LEMMA ServiceStep == IInv /\ Service => IInv'
<1> SUFFICES ASSUME IInv, Service PROVE IInv'
  OBVIOUS
<1> USE DEF Service, Start, Stop, OnStop, Pause, Shutdown, Destruct, Join, Up,
            Controllable, UnchangedButService, hubVars, handlerVars
<1>1. TypeOK'
  BY DEF IInv, TypeOK
<1>2. HubInv'
  BY DEF IInv, HubInv, BeginInv, Apart
<1>3. HandlersInv'
  BY DEF IInv, HubInv, HandlersInv
<1>4. StopInv'
  BY DEF IInv, TypeOK, StopInv
<1>5. BeginInv'
  BY DEF IInv, BeginInv
<1>6. QED
  BY <1>1, <1>2, <1>3, <1>4, <1>5 DEF IInv

\* RunClient around Run, where there is no connection.
LEMMA RunClientStep == IInv /\ (CreateStopEvent \/ SetUp \/ Recover \/ DestroyClient) => IInv'
<1> SUFFICES ASSUME IInv, (CreateStopEvent \/ SetUp \/ Recover \/ DestroyClient) PROVE IInv'
  OBVIOUS
<1> USE DEF CreateStopEvent, SetUp, Recover, DestroyClient, Goto, Throws,
            serviceVars, hubVars, handlerVars
<1>1. TypeOK'
  <2>1. dps' \in BOOLEAN
    BY ParametersOK, Zenon DEF IInv, TypeOK, ParametersOK
  <2>2. QED
    BY <2>1 DEF IInv, TypeOK
<1>2. HubInv'
  BY DEF IInv, TypeOK, HubInv, Apart
<1>3. HandlersInv'
  BY DEF IInv, HubInv, HandlersInv
<1>4. StopInv'
  BY DEF IInv, TypeOK, StopInv, BeginInv
<1>5. BeginInv'
  BY DEF IInv, BeginInv
<1>6. QED
  BY <1>1, <1>2, <1>3, <1>4, <1>5 DEF IInv

\* The loop of Run up to the connection.
LEMMA LoopStep == IInv /\ (CheckStop \/ Disable \/ Disconnect \/ InitPlatform) => IInv'
<1> SUFFICES ASSUME IInv, (CheckStop \/ Disable \/ Disconnect \/ InitPlatform) PROVE IInv'
  OBVIOUS
<1> USE DEF CheckStop, Disable, Disconnect, InitPlatform, EnableThrows,
            PlatformDown, Goto, Throws, serviceVars, hubVars, handlerVars
<1>1. TypeOK'
  <2>1. CASE CheckStop \/ Disable
    BY <2>1 DEF IInv, TypeOK
  <2>2. CASE Disconnect
    <3>1. platform' \in 0 .. 1
      BY <2>2 DEF IInv, TypeOK
    <3>2. live' \subseteq Handles
      BY <2>2 DEF IInv, TypeOK
    <3>3. connected' \in BOOLEAN
      BY <2>2
    <3>4. QED
      BY <2>2, <3>1, <3>2, <3>3 DEF IInv, TypeOK
  <2>3. CASE InitPlatform
    <3>1. platform' \in 0 .. 1 /\ late' \in 0 .. 2
      BY <2>3 DEF IInv, TypeOK, HubInv, Apart
    <3>2. triedDps' \in BOOLEAN
      BY <2>3
    <3>3. QED
      BY <2>3, <3>1, <3>2 DEF IInv, TypeOK
  <2>4. QED
    BY <2>1, <2>2, <2>3
<1>2. HubInv'
  BY DEF IInv, TypeOK, HubInv, Apart
<1>3. HandlersInv'
  BY DEF IInv, HubInv, HandlersInv
<1>4. StopInv'
  BY DEF IInv, TypeOK, StopInv
<1>5. BeginInv'
  BY DEF IInv, BeginInv
<1>6. QED
  BY <1>1, <1>2, <1>3, <1>4, <1>5 DEF IInv

\* The connection.
LEMMA ConnectStep == IInv /\ (TokenFound \/ TokenMissing \/ CreateClient \/ Enable) => IInv'
<1> SUFFICES ASSUME IInv, (TokenFound \/ TokenMissing \/ CreateClient \/ Enable) PROVE IInv'
  OBVIOUS
<1> USE DEF TokenFound, TokenMissing, CreateClient, Enable, EnableThrows, Goto,
            Throws, serviceVars, hubVars, handlerVars
<1>1. TypeOK'
  BY DEF IInv, TypeOK
<1>2. HubInv'
  BY DEF IInv, TypeOK, HubInv, Apart
<1>3. HandlersInv'
  BY DEF IInv, HubInv, HandlersInv
<1>4. StopInv'
  BY DEF IInv, TypeOK, StopInv
<1>5. BeginInv'
  BY DEF IInv, BeginInv
<1>6. QED
  BY <1>1, <1>2, <1>3, <1>4, <1>5 DEF IInv

\* The end of Run and of the client.
LEMMA EndStep == IInv /\ (Leave \/ SignalStop \/ EndRun \/ Unwind) => IInv'
<1> SUFFICES ASSUME IInv, (Leave \/ SignalStop \/ EndRun \/ Unwind) PROVE IInv'
  OBVIOUS
<1> USE DEF Leave, SignalStop, EndRun, Unwind, Deinitialize, EnableThrows,
            PlatformDown, Goto, Throws, serviceVars, hubVars, handlerVars
<1>1. TypeOK'
  BY DEF IInv, TypeOK
<1>2. HubInv'
  BY DEF IInv, TypeOK, HubInv, Apart
<1>3. HandlersInv'
  BY DEF IInv, HubInv, HandlersInv
<1>4. StopInv'
  BY DEF IInv, TypeOK, StopInv
<1>5. BeginInv'
  BY DEF IInv, BeginInv
<1>6. QED
  BY <1>1, <1>2, <1>3, <1>4, <1>5 DEF IInv

\* Every step of the service and of the worker keeps the invariant.
LEMMA InvStep == IInv /\ [Next]_vars => IInv'
<1> SUFFICES ASSUME IInv, [Next]_vars PROVE IInv'
  OBVIOUS
<1>1. CASE Service
  BY <1>1, ServiceStep
<1>2. CASE RunClient
  BY <1>2, RunClientStep, LoopStep, ConnectStep, EndStep DEF RunClient, Run, Connect
<1>3. CASE TokenFound \/ TokenMissing
  BY <1>3, ConnectStep
<1>4. CASE UNCHANGED vars
  BY <1>4 DEF vars, serviceVars, hubVars, handlerVars,
              IInv, TypeOK, HubInv, HandlersInv, StopInv, BeginInv, Apart
<1>5. QED
  BY <1>1, <1>2, <1>3, <1>4 DEF Next

\* The relation of handles, platform, handlers and event at every point.
THEOREM Invariant == Spec => []IInv
  BY InitInv, InvStep, PTL DEF Spec

\* Every variable keeps its type, and the platform is initialized once.
THEOREM TypeCorrect == Spec => []TypeOK
<1>1. IInv => TypeOK
  BY DEF IInv
<1>2. QED
  BY <1>1, Invariant, PTL

\* No failure and no renewal leaves a connection behind, and reports made while
\* the worker waits reach the live one.
THEOREM HeldAndUsed == Spec => []ConnectionHeldAndUsed
<1>1. IInv => ConnectionHeldAndUsed
  BY DEF IInv, HubInv, HandlersInv, ConnectionHeldAndUsed, NoConnectionLeaks,
         ReportsReachConnection
<1>2. QED
  BY <1>1, Invariant, PTL

\* The worker begins at most one connection after it is told to stop.
THEOREM StopSeen == Spec => []StopSeenBeforeConnecting
<1>1. IInv => StopSeenBeforeConnecting
  BY DEF IInv, StopInv, StopSeenBeforeConnecting
<1>2. QED
  BY <1>1, Invariant, PTL

--------------------------------------------------------------------------------
\* The bridge.

\* The bridge of a run is there from the run's start to some time before the
\* next one's.
RunInv ==
    /\ bridge \in {"none", "setup", "register", "listen", "listening", "unregister", "unset",
                   "ended"}
    /\ pc \in {"off", "create"} => bridge = "none"
    /\ pc = "setup" => bridge \in {"none", "ended"}

\* The pointer is set around the time in which interfaces are registered.
PointerInv ==
    /\ bridge \in {"none", "setup", "ended"} => localDmAccess = "none"
    /\ bridge \notin {"none", "setup", "ended"} => localDmAccess = "set"
    /\ bridge \in {"none", "setup", "unset", "ended"} => exposed = 0
    /\ bridge = "register" => exposed \in 0 .. 2
    /\ bridge \in {"listen", "listening"} => exposed = 3
    /\ bridge = "unregister" => exposed \in 1 .. 3

\* A call is under way only at an interface that is still registered.
CallsInv ==
    /\ callPc \in [Apps -> CallPoints]
    /\ callOf \in [Apps -> {"dps", "reboot", "tpm"}]
    /\ \A a \in Apps : callPc[a] # "idle" => callOf[a] \in Exposed

\* Calls between the assignment of the scope id and its event: as long as none
\* crossed another, each has an id as empty as the member's is.
Signalling(b) == callPc[b] \in AtEvent

ScopeTypeOK ==
    /\ argument \in [Apps -> ScopeIds \cup {""}]
    /\ dpsScopeId \in ScopeIds \cup {""}
    /\ configFile \in ScopeIds \cup {"", "broken"}
    /\ given \in {"nothing", "accepted", "emptied", "crossing"}

EventInv ==
    given # "crossing" =>
        /\ (\A b \in Apps : ~Signalling(b)) => (validDpsScopeId <=> dpsScopeId # "")
        /\ \A b \in Apps :
             /\ Signalling(b) => (argument[b] = "" <=> dpsScopeId = "")
             /\ callPc[b] = "set" => dpsScopeId # ""
             /\ callPc[b] = "reset" => dpsScopeId = ""

\* What apps were told is set, or will be, or is about to be saved is a scope id
\* as long as none set the empty one.
GivenInv ==
    given \in {"nothing", "accepted"} =>
        /\ \A b \in Apps : Signalling(b) \/ callPc[b] \in {"save", "write"} => dpsScopeId # ""
        /\ given = "accepted" => dpsScopeId # ""
        /\ configFile \notin {"", "broken"} => dpsScopeId # ""

ScopeInv == ScopeTypeOK /\ EventInv /\ GivenInv

BridgeInv == RunInv /\ PointerInv /\ CallsInv /\ ScopeInv

-----------------------------------------------------------------------------
\* The interfaces that take calls, by the bridge's progress.
LEMMA ExposedIs ==
  ASSUME exposed \in 0 .. 3
  PROVE /\ bridge # "unregister" /\ exposed = 0 => Exposed = {}
        /\ bridge # "unregister" /\ exposed = 1 => Exposed = {"dps"}
        /\ bridge # "unregister" /\ exposed = 2 => Exposed = {"dps", "reboot"}
        /\ exposed = 3 => Exposed = {"dps", "reboot", "tpm"}
        /\ bridge = "unregister" /\ exposed = 2 => Exposed = {"reboot", "tpm"}
        /\ bridge = "unregister" /\ exposed = 1 => Exposed = {"tpm"}
<1>1. Interfaces[1] = "dps" /\ Interfaces[2] = "reboot" /\ Interfaces[3] = "tpm"
  BY DEF Interfaces
<1>2. 1 .. 0 = {} /\ 1 .. 1 = {1} /\ 1 .. 2 = {1, 2} /\ 1 .. 3 = {1, 2, 3}
      /\ 2 .. 3 = {2, 3} /\ 3 .. 3 = {3}
  OBVIOUS
<1>3. QED
  BY <1>1, <1>2 DEF Exposed

\* At the start there is no bridge and no call.
LEMMA BridgedInitInv == BridgedInit => IInv /\ BridgeInv
<1> SUFFICES ASSUME BridgedInit PROVE IInv /\ BridgeInv
  OBVIOUS
<1>1. IInv
  BY InitInv DEF BridgedInit
<1>2. RunInv /\ PointerInv
  BY DEF BridgedInit, RunInv, PointerInv
<1>3. CallsInv
  BY DEF BridgedInit, CallsInv, CallPoints
<1>4. ScopeInv
  BY BridgeParametersOK DEF BridgedInit, ScopeInv, ScopeTypeOK, EventInv, GivenInv, Signalling, AtEvent,
                            BridgeParametersOK
<1>5. QED
  BY <1>1, <1>2, <1>3, <1>4 DEF BridgeInv

\* The agent's invariant does not depend on the bridge.
LEMMA AgentUnchanged == IInv /\ UNCHANGED vars => IInv'
  BY DEF vars, serviceVars, hubVars, handlerVars,
         IInv, TypeOK, HubInv, HandlersInv, StopInv, BeginInv, Apart

\* The end of the process, once the worker is there.
LEMMA CrashStep == IInv /\ pc # "off" /\ Crash => IInv'
  BY DEF Crash, UnchangedButPc, serviceVars, hubVars, handlerVars,
         IInv, TypeOK, HubInv, HandlersInv, StopInv, BeginInv, Apart

\* ... changes nothing that the bridge's invariant is about.
LEMMA CrashKeepsBridge == BridgeInv /\ Crash /\ UNCHANGED bridgeVars => BridgeInv'
<1> SUFFICES ASSUME BridgeInv, Crash, UNCHANGED bridgeVars PROVE BridgeInv'
  OBVIOUS
<1> USE DEF bridgeVars, rpcVars, scopeVars, callVars, Crash
<1>1. RunInv' /\ PointerInv'
  BY DEF BridgeInv, RunInv, PointerInv
<1>2. CallsInv' /\ ScopeInv'
  BY DEF BridgeInv, CallsInv, ScopeInv, ScopeTypeOK, EventInv, GivenInv, Signalling, Exposed
<1>3. QED
  BY <1>1, <1>2 DEF BridgeInv

\* No call finds the pointer null.
LEMMA InvFindsAccess == BridgeInv => CallsFindAccess
<1> SUFFICES ASSUME BridgeInv, NEW a \in Apps, callPc[a] # "idle"
             PROVE localDmAccess = "set"
  BY Zenon DEF CallsFindAccess
<1>1. exposed # 0
  <2>1. callOf[a] \in Exposed
    BY DEF BridgeInv, CallsInv
  <2>2. CASE bridge # "unregister"
    BY <2>1, <2>2, ExposedIs
  <2>3. CASE bridge = "unregister"
    BY <2>3 DEF BridgeInv, PointerInv
  <2>4. QED
    BY <2>2, <2>3
<1>2. QED
  BY <1>1 DEF BridgeInv, RunInv, PointerInv

\* The bridge's thread.
LEMMA BridgeThreadStep == IInv /\ BridgeInv /\ BridgeThread => IInv' /\ BridgeInv'
<1> SUFFICES ASSUME IInv, BridgeInv, BridgeThread PROVE IInv' /\ BridgeInv'
  OBVIOUS
<1>1. CASE SetupFails
  <2>1. pc # "off"
    BY <1>1 DEF SetupFails, BridgeInv, RunInv
  <2>2. QED
    BY <1>1, <2>1, CrashStep, CrashKeepsBridge DEF SetupFails
<1>2. CASE ~SetupFails
  <2> USE DEF BridgeGoto, UnchangedButRpc, scopeVars, callVars
  <2>1. UNCHANGED vars /\ UNCHANGED <<waiting, scopeVars, callVars>>
    BY <1>2 DEF BridgeThread, Setup, RegisterInterfaces, Listen, ListenReturns,
                UnregisterInterfaces, EndListening
  <2>2. IInv'
    BY <2>1, AgentUnchanged
  <2>3. RunInv' /\ PointerInv'
    BY <1>2, <2>1 DEF BridgeThread, Setup, RegisterInterfaces, Listen, ListenReturns,
       UnregisterInterfaces, EndListening, BridgeInv, RunInv, PointerInv, Interfaces, vars
  <2>4. ScopeInv'
    BY <2>1 DEF BridgeInv, ScopeInv, ScopeTypeOK, EventInv, GivenInv, Signalling
  <2>5. CallsInv'
    <3>1. exposed \in 0 .. 3 /\ exposed' \in 0 .. 3
      BY <2>3 DEF BridgeInv, RunInv, PointerInv
    <3>2. CASE ~UnregisterInterfaces
      <4>1. Exposed \subseteq Exposed'
        <5>1. CASE ListenReturns
          <6>1. bridge # "unregister" /\ bridge' = "unregister" /\ exposed = 3 /\ exposed' = 3
            BY <5>1 DEF ListenReturns, BridgeInv, PointerInv
          <6>2. 4 - exposed' = 1
            BY <6>1
          <6>3. QED
            BY <6>1, <6>2 DEF Exposed
        <5>2. CASE ~ListenReturns
          <6>1. /\ bridge # "unregister" /\ bridge' # "unregister"
                /\ exposed' = exposed \/ exposed' = exposed + 1
            BY <1>2, <3>2, <5>2
            DEF BridgeThread, Setup, RegisterInterfaces, Listen, EndListening
          <6>2. 1 .. exposed \subseteq 1 .. exposed'
            BY <3>1, <6>1
          <6>3. QED
            BY <6>1, <6>2 DEF Exposed
        <5>3. QED
          BY <5>1, <5>2
      <4>2. QED
        BY <2>1, <4>1 DEF BridgeInv, CallsInv
    <3>3. CASE UnregisterInterfaces
      BY <2>1, <3>1, <3>3
      DEF UnregisterInterfaces, CallsOf, BridgeInv, PointerInv, CallsInv, Interfaces, Exposed
    <3>4. QED
      BY <3>2, <3>3
  <2>6. QED
    BY <2>2, <2>3, <2>4, <2>5 DEF BridgeInv
<1>3. QED
  BY <1>1, <1>2

\* A call that has not assigned a scope id changes nothing for those that have.
LEMMA ScopeOfOthers ==
  ASSUME ScopeInv, NEW a \in Apps, UNCHANGED scopeVars,
         argument' \in [Apps -> ScopeIds \cup {""}],
         \A b \in Apps : b # a => callPc'[b] = callPc[b] /\ argument'[b] = argument[b],
         callPc[a] \notin AtEvent \cup {"save", "write"},
         callPc'[a] \notin AtEvent \cup {"save", "write"}
  PROVE ScopeInv'
<1>1. ~Signalling(a) /\ ~Signalling(a)' /\ \A b \in Apps : b # a => (Signalling(b)' <=> Signalling(b))
  BY DEF Signalling
<1>2. ScopeTypeOK'
  BY DEF ScopeInv, ScopeTypeOK, scopeVars
<1>3. callPc'[a] \notin {"set", "reset", "save", "write"}
  BY DEF AtEvent
<1>4. EventInv'
  BY <1>1, <1>3 DEF ScopeInv, EventInv, scopeVars
<1>5. GivenInv'
  BY <1>1, <1>3 DEF ScopeInv, GivenInv, scopeVars
<1>6. QED
  BY <1>2, <1>4, <1>5 DEF ScopeInv

\* A call of an app.
LEMMA AppCallStep ==
  ASSUME IInv, BridgeInv, NEW a \in Apps, AppCall(a)
  PROVE IInv' /\ BridgeInv'
<1>1. CASE InvokesRebootOfNothing(a)
  <2>1. pc # "off"
    BY <1>1 DEF InvokesRebootOfNothing, HostDestroyed
  <2>2. QED
    BY <1>1, <2>1, CrashStep, CrashKeepsBridge DEF InvokesRebootOfNothing
<1>2. CASE ~InvokesRebootOfNothing(a)
  <2>1. UNCHANGED <<rpcVars, waiting, pc>> /\ UnchangedButPc
    <3>1. CASE Accesses(a)
      <4>1. localDmAccess = "set"
        BY <3>1, InvFindsAccess DEF Accesses, CallsFindAccess
      <4>2. QED
        BY <3>1, <4>1 DEF Accesses
    <3>2. CASE ~Accesses(a)
      BY <1>2, <3>2
      DEF AppCall, Arrives, ReadsTpm, CopiesResults, FailsToRead, InvokesReboot,
          AssignsScopeId, ChecksScopeId, SignalsScopeId, CannotSave, OpensFile, WritesFile, CallGoto, Returns,
          vars, UnchangedButPc
    <3>3. QED
      BY <3>1, <3>2
  <2>2. IInv'
    BY <2>1, AgentUnchanged DEF UnchangedButPc, vars
  <2>3. RunInv' /\ PointerInv' /\ Exposed' = Exposed
    BY <2>1 DEF rpcVars, BridgeInv, RunInv, PointerInv, Exposed
  <2>4. Exposed \subseteq {"dps", "reboot", "tpm"}
    <3>1. exposed \in 0 .. 3
      BY DEF BridgeInv, RunInv, PointerInv
    <3>2. exposed = 0 \/ exposed = 1 \/ exposed = 2 \/ exposed = 3
      BY <3>1
    <3>3. bridge = "unregister" => exposed # 0
      BY DEF BridgeInv, PointerInv
    <3>4. QED
      BY <3>1, <3>2, <3>3, ExposedIs
  <2> USE DEF CallGoto, scopeVars, BridgeInv
  <2>5. CASE Arrives(a)
    <3>1. PICK i \in Exposed : /\ callOf' = [callOf EXCEPT ![a] = i]
                               /\ \E s \in IF i = "dps" THEN ScopeIds ELSE {""} :
                                    argument' = [argument EXCEPT ![a] = s]
      BY <2>5 DEF Arrives
    <3>2. callPc[a] = "idle" /\ callPc' = [callPc EXCEPT ![a] = "access"] /\ UNCHANGED scopeVars
      BY <2>5 DEF Arrives
    <3>3. CallsInv'
      BY <2>3, <2>4, <3>1, <3>2 DEF CallsInv, CallPoints
    <3>4. ScopeInv'
      <4>1. PICK s \in ScopeIds \cup {""} : argument' = [argument EXCEPT ![a] = s]
        BY <3>1
      <4>2. argument' \in [Apps -> ScopeIds \cup {""}]
        BY <4>1 DEF ScopeInv, ScopeTypeOK
      <4>3. \A b \in Apps : b # a => argument'[b] = argument[b]
        BY <4>1 DEF ScopeInv, ScopeTypeOK
      <4>4. \A b \in Apps : b # a => callPc'[b] = callPc[b]
        BY <3>2 DEF CallsInv
      <4>5. callPc[a] = "idle" /\ callPc'[a] = "access"
        BY <3>2 DEF CallsInv
      <4>6. UNCHANGED scopeVars
        BY <3>2
      <4>7. QED
        BY <4>2, <4>3, <4>4, <4>5, <4>6, ScopeOfOthers DEF AtEvent
    <3>5. QED
      BY <2>2, <2>3, <3>3, <3>4
  <2>6. CASE Accesses(a)
    <3>1. CallsInv'
      BY <2>3, <2>6 DEF Accesses, CallsInv, CallPoints
    <3>2. ScopeInv'
      <4>1. /\ \A b \in Apps : b # a => callPc'[b] = callPc[b]
            /\ callPc[a] = "access" /\ callPc'[a] = callOf[a]
            /\ callOf[a] \in {"dps", "reboot", "tpm"}
            /\ UNCHANGED <<argument, scopeVars>>
        BY <2>6 DEF Accesses, CallsInv
      <4>2. QED
        BY <4>1, ScopeOfOthers DEF ScopeInv, ScopeTypeOK, AtEvent
    <3>3. QED
      BY <2>2, <2>3, <3>1, <3>2
  <2>7. CASE ReadsTpm(a) \/ CopiesResults(a) \/ FailsToRead(a) \/ InvokesReboot(a)
    <3> USE DEF ReadsTpm, CopiesResults, FailsToRead, InvokesReboot, Returns
    <3>1. CallsInv'
      BY <2>3, <2>7 DEF CallsInv, CallPoints
    <3>2. ScopeInv'
      <4>1. /\ \A b \in Apps : b # a => callPc'[b] = callPc[b] /\ argument'[b] = argument[b]
            /\ callPc[a] \in {"tpm", "copy", "reboot"} /\ callPc'[a] \in {"copy", "idle"}
            /\ argument' \in [Apps -> ScopeIds \cup {""}]
            /\ UNCHANGED scopeVars
        BY <2>7 DEF CallsInv, ScopeInv, ScopeTypeOK
      <4>2. QED
        BY <4>1, ScopeOfOthers DEF AtEvent
    <3>3. QED
      BY <2>2, <2>3, <3>1, <3>2
  <2>8. CASE AssignsScopeId(a)
    <3> USE DEF AssignsScopeId
    <3>1. CallsInv'
      BY <2>3, <2>8 DEF CallsInv, CallPoints, AtEvent
    <3>2. /\ \A b \in Apps : b # a => callPc'[b] = callPc[b]
          /\ callPc[a] = "dps" /\ callPc'[a] = "check" /\ dpsScopeId' = argument[a]
          /\ argument[a] \in ScopeIds \cup {""}
          /\ UNCHANGED <<argument, configFile>>
      BY <2>8 DEF CallsInv, ScopeInv, ScopeTypeOK
    <3>3. ScopeTypeOK'
      BY <2>8, <3>2 DEF ScopeInv, ScopeTypeOK
    <3>4. EventInv'
      <4> SUFFICES ASSUME given' # "crossing" PROVE EventInv'
        BY DEF EventInv
      <4>1. \A b \in Apps : Signalling(b) => (argument[b] = "" <=> argument[a] = "")
        <5>1. ~Crosses(a)
          BY <2>8
        <5>2. QED
          BY <5>1, Zenon DEF Signalling, Crosses
      <4>2. Signalling(a)'
        BY <3>2 DEF Signalling, AtEvent
      <4>3. given # "crossing"
        BY <2>8
      <4>4. \A b \in Apps : b # a => (Signalling(b)' <=> Signalling(b))
        BY <3>2 DEF Signalling
      <4>5. \A b \in Apps : Signalling(b)' => (argument'[b] = "" <=> dpsScopeId' = "")
        BY <3>2, <4>1, <4>4
      <4>6. \A b \in Apps : /\ callPc'[b] = "set" => Signalling(b) /\ callPc[b] = "set"
                            /\ callPc'[b] = "reset" => Signalling(b) /\ callPc[b] = "reset"
        BY <3>2 DEF Signalling, AtEvent
      <4>7. \A b \in Apps : /\ callPc'[b] = "set" => dpsScopeId' # ""
                            /\ callPc'[b] = "reset" => dpsScopeId' = ""
        BY <3>2, <4>1, <4>3, <4>6 DEF ScopeInv, EventInv
      <4>8. QED
        BY <4>2, <4>5, <4>7 DEF EventInv
    <3>5. GivenInv'
      <4> SUFFICES ASSUME given' \in {"nothing", "accepted"} PROVE GivenInv'
        BY DEF GivenInv
      <4>1. argument[a] # ""
        BY <2>8
      <4>2. dpsScopeId' # ""
        BY <3>2, <4>1
      <4>3. QED
        BY <4>2 DEF GivenInv
    <3>6. QED
      BY <2>2, <2>3, <3>1, <3>3, <3>4, <3>5 DEF ScopeInv
  <2>9. CASE ChecksScopeId(a) \/ SignalsScopeId(a)
    <3> USE DEF ChecksScopeId, SignalsScopeId
    <3>1. CallsInv'
      BY <2>3, <2>9 DEF CallsInv, CallPoints, AtEvent
    <3>2. /\ \A b \in Apps : b # a => callPc'[b] = callPc[b]
          /\ Signalling(a)
          /\ \/ /\ callPc[a] = "check" /\ validDpsScopeId' = validDpsScopeId
                /\ callPc'[a] = IF dpsScopeId # "" THEN "set" ELSE "reset"
             \/ callPc[a] = "set" /\ callPc'[a] = "save" /\ validDpsScopeId'
             \/ callPc[a] = "reset" /\ callPc'[a] = "save" /\ ~validDpsScopeId'
          /\ UNCHANGED <<argument, dpsScopeId, configFile, given>>
      BY <2>9 DEF CallsInv, Signalling, AtEvent
    <3>3. ScopeTypeOK'
      BY <3>2 DEF ScopeInv, ScopeTypeOK
    <3>4. EventInv'
      BY <3>2 DEF ScopeInv, EventInv, Signalling, AtEvent
    <3>5. GivenInv'
      BY <3>2 DEF ScopeInv, GivenInv, Signalling, AtEvent
    <3>6. QED
      BY <2>2, <2>3, <3>1, <3>3, <3>4, <3>5 DEF ScopeInv
  <2>10. CASE CannotSave(a) \/ OpensFile(a) \/ WritesFile(a)
    <3> USE DEF CannotSave, OpensFile, WritesFile, Returns, Accepted
    <3>1. CallsInv'
      BY <2>3, <2>10 DEF CallsInv, CallPoints
    <3>2. /\ \A b \in Apps : b # a => callPc'[b] = callPc[b] /\ argument'[b] = argument[b]
          /\ callPc[a] \in {"save", "write"} /\ callPc'[a] \in {"write", "idle"}
          /\ UNCHANGED <<dpsScopeId, validDpsScopeId>>
      BY <2>10 DEF CallsInv, ScopeInv, ScopeTypeOK
    <3>3. /\ given' \in {"nothing", "accepted", "emptied", "crossing"}
          /\ given' = given \/ (given = "nothing" /\ given' = "accepted")
      BY <2>10 DEF ScopeInv, ScopeTypeOK
    <3>4. ScopeTypeOK'
      <4>1. argument' \in [Apps -> ScopeIds \cup {""}]
        BY <2>10 DEF ScopeInv, ScopeTypeOK
      <4>2. configFile' \in ScopeIds \cup {"", "broken"}
        BY <2>10 DEF ScopeInv, ScopeTypeOK
      <4>3. QED
        BY <3>2, <3>3, <4>1, <4>2 DEF ScopeInv, ScopeTypeOK
    <3>5. ~Signalling(a) /\ ~Signalling(a)'
      BY <3>2 DEF Signalling, AtEvent
    <3>6. EventInv'
      BY <3>2, <3>3, <3>5 DEF ScopeInv, EventInv, Signalling
    <3>7. GivenInv'
      <4> SUFFICES ASSUME given' \in {"nothing", "accepted"} PROVE dpsScopeId' # ""
        BY DEF GivenInv
      <4>1. given \in {"nothing", "accepted"}
        BY <3>3
      <4>2. QED
        BY <3>2, <4>1 DEF ScopeInv, GivenInv
    <3>8. QED
      BY <2>2, <2>3, <3>1, <3>4, <3>6, <3>7 DEF ScopeInv
  <2>11. QED
    BY <1>2, <2>5, <2>6, <2>7, <2>8, <2>9, <2>10 DEF AppCall
<1>3. QED
  BY <1>1, <1>2

\* The worker, where it starts the bridge, waits, stops it or recovers.
LEMMA BridgeWorkerStep ==
  ASSUME IInv, BridgeInv, Worker, ~(OtherSteps /\ UNCHANGED bridgeVars)
  PROVE IInv' /\ BridgeInv'
<1> USE DEF BridgeInv, bridgeVars, rpcVars, callVars, scopeVars
<1>1. CASE SetUpWithBridge
  <2>1. IInv'
    BY <1>1, RunClientStep DEF SetUpWithBridge
  <2>2. bridge \in {"none", "ended"} /\ pc' \notin {"off", "create", "setup"}
    BY <1>1 DEF SetUpWithBridge, SetUp, Goto, Throws, RunInv
  <2>3. RunInv' /\ PointerInv'
    BY <1>1, <2>2 DEF SetUpWithBridge, RunInv, PointerInv
  <2>4. CallsInv' /\ ScopeInv'
    BY <1>1, <2>2 DEF SetUpWithBridge, CallsInv, ScopeInv, ScopeTypeOK, EventInv, GivenInv, Signalling, Exposed
  <2>5. QED
    BY <2>1, <2>3, <2>4
<1>2. CASE WaitDpsScopeId
  <2>1. IInv'
    BY <1>2, AgentUnchanged DEF WaitDpsScopeId
  <2>2. RunInv' /\ PointerInv' /\ CallsInv' /\ ScopeInv'
    BY <1>2 DEF WaitDpsScopeId, vars, RunInv, PointerInv, CallsInv, ScopeInv, ScopeTypeOK, EventInv,
         GivenInv, Signalling, Exposed
  <2>3. QED
    BY <2>1, <2>2
<1>3. CASE TokenMissingWithBridge \/ TokenFoundWithBridge
  <2>1. IInv'
    BY <1>3, ConnectStep DEF TokenMissingWithBridge, TokenFoundWithBridge
  <2>2. pc' \notin {"off", "create", "setup"} /\ UNCHANGED <<rpcVars, scopeVars, callVars>>
    BY <1>3 DEF TokenMissingWithBridge, TokenFoundWithBridge, TokenMissing, TokenFound, Goto,
                Throws
  <2>3. RunInv' /\ PointerInv' /\ CallsInv' /\ ScopeInv'
    BY <2>2 DEF RunInv, PointerInv, CallsInv, ScopeInv, ScopeTypeOK, EventInv,
         GivenInv, Signalling, Exposed
  <2>4. QED
    BY <2>1, <2>3
<1>4. CASE StopListening
  <2>1. IInv'
    BY <1>4, EndStep DEF StopListening
  <2>2. pc' \notin {"off", "create", "setup"} /\ UNCHANGED <<bridge, localDmAccess, exposed, scopeVars, callVars>>
    BY <1>4 DEF StopListening, Unwind, EndRun, Deinitialize, Goto
  <2>3. RunInv' /\ PointerInv' /\ CallsInv' /\ ScopeInv'
    BY <2>2 DEF RunInv, PointerInv, CallsInv, ScopeInv, ScopeTypeOK, EventInv,
         GivenInv, Signalling, Exposed
  <2>4. QED
    BY <2>1, <2>3
<1>5. CASE StopListeningFails
  BY <1>5, CrashStep, CrashKeepsBridge DEF StopListeningFails
<1>6. CASE RecoverWithBridge
  <2>1. IInv'
    BY <1>6, RunClientStep DEF RecoverWithBridge
  <2>2. RunInv' /\ PointerInv' /\ CallsInv'
    BY <1>6 DEF RecoverWithBridge, Recover, Goto, RunInv, PointerInv, CallsInv, Exposed
  <2>3. \A a \in Apps : callPc[a] = "idle"
    <3>1. Exposed = {}
      BY <1>6, ExposedIs DEF RecoverWithBridge, PointerInv
    <3>2. QED
      BY <3>1 DEF CallsInv
  <2>4. ScopeInv'
    BY <1>6, <2>3 DEF RecoverWithBridge, Load, ReadDPSScopeId, ScopeInv, ScopeTypeOK, EventInv,
                      GivenInv, Signalling, AtEvent
  <2>5. QED
    BY <2>1, <2>2, <2>4
<1>7. QED
  BY <1>1, <1>2, <1>3, <1>4, <1>5, <1>6 DEF Worker

\* The service, and the worker's steps that do not concern the bridge.
LEMMA OtherStep == IInv /\ BridgeInv /\ OtherSteps /\ UNCHANGED bridgeVars => IInv' /\ BridgeInv'
<1> SUFFICES ASSUME IInv, BridgeInv, OtherSteps, UNCHANGED bridgeVars PROVE IInv' /\ BridgeInv'
  OBVIOUS
<1> USE DEF BridgeInv, bridgeVars, rpcVars, callVars, scopeVars
<1>1. IInv'
  BY ServiceStep, RunClientStep, LoopStep, ConnectStep, EndStep DEF OtherSteps, Connect
<1>2. /\ pc' \in {"off", "create"} => pc \in {"off", "create"}
      /\ pc' = "setup" => pc \in {"create", "setup"}
  BY DEF OtherSteps, Service, Start, Stop, OnStop, Pause, Shutdown, Destruct, Join,
         CreateStopEvent, CheckStop, Disable, Disconnect, Connect, InitPlatform, CreateClient,
         Enable, EnableThrows, Leave, SignalStop, DestroyClient, Goto, Throws, IInv, BeginInv
<1>3. RunInv' /\ PointerInv' /\ CallsInv' /\ ScopeInv'
  BY <1>2 DEF RunInv, PointerInv, CallsInv, ScopeInv, ScopeTypeOK, EventInv,
         GivenInv, Signalling, Exposed
<1>4. QED
  BY <1>1, <1>3

\* Every step of the agent with its bridge keeps both invariants.
LEMMA BridgedInvStep == IInv /\ BridgeInv /\ [BridgedNext]_bridgedVars => IInv' /\ BridgeInv'
<1> SUFFICES ASSUME IInv, BridgeInv, [BridgedNext]_bridgedVars PROVE IInv' /\ BridgeInv'
  OBVIOUS
<1>1. CASE Worker
  BY <1>1, BridgeWorkerStep, OtherStep
<1>2. CASE BridgeThread
  BY <1>2, BridgeThreadStep
<1>3. CASE \E a \in Apps : AppCall(a)
  BY <1>3, AppCallStep
<1>4. CASE UNCHANGED bridgedVars
  <2>1. IInv'
    BY <1>4, AgentUnchanged DEF bridgedVars
  <2>2. BridgeInv'
    BY <1>4 DEF bridgedVars, vars, bridgeVars, rpcVars, callVars, scopeVars,
                BridgeInv, RunInv, PointerInv, CallsInv, ScopeInv, ScopeTypeOK, EventInv,
         GivenInv, Signalling, Exposed
  <2>3. QED
    BY <2>1, <2>2
<1>5. QED
  BY <1>1, <1>2, <1>3, <1>4 DEF BridgedNext

\* How the pointer, the interfaces, the calls and the scope id go together.
THEOREM BridgedInvariant == BridgedSpec => [](IInv /\ BridgeInv)
  BY BridgedInitInv, BridgedInvStep, PTL DEF BridgedSpec

\* No remote call finds the static pointer null.
THEOREM FindsAccess == BridgedSpec => []CallsFindAccess
  BY InvFindsAccess, BridgedInvariant, PTL

\* The worker waits as long as the scope id is empty and no longer, whatever ids
\* apps set in calls that do not cross, and is not left to wait for an id that an
\* app was told is set.  (SetDpsScopeId, WaitDpsScopeId, Load and Save.)
THEOREM WaitEnds == BridgedSpec => []ScopeIdEndsWait
<1>1. BridgeInv => ScopeIdEndsWait
  BY DEF BridgeInv, ScopeInv, EventInv, GivenInv, Signalling, ScopeIdEndsWait
<1>2. QED
  BY <1>1, BridgedInvariant, PTL

\* With the bridge, too, no connection is left behind and reports reach it.
THEOREM BridgedHeldAndUsed == BridgedSpec => []ConnectionHeldAndUsed
<1>1. IInv => ConnectionHeldAndUsed
  BY DEF IInv, HubInv, HandlersInv, ConnectionHeldAndUsed, NoConnectionLeaks,
         ReportsReachConnection
<1>2. QED
  BY <1>1, BridgedInvariant, PTL

\* With the bridge, too, a stop is seen before another connection.
THEOREM BridgedStopSeen == BridgedSpec => []StopSeenBeforeConnecting
<1>1. IInv => StopSeenBeforeConnecting
  BY DEF IInv, StopInv, StopSeenBeforeConnecting
<1>2. QED
  BY <1>1, BridgedInvariant, PTL
=============================================================================
