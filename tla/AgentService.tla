----------------------------- MODULE AgentService -----------------------------
(***************************************************************************)
(* The Windows service and the agent's main loop: DMService's control      *)
(* handlers on one thread, and on another the worker, which runs           *)
(* AzureDMClient::Run, again and again while it fails.                     *)
(*                                                                         *)
(* The worker owns the connection to the IoT Hub.  The handle of it is     *)
(* kept twice, by AzureDMClient and, for the callbacks and reports of the  *)
(* handlers, by AzureRawHost.  The two threads meet on one manual-reset    *)
(* event, which the worker creates and a member of DMService owns.         *)
(***************************************************************************)
EXTENDS Integers, FiniteSets

CONSTANTS
    Handles,        \* IoT Hub client handles
    NoHandle,
    DpsSettings,    \* values the configuration may have for IsDpsEnabled
    Failures        \* what may throw

Throwers == {"setup", "platform", "client", "notifications", "provisioning", "stop"}

ASSUME ParametersOK ==
    /\ Cardinality(Handles) >= 3
    /\ NoHandle \notin Handles
    /\ DpsSettings # {} /\ DpsSettings \subseteq BOOLEAN
    /\ Failures \subseteq Throwers

VARIABLES
    svc,            \* control point of the service's own threads
    status,         \* last status reported to the service control manager
    stopEvent,      \* _stopEvent, with the handle closed by ~DMService
    pc,             \* control point of the worker
    dps,            \* IsDpsEnabled, as last loaded
    triedDps,       \* in GetConnectionString
    connected,      \* in Run; firstTime is its negation there
    platform,       \* platform_init calls without their platform_deinit
    clientHandle,   \* AzureDMClient's handle
    hostHandle,     \* AzureRawHost's handle
    live,           \* clients created and not destroyed
    handlers,       \* what the handlers have been told: Start, Stop
    told,           \* ... and the connection status
    late            \* connections begun since the event was set, up to 2 (ghost)

serviceVars == <<svc, status>>
hubVars == <<clientHandle, hostHandle, live, platform>>
handlerVars == <<handlers, told>>
vars == <<serviceVars, stopEvent, pc, dps, triedDps, connected, hubVars, handlerVars, late>>

Init ==
    /\ svc = "start"
    /\ status = "START_PENDING"
    /\ stopEvent = "none"
    /\ pc = "off"
    /\ dps \in DpsSettings
    /\ triedDps = FALSE
    /\ connected = FALSE
    /\ platform = 0
    /\ clientHandle = NoHandle
    /\ hostHandle = NoHandle
    /\ live = {}
    /\ handlers = "none"
    /\ told = "none"
    /\ late = 0

-----------------------------------------------------------------------------
(* DMService *)

\* A crash of the worker takes the whole process.
Up == pc # "crashed"

UnchangedButService == UNCHANGED <<dps, triedDps, connected, hubVars, handlerVars, late>>

\* OnStart starts the worker, and the service is RUNNING whatever it does.
Start ==
    /\ svc = "start"
    /\ svc' = "idle"
    /\ pc' = "create"
    /\ status' = "RUNNING"
    /\ UNCHANGED stopEvent
    /\ UnchangedButService

\* The control manager sends controls to a service that is not between states.
Controllable == Up /\ svc = "idle" /\ status \in {"RUNNING", "PAUSED"}

Stop ==
    /\ Controllable
    /\ svc' = "setEvent"
    /\ status' = "STOP_PENDING"
    /\ UNCHANGED <<stopEvent, pc>>
    /\ UnchangedButService

\* SetEvent on the null handle fails, and nobody looks at its result.
OnStop ==
    /\ Up
    /\ svc = "setEvent"
    /\ svc' = "returned"
    /\ stopEvent' = IF stopEvent = "clear" THEN "set" ELSE stopEvent
    /\ status' = "STOPPED"
    /\ UNCHANGED pc
    /\ UnchangedButService

\* Neither pausing nor a system shutdown reaches the worker.
Pause ==
    /\ Controllable
    /\ status' = IF status = "RUNNING" THEN "PAUSED" ELSE "RUNNING"
    /\ UNCHANGED <<svc, stopEvent, pc>>
    /\ UnchangedButService

Shutdown ==
    /\ Controllable
    /\ svc' = "returned"
    /\ status' = "STOPPED"
    /\ UNCHANGED <<stopEvent, pc>>
    /\ UnchangedButService

\* The dispatcher has returned and wmain destroys the service: first the
\* event, then the thread, which it joins.
Destruct ==
    /\ Up
    /\ svc = "returned"
    /\ svc' = "join"
    /\ stopEvent' = IF stopEvent = "none" THEN "none" ELSE "closed"
    /\ UNCHANGED <<status, pc>>
    /\ UnchangedButService

Join ==
    /\ svc = "join"
    /\ pc = "ended"
    /\ svc' = "exited"
    /\ UNCHANGED <<status, stopEvent, pc>>
    /\ UnchangedButService

-----------------------------------------------------------------------------
(* RunClient and the head of AzureDMClient::Run *)

Goto(l) == pc' = l
Throws(what) == what \in Failures /\ Goto("unwind")

CreateStopEvent ==
    /\ pc = "create"
    /\ \/ Goto("setup") /\ stopEvent' = "clear"
       \/ Goto("ended") /\ UNCHANGED stopEvent
    /\ UNCHANGED <<serviceVars, dps, triedDps, connected, hubVars, handlerVars, late>>

\* A new client and a new handler host register the handlers and start them.
\* Reading the manifests' directory may throw.
SetUp ==
    /\ pc = "setup"
    /\ connected' = FALSE
    /\ told' = "none"
    /\ \/ Goto("wait") /\ handlers' = "started"
       \/ Throws("setup") /\ handlers' = "none"
    /\ UNCHANGED <<serviceVars, stopEvent, dps, triedDps, hubVars, late>>

\* Mutant: the event is only looked at once there is a connection.
CheckStopIfConnected ==
    /\ pc = "wait"
    /\ \/ stopEvent = "set" /\ connected /\ Goto("leave")
       \/ ~(stopEvent = "set" /\ connected) /\ Goto(IF connected THEN "disable" ELSE "init")
    /\ UNCHANGED <<serviceVars, stopEvent, dps, triedDps, connected, hubVars, handlerVars, late>>

\* WaitForSingleObject fails at once on a closed handle.  A renewal is due at
\* a time the handlers know nothing of; when none is, the loop goes round.
CheckStop ==
    /\ pc = "wait"
    /\ \/ stopEvent = "set" /\ Goto("leave")
       \/ stopEvent # "set" /\ Goto(IF connected THEN "disable" ELSE "init")
    /\ UNCHANGED <<serviceVars, stopEvent, dps, triedDps, connected, hubVars, handlerVars, late>>

-----------------------------------------------------------------------------
(* Disconnecting and connecting *)

\* EnableIoTHubNotifications calls the IoT Hub client only if it has a handle.
EnableThrows == hostHandle # NoHandle /\ Throws("notifications")

Disable ==
    /\ pc = "disable"
    /\ Goto("disconnect") \/ EnableThrows
    /\ UNCHANGED <<serviceVars, stopEvent, dps, triedDps, connected, hubVars, handlerVars, late>>

PlatformDown == IF platform = 0 THEN 0 ELSE platform - 1

\* SignalConnectionStatusChanged and DeinitializeIoTHubConnection; the
\* handler host keeps its handle.
Disconnect ==
    /\ pc = "disconnect"
    /\ told' = "offline"
    /\ live' = live \ {clientHandle}
    /\ clientHandle' = NoHandle
    /\ platform' = PlatformDown
    /\ connected' = FALSE
    /\ Goto("init")
    /\ UNCHANGED <<serviceVars, stopEvent, dps, triedDps, hostHandle, handlers, late>>

InitPlatform ==
    /\ pc = "init"
    /\ triedDps' = FALSE
    /\ late' = IF stopEvent = "set" /\ late < 2 THEN late + 1 ELSE late
    /\ \/ Goto("token") /\ platform' = platform + 1
       \/ Throws("platform") /\ UNCHANGED platform
    /\ UNCHANGED <<serviceVars, stopEvent, dps, connected, clientHandle, hostHandle,
                   live, handlerVars>>

TokenFound ==
    /\ pc = "token"
    /\ Goto("connect")
    /\ UNCHANGED <<serviceVars, stopEvent, dps, triedDps, connected, hubVars, handlerVars, late>>

\* Provisioning is tried once and may throw.  Without it the worker sleeps and
\* looks again, for ever: no state changes.
TokenMissing ==
    /\ pc = "token"
    /\ dps
    /\ triedDps' = TRUE
    /\ (~triedDps /\ UNCHANGED pc) \/ Throws("provisioning")
    /\ UNCHANGED <<serviceVars, stopEvent, dps, connected, hubVars, handlerVars, late>>

CreateClient ==
    /\ pc = "connect"
    /\ \/ \E h \in Handles \ (live \cup {hostHandle}) :
            /\ live' = live \cup {h}
            /\ clientHandle' = h
            /\ hostHandle' = h
            /\ Goto("enable")
       \/ Throws("client") /\ UNCHANGED <<live, clientHandle, hostHandle>>
    /\ UNCHANGED <<serviceVars, stopEvent, dps, triedDps, connected, platform, handlerVars, late>>

Enable ==
    /\ pc = "enable"
    /\ \/ Goto("wait") /\ connected' = TRUE /\ told' = "online"
       \/ EnableThrows /\ UNCHANGED <<connected, told>>
    /\ UNCHANGED <<serviceVars, stopEvent, dps, triedDps, hubVars, handlers, late>>

-----------------------------------------------------------------------------
(* The end of Run, and of the client object *)

Leave ==
    /\ pc = "leave"
    /\ \/ Goto("stopHandlers") /\ told' = "offline"
       \/ EnableThrows /\ UNCHANGED told
    /\ UNCHANGED <<serviceVars, stopEvent, dps, triedDps, connected, hubVars, handlers, late>>

\* SignalStop lets a handler's exception through.
SignalStop ==
    /\ pc = "stopHandlers"
    /\ \/ Goto("deinitialize") /\ handlers' = "stopped"
       \/ Throws("stop") /\ UNCHANGED handlers
    /\ UNCHANGED <<serviceVars, stopEvent, dps, triedDps, connected, hubVars, told, late>>

\* AzureRawHost::Destroy destroys its handle, and DeinitializeIoTHubConnection
\* AzureDMClient's.  What a second destroy of one client does is undefined.
DestroyedTwice ==
    \/ hostHandle # NoHandle /\ hostHandle \notin live
    \/ clientHandle # NoHandle /\ clientHandle = hostHandle

Deinitialize(after) ==
    /\ live' = live \ {hostHandle, clientHandle}
    /\ hostHandle' = NoHandle
    /\ clientHandle' = NoHandle
    /\ platform' = PlatformDown
    /\ Goto(after) \/ (DestroyedTwice /\ Goto("crashed"))
    /\ UNCHANGED <<serviceVars, stopEvent, dps, triedDps, connected, told, late>>

EndRun ==
    /\ pc = "deinitialize"
    /\ Deinitialize("destroyClient")
    /\ UNCHANGED handlers

\* ~AzureDMClient deinitializes once more, through the host pointer that the
\* end of Run has set to null.
DestroyClient ==
    /\ pc = "destroyClient"
    /\ Goto("crashed")
    /\ UNCHANGED <<serviceVars, stopEvent, dps, triedDps, connected, hubVars, handlerVars, late>>

\* Mutant: the destructor does not deinitialize.
UnwindOnly ==
    /\ pc = "unwind"
    /\ handlers' = "none"
    /\ Goto("recover")
    /\ hostHandle' = NoHandle
    /\ clientHandle' = NoHandle
    /\ UNCHANGED <<serviceVars, stopEvent, dps, triedDps, connected, live, platform, told, late>>

\* An exception from Run destroys the client on its way to EnsureReported.
Unwind ==
    /\ pc = "unwind"
    /\ handlers' = "none"
    /\ Deinitialize("recover")

\* After RecoveryInterval the configuration is read again.
Recover ==
    /\ pc = "recover"
    /\ Goto("setup")
    /\ dps' \in DpsSettings
    /\ UNCHANGED <<serviceVars, stopEvent, triedDps, connected, hubVars, handlerVars, late>>

-----------------------------------------------------------------------------
Service == Start \/ Stop \/ OnStop \/ Pause \/ Shutdown \/ Destruct \/ Join

Connect == InitPlatform \/ CreateClient \/ Enable

Run == SetUp \/ CheckStop \/ Disable \/ Disconnect \/ Connect \/ Leave \/ SignalStop \/ EndRun

RunClient == CreateStopEvent \/ Run \/ DestroyClient \/ Unwind \/ Recover

Next == Service \/ RunClient \/ TokenFound \/ TokenMissing

Spec == Init /\ [][Next]_vars

-----------------------------------------------------------------------------
(* Properties *)

\* Every variable keeps its type, and the platform is initialized once.
TypeOK ==
    /\ svc \in {"start", "idle", "setEvent", "returned", "join", "exited"}
    /\ status \in {"START_PENDING", "RUNNING", "PAUSED", "STOP_PENDING", "STOPPED"}
    /\ stopEvent \in {"none", "clear", "set", "closed"}
    /\ pc \in {"off", "create", "setup", "wait", "disable", "disconnect", "init", "token",
               "connect", "enable", "leave", "stopHandlers", "deinitialize",
               "destroyClient", "unwind", "recover", "ended", "crashed"}
    /\ dps \in BOOLEAN /\ triedDps \in BOOLEAN /\ connected \in BOOLEAN
    /\ platform \in 0 .. 1
    /\ clientHandle \in Handles \cup {NoHandle}
    /\ hostHandle \in Handles \cup {NoHandle}
    /\ live \subseteq Handles
    /\ handlers \in {"none", "started", "stopped"}
    /\ told \in {"none", "online", "offline"}
    /\ late \in 0 .. 2

(***************************************************************************)
(* No connection to the IoT Hub is left behind: through renewals, failures *)
(* at any step and restarts of Run there is at most one client, and the    *)
(* worker still holds the handle that can destroy it.                      *)
(***************************************************************************)
NoConnectionLeaks == live \subseteq {clientHandle}

(***************************************************************************)
(* In the loop of Run, connected means connected: the handle that the      *)
(* handlers' reports use is that of the one live client, also after a      *)
(* renewal, and the started handlers were last told they are online.       *)
(***************************************************************************)
ReportsReachConnection ==
    pc = "wait" /\ connected =>
        /\ hostHandle = clientHandle
        /\ live = {hostHandle}
        /\ platform = 1
        /\ handlers = "started" /\ told = "online"

(***************************************************************************)
(* There is at most one connection to the IoT Hub, and it is used: nothing *)
(* is left behind that no handle can destroy, and the reports of handlers  *)
(* reach the live client.  (AzureDMClient::Run and AzureRawHost.)          *)
(***************************************************************************)
ConnectionHeldAndUsed == NoConnectionLeaks /\ ReportsReachConnection

(***************************************************************************)
(* While the event is there and set, the worker begins at most one more    *)
(* connection, whatever fails: a failed run that is set up again finds the *)
(* event before it connects.                                               *)
(***************************************************************************)
StopSeenBeforeConnecting == stopEvent = "set" => late <= 1

=============================================================================
