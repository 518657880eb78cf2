------------------------- MODULE PluginHostLifecycle -------------------------
(***************************************************************************)
(* The agent's end of an out-of-process plugin from launch to unload:      *)
(* PluginNamedPipeAgentTransport and the closing half of                   *)
(* PluginNamedPipeBaseTransport.                                           *)
(*                                                                         *)
(* A thread that invokes the plugin launches the host process when there   *)
(* is none, then exchanges messages with it.  A monitor thread waits for   *)
(* the process to exit, for the shutdown event or for the keep-alive time, *)
(* and takes the transport down.  All of them meet on the recursive _mutex *)
(* and by joining each other's threads.  What travels in the messages is   *)
(* PluginTransport's subject; here a message is sent and answered.         *)
(***************************************************************************)
EXTENDS Integers, Sequences, FiniteSets

CONSTANTS
    Callers,         \* agent threads that load, invoke and unload the plugin
    Monitor,         \* the monitor thread, at most one at a time
    NoThread,
    ReplayMessages,  \* bound: messages OnPluginLoaded sends to a new host
    MayCrash,        \* the host process may die by itself
    MayTimeOut,      \* keepAliveTime is finite
    MayUnload,       \* the plugin may be unloaded
    MayFailLaunch,   \* CreateNamedPipe or CreateProcess may fail
    QuietLoad        \* the host neither crashes nor times out during Load,
                     \* which takes no lock

ASSUME ThreadsDistinct ==
    /\ Monitor \notin Callers
    /\ NoThread \notin Callers \cup {Monitor}

ASSUME ParametersOK ==
    /\ ReplayMessages \in Nat \ {0}
    /\ {MayCrash, MayTimeOut, MayUnload, MayFailLaunch, QuietLoad} \subseteq BOOLEAN

Threads == Callers \cup {Monitor}

VARIABLES
    pc,             \* control point of each thread
    pending,        \* messages a caller has still to exchange, innermost first:
                    \* "fresh" before SendAndGetResponse took _mutex for it
    outcome,        \* how a caller's last operation ended
    stage,          \* of the plugin: a plugin whose Load throws is dropped
    mutex,          \* owner of _mutex
    initialized,    \* _pluginHostInitialized
    pipes,          \* _hReadPipe and _hWritePipe: "connected" once a host opened
                    \* their other ends, whether or not it is still there
    shutdownEvent,  \* _hShutdownNotification, manual reset
    response,       \* a response is queued and _hResponseNotification set
    cause,          \* which wait of RunPluginHostMonitor was satisfied
    messageHandler, \* the two threads of the base transport:
    requestProcessor, \* "none", "running", or "exited" and not yet joined
    host,           \* the plugin host process last launched
    asked           \* the host holds a request it has not answered

vars == <<pc, pending, outcome, stage, mutex, initialized, pipes, shutdownEvent, response,
          cause, messageHandler, requestProcessor, host, asked>>
procVars == <<messageHandler, requestProcessor, host, asked>>
handleVars == <<initialized, pipes, shutdownEvent, response>>

Init ==
    /\ pc = [t \in Threads |-> IF t = Monitor THEN "none" ELSE "idle"]
    /\ pending = [c \in Callers |-> << >>]
    /\ outcome = [c \in Callers |-> "none"]
    /\ stage = "new"
    /\ mutex = NoThread
    /\ initialized = FALSE
    /\ pipes = "invalid"
    /\ shutdownEvent = "invalid"
    /\ response = FALSE
    /\ cause = "none"
    /\ messageHandler = "none"
    /\ requestProcessor = "none"
    /\ host = "none"
    /\ asked = FALSE

Alive == host \in {"starting", "running"}
\* Mutant: nobody waits for the mutex.
MayLockAlways(t) == TRUE

MayLock(t) == mutex \in {NoThread, t}
Goto(t, l) == pc' = [pc EXCEPT ![t] = l]
Replay == [i \in 1 .. ReplayMessages |-> "fresh"]

-----------------------------------------------------------------------------
(* OutOfProcPluginBinaryProxy::Load, Invoke and Unload enter the transport *)

\* Load calls Initialize and, unlike Invoke, takes no lock first.
Load(c) ==
    /\ stage = "new"
    /\ stage' = "loading"
    /\ Goto(c, "launch")
    /\ UNCHANGED <<pending, outcome, mutex, cause, handleVars, procVars>>

Invoke(c) ==
    /\ pc[c] = "idle"
    /\ stage = "loaded"
    /\ pending' = [pending EXCEPT ![c] = <<"fresh">>]
    /\ Goto(c, "lock")
    /\ UNCHANGED <<outcome, stage, mutex, cause, handleVars, procVars>>

\* The agent unloads its plugins when no other thread of it uses them.
Unload(c) ==
    /\ MayUnload
    /\ stage = "loaded"
    /\ \A t \in Callers : pc[t] = "idle"
    /\ stage' = "unloading"
    /\ Goto(c, "lockClose")
    /\ UNCHANGED <<pending, outcome, mutex, cause, handleVars, procVars>>

-----------------------------------------------------------------------------
(* SendAndGetResponse and Initialize *)

\* Mutant: _pluginHostInitialized is not looked at.
EnterAndLaunch(c) ==
    /\ pc[c] = "lock"
    /\ MayLock(c)
    /\ mutex' = c
    /\ pending' = [pending EXCEPT ![c][1] = "locked"]
    /\ Goto(c, "launch")
    /\ UNCHANGED <<outcome, stage, cause, handleVars, procVars>>

\* Initialize returns at once when _pluginHostInitialized is still set.
Enter(c) ==
    /\ pc[c] = "lock"
    /\ MayLock(c)
    /\ mutex' = c
    /\ pending' = [pending EXCEPT ![c][1] = "locked"]
    /\ Goto(c, IF initialized THEN "send" ELSE "launch")
    /\ UNCHANGED <<outcome, stage, cause, handleVars, procVars>>

\* InitializeDequeEvents, the two CreateNamedPipe calls and CreateProcess.
Launch(c) ==
    /\ pc[c] = "launch"
    /\ shutdownEvent' = "clear"
    /\ response' = FALSE
    /\ pipes' = "listening"
    /\ host' = "starting"
    /\ asked' = FALSE
    /\ Goto(c, "joinMonitor")
    /\ UNCHANGED <<pending, outcome, stage, mutex, initialized, cause,
                   messageHandler, requestProcessor>>

Fail(c) ==
    /\ pending' = [pending EXCEPT ![c] = << >>]
    /\ outcome' = [outcome EXCEPT ![c] = "failed"]
    /\ stage' = IF stage = "loading" THEN "dropped" ELSE stage
    /\ mutex' = IF mutex = c THEN NoThread ELSE mutex
    /\ Goto(c, "idle")

LaunchFails(c) ==
    /\ pc[c] = "launch"
    /\ MayFailLaunch
    /\ shutdownEvent' = "clear"
    /\ response' = FALSE
    /\ pipes' \in {"listening", "invalid"}
    /\ Fail(c)
    /\ UNCHANGED <<initialized, cause, procVars>>

\* LaunchPluginHost joins the previous monitor, then starts the new one.
JoinOldMonitor(c) ==
    /\ pc[c] = "joinMonitor"
    /\ pc[Monitor] \in {"none", "exited"}
    /\ pc' = [pc EXCEPT ![c] = "connect", ![Monitor] = "watch"]
    /\ UNCHANGED <<pending, outcome, stage, mutex, cause, handleVars, procVars>>

\* ConnectNamedPipe waits until the host has opened the pipe's other end and
\* returns at once if that host is gone already or the handle was closed;
\* nobody looks at its result.
Connect(c) ==
    /\ pc[c] = "connect"
    /\ pipes # "listening"
    /\ shutdownEvent' = IF shutdownEvent = "invalid" THEN "invalid" ELSE "clear"
    /\ response' = FALSE
    /\ initialized' = TRUE
    /\ Goto(c, "restartHandler")
    /\ UNCHANGED <<pending, outcome, stage, mutex, pipes, cause, procVars>>

\* Mutant: the message handler's thread is not started again.
RestartNoMessageHandler(c) ==
    /\ pc[c] = "restartHandler"
    /\ Goto(c, "restartProcessor")
    /\ UNCHANGED <<pending, outcome, stage, mutex, cause, handleVars, procVars>>

RestartMessageHandler(c) ==
    /\ pc[c] = "restartHandler"
    /\ messageHandler # "running"
    /\ messageHandler' = "running"
    /\ Goto(c, "restartProcessor")
    /\ UNCHANGED <<pending, outcome, stage, mutex, cause, handleVars, requestProcessor, host, asked>>

\* After this RestartMonitorThreads returns and OnPluginLoaded sends its messages.
RestartRequestProcessor(c) ==
    /\ pc[c] = "restartProcessor"
    /\ requestProcessor # "running"
    /\ requestProcessor' = "running"
    /\ pending' = [pending EXCEPT ![c] = Replay \o @]
    /\ Goto(c, "lock")
    /\ UNCHANGED <<outcome, stage, mutex, cause, handleVars, messageHandler, host, asked>>

Writable == pipes = "connected" /\ host = "running"

Send(c) ==
    /\ pc[c] = "send"
    /\ Writable
    /\ asked' = TRUE
    /\ Goto(c, "await")
    /\ UNCHANGED <<pending, outcome, stage, mutex, cause, handleVars,
                   messageHandler, requestProcessor, host>>

\* WriteFile fails and WriteMessage throws through every caller of it.
SendFails(c) ==
    /\ pc[c] = "send"
    /\ ~Writable
    /\ Fail(c)
    /\ UNCHANGED <<cause, handleVars, procVars>>

\* WaitForSingleObject(INFINITE), Pop, and the lock_guard's destructor.
Receive(c) ==
    LET rest == Tail(pending[c])
        held == \E i \in 1 .. Len(rest) : rest[i] = "locked"
    IN  /\ pc[c] = "await"
        /\ response
        /\ response' = FALSE
        /\ pending' = [pending EXCEPT ![c] = rest]
        /\ mutex' = IF held THEN c ELSE NoThread
        /\ outcome' = [outcome EXCEPT ![c] = IF rest = << >> THEN "ok" ELSE @]
        /\ stage' = IF rest = << >> THEN "loaded" ELSE stage
        /\ Goto(c, IF rest = << >> THEN "idle"
                   ELSE IF rest[1] = "locked" THEN "send" ELSE "lock")
        /\ UNCHANGED <<initialized, pipes, shutdownEvent, cause, procVars>>

-----------------------------------------------------------------------------
(* The host process and the base transport's two threads *)

HostConnects ==
    /\ host = "starting"
    /\ pipes = "listening"
    /\ pipes' = "connected"
    /\ host' = "running"
    /\ UNCHANGED <<pc, pending, outcome, stage, mutex, cause, initialized, shutdownEvent,
                   response, messageHandler, requestProcessor, asked>>

HostAnswers ==
    /\ host = "running"
    /\ asked
    /\ messageHandler = "running"
    /\ asked' = FALSE
    /\ response' = TRUE
    /\ UNCHANGED <<pc, pending, outcome, stage, mutex, cause, initialized, pipes,
                   shutdownEvent, messageHandler, requestProcessor, host>>

HostCrashes ==
    /\ MayCrash
    /\ ~(QuietLoad /\ stage = "loading")
    /\ Alive
    /\ host' = "dead"
    /\ asked' = FALSE
    /\ UNCHANGED <<pc, pending, outcome, stage, mutex, cause, handleVars,
                   messageHandler, requestProcessor>>

\* ReadFile returns only when the pipe breaks; the shutdown event does not wake it.
MessageHandlerExits ==
    /\ messageHandler = "running"
    /\ ~Writable
    /\ messageHandler' = "exited"
    /\ UNCHANGED <<pc, pending, outcome, stage, mutex, cause, handleVars,
                   requestProcessor, host, asked>>

\* The wait for the shutdown event fails, and ends, if the event was closed.
RequestProcessorExits ==
    /\ requestProcessor = "running"
    /\ shutdownEvent # "clear"
    /\ requestProcessor' = "exited"
    /\ UNCHANGED <<pc, pending, outcome, stage, mutex, cause, handleVars,
                   messageHandler, host, asked>>

-----------------------------------------------------------------------------
(* RunPluginHostMonitor *)

MonitorSeesExit ==
    /\ pc[Monitor] = "watch"
    /\ host = "dead"
    /\ cause' = "exit"
    /\ Goto(Monitor, "clearFirst")
    /\ UNCHANGED <<pending, outcome, stage, mutex, handleVars, procVars>>

MonitorSeesShutdown ==
    /\ pc[Monitor] = "watch"
    /\ host # "dead"
    /\ shutdownEvent = "set"
    /\ cause' = "shutdown"
    /\ Goto(Monitor, "lockKill")
    /\ UNCHANGED <<pending, outcome, stage, mutex, handleVars, procVars>>

\* The time runs from the launch; no call restarts it.
MonitorTimesOut ==
    /\ MayTimeOut
    /\ pc[Monitor] = "watch"
    /\ host # "dead"
    /\ shutdownEvent # "set"
    /\ ~(QuietLoad /\ stage = "loading")
    /\ cause' = "timeout"
    /\ Goto(Monitor, "lockKill")
    /\ UNCHANGED <<pending, outcome, stage, mutex, handleVars, procVars>>

\* _pluginHostInitialized = false, without _mutex, before CloseTransport...
ClearBeforeClose ==
    /\ pc[Monitor] = "clearFirst"
    /\ initialized' = FALSE
    /\ Goto(Monitor, "lockClose")
    /\ UNCHANGED <<pending, outcome, stage, mutex, pipes, shutdownEvent, response, cause, procVars>>

\* ... or as the monitor's last statement.
ClearAtEnd ==
    /\ pc[Monitor] = "clearLast"
    /\ initialized' = FALSE
    /\ Goto(Monitor, "exited")
    /\ UNCHANGED <<pending, outcome, stage, mutex, pipes, shutdownEvent, response, cause, procVars>>

\* Mutant: SendShutdownToPluginHost does not wait for the mutex.
ShutdownUnlocked ==
    /\ pc[Monitor] = "lockKill"
    /\ Goto(Monitor, "kill")
    /\ UNCHANGED <<pending, outcome, stage, mutex, cause, handleVars, procVars>>

LockForShutdown ==
    /\ pc[Monitor] = "lockKill"
    /\ MayLock(Monitor)
    /\ mutex' = Monitor
    /\ Goto(Monitor, "kill")
    /\ UNCHANGED <<pending, outcome, stage, cause, handleVars, procVars>>

\* The message, the five seconds' wait and TerminateProcess, which comes in any case.
SendShutdownToPluginHost ==
    /\ pc[Monitor] = "kill"
    /\ host' = "dead"
    /\ asked' = FALSE
    /\ mutex' = NoThread
    /\ Goto(Monitor, IF cause = "timeout" THEN "lockClose" ELSE "clearLast")
    /\ UNCHANGED <<pending, outcome, stage, cause, handleVars, messageHandler, requestProcessor>>

-----------------------------------------------------------------------------
(* CloseTransport, by the monitor or by a caller that unloads the plugin *)

LockToClose(t) ==
    /\ pc[t] = "lockClose"
    /\ MayLock(t)
    /\ mutex' = t
    /\ shutdownEvent' = IF shutdownEvent = "invalid" THEN "invalid" ELSE "set"
    /\ Goto(t, "joinHandler")
    /\ UNCHANGED <<pending, outcome, stage, cause, initialized, pipes, response, procVars>>

JoinMessageHandler(t) ==
    /\ pc[t] = "joinHandler"
    /\ messageHandler # "running"
    /\ messageHandler' = "none"
    /\ Goto(t, "joinProcessor")
    /\ UNCHANGED <<pending, outcome, stage, mutex, cause, handleVars, requestProcessor, host, asked>>

JoinRequestProcessor(t) ==
    /\ pc[t] = "joinProcessor"
    /\ requestProcessor # "running"
    /\ requestProcessor' = "none"
    /\ Goto(t, IF t = Monitor THEN "close" ELSE "joinMonitor2")
    /\ UNCHANGED <<pending, outcome, stage, mutex, cause, handleVars, messageHandler, host, asked>>

\* Only a thread other than the monitor joins the monitor.
JoinMonitor(t) ==
    /\ pc[t] = "joinMonitor2"
    /\ pc[Monitor] \in {"none", "exited"}
    /\ pc' = [pc EXCEPT ![t] = "close", ![Monitor] = "none"]
    /\ UNCHANGED <<pending, outcome, stage, mutex, cause, handleVars, procVars>>

CloseHandles(t) ==
    /\ pc[t] = "close"
    /\ response' = FALSE
    /\ pipes' = "invalid"
    /\ shutdownEvent' = "invalid"
    /\ mutex' = NoThread
    /\ Goto(t, IF t # Monitor THEN "unloaded"
               ELSE IF cause = "timeout" THEN "clearLast" ELSE "exited")
    /\ UNCHANGED <<pending, outcome, stage, initialized, cause, procVars>>

-----------------------------------------------------------------------------
Initialize(c) ==
    \/ Launch(c) \/ LaunchFails(c) \/ JoinOldMonitor(c) \/ Connect(c)
    \/ RestartMessageHandler(c) \/ RestartRequestProcessor(c)

SendAndGetResponse(c) == Enter(c) \/ Send(c) \/ SendFails(c) \/ Receive(c)

RunPluginHostMonitor ==
    \/ MonitorSeesExit \/ MonitorSeesShutdown \/ MonitorTimesOut
    \/ ClearBeforeClose \/ ClearAtEnd
    \/ LockForShutdown \/ SendShutdownToPluginHost

CloseTransport(t) ==
    \/ LockToClose(t) \/ JoinMessageHandler(t) \/ JoinRequestProcessor(t)
    \/ JoinMonitor(t) \/ CloseHandles(t)

Background ==
    \/ HostConnects \/ HostAnswers \/ HostCrashes
    \/ MessageHandlerExits \/ RequestProcessorExits

Next ==
    \/ \E c \in Callers : Load(c) \/ Invoke(c) \/ Unload(c)
    \/ \E c \in Callers : Initialize(c) \/ SendAndGetResponse(c)
    \/ \E t \in Threads : CloseTransport(t)
    \/ RunPluginHostMonitor
    \/ Background

Spec == Init /\ [][Next]_vars

(***************************************************************************)
(* Threads and the host process are scheduled.  Weak fairness only: the    *)
(* mutex is not fair, a host need not crash, a time-out need not come and  *)
(* nobody has to start an operation.                                       *)
(***************************************************************************)
Fairness ==
    /\ \A c \in Callers :
         /\ WF_vars(Enter(c)) /\ WF_vars(Send(c)) /\ WF_vars(SendFails(c))
         /\ WF_vars(Receive(c)) /\ WF_vars(Launch(c) \/ LaunchFails(c))
         /\ WF_vars(JoinOldMonitor(c)) /\ WF_vars(Connect(c))
         /\ WF_vars(RestartMessageHandler(c)) /\ WF_vars(RestartRequestProcessor(c))
    /\ \A t \in Threads :
         /\ WF_vars(LockToClose(t)) /\ WF_vars(JoinMessageHandler(t))
         /\ WF_vars(JoinRequestProcessor(t)) /\ WF_vars(JoinMonitor(t))
         /\ WF_vars(CloseHandles(t))
    /\ WF_vars(MonitorSeesExit) /\ WF_vars(MonitorSeesShutdown)
    /\ WF_vars(ClearBeforeClose) /\ WF_vars(ClearAtEnd)
    /\ WF_vars(LockForShutdown) /\ WF_vars(SendShutdownToPluginHost)
    /\ WF_vars(HostConnects) /\ WF_vars(HostAnswers)
    /\ WF_vars(MessageHandlerExits) /\ WF_vars(RequestProcessorExits)

FairSpec == Spec /\ Fairness

-----------------------------------------------------------------------------
(* Properties *)

Initializing == {"launch", "joinMonitor", "connect", "restartHandler", "restartProcessor"}
ClosePoints == {"lockClose", "joinHandler", "joinProcessor", "close"}
CallerPoints == {"idle", "lock", "send", "await", "joinMonitor2", "unloaded"}
                  \cup Initializing \cup ClosePoints
MonitorPoints == {"none", "watch", "clearFirst", "lockKill", "kill", "clearLast", "exited"}
                   \cup ClosePoints

\* Every variable keeps its type.
TypeOK ==
    /\ pc \in [Threads -> CallerPoints \cup MonitorPoints]
    /\ pc[Monitor] \in MonitorPoints
    /\ \A c \in Callers : pc[c] \in CallerPoints
    /\ pending \in [Callers -> Seq({"fresh", "locked"})]
    /\ outcome \in [Callers -> {"none", "ok", "failed"}]
    /\ stage \in {"new", "loading", "loaded", "dropped", "unloading"}
    /\ mutex \in Threads \cup {NoThread}
    /\ initialized \in BOOLEAN
    /\ pipes \in {"invalid", "listening", "connected"}
    /\ shutdownEvent \in {"invalid", "clear", "set"}
    /\ response \in BOOLEAN
    /\ cause \in {"none", "exit", "shutdown", "timeout"}
    /\ messageHandler \in {"none", "running", "exited"}
    /\ requestProcessor \in {"none", "running", "exited"}
    /\ host \in {"none", "starting", "running", "dead"}
    /\ asked \in BOOLEAN

\* Points at which a thread of CloseTransport is past the lock.
Closing(t) == pc[t] \in {"joinHandler", "joinProcessor", "joinMonitor2", "close"}

(***************************************************************************)
(* The monitor only ever takes down the transport of a host that is gone:  *)
(* between its unlocked write of _pluginHostInitialized and its            *)
(* CloseTransport another thread may relaunch the host, and must not find  *)
(* the new host's pipes and events closed under it.                        *)
(***************************************************************************)
MonitorClosesOnlyDeadHost == Closing(Monitor) => host = "dead"

(***************************************************************************)
(* "If the process exited, uninitialize the plugin": once the monitor has  *)
(* done with a host that exited and no operation is under way,             *)
(* _pluginHostInitialized is off and the next call launches a new host.    *)
(* The monitor clears it before it can take _mutex; Initialize, which      *)
(* holds _mutex and has not looked at ConnectNamedPipe's results, may set  *)
(* it afterwards, and nothing ever clears it again.                        *)
(***************************************************************************)
ExitedHostIsUninitialized ==
    pc[Monitor] = "exited" /\ cause = "exit" /\ (\A c \in Callers : pc[c] = "idle")
        => ~initialized

(***************************************************************************)
(* TerminateProcess never cuts off a call: while the monitor stops the     *)
(* host no thread is between its write and its response.                   *)
(***************************************************************************)
ShutdownWaitsForCalls ==
    pc[Monitor] = "kill" => \A c \in Callers : pc[c] \notin {"send", "await"}

(***************************************************************************)
(* A thread waiting for its response waits on events nobody has closed,    *)
(* and the thread that reads the pipe for it exists (it may have exited if *)
(* the host died).                                                         *)
(***************************************************************************)
WaitsOnOpenEvents ==
    \A c \in Callers : pc[c] = "await" =>
        pipes = "connected" /\ shutdownEvent # "invalid" /\ messageHandler # "none"

(***************************************************************************)
(* A host process is launched only when the previous one has ended, so no  *)
(* two hosts of one plugin ever run side by side.                          *)
(***************************************************************************)
OneHostAtATime ==
    [][\A c \in Callers : pc[c] = "launch" /\ pc'[c] = "joinMonitor" => ~Alive]_vars

Admitted(c) == pc[c] \notin {"idle", "lock", "unloaded"}

(***************************************************************************)
(* An operation that has entered the transport comes to an end: every      *)
(* invocation returns or throws, every unload returns.                     *)
(***************************************************************************)
OperationsEnd == \A c \in Callers : Admitted(c) ~> ~Admitted(c)

=============================================================================
