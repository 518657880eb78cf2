---------------------- MODULE PluginHostLifecycleProofs ----------------------
(***************************************************************************)
(* Proofs about PluginHostLifecycle for any number of agent threads, any   *)
(* number of replayed messages and whatever may go wrong.                  *)
(*                                                                         *)
(* The inductive invariant says who holds _mutex at which point, that a    *)
(* thread without it is in Initialize only while Load runs, and what the   *)
(* monitor's position says of _pluginHostInitialized and of the host.      *)
(***************************************************************************)
EXTENDS PluginHostLifecycle, TLAPS, SequenceTheorems

CallerHolds == {"send", "await", "joinHandler", "joinProcessor", "joinMonitor2", "close"}
MonitorHolds == {"kill", "joinHandler", "joinProcessor", "joinMonitor2", "close"}
Unconnected == {"launch", "joinMonitor", "connect"}

\* The mutex is held where the code is inside a lock_guard's scope.
LockInv ==
    /\ \A c \in Callers : pc[c] \in CallerHolds => mutex = c
    /\ pc[Monitor] \in MonitorHolds => mutex = Monitor

\* Only Load is in Initialize without the mutex, and then nobody else is.
LoadInv ==
    /\ stage = "new" => /\ \A c \in Callers : pc[c] = "idle"
                        /\ pc[Monitor] = "none"
                        /\ host = "none"
                        /\ ~initialized
                        /\ mutex = NoThread
    /\ stage = "loading" =>
         \A c, d \in Callers : pc[c] # "idle" /\ pc[d] # "idle" => c = d
    /\ \A c \in Callers : pc[c] \in Initializing => mutex = c \/ stage = "loading"
    /\ \A c \in Callers :
         pc[c] \in {"launch", "joinMonitor"} /\ mutex # c => pc[Monitor] = "none"

\* A live host is either announced by _pluginHostInitialized or being
\* connected to by the thread that launched it.
HostInv ==
    /\ \A c \in Callers : pc[c] \in Unconnected => ~initialized
    /\ \A c \in Callers : pc[c] = "launch" => ~Alive
    /\ Alive /\ ~initialized =>
         \E c \in Callers : pc[c] \in {"joinMonitor", "connect"}

\* Where the monitor has not yet cleared the flag, it is set or about to be.
Pending(l) == \/ l \in {"watch", "clearFirst", "lockKill", "kill", "clearLast"}
              \/ cause = "timeout" /\ l \in {"lockClose"} \cup MonitorHolds

MonitorInv ==
    /\ pc[Monitor] = "clearFirst" => cause = "exit"
    /\ pc[Monitor] \in {"lockKill", "kill", "clearLast"} => cause \in {"shutdown", "timeout"}
    /\ Closing(Monitor) \/ pc[Monitor] = "lockClose" => cause \in {"exit", "timeout"}
    /\ Pending(pc[Monitor]) =>
         initialized \/ \E c \in Callers : pc[c] = "connect"
    /\ pc[Monitor] \in {"clearFirst", "clearLast"} \/ Closing(Monitor) => host = "dead"
    /\ pc[Monitor] = "lockClose" /\ host # "dead" =>
         cause = "exit" /\ \E c \in Callers : pc[c] = "joinMonitor" /\ mutex = c

IInv == TypeOK /\ LockInv /\ LoadInv /\ HostInv /\ MonitorInv

-----------------------------------------------------------------------------
(* Type correctness.  The parts are proved apart: they need different provers. *)

PcOK ==
    /\ pc \in [Threads -> CallerPoints \cup MonitorPoints]
    /\ pc[Monitor] \in MonitorPoints
    /\ \A c \in Callers : pc[c] \in CallerPoints

FlagsOK == initialized \in BOOLEAN /\ response \in BOOLEAN /\ asked \in BOOLEAN

PendingOK == pending \in [Callers -> Seq({"fresh", "locked"})]

ValuesOK ==
    /\ outcome \in [Callers -> {"none", "ok", "failed"}]
    /\ stage \in {"new", "loading", "loaded", "dropped", "unloading"}
    /\ mutex \in Threads \cup {NoThread}
    /\ pipes \in {"invalid", "listening", "connected"}
    /\ shutdownEvent \in {"invalid", "clear", "set"}
    /\ cause \in {"none", "exit", "shutdown", "timeout"}
    /\ messageHandler \in {"none", "running", "exited"}
    /\ requestProcessor \in {"none", "running", "exited"}
    /\ host \in {"none", "starting", "running", "dead"}

\* The four parts are the type invariant.
LEMMA TypeParts == TypeOK <=> PcOK /\ FlagsOK /\ PendingOK /\ ValuesOK
  BY Zenon DEF TypeOK, PcOK, FlagsOK, PendingOK, ValuesOK

\* Goto moves one thread and no other.
LEMMA GotoMoves ==
  ASSUME PcOK, NEW t \in Threads, NEW l, Goto(t, l)
  PROVE  pc'[t] = l /\ \A u \in Threads : u # t => pc'[u] = pc[u]
  BY DEF PcOK, Goto

\* A caller is a thread and is not the monitor.
LEMMA CallersAreThreads ==
  Monitor \in Threads /\ \A c \in Callers : c \in Threads /\ c # Monitor
  BY ThreadsDistinct DEF Threads

\* A caller that goes to a point of the callers' code keeps the points typed.
LEMMA CallerGoto ==
  ASSUME PcOK, NEW c \in Callers, NEW l \in CallerPoints, Goto(c, l)
  PROVE  PcOK'
  BY CallersAreThreads DEF PcOK, Goto

\* So does the monitor.
LEMMA MonitorGoto ==
  ASSUME PcOK, NEW l \in MonitorPoints, Goto(Monitor, l)
  PROVE  PcOK'
  BY CallersAreThreads DEF PcOK, Goto

\* Control points keep their types.
LEMMA PcStep == PcOK /\ [Next]_vars => PcOK'
<1> SUFFICES ASSUME PcOK, [Next]_vars PROVE PcOK'
  OBVIOUS
<1>a. {"launch", "lock", "lockClose", "send", "joinMonitor", "connect", "restartHandler",
       "restartProcessor", "await", "idle", "joinHandler", "joinProcessor", "joinMonitor2",
       "close", "unloaded"} \subseteq CallerPoints
  BY DEF CallerPoints, Initializing, ClosePoints
<1>b. {"none", "watch", "clearFirst", "lockKill", "kill", "clearLast", "exited", "lockClose",
       "joinHandler", "joinProcessor", "close"} \subseteq MonitorPoints
  BY DEF MonitorPoints, ClosePoints
<1>1. ASSUME NEW c \in Callers, Load(c) \/ Invoke(c) \/ Unload(c) PROVE PcOK'
  BY <1>1, <1>a, CallerGoto DEF Load, Invoke, Unload
<1>2. ASSUME NEW c \in Callers, Initialize(c) PROVE PcOK'
  <2>1. CASE JoinOldMonitor(c)
    BY <2>1, <1>a, <1>b, CallersAreThreads DEF JoinOldMonitor, PcOK
  <2>2. CASE Launch(c) \/ LaunchFails(c) \/ Connect(c) \/ RestartMessageHandler(c)
               \/ RestartRequestProcessor(c)
    BY <2>2, <1>a, CallerGoto DEF Launch, LaunchFails, Fail, Connect, RestartMessageHandler,
       RestartRequestProcessor
  <2>3. QED
    BY <1>2, <2>1, <2>2, Zenon DEF Initialize
<1>3. ASSUME NEW c \in Callers, SendAndGetResponse(c) PROVE PcOK'
  <2>1. CASE Enter(c) \/ Send(c) \/ SendFails(c)
    BY <2>1, <1>a, CallerGoto DEF Enter, Send, SendFails, Fail
  <2>2. CASE Receive(c)
    BY <2>2, <1>a, CallerGoto DEF Receive
  <2>3. QED
    BY <1>3, <2>1, <2>2, Zenon DEF SendAndGetResponse
<1>4. ASSUME NEW t \in Threads, CloseTransport(t) PROVE PcOK'
  <2>1. CASE t \in Callers
    <3>1. CASE JoinMonitor(t)
      BY <2>1, <3>1, <1>a, <1>b, CallersAreThreads DEF JoinMonitor, PcOK
    <3>2. CASE LockToClose(t) \/ JoinMessageHandler(t) \/ JoinRequestProcessor(t)
                 \/ CloseHandles(t)
      BY <2>1, <3>2, <1>a, CallerGoto, CallersAreThreads
         DEF LockToClose, JoinMessageHandler, JoinRequestProcessor, CloseHandles
    <3>3. QED
      BY <1>4, <3>1, <3>2, Zenon DEF CloseTransport
  <2>2. CASE t = Monitor
    <3>1. pc[t] # "joinMonitor2"
      BY <2>2 DEF PcOK, MonitorPoints, ClosePoints
    <3>2. QED
      BY <1>4, <2>2, <3>1, <1>b, MonitorGoto DEF CloseTransport, LockToClose,
         JoinMessageHandler, JoinRequestProcessor, JoinMonitor, CloseHandles
  <2>3. QED
    BY <2>1, <2>2 DEF Threads
<1>5. CASE RunPluginHostMonitor
  BY <1>5, <1>b, MonitorGoto DEF RunPluginHostMonitor, MonitorSeesExit, MonitorSeesShutdown,
     MonitorTimesOut, ClearBeforeClose, ClearAtEnd, LockForShutdown, SendShutdownToPluginHost
<1>6. CASE Background
  BY <1>6 DEF Background, HostConnects, HostAnswers, HostCrashes, MessageHandlerExits,
     RequestProcessorExits, PcOK
<1>7. CASE UNCHANGED vars
  BY <1>7 DEF vars, PcOK
<1>8. QED
  BY <1>1, <1>2, <1>3, <1>4, <1>5, <1>6, <1>7 DEF Next

\* Every step keeps the flags Boolean.
LEMMA FlagsStep == FlagsOK /\ [Next]_vars => FlagsOK'
<1> SUFFICES ASSUME FlagsOK, [Next]_vars PROVE FlagsOK'
  OBVIOUS
<1> USE DEF FlagsOK, handleVars, procVars
<1>1. ASSUME NEW c \in Callers, Load(c) \/ Invoke(c) \/ Unload(c) PROVE FlagsOK'
  BY <1>1, Zenon DEF Load, Invoke, Unload
<1>2. ASSUME NEW c \in Callers, Initialize(c) PROVE FlagsOK'
  BY <1>2, Zenon DEF Initialize, Launch, LaunchFails, Fail, JoinOldMonitor, Connect,
     RestartMessageHandler, RestartRequestProcessor
<1>3. ASSUME NEW c \in Callers, SendAndGetResponse(c) PROVE FlagsOK'
  BY <1>3, Zenon DEF SendAndGetResponse, Enter, Send, SendFails, Fail, Receive
<1>4. ASSUME NEW t \in Threads, CloseTransport(t) PROVE FlagsOK'
  BY <1>4, Zenon DEF CloseTransport, LockToClose, JoinMessageHandler, JoinRequestProcessor,
     JoinMonitor, CloseHandles
<1>5. CASE RunPluginHostMonitor
  BY <1>5, Zenon DEF RunPluginHostMonitor, MonitorSeesExit, MonitorSeesShutdown,
     MonitorTimesOut, ClearBeforeClose, ClearAtEnd, LockForShutdown, SendShutdownToPluginHost
<1>6. CASE Background
  BY <1>6, Zenon DEF Background, HostConnects, HostAnswers, HostCrashes,
     MessageHandlerExits, RequestProcessorExits
<1>7. CASE UNCHANGED vars
  BY <1>7, Zenon DEF vars
<1> HIDE DEF FlagsOK
<1>8. QED
  BY <1>1, <1>2, <1>3, <1>4, <1>5, <1>6, <1>7, Zenon DEF Next


\* The tail of a sequence is a sequence, of the empty one too.
LEMMA TailTyped == ASSUME NEW T, NEW s \in Seq(T) PROVE Tail(s) \in Seq(T)
<1>1. CASE s = << >>
  BY <1>1
<1>2. CASE s # << >>
  BY <1>2, HeadTailProperties
<1>3. QED
  BY <1>1, <1>2

\* Replacing the first element, if there is one, gives a sequence.
LEMMA ExceptTyped ==
  ASSUME NEW T, NEW s \in Seq(T), NEW x \in T
  PROVE  [s EXCEPT ![1] = x] \in Seq(T)
<1>1. CASE s = << >>
  <2>1. DOMAIN s = {}
    BY <1>1
  <2>2. [s EXCEPT ![1] = x] = s
    BY <2>1
  <2>3. QED
    BY <2>2
<1>2. CASE s # << >>
  BY <1>2, ExceptSeq
<1>3. QED
  BY <1>1, <1>2

\* What a caller has still to send stays a sequence of messages.
LEMMA PendingStep == PendingOK /\ [Next]_vars => PendingOK'
<1> SUFFICES ASSUME PendingOK, [Next]_vars PROVE PendingOK'
  OBVIOUS
<1> DEFINE S == {"fresh", "locked"}
<1>1. ASSUME NEW c \in Callers, NEW s \in Seq(S), pending' = [pending EXCEPT ![c] = s]
      PROVE  PendingOK'
  BY <1>1 DEF PendingOK
<1>2. <<"fresh">> \in Seq(S) /\ << >> \in Seq(S) /\ Replay \in Seq(S)
  BY ParametersOK DEF Replay
<1>3. \A c \in Callers : pending[c] \in Seq(S)
  BY DEF PendingOK
<1>4. ASSUME NEW c \in Callers, Load(c) \/ Unload(c) PROVE PendingOK'
  BY <1>4 DEF Load, Unload, PendingOK
<1>5. ASSUME NEW c \in Callers, Invoke(c) PROVE PendingOK'
  BY <1>1, <1>2, <1>5 DEF Invoke
<1>6. ASSUME NEW c \in Callers, LaunchFails(c) \/ SendFails(c) PROVE PendingOK'
  BY <1>1, <1>2, <1>6 DEF LaunchFails, SendFails, Fail
<1>7. ASSUME NEW c \in Callers,
             Launch(c) \/ JoinOldMonitor(c) \/ Connect(c) \/ RestartMessageHandler(c) \/ Send(c)
      PROVE  PendingOK'
  BY <1>7 DEF Launch, JoinOldMonitor, Connect, RestartMessageHandler, Send, PendingOK
<1>8. ASSUME NEW c \in Callers, RestartRequestProcessor(c) PROVE PendingOK'
  <2>1. Replay \o pending[c] \in Seq(S)
    BY <1>2, <1>3
  <2>2. QED
    BY <1>1, <1>8, <2>1 DEF RestartRequestProcessor
<1>9. ASSUME NEW c \in Callers, Enter(c) PROVE PendingOK'
  <2> DEFINE s == [pending[c] EXCEPT ![1] = "locked"]
  <2>1. s \in Seq(S)
    BY <1>3, ExceptTyped
  <2>2. pending' = [pending EXCEPT ![c] = s]
    BY <1>9, Zenon DEF Enter
  <2>3. QED
    BY <1>1, <2>1, <2>2
<1>10. ASSUME NEW c \in Callers, Receive(c) PROVE PendingOK'
  <2>1. Tail(pending[c]) \in Seq(S)
    BY <1>3, TailTyped
  <2>2. QED
    BY <1>1, <1>10, <2>1 DEF Receive
<1>11. ASSUME NEW t \in Threads, CloseTransport(t) PROVE PendingOK'
  BY <1>11 DEF CloseTransport, LockToClose, JoinMessageHandler, JoinRequestProcessor,
     JoinMonitor, CloseHandles, PendingOK
<1>12. CASE RunPluginHostMonitor
  BY <1>12 DEF RunPluginHostMonitor, MonitorSeesExit, MonitorSeesShutdown, MonitorTimesOut,
     ClearBeforeClose, ClearAtEnd, LockForShutdown, SendShutdownToPluginHost, PendingOK
<1>13. CASE Background
  BY <1>13 DEF Background, HostConnects, HostAnswers, HostCrashes, MessageHandlerExits,
     RequestProcessorExits, PendingOK
<1>14. CASE UNCHANGED vars
  BY <1>14 DEF vars, PendingOK
<1>15. QED
  BY <1>4, <1>5, <1>6, <1>7, <1>8, <1>9, <1>10, <1>11, <1>12, <1>13, <1>14, Zenon
     DEF Next, Initialize, SendAndGetResponse

\* The other variables keep their types.
LEMMA ValuesStep == ValuesOK /\ [Next]_vars => ValuesOK'
<1> SUFFICES ASSUME ValuesOK, [Next]_vars PROVE ValuesOK'
  OBVIOUS
<1> USE CallersAreThreads DEF ValuesOK, handleVars, procVars
<1>1. ASSUME NEW c \in Callers, Load(c) \/ Invoke(c) \/ Unload(c) PROVE ValuesOK'
  BY <1>1 DEF Load, Invoke, Unload
<1>2. ASSUME NEW c \in Callers, Initialize(c) PROVE ValuesOK'
  BY <1>2 DEF Initialize, Launch, LaunchFails, Fail, JoinOldMonitor, Connect,
     RestartMessageHandler, RestartRequestProcessor
<1>3. ASSUME NEW c \in Callers, SendAndGetResponse(c) PROVE ValuesOK'
  BY <1>3 DEF SendAndGetResponse, Enter, Send, SendFails, Fail, Receive
<1>4. ASSUME NEW t \in Threads, CloseTransport(t) PROVE ValuesOK'
  BY <1>4 DEF CloseTransport, LockToClose, JoinMessageHandler, JoinRequestProcessor,
     JoinMonitor, CloseHandles
<1>5. CASE RunPluginHostMonitor
  BY <1>5 DEF RunPluginHostMonitor, MonitorSeesExit, MonitorSeesShutdown,
     MonitorTimesOut, ClearBeforeClose, ClearAtEnd, LockForShutdown, SendShutdownToPluginHost
<1>6. CASE Background
  BY <1>6 DEF Background, HostConnects, HostAnswers, HostCrashes,
     MessageHandlerExits, RequestProcessorExits
<1>7. CASE UNCHANGED vars
  BY <1>7 DEF vars
<1> HIDE DEF ValuesOK
<1>8. QED
  BY <1>1, <1>2, <1>3, <1>4, <1>5, <1>6, <1>7, Zenon DEF Next

\* The initial state has the types.
LEMMA InitTypes == Init => TypeOK
<1> SUFFICES ASSUME Init PROVE TypeOK
  OBVIOUS
<1>1. PcOK
  BY CallersAreThreads DEF Init, PcOK, CallerPoints, MonitorPoints
<1>2. FlagsOK
  BY Zenon DEF Init, FlagsOK
<1>3. PendingOK
  BY DEF Init, PendingOK
<1>4. ValuesOK
  BY DEF Init, ValuesOK
<1>5. QED
  BY <1>1, <1>2, <1>3, <1>4, TypeParts

\* Every step keeps the types.
LEMMA TypeStep == TypeOK /\ [Next]_vars => TypeOK'
<1> SUFFICES ASSUME TypeOK, [Next]_vars PROVE TypeOK'
  OBVIOUS
<1>1. PcOK' /\ FlagsOK' /\ PendingOK' /\ ValuesOK'
  BY TypeParts, PcStep, FlagsStep, PendingStep, ValuesStep
<1>2. QED
  BY <1>1, Zenon DEF TypeOK, PcOK, FlagsOK, PendingOK, ValuesOK

\* Every variable keeps its type, whatever the threads and the host do.
THEOREM TypeCorrect == Spec => []TypeOK
  BY InitTypes, TypeStep, PTL DEF Spec

-----------------------------------------------------------------------------
(* Who holds the mutex *)

\* The two joins of the monitor move the joining thread and the monitor.
LEMMA JoinOldMoves ==
  ASSUME PcOK, NEW t \in Callers, JoinOldMonitor(t)
  PROVE  /\ pc'[t] = "connect" /\ pc'[Monitor] = "watch"
         /\ \A u \in Callers : u # t => pc'[u] = pc[u]
  BY CallersAreThreads DEF PcOK, JoinOldMonitor

\* JoinMonitor moves only the thread that joins, and ends the monitor.
LEMMA JoinMoves ==
  ASSUME PcOK, NEW t \in Callers, JoinMonitor(t)
  PROVE  /\ pc'[t] = "close" /\ pc'[Monitor] = "none"
         /\ \A u \in Callers : u # t => pc'[u] = pc[u]
  BY CallersAreThreads DEF PcOK, JoinMonitor

\* The monitor never joins itself.
LEMMA MonitorDoesNotJoin == PcOK => ~JoinMonitor(Monitor)
  BY DEF PcOK, MonitorPoints, ClosePoints, JoinMonitor

\* After its response a thread is done, or sends the message around the one
\* that was answered, whose lock it still holds, or starts the next message.
LEMMA ReceiveMoves ==
  ASSUME PendingOK, NEW c \in Callers, Receive(c)
  PROVE  /\ pc[c] = "await" /\ mutex' \in {c, NoThread}
         /\ \/ Goto(c, "idle") /\ stage' = "loaded"
            \/ Goto(c, "lock") /\ stage' = stage
            \/ Goto(c, "send") /\ stage' = stage /\ mutex' = c
<1> DEFINE rest == Tail(pending[c])
<1>1. rest \in Seq({"fresh", "locked"})
  BY TailTyped DEF PendingOK
<1>2. CASE rest = << >>
  BY <1>2 DEF Receive
<1>3. CASE rest # << >> /\ rest[1] = "locked"
  <2>1. \E i \in 1 .. Len(rest) : rest[i] = "locked"
    BY <1>1, <1>3
  <2>2. QED
    BY <1>3, <2>1 DEF Receive
<1>4. CASE rest # << >> /\ rest[1] # "locked"
  BY <1>4 DEF Receive
<1>5. QED
  BY <1>2, <1>3, <1>4

\* Every step respects the mutex.
LEMMA LockStep == TypeOK /\ LockInv /\ [Next]_vars => LockInv'
<1> SUFFICES ASSUME TypeOK, LockInv, [Next]_vars PROVE LockInv'
  OBVIOUS
<1>0. PcOK /\ PendingOK
  BY TypeParts
<1> USE <1>0, CallersAreThreads, ThreadsDistinct
    DEF LockInv, CallerHolds, MonitorHolds
<1>1. ASSUME NEW c \in Callers, Load(c) \/ Invoke(c) \/ Unload(c) PROVE LockInv'
  BY <1>1, GotoMoves DEF Load, Invoke, Unload
<1>2. ASSUME NEW c \in Callers, Initialize(c) PROVE LockInv'
  <2>1. CASE JoinOldMonitor(c)
    BY <2>1, JoinOldMoves DEF JoinOldMonitor
  <2>2. CASE Launch(c) \/ LaunchFails(c) \/ Connect(c) \/ RestartMessageHandler(c)
               \/ RestartRequestProcessor(c)
    BY <2>2, GotoMoves DEF Launch, LaunchFails, Fail, Connect, RestartMessageHandler,
       RestartRequestProcessor
  <2>3. QED
    BY <1>2, <2>1, <2>2, Zenon DEF Initialize
<1>3. ASSUME NEW c \in Callers, SendAndGetResponse(c) PROVE LockInv'
  <2>1. CASE Enter(c)
    <3>1. Goto(c, "send") \/ Goto(c, "launch")
      BY <2>1, Zenon DEF Enter
    <3>2. mutex \in {NoThread, c} /\ mutex' = c
      BY <2>1 DEF Enter, MayLock
    <3>3. QED
      BY <3>1, <3>2, GotoMoves
  <2>2. CASE Send(c) \/ SendFails(c)
    BY <2>2, GotoMoves DEF Send, SendFails, Fail
  <2>3. CASE Receive(c)
    BY <2>3, ReceiveMoves, GotoMoves
  <2>4. QED
    BY <1>3, <2>1, <2>2, <2>3, Zenon DEF SendAndGetResponse
<1>4. ASSUME NEW t \in Threads, CloseTransport(t) PROVE LockInv'
  <2>1. CASE t \in Callers /\ JoinMonitor(t)
    BY <2>1, JoinMoves DEF JoinMonitor
  <2>2. CASE LockToClose(t)
    BY <2>2, GotoMoves DEF LockToClose, MayLock, Threads
  <2>3. CASE JoinMessageHandler(t) \/ JoinRequestProcessor(t) \/ CloseHandles(t)
    BY <2>3, GotoMoves DEF JoinMessageHandler, JoinRequestProcessor, CloseHandles, Threads
  <2>4. QED
    BY <1>4, <2>1, <2>2, <2>3, MonitorDoesNotJoin DEF CloseTransport, Threads
<1>5. CASE RunPluginHostMonitor
  BY <1>5, GotoMoves DEF RunPluginHostMonitor, MonitorSeesExit, MonitorSeesShutdown,
     MonitorTimesOut, ClearBeforeClose, ClearAtEnd, LockForShutdown, MayLock,
     SendShutdownToPluginHost
<1>6. CASE Background
  BY <1>6 DEF Background, HostConnects, HostAnswers, HostCrashes, MessageHandlerExits,
     RequestProcessorExits
<1>7. CASE UNCHANGED vars
  BY <1>7 DEF vars
<1> HIDE DEF LockInv
<1>8. QED
  BY <1>1, <1>2, <1>3, <1>4, <1>5, <1>6, <1>7, Zenon DEF Next

-----------------------------------------------------------------------------
(* Initialize without the mutex *)

\* Threads in Initialize exclude each other: by the mutex, or because only
\* Load runs.
LEMMA Exclusive ==
  ASSUME LoadInv, NEW c \in Callers, NEW d \in Callers,
         pc[c] \in Initializing, pc[d] \in Initializing
  PROVE  c = d
  BY DEF LoadInv, Initializing

\* Every step keeps Load alone in Initialize without the mutex.
LEMMA LoadStep == TypeOK /\ LockInv /\ LoadInv /\ [Next]_vars => LoadInv'
<1> SUFFICES ASSUME TypeOK, LockInv, LoadInv, [Next]_vars PROVE LoadInv'
  OBVIOUS
<1>0. PcOK /\ PendingOK
  BY TypeParts
<1> USE <1>0, CallersAreThreads, ThreadsDistinct
    DEF LoadInv, LockInv, Initializing, CallerHolds, MonitorHolds
<1>1. ASSUME NEW c \in Callers, Load(c) \/ Invoke(c) \/ Unload(c) PROVE LoadInv'
  BY <1>1, GotoMoves DEF Load, Invoke, Unload, handleVars, procVars
<1>2. ASSUME NEW c \in Callers, Initialize(c) PROVE LoadInv'
  <2>1. CASE JoinOldMonitor(c)
    <3>1. pc[c] = "joinMonitor" /\ stage' = stage /\ mutex' = mutex /\ stage # "new"
      BY <2>1 DEF JoinOldMonitor
    <3>2. \A d \in Callers : pc[d] \in Initializing => d = c
      BY <3>1, Exclusive
    <3>3. QED
      BY <2>1, <3>1, <3>2, JoinOldMoves
  <2>2. CASE LaunchFails(c)
    BY <2>2, GotoMoves DEF LaunchFails, Fail, procVars
  <2>3. CASE Launch(c) \/ Connect(c) \/ RestartMessageHandler(c)
               \/ RestartRequestProcessor(c)
    BY <2>3, GotoMoves DEF Launch, Connect, RestartMessageHandler,
       RestartRequestProcessor, handleVars, procVars
  <2>4. QED
    BY <1>2, <2>1, <2>2, <2>3, Zenon DEF Initialize
<1>3. ASSUME NEW c \in Callers, SendAndGetResponse(c) PROVE LoadInv'
  <2>1. CASE Enter(c)
    <3>1. Goto(c, "send") \/ Goto(c, "launch")
      BY <2>1, Zenon DEF Enter
    <3>2. mutex \in {NoThread, c} /\ mutex' = c /\ stage' = stage /\ pc[c] = "lock"
      BY <2>1 DEF Enter, MayLock
    <3>3. QED
      BY <3>1, <3>2, GotoMoves
  <2>2. CASE Send(c)
    BY <2>2, GotoMoves DEF Send, handleVars, procVars
  <2>3. CASE SendFails(c)
    BY <2>3, GotoMoves DEF SendFails, Fail, handleVars, procVars
  <2>4. CASE Receive(c)
    <3>1. stage # "new"
      BY <2>4 DEF Receive
    <3>2. QED
      BY <2>4, <3>1, ReceiveMoves, GotoMoves
  <2>5. QED
    BY <1>3, <2>1, <2>2, <2>3, <2>4, Zenon DEF SendAndGetResponse
<1>4. ASSUME NEW t \in Threads, CloseTransport(t) PROVE LoadInv'
  <2>1. CASE t \in Callers /\ JoinMonitor(t)
    <3>1. pc[t] = "joinMonitor2" /\ stage' = stage /\ mutex' = mutex /\ stage # "new"
      BY <2>1 DEF JoinMonitor
    <3>2. QED
      BY <2>1, <3>1, JoinMoves
  <2>2. CASE LockToClose(t)
    BY <2>2, GotoMoves DEF LockToClose, MayLock, Threads
  <2>3. CASE JoinMessageHandler(t) \/ JoinRequestProcessor(t) \/ CloseHandles(t)
    BY <2>3, GotoMoves DEF JoinMessageHandler, JoinRequestProcessor, CloseHandles, Threads
  <2>4. QED
    BY <1>4, <2>1, <2>2, <2>3, MonitorDoesNotJoin DEF CloseTransport, Threads
<1>5. CASE RunPluginHostMonitor
  <2>1. stage # "new"
    BY <1>5 DEF RunPluginHostMonitor, MonitorSeesExit, MonitorSeesShutdown,
       MonitorTimesOut, ClearBeforeClose, ClearAtEnd, LockForShutdown, SendShutdownToPluginHost
  <2>2. QED
    BY <1>5, <2>1, GotoMoves DEF RunPluginHostMonitor, MonitorSeesExit, MonitorSeesShutdown,
       MonitorTimesOut, ClearBeforeClose, ClearAtEnd, LockForShutdown, MayLock,
       SendShutdownToPluginHost
<1>6. CASE Background
  BY <1>6 DEF Background, HostConnects, HostAnswers, HostCrashes, MessageHandlerExits,
     RequestProcessorExits, Alive, handleVars
<1>7. CASE UNCHANGED vars
  BY <1>7 DEF vars
<1> HIDE DEF LoadInv
<1>8. QED
  BY <1>1, <1>2, <1>3, <1>4, <1>5, <1>6, <1>7, Zenon DEF Next

-----------------------------------------------------------------------------
(* The host and the flag *)

\* Only ClearBeforeClose and ClearAtEnd clear _pluginHostInitialized, and both
\* after the host has ended.
LEMMA ClearMoves ==
  ASSUME MonitorInv, ClearBeforeClose \/ ClearAtEnd
  PROVE  ~initialized' /\ host' = "dead"
<1>1. ~initialized'
  BY Zenon DEF ClearBeforeClose, ClearAtEnd
<1>2. host' = "dead"
  BY DEF MonitorInv, ClearBeforeClose, ClearAtEnd, procVars
<1>3. QED
  BY <1>1, <1>2

\* A thread enters with the mutex, to send when there is a host, to launch
\* one otherwise.
LEMMA EnterMoves ==
  ASSUME NEW c \in Callers, Enter(c)
  PROVE  /\ pc[c] = "lock" /\ mutex \in {NoThread, c} /\ mutex' = c
         /\ \/ initialized /\ Goto(c, "send")
            \/ ~initialized /\ Goto(c, "launch")
         /\ (initialized' <=> initialized)
         /\ host' = host /\ stage' = stage /\ cause' = cause
<1>1. \/ initialized /\ Goto(c, "send")
      \/ ~initialized /\ Goto(c, "launch")
  BY Zenon DEF Enter
<1>2. initialized' <=> initialized
  BY Zenon DEF Enter, handleVars
<1>3. QED
  BY <1>1, <1>2 DEF Enter, MayLock, procVars

\* Every step keeps a live host announced or being connected to.
LEMMA HostStep ==
  TypeOK /\ LoadInv /\ HostInv /\ MonitorInv /\ [Next]_vars => HostInv'
<1> SUFFICES ASSUME TypeOK, LoadInv, HostInv, MonitorInv, [Next]_vars PROVE HostInv'
  OBVIOUS
<1>0. PcOK /\ PendingOK
  BY TypeParts
<1> USE <1>0, CallersAreThreads, ThreadsDistinct DEF HostInv, Unconnected, Alive
<1>1. ASSUME NEW c \in Callers, Load(c) \/ Invoke(c) \/ Unload(c) PROVE HostInv'
  BY <1>1, GotoMoves DEF Load, Invoke, Unload, handleVars, procVars, LoadInv
<1>2. ASSUME NEW c \in Callers, Initialize(c) PROVE HostInv'
  <2>1. CASE JoinOldMonitor(c)
    <3>1. pc[c] = "joinMonitor" /\ (initialized' <=> initialized) /\ host' = host
      BY <2>1 DEF JoinOldMonitor, handleVars, procVars
    <3>2. QED
      BY <2>1, <3>1, JoinOldMoves
  <2>2. CASE Launch(c)
    <3>1. pc[c] = "launch" /\ (initialized' <=> initialized) /\ Goto(c, "joinMonitor")
      BY <2>2 DEF Launch
    <3>2. \A d \in Callers : pc[d] \in Initializing => d = c
      BY <3>1, Exclusive DEF Initializing
    <3>3. QED
      BY <3>1, <3>2, GotoMoves DEF Initializing
  <2>3. CASE Connect(c)
    <3>1. pc[c] = "connect" /\ Goto(c, "restartHandler")
      BY <2>3 DEF Connect
    <3>2. initialized'
      BY <2>3, Zenon DEF Connect
    <3>3. \A d \in Callers : pc[d] \in Initializing => d = c
      BY <3>1, Exclusive DEF Initializing
    <3>4. QED
      BY <3>1, <3>2, <3>3, GotoMoves DEF Initializing
  <2>4. CASE LaunchFails(c)
    BY <2>4, GotoMoves DEF LaunchFails, Fail, procVars
  <2>5. CASE RestartMessageHandler(c) \/ RestartRequestProcessor(c)
    BY <2>5, GotoMoves DEF RestartMessageHandler, RestartRequestProcessor, handleVars
  <2>6. QED
    BY <1>2, <2>1, <2>2, <2>3, <2>4, <2>5, Zenon DEF Initialize
<1>3. ASSUME NEW c \in Callers, SendAndGetResponse(c) PROVE HostInv'
  <2>1. CASE Enter(c)
    <3>1. Alive /\ ~initialized => FALSE
      BY <2>1, EnterMoves DEF LoadInv, Initializing
    <3>2. QED
      BY <2>1, <3>1, EnterMoves, GotoMoves
  <2>2. CASE Send(c) \/ SendFails(c)
    BY <2>2, GotoMoves DEF Send, SendFails, Fail, handleVars, procVars
  <2>3. CASE Receive(c)
    <3>1. (initialized' <=> initialized) /\ host' = host
      BY <2>3 DEF Receive, procVars
    <3>2. QED
      BY <2>3, <3>1, ReceiveMoves, GotoMoves
  <2>4. QED
    BY <1>3, <2>1, <2>2, <2>3, Zenon DEF SendAndGetResponse
<1>4. ASSUME NEW t \in Threads, CloseTransport(t) PROVE HostInv'
  <2>1. CASE t \in Callers /\ JoinMonitor(t)
    <3>1. pc[t] = "joinMonitor2" /\ (initialized' <=> initialized) /\ host' = host
      BY <2>1 DEF JoinMonitor, handleVars, procVars
    <3>2. QED
      BY <2>1, <3>1, JoinMoves
  <2>2. CASE LockToClose(t) \/ JoinMessageHandler(t) \/ JoinRequestProcessor(t)
               \/ CloseHandles(t)
    BY <2>2, GotoMoves DEF LockToClose, JoinMessageHandler, JoinRequestProcessor,
       CloseHandles, Threads, handleVars, procVars
  <2>3. QED
    BY <1>4, <2>1, <2>2, MonitorDoesNotJoin DEF CloseTransport, Threads
<1>5. CASE RunPluginHostMonitor
  <2>1. CASE ClearBeforeClose \/ ClearAtEnd
    BY <2>1, ClearMoves, GotoMoves DEF ClearBeforeClose, ClearAtEnd
  <2>2. CASE ~(ClearBeforeClose \/ ClearAtEnd)
    BY <1>5, <2>2, GotoMoves DEF RunPluginHostMonitor, MonitorSeesExit, MonitorSeesShutdown,
       MonitorTimesOut, LockForShutdown, SendShutdownToPluginHost, handleVars, procVars
  <2>3. QED
    BY <2>1, <2>2
<1>6. CASE Background
  BY <1>6 DEF Background, HostConnects, HostAnswers, HostCrashes, MessageHandlerExits,
     RequestProcessorExits, handleVars
<1>7. CASE UNCHANGED vars
  BY <1>7 DEF vars
<1> HIDE DEF HostInv
<1>8. QED
  BY <1>1, <1>2, <1>3, <1>4, <1>5, <1>6, <1>7, Zenon DEF Next

-----------------------------------------------------------------------------
(* The monitor *)

\* A thread about to launch finds the monitor gone, or, when it holds the
\* mutex, on its way to close the transport of a host that exited.
LEMMA LaunchMeetsMonitor ==
  ASSUME TypeOK, LockInv, LoadInv, HostInv, MonitorInv,
         NEW c \in Callers, pc[c] = "launch"
  PROVE  /\ ~Pending(pc[Monitor]) /\ ~Closing(Monitor)
         /\ pc[Monitor] = "lockClose" => cause = "exit" /\ mutex = c
<1>1. ~Pending(pc[Monitor])
  <2>1. ~initialized
    BY DEF HostInv, Unconnected
  <2>2. \A d \in Callers : pc[d] # "connect"
    BY Exclusive DEF Initializing
  <2>3. QED
    BY <2>1, <2>2 DEF MonitorInv
<1>2. mutex # c => pc[Monitor] = "none"
  BY DEF LoadInv
<1>3. ~Closing(Monitor)
  BY <1>2, CallersAreThreads DEF LockInv, MonitorHolds, Closing
<1>4. pc[Monitor] = "lockClose" => cause = "exit"
  BY <1>1 DEF MonitorInv, Pending
<1>5. QED
  BY <1>1, <1>2, <1>3, <1>4

\* A step of a caller that leaves the monitor, the cause, the host and the
\* flag alone, and takes no thread from "joinMonitor", "connect" or the
\* mutex of a thread at "joinMonitor", preserves the monitor's part.
LEMMA MonitorUnmoved ==
  ASSUME MonitorInv, pc'[Monitor] = pc[Monitor], cause' = cause, host' = host,
         initialized' <=> initialized,
         \A d \in Callers : pc[d] = "connect" => pc'[d] = "connect",
         \A d \in Callers : pc[d] = "joinMonitor" /\ mutex = d =>
                              pc'[d] = "joinMonitor" /\ mutex' = d
  PROVE  MonitorInv'
  BY DEF MonitorInv, Pending, Closing, MonitorHolds

\* Every step keeps the monitor's part.
LEMMA MonitorStep ==
  TypeOK /\ LockInv /\ LoadInv /\ HostInv /\ MonitorInv /\ [Next]_vars => MonitorInv'
<1> SUFFICES ASSUME TypeOK, LockInv, LoadInv, HostInv, MonitorInv, [Next]_vars
             PROVE  MonitorInv'
  OBVIOUS
<1>0. PcOK /\ PendingOK
  BY TypeParts
<1> USE <1>0, CallersAreThreads, ThreadsDistinct
<1>1. ASSUME NEW c \in Callers, Load(c) \/ Invoke(c) \/ Unload(c) PROVE MonitorInv'
  BY <1>1, GotoMoves, MonitorUnmoved
     DEF Load, Invoke, Unload, handleVars, procVars, LoadInv
<1>2. ASSUME NEW c \in Callers, Initialize(c) PROVE MonitorInv'
  <2>1. CASE JoinOldMonitor(c)
    <3>1. cause' = cause /\ pc'[c] = "connect" /\ pc'[Monitor] = "watch"
      BY <2>1, JoinOldMoves DEF JoinOldMonitor
    <3>2. QED
      BY <3>1 DEF MonitorInv, Pending, Closing, MonitorHolds
  <2>2. CASE Launch(c)
    <3>1. /\ pc[c] = "launch" /\ pc'[c] = "joinMonitor" /\ pc'[Monitor] = pc[Monitor]
          /\ (initialized' <=> initialized) /\ cause' = cause /\ mutex' = mutex
      BY <2>2, GotoMoves DEF Launch
    <3>2. /\ ~Pending(pc[Monitor]) /\ ~Closing(Monitor)
          /\ pc[Monitor] = "lockClose" => cause = "exit" /\ mutex = c
      BY <3>1, LaunchMeetsMonitor
    <3>3. QED
      BY <3>1, <3>2 DEF MonitorInv, Pending, Closing, MonitorHolds
  <2>3. CASE Connect(c)
    <3>1. /\ pc[c] = "connect" /\ pc'[c] = "restartHandler" /\ pc'[Monitor] = pc[Monitor]
          /\ cause' = cause /\ mutex' = mutex /\ host' = host
          /\ \A d \in Callers : d # c => pc'[d] = pc[d]
      BY <2>3, GotoMoves DEF Connect, procVars
    <3>2. initialized'
      BY <2>3, Zenon DEF Connect
    <3>3. QED
      BY <3>1, <3>2 DEF MonitorInv, Pending, Closing, MonitorHolds
  <2>4. CASE LaunchFails(c)
    BY <2>4, GotoMoves, MonitorUnmoved DEF LaunchFails, Fail, procVars
  <2>5. CASE RestartMessageHandler(c) \/ RestartRequestProcessor(c)
    BY <2>5, GotoMoves, MonitorUnmoved DEF RestartMessageHandler, RestartRequestProcessor,
       handleVars
  <2>6. QED
    BY <1>2, <2>1, <2>2, <2>3, <2>4, <2>5, Zenon DEF Initialize
<1>3. ASSUME NEW c \in Callers, SendAndGetResponse(c) PROVE MonitorInv'
  <2>1. CASE Enter(c)
    BY <2>1, EnterMoves, GotoMoves, MonitorUnmoved
  <2>2. CASE Send(c) \/ SendFails(c)
    BY <2>2, GotoMoves, MonitorUnmoved DEF Send, SendFails, Fail, handleVars, procVars
  <2>3. CASE Receive(c)
    <3>1. (initialized' <=> initialized) /\ host' = host /\ cause' = cause /\ mutex = c
      BY <2>3 DEF Receive, procVars, LockInv, CallerHolds
    <3>2. QED
      BY <2>3, <3>1, ReceiveMoves, GotoMoves, MonitorUnmoved
  <2>4. QED
    BY <1>3, <2>1, <2>2, <2>3, Zenon DEF SendAndGetResponse
<1>4. ASSUME NEW t \in Threads, CloseTransport(t) PROVE MonitorInv'
  <2>1. CASE t \in Callers /\ JoinMonitor(t)
    <3>1. pc'[Monitor] = "none"
      BY <2>1, JoinMoves
    <3>2. QED
      BY <3>1 DEF MonitorInv, Pending, Closing, MonitorHolds
  <2>2. CASE t \in Callers /\ LockToClose(t)
    BY <2>2, GotoMoves, MonitorUnmoved DEF LockToClose, MayLock, procVars
  <2>3. CASE t \in Callers /\ (JoinMessageHandler(t) \/ JoinRequestProcessor(t)
                                \/ CloseHandles(t))
    BY <2>3, GotoMoves, MonitorUnmoved DEF JoinMessageHandler, JoinRequestProcessor,
       CloseHandles, handleVars, procVars, LockInv, CallerHolds
  <2>4. CASE LockToClose(Monitor)
    <3>1. /\ pc[Monitor] = "lockClose" /\ pc'[Monitor] = "joinHandler" /\ cause' = cause
          /\ mutex \in {NoThread, Monitor} /\ (initialized' <=> initialized) /\ host' = host
          /\ \A d \in Callers : pc'[d] = pc[d]
      BY <2>4, GotoMoves DEF LockToClose, MayLock, procVars
    <3>2. host = "dead"
      BY <3>1 DEF MonitorInv
    <3>3. QED
      BY <3>1, <3>2 DEF MonitorInv, Pending, Closing, MonitorHolds
  <2>5. CASE JoinMessageHandler(Monitor) \/ JoinRequestProcessor(Monitor)
    <3>1. /\ Closing(Monitor) /\ pc'[Monitor] \in {"joinProcessor", "close"} /\ cause' = cause
          /\ (initialized' <=> initialized) /\ host' = host
          /\ \A d \in Callers : pc'[d] = pc[d]
          /\ pc[Monitor] \in MonitorHolds
      BY <2>5, GotoMoves DEF JoinMessageHandler, JoinRequestProcessor, handleVars, Closing,
         MonitorHolds
    <3>2. QED
      BY <3>1 DEF MonitorInv, Pending, Closing, MonitorHolds
  <2>6. CASE CloseHandles(Monitor)
    <3>1. /\ pc[Monitor] = "close" /\ cause' = cause
          /\ (initialized' <=> initialized) /\ host' = host
          /\ \A d \in Callers : pc'[d] = pc[d]
          /\ pc'[Monitor] = IF cause = "timeout" THEN "clearLast" ELSE "exited"
      BY <2>6, GotoMoves DEF CloseHandles, procVars
    <3>2. QED
      BY <3>1 DEF MonitorInv, Pending, Closing, MonitorHolds
  <2>7. QED
    BY <1>4, <2>1, <2>2, <2>3, <2>4, <2>5, <2>6, MonitorDoesNotJoin
       DEF CloseTransport, Threads
<1>5. CASE RunPluginHostMonitor
  <2>1. CASE ClearBeforeClose \/ ClearAtEnd
    <3>1. host' = "dead" /\ cause' = cause
      BY <2>1, ClearMoves DEF ClearBeforeClose, ClearAtEnd
    <3>2. \/ pc[Monitor] = "clearFirst" /\ pc'[Monitor] = "lockClose"
          \/ pc'[Monitor] = "exited"
      BY <2>1, GotoMoves DEF ClearBeforeClose, ClearAtEnd
    <3>3. QED
      BY <3>1, <3>2 DEF MonitorInv, Pending, Closing, MonitorHolds
  <2>2. CASE MonitorSeesExit \/ MonitorSeesShutdown \/ MonitorTimesOut
    <3>1. /\ pc[Monitor] = "watch" /\ (initialized' <=> initialized) /\ host' = host
          /\ \A d \in Callers : pc'[d] = pc[d]
          /\ \/ cause' = "exit" /\ host = "dead" /\ pc'[Monitor] = "clearFirst"
             \/ cause' \in {"shutdown", "timeout"} /\ pc'[Monitor] = "lockKill"
      BY <2>2, GotoMoves DEF MonitorSeesExit, MonitorSeesShutdown, MonitorTimesOut,
         handleVars, procVars
    <3>2. QED
      BY <3>1 DEF MonitorInv, Pending, Closing, MonitorHolds
  <2>3. CASE LockForShutdown \/ SendShutdownToPluginHost
    <3>1. /\ cause' = cause /\ (initialized' <=> initialized)
          /\ \A d \in Callers : pc'[d] = pc[d]
          /\ \/ pc[Monitor] = "lockKill" /\ pc'[Monitor] = "kill"
             \/ /\ pc[Monitor] = "kill" /\ host' = "dead"
                /\ pc'[Monitor] = IF cause = "timeout" THEN "lockClose" ELSE "clearLast"
      BY <2>3, GotoMoves DEF LockForShutdown, SendShutdownToPluginHost, handleVars, procVars
    <3>2. QED
      BY <3>1 DEF MonitorInv, Pending, Closing, MonitorHolds
  <2>4. QED
    BY <1>5, <2>1, <2>2, <2>3, Zenon DEF RunPluginHostMonitor
<1>6. CASE Background
  <2>1. /\ pc' = pc /\ cause' = cause /\ mutex' = mutex /\ (initialized' <=> initialized)
        /\ host = "dead" => host' = "dead"
        /\ host # "dead" /\ host' # host => host' \in {"running", "dead"}
    BY <1>6 DEF Background, HostConnects, HostAnswers, HostCrashes, MessageHandlerExits,
       RequestProcessorExits, handleVars, Alive
  <2>2. QED
    BY <2>1 DEF MonitorInv, Pending, Closing, MonitorHolds
<1>7. CASE UNCHANGED vars
  BY <1>7, MonitorUnmoved DEF vars
<1>8. QED
  BY <1>1, <1>2, <1>3, <1>4, <1>5, <1>6, <1>7, Zenon DEF Next

-----------------------------------------------------------------------------
(* The theorems *)

\* The initial state satisfies the invariant.
LEMMA InitInv == Init => IInv
<1> SUFFICES ASSUME Init PROVE IInv
  OBVIOUS
<1>1. TypeOK
  BY InitTypes
<1>2. /\ \A c \in Callers : pc[c] = "idle"
      /\ pc[Monitor] = "none" /\ host = "none" /\ mutex = NoThread /\ stage = "new"
  BY CallersAreThreads DEF Init
<1>3. ~initialized
  BY Zenon DEF Init
<1>4. LockInv /\ LoadInv /\ HostInv /\ MonitorInv
  BY <1>2, <1>3 DEF LockInv, LoadInv, HostInv, MonitorInv, CallerHolds, MonitorHolds,
     Unconnected, Initializing, Alive, Closing, Pending
<1>5. QED
  BY <1>1, <1>4 DEF IInv

\* Every step keeps the invariant.
LEMMA InvStep == IInv /\ [Next]_vars => IInv'
<1> SUFFICES ASSUME IInv, [Next]_vars PROVE IInv'
  OBVIOUS
<1>1. TypeOK'
  BY TypeStep DEF IInv
<1>2. LockInv' /\ LoadInv' /\ HostInv' /\ MonitorInv'
  BY LockStep, LoadStep, HostStep, MonitorStep DEF IInv
<1>3. QED
  BY <1>1, <1>2 DEF IInv

\* The invariant holds in every reachable state.
THEOREM Invariant == Spec => []IInv
  BY InitInv, InvStep, PTL DEF Spec

\* RunPluginHostMonitor clears _pluginHostInitialized before it takes _mutex
\* for CloseTransport; even so it never closes the pipes and events of a host
\* that another thread has relaunched in between.
THEOREM MonitorSafe == Spec => []MonitorClosesOnlyDeadHost
<1>1. IInv => MonitorClosesOnlyDeadHost
  BY DEF IInv, MonitorInv, MonitorClosesOnlyDeadHost
<1>2. QED
  BY Invariant, <1>1, PTL

\* SendShutdownToPluginHost never terminates the host while a thread is
\* between the write of its request and its response.
THEOREM ShutdownSafe == Spec => []ShutdownWaitsForCalls
<1>1. IInv => ShutdownWaitsForCalls
  BY CallersAreThreads DEF IInv, LockInv, ShutdownWaitsForCalls, CallerHolds, MonitorHolds
<1>2. QED
  BY Invariant, <1>1, PTL

\* LaunchPluginHost starts a process only when the previous one has ended.
THEOREM NoSecondHost == Spec => OneHostAtATime
<1>1. IInv => \A c \in Callers : pc[c] = "launch" => ~Alive
  BY DEF IInv, HostInv
<1>2. IInv /\ [Next]_vars =>
        [\A c \in Callers : pc[c] = "launch" /\ pc'[c] = "joinMonitor" => ~Alive]_vars
  BY <1>1
<1>3. QED
  BY Invariant, <1>2, PTL DEF Spec, OneHostAtATime

-----------------------------------------------------------------------------
(***************************************************************************)
(* A caller of SendAndGetResponse waits on open events only, with a        *)
(* message handler there to wake it, however the host ends meanwhile.      *)
(*                                                                         *)
(* To IInv, which says who holds _mutex where, this adds what the pipes,   *)
(* the events and the message handler's thread are at that time.           *)
(***************************************************************************)

\* Pipes are made after the events and closed with them; a host that has not
\* yet opened its pipes is not announced and nobody closes them.
EventInv ==
    /\ pipes # "invalid" => shutdownEvent # "invalid"
    /\ host = "starting" => ~initialized /\ pipes = "listening"

\* Unload runs alone.
UnloadPoints == {"idle", "lockClose", "joinHandler", "joinProcessor", "joinMonitor2", "close",
                 "unloaded"}
UnloadInv ==
    /\ stage = "unloading" => \A c \in Callers : pc[c] \in UnloadPoints
    /\ \A c \in Callers :
         pc[c] \in {"lockClose", "joinHandler", "joinProcessor", "joinMonitor2", "close"} =>
           stage = "unloading"

\* A host that is announced and can be written to has a message handler, or
\* the thread that connected to it is about to start one.
ReaderInv ==
    initialized /\ Writable /\ stage # "unloading" =>
        messageHandler # "none" \/ \E c \in Callers : pc[c] = "restartHandler"

\* So has a thread about to write and one that waits for its response.
WaitInv ==
    \A c \in Callers :
        /\ pc[c] = "send" /\ Writable => messageHandler # "none"
        /\ pc[c] = "await" => pipes = "connected" /\ shutdownEvent # "invalid"
                                /\ messageHandler # "none"

OpenInv == EventInv /\ UnloadInv /\ ReaderInv /\ WaitInv

-----------------------------------------------------------------------------
(* Events and pipes *)

\* Every step makes and closes events and pipes together.
LEMMA EventStep == IInv /\ EventInv /\ UnloadInv /\ [Next]_vars => EventInv'
<1> SUFFICES ASSUME IInv, EventInv, UnloadInv, [Next]_vars PROVE EventInv'
  OBVIOUS
<1> USE DEF EventInv
<1>1. ASSUME NEW c \in Callers, Load(c) \/ Invoke(c) \/ Unload(c) PROVE EventInv'
  BY <1>1 DEF Load, Invoke, Unload, handleVars, procVars
<1>2. ASSUME NEW c \in Callers, Initialize(c) PROVE EventInv'
  <2>1. CASE Launch(c)
    BY <2>1 DEF Launch, IInv, HostInv, Unconnected
  <2>2. CASE LaunchFails(c)
    BY <2>2 DEF LaunchFails, IInv, HostInv, Alive, procVars
  <2>3. CASE Connect(c)
    BY <2>3 DEF Connect, procVars
  <2>4. CASE JoinOldMonitor(c) \/ RestartMessageHandler(c) \/ RestartRequestProcessor(c)
    BY <2>4 DEF JoinOldMonitor, RestartMessageHandler, RestartRequestProcessor, handleVars,
       procVars
  <2>5. QED
    BY <1>2, <2>1, <2>2, <2>3, <2>4, Zenon DEF Initialize
<1>3. ASSUME NEW c \in Callers, SendAndGetResponse(c) PROVE EventInv'
  BY <1>3 DEF SendAndGetResponse, Enter, Send, SendFails, Receive, handleVars, procVars
<1>4. ASSUME NEW t \in Threads, CloseTransport(t) PROVE EventInv'
  <2>1. CASE CloseHandles(t)
    <3>1. Closing(t)
      BY <2>1 DEF CloseHandles, Closing
    <3>2. CASE t = Monitor
      BY <2>1, <3>1, <3>2 DEF CloseHandles, IInv, MonitorInv, procVars
    <3>3. CASE t \in Callers
      <4>1. \A d \in Callers : pc[d] \in UnloadPoints
        BY <3>1, <3>3 DEF UnloadInv, Closing
      <4>2. Alive => initialized
        BY <4>1 DEF IInv, HostInv, UnloadPoints
      <4>3. QED
        BY <2>1, <4>2 DEF CloseHandles, Alive, procVars
    <3>4. QED
      BY <3>2, <3>3 DEF Threads
  <2>2. CASE LockToClose(t) \/ JoinMessageHandler(t) \/ JoinRequestProcessor(t) \/ JoinMonitor(t)
    BY <2>2 DEF LockToClose, JoinMessageHandler, JoinRequestProcessor, JoinMonitor,
       handleVars, procVars
  <2>3. QED
    BY <1>4, <2>1, <2>2, Zenon DEF CloseTransport
<1>5. CASE RunPluginHostMonitor
  BY <1>5 DEF RunPluginHostMonitor, MonitorSeesExit, MonitorSeesShutdown, MonitorTimesOut,
     ClearBeforeClose, ClearAtEnd, LockForShutdown, SendShutdownToPluginHost, handleVars,
     procVars
<1>6. CASE Background
  BY <1>6 DEF Background, HostConnects, HostAnswers, HostCrashes, MessageHandlerExits,
     RequestProcessorExits, handleVars
<1>7. CASE UNCHANGED vars
  BY <1>7 DEF vars
<1> HIDE DEF EventInv
<1>8. QED
  BY <1>1, <1>2, <1>3, <1>4, <1>5, <1>6, <1>7, Zenon DEF Next

-----------------------------------------------------------------------------
(* Unload *)

\* Every step keeps the thread that unloads the plugin alone.
LEMMA UnloadStep == IInv /\ UnloadInv /\ [Next]_vars => UnloadInv'
<1> SUFFICES ASSUME IInv, UnloadInv, [Next]_vars PROVE UnloadInv'
  OBVIOUS
<1>0. TypeOK /\ PcOK /\ PendingOK
  BY TypeParts DEF IInv
<1> USE <1>0, CallersAreThreads DEF UnloadInv, UnloadPoints
<1>1. ASSUME NEW c \in Callers, Load(c) \/ Invoke(c) \/ Unload(c) PROVE UnloadInv'
  BY <1>1, GotoMoves DEF Load, Invoke, Unload, IInv, LoadInv
<1>2. ASSUME NEW c \in Callers, Initialize(c) PROVE UnloadInv'
  <2>1. CASE JoinOldMonitor(c)
    BY <2>1, JoinOldMoves DEF JoinOldMonitor
  <2>2. CASE LaunchFails(c)
    BY <2>2, GotoMoves DEF LaunchFails, Fail
  <2>3. CASE Launch(c) \/ Connect(c) \/ RestartMessageHandler(c) \/ RestartRequestProcessor(c)
    BY <2>3, GotoMoves DEF Launch, Connect, RestartMessageHandler, RestartRequestProcessor
  <2>4. QED
    BY <1>2, <2>1, <2>2, <2>3, Zenon DEF Initialize
<1>3. ASSUME NEW c \in Callers, SendAndGetResponse(c) PROVE UnloadInv'
  <2>1. CASE Enter(c)
    BY <2>1, EnterMoves, GotoMoves
  <2>2. CASE Send(c) \/ SendFails(c)
    BY <2>2, GotoMoves DEF Send, SendFails, Fail
  <2>3. CASE Receive(c)
    BY <2>3, ReceiveMoves, GotoMoves
  <2>4. QED
    BY <1>3, <2>1, <2>2, <2>3, Zenon DEF SendAndGetResponse
<1>4. ASSUME NEW t \in Threads, CloseTransport(t) PROVE UnloadInv'
  <2>1. CASE t \in Callers /\ JoinMonitor(t)
    BY <2>1, JoinMoves DEF JoinMonitor
  <2>2. CASE LockToClose(t) \/ JoinMessageHandler(t) \/ JoinRequestProcessor(t)
               \/ CloseHandles(t)
    BY <2>2, GotoMoves DEF LockToClose, JoinMessageHandler, JoinRequestProcessor,
       CloseHandles, Threads
  <2>3. QED
    BY <1>4, <2>1, <2>2, MonitorDoesNotJoin DEF CloseTransport, Threads
<1>5. CASE RunPluginHostMonitor
  BY <1>5, GotoMoves DEF RunPluginHostMonitor, MonitorSeesExit, MonitorSeesShutdown,
     MonitorTimesOut, ClearBeforeClose, ClearAtEnd, LockForShutdown, SendShutdownToPluginHost
<1>6. CASE Background
  BY <1>6 DEF Background, HostConnects, HostAnswers, HostCrashes, MessageHandlerExits,
     RequestProcessorExits
<1>7. CASE UNCHANGED vars
  BY <1>7 DEF vars
<1> HIDE DEF UnloadInv
<1>8. QED
  BY <1>1, <1>2, <1>3, <1>4, <1>5, <1>6, <1>7, Zenon DEF Next
-----------------------------------------------------------------------------
(* The message handler *)

\* A step that keeps the message handler, the pipes, the host and the flag,
\* moves no thread from "restartHandler" and does not end an unloading keeps
\* the reader.
LEMMA ReaderUnmoved ==
  ASSUME ReaderInv, messageHandler' = messageHandler, pipes' = pipes, host' = host,
         initialized' <=> initialized,
         stage = "unloading" => stage' = "unloading",
         \A c \in Callers : pc[c] = "restartHandler" => pc'[c] = "restartHandler"
  PROVE  ReaderInv'
  BY DEF ReaderInv, Writable

\* Every step leaves an announced host its reader.
LEMMA ReaderStep == IInv /\ EventInv /\ UnloadInv /\ ReaderInv /\ [Next]_vars => ReaderInv'
<1> SUFFICES ASSUME IInv, EventInv, UnloadInv, ReaderInv, [Next]_vars PROVE ReaderInv'
  OBVIOUS
<1>0. TypeOK /\ PcOK /\ PendingOK /\ LoadInv /\ HostInv /\ MonitorInv
  BY TypeParts DEF IInv
<1> USE <1>0, CallersAreThreads
<1>1. ASSUME NEW c \in Callers, Load(c) \/ Invoke(c) \/ Unload(c) PROVE ReaderInv'
  <2>1. pc[c] = "idle"
    BY <1>1 DEF Load, Invoke, Unload, LoadInv
  <2>2. CASE Load(c) \/ Invoke(c)
    BY <2>1, <2>2, GotoMoves, ReaderUnmoved DEF Load, Invoke, handleVars, procVars
  <2>3. CASE Unload(c)
    BY <2>3 DEF Unload, ReaderInv
  <2>4. QED
    BY <1>1, <2>2, <2>3
<1>2. ASSUME NEW c \in Callers, Initialize(c) PROVE ReaderInv'
  <2>1. CASE JoinOldMonitor(c)
    <3>1. pc[c] = "joinMonitor"
      BY <2>1 DEF JoinOldMonitor
    <3>2. QED
      BY <2>1, <3>1, JoinOldMoves, ReaderUnmoved DEF JoinOldMonitor, handleVars, procVars
  <2>2. CASE Launch(c)
    BY <2>2 DEF Launch, ReaderInv, Writable
  <2>3. CASE LaunchFails(c)
    BY <2>3 DEF LaunchFails, ReaderInv, Writable, HostInv, Alive, procVars
  <2>4. CASE Connect(c)
    BY <2>4, GotoMoves DEF Connect, ReaderInv
  <2>5. CASE RestartMessageHandler(c)
    BY <2>5 DEF RestartMessageHandler, ReaderInv
  <2>6. CASE RestartRequestProcessor(c)
    BY <2>6, GotoMoves, ReaderUnmoved DEF RestartRequestProcessor, handleVars
  <2>7. QED
    BY <1>2, <2>1, <2>2, <2>3, <2>4, <2>5, <2>6, Zenon DEF Initialize
<1>3. ASSUME NEW c \in Callers, SendAndGetResponse(c) PROVE ReaderInv'
  <2>1. CASE Enter(c)
    <3>1. pipes' = pipes /\ messageHandler' = messageHandler
      BY <2>1 DEF Enter, handleVars, procVars
    <3>2. QED
      BY <2>1, <3>1, EnterMoves, GotoMoves, ReaderUnmoved
  <2>2. CASE Send(c) \/ SendFails(c)
    BY <2>2, GotoMoves, ReaderUnmoved DEF Send, SendFails, Fail, handleVars, procVars
  <2>3. CASE Receive(c)
    <3>1. /\ pipes' = pipes /\ messageHandler' = messageHandler /\ host' = host
          /\ initialized' <=> initialized
      BY <2>3 DEF Receive, procVars
    <3>2. stage # "unloading"
      BY <2>3, ReceiveMoves DEF UnloadInv, UnloadPoints
    <3>3. QED
      BY <2>3, <3>1, <3>2, ReceiveMoves, GotoMoves, ReaderUnmoved
  <2>4. QED
    BY <1>3, <2>1, <2>2, <2>3, Zenon DEF SendAndGetResponse
<1>4. ASSUME NEW t \in Threads, CloseTransport(t) PROVE ReaderInv'
  <2>1. CASE t \in Callers /\ JoinMonitor(t)
    <3>1. pc[t] = "joinMonitor2"
      BY <2>1 DEF JoinMonitor
    <3>2. QED
      BY <2>1, <3>1, JoinMoves, ReaderUnmoved DEF JoinMonitor, handleVars, procVars
  <2>2. CASE LockToClose(t) \/ JoinRequestProcessor(t)
    BY <2>2, GotoMoves, ReaderUnmoved DEF LockToClose, JoinRequestProcessor, handleVars,
       procVars
  <2>3. CASE JoinMessageHandler(t)
    <3>1. host = "dead" \/ stage = "unloading"
      BY <2>3 DEF JoinMessageHandler, MonitorInv, Closing, UnloadInv, Threads
    <3>2. host' = host /\ stage' = stage
      BY <2>3 DEF JoinMessageHandler
    <3>3. QED
      BY <3>1, <3>2 DEF ReaderInv, Writable
  <2>4. CASE CloseHandles(t)
    BY <2>4 DEF CloseHandles, ReaderInv, Writable
  <2>5. QED
    BY <1>4, <2>1, <2>2, <2>3, <2>4, MonitorDoesNotJoin DEF CloseTransport, Threads
<1>5. CASE RunPluginHostMonitor
  <2>1. CASE ClearBeforeClose \/ ClearAtEnd
    BY <2>1, ClearMoves DEF ReaderInv
  <2>2. CASE SendShutdownToPluginHost
    BY <2>2 DEF SendShutdownToPluginHost, ReaderInv, Writable
  <2>3. CASE MonitorSeesExit \/ MonitorSeesShutdown \/ MonitorTimesOut \/ LockForShutdown
    BY <2>3, GotoMoves, ReaderUnmoved DEF MonitorSeesExit, MonitorSeesShutdown,
       MonitorTimesOut, LockForShutdown, handleVars, procVars
  <2>4. QED
    BY <1>5, <2>1, <2>2, <2>3, Zenon DEF RunPluginHostMonitor
<1>6. CASE Background
  <2>1. CASE HostConnects
    BY <2>1 DEF HostConnects, EventInv, ReaderInv, handleVars
  <2>2. CASE HostCrashes
    BY <2>2 DEF HostCrashes, ReaderInv, Writable
  <2>3. CASE MessageHandlerExits
    BY <2>3 DEF MessageHandlerExits, ReaderInv
  <2>4. CASE HostAnswers \/ RequestProcessorExits
    BY <2>4, ReaderUnmoved DEF HostAnswers, RequestProcessorExits, handleVars
  <2>5. QED
    BY <1>6, <2>1, <2>2, <2>3, <2>4, Zenon DEF Background
<1>7. CASE UNCHANGED vars
  BY <1>7, ReaderUnmoved DEF vars
<1>8. QED
  BY <1>1, <1>2, <1>3, <1>4, <1>5, <1>6, <1>7, Zenon DEF Next

-----------------------------------------------------------------------------
(* The wait *)

\* Nobody is in Initialize or CloseTransport beside a thread that exchanges.
LEMMA ExchangeIsAlone ==
  ASSUME IInv, NEW c \in Callers, pc[c] \in {"send", "await"}
  PROVE  /\ \A d \in Callers : pc[d] \notin Initializing
         /\ \A t \in Threads : ~Closing(t)
         /\ host # "starting" \/ initialized
<1>1. mutex = c
  BY DEF IInv, LockInv, CallerHolds
<1>2. \A d \in Callers : pc[d] \notin Initializing
  BY <1>1 DEF IInv, LoadInv, Initializing
<1>3. \A t \in Threads : ~Closing(t)
  BY <1>1, CallersAreThreads DEF IInv, LockInv, CallerHolds, MonitorHolds, Closing, Threads
<1>4. host # "starting" \/ initialized
  BY <1>2 DEF IInv, HostInv, Alive, Initializing
<1>5. QED
  BY <1>2, <1>3, <1>4

\* A step that keeps the message handler, the pipes, the host and the event's
\* validity, and brings no thread to "send" or "await", keeps the waits.
LEMMA WaitUnmoved ==
  ASSUME WaitInv, messageHandler' = messageHandler, pipes' = pipes, host' = host,
         shutdownEvent # "invalid" => shutdownEvent' # "invalid",
         \A c \in Callers : pc'[c] \in {"send", "await"} => pc[c] = pc'[c]
  PROVE  WaitInv'
  BY DEF WaitInv, Writable

\* Every step leaves a thread that waits its events, its pipe and its reader.
LEMMA WaitStep == IInv /\ OpenInv /\ [Next]_vars => WaitInv'
<1> SUFFICES ASSUME IInv, OpenInv, [Next]_vars PROVE WaitInv'
  OBVIOUS
<1>0. /\ TypeOK /\ PcOK /\ PendingOK /\ LoadInv /\ HostInv /\ LockInv
      /\ EventInv /\ UnloadInv /\ ReaderInv /\ WaitInv
  BY TypeParts DEF IInv, OpenInv
<1> USE <1>0, CallersAreThreads
<1>1. ASSUME NEW c \in Callers, Load(c) \/ Invoke(c) \/ Unload(c) PROVE WaitInv'
  BY <1>1, GotoMoves, WaitUnmoved DEF Load, Invoke, Unload, handleVars, procVars
<1>2. ASSUME NEW c \in Callers, Initialize(c) PROVE WaitInv'
  <2>1. pc[c] \in Initializing
    BY <1>2 DEF Initialize, Launch, LaunchFails, JoinOldMonitor, Connect,
       RestartMessageHandler, RestartRequestProcessor, Initializing
  <2>2. \A d \in Callers : pc[d] \notin {"send", "await"}
    BY <2>1, ExchangeIsAlone
  <2>3. CASE JoinOldMonitor(c)
    BY <2>2, <2>3, JoinOldMoves DEF WaitInv
  <2>4. CASE Launch(c) \/ LaunchFails(c) \/ Connect(c) \/ RestartMessageHandler(c)
               \/ RestartRequestProcessor(c)
    BY <2>2, <2>4, GotoMoves DEF Launch, LaunchFails, Fail, Connect, RestartMessageHandler,
       RestartRequestProcessor, WaitInv
  <2>5. QED
    BY <1>2, <2>3, <2>4, Zenon DEF Initialize
<1>3. ASSUME NEW c \in Callers, SendAndGetResponse(c) PROVE WaitInv'
  <2>1. CASE Enter(c)
    <3>1. /\ pipes' = pipes /\ messageHandler' = messageHandler /\ host' = host
          /\ shutdownEvent' = shutdownEvent
      BY <2>1 DEF Enter, handleVars, procVars
    <3>2. CASE initialized /\ Goto(c, "send")
      <4>1. pc[c] = "lock" /\ mutex \in {NoThread, c}
        BY <2>1, EnterMoves
      <4>2. \A d \in Callers : pc[d] # "restartHandler"
        BY <4>1, ThreadsDistinct DEF LoadInv, Initializing
      <4>3. stage # "unloading"
        BY <4>1 DEF UnloadInv, UnloadPoints
      <4>4. Writable => messageHandler # "none"
        BY <3>2, <4>2, <4>3 DEF ReaderInv
      <4>5. QED
        BY <3>1, <3>2, <4>4, GotoMoves DEF WaitInv, Writable
    <3>3. CASE Goto(c, "launch")
      BY <3>1, <3>3, GotoMoves, WaitUnmoved
    <3>4. QED
      BY <2>1, <3>2, <3>3, EnterMoves
  <2>2. CASE Send(c)
    <3>1. messageHandler # "none" /\ pipes = "connected" /\ shutdownEvent # "invalid"
      BY <2>2 DEF Send, WaitInv, EventInv, Writable
    <3>2. QED
      BY <2>2, <3>1, GotoMoves DEF Send, WaitInv, Writable, handleVars
  <2>3. CASE SendFails(c)
    BY <2>3, GotoMoves, WaitUnmoved DEF SendFails, Fail, handleVars, procVars
  <2>4. CASE Receive(c)
    <3>1. /\ pipes' = pipes /\ messageHandler' = messageHandler /\ host' = host
          /\ shutdownEvent' = shutdownEvent
      BY <2>4 DEF Receive, procVars
    <3>2. pc[c] = "await" /\ messageHandler # "none"
      BY <2>4, ReceiveMoves DEF WaitInv
    <3>3. QED
      BY <2>4, <3>1, <3>2, ReceiveMoves, GotoMoves DEF WaitInv, Writable
  <2>5. QED
    BY <1>3, <2>1, <2>2, <2>3, <2>4, Zenon DEF SendAndGetResponse
<1>4. ASSUME NEW t \in Threads, CloseTransport(t) PROVE WaitInv'
  <2>1. CASE t \in Callers /\ JoinMonitor(t)
    BY <2>1, JoinMoves, WaitUnmoved DEF JoinMonitor, handleVars, procVars
  <2>2. CASE LockToClose(t)
    BY <2>2, GotoMoves, WaitUnmoved DEF LockToClose, procVars
  <2>3. CASE JoinMessageHandler(t) \/ JoinRequestProcessor(t) \/ CloseHandles(t)
    <3>1. Closing(t)
      BY <2>3 DEF JoinMessageHandler, JoinRequestProcessor, CloseHandles, Closing
    <3>2. \A d \in Callers : pc[d] \notin {"send", "await"}
      BY <3>1, ExchangeIsAlone
    <3>3. QED
      BY <2>3, <3>2, GotoMoves DEF JoinMessageHandler, JoinRequestProcessor, CloseHandles,
         WaitInv
  <2>4. QED
    BY <1>4, <2>1, <2>2, <2>3, MonitorDoesNotJoin DEF CloseTransport, Threads
<1>5. CASE RunPluginHostMonitor
  <2>1. CASE SendShutdownToPluginHost
    BY <2>1, GotoMoves DEF SendShutdownToPluginHost, WaitInv, Writable, handleVars
  <2>2. CASE ~SendShutdownToPluginHost
    BY <1>5, <2>2, GotoMoves, WaitUnmoved DEF RunPluginHostMonitor, MonitorSeesExit,
       MonitorSeesShutdown, MonitorTimesOut, ClearBeforeClose, ClearAtEnd, LockForShutdown,
       handleVars, procVars
  <2>3. QED
    BY <2>1, <2>2
<1>6. CASE Background
  <2>1. CASE HostConnects
    <3>1. \A c \in Callers : pc[c] \notin {"send", "await"}
      BY <2>1, ExchangeIsAlone DEF HostConnects, EventInv
    <3>2. QED
      BY <2>1, <3>1 DEF HostConnects, WaitInv
  <2>2. CASE HostCrashes \/ MessageHandlerExits
    BY <2>2 DEF HostCrashes, MessageHandlerExits, WaitInv, Writable, handleVars
  <2>3. CASE HostAnswers \/ RequestProcessorExits
    BY <2>3, WaitUnmoved DEF HostAnswers, RequestProcessorExits, handleVars
  <2>4. QED
    BY <1>6, <2>1, <2>2, <2>3, Zenon DEF Background
<1>7. CASE UNCHANGED vars
  BY <1>7, WaitUnmoved DEF vars
<1>8. QED
  BY <1>1, <1>2, <1>3, <1>4, <1>5, <1>6, <1>7, Zenon DEF Next

-----------------------------------------------------------------------------
\* Nothing is open at first and nobody waits.
LEMMA OpenInit == Init => OpenInv
<1> SUFFICES ASSUME Init PROVE OpenInv
  OBVIOUS
<1>1. /\ \A c \in Callers : pc[c] = "idle"
      /\ pipes = "invalid" /\ host = "none" /\ stage = "new"
  BY CallersAreThreads DEF Init
<1>2. QED
  BY <1>1 DEF OpenInv, EventInv, UnloadInv, ReaderInv, WaitInv, Writable

\* A caller that waits for its response in SendAndGetResponse waits on an
\* event that CloseDequeEvents has not closed, with a pipe that is open and a
\* message handler's thread, whoever launches, unloads or ends the host.
THEOREM WaitsOpen == Spec => []WaitsOnOpenEvents
<1>1. IInv /\ OpenInv /\ [Next]_vars => OpenInv'
  BY EventStep, UnloadStep, ReaderStep, WaitStep, Zenon DEF OpenInv
<1>2. OpenInv => WaitsOnOpenEvents
  BY DEF OpenInv, WaitInv, WaitsOnOpenEvents
<1>3. QED
  BY Invariant, OpenInit, <1>1, <1>2, PTL DEF Spec
===============================================================================
