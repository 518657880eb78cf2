-------------------------- MODULE HandlerStateReplay --------------------------
(***************************************************************************)
(* The handlers of one out-of-process plugin across the lives of its host: *)
(* the agent's calls of AzureRawHost to its handlers, the record           *)
(* OutOfProcPluginBinaryProxy keeps of them (CacheHandlerState), the       *)
(* replay of that record to a new host process (OnPluginLoaded) and the    *)
(* handler instances the host holds (RawHandlerStub).                      *)
(*                                                                         *)
(* The agent's main thread registers and starts the handlers, tells the    *)
(* active ones when the IoT Hub connection comes and goes, and stops them. *)
(* A thread of the IoT Hub client invokes active handlers meanwhile.       *)
(* Whichever of the two finds no host launches one and replays the record, *)
(* holding the transport's _mutex; the record itself has no lock.  An      *)
(* exchange with the host is one step: PluginTransport and                 *)
(* PluginHostLifecycle refine it.                                          *)
(***************************************************************************)
EXTENDS Integers, FiniteSets

CONSTANTS
    N,              \* the plugin has handlers 1 .. N, in the map's order
    Inactive,       \* handlers whose Start may report that they are not active
    Failing         \* handlers whose Start may throw

ASSUME ParametersOK ==
    /\ N \in Nat \ {0}
    /\ Inactive \subseteq 1 .. N
    /\ Failing \subseteq 1 .. N

Handlers == 1 .. N

VARIABLES
    signal,         \* what the main thread is telling the handlers in turn
    next,           \* the handler it tells next
    sending,        \* it has recorded the call but not yet made it
    invoking,       \* handlers the client's thread has looked up as active
    registered,     \* _rawHandlerMap
    active,         \* handlers in state eActive
    cache,          \* _rawHandlersStates
    replayer,       \* the thread that is launching a host: "none", "main", "client"
    at,             \* the handler whose record it sends next
    point,          \* which of the handler's three calls that is
    starts,         \* what SendCachedHandlerState has read of its "started"
    host,           \* whether a host process is running
    instances,      \* _rawHandlerMap of the plugin in the host
    restored        \* handlers no exception of the last replay kept out of the
                    \* host (ghost)

mainVars == <<signal, next, sending>>
agentVars == <<registered, active>>
replayVars == <<replayer, at, point, starts>>
hostVars == <<host, instances, restored>>
vars == <<mainVars, invoking, agentVars, cache, replayVars, hostVars>>

Absent == [created |-> FALSE, started |-> FALSE, conn |-> "unset"]
Created == [Absent EXCEPT !.created = TRUE]
HandlerState == [created : BOOLEAN, started : BOOLEAN,
                 conn : {"unset", "online", "offline"}]

\* The offline signal comes at a renewal and, as "leave", at the end of Run.
ConnectionSignals == {"online", "offline", "leave"}
Signals == {"create", "start", "stop", "done"} \cup ConnectionSignals

Init ==
    /\ signal = "create"
    /\ next = 1
    /\ sending = FALSE
    /\ invoking = {}
    /\ registered = {}
    /\ active = {}
    /\ cache = [h \in Handlers |-> Absent]
    /\ replayer = "none"
    /\ at = 1
    /\ point = "create"
    /\ starts = FALSE
    /\ host = "up"
    /\ instances = [h \in Handlers |-> Absent]
    /\ restored = Handlers

-----------------------------------------------------------------------------
(* The agent's calls *)

\* SignalStart and SignalStop reach every registered handler, and
\* SignalConnectionStatusChanged the active ones.
Reached(h) ==
    CASE signal = "create" -> TRUE
      [] signal \in {"start", "stop"} -> h \in registered
      [] signal \in ConnectionSignals -> h \in active
      [] OTHER -> FALSE

Status == IF signal = "online" THEN "online" ELSE "offline"

\* What a call sets, in the cache and in a handler that obeys it.
Effect(s) ==
    CASE signal = "create" -> IF s.created THEN s ELSE Created
      [] signal = "start" -> [s EXCEPT !.created = TRUE, !.started = TRUE]
      [] signal = "stop" -> [s EXCEPT !.created = TRUE, !.started = FALSE]
      [] OTHER -> [s EXCEPT !.created = TRUE, !.conn = Status]

\* Mutant: nothing is recorded while there is no host.
CacheHandlerStateIfUp ==
    /\ ~sending
    /\ next <= N
    /\ Reached(next)
    /\ cache' = IF host = "up" THEN [cache EXCEPT ![next] = Effect(@)] ELSE cache
    /\ sending' = TRUE
    /\ UNCHANGED <<signal, next, invoking, agentVars, replayVars, hostVars>>

\* CacheHandlerState: before the message is sent, and whatever comes of it.
CacheHandlerState ==
    /\ ~sending
    /\ next <= N
    /\ Reached(next)
    /\ cache' = [cache EXCEPT ![next] = Effect(@)]
    /\ sending' = TRUE
    /\ UNCHANGED <<signal, next, invoking, agentVars, replayVars, hostVars>>

Skip ==
    /\ ~sending
    /\ next <= N
    /\ ~Reached(next)
    /\ next' = next + 1
    /\ UNCHANGED <<signal, sending, invoking, agentVars, cache, replayVars, hostVars>>

\* AzureDMClient::Run: a renewal goes offline and online, and the end of Run,
\* which may come before the first connection, offline and then stops.
NextSignal ==
    /\ next > N
    /\ signal # "done"
    /\ signal' \in CASE signal = "create" -> {"start"}
                     [] signal = "start" -> {"online", "leave"}
                     [] signal = "online" -> {"offline", "leave"}
                     [] signal = "offline" -> {"online"}
                     [] signal = "leave" -> {"stop"}
                     [] signal = "stop" -> {"done"}
    /\ next' = IF signal = "stop" THEN next ELSE 1
    /\ UNCHANGED <<sending, invoking, agentVars, cache, replayVars, hostVars>>

-----------------------------------------------------------------------------
(* How a call of the main thread ends *)

MainSucceeds ==
    /\ sending' = FALSE
    /\ next' = next + 1
    /\ signal' = signal
    /\ registered' = IF signal = "create" THEN registered \cup {next} ELSE registered
    /\ \/ signal = "start" /\ active' = active \cup {next}
       \/ (signal = "start" => next \in Inactive) /\ active' = active

\* An exception is logged and the loop goes on, but nothing catches one from
\* SignalStop: the main thread leaves.
MainFails ==
    /\ sending' = FALSE
    /\ IF signal = "stop"
       THEN signal' = "done" /\ next' = N + 1
       ELSE signal' = signal /\ next' = next + 1
    /\ UNCHANGED agentVars

-----------------------------------------------------------------------------
(* Replay of the record to a new host, in the call that found none *)

Calling(t) == IF t = "main" THEN sending ELSE invoking # {}

\* SendAndGetResponse has taken _mutex, Initialize launches a host and
\* OnPluginLoaded has it create its plugin.
Launch(t) ==
    /\ replayer = "none"
    /\ host = "down"
    /\ Calling(t)
    /\ host' = "up"
    /\ replayer' = t
    /\ at' = 1
    /\ point' = "create"
    /\ UNCHANGED <<mainVars, invoking, agentVars, cache, starts, instances, restored>>

\* SendCachedHandlerState goes through the map in order.  It does not come to
\* a handler the map lacks: it stops at the first one not told of a connection,
\* and connections come when all are recorded.  It...
Replaying(p) == replayer # "none" /\ host = "up" /\ at <= N /\ point = p

\* ... creates the handler, which the record has already, and reads whether
\* it is to be started...
ReplayCreate ==
    /\ Replaying("create")
    /\ cache[at].created
    /\ instances' = [instances EXCEPT ![at] = Created]
    /\ starts' = cache[at].started
    /\ point' = "start"
    /\ UNCHANGED <<mainVars, invoking, agentVars, cache, replayer, at, host, restored>>

\* ... starts or stops it through Invoke, which records that call as any
\* other, over what another thread may have recorded since...
RecordAgain == cache' = [cache EXCEPT ![at].started = starts]

ReplayStart ==
    /\ Replaying("start")
    /\ RecordAgain
    /\ instances' = [instances EXCEPT ![at].started = starts]
    /\ point' = "connect"
    /\ UNCHANGED <<mainVars, invoking, agentVars, replayer, at, starts, host, restored>>

\* ... and tells it of the connection, as the record then has it.
ReplayConnection ==
    /\ Replaying("connect")
    /\ cache[at].conn # "unset"
    /\ instances' = [instances EXCEPT ![at].conn = cache[at].conn]
    /\ at' = at + 1
    /\ point' = "create"
    /\ UNCHANGED <<mainVars, invoking, agentVars, cache, replayer, starts, host, restored>>

\* An exception leaves the replay and the call that caused it: the host keeps
\* what it was sent so far.
CallThrows ==
    /\ replayer' = "none"
    /\ restored' = IF host = "up" THEN 1 .. (at - 1) ELSE {}
    /\ UNCHANGED <<at, point, starts, host, instances>>
    /\ \/ replayer = "main" /\ MainFails /\ UNCHANGED invoking
       \/ replayer = "client" /\ invoking' = {} /\ UNCHANGED <<mainVars, agentVars>>

\* HandleStart lets the handler's exception through...
ReplayStartThrows ==
    /\ Replaying("start")
    /\ starts /\ at \in Failing
    /\ RecordAgain
    /\ CallThrows

\* ... HandleOnConnectionStatusChanged throws when there are no parameters...
ReplayConnectionThrows ==
    /\ Replaying("connect")
    /\ cache[at].conn = "unset"
    /\ CallThrows
    /\ UNCHANGED cache

\* ... and WriteMessage when the host has ended meanwhile.
ReplayLosesHost ==
    /\ replayer # "none"
    /\ host = "down"
    /\ IF at <= N /\ point = "start" THEN RecordAgain ELSE UNCHANGED cache
    /\ CallThrows

-----------------------------------------------------------------------------
(* The exchanges *)

\* The thread has _mutex, and a host that was told the record.
MayExchange(t) == host = "up" /\ (replayer = "none" \/ (replayer = t /\ at = N + 1))

\* RawHandlerStub: creating a handler anew replaces its instance, and a call
\* to a handler that was never created throws; so may a handler's Start.
Obeys(h) == signal = "create" \/ instances[h].created
MayThrow(h) == ~Obeys(h) \/ (signal = "start" /\ h \in Failing)

Delivered(h) ==
    [instances EXCEPT ![h] = IF signal = "create" THEN Created ELSE Effect(@)]

Exchanged ==
    /\ replayer' = "none"
    /\ restored' = IF replayer = "none" THEN restored ELSE Handlers
    /\ UNCHANGED <<at, point, starts, host>>

Send ==
    /\ sending
    /\ MayExchange("main")
    /\ \/ Obeys(next) /\ instances' = Delivered(next) /\ MainSucceeds
       \/ MayThrow(next) /\ instances' = instances /\ MainFails
    /\ Exchanged
    /\ UNCHANGED <<invoking, cache>>

\* InvokeHandler finds the handler active...
FindHandler(h) ==
    /\ signal \in ConnectionSignals \cup {"stop"}
    /\ invoking = {}
    /\ h \in active
    /\ invoking' = {h}
    /\ UNCHANGED <<mainVars, agentVars, cache, replayVars, hostVars>>

\* ... and invokes it; an exception is logged and the handler stays active.
InvokeHandler(h) ==
    /\ h \in invoking
    /\ MayExchange("client")
    /\ invoking' = {}
    /\ Exchanged
    /\ UNCHANGED <<mainVars, agentVars, cache, instances>>

\* The host's keep-alive time is over, or it dies between two exchanges, those
\* of a replay included.
HostEnds ==
    /\ host = "up"
    /\ host' = "down"
    /\ instances' = [h \in Handlers |-> Absent]
    /\ restored' = {}
    /\ UNCHANGED <<mainVars, invoking, agentVars, cache, replayVars>>

MainThread == CacheHandlerState \/ Skip \/ NextSignal \/ Send

Replay ==
    \/ \E t \in {"main", "client"} : Launch(t)
    \/ ReplayCreate \/ ReplayStart \/ ReplayConnection
    \/ ReplayStartThrows \/ ReplayConnectionThrows \/ ReplayLosesHost

Next ==
    \/ MainThread
    \/ Replay
    \/ \E h \in Handlers : FindHandler(h) \/ InvokeHandler(h)
    \/ HostEnds

Spec == Init /\ [][Next]_vars

-----------------------------------------------------------------------------
(* Properties *)

\* Every variable keeps its type.
TypeOK ==
    /\ signal \in Signals
    /\ next \in 1 .. (N + 1)
    /\ sending \in BOOLEAN
    /\ invoking \subseteq Handlers
    /\ registered \subseteq Handlers
    /\ active \subseteq Handlers
    /\ cache \in [Handlers -> HandlerState]
    /\ replayer \in {"none", "main", "client"}
    /\ at \in 1 .. (N + 1)
    /\ point \in {"create", "start", "connect"}
    /\ starts \in BOOLEAN
    /\ host \in {"up", "down"}
    /\ instances \in [Handlers -> HandlerState]
    /\ restored \subseteq Handlers

(***************************************************************************)
(* The record and the host agree: a running host holds every registered    *)
(* handler that the last replay reached, started or not and told of the    *)
(* connection as the record has it, however often the host was relaunched  *)
(* and whichever thread's call did it.  Only the call in flight may be     *)
(* missing from the host; a handler whose Start threw is recorded as       *)
(* started and left out here.                                              *)
(*                                                                         *)
(* While handlers are being stopped the record may say "started" of one    *)
(* that is stopped in the host, never the opposite: a replay by another    *)
(* thread records again what it read before the stop was recorded.         *)
(***************************************************************************)
Stopping == signal \in {"stop", "done"}

HostAgreesWithRecord ==
    host = "up" /\ replayer = "none" =>
        \A h \in (registered \cap restored) \ Failing :
            \/ sending /\ next = h
            \/ /\ instances[h].created
               /\ instances[h].conn = cache[h].conn
               /\ instances[h].started => cache[h].started
               /\ Stopping \/ instances[h].started = cache[h].started

=============================================================================
