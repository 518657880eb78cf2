--------------------------- MODULE PluginTransport ---------------------------
(***************************************************************************)
(* The request/response exchange between the device agent and one          *)
(* out-of-process plugin host over two named pipes, once both ends are     *)
(* connected: PluginNamedPipeBaseTransport, its agent and plugin           *)
(* subclasses, and MessageQueue.                                           *)
(*                                                                         *)
(* Each side runs a message handler thread, which reads packets, rebuilds  *)
(* messages and sorts them into a request and a response queue, and a      *)
(* request processor thread, which answers requests.  Any other thread may *)
(* call SendAndGetResponse.  On the agent that call holds _mutex; on the   *)
(* host it holds nothing.  While the host's request processor runs a       *)
(* plugin's Invoke it may itself call the agent (ReverseInvoke).           *)
(*                                                                         *)
(* Messages carry no identity in the code.  Here every message has a ghost *)
(* "id" naming the call it belongs to, and a ghost "intact" that says its  *)
(* payload is the one its sender wrote; no guard reads either.             *)
(***************************************************************************)
EXTENDS Integers, Sequences, FiniteSets

CONSTANTS
    AgentCallers,   \* agent threads that invoke the plugin
    HostCallers,    \* plugin threads, other than HostRP, that call the agent
    AgentRP,        \* the agent's request processor thread
    HostRP,         \* the host's request processor thread
    MaxPayloadSize, \* Packet::MaxPayloadSize()
    Sizes,          \* bound: the sizes of messages, header and payload
    PipeCapacity,   \* bound: packets a pipe buffers before WriteFile blocks
    CallIds,        \* bound: call numbers of one thread, reused cyclically
    NoThread, NoMessage

Side == {"agent", "host"}
RequestProcessors == {AgentRP, HostRP}
Callers == AgentCallers \cup HostCallers \cup {HostRP}
Threads == Callers \cup {AgentRP}

ASSUME ThreadsDistinct ==
    /\ AgentRP # HostRP
    /\ AgentCallers \cap HostCallers = {}
    /\ RequestProcessors \cap (AgentCallers \cup HostCallers) = {}
    /\ NoThread \notin Threads

ASSUME ThreadsFinite == IsFiniteSet(AgentCallers \cup HostCallers)

\* A message has a header, so none is empty.
ASSUME BoundsPositive ==
    /\ MaxPayloadSize \in Nat \ {0}
    /\ Sizes \subseteq Nat \ {0}
    /\ PipeCapacity \in Nat \ {0}
    /\ CallIds \in Nat \ {0}

SideOf(t) == IF t \in AgentCallers \cup {AgentRP} THEN "agent" ELSE "host"
Peer(s) == IF s = "agent" THEN "host" ELSE "agent"

\* Where a thread returns to when SendAndGetResponse returns.
Base(t) == IF t = HostRP THEN "process" ELSE "idle"

MessageType == {"Undefined", "Request", "Response"}

Message == [type : MessageType, id : Callers \X (0 .. CallIds - 1),
            size : Nat, intact : BOOLEAN]

ASSUME NoMessageAssumption == NoMessage \notin Message

Packet == {p \in [msg : Message, index : Nat, count : Nat, payloadSize : 0 .. MaxPayloadSize] :
             p.index < p.count}

VARIABLES
    pc,         \* control point of each thread
    out,        \* packets a thread's WriteMessage has still to write
    calls,      \* number of the last call a thread made (ghost)
    work,       \* the message a request processor is processing
    mutex,      \* owner of the agent transport's _mutex
    pipe,       \* packets in the pipe each side reads
    partial,    \* packets of the message ReadMessage is assembling
    raise,      \* event the message handler sets next, after its Push
    requestQueue, responseQueue,
    requestNotification, responseNotification   \* auto-reset events

threadVars == <<pc, out, calls, work, mutex>>
sideVars == <<pipe, partial, raise, requestQueue, responseQueue,
              requestNotification, responseNotification>>
vars == <<threadVars, sideVars>>

Init ==
    /\ pc = [t \in Threads |-> IF t \in RequestProcessors THEN "listen" ELSE "idle"]
    /\ out = [t \in Threads |-> << >>]
    /\ calls = [t \in Callers |-> 0]
    /\ work = [r \in RequestProcessors |-> NoMessage]
    /\ mutex = NoThread
    /\ pipe = [s \in Side |-> << >>]
    /\ partial = [s \in Side |-> << >>]
    /\ raise = [s \in Side |-> "none"]
    /\ requestQueue = [s \in Side |-> << >>]
    /\ responseQueue = [s \in Side |-> << >>]
    /\ requestNotification = [s \in Side |-> FALSE]
    /\ responseNotification = [s \in Side |-> FALSE]

-----------------------------------------------------------------------------
(* Framing *)

\* One more than the full packets, also when these hold all there is: the last
\* packet is then empty.
PacketCount(size) == size \div MaxPayloadSize + 1

\* What is left after i packets, if it fits.
PayloadSize(size, i) ==
    LET left == size - i * MaxPayloadSize
    IN  IF left > MaxPayloadSize THEN MaxPayloadSize ELSE left

MessageToPackets(m) ==
    [i \in 1 .. PacketCount(m.size) |->
        [msg |-> m, index |-> i - 1, count |-> PacketCount(m.size),
         payloadSize |-> PayloadSize(m.size, i - 1)]]

\* The packets' payload sizes are added up in one loop.
PayloadOf(ps) ==
    LET size[i \in 0 .. Len(ps)] == IF i = 0 THEN 0 ELSE size[i - 1] + ps[i].payloadSize
    IN  size[Len(ps)]

\* The payloads are put at multiples of MaxPayloadSize in the order of arrival.
\* The header of the rebuilt message is the start of the first packet read.
\* When that packet is not the first of its message the bytes there are
\* payload text, which is neither type the message handler knows.
PacketsToMessage(ps) ==
    LET m == ps[1].msg
        size == PayloadOf(ps)
    IN  IF ps[1].index = 0
        THEN [m EXCEPT !.size = size,
                       !.intact = /\ @
                                  /\ size = m.size
                                  /\ \A i \in DOMAIN ps :
                                        ps[i].msg = m /\ ps[i].index = i - 1]
        ELSE [m EXCEPT !.type = "Undefined", !.intact = FALSE]

\* Mutant: the last packet but one taken for the last.
LastPacketEarly(p) == p.index + 2 >= p.count

LastPacket(p) == p.index = p.count - 1

-----------------------------------------------------------------------------
(* SendAndGetResponse *)

\* Mutant: the agent's override takes no lock.
MayEnterUnlocked(t) == TRUE

\* The agent's override takes _mutex before it writes.
MayEnter(t) == t \in AgentCallers => mutex = NoThread

StartCall(t) ==
    /\ pc[t] = Base(t)
    /\ MayEnter(t)
    /\ mutex' = IF t \in AgentCallers THEN t ELSE mutex
    /\ calls' = [calls EXCEPT ![t] = (@ + 1) % CallIds]
    /\ \E n \in Sizes :
         out' = [out EXCEPT ![t] = MessageToPackets(
                    [type |-> "Request", id |-> <<t, calls'[t]>>,
                     size |-> n, intact |-> TRUE])]
    /\ pc' = [pc EXCEPT ![t] = "write"]
    /\ UNCHANGED <<work, sideVars>>

\* One WriteFile of WriteMessage's loop.  No lock covers the loop itself.
WritePacket(t) ==
    LET s == Peer(SideOf(t))
    IN  /\ pc[t] \in {"write", "answer"}
        /\ Len(pipe[s]) < PipeCapacity
        /\ pipe' = [pipe EXCEPT ![s] = Append(@, Head(out[t]))]
        /\ out' = [out EXCEPT ![t] = Tail(@)]
        /\ pc' = IF Len(out[t]) > 1 THEN pc
                 ELSE [pc EXCEPT ![t] = IF @ = "write" THEN "wait" ELSE "listen"]
        /\ UNCHANGED <<calls, work, mutex, partial, raise, requestQueue,
                       responseQueue, requestNotification, responseNotification>>

\* Mutant: the event is of the manual-reset kind.
WaitResponseManualReset(t) ==
    /\ pc[t] = "wait"
    /\ responseNotification[SideOf(t)]
    /\ pc' = [pc EXCEPT ![t] = "pop"]
    /\ UNCHANGED <<out, calls, work, mutex, sideVars>>

\* Mutant: the wait is not INFINITE and its result is not looked at.
WaitResponseImpatient(t) ==
    /\ pc[t] = "wait"
    /\ responseNotification' = [responseNotification EXCEPT ![SideOf(t)] = FALSE]
    /\ pc' = [pc EXCEPT ![t] = "pop"]
    /\ UNCHANGED <<out, calls, work, mutex, pipe, partial, raise,
                   requestQueue, responseQueue, requestNotification>>

\* WaitForSingleObject(_hResponseNotification, INFINITE)
WaitResponse(t) ==
    /\ pc[t] = "wait"
    /\ responseNotification[SideOf(t)]
    /\ responseNotification' = [responseNotification EXCEPT ![SideOf(t)] = FALSE]
    /\ pc' = [pc EXCEPT ![t] = "pop"]
    /\ UNCHANGED <<out, calls, work, mutex, pipe, partial, raise,
                   requestQueue, responseQueue, requestNotification>>

\* MessageQueue::Pop gives back null, and pops nothing, on an empty queue.
Front(q) == IF q = << >> THEN NoMessage ELSE Head(q)
\* Mutant: the message is read and not popped.
RestKept(q) == q

Rest(q) == IF q = << >> THEN q ELSE Tail(q)

\* The call returns Front of its side's response queue, and _mutex with it.
PopResponse(t) ==
    LET s == SideOf(t)
    IN  /\ pc[t] = "pop"
        /\ responseQueue' = [responseQueue EXCEPT ![s] = Rest(@)]
        /\ mutex' = IF t \in AgentCallers THEN NoThread ELSE mutex
        /\ pc' = [pc EXCEPT ![t] = Base(t)]
        /\ UNCHANGED <<out, calls, work, pipe, partial, raise, requestQueue,
                       requestNotification, responseNotification>>

-----------------------------------------------------------------------------
(* RunMessageMonitor: ReadMessage, then Push, then SetEvent *)

\* A message of any type but the two known ones is dropped without a word.
ReadPacket(s) ==
    LET ps == Append(partial[s], Head(pipe[s]))
        m == PacketsToMessage(ps)
        done == LastPacket(Head(pipe[s]))
    IN  /\ raise[s] = "none"
        /\ pipe[s] # << >>
        /\ pipe' = [pipe EXCEPT ![s] = Tail(@)]
        /\ partial' = [partial EXCEPT ![s] = IF done THEN << >> ELSE ps]
        /\ raise' = [raise EXCEPT ![s] =
                       IF done /\ m.type # "Undefined" THEN m.type ELSE "none"]
        /\ requestQueue' = IF done /\ m.type = "Request"
                           THEN [requestQueue EXCEPT ![s] = Append(@, m)]
                           ELSE requestQueue
        /\ responseQueue' = IF done /\ m.type = "Response"
                            THEN [responseQueue EXCEPT ![s] = Append(@, m)]
                            ELSE responseQueue
        /\ UNCHANGED <<threadVars, requestNotification, responseNotification>>

\* Mutant: a response signals the request event too, and only that.
SetNotificationOfRequest(s) ==
    /\ raise[s] # "none"
    /\ raise' = [raise EXCEPT ![s] = "none"]
    /\ requestNotification' = [requestNotification EXCEPT ![s] = TRUE]
    /\ UNCHANGED <<threadVars, pipe, partial, requestQueue, responseQueue,
                   responseNotification>>

SetNotification(s) ==
    /\ raise[s] # "none"
    /\ raise' = [raise EXCEPT ![s] = "none"]
    /\ requestNotification' =
         [requestNotification EXCEPT ![s] = @ \/ raise[s] = "Request"]
    /\ responseNotification' =
         [responseNotification EXCEPT ![s] = @ \/ raise[s] = "Response"]
    /\ UNCHANGED <<threadVars, pipe, partial, requestQueue, responseQueue>>

-----------------------------------------------------------------------------
(* RunRequestMonitor and ProcessRequestMessage *)

WaitRequest(r) ==
    /\ pc[r] = "listen"
    /\ requestNotification[SideOf(r)]
    /\ requestNotification' = [requestNotification EXCEPT ![SideOf(r)] = FALSE]
    /\ pc' = [pc EXCEPT ![r] = "take"]
    /\ UNCHANGED <<out, calls, work, mutex, pipe, partial, raise,
                   requestQueue, responseQueue, responseNotification>>

\* One message is taken for one wake-up, however many are queued.
TakeRequest(r) ==
    LET q == requestQueue[SideOf(r)]
    IN  /\ pc[r] = "take"
        /\ work' = [work EXCEPT ![r] = Front(q)]
        /\ requestQueue' = [requestQueue EXCEPT ![SideOf(r)] = Rest(q)]
        /\ pc' = [pc EXCEPT ![r] = IF q = << >> THEN "listen" ELSE "process"]
        /\ UNCHANGED <<out, calls, mutex, pipe, partial, raise,
                       responseQueue, requestNotification, responseNotification>>

\* The plugin, or the agent's reverse-invoke handler, has produced its result.
ProcessRequestMessage(r) ==
    /\ pc[r] = "process"
    /\ \E n \in Sizes :
         out' = [out EXCEPT ![r] = MessageToPackets(
                    [work[r] EXCEPT !.type = "Response", !.size = n])]
    /\ pc' = [pc EXCEPT ![r] = "answer"]
    /\ UNCHANGED <<calls, work, mutex, sideVars>>

-----------------------------------------------------------------------------
MessageHandler(s) == ReadPacket(s) \/ SetNotification(s)

RequestMonitor(r) == WaitRequest(r) \/ TakeRequest(r) \/ ProcessRequestMessage(r)

Next ==
    \/ \E t \in Callers : StartCall(t) \/ WaitResponse(t) \/ PopResponse(t)
    \/ \E t \in Threads : WritePacket(t)
    \/ \E s \in Side : MessageHandler(s)
    \/ \E r \in RequestProcessors : RequestMonitor(r)

Spec == Init /\ [][Next]_vars

(***************************************************************************)
(* The operating system schedules every thread, and a plugin's Invoke      *)
(* makes finitely many reverse calls before it returns (strong fairness of *)
(* ProcessRequestMessage).  Nothing obliges a thread to start a call.      *)
(***************************************************************************)
Fairness ==
    /\ \A t \in Callers : WF_vars(WaitResponse(t)) /\ WF_vars(PopResponse(t))
    /\ \A t \in Threads : WF_vars(WritePacket(t))
    /\ \A s \in Side : WF_vars(ReadPacket(s)) /\ WF_vars(SetNotification(s))
    /\ \A r \in RequestProcessors :
         /\ WF_vars(WaitRequest(r))
         /\ WF_vars(TakeRequest(r))
         /\ SF_vars(ProcessRequestMessage(r))

FairSpec == Spec /\ Fairness

-----------------------------------------------------------------------------
(* Properties *)

\* Every variable keeps its type.
TypeOK ==
    /\ pc \in [Threads -> {"idle", "write", "wait", "pop",
                           "listen", "take", "process", "answer"}]
    /\ out \in [Threads -> Seq(Packet)]
    /\ calls \in [Callers -> 0 .. CallIds - 1]
    /\ work \in [RequestProcessors -> Message \cup {NoMessage}]
    /\ mutex \in AgentCallers \cup {NoThread}
    /\ pipe \in [Side -> Seq(Packet)]
    /\ partial \in [Side -> Seq(Packet)]
    /\ raise \in [Side -> {"none", "Request", "Response"}]
    /\ requestQueue \in [Side -> Seq(Message)]
    /\ responseQueue \in [Side -> Seq(Message)]
    /\ requestNotification \in [Side -> BOOLEAN]
    /\ responseNotification \in [Side -> BOOLEAN]

Bit(b) == IF b THEN 1 ELSE 0
Popping(s) == {t \in Callers : SideOf(t) = s /\ pc[t] = "pop"}
Inside(t) == pc[t] \in {"write", "wait", "pop"}
IdOf(t) == <<t, calls[t]>>

(***************************************************************************)
(* Every wake-up of a thread waiting in SendAndGetResponse is backed by a  *)
(* queued response, on both sides and for any number of unsynchronised     *)
(* callers: _responseQueue.Pop never gives back the null pointer that the  *)
(* callers of SendAndGetResponse dereference unchecked.                    *)
(***************************************************************************)
WakeupsAreBacked ==
    \A s \in Side :
        Cardinality(Popping(s)) + Bit(responseNotification[s])
            + Bit(raise[s] = "Response") <= Len(responseQueue[s])

(***************************************************************************)
(* _mutex makes the agent's calls sequential: whatever the plugin does,    *)
(* the response an agent thread is about to pop is the only one queued and *)
(* is the answer to that thread's own call, never a leftover.              *)
(***************************************************************************)
AgentReplyIsOwn ==
    \A t \in AgentCallers :
        pc[t] = "pop" => /\ Len(responseQueue["agent"]) = 1
                         /\ responseQueue["agent"][1].id = IdOf(t)

(***************************************************************************)
(* The same for the host's threads, whose SendAndGetResponse takes no      *)
(* lock: the response a thread pops answers that thread's own reverse      *)
(* call.                                                                   *)
(***************************************************************************)
HostReplyIsOwn ==
    \A t \in HostCallers \cup {HostRP} :
        pc[t] = "pop" => responseQueue["host"][1].id = IdOf(t)

(***************************************************************************)
(* A message that reaches a queue has the payload its sender wrote, though *)
(* WriteMessage writes packet by packet with no lock.                      *)
(***************************************************************************)
QueuedMessagesIntact ==
    \A s \in Side :
        \A q \in {requestQueue[s], responseQueue[s]} :
            \A i \in 1 .. Len(q) : q[i].intact

\* Every SendAndGetResponse that starts returns.
CallsReturn == \A t \in Callers : Inside(t) ~> ~Inside(t)

-----------------------------------------------------------------------------
(***************************************************************************)
(* What the transport promises: a synchronous procedure call in each       *)
(* direction.  A call's request is taken once by the other side's request  *)
(* processor (work), answered once, and then returned to its caller.       *)
(***************************************************************************)
Server(t) == IF t \in AgentCallers THEN HostRP ELSE AgentRP

Phase(t) ==
    LET r == Server(t)
        mine == work[r] # NoMessage /\ work[r].id = IdOf(t)
    IN  CASE ~Inside(t) -> "idle"
          [] Inside(t) /\ ~mine -> "asked"
          [] Inside(t) /\ mine /\ (pc[r] = "process" \/ (r = HostRP /\ Inside(r))) -> "running"
          [] OTHER -> "answered"

Call == INSTANCE SynchronousCall WITH phase <- [t \in Callers |-> Phase(t)]

\* The exchange over pipes, queues and events implements the synchronous call.
ImplementsSynchronousCall == Call!Spec
=============================================================================
