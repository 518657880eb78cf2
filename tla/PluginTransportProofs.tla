------------------------- MODULE PluginTransportProofs -------------------------
(***************************************************************************)
(* For any number of threads, messages of any size and pipes of any        *)
(* capacity:                                                               *)
(*   - every wake-up of a thread that waits for a response is backed by a  *)
(*     queued response (WakeupsBacked);                                    *)
(*   - in a direction whose side makes one call at a time, the call has at *)
(*     most one message, in one place, and it is the call's own: so the    *)
(*     reply a thread pops is its own (AgentRepliesAreOwn, and             *)
(*     HostRepliesAreOwn when only a running Invoke calls the agent);      *)
(*   - the exchange is then a procedure call in each direction             *)
(*     (CallsAreSynchronous), and messages are read as they were written   *)
(*     (MessagesArriveIntact).                                             *)
(*                                                                         *)
(* A message is counted where its first packet is: still to be written, in *)
(* the pipe, at the start of the message being read, in the queue; a full  *)
(* count of those places, with the request that is being answered, is what *)
(* the steps preserve.                                                     *)
(***************************************************************************)
EXTENDS PluginTransport, TLAPS, FiniteSetTheorems, SequenceTheorems, WellFoundedInduction

Points == {"idle", "write", "wait", "pop", "listen", "take", "process", "answer"}

IsQueue(q) == \E S : q \in Seq(S)

ShapeInv ==
    /\ pc \in [Threads -> Points]
    /\ raise = [s \in Side |-> raise[s]]
    /\ responseQueue = [s \in Side |-> responseQueue[s]]
    /\ responseNotification \in [Side -> BOOLEAN]
    /\ \A s \in Side : IsQueue(responseQueue[s])

BackedInv == ShapeInv /\ WakeupsAreBacked

-----------------------------------------------------------------------------
(* Queues *)

\* Push makes a queue longer by one, Pop shorter.
LEMMA QueuePushed ==
  ASSUME NEW q, IsQueue(q), NEW m
  PROVE  /\ IsQueue(Append(q, m)) /\ Append(q, m) # << >>
         /\ Len(q) \in Nat /\ Len(Append(q, m)) = Len(q) + 1
         /\ \A i \in 1 .. Len(q) : Append(q, m)[i] = q[i]
         /\ Append(q, m)[Len(q) + 1] = m
<1>1. PICK S : q \in Seq(S)
  BY DEF IsQueue
<1> DEFINE T == S \cup {m}
<1>2. q \in Seq(T) /\ m \in T
  BY <1>1
<1> HIDE DEF T
<1>3. QED
  BY <1>2, AppendProperties DEF IsQueue

\* Pop of a queue that is not empty.
LEMMA QueuePopped ==
  ASSUME NEW q, IsQueue(q), q # << >>
  PROVE  /\ IsQueue(Tail(q)) /\ Head(q) = q[1]
         /\ Len(q) \in Nat \ {0} /\ Len(Tail(q)) = Len(q) - 1
         /\ \A i \in 1 .. Len(Tail(q)) : i + 1 \in 1 .. Len(q) /\ Tail(q)[i] = q[i + 1]
<1>1. PICK S : q \in Seq(S)
  BY DEF IsQueue
<1>2. /\ Len(q) \in Nat \ {0} /\ Head(q) = q[1] /\ Tail(q) \in Seq(S)
      /\ Len(Tail(q)) = Len(q) - 1
      /\ \A i \in 1 .. Len(q) - 1 : Tail(q)[i] = q[i + 1]
  BY <1>1, EmptySeq, HeadTailProperties
<1>3. QED
  BY <1>2 DEF IsQueue

\* Pop of a queue that may be empty.
LEMMA Popped ==
  ASSUME NEW q, IsQueue(q)
  PROVE  /\ IsQueue(Rest(q)) /\ Len(q) \in Nat
         /\ Len(q) > 0 => Len(Rest(q)) = Len(q) - 1
<1>1. PICK S : q \in Seq(S)
  BY DEF IsQueue
<1>2. Rest(q) \in Seq(S) /\ Len(q) \in Nat /\ (Len(q) > 0 => Len(Rest(q)) = Len(q) - 1)
  BY <1>1 DEF Rest
<1>3. QED
  BY <1>2 DEF IsQueue

-----------------------------------------------------------------------------
(* The threads about to pop *)

\* They can be counted.
LEMMA PoppingFinite ==
  ASSUME NEW s \in Side
  PROVE  IsFiniteSet(Popping(s)) /\ Cardinality(Popping(s)) \in Nat
<1>1. IsFiniteSet(Callers)
  <2>1. IsFiniteSet((AgentCallers \cup HostCallers) \cup {HostRP})
    BY ThreadsFinite, FS_AddElement
  <2>2. QED
    BY <2>1 DEF Callers
<1>2. Popping(s) \in SUBSET Callers
  BY DEF Popping
<1>3. QED
  BY <1>1, <1>2, FS_Subset, FS_CardinalityType

\* A caller is a thread of one of the two sides.
LEMMA SidesOfCallers == \A t \in Callers : SideOf(t) \in Side /\ t \in Threads
  BY DEF SideOf, Side, Threads

\* A step that brings nobody to the Pop and takes nobody from it.
LEMMA NobodyPops ==
  ASSUME \A t \in Callers : pc'[t] = "pop" <=> pc[t] = "pop"
  PROVE  \A s \in Side : Popping(s)' = Popping(s)
  BY DEF Popping

\* Other parts of the state do not matter.
LEMMA BackedUnmoved ==
  ASSUME BackedInv, pc' \in [Threads -> Points],
         \A t \in Callers : pc'[t] = "pop" <=> pc[t] = "pop",
         UNCHANGED <<raise, responseQueue, responseNotification>>
  PROVE  BackedInv'
<1>1. ShapeInv'
  BY DEF BackedInv, ShapeInv
<1>2. \A s \in Side : Popping(s)' = Popping(s)
  BY NobodyPops
<1>3. WakeupsAreBacked'
  BY <1>2 DEF BackedInv, WakeupsAreBacked, Bit
<1>4. QED
  BY <1>1, <1>3 DEF BackedInv
-----------------------------------------------------------------------------
(* The steps *)

\* A wait that is satisfied moves the event's wake-up to the thread.
LEMMA WaitResponseStep ==
  ASSUME BackedInv, NEW t \in Callers, WaitResponse(t)
  PROVE  BackedInv'
<1> DEFINE s == SideOf(t)
<1>0. s \in Side /\ t \in Threads
  BY SidesOfCallers
<1>1. /\ pc[t] = "wait" /\ pc' = [pc EXCEPT ![t] = "pop"]
      /\ responseNotification[s]
      /\ responseNotification' = [responseNotification EXCEPT ![s] = FALSE]
      /\ UNCHANGED <<raise, responseQueue>>
  BY DEF WaitResponse
<1>2. ShapeInv'
  BY <1>0, <1>1 DEF BackedInv, ShapeInv, Points
<1>3. /\ Popping(s)' = Popping(s) \cup {t} /\ t \notin Popping(s)
      /\ \A u \in Side : u # s => Popping(u)' = Popping(u)
  BY <1>0, <1>1 DEF Popping, BackedInv, ShapeInv
<1>4. Cardinality(Popping(s)') = Cardinality(Popping(s)) + 1
  BY <1>0, <1>3, PoppingFinite, FS_AddElement
<1>5. \A u \in Side : Bit(responseNotification'[u]) =
        IF u = s THEN 0 ELSE Bit(responseNotification[u])
  BY <1>0, <1>1 DEF Bit, BackedInv, ShapeInv
<1>6. Bit(responseNotification[s]) = 1
  BY <1>1 DEF Bit
<1> HIDE DEF s
<1>7. ASSUME NEW u \in Side
      PROVE  Cardinality(Popping(u)') + Bit(responseNotification'[u])
               + Bit(raise[u] = "Response") <= Len(responseQueue[u])
  <2>1. Cardinality(Popping(u)) + Bit(responseNotification[u])
          + Bit(raise[u] = "Response") <= Len(responseQueue[u])
    BY DEF BackedInv, WakeupsAreBacked
  <2>2. Cardinality(Popping(u)) \in Nat
    BY PoppingFinite
  <2>3. CASE u = s
    BY <2>1, <2>2, <2>3, <1>4, <1>5, <1>6 DEF Bit
  <2>4. CASE u # s
    <3>1. Popping(u)' = Popping(u) /\ Bit(responseNotification'[u]) = Bit(responseNotification[u])
      BY <2>4, <1>3, <1>5
    <3>2. QED
      BY <2>1, <3>1
  <2>5. QED
    BY <2>3, <2>4
<1>8. QED
  BY <1>1, <1>2, <1>7 DEF BackedInv, WakeupsAreBacked

\* A thread that pops takes a message with its wake-up.
LEMMA PopResponseStep ==
  ASSUME BackedInv, NEW t \in Callers, PopResponse(t)
  PROVE  BackedInv'
<1> DEFINE s == SideOf(t)
<1>0. s \in Side /\ t \in Threads
  BY SidesOfCallers
<1>1. /\ pc[t] = "pop" /\ pc' = [pc EXCEPT ![t] = Base(t)]
      /\ responseQueue' = [responseQueue EXCEPT ![s] = Rest(@)]
      /\ UNCHANGED <<raise, responseNotification>>
  BY DEF PopResponse
<1>2. responseQueue'[s] = Rest(responseQueue[s])
      /\ \A u \in Side : u # s => responseQueue'[u] = responseQueue[u]
  BY <1>0, <1>1 DEF BackedInv, ShapeInv
<1>3. ShapeInv'
  <2>1. pc' \in [Threads -> Points]
    BY <1>1 DEF BackedInv, ShapeInv, Points, Base
  <2>2. responseQueue' = [u \in Side |-> responseQueue'[u]]
    BY <1>1 DEF BackedInv, ShapeInv
  <2>3. \A u \in Side : IsQueue(responseQueue'[u])
    BY <1>0, <1>2, Popped DEF BackedInv, ShapeInv
  <2>4. QED
    BY <1>1, <2>1, <2>2, <2>3 DEF BackedInv, ShapeInv
<1>4. /\ Popping(s)' = Popping(s) \ {t} /\ t \in Popping(s)
      /\ \A u \in Side : u # s => Popping(u)' = Popping(u)
  BY <1>0, <1>1 DEF Popping, BackedInv, ShapeInv, Base
<1>5. Cardinality(Popping(s)') = Cardinality(Popping(s)) - 1
  BY <1>0, <1>4, PoppingFinite, FS_RemoveElement
<1> HIDE DEF s
<1>6. ASSUME NEW u \in Side
      PROVE  Cardinality(Popping(u)') + Bit(responseNotification[u])
               + Bit(raise[u] = "Response") <= Len(responseQueue'[u])
  <2>1. Cardinality(Popping(u)) + Bit(responseNotification[u])
          + Bit(raise[u] = "Response") <= Len(responseQueue[u])
    BY DEF BackedInv, WakeupsAreBacked
  <2>2. Cardinality(Popping(u)) \in Nat /\ Cardinality(Popping(u)') \in Nat
        /\ Bit(responseNotification[u]) \in Nat /\ Bit(raise[u] = "Response") \in Nat
    <3>1. Cardinality(Popping(u)) \in Nat
      BY PoppingFinite
    <3>2. Cardinality(Popping(u)') \in Nat
      BY <1>4, PoppingFinite, FS_RemoveElement, FS_CardinalityType
    <3>3. QED
      BY <3>1, <3>2 DEF Bit
  <2>3. CASE u = s
    <3>1. Len(responseQueue[s]) \in Nat
      BY <1>0, Popped DEF BackedInv, ShapeInv
    <3>2. Len(responseQueue[s]) > 0
      BY <2>1, <2>2, <2>3, <1>5, <3>1
    <3>3. Len(responseQueue'[s]) = Len(responseQueue[s]) - 1
      BY <1>0, <1>2, <3>2, Popped DEF BackedInv, ShapeInv
    <3>4. QED
      BY <2>1, <2>2, <2>3, <1>5, <3>1, <3>3
  <2>4. CASE u # s
    BY <2>1, <2>4, <1>2, <1>4
  <2>5. QED
    BY <2>3, <2>4
<1>7. QED
  BY <1>1, <1>3, <1>6 DEF BackedInv, WakeupsAreBacked

\* Push comes before SetEvent: what is about to be announced is queued.
LEMMA ReadPacketStep ==
  ASSUME BackedInv, NEW s \in Side, ReadPacket(s)
  PROVE  BackedInv'
<1> DEFINE m == PacketsToMessage(Append(partial[s], Head(pipe[s])))
           done == LastPacket(Head(pipe[s]))
           answered == done /\ m.type = "Response"
<1>1. /\ raise[s] = "none" /\ UNCHANGED <<pc, responseNotification>>
      /\ raise' = [raise EXCEPT ![s] = IF done /\ m.type # "Undefined" THEN m.type ELSE "none"]
      /\ responseQueue' = IF answered
                          THEN [responseQueue EXCEPT ![s] = Append(@, m)]
                          ELSE responseQueue
  BY DEF ReadPacket, threadVars
<1>2. \A u \in Side : u # s => raise'[u] = raise[u] /\ responseQueue'[u] = responseQueue[u]
  <2> HIDE DEF m, done, answered
  <2>1. QED
    BY <1>1 DEF BackedInv, ShapeInv
<1>3. raise'[s] = "Response" <=> answered
  <2>1. raise'[s] = IF done /\ m.type # "Undefined" THEN m.type ELSE "none"
    <3> HIDE DEF m, done, answered
    <3>1. QED
      BY <1>1 DEF BackedInv, ShapeInv
  <2> HIDE DEF m, done
  <2>2. QED
    BY <2>1
<1>4. responseQueue'[s] = IF answered THEN Append(responseQueue[s], m) ELSE responseQueue[s]
  <2> HIDE DEF m, done, answered
  <2>1. QED
    BY <1>1 DEF BackedInv, ShapeInv
<1> HIDE DEF m, done, answered
<1>5. ShapeInv'
  <2>1. raise' = [u \in Side |-> raise'[u]] /\ responseQueue' = [u \in Side |-> responseQueue'[u]]
    BY <1>1 DEF BackedInv, ShapeInv
  <2>2. \A u \in Side : IsQueue(responseQueue'[u])
    BY <1>2, <1>4, QueuePushed DEF BackedInv, ShapeInv
  <2>3. QED
    BY <1>1, <2>1, <2>2 DEF BackedInv, ShapeInv
<1>6. \A u \in Side : Popping(u)' = Popping(u)
  BY <1>1, NobodyPops
<1>7. ASSUME NEW u \in Side
      PROVE  Cardinality(Popping(u)) + Bit(responseNotification[u])
               + Bit(raise'[u] = "Response") <= Len(responseQueue'[u])
  <2>1. Cardinality(Popping(u)) + Bit(responseNotification[u])
          + Bit(raise[u] = "Response") <= Len(responseQueue[u])
    BY DEF BackedInv, WakeupsAreBacked
  <2>2. CASE u # s
    BY <1>2, <2>1, <2>2
  <2>3. CASE u = s
    <3>1. /\ Len(responseQueue[s]) \in Nat
          /\ Len(Append(responseQueue[s], m)) = Len(responseQueue[s]) + 1
      BY QueuePushed DEF BackedInv, ShapeInv
    <3>2. Bit(raise[s] = "Response") = 0
      BY <1>1 DEF Bit
    <3>3. Cardinality(Popping(s)) + Bit(responseNotification[s]) \in Nat
      BY PoppingFinite DEF Bit
    <3>4. Cardinality(Popping(s)) + Bit(responseNotification[s]) <= Len(responseQueue[s])
      BY <2>1, <2>3, <3>2, <3>3
    <3>5. \/ Bit(raise'[s] = "Response") = 0 /\ Len(responseQueue'[s]) = Len(responseQueue[s])
          \/ Bit(raise'[s] = "Response") = 1
             /\ Len(responseQueue'[s]) = Len(responseQueue[s]) + 1
      <4>1. CASE answered
        BY <4>1, <1>3, <1>4, <3>1 DEF Bit
      <4>2. CASE ~answered
        BY <4>2, <1>3, <1>4 DEF Bit
      <4>3. QED
        BY <4>1, <4>2
    <3> DEFINE waiting == Cardinality(Popping(s)) + Bit(responseNotification[s])
               queued == Len(responseQueue[s])
               raised == Bit(raise'[s] = "Response")
    <3>6. waiting + raised <= Len(responseQueue'[s])
      <4>1. waiting \in Nat /\ queued \in Nat /\ waiting <= queued
        BY <3>1, <3>3, <3>4
      <4>2. \/ raised = 0 /\ Len(responseQueue'[s]) = queued
            \/ raised = 1 /\ Len(responseQueue'[s]) = queued + 1
        BY <3>5
      <4> HIDE DEF waiting, queued, raised
      <4>3. QED
        BY <4>1, <4>2
    <3>7. QED
      BY <2>3, <3>6
  <2>4. QED
    BY <2>2, <2>3
<1>8. QED
  BY <1>1, <1>5, <1>6, <1>7 DEF BackedInv, WakeupsAreBacked

\* SetEvent takes over from the message handler; on a set event it does nothing.
LEMMA SetNotificationStep ==
  ASSUME BackedInv, NEW s \in Side, SetNotification(s)
  PROVE  BackedInv'
<1>1. /\ UNCHANGED <<pc, responseQueue>>
      /\ raise' = [raise EXCEPT ![s] = "none"]
      /\ responseNotification' =
           [responseNotification EXCEPT ![s] = @ \/ raise[s] = "Response"]
  BY DEF SetNotification, threadVars
<1>2. \A u \in Side : u # s => raise'[u] = raise[u]
                                /\ responseNotification'[u] = responseNotification[u]
  BY <1>1 DEF BackedInv, ShapeInv
<1>3. /\ raise'[s] = "none"
      /\ responseNotification'[s] <=> responseNotification[s] \/ raise[s] = "Response"
  BY <1>1 DEF BackedInv, ShapeInv
<1>4. ShapeInv'
  BY <1>1 DEF BackedInv, ShapeInv
<1>5. \A u \in Side : Popping(u)' = Popping(u)
  BY <1>1, NobodyPops
<1>6. ASSUME NEW u \in Side
      PROVE  Cardinality(Popping(u)) + Bit(responseNotification'[u])
               + Bit(raise'[u] = "Response") <= Len(responseQueue[u])
  <2>1. Cardinality(Popping(u)) + Bit(responseNotification[u])
          + Bit(raise[u] = "Response") <= Len(responseQueue[u])
    BY DEF BackedInv, WakeupsAreBacked
  <2>2. CASE u # s
    BY <1>2, <2>1, <2>2
  <2>3. CASE u = s
    <3>1. Bit(raise'[s] = "Response") = 0
      BY <1>3 DEF Bit
    <3>2. Bit(responseNotification'[s]) <=
            Bit(responseNotification[s]) + Bit(raise[s] = "Response")
      BY <1>3 DEF Bit
    <3>3. Cardinality(Popping(s)) \in Nat /\ Bit(responseNotification'[s]) \in Nat
          /\ Bit(responseNotification[s]) \in Nat /\ Bit(raise[s] = "Response") \in Nat
      BY PoppingFinite DEF Bit
    <3>4. Len(responseQueue[s]) \in Nat
      BY Popped DEF BackedInv, ShapeInv
    <3>5. QED
      BY <2>1, <2>3, <3>1, <3>2, <3>3, <3>4
  <2>4. QED
    BY <2>2, <2>3
<1>7. QED
  BY <1>1, <1>4, <1>5, <1>6 DEF BackedInv, WakeupsAreBacked

\* The other steps.
LEMMA OtherStep ==
  ASSUME BackedInv,
         \/ \E t \in Callers : StartCall(t)
         \/ \E t \in Threads : WritePacket(t)
         \/ \E r \in RequestProcessors : RequestMonitor(r)
         \/ UNCHANGED vars
  PROVE  BackedInv'
<1>0. /\ \A t \in Callers : t \in Threads
      /\ \A r \in RequestProcessors : r \in Threads
      /\ pc \in [Threads -> Points]
  BY DEF Threads, Callers, RequestProcessors, BackedInv, ShapeInv
<1>1. ASSUME NEW t \in Callers, StartCall(t) PROVE BackedInv'
  <2>1. /\ pc[t] \in {"process", "idle"} /\ pc' = [pc EXCEPT ![t] = "write"]
        /\ UNCHANGED <<raise, responseQueue, responseNotification>>
    BY <1>1 DEF StartCall, Base, sideVars
  <2>2. QED
    BY <1>0, <2>1, BackedUnmoved DEF Points
<1>2. ASSUME NEW t \in Threads, WritePacket(t) PROVE BackedInv'
  <2>1. /\ pc[t] \in {"write", "answer"}
        /\ pc' = pc \/ pc' = [pc EXCEPT ![t] = "wait"] \/ pc' = [pc EXCEPT ![t] = "listen"]
        /\ UNCHANGED <<raise, responseQueue, responseNotification>>
    BY <1>2 DEF WritePacket
  <2>2. QED
    BY <1>0, <2>1, BackedUnmoved DEF Points
<1>3. ASSUME NEW r \in RequestProcessors, RequestMonitor(r) PROVE BackedInv'
  <2>1. /\ pc[r] \in {"listen", "take", "process"}
        /\ \E l \in {"take", "listen", "process", "answer"} : pc' = [pc EXCEPT ![r] = l]
        /\ UNCHANGED <<raise, responseQueue, responseNotification>>
    BY <1>3 DEF RequestMonitor, WaitRequest, TakeRequest, ProcessRequestMessage, sideVars
  <2>2. QED
    BY <1>0, <2>1, BackedUnmoved DEF Points
<1>4. CASE UNCHANGED vars
  BY <1>0, <1>4, BackedUnmoved DEF vars, threadVars, sideVars
<1>5. QED
  BY <1>1, <1>2, <1>3, <1>4

\* Nobody waits at first.
LEMMA BackedInit == Init => BackedInv
<1> SUFFICES ASSUME Init PROVE BackedInv
  OBVIOUS
<1>1. ShapeInv
  BY DEF Init, ShapeInv, Points, IsQueue
<1>2. \A s \in Side : Popping(s) = {}
  BY DEF Init, Popping, Threads
<1>3. WakeupsAreBacked
  <2>1. \A s \in Side : /\ responseNotification[s] = FALSE /\ raise[s] = "none"
                       /\ responseQueue[s] = << >>
    BY DEF Init
  <2>2. Cardinality({}) = 0
    BY FS_EmptySet
  <2>3. Len(<< >>) = 0
    OBVIOUS
  <2> SUFFICES ASSUME NEW s \in Side
               PROVE  Cardinality(Popping(s)) + Bit(responseNotification[s])
                        + Bit(raise[s] = "Response") <= Len(responseQueue[s])
    BY DEF WakeupsAreBacked
  <2>4. Bit(responseNotification[s]) = 0 /\ Bit(raise[s] = "Response") = 0
    BY <2>1 DEF Bit
  <2>5. Cardinality(Popping(s)) = 0 /\ Len(responseQueue[s]) = 0
    BY <1>2, <2>1, <2>2, <2>3
  <2> QED
    BY <2>4, <2>5
<1>4. QED
  BY <1>1, <1>3 DEF BackedInv

\* Every step keeps the wake-ups backed.
LEMMA BackedStep == BackedInv /\ [Next]_vars => BackedInv'
  BY WaitResponseStep, PopResponseStep, ReadPacketStep, SetNotificationStep, OtherStep, Zenon
     DEF Next, MessageHandler

\* _responseQueue.Pop in SendAndGetResponse never finds the queue empty,
\* however many threads wait on the one auto-reset event.
THEOREM WakeupsBacked == Spec => []WakeupsAreBacked
<1>1. BackedInv /\ [Next]_vars => BackedInv'
  BY BackedStep
<1>2. BackedInv => WakeupsAreBacked
  BY DEF BackedInv
<1>3. QED
  BY BackedInit, <1>1, <1>2, PTL DEF Spec

-----------------------------------------------------------------------------
(* Packets and messages on their way *)

\* A message is a record of four fields, whatever its size adds up to.
IsMessage(m) == \E A, B, C, D : m \in [type : A, id : B, size : C, intact : D]

IsMessages(q) == IsQueue(q) /\ \A i \in 1 .. Len(q) : IsMessage(q[i])
IsPackets(q) == IsQueue(q) /\ \A i \in 1 .. Len(q) : IsMessage(q[i].msg)

\* A message is where its first packet is.
Starts(p, type) == p.index = 0 /\ p.msg.type = type
Starting(q, type) == {i \in 1 .. Len(q) : Starts(q[i], type)}
Count(q, type) == Cardinality(Starting(q, type))
Opens(q, type) == q # << >> /\ Starts(q[1], type)

\* Message starts in a sequence of packets are countable; none is zero.
LEMMA CountType ==
  ASSUME NEW q, IsQueue(q), NEW type
  PROVE  /\ IsFiniteSet(Starting(q, type)) /\ Count(q, type) \in Nat
         /\ Count(q, type) = 0 <=> \A i \in 1 .. Len(q) : ~Starts(q[i], type)
<1>1. Len(q) \in Nat
  BY DEF IsQueue
<1>2. IsFiniteSet(1 .. Len(q)) /\ Starting(q, type) \subseteq 1 .. Len(q)
  BY <1>1, FS_Interval DEF Starting
<1>3. IsFiniteSet(Starting(q, type))
  BY <1>2, FS_Subset
<1>4. Count(q, type) \in Nat
  BY ONLY <1>3, FS_CardinalityType DEF Count
<1>5. Count(q, type) = 0 <=> Starting(q, type) = {}
  BY ONLY <1>3, FS_EmptySet DEF Count
<1>6. Starting(q, type) = {} <=> \A i \in 1 .. Len(q) : ~Starts(q[i], type)
  BY DEF Starting
<1>7. QED
  BY ONLY <1>3, <1>4, <1>5, <1>6

\* A packet at the end adds one start if it is one.
LEMMA CountPushed ==
  ASSUME NEW q, IsQueue(q), NEW p, NEW type
  PROVE  Count(Append(q, p), type) = Count(q, type) + Bit(Starts(p, type))
<1> DEFINE n == Len(q) + 1
           a == Append(q, p)
<1>1. /\ Len(q) \in Nat /\ Len(a) = n /\ a[n] = p
      /\ \A i \in 1 .. Len(q) : a[i] = q[i]
  <2>1. PICK S : q \in Seq(S)
    BY DEF IsQueue
  <2>2. q \in Seq(S \cup {p})
    BY <2>1
  <2>3. QED
    BY <2>2, AppendProperties
<1> HIDE DEF a
<1>2. Starting(a, type) = IF Starts(p, type) THEN Starting(q, type) \cup {n}
                                             ELSE Starting(q, type)
  BY <1>1 DEF Starting
<1>3. n \notin Starting(q, type)
  BY <1>1 DEF Starting
<1>4. CASE Starts(p, type)
  BY <1>2, <1>3, <1>4, CountType, FS_AddElement DEF Count, Bit, a
<1>5. CASE ~Starts(p, type)
  BY <1>2, <1>5, CountType DEF Count, Bit, a
<1>6. QED
  BY <1>4, <1>5

\* The packet taken from the front takes its start along.
LEMMA CountPopped ==
  ASSUME NEW q, IsQueue(q), q # << >>, NEW type
  PROVE  Count(q, type) = Count(Tail(q), type) + Bit(Starts(Head(q), type))
<1>1. PICK S : q \in Seq(S)
  BY DEF IsQueue
<1>2. /\ Len(q) \in Nat \ {0} /\ Head(q) = q[1] /\ Tail(q) \in Seq(S)
      /\ Len(Tail(q)) = Len(q) - 1
      /\ \A i \in 1 .. Len(q) - 1 : Tail(q)[i] = q[i + 1]
  BY <1>1, EmptySeq, HeadTailProperties
<1> DEFINE later == Starting(q, type) \ {1}
           f == [i \in Starting(Tail(q), type) |-> i + 1]
<1>3. f \in Bijection(Starting(Tail(q), type), later)
  <2>1. f \in Injection(Starting(Tail(q), type), later)
    BY <1>2 DEF Injection, IsInjective, Starting
  <2>2. ASSUME NEW j \in later PROVE \E i \in Starting(Tail(q), type) : f[i] = j
    <3>1. j - 1 \in Starting(Tail(q), type)
      BY <1>2 DEF Starting
    <3>2. f[j - 1] = j
      BY <1>2, <3>1 DEF Starting
    <3>3. QED
      BY <3>1, <3>2
  <2>3. QED
    BY <2>1, <2>2 DEF Bijection, Surjection, Injection
<1>4. Cardinality(later) = Count(Tail(q), type)
  <2>1. IsFiniteSet(Starting(Tail(q), type))
    BY <1>2, CountType DEF IsQueue
  <2> HIDE DEF later, f
  <2>2. QED
    BY <1>3, <2>1, FS_Bijection DEF Count, ExistsBijection
<1>5. 1 \in Starting(q, type) <=> Starts(Head(q), type)
  BY <1>2 DEF Starting
<1>9. IsFiniteSet(Starting(q, type)) /\ Count(q, type) \in Nat
  BY CountType
<1>6. CASE Starts(Head(q), type)
  <2>1. Cardinality(later) = Cardinality(Starting(q, type)) - 1 /\ Count(q, type) \in Nat
    BY <1>5, <1>6, <1>9, FS_RemoveElement
  <2>2. QED
    BY <1>4, <1>6, <2>1 DEF Count, Bit
<1>7. CASE ~Starts(Head(q), type)
  <2>1. later = Starting(q, type)
    BY <1>5, <1>7
  <2>2. Count(q, type) = Count(Tail(q), type)
    BY <1>4, <2>1 DEF Count
  <2>3. Bit(Starts(Head(q), type)) = 0
    BY <1>7 DEF Bit
  <2>4. QED
    BY <1>9, <2>2, <2>3
<1>8. QED
  BY <1>6, <1>7

\* MessageToPackets puts one first packet in front.
LEMMA Packeted ==
  ASSUME NEW m, IsMessage(m), m.size \in Sizes
  PROVE  LET q == MessageToPackets(m)
         IN  /\ IsPackets(q) /\ q # << >>
             /\ \A i \in 1 .. Len(q) : q[i].msg = m
             /\ \A type : Count(q, type) = Bit(type = m.type)
<1> DEFINE n == PacketCount(m.size)
           q == MessageToPackets(m)
<1>1. n \in Nat \ {0}
  <2>1. m.size \in Nat /\ MaxPayloadSize \in Nat \ {0}
    BY BoundsPositive
  <2>2. \A a \in Nat, b \in Nat \ {0} : a \div b \in Nat
    OBVIOUS
  <2>3. QED
    BY <2>1, <2>2 DEF PacketCount
<1>2. \A i \in 1 .. n : q[i].msg = m /\ q[i].index = i - 1
  BY DEF MessageToPackets
<1>3. q \in Seq({q[i] : i \in 1 .. n}) /\ Len(q) = n
  BY <1>1 DEF MessageToPackets
<1>4. q # << >>
  BY <1>1, <1>3
<1> HIDE DEF q, n
<1>5. ASSUME NEW type PROVE Count(q, type) = Bit(type = m.type)
  <2>1. Starting(q, type) = IF type = m.type THEN {1} ELSE {}
    BY <1>1, <1>2, <1>3 DEF Starting, Starts
  <2>2. QED
    BY <2>1, FS_Singleton, FS_EmptySet DEF Count, Bit
<1>6. IsPackets(q)
  BY <1>2, <1>3 DEF IsPackets, IsQueue
<1>7. QED
  BY <1>2, <1>3, <1>4, <1>5, <1>6 DEF q

\* Only the packet with number 0 is read as the start of a message.
LEMMA Assembled ==
  ASSUME NEW ps, IsPackets(ps), ps # << >>
  PROVE  LET m == PacketsToMessage(ps)
         IN  /\ IsMessage(m)
             /\ \A type \in {"Request", "Response"} :
                  m.type = type <=> Starts(ps[1], type)
             /\ m.type # "Undefined" => m.id = ps[1].msg.id
<1>1. IsMessage(ps[1].msg)
  <2>1. 1 \in 1 .. Len(ps)
    BY EmptySeq DEF IsPackets, IsQueue
  <2>2. QED
    BY <2>1 DEF IsPackets
<1> DEFINE m == ps[1].msg
<1>2. PICK A, B, C, D : m \in [type : A, id : B, size : C, intact : D]
  BY <1>1 DEF IsMessage
<1>3. CASE ps[1].index = 0
  <2>1. PICK x, y : PacketsToMessage(ps) = [m EXCEPT !.size = x, !.intact = y]
    BY <1>3 DEF PacketsToMessage
  <2>2. /\ PacketsToMessage(ps) \in [type : A, id : B, size : {x}, intact : {y}]
        /\ PacketsToMessage(ps).type = m.type /\ PacketsToMessage(ps).id = m.id
    BY <1>2, <2>1
  <2>3. QED
    BY <1>3, <2>2 DEF IsMessage, Starts
<1>4. CASE ps[1].index # 0
  <2>1. PacketsToMessage(ps) = [m EXCEPT !.type = "Undefined", !.intact = FALSE]
    BY <1>4 DEF PacketsToMessage
  <2>2. /\ PacketsToMessage(ps) \in [type : {"Undefined"}, id : B, size : C, intact : {FALSE}]
        /\ PacketsToMessage(ps).type = "Undefined"
    BY <1>2, <2>1
  <2>3. QED
    BY <1>4, <2>2 DEF IsMessage, Starts
<1>5. QED
  BY <1>3, <1>4

\* Packets and messages stay such in sequences that grow and shrink.
LEMMA PacketsPushed ==
  ASSUME NEW q, IsPackets(q), NEW p, IsMessage(p.msg)
  PROVE  IsPackets(Append(q, p))
  BY QueuePushed DEF IsPackets

LEMMA PacketsPopped ==
  ASSUME NEW q, IsPackets(q), q # << >>
  PROVE  IsPackets(Tail(q)) /\ IsMessage(Head(q).msg)
  BY QueuePopped DEF IsPackets

LEMMA MessagesPushed ==
  ASSUME NEW q, IsMessages(q), NEW m, IsMessage(m)
  PROVE  IsMessages(Append(q, m))
  BY QueuePushed DEF IsMessages

LEMMA MessagesPopped ==
  ASSUME NEW q, IsMessages(q), q # << >>
  PROVE  IsMessages(Tail(q)) /\ IsMessage(Head(q))
  BY QueuePopped DEF IsMessages

\* The empty sequence.
LEMMA NoPackets == IsPackets(<< >>) /\ IsMessages(<< >>)
  BY DEF IsPackets, IsMessages, IsQueue

-----------------------------------------------------------------------------
\* The state is made of packets and messages.
FormInv ==
    /\ pc \in [Threads -> Points]
    /\ out = [t \in Threads |-> out[t]]
    /\ calls = [t \in Callers |-> calls[t]]
    /\ work = [r \in RequestProcessors |-> work[r]]
    /\ pipe = [s \in Side |-> pipe[s]]
    /\ partial = [s \in Side |-> partial[s]]
    /\ requestQueue = [s \in Side |-> requestQueue[s]]
    /\ responseQueue = [s \in Side |-> responseQueue[s]]
    /\ \A t \in Threads : IsPackets(out[t])
    /\ \A s \in Side : /\ IsPackets(pipe[s]) /\ IsPackets(partial[s])
                       /\ IsMessages(requestQueue[s]) /\ IsMessages(responseQueue[s])
    /\ \A r \in RequestProcessors : pc[r] = "process" \/ Inside(r) => IsMessage(work[r])

(***************************************************************************)
(* A side that makes at most one call at a time.                           *)
(***************************************************************************)
Caller(s) == IF s = "agent" THEN mutex
             ELSE IF Inside(HostRP) THEN HostRP ELSE NoThread

Answerer(s) == IF s = "agent" THEN HostRP ELSE AgentRP

\* What of a type has been written for a side and not yet been popped there.
QueueOf(s, type) == IF type = "Request" THEN requestQueue[s] ELSE responseQueue[s]
Leg(s, type) == Count(pipe[s], type) + Bit(Opens(partial[s], type)) + Len(QueueOf(s, type))

\* Where the call's one message is: on its way to the answerer, with it, or on
\* its way back.
Asking(s) == IF Caller(s) = NoThread THEN 0 ELSE Count(out[Caller(s)], "Request")
Going(s) == Asking(s) + Leg(Peer(s), "Request")
Serving(s) == pc[Answerer(s)] = "process" \/ Inside(Answerer(s))
Coming(s) == Count(out[Answerer(s)], "Response") + Leg(s, "Response")

OneMessage(s) == Going(s) + Bit(Serving(s)) + Coming(s) <= Bit(Caller(s) # NoThread)

PacketsOf(q, type, id) == \A i \in 1 .. Len(q) : Starts(q[i], type) => q[i].msg.id = id
OpenerOf(q, type, id) == Opens(q, type) => q[1].msg.id = id
MessagesOf(q, id) == \A i \in 1 .. Len(q) : q[i].id = id

LegOf(s, type, id) ==
    /\ PacketsOf(pipe[s], type, id)
    /\ OpenerOf(partial[s], type, id)
    /\ MessagesOf(QueueOf(s, type), id)

\* Whose it is.
OwnMessage(s) ==
    LET id == IdOf(Caller(s))
    IN  /\ LegOf(Peer(s), "Request", id)
        /\ Serving(s) => work[Answerer(s)].id = id
        /\ PacketsOf(out[Answerer(s)], "Response", id)
        /\ LegOf(s, "Response", id)

\* What the threads hold while they write.
ThreadInv ==
    /\ mutex \in AgentCallers \cup {NoThread}
    /\ \A t \in AgentCallers : Inside(t) <=> mutex = t
    /\ \A t \in AgentCallers \cup HostCallers : pc[t] \in {"idle", "write", "wait", "pop"}
    /\ pc[AgentRP] \in {"listen", "take", "process", "answer"}
    /\ pc[HostRP] # "idle"
    /\ \A t \in Threads :
         /\ out[t] # << >> <=> pc[t] \in {"write", "answer"}
         /\ \A i \in 1 .. Len(out[t]) :
              out[t][i].msg.type = IF pc[t] = "write" THEN "Request" ELSE "Response"
    /\ \A t \in Callers : pc[t] = "write" =>
         \A i \in 1 .. Len(out[t]) : out[t][i].msg.id = IdOf(t)

-----------------------------------------------------------------------------
(* Form and threads *)

\* Threads, callers and the two sides.
LEMMA ThreadsOf ==
  /\ \A t \in Callers : t \in Threads
  /\ \A r \in RequestProcessors : r \in Threads
  /\ \A t \in Threads : SideOf(t) \in Side /\ Peer(SideOf(t)) \in Side
  /\ \A s \in Side : Peer(s) \in Side /\ Peer(Peer(s)) = s /\ Peer(s) # s
  BY DEF Threads, Callers, RequestProcessors, SideOf, Peer, Side

\* What the start of a call does to its thread and to nobody else.
LEMMA StartCallForm ==
  ASSUME FormInv, ThreadInv, NEW t \in Callers, StartCall(t)
  PROVE  /\ FormInv' /\ ThreadInv'
         /\ pc[t] = Base(t) /\ pc'[t] = "write" /\ \A u \in Threads \ {t} : pc'[u] = pc[u]
         /\ Count(out'[t], "Request") = 1 /\ Count(out'[t], "Response") = 0
         /\ \A u \in Threads \ {t} : out'[u] = out[u]
         /\ \A u \in Callers \ {t} : IdOf(u)' = IdOf(u)
         /\ t \in AgentCallers => mutex = NoThread
         /\ mutex' = IF t \in AgentCallers THEN t ELSE mutex
         /\ UNCHANGED <<work, pipe, partial, requestQueue, responseQueue>>
<1>0. t \in Threads
  BY ThreadsOf
<1>1. PICK n \in Sizes :
        out' = [out EXCEPT ![t] = MessageToPackets(
                  [type |-> "Request", id |-> <<t, calls'[t]>>, size |-> n, intact |-> TRUE])]
  BY DEF StartCall
<1> DEFINE m == [type |-> "Request", id |-> <<t, calls'[t]>>, size |-> n, intact |-> TRUE]
<1>2. IsMessage(m) /\ m.size \in Sizes /\ m.type = "Request" /\ m.id = <<t, calls'[t]>>
  <2>1. m \in [type : {"Request"}, id : {<<t, calls'[t]>>}, size : {n}, intact : {TRUE}]
    OBVIOUS
  <2>2. QED
    BY <2>1 DEF IsMessage
<1> HIDE DEF m
<1>3. /\ out'[t] = MessageToPackets(m) /\ \A u \in Threads \ {t} : out'[u] = out[u]
      /\ out' = [u \in Threads |-> out'[u]]
  BY <1>0, <1>1 DEF FormInv, m
<1>4. /\ IsPackets(out'[t]) /\ out'[t] # << >>
      /\ \A i \in 1 .. Len(out'[t]) : out'[t][i].msg = m
      /\ Count(out'[t], "Request") = 1 /\ Count(out'[t], "Response") = 0
  BY <1>2, <1>3, Packeted DEF Bit
<1>5. /\ pc[t] = Base(t) /\ pc' = [pc EXCEPT ![t] = "write"]
      /\ mutex' = IF t \in AgentCallers THEN t ELSE mutex
      /\ t \in AgentCallers => mutex = NoThread
      /\ calls' = [calls EXCEPT ![t] = (@ + 1) % CallIds]
      /\ UNCHANGED <<work, pipe, partial, requestQueue, responseQueue>>
  BY DEF StartCall, MayEnter, sideVars
<1>6. pc'[t] = "write" /\ \A u \in Threads \ {t} : pc'[u] = pc[u]
  BY <1>0, <1>5 DEF FormInv
<1>7. \A u \in Callers \ {t} : IdOf(u)' = IdOf(u)
  BY <1>5 DEF FormInv, IdOf
<1>8. FormInv'
  <2>1. pc' \in [Threads -> Points]
    BY <1>5 DEF FormInv, Points
  <2>2. \A u \in Threads : IsPackets(out'[u])
    BY <1>3, <1>4 DEF FormInv
  <2>3. \A r \in RequestProcessors : pc'[r] = "process" \/ Inside(r)' => IsMessage(work'[r])
    BY <1>5, <1>6, ThreadsOf, ThreadsDistinct
       DEF FormInv, Inside, Base, Callers, RequestProcessors
  <2>4. calls' = [u \in Callers |-> calls'[u]]
    BY <1>5 DEF FormInv
  <2>5. QED
    BY <1>3, <1>5, <2>1, <2>2, <2>3, <2>4 DEF FormInv
<1>9. ThreadInv'
  <2>1. mutex' \in AgentCallers \cup {NoThread}
    BY <1>5 DEF ThreadInv
  <2>2. \A u \in AgentCallers : Inside(u)' <=> mutex' = u
    BY <1>0, <1>5, <1>6, ThreadsDistinct DEF ThreadInv, Inside, Threads, Callers
  <2>3. /\ \A u \in AgentCallers \cup HostCallers : pc'[u] \in {"idle", "write", "wait", "pop"}
        /\ pc'[AgentRP] \in {"listen", "take", "process", "answer"}
        /\ pc'[HostRP] # "idle"
    BY <1>0, <1>6, ThreadsDistinct DEF ThreadInv, Threads, Callers, RequestProcessors
  <2>4. \A u \in Threads : /\ out'[u] # << >> <=> pc'[u] \in {"write", "answer"}
                           /\ \A i \in 1 .. Len(out'[u]) : out'[u][i].msg.type =
                                IF pc'[u] = "write" THEN "Request" ELSE "Response"
    BY <1>2, <1>3, <1>4, <1>6 DEF ThreadInv
  <2>5. ASSUME NEW u \in Callers, pc'[u] = "write", NEW i \in 1 .. Len(out'[u])
        PROVE  out'[u][i].msg.id = IdOf(u)'
    <3>1. CASE u = t
      BY <1>2, <1>4, <3>1 DEF IdOf
    <3>2. CASE u # t
      BY <1>3, <1>6, <1>7, <2>5, <3>2, ThreadsOf DEF ThreadInv
    <3>3. QED
      BY <3>1, <3>2
  <2>6. QED
    BY <2>1, <2>2, <2>3, <2>4, <2>5 DEF ThreadInv
<1>10. QED
  BY <1>3, <1>4, <1>5, <1>6, <1>7, <1>8, <1>9

\* What a write does, to the pipe, to the writer and to nobody else.
LEMMA WritePacketForm ==
  ASSUME FormInv, ThreadInv, NEW t \in Threads, WritePacket(t)
  PROVE  /\ FormInv' /\ ThreadInv'
         /\ out[t] # << >> /\ pc[t] \in {"write", "answer"}
         /\ out'[t] = Tail(out[t]) /\ \A u \in Threads \ {t} : out'[u] = out[u]
         /\ LET s == Peer(SideOf(t))
            IN  /\ pipe'[s] = Append(pipe[s], Head(out[t]))
                /\ \A u \in Side \ {s} : pipe'[u] = pipe[u]
         /\ \A u \in Threads : Inside(u)' <=> Inside(u)
         /\ \A u \in Threads : pc'[u] = "process" <=> pc[u] = "process"
         /\ UNCHANGED <<calls, work, mutex, partial, requestQueue, responseQueue>>
<1> DEFINE s == Peer(SideOf(t))
<1>1. /\ pc[t] \in {"write", "answer"} /\ s \in Side
      /\ pipe' = [pipe EXCEPT ![s] = Append(@, Head(out[t]))]
      /\ out' = [out EXCEPT ![t] = Tail(@)]
      /\ pc' = IF Len(out[t]) > 1 THEN pc
               ELSE [pc EXCEPT ![t] = IF @ = "write" THEN "wait" ELSE "listen"]
      /\ UNCHANGED <<calls, work, mutex, partial, requestQueue, responseQueue>>
  BY ThreadsOf DEF WritePacket
<1>2. /\ out[t] # << >> /\ IsPackets(out[t]) /\ IsQueue(out[t])
  BY <1>1 DEF ThreadInv, FormInv, IsPackets
<1>3. /\ out'[t] = Tail(out[t]) /\ \A u \in Threads \ {t} : out'[u] = out[u]
      /\ out' = [u \in Threads |-> out'[u]]
  BY <1>1 DEF FormInv
<1>4. /\ pipe'[s] = Append(pipe[s], Head(out[t])) /\ \A u \in Side \ {s} : pipe'[u] = pipe[u]
      /\ pipe' = [u \in Side |-> pipe'[u]]
  BY <1>1 DEF FormInv
<1>5. /\ pc'[t] = IF Len(out[t]) > 1 THEN pc[t]
                   ELSE IF pc[t] = "write" THEN "wait" ELSE "listen"
      /\ \A u \in Threads \ {t} : pc'[u] = pc[u]
  BY <1>1 DEF FormInv
<1>6. /\ \A u \in Threads : Inside(u)' <=> Inside(u)
      /\ \A u \in Threads : pc'[u] = "process" <=> pc[u] = "process"
  BY <1>1, <1>5 DEF Inside
<1>7. /\ Len(out[t]) \in Nat \ {0} /\ Len(out'[t]) = Len(out[t]) - 1 /\ IsQueue(out'[t])
      /\ \A i \in 1 .. Len(out'[t]) : i + 1 \in 1 .. Len(out[t]) /\ out'[t][i] = out[t][i + 1]
  BY <1>2, <1>3, QueuePopped
<1>8. out'[t] # << >> <=> Len(out[t]) > 1
  BY <1>7, EmptySeq DEF IsQueue
<1>9. FormInv'
  <2>1. pc' \in [Threads -> Points]
    BY <1>1 DEF FormInv, Points
  <2>6. IsPackets(Tail(out[t])) /\ IsMessage(Head(out[t]).msg)
    BY ONLY <1>2, PacketsPopped
  <2>2. \A u \in Threads : IsPackets(out'[u])
    BY <1>3, <2>6 DEF FormInv
  <2>3. \A u \in Side : IsPackets(pipe'[u])
    <3>1. \A u \in Side : IsPackets(pipe[u])
      BY DEF FormInv
    <3>2. IsPackets(Append(pipe[s], Head(out[t])))
      BY ONLY <1>1, <2>6, <3>1, PacketsPushed
    <3>3. QED
      BY ONLY <1>4, <3>1, <3>2
  <2>4. \A r \in RequestProcessors : pc'[r] = "process" \/ Inside(r)' => IsMessage(work'[r])
    BY <1>1, <1>6, ThreadsOf DEF FormInv
  <2>5. QED
    BY <1>1, <1>3, <1>4, <2>1, <2>2, <2>3, <2>4 DEF FormInv
<1>10. ThreadInv'
  <2>1. /\ mutex' \in AgentCallers \cup {NoThread}
        /\ \A u \in AgentCallers : Inside(u)' <=> mutex' = u
    BY <1>1, <1>6 DEF ThreadInv, Threads, Callers
  <2>2. /\ \A u \in AgentCallers \cup HostCallers : pc'[u] \in {"idle", "write", "wait", "pop"}
        /\ pc'[AgentRP] \in {"listen", "take", "process", "answer"}
        /\ pc'[HostRP] # "idle"
    BY <1>1, <1>5, ThreadsDistinct DEF ThreadInv, Threads, Callers, RequestProcessors
  <2>3. ASSUME NEW u \in Threads
        PROVE  /\ out'[u] # << >> <=> pc'[u] \in {"write", "answer"}
               /\ \A i \in 1 .. Len(out'[u]) : out'[u][i].msg.type =
                     IF pc'[u] = "write" THEN "Request" ELSE "Response"
    <3>1. CASE u = t
      <4>1. out'[t] # << >> <=> pc'[t] \in {"write", "answer"}
        BY <1>1, <1>5, <1>8
      <4>2. ASSUME NEW i \in 1 .. Len(out'[t])
            PROVE  out'[t][i].msg.type = IF pc'[t] = "write" THEN "Request" ELSE "Response"
        <5>1. pc'[t] = pc[t]
          BY <1>5, <1>7
        <5>2. QED
          BY <1>7, <5>1 DEF ThreadInv
      <4>3. QED
        BY <3>1, <4>1, <4>2
    <3>2. CASE u # t
      BY <1>3, <1>5, <3>2 DEF ThreadInv
    <3>3. QED
      BY <3>1, <3>2
  <2>4. ASSUME NEW u \in Callers, pc'[u] = "write", NEW i \in 1 .. Len(out'[u])
        PROVE  out'[u][i].msg.id = IdOf(u)'
    <3>1. pc[u] = "write" /\ IdOf(u)' = IdOf(u)
      BY <1>1, <1>5, <2>4, ThreadsOf DEF IdOf
    <3>2. CASE u = t
      <4>1. i + 1 \in 1 .. Len(out[u]) /\ out'[u][i] = out[u][i + 1]
        BY <1>7, <2>4, <3>2
      <4>2. \A j \in 1 .. Len(out[u]) : out[u][j].msg.id = IdOf(u)
        BY <3>1 DEF ThreadInv
      <4>3. out[u][i + 1].msg.id = IdOf(u)
        BY <4>1, <4>2
      <4>4. QED
        BY <3>1, <4>1, <4>3
    <3>3. CASE u # t
      BY <1>3, <2>4, <3>1, <3>3, ThreadsOf DEF ThreadInv
    <3>4. QED
      BY <3>2, <3>3
  <2>5. QED
    BY <2>1, <2>2, <2>3, <2>4 DEF ThreadInv
<1>11. QED
  BY <1>1, <1>2, <1>3, <1>4, <1>6, <1>9, <1>10

\* Reading a packet changes its side only, and no thread.
LEMMA ReadPacketForm ==
  ASSUME FormInv, ThreadInv, NEW s \in Side, ReadPacket(s)
  PROVE  LET x == Head(pipe[s])
             ps == Append(partial[s], x)
             m == PacketsToMessage(ps)
             done == LastPacket(x)
         IN  /\ FormInv' /\ ThreadInv'
             /\ pipe[s] # << >> /\ pipe'[s] = Tail(pipe[s])
             /\ partial'[s] = (IF done THEN << >> ELSE ps)
             /\ requestQueue'[s] = IF done /\ m.type = "Request"
                                   THEN Append(requestQueue[s], m) ELSE requestQueue[s]
             /\ responseQueue'[s] = IF done /\ m.type = "Response"
                                    THEN Append(responseQueue[s], m) ELSE responseQueue[s]
             /\ \A u \in Side \ {s} : /\ pipe'[u] = pipe[u] /\ partial'[u] = partial[u]
                                      /\ requestQueue'[u] = requestQueue[u]
                                      /\ responseQueue'[u] = responseQueue[u]
             /\ UNCHANGED threadVars
<1> DEFINE x == Head(pipe[s])
           ps == Append(partial[s], x)
           m == PacketsToMessage(ps)
           done == LastPacket(x)
<1>1. /\ pipe[s] # << >> /\ pipe' = [pipe EXCEPT ![s] = Tail(@)]
      /\ partial' = [partial EXCEPT ![s] = IF done THEN << >> ELSE ps]
      /\ requestQueue' = IF done /\ m.type = "Request"
                         THEN [requestQueue EXCEPT ![s] = Append(@, m)] ELSE requestQueue
      /\ responseQueue' = IF done /\ m.type = "Response"
                          THEN [responseQueue EXCEPT ![s] = Append(@, m)] ELSE responseQueue
      /\ UNCHANGED threadVars
  BY DEF ReadPacket
<1>2. /\ IsPackets(pipe[s]) /\ IsPackets(partial[s])
      /\ IsMessages(requestQueue[s]) /\ IsMessages(responseQueue[s])
  BY DEF FormInv
<1>3. IsPackets(Tail(pipe[s])) /\ IsPackets(ps) /\ IsPackets(<< >>) /\ IsMessage(m)
  <2>1. IsPackets(Tail(pipe[s])) /\ IsMessage(x.msg)
    BY <1>1, <1>2, PacketsPopped
  <2>2. IsPackets(ps) /\ ps # << >>
    BY <1>2, <2>1, PacketsPushed, QueuePushed DEF IsPackets
  <2>3. QED
    BY <2>1, <2>2, Assembled, NoPackets
<1> HIDE DEF x, ps, m, done
<1>4. /\ pipe'[s] = Tail(pipe[s]) /\ partial'[s] = (IF done THEN << >> ELSE ps)
      /\ \A u \in Side \ {s} : pipe'[u] = pipe[u] /\ partial'[u] = partial[u]
      /\ pipe' = [u \in Side |-> pipe'[u]] /\ partial' = [u \in Side |-> partial'[u]]
  BY <1>1 DEF FormInv
<1>5. /\ requestQueue'[s] = IF done /\ m.type = "Request"
                            THEN Append(requestQueue[s], m) ELSE requestQueue[s]
      /\ \A u \in Side \ {s} : requestQueue'[u] = requestQueue[u]
      /\ requestQueue' = [u \in Side |-> requestQueue'[u]]
  BY <1>1 DEF FormInv
<1>6. /\ responseQueue'[s] = IF done /\ m.type = "Response"
                             THEN Append(responseQueue[s], m) ELSE responseQueue[s]
      /\ \A u \in Side \ {s} : responseQueue'[u] = responseQueue[u]
      /\ responseQueue' = [u \in Side |-> responseQueue'[u]]
  BY <1>1 DEF FormInv
<1>7. ASSUME NEW u \in Side
      PROVE  /\ IsPackets(pipe'[u]) /\ IsPackets(partial'[u])
             /\ IsMessages(requestQueue'[u]) /\ IsMessages(responseQueue'[u])
  <2>1. CASE u = s
    <3>1. IsPackets(pipe'[s]) /\ IsPackets(partial'[s])
      BY <1>3, <1>4
    <3>2. IsMessages(requestQueue'[s]) /\ IsMessages(responseQueue'[s])
      BY <1>2, <1>3, <1>5, <1>6, MessagesPushed
    <3>3. QED
      BY <2>1, <3>1, <3>2
  <2>2. CASE u # s
    BY <1>4, <1>5, <1>6, <2>2 DEF FormInv
  <2>3. QED
    BY <2>1, <2>2
<1>8. FormInv'
  BY <1>1, <1>4, <1>5, <1>6, <1>7 DEF FormInv, threadVars, Inside
<1>9. ThreadInv'
  BY <1>1 DEF ThreadInv, threadVars, Inside, IdOf
<1>10. QED
  BY <1>1, <1>4, <1>5, <1>6, <1>8, <1>9 DEF x, ps, m, done

\* Steps that leave the writers alone.
LEMMA WritersUnmoved ==
  ASSUME ThreadInv, UNCHANGED <<out, calls, mutex>>,
         \A u \in Threads : /\ Inside(u)' <=> Inside(u)
                            /\ pc'[u] = "write" <=> pc[u] = "write"
                            /\ pc'[u] = "answer" <=> pc[u] = "answer",
         \A u \in AgentCallers \cup HostCallers : pc'[u] \in {"idle", "write", "wait", "pop"},
         pc'[AgentRP] \in {"listen", "take", "process", "answer"}, pc'[HostRP] # "idle"
  PROVE  ThreadInv'
<1>1. /\ mutex' \in AgentCallers \cup {NoThread}
      /\ \A u \in AgentCallers : Inside(u)' <=> mutex' = u
  BY DEF ThreadInv, Threads, Callers
<1>2. \A u \in Threads : /\ out'[u] # << >> <=> pc'[u] \in {"write", "answer"}
                         /\ \A i \in 1 .. Len(out'[u]) : out'[u][i].msg.type =
                              IF pc'[u] = "write" THEN "Request" ELSE "Response"
  BY DEF ThreadInv
<1>3. \A u \in Callers : pc'[u] = "write" =>
         \A i \in 1 .. Len(out'[u]) : out'[u][i].msg.id = IdOf(u)'
  BY ThreadsOf DEF ThreadInv, IdOf
<1>4. QED
  BY <1>1, <1>2, <1>3 DEF ThreadInv

\* What a pop does: the thread is back where it called from.
LEMMA PopResponseForm ==
  ASSUME FormInv, ThreadInv, NEW t \in Callers, PopResponse(t),
         responseQueue[SideOf(t)] # << >>
  PROVE  /\ FormInv' /\ ThreadInv'
         /\ pc[t] = "pop" /\ pc'[t] = Base(t) /\ \A u \in Threads \ {t} : pc'[u] = pc[u]
         /\ responseQueue'[SideOf(t)] = Tail(responseQueue[SideOf(t)])
         /\ \A u \in Side \ {SideOf(t)} : responseQueue'[u] = responseQueue[u]
         /\ mutex' = IF t \in AgentCallers THEN NoThread ELSE mutex
         /\ UNCHANGED <<out, calls, work, pipe, partial, requestQueue>>
<1> DEFINE s == SideOf(t)
<1>1. /\ pc[t] = "pop" /\ pc' = [pc EXCEPT ![t] = Base(t)] /\ t \in Threads /\ s \in Side
      /\ responseQueue' = [responseQueue EXCEPT ![s] = Rest(@)]
      /\ mutex' = IF t \in AgentCallers THEN NoThread ELSE mutex
      /\ UNCHANGED <<out, calls, work, pipe, partial, requestQueue>>
  BY ThreadsOf DEF PopResponse
<1>2. pc'[t] = Base(t) /\ \A u \in Threads \ {t} : pc'[u] = pc[u]
  BY <1>1 DEF FormInv
<1>3. /\ responseQueue'[s] = Tail(responseQueue[s])
      /\ \A u \in Side \ {s} : responseQueue'[u] = responseQueue[u]
      /\ responseQueue' = [u \in Side |-> responseQueue'[u]]
  BY <1>1 DEF FormInv, Rest
<1>4. FormInv'
  <2>1. pc' \in [Threads -> Points]
    BY <1>1 DEF FormInv, Points, Base
  <2>2. \A u \in Side : IsMessages(responseQueue'[u])
    <3>1. IsMessages(Tail(responseQueue[s]))
      BY <1>1, MessagesPopped DEF FormInv
    <3>2. QED
      BY <1>3, <3>1 DEF FormInv
  <2>3. ASSUME NEW r \in RequestProcessors, pc'[r] = "process" \/ Inside(r)'
        PROVE  IsMessage(work'[r])
    <3>1. pc[r] = "process" \/ Inside(r)
      BY <1>1, <1>2, <2>3, ThreadsOf DEF Inside
    <3>2. QED
      BY <1>1, <3>1 DEF FormInv
  <2>4. QED
    BY <1>1, <1>3, <2>1, <2>2, <2>3 DEF FormInv
<1>5. ThreadInv'
  <2>1. mutex' \in AgentCallers \cup {NoThread}
    BY <1>1 DEF ThreadInv
  <2>2. \A u \in AgentCallers : Inside(u)' <=> mutex' = u
    BY <1>1, <1>2, ThreadsDistinct
       DEF ThreadInv, Inside, Base, Threads, Callers, RequestProcessors
  <2>3. /\ \A u \in AgentCallers \cup HostCallers : pc'[u] \in {"idle", "write", "wait", "pop"}
        /\ pc'[AgentRP] \in {"listen", "take", "process", "answer"}
        /\ pc'[HostRP] # "idle"
    BY <1>1, <1>2, ThreadsDistinct DEF ThreadInv, Threads, Callers, RequestProcessors, Base
  <2>4. \A u \in Threads : /\ pc'[u] = "write" <=> pc[u] = "write"
                           /\ pc'[u] = "answer" <=> pc[u] = "answer"
    BY <1>1, <1>2 DEF Base
  <2>5. QED
    BY <1>1, <2>1, <2>2, <2>3, <2>4, ThreadsOf DEF ThreadInv, IdOf
<1>6. QED
  BY <1>1, <1>2, <1>3, <1>4, <1>5

\* What taking a request does to the request processor and its queue.
LEMMA TakeRequestForm ==
  ASSUME FormInv, ThreadInv, NEW r \in RequestProcessors, TakeRequest(r)
  PROVE  LET s == SideOf(r)
         IN  /\ FormInv' /\ ThreadInv'
             /\ pc[r] = "take" /\ \A u \in Threads \ {r} : pc'[u] = pc[u]
             /\ IF requestQueue[s] = << >>
                THEN /\ pc'[r] = "listen" /\ work'[r] = NoMessage
                     /\ requestQueue'[s] = requestQueue[s]
                ELSE /\ pc'[r] = "process" /\ work'[r] = Head(requestQueue[s])
                     /\ requestQueue'[s] = Tail(requestQueue[s])
             /\ \A u \in Side \ {s} : requestQueue'[u] = requestQueue[u]
             /\ \A u \in RequestProcessors \ {r} : work'[u] = work[u]
             /\ UNCHANGED <<out, calls, mutex, pipe, partial, responseQueue>>
<1> DEFINE s == SideOf(r)
           q == requestQueue[s]
<1>1. /\ pc[r] = "take" /\ pc' = [pc EXCEPT ![r] = IF q = << >> THEN "listen" ELSE "process"]
      /\ r \in Threads /\ s \in Side
      /\ work' = [work EXCEPT ![r] = Front(q)]
      /\ requestQueue' = [requestQueue EXCEPT ![s] = Rest(q)]
      /\ UNCHANGED <<out, calls, mutex, pipe, partial, responseQueue>>
  BY ThreadsOf DEF TakeRequest
<1>2. /\ pc'[r] = IF q = << >> THEN "listen" ELSE "process"
      /\ \A u \in Threads \ {r} : pc'[u] = pc[u]
  BY <1>1 DEF FormInv
<1>3. /\ work'[r] = IF q = << >> THEN NoMessage ELSE Head(q)
      /\ \A u \in RequestProcessors \ {r} : work'[u] = work[u]
      /\ work' = [u \in RequestProcessors |-> work'[u]]
  BY <1>1 DEF FormInv, Front
<1>4. /\ requestQueue'[s] = IF q = << >> THEN q ELSE Tail(q)
      /\ \A u \in Side \ {s} : requestQueue'[u] = requestQueue[u]
      /\ requestQueue' = [u \in Side |-> requestQueue'[u]]
  BY <1>1 DEF FormInv, Rest
<1>5. FormInv'
  <2>1. pc' \in [Threads -> Points]
    BY <1>1 DEF FormInv, Points
  <2>2. \A u \in Side : IsMessages(requestQueue'[u])
    <3>1. q # << >> => IsMessages(Tail(q)) /\ IsMessage(Head(q))
      BY <1>1, MessagesPopped DEF FormInv
    <3>2. QED
      BY <1>4, <3>1 DEF FormInv
  <2>3. ASSUME NEW u \in RequestProcessors, pc'[u] = "process" \/ Inside(u)'
        PROVE  IsMessage(work'[u])
    <3>1. CASE u = r
      <4>1. q # << >>
        BY <1>2, <2>3, <3>1 DEF Inside
      <4>2. QED
        BY <1>1, <1>3, <3>1, <4>1, MessagesPopped DEF FormInv
    <3>2. CASE u # r
      BY <1>2, <1>3, <2>3, <3>2, ThreadsOf DEF FormInv, Inside
    <3>3. QED
      BY <3>1, <3>2
  <2>4. QED
    BY <1>1, <1>3, <1>4, <2>1, <2>2, <2>3 DEF FormInv
<1>6. ThreadInv'
  <2>1. \A u \in Threads : /\ Inside(u)' <=> Inside(u)
                           /\ pc'[u] = "write" <=> pc[u] = "write"
                           /\ pc'[u] = "answer" <=> pc[u] = "answer"
    BY <1>1, <1>2 DEF Inside
  <2>2. /\ \A u \in AgentCallers \cup HostCallers : pc'[u] \in {"idle", "write", "wait", "pop"}
        /\ pc'[AgentRP] \in {"listen", "take", "process", "answer"}
        /\ pc'[HostRP] # "idle"
    BY <1>1, <1>2, ThreadsDistinct DEF ThreadInv, Threads, Callers, RequestProcessors
  <2>3. UNCHANGED <<out, calls, mutex>>
    BY <1>1
  <2>4. QED
    BY <2>1, <2>2, <2>3, WritersUnmoved
<1>7. QED
  BY <1>1, <1>2, <1>3, <1>4, <1>5, <1>6

\* What answering does: the response has the id of the request.
LEMMA ProcessForm ==
  ASSUME FormInv, ThreadInv, NEW r \in RequestProcessors, ProcessRequestMessage(r)
  PROVE  /\ FormInv' /\ ThreadInv'
         /\ pc[r] = "process" /\ pc'[r] = "answer" /\ \A u \in Threads \ {r} : pc'[u] = pc[u]
         /\ Count(out'[r], "Response") = 1 /\ Count(out'[r], "Request") = 0
         /\ \A i \in 1 .. Len(out'[r]) : out'[r][i].msg.id = work[r].id
         /\ \A u \in Threads \ {r} : out'[u] = out[u]
         /\ UNCHANGED <<calls, work, mutex, pipe, partial, requestQueue, responseQueue>>
<1>1. PICK n \in Sizes :
        out' = [out EXCEPT ![r] = MessageToPackets(
                  [work[r] EXCEPT !.type = "Response", !.size = n])]
  BY DEF ProcessRequestMessage
<1> DEFINE m == [work[r] EXCEPT !.type = "Response", !.size = n]
<1>2. /\ pc[r] = "process" /\ pc' = [pc EXCEPT ![r] = "answer"] /\ r \in Threads
      /\ UNCHANGED <<calls, work, mutex, pipe, partial, requestQueue, responseQueue>>
  BY ThreadsOf DEF ProcessRequestMessage, sideVars
<1>3. IsMessage(m) /\ m.size = n /\ m.type = "Response" /\ m.id = work[r].id
  <2>1. PICK A, B, C, D : work[r] \in [type : A, id : B, size : C, intact : D]
    BY <1>2 DEF FormInv, IsMessage
  <2>2. /\ m \in [type : {"Response"}, id : B, size : {n}, intact : D]
        /\ m.size = n /\ m.type = "Response" /\ m.id = work[r].id
    BY <2>1
  <2>3. QED
    BY <2>2 DEF IsMessage
<1> HIDE DEF m
<1>4. /\ out'[r] = MessageToPackets(m) /\ \A u \in Threads \ {r} : out'[u] = out[u]
      /\ out' = [u \in Threads |-> out'[u]]
  BY <1>1, <1>2 DEF FormInv, m
<1>5. /\ IsPackets(out'[r]) /\ out'[r] # << >>
      /\ \A i \in 1 .. Len(out'[r]) : out'[r][i].msg = m
      /\ Count(out'[r], "Response") = 1 /\ Count(out'[r], "Request") = 0
  BY <1>3, <1>4, Packeted DEF Bit
<1>6. pc'[r] = "answer" /\ \A u \in Threads \ {r} : pc'[u] = pc[u]
  BY <1>2 DEF FormInv
<1>7. FormInv'
  <2>1. pc' \in [Threads -> Points]
    BY <1>2 DEF FormInv, Points
  <2>2. \A u \in Threads : IsPackets(out'[u])
    BY <1>4, <1>5 DEF FormInv
  <2>3. \A u \in RequestProcessors : pc'[u] = "process" \/ Inside(u)' => IsMessage(work'[u])
    BY <1>2, <1>6, ThreadsOf DEF FormInv, Inside
  <2>4. QED
    BY <1>2, <1>4, <2>1, <2>2, <2>3 DEF FormInv
<1>8. ThreadInv'
  <2>1. \A u \in Threads : Inside(u)' <=> Inside(u)
    BY <1>2, <1>6 DEF Inside
  <2>2. /\ mutex' \in AgentCallers \cup {NoThread}
        /\ \A u \in AgentCallers : Inside(u)' <=> mutex' = u
    BY <1>2, <2>1 DEF ThreadInv, Threads, Callers
  <2>3. /\ \A u \in AgentCallers \cup HostCallers : pc'[u] \in {"idle", "write", "wait", "pop"}
        /\ pc'[AgentRP] \in {"listen", "take", "process", "answer"}
        /\ pc'[HostRP] # "idle"
    BY <1>2, <1>6, ThreadsDistinct DEF ThreadInv, Threads, Callers, RequestProcessors
  <2>4. \A u \in Threads : /\ out'[u] # << >> <=> pc'[u] \in {"write", "answer"}
                           /\ \A i \in 1 .. Len(out'[u]) : out'[u][i].msg.type =
                                IF pc'[u] = "write" THEN "Request" ELSE "Response"
    BY <1>3, <1>4, <1>5, <1>6 DEF ThreadInv
  <2>5. ASSUME NEW u \in Callers, pc'[u] = "write", NEW i \in 1 .. Len(out'[u])
        PROVE  out'[u][i].msg.id = IdOf(u)'
    <3>1. u # r /\ u \in Threads
      BY <1>6, <2>5, ThreadsOf
    <3>2. QED
      BY <1>2, <1>4, <1>6, <2>5, <3>1 DEF ThreadInv, IdOf
  <2>6. QED
    BY <2>2, <2>3, <2>4, <2>5 DEF ThreadInv
<1>9. QED
  BY <1>2, <1>3, <1>4, <1>5, <1>6, <1>7, <1>8

\* The steps that only wait or wake.
LEMMA WaitForm ==
  ASSUME FormInv, ThreadInv,
         \/ \E t \in Callers : WaitResponse(t)
         \/ \E s \in Side : SetNotification(s)
         \/ \E r \in RequestProcessors : WaitRequest(r)
         \/ UNCHANGED vars
  PROVE  /\ FormInv' /\ ThreadInv'
         /\ \A u \in Threads : /\ Inside(u)' <=> Inside(u)
                               /\ pc'[u] = "process" <=> pc[u] = "process"
         /\ UNCHANGED <<out, calls, work, mutex, pipe, partial, requestQueue, responseQueue>>
<1>1. UNCHANGED <<out, calls, work, mutex, pipe, partial, requestQueue, responseQueue>>
  BY DEF WaitResponse, SetNotification, WaitRequest, vars, threadVars, sideVars
<1>2. \/ pc' = pc
      \/ \E t \in Callers : pc[t] = "wait" /\ pc' = [pc EXCEPT ![t] = "pop"]
      \/ \E r \in RequestProcessors : pc[r] = "listen" /\ pc' = [pc EXCEPT ![r] = "take"]
  BY DEF WaitResponse, SetNotification, WaitRequest, vars, threadVars
<1>3. /\ pc' \in [Threads -> Points]
      /\ \A u \in Threads : /\ Inside(u)' <=> Inside(u)
                            /\ pc'[u] = "process" <=> pc[u] = "process"
                            /\ pc'[u] = "write" <=> pc[u] = "write"
                            /\ pc'[u] = "answer" <=> pc[u] = "answer"
                            /\ pc'[u] # pc[u] => pc[u] \in {"wait", "listen"}
                            /\ pc'[u] # pc[u] => pc'[u] \in {"pop", "take"}
  BY <1>2, ThreadsOf DEF FormInv, Points, Inside
<1>4. /\ \A u \in AgentCallers \cup HostCallers : pc'[u] \in {"idle", "write", "wait", "pop"}
      /\ pc'[AgentRP] \in {"listen", "take", "process", "answer"}
      /\ pc'[HostRP] # "idle"
  <2>1. ASSUME NEW u \in AgentCallers \cup HostCallers
        PROVE  pc'[u] \in {"idle", "write", "wait", "pop"}
    <3>1. u \in Threads /\ u \notin RequestProcessors
      BY ThreadsDistinct DEF Threads, Callers
    <3>2. pc'[u] = pc[u] \/ pc'[u] = "pop"
      BY <1>2, <3>1 DEF FormInv
    <3>3. QED
      BY <3>2 DEF ThreadInv
  <2>2. pc'[AgentRP] \in {"listen", "take", "process", "answer"}
    BY <1>2, ThreadsDistinct DEF ThreadInv, FormInv, Threads, Callers, RequestProcessors
  <2>3. pc'[HostRP] # "idle"
    BY <1>3 DEF ThreadInv, Threads, Callers
  <2>4. QED
    BY <2>1, <2>2, <2>3
<1>5. ThreadInv'
  <2>1. UNCHANGED <<out, calls, mutex>>
    BY <1>1
  <2>2. QED
    BY <1>3, <1>4, <2>1, WritersUnmoved
<1>6. FormInv'
  <2>1. \A r \in RequestProcessors : pc'[r] = "process" \/ Inside(r)' => IsMessage(work'[r])
    BY <1>1, <1>3, ThreadsOf DEF FormInv
  <2>2. QED
    BY <1>1, <1>3, <2>1 DEF FormInv
<1>7. QED
  BY <1>1, <1>3, <1>5, <1>6

-----------------------------------------------------------------------------
(* One message per call *)

Sole(s) == s \in Side /\ (s = "host" => HostCallers = {})

\* A direction's caller and answerer are threads of opposite sides.
LEMMA Parties ==
  ASSUME NEW s \in Side, ThreadInv
  PROVE  /\ Answerer(s) \in RequestProcessors /\ Answerer(s) \in Threads
         /\ SideOf(Answerer(s)) = Peer(s) /\ Peer(s) \in Side /\ Peer(s) # s
         /\ Peer(Peer(s)) = s
         /\ Caller(s) # NoThread => /\ Caller(s) \in Callers /\ Caller(s) \in Threads
                                    /\ SideOf(Caller(s)) = s
  BY ThreadsDistinct DEF Answerer, Caller, SideOf, Peer, Side, RequestProcessors, Threads,
                         Callers, ThreadInv

\* The caller is the thread inside SendAndGetResponse.
LEMMA CallerInside ==
  ASSUME NEW s, Sole(s), ThreadInv, NEW t \in Callers, SideOf(t) = s
  PROVE  /\ Inside(t) <=> Caller(s) = t
         /\ t \in (IF s = "agent" THEN AgentCallers ELSE {HostRP})
  BY ThreadsDistinct DEF Sole, Side, Caller, SideOf, ThreadInv, Threads, Callers,
                         RequestProcessors

\* Whoever starts a message in a direction is that direction's caller or answerer.
LEMMA WhoWrites ==
  ASSUME NEW s, Sole(s), FormInv, ThreadInv, NEW t \in Threads, out[t] # << >>
  PROVE  /\ Starts(Head(out[t]), "Request") /\ SideOf(t) = s =>
              Caller(s) = t /\ Head(out[t]).msg.id = IdOf(t)
         /\ Starts(Head(out[t]), "Response") /\ SideOf(t) = Peer(s) => t = Answerer(s)
<1>1. /\ Head(out[t]) = out[t][1] /\ 1 \in 1 .. Len(out[t])
  BY QueuePopped DEF FormInv, IsPackets
<1>2. Head(out[t]).msg.type = IF pc[t] = "write" THEN "Request" ELSE "Response"
  BY <1>1 DEF ThreadInv
<1>3. ASSUME Starts(Head(out[t]), "Request"), SideOf(t) = s
      PROVE  Caller(s) = t /\ Head(out[t]).msg.id = IdOf(t)
  <2>1. pc[t] = "write"
    BY <1>2, <1>3 DEF Starts
  <2>2. t \in Callers
    BY <2>1 DEF ThreadInv, Threads
  <2>3. QED
    BY <1>1, <1>3, <2>1, <2>2, CallerInside DEF Inside, ThreadInv
<1>4. ASSUME Starts(Head(out[t]), "Response"), SideOf(t) = Peer(s)
      PROVE  t = Answerer(s)
  <2>1. pc[t] = "answer"
    BY <1>2, <1>4 DEF Starts, ThreadInv
  <2>2. t \in RequestProcessors
    BY <2>1 DEF ThreadInv, Threads, Callers, RequestProcessors
  <2>3. QED
    BY <1>4, <2>2, ThreadsDistinct
       DEF Answerer, SideOf, Peer, Sole, Side, RequestProcessors
<1>5. QED
  BY <1>3, <1>4

-----------------------------------------------------------------------------
(* One leg of the way, from a pipe through the message handler to a queue *)

KnownTypes == {"Request", "Response"}

\* What travels on a leg is packets and messages, and is counted.
LEMMA LegForm ==
  ASSUME FormInv, NEW s \in Side, NEW type
  PROVE  /\ IsPackets(pipe[s]) /\ IsQueue(pipe[s]) /\ IsPackets(partial[s]) /\ IsQueue(partial[s])
         /\ IsMessages(QueueOf(s, type)) /\ IsQueue(QueueOf(s, type))
         /\ Count(pipe[s], type) \in Nat /\ Bit(Opens(partial[s], type)) \in Nat
         /\ Len(QueueOf(s, type)) \in Nat /\ Leg(s, type) \in Nat
<1>1. /\ IsPackets(pipe[s]) /\ IsPackets(partial[s])
      /\ IsMessages(QueueOf(s, type))
  BY DEF FormInv, QueueOf
<1>2. IsQueue(pipe[s]) /\ IsQueue(partial[s]) /\ IsQueue(QueueOf(s, type))
  BY <1>1 DEF IsPackets, IsMessages
<1>3. Count(pipe[s], type) \in Nat
  BY <1>2, CountType
<1>4. Bit(Opens(partial[s], type)) \in Nat
  BY DEF Bit
<1>5. Len(QueueOf(s, type)) \in Nat
  BY <1>2 DEF IsQueue
<1>6. Leg(s, type) \in Nat
  BY <1>3, <1>4, <1>5 DEF Leg
<1>7. QED
  BY <1>1, <1>2, <1>3, <1>4, <1>5, <1>6

\* Where nothing is, nothing is another call's.
LEMMA LegEmpty ==
  ASSUME FormInv, NEW s \in Side, NEW type, Leg(s, type) = 0, NEW id
  PROVE  LegOf(s, type, id)
<1> DEFINE a == Count(pipe[s], type)
           b == Bit(Opens(partial[s], type))
           c == Len(QueueOf(s, type))
<1>1. a \in Nat /\ b \in Nat /\ c \in Nat /\ a + b + c = 0
  BY LegForm DEF Leg
<1> HIDE DEF a, b, c
<1>2. a = 0 /\ b = 0 /\ c = 0
  BY <1>1
<1>3. PacketsOf(pipe[s], type, id)
  BY <1>2, LegForm, CountType DEF a, PacketsOf
<1>4. OpenerOf(partial[s], type, id)
  BY <1>2 DEF b, Bit, OpenerOf
<1>5. MessagesOf(QueueOf(s, type), id)
  BY <1>2 DEF c, MessagesOf
<1>6. QED
  BY <1>3, <1>4, <1>5 DEF LegOf

\* Nothing moves on a leg whose pipe, partial message and queue stay.
LEMMA LegStays ==
  ASSUME NEW s, NEW type, pipe'[s] = pipe[s], partial'[s] = partial[s],
         QueueOf(s, type)' = QueueOf(s, type)
  PROVE  Leg(s, type)' = Leg(s, type) /\ \A id : LegOf(s, type, id)' <=> LegOf(s, type, id)
  BY DEF Leg, LegOf

\* A packet that starts a message is where the message is counted.
LEMMA LegWritten ==
  ASSUME FormInv, ThreadInv, NEW t \in Threads, WritePacket(t), NEW s \in Side, NEW type
  PROVE  LET x == Head(out[t])
             here == s = Peer(SideOf(t)) /\ Starts(x, type)
         IN  /\ Count(out[t], type) = Count(out'[t], type) + Bit(Starts(x, type))
             /\ Leg(s, type)' = Leg(s, type) + Bit(here)
             /\ \A id : /\ PacketsOf(out[t], type, id) => PacketsOf(out'[t], type, id)
                        /\ LegOf(s, type, id) /\ (here => x.msg.id = id) => LegOf(s, type, id)'
<1> DEFINE x == Head(out[t])
           here == s = Peer(SideOf(t)) /\ Starts(x, type)
<1>1. /\ out[t] # << >> /\ out'[t] = Tail(out[t]) /\ IsQueue(out[t])
      /\ s = Peer(SideOf(t)) => pipe'[s] = Append(pipe[s], x)
      /\ s # Peer(SideOf(t)) => pipe'[s] = pipe[s]
      /\ UNCHANGED <<partial, requestQueue, responseQueue>>
  <2>1. IsQueue(out[t])
    BY DEF FormInv, IsPackets
  <2> QED
    BY <2>1, WritePacketForm
<1>2. Count(out[t], type) = Count(out'[t], type) + Bit(Starts(x, type))
  BY <1>1, CountPopped
<1>3. ASSUME NEW id, PacketsOf(out[t], type, id) PROVE PacketsOf(out'[t], type, id)
  BY <1>1, <1>3, QueuePopped DEF PacketsOf
<1>4. CASE s = Peer(SideOf(t))
  <2>1. QueueOf(s, type)' = QueueOf(s, type)
    BY <1>1 DEF QueueOf
  <2>2. Count(pipe'[s], type) = Count(pipe[s], type) + Bit(here)
    <3>1. Count(pipe'[s], type) = Count(pipe[s], type) + Bit(Starts(x, type))
      <4>1. IsQueue(pipe[s])
        BY LegForm
      <4>2. Count(Append(pipe[s], x), type) = Count(pipe[s], type) + Bit(Starts(x, type))
        BY <4>1, CountPushed
      <4>3. QED
        BY <1>1, <1>4, <4>2
    <3>2. here <=> Starts(x, type)
      BY <1>4
    <3> HIDE DEF here
    <3>3. Bit(here) = Bit(Starts(x, type))
      BY <3>2 DEF Bit
    <3>4. QED
      BY <3>1, <3>3
  <2>3. Leg(s, type)' = Leg(s, type) + Bit(here)
    <3> DEFINE a == Count(pipe[s], type)
               b == Bit(Opens(partial[s], type))
               c == Len(QueueOf(s, type))
               d == Bit(here)
    <3>1. a \in Nat /\ b \in Nat /\ c \in Nat /\ d \in Nat
      BY LegForm DEF Bit
    <3>2. Leg(s, type) = a + b + c /\ Leg(s, type)' = (a + d) + b + c
      BY <1>1, <2>1, <2>2 DEF Leg
    <3> HIDE DEF a, b, c, d
    <3>3. Leg(s, type)' = Leg(s, type) + d
      BY <3>1, <3>2
    <3>4. QED
      BY <3>3 DEF d
  <2>4. ASSUME NEW id, LegOf(s, type, id), here => x.msg.id = id PROVE LegOf(s, type, id)'
    <3>1. PacketsOf(pipe'[s], type, id)
      <4>1. PacketsOf(pipe[s], type, id)
        BY <2>4 DEF LegOf
      <4>2. /\ Len(pipe[s]) \in Nat /\ Len(pipe'[s]) = Len(pipe[s]) + 1
            /\ \A i \in 1 .. Len(pipe[s]) : pipe'[s][i] = pipe[s][i]
            /\ pipe'[s][Len(pipe[s]) + 1] = x
        BY <1>1, <1>4, LegForm, QueuePushed
      <4>3. Starts(x, type) => x.msg.id = id
        BY <1>4, <2>4
      <4> HIDE DEF x
      <4>4. QED
        BY <4>1, <4>2, <4>3 DEF PacketsOf
    <3>2. QED
      BY <1>1, <2>1, <2>4, <3>1 DEF LegOf
  <2>5. QED
    BY <1>2, <1>3, <2>3, <2>4
<1>5. CASE s # Peer(SideOf(t))
  <2>1. Leg(s, type)' = Leg(s, type) /\ \A id : LegOf(s, type, id)' <=> LegOf(s, type, id)
    BY <1>1, <1>5, LegStays DEF QueueOf
  <2>2. Leg(s, type) = Leg(s, type) + Bit(here)
    BY <1>5, LegForm DEF Bit
  <2>3. QED
    BY <1>2, <1>3, <1>5, <2>1, <2>2
<1>6. QED
  BY <1>4, <1>5

\* What reading one packet makes of the packets read so far.
LEMMA Received ==
  ASSUME NEW q, IsPackets(q), q # << >>, NEW ps, IsPackets(ps), NEW type \in KnownTypes
  PROVE  LET qs == Append(ps, Head(q))
             m == PacketsToMessage(qs)
         IN  /\ m.type = type <=> Opens(qs, type)
             /\ Count(Tail(q), type) + Bit(Opens(qs, type)) <=
                  Count(q, type) + Bit(Opens(ps, type))
             /\ \A id : PacketsOf(q, type, id) /\ OpenerOf(ps, type, id) =>
                  /\ PacketsOf(Tail(q), type, id) /\ OpenerOf(qs, type, id)
                  /\ m.type = type => m.id = id
<1> DEFINE x == Head(q)
           qs == Append(ps, x)
           m == PacketsToMessage(qs)
<1>1. /\ IsQueue(q) /\ IsQueue(ps) /\ x = q[1] /\ Len(q) \in Nat \ {0} /\ IsQueue(Tail(q))
      /\ Len(Tail(q)) = Len(q) - 1
      /\ \A i \in 1 .. Len(Tail(q)) : i + 1 \in 1 .. Len(q) /\ Tail(q)[i] = q[i + 1]
  BY QueuePopped DEF IsPackets
<1>2. IsMessage(x.msg)
  BY PacketsPopped
<1>3. /\ qs # << >> /\ qs[1] = IF ps = << >> THEN x ELSE ps[1]
  <2>1. qs # << >> /\ Len(ps) \in Nat /\ qs[Len(ps) + 1] = x
        /\ \A i \in 1 .. Len(ps) : qs[i] = ps[i]
    BY <1>1, QueuePushed
  <2>2. ps = << >> <=> Len(ps) = 0
    BY <1>1, EmptySeq DEF IsQueue
  <2>3. QED
    BY <2>1, <2>2
<1>4. IsPackets(qs)
  BY <1>2, PacketsPushed
<1>5. /\ m.type = type <=> Opens(qs, type)
      /\ m.type = type => m.id = qs[1].msg.id
  <2>1. type # "Undefined"
    BY DEF KnownTypes
  <2>2. /\ \A k \in {"Request", "Response"} : m.type = k <=> Starts(qs[1], k)
        /\ m.type # "Undefined" => m.id = qs[1].msg.id
    BY <1>3, <1>4, Assembled
  <2>3. QED
    BY <1>3, <2>1, <2>2 DEF Opens, KnownTypes
<1>6. Opens(qs, type) <=> IF ps = << >> THEN Starts(x, type) ELSE Opens(ps, type)
  BY <1>3 DEF Opens
<1> HIDE DEF m, qs
<1>7. Count(Tail(q), type) + Bit(Opens(qs, type)) <= Count(q, type) + Bit(Opens(ps, type))
  <2>1. /\ Count(q, type) = Count(Tail(q), type) + Bit(Starts(x, type))
        /\ Count(Tail(q), type) \in Nat
    BY <1>1, CountPopped, CountType
  <2>2. Bit(Opens(qs, type)) <= Bit(Starts(x, type)) + Bit(Opens(ps, type))
    BY <1>6 DEF Bit, Opens
  <2>3. \A b \in BOOLEAN : Bit(b) \in Nat
    BY DEF Bit
  <2>4. /\ Bit(Opens(qs, type)) \in Nat /\ Bit(Starts(x, type)) \in Nat
        /\ Bit(Opens(ps, type)) \in Nat
    BY DEF Bit
  <2> DEFINE n == Count(Tail(q), type)
             b == Bit(Opens(qs, type))
             c == Bit(Starts(x, type))
             d == Bit(Opens(ps, type))
  <2>5. n \in Nat /\ b \in Nat /\ c \in Nat /\ d \in Nat /\ b <= c + d /\ Count(q, type) = n + c
    BY <2>1, <2>2, <2>4
  <2> HIDE DEF n, b, c, d
  <2>6. n + b <= Count(q, type) + d
    BY <2>5
  <2>7. QED
    BY <2>6 DEF n, b, d
<1>8. ASSUME NEW id, PacketsOf(q, type, id), OpenerOf(ps, type, id)
      PROVE  /\ PacketsOf(Tail(q), type, id) /\ OpenerOf(qs, type, id)
             /\ m.type = type => m.id = id
  <2>1. PacketsOf(Tail(q), type, id)
    BY <1>1, <1>8 DEF PacketsOf
  <2>2. OpenerOf(qs, type, id)
    <3>1. CASE ps = << >>
      BY <1>1, <1>3, <1>8, <3>1 DEF PacketsOf, OpenerOf, Opens
    <3>2. CASE ps # << >>
      BY <1>3, <1>6, <1>8, <3>2 DEF OpenerOf
    <3>3. QED
      BY <3>1, <3>2
  <2>3. QED
    BY <1>5, <2>1, <2>2 DEF OpenerOf
<1>9. QED
  BY <1>5, <1>7, <1>8 DEF m, qs

\* Reading moves messages on: it makes none and changes no owner.
LEMMA LegRead ==
  ASSUME FormInv, ThreadInv, NEW v \in Side, ReadPacket(v),
         NEW s \in Side, NEW type \in KnownTypes
  PROVE  /\ Leg(s, type)' <= Leg(s, type)
         /\ \A id : LegOf(s, type, id) => LegOf(s, type, id)'
<1>1. CASE v = s
  <2> DEFINE x == Head(pipe[s])
             ps == Append(partial[s], x)
             m == PacketsToMessage(ps)
             done == LastPacket(x)
             n == Count(pipe[s], type)
             o == Bit(Opens(partial[s], type))
             l == Len(QueueOf(s, type))
             n2 == Count(Tail(pipe[s]), type)
             o2 == Bit(Opens(ps, type))
  <2>1. /\ FormInv' /\ pipe[s] # << >> /\ pipe'[s] = Tail(pipe[s])
        /\ partial'[s] = (IF done THEN << >> ELSE ps)
        /\ QueueOf(s, type)' = IF done /\ m.type = type
                               THEN Append(QueueOf(s, type), m) ELSE QueueOf(s, type)
    BY <1>1, ReadPacketForm DEF QueueOf, KnownTypes
  <2>2. /\ m.type = type <=> Opens(ps, type)
        /\ n2 + o2 <= n + o
        /\ \A id : PacketsOf(pipe[s], type, id) /\ OpenerOf(partial[s], type, id) =>
             /\ PacketsOf(Tail(pipe[s]), type, id) /\ OpenerOf(ps, type, id)
             /\ m.type = type => m.id = id
    BY <2>1, LegForm, Received
  <2>3. /\ n \in Nat /\ o \in Nat /\ l \in Nat /\ IsQueue(QueueOf(s, type))
        /\ n2 \in Nat /\ o2 \in Nat
    <3>1. n \in Nat /\ o \in Nat /\ l \in Nat /\ IsQueue(QueueOf(s, type)) /\ IsQueue(pipe[s])
      BY LegForm
    <3>2. n2 \in Nat
      BY <2>1, <3>1, QueuePopped, CountType
    <3>3. o2 \in Nat
      BY DEF Bit
    <3>4. QED
      BY <3>1, <3>2, <3>3
  <2>4. Leg(s, type) = n + o + l
    BY DEF Leg
  <2>5. /\ IsQueue(Append(QueueOf(s, type), m)) /\ Len(Append(QueueOf(s, type), m)) = l + 1
        /\ \A i \in 1 .. l : Append(QueueOf(s, type), m)[i] = QueueOf(s, type)[i]
        /\ Append(QueueOf(s, type), m)[l + 1] = m
    BY <2>3, QueuePushed
  <2>6. Bit(Opens(<< >>, type)) = 0
    BY DEF Bit, Opens
  <2> HIDE DEF x, ps, m, done
  <2>7. Leg(s, type)' = n2 + (IF done THEN 0 ELSE o2) + (IF done THEN l + o2 ELSE l)
    <3>1. CASE done
      <4>1. Count(pipe'[s], type) = n2 /\ Bit(Opens(partial'[s], type)) = 0
        BY <2>1, <2>6, <3>1
      <4>2. Len(QueueOf(s, type)') = l + o2
        BY <2>1, <2>2, <2>3, <2>5, <3>1 DEF Bit
      <4>3. QED
        BY <3>1, <4>1, <4>2 DEF Leg
    <3>2. CASE ~done
      BY <2>1, <3>2 DEF Leg
    <3>3. QED
      BY <3>1, <3>2
  <2>8. Leg(s, type)' <= Leg(s, type)
    <3> HIDE DEF n, o, l, n2, o2
    <3>1. QED
      BY <2>2, <2>3, <2>4, <2>7
  <2>9. ASSUME NEW id, LegOf(s, type, id) PROVE LegOf(s, type, id)'
    <3>1. /\ PacketsOf(Tail(pipe[s]), type, id) /\ OpenerOf(ps, type, id)
          /\ m.type = type => m.id = id
      BY <2>2, <2>9 DEF LegOf
    <3>2. PacketsOf(pipe'[s], type, id) /\ OpenerOf(partial'[s], type, id)
      BY <2>1, <3>1 DEF OpenerOf, Opens
    <3>3. MessagesOf(QueueOf(s, type)', id)
      BY <2>1, <2>3, <2>5, <2>9, <3>1 DEF MessagesOf, LegOf
    <3>4. QED
      BY <3>2, <3>3 DEF LegOf
  <2>10. QED
    BY <1>1, <2>8, <2>9
<1>2. CASE v # s
  <2>1. pipe'[s] = pipe[s] /\ partial'[s] = partial[s] /\ QueueOf(s, type)' = QueueOf(s, type)
    BY <1>2, ReadPacketForm DEF QueueOf
  <2>2. QED
    BY <2>1, LegStays, LegForm
<1>3. QED
  BY <1>1, <1>2

-----------------------------------------------------------------------------
(* The whole way *)

CountsInv ==
    \A s \in Side :
      /\ Asking(s) \in Nat /\ Leg(Peer(s), "Request") \in Nat /\ Going(s) \in Nat
      /\ Bit(Serving(s)) \in Nat /\ Bit(Caller(s) # NoThread) \in {0, 1}
      /\ Count(out[Answerer(s)], "Response") \in Nat /\ Leg(s, "Response") \in Nat
      /\ Coming(s) \in Nat

\* The counts are numbers.
LEMMA CountsOf == FormInv /\ ThreadInv => CountsInv
<1> SUFFICES ASSUME FormInv, ThreadInv, NEW s \in Side
             PROVE  /\ Asking(s) \in Nat /\ Leg(Peer(s), "Request") \in Nat /\ Going(s) \in Nat
                    /\ Bit(Serving(s)) \in Nat /\ Bit(Caller(s) # NoThread) \in {0, 1}
                    /\ Count(out[Answerer(s)], "Response") \in Nat /\ Leg(s, "Response") \in Nat
                    /\ Coming(s) \in Nat
  BY DEF CountsInv
<1>1. \A t \in Threads : IsQueue(out[t])
  BY DEF FormInv, IsPackets
<1>2. Asking(s) \in Nat
  BY <1>1, Parties, CountType DEF Asking
<1>3. Leg(Peer(s), "Request") \in Nat /\ Leg(s, "Response") \in Nat
  BY Parties, LegForm
<1>4. Count(out[Answerer(s)], "Response") \in Nat
  BY <1>1, Parties, CountType
<1>5. Bit(Serving(s)) \in Nat /\ Bit(Caller(s) # NoThread) \in {0, 1}
  BY DEF Bit
<1>6. Going(s) \in Nat /\ Coming(s) \in Nat
  BY <1>2, <1>3, <1>4 DEF Going, Coming
<1>7. QED
  BY <1>2, <1>3, <1>4, <1>5, <1>6

\* Where there is no message there is nobody's message.
NobodysInv ==
    \A s \in Side : Going(s) + Bit(Serving(s)) + Coming(s) = 0 =>
      /\ Asking(s) = 0 /\ ~Serving(s)
      /\ \A id : /\ LegOf(Peer(s), "Request", id)
                 /\ PacketsOf(out[Answerer(s)], "Response", id)
                 /\ LegOf(s, "Response", id)

\* Where no message is, none is of another call.
LEMMA NoMessageOwned == FormInv /\ ThreadInv => NobodysInv
<1> SUFFICES ASSUME FormInv, ThreadInv, NEW s \in Side, Going(s) + Bit(Serving(s)) + Coming(s) = 0
             PROVE  /\ Asking(s) = 0 /\ ~Serving(s)
                    /\ \A id : /\ LegOf(Peer(s), "Request", id)
                               /\ PacketsOf(out[Answerer(s)], "Response", id)
                               /\ LegOf(s, "Response", id)
  BY DEF NobodysInv
<1> DEFINE a == Asking(s)
           b == Leg(Peer(s), "Request")
           c == Bit(Serving(s))
           d == Count(out[Answerer(s)], "Response")
           e == Leg(s, "Response")
<1>1. /\ a \in Nat /\ b \in Nat /\ c \in Nat /\ d \in Nat /\ e \in Nat
      /\ (a + b) + c + (d + e) = 0
  BY CountsOf DEF CountsInv, Going, Coming
<1> HIDE DEF a, b, c, d, e
<1>2. a = 0 /\ b = 0 /\ c = 0 /\ d = 0 /\ e = 0
  BY <1>1
<1>3. \A id : LegOf(Peer(s), "Request", id) /\ LegOf(s, "Response", id)
  BY <1>2, LegEmpty, Parties DEF b, e
<1>4. \A id : PacketsOf(out[Answerer(s)], "Response", id)
  BY <1>2, CountType, Parties DEF d, PacketsOf, FormInv, IsPackets
<1>5. Asking(s) = 0 /\ ~Serving(s)
  BY <1>2 DEF a, c, Bit
<1>6. QED
  BY <1>3, <1>4, <1>5

\* A step that ends no call and starts none.
LEMMA SameCall ==
  ASSUME NEW s \in Side, OneMessage(s), OwnMessage(s),
         Caller(s)' = Caller(s), Caller(s) # NoThread => IdOf(Caller(s))' = IdOf(Caller(s)),
         FormInv, ThreadInv, FormInv', ThreadInv',
         Going(s)' + Bit(Serving(s))' + Coming(s)' <= Going(s) + Bit(Serving(s)) + Coming(s),
         \A id : id = IdOf(Caller(s)) =>
           /\ LegOf(Peer(s), "Request", id)'
           /\ Serving(s)' => work'[Answerer(s)].id = id
           /\ PacketsOf(out'[Answerer(s)], "Response", id)
           /\ LegOf(s, "Response", id)'
  PROVE  OneMessage(s)' /\ OwnMessage(s)'
<1> DEFINE n == Going(s) + Bit(Serving(s)) + Coming(s)
           k == Bit(Caller(s) # NoThread)
<1>1. CountsInv' /\ NobodysInv'
  <2>1. CountsInv'
    BY CountsOf, PTL
  <2>2. NobodysInv'
    BY NoMessageOwned, PTL
  <2>3. QED
    BY <2>1, <2>2
<1>2. n \in Nat /\ n' \in Nat /\ k \in {0, 1} /\ k' = k /\ n' <= n /\ n <= k
  BY <1>1, CountsOf DEF OneMessage, CountsInv
<1> HIDE DEF n, k
<1>3. n' <= k'
  BY <1>2
<1>4. OneMessage(s)'
  BY <1>3 DEF OneMessage, n, k
<1>5. CASE Caller(s) # NoThread
  BY <1>4, <1>5 DEF OwnMessage
<1>6. CASE Caller(s) = NoThread
  <2>1. n' = 0
    BY <1>2, <1>6 DEF k, Bit
  <2>2. QED
    BY <1>1, <1>4, <2>1 DEF n, OwnMessage, NobodysInv
<1>7. QED
  BY <1>5, <1>6

Exchange(s) == FormInv /\ ThreadInv /\ OneMessage(s) /\ OwnMessage(s)

\* What a step does to a direction: nothing, or start its call, take the
\* request to be answered, answer it, or end the call.
SameCaller(s) == /\ Caller(s)' = Caller(s)
                 /\ Caller(s) # NoThread => IdOf(Caller(s))' = IdOf(Caller(s))
Keeps(s) == /\ SameCaller(s)
            /\ work'[Answerer(s)] = work[Answerer(s)] /\ (Serving(s)' <=> Serving(s))
            /\ Going(s)' <= Going(s) /\ Coming(s)' <= Coming(s)
Asks(s, t) == /\ Caller(s) = NoThread /\ Caller(s)' = t
              /\ work'[Answerer(s)] = work[Answerer(s)]
              /\ Going(s)' >= 1
Runs(s) == SameCaller(s) /\ Going(s) >= 1 /\ Serving(s)'
Answers(s) == /\ SameCaller(s)
              /\ work'[Answerer(s)] = work[Answerer(s)] /\ Serving(s) /\ ~Serving(s)'
              /\ Going(s)' <= Going(s)
Returns(s, t) == /\ Caller(s) = t /\ Caller(s)' = NoThread
                 /\ work'[Answerer(s)] = work[Answerer(s)]
                 /\ Coming(s) >= 1 /\ Going(s)' = 0 /\ Coming(s)' = 0 /\ ~Serving(s)'

\* A step that moves the direction's message along a leg at most.
LEMMA Undisturbed ==
  ASSUME NEW s \in Side, Exchange(s), FormInv', ThreadInv',
         Caller(s)' = Caller(s), Caller(s) # NoThread => IdOf(Caller(s))' = IdOf(Caller(s)),
         Asking(s)' = Asking(s), Serving(s)' <=> Serving(s),
         Serving(s) => work'[Answerer(s)] = work[Answerer(s)],
         Count(out'[Answerer(s)], "Response") = Count(out[Answerer(s)], "Response"),
         \A id : PacketsOf(out[Answerer(s)], "Response", id) =>
                   PacketsOf(out'[Answerer(s)], "Response", id),
         Leg(Peer(s), "Request")' <= Leg(Peer(s), "Request"),
         Leg(s, "Response")' <= Leg(s, "Response"),
         \A id : LegOf(Peer(s), "Request", id) => LegOf(Peer(s), "Request", id)',
         \A id : LegOf(s, "Response", id) => LegOf(s, "Response", id)'
  PROVE  /\ OneMessage(s)' /\ OwnMessage(s)'
         /\ work'[Answerer(s)] = work[Answerer(s)] => Keeps(s)
<1> DEFINE a == Asking(s)
           b == Leg(Peer(s), "Request")
           c == Bit(Serving(s))
           d == Count(out[Answerer(s)], "Response")
           e == Leg(s, "Response")
<1>1. CountsInv'
  BY CountsOf, PTL DEF Exchange
<1>2. /\ a \in Nat /\ b \in Nat /\ c \in Nat /\ d \in Nat /\ e \in Nat
      /\ b' \in Nat /\ e' \in Nat /\ b' <= b /\ e' <= e /\ a' = a /\ d' = d
  BY <1>1, CountsOf DEF Exchange, CountsInv
<1>3. c' = c
  BY DEF Bit
<1>4. /\ Going(s) = a + b /\ Going(s)' = a' + b'
      /\ Coming(s) = d + e /\ Coming(s)' = d' + e'
  BY DEF Going, Coming
<1>5. /\ Going(s)' + c' + Coming(s)' <= Going(s) + c + Coming(s)
      /\ Going(s)' <= Going(s) /\ Coming(s)' <= Coming(s)
  <2>1. PICK b2, e2 : b2 = b' /\ e2 = e'
    OBVIOUS
  <2>2. /\ a \in Nat /\ b \in Nat /\ c \in Nat /\ d \in Nat /\ e \in Nat
        /\ b2 \in Nat /\ e2 \in Nat /\ b2 <= b /\ e2 <= e
        /\ Going(s)' = a + b2 /\ Coming(s)' = d + e2 /\ c' = c
        /\ Going(s) = a + b /\ Coming(s) = d + e
    BY <1>2, <1>3, <1>4, <2>1
  <2> HIDE DEF a, b, c, d, e
  <2>3. /\ (a + b2) + c + (d + e2) <= (a + b) + c + (d + e)
        /\ a + b2 <= a + b /\ d + e2 <= d + e
    BY <2>2
  <2>4. QED
    BY <2>2, <2>3
<1> HIDE DEF a, b, c, d, e
<1>6. ASSUME NEW id, id = IdOf(Caller(s))
      PROVE  /\ LegOf(Peer(s), "Request", id)'
             /\ Serving(s)' => work'[Answerer(s)].id = id
             /\ PacketsOf(out'[Answerer(s)], "Response", id)
             /\ LegOf(s, "Response", id)'
  <2>1. /\ LegOf(Peer(s), "Request", id) /\ LegOf(s, "Response", id)
        /\ Serving(s) => work[Answerer(s)].id = id
        /\ PacketsOf(out[Answerer(s)], "Response", id)
    BY <1>6 DEF Exchange, OwnMessage
  <2>2. QED
    BY <2>1
<1>7. QED
  BY <1>5, <1>6, SameCall DEF Exchange, c, Keeps, SameCaller

\* Waits and wake-ups move no message.
LEMMA WaitExchange ==
  ASSUME NEW s \in Side, Exchange(s),
         \/ \E t \in Callers : WaitResponse(t)
         \/ \E u \in Side : SetNotification(u)
         \/ \E r \in RequestProcessors : WaitRequest(r)
         \/ UNCHANGED vars
  PROVE  OneMessage(s)' /\ OwnMessage(s)' /\ Keeps(s)
<1>1. /\ FormInv' /\ ThreadInv'
      /\ \A u \in Threads : /\ Inside(u)' <=> Inside(u)
                            /\ pc'[u] = "process" <=> pc[u] = "process"
      /\ UNCHANGED <<out, calls, work, mutex, pipe, partial, requestQueue, responseQueue>>
  BY WaitForm DEF Exchange
<1>2. Caller(s)' = Caller(s) /\ IdOf(Caller(s))' = IdOf(Caller(s))
  BY <1>1 DEF Caller, IdOf, Threads, Callers
<1>3. Asking(s)' = Asking(s) /\ (Serving(s)' <=> Serving(s))
  BY <1>1, <1>2, Parties DEF Asking, Serving, Exchange
<1>4. \A u, type : /\ Leg(u, type)' = Leg(u, type)
                   /\ \A id : LegOf(u, type, id) => LegOf(u, type, id)'
  BY <1>1, LegStays DEF QueueOf
<1>5. Leg(Peer(s), "Request") \in Nat /\ Leg(s, "Response") \in Nat
  BY CountsOf DEF CountsInv, Exchange
<1>6. QED
  BY <1>1, <1>2, <1>3, <1>4, <1>5, Undisturbed

\* ReadPacket moves messages along a leg.
LEMMA ReadExchange ==
  ASSUME NEW s \in Side, Exchange(s), NEW v \in Side, ReadPacket(v)
  PROVE  OneMessage(s)' /\ OwnMessage(s)' /\ Keeps(s)
<1>1. FormInv' /\ ThreadInv' /\ UNCHANGED <<pc, out, calls, work, mutex>>
  BY ReadPacketForm DEF Exchange, threadVars
<1>2. Caller(s)' = Caller(s) /\ IdOf(Caller(s))' = IdOf(Caller(s))
  BY <1>1 DEF Caller, IdOf, Inside
<1>3. Asking(s)' = Asking(s) /\ (Serving(s)' <=> Serving(s))
  BY <1>1, <1>2 DEF Asking, Serving, Inside
<1>4. \A u \in Side, type \in KnownTypes :
         Leg(u, type)' <= Leg(u, type) /\ \A id : LegOf(u, type, id) => LegOf(u, type, id)'
  BY LegRead DEF Exchange
<1>5. "Request" \in KnownTypes /\ "Response" \in KnownTypes /\ Peer(s) \in Side
  BY ThreadsOf DEF KnownTypes
<1>6. QED
  BY <1>1, <1>2, <1>3, <1>4, <1>5, Undisturbed

\* WritePacket moves a message from its writer into the leg.
LEMMA WriteExchange ==
  ASSUME NEW s, Sole(s), Exchange(s), NEW t \in Threads, WritePacket(t)
  PROVE  OneMessage(s)' /\ OwnMessage(s)' /\ Keeps(s)
<1> DEFINE x == Head(out[t])
           p == Peer(s)
           r == Answerer(s)
           asks == SideOf(t) = s /\ Starts(x, "Request")
           answers == SideOf(t) = p /\ Starts(x, "Response")
<1>0. s \in Side /\ FormInv /\ ThreadInv
  BY DEF Exchange, Sole
<1>1. /\ FormInv' /\ ThreadInv' /\ out[t] # << >>
      /\ \A u \in Threads \ {t} : out'[u] = out[u]
      /\ \A u \in Threads : Inside(u)' <=> Inside(u)
      /\ \A u \in Threads : pc'[u] = "process" <=> pc[u] = "process"
      /\ UNCHANGED <<calls, work, mutex>>
  BY <1>0, WritePacketForm
<1>2. Caller(s)' = Caller(s) /\ IdOf(Caller(s))' = IdOf(Caller(s))
  BY <1>1 DEF Caller, IdOf, Threads, Callers
<1>3. /\ r \in Threads /\ SideOf(r) = p /\ p # s /\ p \in Side
      /\ Caller(s) # NoThread => Caller(s) \in Threads /\ SideOf(Caller(s)) = s
  BY <1>0, Parties
<1>4. /\ Peer(SideOf(t)) = p <=> SideOf(t) = s
      /\ Peer(SideOf(t)) = s <=> SideOf(t) = p
  BY <1>0 DEF Peer, Side, SideOf
<1>5. /\ asks => Caller(s) = t /\ x.msg.id = IdOf(t)
      /\ answers => t = r
  BY <1>0, <1>1, WhoWrites
<1>6. Serving(s)' <=> Serving(s)
  BY <1>1, <1>3 DEF Serving
<1>7. /\ Leg(p, "Request")' = Leg(p, "Request") + Bit(asks)
      /\ Asking(s) = Asking(s)' + Bit(asks)
  <2>1. /\ Leg(p, "Request")' =
             Leg(p, "Request") + Bit(p = Peer(SideOf(t)) /\ Starts(x, "Request"))
        /\ Count(out[t], "Request") = Count(out'[t], "Request") + Bit(Starts(x, "Request"))
    BY <1>0, <1>3, LegWritten
  <2>2. p = Peer(SideOf(t)) /\ Starts(x, "Request") <=> asks
    BY <1>4
  <2>3. Leg(p, "Request")' = Leg(p, "Request") + Bit(asks)
    BY <2>1, <2>2 DEF Bit
  <2>4. CASE Caller(s) = t
    <3>1. /\ Starts(x, "Request") <=> asks
          /\ t # NoThread
      BY <1>3, <2>4, ThreadsDistinct
    <3>2. Bit(asks) = Bit(Starts(x, "Request"))
      BY <3>1 DEF Bit
    <3>3. Asking(s) = Count(out[t], "Request") /\ Asking(s)' = Count(out'[t], "Request")
      BY <1>2, <2>4, <3>1 DEF Asking
    <3>4. QED
      BY <2>1, <2>3, <3>2, <3>3
  <2>5. CASE Caller(s) # t
    <3>1. Bit(asks) = 0 /\ Asking(s)' = Asking(s)
      BY <1>1, <1>2, <1>3, <1>5, <2>5 DEF Asking, Bit
    <3>2. Asking(s) \in Nat
      BY <1>0, CountsOf DEF CountsInv
    <3>3. QED
      BY <2>3, <3>1, <3>2
  <2>6. QED
    BY <2>4, <2>5
<1>8. /\ Leg(s, "Response")' = Leg(s, "Response") + Bit(answers)
      /\ Count(out[r], "Response") = Count(out'[r], "Response") + Bit(answers)
  <2>1. /\ Leg(s, "Response")' =
             Leg(s, "Response") + Bit(s = Peer(SideOf(t)) /\ Starts(x, "Response"))
        /\ Count(out[t], "Response") = Count(out'[t], "Response") + Bit(Starts(x, "Response"))
    BY <1>0, LegWritten
  <2>2. s = Peer(SideOf(t)) /\ Starts(x, "Response") <=> answers
    BY <1>4
  <2>3. Leg(s, "Response")' = Leg(s, "Response") + Bit(answers)
    BY <2>1, <2>2 DEF Bit
  <2>4. CASE t = r
    <3>1. Starts(x, "Response") <=> answers
      BY <1>3, <2>4
    <3>2. Bit(answers) = Bit(Starts(x, "Response"))
      BY <3>1 DEF Bit
    <3>3. QED
      BY <2>1, <2>3, <2>4, <3>2
  <2>5. CASE t # r
    <3>1. Bit(answers) = 0 /\ out'[r] = out[r]
      BY <1>1, <1>3, <1>5, <2>5 DEF Bit
    <3>2. Count(out[r], "Response") \in Nat
      BY <1>0, CountsOf DEF CountsInv
    <3>3. QED
      BY <2>3, <3>1, <3>2
  <2>6. QED
    BY <2>4, <2>5
<1>9. /\ Going(s)' + Bit(Serving(s))' + Coming(s)' <= Going(s) + Bit(Serving(s)) + Coming(s)
      /\ Going(s)' <= Going(s) /\ Coming(s)' <= Coming(s)
  <2> DEFINE a == Asking(s)
             b == Leg(p, "Request")
             c == Bit(Serving(s))
             d == Count(out[r], "Response")
             e == Leg(s, "Response")
             k == Bit(asks)
             l == Bit(answers)
  <2>1. CountsInv /\ CountsInv'
    <3>1. CountsInv
      BY <1>0, CountsOf
    <3>2. CountsInv'
      BY <1>1, CountsOf, PTL
    <3>3. QED
      BY <3>1, <3>2
  <2>2. /\ a \in Nat /\ b \in Nat /\ c \in Nat /\ d \in Nat /\ e \in Nat
        /\ a' \in Nat /\ d' \in Nat /\ a = a' + k /\ b' = b + k /\ d = d' + l /\ e' = e + l
    BY <1>0, <1>7, <1>8, <2>1 DEF CountsInv
  <2>3. c' = c /\ k \in Nat /\ l \in Nat
    BY <1>6 DEF Bit
  <2>4. /\ Going(s) = a + b /\ Going(s)' = a' + b'
        /\ Coming(s) = d + e /\ Coming(s)' = d' + e'
    BY DEF Going, Coming
  <2> HIDE DEF a, b, c, d, e, k, l
  <2>5. /\ Going(s)' + c' + Coming(s)' <= Going(s) + c + Coming(s)
        /\ Going(s)' <= Going(s) /\ Coming(s)' <= Coming(s)
    <3>1. a' + b' = a + b
      BY <2>2, <2>3
    <3>2. d' + e' = d + e
      BY <2>2, <2>3
    <3>3. a + b \in Nat /\ d + e \in Nat
      BY <2>2
    <3>4. Going(s)' = Going(s) /\ Coming(s)' = Coming(s) /\ c' = c
      BY <2>3, <2>4, <3>1, <3>2
    <3>5. Going(s) \in Nat /\ Coming(s) \in Nat /\ c \in Nat
      BY <2>2, <2>4, <3>3
    <3>6. QED
      BY <3>4, <3>5
  <2>6. QED
    BY <2>5 DEF c
<1>10. ASSUME NEW id, id = IdOf(Caller(s))
       PROVE  /\ LegOf(p, "Request", id)'
              /\ Serving(s)' => work'[r].id = id
              /\ PacketsOf(out'[r], "Response", id)
              /\ LegOf(s, "Response", id)'
  <2>1. /\ LegOf(p, "Request", id) /\ PacketsOf(out[r], "Response", id)
        /\ LegOf(s, "Response", id) /\ (Serving(s) => work[r].id = id)
    BY <1>10 DEF Exchange, OwnMessage
  <2>2. asks => x.msg.id = id
    BY <1>5, <1>10
  <2>3. answers => x.msg.id = id
    <3>1. x = out[t][1] /\ 1 \in 1 .. Len(out[t])
      BY <1>0, <1>1, QueuePopped DEF FormInv, IsPackets
    <3>2. QED
      BY <1>5, <2>1, <3>1 DEF PacketsOf
  <2>4. LegOf(p, "Request", id)'
    <3>1. p = Peer(SideOf(t)) /\ Starts(x, "Request") => x.msg.id = id
      BY <1>4, <2>2
    <3>2. QED
      BY <1>0, <1>3, <2>1, <3>1, LegWritten
  <2>5. LegOf(s, "Response", id)'
    <3>1. s = Peer(SideOf(t)) /\ Starts(x, "Response") => x.msg.id = id
      BY <1>4, <2>3
    <3>2. QED
      BY <1>0, <2>1, <3>1, LegWritten
  <2>6. PacketsOf(out'[r], "Response", id)
    BY <1>0, <1>1, <1>3, <2>1, LegWritten
  <2>7. Serving(s)' => work'[r].id = id
    BY <1>1, <1>6, <2>1
  <2>8. QED
    BY <2>4, <2>5, <2>6, <2>7
<1>11. QED
  <2>1. OneMessage(s)' /\ OwnMessage(s)'
    BY <1>0, <1>1, <1>2, <1>9, <1>10, SameCall DEF Exchange
  <2>2. work'[r] = work[r]
    BY <1>1
  <2>3. QED
    BY <1>2, <1>6, <1>9, <2>1, <2>2 DEF Keeps, SameCaller

\* A message that is popped leaves the leg.
LEMMA LegPopped ==
  ASSUME FormInv, NEW s \in Side, NEW type, QueueOf(s, type) # << >>,
         pipe'[s] = pipe[s], partial'[s] = partial[s],
         QueueOf(s, type)' = Tail(QueueOf(s, type))
  PROVE  /\ Leg(s, type) = Leg(s, type)' + 1 /\ Leg(s, type)' \in Nat
         /\ \A id : LegOf(s, type, id) => LegOf(s, type, id)' /\ Head(QueueOf(s, type)).id = id
<1> DEFINE q == QueueOf(s, type)
           a == Count(pipe[s], type)
           b == Bit(Opens(partial[s], type))
<1>1. /\ Head(q) = q[1] /\ Len(q) \in Nat \ {0} /\ Len(Tail(q)) = Len(q) - 1
      /\ \A i \in 1 .. Len(Tail(q)) : i + 1 \in 1 .. Len(q) /\ Tail(q)[i] = q[i + 1]
  BY LegForm, QueuePopped
<1>2. a \in Nat /\ b \in Nat
  BY LegForm
<1>3. Leg(s, type) = a + b + Len(q) /\ Leg(s, type)' = a + b + Len(Tail(q))
  BY DEF Leg
<1>4. ASSUME NEW id, LegOf(s, type, id)
      PROVE  LegOf(s, type, id)' /\ Head(q).id = id
  <2>1. MessagesOf(q, id)
    BY <1>4 DEF LegOf
  <2>2. MessagesOf(q', id) /\ Head(q).id = id
    BY <1>1, <2>1 DEF MessagesOf
  <2>3. QED
    BY <1>4, <2>2 DEF LegOf
<1> HIDE DEF q, a, b
<1>5. Leg(s, type) = Leg(s, type)' + 1 /\ Leg(s, type)' \in Nat
  BY <1>1, <1>2, <1>3
<1>6. QED
  BY <1>4, <1>5 DEF q

\* TakeRequest moves the request from the leg to the answerer.
LEMMA TakeExchange ==
  ASSUME NEW s \in Side, Exchange(s), NEW q \in RequestProcessors, TakeRequest(q)
  PROVE  /\ OneMessage(s)' /\ OwnMessage(s)'
         /\ q # Answerer(s) => Keeps(s)
         /\ q = Answerer(s) /\ requestQueue[Peer(s)] # << >> =>
              Runs(s) /\ work'[q] = Head(requestQueue[Peer(s)])
<1> DEFINE p == Peer(s)
           r == Answerer(s)
<1>0. FormInv /\ ThreadInv
  BY DEF Exchange
<1>1. /\ FormInv' /\ ThreadInv' /\ pc[q] = "take"
      /\ \A u \in Threads \ {q} : pc'[u] = pc[u]
      /\ UNCHANGED <<out, calls, mutex, pipe, partial, responseQueue>>
  BY <1>0, TakeRequestForm
<1>2. /\ r \in RequestProcessors /\ r \in Threads /\ SideOf(r) = p /\ p \in Side /\ p # s
  BY <1>0, Parties
<1>3. pc'[q] \in {"listen", "process"}
  BY <1>0, TakeRequestForm
<1>4. \A u \in Threads : Inside(u)' <=> Inside(u)
  BY <1>1, <1>3 DEF Inside
<1>5. Caller(s)' = Caller(s) /\ IdOf(Caller(s))' = IdOf(Caller(s))
  BY <1>1, <1>4 DEF Caller, IdOf, Threads, Callers
<1>6. Asking(s)' = Asking(s)
  BY <1>1, <1>5 DEF Asking
<1>7. /\ Leg(s, "Response")' = Leg(s, "Response")
      /\ \A id : LegOf(s, "Response", id)' <=> LegOf(s, "Response", id)
  BY <1>1, LegStays DEF QueueOf
<1>8. CountsInv
  BY <1>0, CountsOf
<1>9. CASE q = r /\ requestQueue[p] # << >>
  <2>1. /\ pc'[r] = "process" /\ work'[r] = Head(requestQueue[p])
        /\ requestQueue'[p] = Tail(requestQueue[p])
    BY <1>0, <1>2, <1>9, TakeRequestForm
  <2>2. ~Serving(s) /\ Serving(s)'
    BY <1>1, <1>9, <2>1 DEF Serving, Inside
  <2>3. QueueOf(p, "Request") = requestQueue[p] /\ QueueOf(p, "Request")' = requestQueue'[p]
    BY DEF QueueOf
  <2>4. /\ Leg(p, "Request") = Leg(p, "Request")' + 1 /\ Leg(p, "Request")' \in Nat
        /\ \A id : LegOf(p, "Request", id) =>
             LegOf(p, "Request", id)' /\ Head(requestQueue[p]).id = id
    BY <1>0, <1>1, <1>2, <1>9, <2>1, <2>3, LegPopped
  <2>5. Going(s)' + Bit(Serving(s))' + Coming(s)' <= Going(s) + Bit(Serving(s)) + Coming(s)
    <3> DEFINE a == Asking(s)
               b == Leg(p, "Request")
               d == Coming(s)
    <3>1. a \in Nat /\ b \in Nat /\ b' \in Nat /\ d \in Nat /\ b = b' + 1 /\ a' = a
      BY <1>6, <1>8, <2>4 DEF CountsInv
    <3>2. d' = d
      BY <1>1, <1>7 DEF Coming
    <3>3. Going(s) = a + b /\ Going(s)' = a' + b'
      BY DEF Going
    <3>4. Bit(Serving(s)) = 0 /\ Bit(Serving(s))' = 1
      BY <2>2 DEF Bit
    <3> HIDE DEF a, b, d
    <3>5. Going(s) = Going(s)' + 1 /\ Going(s)' \in Nat
      <4>1. PICK b2 : b2 = b'
        OBVIOUS
      <4>2. a \in Nat /\ b2 \in Nat /\ Going(s) = a + (b2 + 1)
        BY <3>1, <3>3, <4>1
      <4>3. Going(s)' = a + b2
        BY <3>1, <3>3, <4>1
      <4>4. a + (b2 + 1) = (a + b2) + 1 /\ a + b2 \in Nat
        BY <4>2
      <4>5. QED
        BY <4>2, <4>3, <4>4
    <3>6. Going(s)' + 1 + d' <= Going(s) + 0 + d
      BY <3>1, <3>2, <3>5
    <3>7. QED
      BY <3>4, <3>6 DEF d
  <2>6. ASSUME NEW id, id = IdOf(Caller(s))
        PROVE  /\ LegOf(p, "Request", id)'
               /\ Serving(s)' => work'[r].id = id
               /\ PacketsOf(out'[r], "Response", id)
               /\ LegOf(s, "Response", id)'
    <3>1. /\ LegOf(p, "Request", id) /\ PacketsOf(out[r], "Response", id)
          /\ LegOf(s, "Response", id)
      BY <2>6 DEF Exchange, OwnMessage
    <3>2. QED
      BY <1>1, <1>7, <2>1, <2>4, <3>1
  <2>7. QED
    <3>1. OneMessage(s)' /\ OwnMessage(s)'
      BY <1>0, <1>1, <1>5, <2>5, <2>6, SameCall DEF Exchange
    <3>2. Going(s) >= 1
      <4>1. PICK b2 : b2 = Leg(p, "Request")'
        OBVIOUS
      <4>2. b2 \in Nat /\ Going(s) = Asking(s) + (b2 + 1) /\ Asking(s) \in Nat
        BY <1>0, <1>8, <2>4, <4>1 DEF CountsInv, Going
      <4>3. QED
        BY <4>2
    <3>3. Runs(s)
      BY <1>5, <2>2, <3>2 DEF Runs, SameCaller
    <3>4. QED
      BY <1>9, <2>1, <3>1, <3>3
<1>10. CASE ~(q = r /\ requestQueue[p] # << >>)
  <2>1. requestQueue'[p] = requestQueue[p]
    <3>1. CASE q = r
      BY <1>0, <1>2, <1>10, <3>1, TakeRequestForm
    <3>2. CASE q # r
      <4>1. SideOf(q) # p
        BY <1>2, <3>2, ThreadsDistinct DEF RequestProcessors, SideOf, Answerer, Side, Peer
      <4>2. QED
        BY <1>0, <1>2, <4>1, TakeRequestForm
    <3>3. QED
      BY <3>1, <3>2
  <2>2. Serving(s)' <=> Serving(s)
    <3>1. CASE q = r
      <4>1. pc[r] = "take" /\ pc'[r] = "listen"
        BY <1>0, <1>2, <1>10, <3>1, TakeRequestForm
      <4>2. QED
        BY <4>1 DEF Serving, Inside
    <3>2. CASE q # r
      BY <1>1, <1>2, <3>2 DEF Serving, Inside
    <3>3. QED
      BY <3>1, <3>2
  <2>3. Serving(s) => work'[r] = work[r]
    <3>1. Serving(s) => q # r
      BY <1>1 DEF Serving, Inside
    <3>2. QED
      BY <1>0, <1>2, <3>1, TakeRequestForm
  <2>4. /\ Leg(p, "Request")' = Leg(p, "Request")
        /\ \A id : LegOf(p, "Request", id)' <=> LegOf(p, "Request", id)
    BY <1>1, <2>1, LegStays DEF QueueOf
  <2>5. Leg(p, "Request") \in Nat /\ Leg(s, "Response") \in Nat
    BY <1>8 DEF CountsInv
  <2>6. /\ OneMessage(s)' /\ OwnMessage(s)'
        /\ work'[r] = work[r] => Keeps(s)
    BY <1>1, <1>5, <1>6, <1>7, <2>2, <2>3, <2>4, <2>5, Undisturbed
  <2>7. q # r => work'[r] = work[r]
    BY <1>0, <1>2, TakeRequestForm
  <2>8. QED
    BY <1>10, <2>6, <2>7
<1>11. QED
  BY <1>9, <1>10

\* ProcessRequestMessage turns the request into one response.
LEMMA ProcessExchange ==
  ASSUME NEW s \in Side, Exchange(s), NEW q \in RequestProcessors, ProcessRequestMessage(q)
  PROVE  /\ OneMessage(s)' /\ OwnMessage(s)'
         /\ IF q = Answerer(s) THEN Answers(s) ELSE Keeps(s)
<1> DEFINE p == Peer(s)
           r == Answerer(s)
<1>0. FormInv /\ ThreadInv
  BY DEF Exchange
<1>1. /\ FormInv' /\ ThreadInv' /\ pc[q] = "process" /\ pc'[q] = "answer"
      /\ \A u \in Threads \ {q} : pc'[u] = pc[u] /\ out'[u] = out[u]
      /\ UNCHANGED <<calls, work, mutex, pipe, partial, requestQueue, responseQueue>>
  BY <1>0, ProcessForm
<1>2. /\ r \in RequestProcessors /\ r \in Threads /\ SideOf(r) = p /\ p \in Side /\ p # s
      /\ Caller(s) # NoThread => Caller(s) \in Threads
  BY <1>0, Parties
<1>3. \A u \in Threads : Inside(u)' <=> Inside(u)
  BY <1>1 DEF Inside
<1>4. Caller(s)' = Caller(s) /\ IdOf(Caller(s))' = IdOf(Caller(s))
  BY <1>1, <1>3 DEF Caller, IdOf, Threads, Callers
<1>5. Asking(s)' = Asking(s)
  <2>1. Caller(s) # q \/ Caller(s) = NoThread
    BY <1>0, <1>1, ThreadsDistinct DEF Caller, Inside, ThreadInv, RequestProcessors
  <2>2. QED
    BY <1>1, <1>2, <1>4, <2>1 DEF Asking
<1>6. \A u, type : /\ Leg(u, type)' = Leg(u, type)
                   /\ \A id : LegOf(u, type, id)' <=> LegOf(u, type, id)
  BY <1>1, LegStays DEF QueueOf
<1>7. CountsInv
  BY <1>0, CountsOf
<1>8. CASE q = r
  <2>1. Serving(s) /\ ~Serving(s)'
    BY <1>1, <1>8 DEF Serving, Inside
  <2>2. /\ Count(out'[r], "Response") = 1
        /\ \A i \in 1 .. Len(out'[r]) : out'[r][i].msg.id = work[r].id
    BY <1>0, <1>8, ProcessForm
  <2>3. Going(s)' + Bit(Serving(s))' + Coming(s)' <= Going(s) + Bit(Serving(s)) + Coming(s)
    <3> DEFINE a == Going(s)
               d == Count(out[r], "Response")
               e == Leg(s, "Response")
    <3>1. a \in Nat /\ d \in Nat /\ e \in Nat /\ e' = e /\ d' = 1
      BY <1>6, <1>7, <2>2 DEF CountsInv
    <3>2. a' = a
      BY <1>5, <1>6 DEF Going
    <3>3. Coming(s) = d + e /\ Coming(s)' = d' + e'
      BY DEF Coming
    <3>4. Bit(Serving(s)) = 1 /\ Bit(Serving(s))' = 0
      BY <2>1 DEF Bit
    <3> HIDE DEF a, d, e
    <3>5. a' + 0 + Coming(s)' <= a + 1 + Coming(s)
      BY <3>1, <3>2, <3>3
    <3>6. QED
      BY <3>4, <3>5 DEF a
  <2>4. ASSUME NEW id, id = IdOf(Caller(s))
        PROVE  /\ LegOf(p, "Request", id)'
               /\ Serving(s)' => work'[r].id = id
               /\ PacketsOf(out'[r], "Response", id)
               /\ LegOf(s, "Response", id)'
    <3>1. /\ LegOf(p, "Request", id) /\ work[r].id = id /\ LegOf(s, "Response", id)
      BY <2>1, <2>4 DEF Exchange, OwnMessage
    <3>2. PacketsOf(out'[r], "Response", id)
      BY <2>2, <3>1 DEF PacketsOf
    <3>3. QED
      BY <1>6, <2>1, <3>1, <3>2
  <2>5. QED
    <3>1. OneMessage(s)' /\ OwnMessage(s)'
      BY <1>0, <1>1, <1>4, <2>3, <2>4, SameCall DEF Exchange
    <3>2. Going(s)' = Going(s) /\ Going(s) \in Nat
      BY <1>5, <1>6, <1>7 DEF Going, CountsInv
    <3>3. Going(s)' <= Going(s)
      BY <3>2
    <3>4. Answers(s)
      BY <1>1, <1>4, <2>1, <3>3 DEF Answers, SameCaller
    <3>5. QED
      BY <1>8, <3>1, <3>4
<1>9. CASE q # r
  <2>1. /\ Serving(s)' <=> Serving(s)
        /\ out'[r] = out[r] /\ work'[r] = work[r]
    BY <1>1, <1>2, <1>9 DEF Serving, Inside
  <2>2. Leg(p, "Request") \in Nat /\ Leg(s, "Response") \in Nat
    BY <1>7 DEF CountsInv
  <2>3. QED
    BY <1>1, <1>4, <1>5, <1>6, <1>9, <2>1, <2>2, Undisturbed
<1>10. QED
  BY <1>8, <1>9

\* The popped response ends the call, and with it all there was of it.
LEMMA PopExchange ==
  ASSUME NEW s, Sole(s), Exchange(s), NEW t \in Callers, PopResponse(t),
         responseQueue[SideOf(t)] # << >>
  PROVE  /\ OneMessage(s)' /\ OwnMessage(s)'
         /\ IF SideOf(t) = s THEN Returns(s, t) ELSE Keeps(s)
<1> DEFINE p == Peer(s)
           r == Answerer(s)
<1>0. FormInv /\ ThreadInv /\ s \in Side
  BY DEF Exchange, Sole
<1>1. /\ FormInv' /\ ThreadInv'
      /\ pc[t] = "pop" /\ pc'[t] = Base(t) /\ \A u \in Threads \ {t} : pc'[u] = pc[u]
      /\ responseQueue'[SideOf(t)] = Tail(responseQueue[SideOf(t)])
      /\ \A u \in Side \ {SideOf(t)} : responseQueue'[u] = responseQueue[u]
      /\ mutex' = IF t \in AgentCallers THEN NoThread ELSE mutex
      /\ UNCHANGED <<out, calls, work, pipe, partial, requestQueue>>
  BY <1>0, PopResponseForm
<1>2. /\ r \in RequestProcessors /\ r \in Threads /\ SideOf(r) = p /\ p \in Side /\ p # s
      /\ Caller(s) # NoThread => Caller(s) \in Threads
  BY <1>0, Parties
<1>3. CountsInv /\ CountsInv' /\ NobodysInv'
  <2>1. CountsInv
    BY <1>0, CountsOf
  <2>2. CountsInv'
    BY <1>1, CountsOf, PTL
  <2>3. NobodysInv'
    BY <1>1, NoMessageOwned, PTL
  <2>4. QED
    BY <2>1, <2>2, <2>3
<1>4. /\ Leg(p, "Request")' = Leg(p, "Request")
      /\ \A id : LegOf(p, "Request", id)' <=> LegOf(p, "Request", id)
  BY <1>1, LegStays DEF QueueOf
<1>5. CASE SideOf(t) = s
  <2>1. Caller(s) = t /\ t # NoThread
    BY <1>0, <1>1, <1>5, CallerInside, ThreadsOf, ThreadsDistinct DEF Inside
  <2>2. Caller(s)' = NoThread
    BY <1>0, <1>1, <1>5, CallerInside, ThreadsOf, ThreadsDistinct
       DEF Caller, Inside, Base, Side, Callers, RequestProcessors
  <2>3. Serving(s)' <=> Serving(s)
    BY <1>1, <1>2, <1>5 DEF Serving, Inside
  <2>4. Leg(s, "Response") = Leg(s, "Response")' + 1
    BY <1>0, <1>1, <1>5, LegPopped DEF QueueOf
  <2>5. /\ Going(s)' + Bit(Serving(s))' + Coming(s)' = 0
        /\ Going(s)' = 0 /\ Coming(s)' = 0 /\ Bit(Serving(s))' = 0 /\ Coming(s) >= 1
    <3> DEFINE a == Asking(s)
               b == Leg(p, "Request")
               c == Bit(Serving(s))
               d == Count(out[r], "Response")
               e == Leg(s, "Response")
    <3>1. /\ a \in Nat /\ b \in Nat /\ c \in Nat /\ d \in Nat
          /\ e \in Nat /\ e' \in Nat /\ e = e' + 1 /\ b' = b /\ c' = c /\ d' = d
      BY <1>0, <1>1, <1>3, <1>4, <2>3, <2>4 DEF CountsInv, Bit
    <3>2. a' = 0
      BY <2>2 DEF Asking
    <3>3. (a + b) + c + (d + e) <= 1
      BY <2>1 DEF Exchange, OneMessage, Going, Coming, Bit
    <3>4. Going(s)' = a' + b' /\ Coming(s)' = d' + e' /\ Coming(s) = d + e
      BY DEF Going, Coming
    <3> HIDE DEF a, b, c, d, e
    <3>5. b = 0 /\ c = 0 /\ d = 0 /\ e' = 0 /\ d + e >= 1
      <4>1. PICK e2 : e2 = e'
        OBVIOUS
      <4>2. /\ e2 \in Nat /\ e = e2 + 1 /\ (a + b) + c + (d + e) <= 1
            /\ a \in Nat /\ b \in Nat /\ c \in Nat /\ d \in Nat
        BY <3>1, <3>3, <4>1
      <4>3. b = 0 /\ c = 0 /\ d = 0 /\ e2 = 0 /\ d + e >= 1
        BY <4>2
      <4>4. QED
        BY <4>1, <4>3
    <3>6. Going(s)' = 0 /\ Coming(s)' = 0 /\ c' = 0
      BY <3>1, <3>2, <3>4, <3>5
    <3>7. Coming(s) >= 1
      BY <3>4, <3>5
    <3>8. QED
      BY <3>6, <3>7 DEF c
  <2>6. OneMessage(s)'
    BY <1>0, <1>3, <2>5 DEF OneMessage, CountsInv
  <2>7. OwnMessage(s)'
    BY <1>0, <1>3, <2>5 DEF OwnMessage, NobodysInv
  <2>8. Returns(s, t)
    BY <1>1, <2>1, <2>2, <2>5 DEF Returns, Bit
  <2>9. QED
    BY <1>5, <2>6, <2>7, <2>8
<1>6. CASE SideOf(t) # s
  <2>1. Caller(s)' = Caller(s) /\ IdOf(Caller(s))' = IdOf(Caller(s)) /\ Caller(s) # t
    BY <1>0, <1>1, <1>6, ThreadsOf, ThreadsDistinct
       DEF Caller, Inside, IdOf, Side, SideOf, Threads, Callers, RequestProcessors, ThreadInv
  <2>2. Asking(s)' = Asking(s)
    BY <1>1, <2>1 DEF Asking
  <2>3. Serving(s)' <=> Serving(s)
    <3>1. CASE t = r
      BY <1>1, <3>1, ThreadsDistinct
         DEF Serving, Inside, Base, Callers, RequestProcessors, Answerer
    <3>2. CASE t # r
      BY <1>1, <1>2, <3>2 DEF Serving, Inside
    <3>3. QED
      BY <3>1, <3>2
  <2>4. /\ Leg(s, "Response")' = Leg(s, "Response")
        /\ \A id : LegOf(s, "Response", id)' <=> LegOf(s, "Response", id)
    BY <1>0, <1>1, <1>6, LegStays DEF QueueOf
  <2>5. Leg(p, "Request") \in Nat /\ Leg(s, "Response") \in Nat
    BY <1>0, <1>3 DEF CountsInv
  <2>6. QED
    BY <1>0, <1>1, <1>4, <1>6, <2>1, <2>2, <2>3, <2>4, <2>5, Undisturbed
<1>7. QED
  BY <1>5, <1>6

\* A call starts where there is none, with one request.
LEMMA StartExchange ==
  ASSUME NEW s, Sole(s), Exchange(s), NEW t \in Callers, StartCall(t)
  PROVE  /\ OneMessage(s)' /\ OwnMessage(s)'
         /\ IF SideOf(t) = s THEN Asks(s, t) ELSE Keeps(s)
<1> DEFINE p == Peer(s)
           r == Answerer(s)
<1>0. FormInv /\ ThreadInv /\ s \in Side /\ t \in Threads
  BY ThreadsOf DEF Exchange, Sole
<1>1. /\ FormInv' /\ ThreadInv'
      /\ pc[t] = Base(t) /\ pc'[t] = "write" /\ \A u \in Threads \ {t} : pc'[u] = pc[u]
      /\ Count(out'[t], "Request") = 1 /\ Count(out'[t], "Response") = 0
      /\ \A u \in Threads \ {t} : out'[u] = out[u]
      /\ \A u \in Callers \ {t} : IdOf(u)' = IdOf(u)
      /\ t \in AgentCallers => mutex = NoThread
      /\ mutex' = IF t \in AgentCallers THEN t ELSE mutex
      /\ UNCHANGED <<work, pipe, partial, requestQueue, responseQueue>>
  BY <1>0, StartCallForm
<1>2. /\ r \in RequestProcessors /\ r \in Threads /\ SideOf(r) = p /\ p \in Side /\ p # s
      /\ Caller(s) # NoThread => Caller(s) \in Threads /\ Caller(s) \in Callers
  BY <1>0, Parties
<1>3. CountsInv /\ NobodysInv
  BY <1>0, CountsOf, NoMessageOwned
<1>4. \A u, type : /\ Leg(u, type)' = Leg(u, type)
                   /\ \A id : LegOf(u, type, id)' <=> LegOf(u, type, id)
  BY <1>1, LegStays DEF QueueOf
<1>5. CASE SideOf(t) = s
  <2>1. Caller(s) = NoThread /\ t # NoThread /\ t # r
    BY <1>0, <1>1, <1>2, <1>5, CallerInside, ThreadsDistinct
       DEF Caller, Inside, Base, Side, Callers, RequestProcessors
  <2>2. Caller(s)' = t
    BY <1>0, <1>1, <1>5, CallerInside DEF Caller, Inside, Side
  <2>3. Serving(s)' <=> Serving(s)
    BY <1>1, <1>2, <2>1 DEF Serving, Inside
  <2>4. Going(s) + Bit(Serving(s)) + Coming(s) = 0
    <3> DEFINE a == Going(s)
               c == Bit(Serving(s))
               d == Coming(s)
    <3>1. a \in Nat /\ c \in Nat /\ d \in Nat /\ a + c + d <= 0
      BY <1>0, <1>3, <2>1 DEF CountsInv, Exchange, OneMessage, Bit
    <3> HIDE DEF a, c, d
    <3>2. a + c + d = 0
      BY <3>1
    <3>3. QED
      BY <3>2 DEF a, c, d
  <2>5. Going(s)' + Bit(Serving(s))' + Coming(s)' = 1 /\ Going(s)' = 1
    <3> DEFINE a == Asking(s)
               b == Leg(p, "Request")
               c == Bit(Serving(s))
               d == Coming(s)
    <3>1. /\ a \in Nat /\ b \in Nat /\ c \in Nat /\ d \in Nat /\ (a + b) + c + d = 0
      BY <1>0, <1>3, <2>4 DEF CountsInv, Going
    <3>2. a' = 1
      BY <1>1, <2>1, <2>2 DEF Asking
    <3>3. b' = b /\ c' = c /\ d' = d
      BY <1>1, <1>2, <1>4, <2>1, <2>3 DEF Coming, Bit
    <3>4. Going(s)' = a' + b'
      BY DEF Going
    <3> HIDE DEF a, b, c, d
    <3>5. b = 0 /\ c = 0 /\ d = 0
      BY <3>1
    <3>6. Going(s)' = 1 /\ c' = 0 /\ d' = 0
      BY <3>2, <3>3, <3>4, <3>5
    <3>7. QED
      BY <3>6 DEF c, d
  <2>6. OneMessage(s)'
    BY <2>1, <2>2, <2>5 DEF OneMessage, Bit
  <2>7. OwnMessage(s)'
    <3>1. /\ ~Serving(s)
          /\ \A id : /\ LegOf(p, "Request", id)
                     /\ PacketsOf(out[r], "Response", id)
                     /\ LegOf(s, "Response", id)
      BY <1>0, <1>3, <2>4 DEF NobodysInv
    <3>2. ~Serving(s)' /\ out'[r] = out[r]
      BY <1>1, <1>2, <2>1, <2>3, <3>1
    <3>3. \A id : /\ LegOf(p, "Request", id)'
                  /\ PacketsOf(out'[r], "Response", id)
                  /\ LegOf(s, "Response", id)'
      BY <1>4, <3>1, <3>2
    <3>4. QED
      BY <3>2, <3>3 DEF OwnMessage
  <2>8. Asks(s, t)
    BY <1>1, <2>1, <2>2, <2>5 DEF Asks
  <2>9. QED
    BY <1>5, <2>6, <2>7, <2>8
<1>6. CASE SideOf(t) # s
  <2>1. Caller(s)' = Caller(s) /\ Caller(s) # t
    BY <1>0, <1>1, <1>6, ThreadsDistinct
       DEF Caller, Inside, Side, SideOf, Threads, Callers, RequestProcessors, ThreadInv
  <2>2. Caller(s) # NoThread => IdOf(Caller(s))' = IdOf(Caller(s))
    BY <1>1, <1>2, <2>1 DEF IdOf
  <2>3. Asking(s)' = Asking(s)
    BY <1>1, <1>2, <2>1 DEF Asking
  <2>4. /\ Serving(s)' <=> Serving(s)
        /\ Count(out'[r], "Response") = Count(out[r], "Response")
        /\ \A id : PacketsOf(out[r], "Response", id) => PacketsOf(out'[r], "Response", id)
    <3>1. CASE t = r
      <4>1. pc[r] = "process"
        BY <1>1, <1>2, <3>1, ThreadsDistinct DEF Base, Callers, RequestProcessors
      <4>2. out[r] = << >> /\ IsQueue(out[r]) /\ IsQueue(out'[r])
        BY <1>0, <1>1, <1>2, <4>1 DEF ThreadInv, FormInv, IsPackets
      <4>3. Count(out[r], "Response") = 0
        BY <4>2, CountType
      <4>4. \A id : PacketsOf(out'[r], "Response", id)
        BY <1>1, <3>1, <4>2, CountType DEF PacketsOf
      <4>5. QED
        BY <1>1, <3>1, <4>1, <4>3, <4>4 DEF Serving, Inside
    <3>2. CASE t # r
      BY <1>1, <1>2, <3>2 DEF Serving, Inside
    <3>3. QED
      BY <3>1, <3>2
  <2>5. Leg(p, "Request") \in Nat /\ Leg(s, "Response") \in Nat
    BY <1>0, <1>3 DEF CountsInv
  <2>6. QED
    BY <1>0, <1>1, <1>4, <1>6, <2>1, <2>2, <2>3, <2>4, <2>5, Undisturbed
<1>7. QED
  BY <1>5, <1>6

\* A thread that has been woken finds the response it was woken for.
LEMMA PopFinds ==
  ASSUME BackedInv, FormInv, NEW t \in Callers, pc[t] = "pop"
  PROVE  Len(responseQueue[SideOf(t)]) >= 1 /\ responseQueue[SideOf(t)] # << >>
<1> DEFINE s == SideOf(t)
<1>1. s \in Side
  BY ThreadsOf
<1>2. Cardinality(Popping(s)) >= 1
  <2>1. t \in Popping(s) /\ IsFiniteSet(Popping(s)) /\ Cardinality(Popping(s)) \in Nat
    BY <1>1, PoppingFinite DEF Popping
  <2>2. Cardinality(Popping(s)) # 0
    BY <2>1, FS_EmptySet
  <2>3. QED
    BY <2>1, <2>2
<1>3. /\ Cardinality(Popping(s)) \in Nat /\ Bit(responseNotification[s]) \in Nat
      /\ Bit(raise[s] = "Response") \in Nat
  BY <1>1, PoppingFinite DEF Bit
<1>4. Cardinality(Popping(s)) + Bit(responseNotification[s])
        + Bit(raise[s] = "Response") <= Len(responseQueue[s])
  BY <1>1 DEF BackedInv, WakeupsAreBacked
<1>5. IsQueue(responseQueue[s]) /\ Len(responseQueue[s]) \in Nat
  BY <1>1 DEF BackedInv, ShapeInv, IsQueue
<1> HIDE DEF s
<1>6. Len(responseQueue[s]) >= 1
  BY <1>2, <1>3, <1>4, <1>5
<1>7. QED
  BY <1>5, <1>6, EmptySeq DEF s, IsQueue

\* The initial state has the form,
LEMMA FormInit == Init => FormInv /\ ThreadInv
<1> SUFFICES ASSUME Init PROVE FormInv /\ ThreadInv
  OBVIOUS
<1>1. FormInv
  BY NoPackets, ThreadsOf DEF Init, FormInv, Points, Inside
<1>2. ThreadInv
  BY ThreadsDistinct DEF Init, ThreadInv, Inside, Threads, Callers, RequestProcessors
<1>3. QED
  BY <1>1, <1>2

\* and no message in it.
LEMMA ExchangeInit ==
  ASSUME NEW s \in Side, Init
  PROVE  Exchange(s)
<1>1. FormInv /\ ThreadInv
  BY FormInit
<1>2. Caller(s) = NoThread
  BY DEF Init, Caller, Inside, RequestProcessors, Threads, Callers
<1>3. ~Serving(s) /\ Bit(Serving(s)) = 0
  BY <1>1, Parties DEF Init, Serving, Inside, Bit
<1>4. \A type : Count(<< >>, type) = 0
  <2>1. IsQueue(<< >>)
    BY NoPackets DEF IsPackets
  <2>2. QED
    BY <2>1, CountType
<1>5. ASSUME NEW u \in Side, NEW type
      PROVE  Leg(u, type) = 0 /\ \A id : LegOf(u, type, id)
  <2>1. pipe[u] = << >> /\ partial[u] = << >> /\ QueueOf(u, type) = << >>
    BY DEF Init, QueueOf
  <2>2. Leg(u, type) = 0
    BY <1>4, <2>1 DEF Leg, Bit, Opens
  <2>3. QED
    BY <1>1, <2>2, LegEmpty
<1>6. out[Answerer(s)] = << >>
  BY <1>1, Parties DEF Init
<1>7. Going(s) = 0 /\ Coming(s) = 0
  BY <1>1, <1>2, <1>4, <1>5, <1>6, Parties DEF Going, Coming, Asking
<1>8. OneMessage(s)
  BY <1>2, <1>3, <1>7 DEF OneMessage, Bit
<1>9. OwnMessage(s)
  <2>1. \A id : PacketsOf(out[Answerer(s)], "Response", id)
    BY <1>6 DEF PacketsOf
  <2>2. Peer(s) \in Side
    BY ThreadsOf
  <2>3. QED
    BY <1>3, <1>5, <2>1, <2>2 DEF OwnMessage
<1>10. QED
  BY <1>1, <1>8, <1>9 DEF Exchange

\* One message per call, the call's own: kept by every step.
LEMMA ExchangeStep ==
  ASSUME NEW s, Sole(s), Exchange(s), BackedInv, [Next]_vars
  PROVE  Exchange(s)'
<1>0. s \in Side /\ FormInv /\ ThreadInv
  BY DEF Sole, Exchange
<1> DEFINE Goal == FormInv' /\ ThreadInv' /\ OneMessage(s)' /\ OwnMessage(s)'
<1>1. ASSUME NEW t \in Callers, StartCall(t) PROVE Goal
  BY <1>0, <1>1, StartCallForm, StartExchange
<1>2. ASSUME NEW t \in Callers, PopResponse(t) PROVE Goal
  <2>1. responseQueue[SideOf(t)] # << >>
    BY <1>0, <1>2, PopFinds DEF PopResponse
  <2>2. QED
    BY <1>0, <1>2, <2>1, PopResponseForm, PopExchange
<1>3. ASSUME NEW t \in Threads, WritePacket(t) PROVE Goal
  BY <1>0, <1>3, WritePacketForm, WriteExchange
<1>4. ASSUME NEW v \in Side, ReadPacket(v) PROVE Goal
  BY <1>0, <1>4, ReadPacketForm, ReadExchange
<1>5. ASSUME NEW r \in RequestProcessors, TakeRequest(r) PROVE Goal
  BY <1>0, <1>5, TakeRequestForm, TakeExchange
<1>6. ASSUME NEW r \in RequestProcessors, ProcessRequestMessage(r) PROVE Goal
  BY <1>0, <1>6, ProcessForm, ProcessExchange
<1>7. ASSUME \/ \E t \in Callers : WaitResponse(t)
             \/ \E v \in Side : SetNotification(v)
             \/ \E r \in RequestProcessors : WaitRequest(r)
             \/ UNCHANGED vars
      PROVE  Goal
  BY <1>0, <1>7, WaitForm, WaitExchange
<1>8. Goal
  <2> HIDE DEF Goal
  <2>1. QED
    BY <1>1, <1>2, <1>3, <1>4, <1>5, <1>6, <1>7, Zenon DEF Next, MessageHandler, RequestMonitor
<1>9. QED
  BY <1>8 DEF Exchange

\* The response queue of a side with one call in progress holds that call's
\* response and nothing else.
LEMMA PopsOwn ==
  ASSUME NEW s, Sole(s), Exchange(s), BackedInv, NEW t \in Callers, SideOf(t) = s, pc[t] = "pop"
  PROVE  Len(responseQueue[s]) = 1 /\ responseQueue[s][1].id = IdOf(t)
<1>0. s \in Side /\ FormInv /\ ThreadInv
  BY DEF Sole, Exchange
<1>1. Caller(s) = t
  BY <1>0, CallerInside DEF Inside
<1>2. Len(responseQueue[s]) >= 1
  BY <1>0, PopFinds
<1>3. QueueOf(s, "Response") = responseQueue[s]
  BY DEF QueueOf
<1>4. Len(responseQueue[s]) <= 1
  <2>1. PICK n : n = Len(responseQueue[s])
    OBVIOUS
  <2>2. n \in Nat /\ n <= Leg(s, "Response")
    BY <1>0, <1>3, <2>1, LegForm DEF Leg
  <2>3. Leg(s, "Response") <= Coming(s)
    BY <1>0, CountsOf DEF CountsInv, Coming
  <2>4. Coming(s) <= 1
    BY <1>0, CountsOf DEF CountsInv, OneMessage, Exchange
  <2>5. QED
    BY <1>0, <2>1, <2>2, <2>3, <2>4, CountsOf DEF CountsInv
<1>5. MessagesOf(responseQueue[s], IdOf(t))
  BY <1>1, <1>3 DEF Exchange, OwnMessage, LegOf
<1>6. Len(responseQueue[s]) = 1
  <2>1. PICK n : n = Len(responseQueue[s])
    OBVIOUS
  <2>2. n \in Nat /\ n >= 1 /\ n <= 1
    BY <1>0, <1>2, <1>3, <1>4, <2>1, LegForm
  <2>3. n = 1
    BY <2>2
  <2>4. QED
    BY <2>1, <2>3
<1>7. QED
  BY <1>5, <1>6 DEF MessagesOf

\* What SendAndGetResponse pops on the agent, under _mutex, is the response to
\* the request the same call wrote, and nothing else is queued.
THEOREM AgentRepliesAreOwn == Spec => []AgentReplyIsOwn
<1> DEFINE I == BackedInv /\ Exchange("agent")
<1>1. Sole("agent") /\ "agent" \in Side
  BY DEF Sole, Side
<1>2. Init => I
  BY <1>1, BackedInit, ExchangeInit
<1>3. I /\ [Next]_vars => I'
  BY <1>1, BackedStep, ExchangeStep
<1>4. I => AgentReplyIsOwn
  <2>1. \A t \in AgentCallers : t \in Callers /\ SideOf(t) = "agent"
    BY DEF Callers, SideOf
  <2>2. QED
    BY <1>1, <2>1, PopsOwn DEF AgentReplyIsOwn
<1>5. QED
  BY <1>2, <1>3, <1>4, PTL DEF Spec

\* The same for the host, whose SendAndGetResponse takes no lock, as long as
\* only its request processor, running a plugin's Invoke, calls the agent.
THEOREM HostRepliesAreOwn ==
  ASSUME HostCallers = {}
  PROVE  Spec => []HostReplyIsOwn
<1> DEFINE I == BackedInv /\ Exchange("host")
<1>1. Sole("host") /\ "host" \in Side
  BY DEF Sole, Side
<1>2. Init => I
  BY <1>1, BackedInit, ExchangeInit
<1>3. I /\ [Next]_vars => I'
  BY <1>1, BackedStep, ExchangeStep
<1>4. I => HostReplyIsOwn
  <2>1. \A t \in HostCallers \cup {HostRP} : t \in Callers /\ SideOf(t) = "host"
    BY ThreadsDistinct DEF Callers, SideOf, RequestProcessors
  <2>2. QED
    BY <1>1, <2>1, PopsOwn DEF HostReplyIsOwn
<1>5. QED
  BY <1>2, <1>3, <1>4, PTL DEF Spec

-----------------------------------------------------------------------------
(* What packets add up to, and the types *)

\* A set of numbers has a least one.
LEMMA Least ==
  ASSUME NEW T, T \subseteq Nat, T # {}
  PROVE  \E x \in T : \A y \in T : x <= y
<1>1. PICK x \in T : \A y \in T : ~ (<<y, x>> \in OpToRel(<, Nat))
  BY NatLessThanWellFounded, WFMin
<1>2. \A y \in T : ~(y < x)
  BY <1>1 DEF OpToRel
<1>3. QED
  BY <1>2

SumsUp(ps, n, f) == /\ f \in [0 .. n -> Nat] /\ f[0] = 0
                    /\ \A i \in 1 .. n : f[i] = f[i - 1] + ps[i].payloadSize

LEMMA PayloadAddsUp ==
  ASSUME NEW ps, Len(ps) \in Nat, NEW f, SumsUp(ps, Len(ps), f)
  PROVE  PayloadOf(ps) = f[Len(ps)]
<1> DEFINE n == Len(ps)
           Sizes_(g) == [i \in 0 .. n |-> IF i = 0 THEN 0 ELSE g[i - 1] + ps[i].payloadSize]
           size == CHOOSE g : g = Sizes_(g)
<1>1. f = Sizes_(f)
  BY DEF SumsUp
<1>2. size = Sizes_(size)
  <2> HIDE DEF Sizes_
  <2> QED
    BY <1>1, Zenon
<1>3. PayloadOf(ps) = size[n]
  BY DEF PayloadOf
<1> HIDE DEF size
<1>4. \A i \in 0 .. n : size[i] = IF i = 0 THEN 0 ELSE size[i - 1] + ps[i].payloadSize
  BY <1>2
<1> DEFINE T == {i \in 0 .. n : size[i] # f[i]}
<1>5. T = {}
  <2>1. SUFFICES ASSUME T # {} PROVE FALSE
    OBVIOUS
  <2>2. PICK x \in T : \A y \in T : x <= y
    <3>1. T \subseteq Nat
      OBVIOUS
    <3> HIDE DEF T
    <3> QED
      BY <2>1, <3>1, Least
  <2>3. x # 0
    BY <1>4 DEF SumsUp
  <2>4. x - 1 \in 0 .. n /\ x - 1 \notin T
    BY <2>2, <2>3
  <2>5. size[x - 1] = f[x - 1]
    BY <2>4
  <2>6. size[x] = f[x]
    BY <1>4, <2>3, <2>5 DEF SumsUp
  <2> QED
    BY <2>6
<1>6. QED
  BY <1>3, <1>5

\* Division rounds down.
LEMMA Divided ==
  ASSUME NEW a \in Nat, NEW b \in Nat \ {0}
  PROVE  /\ a \div b \in Nat /\ (a \div b) * b <= a /\ a < (a \div b + 1) * b
<1>1. a \div b \in Int /\ a % b \in 0 .. b - 1 /\ a = b * (a \div b) + (a % b)
  OBVIOUS
<1>2. a \div b \in Nat
  OBVIOUS
<1> QED
  BY <1>1, <1>2, SMTT(30)

LEMMA Multiples ==
  ASSUME NEW k \in Nat, NEW j \in Nat, NEW b \in Nat, k <= j
  PROVE  k * b \in Nat /\ k * b <= j * b
<1>1. PICK d \in Nat : j = k + d
  <2>1. j - k \in Nat /\ j = k + (j - k)
    OBVIOUS
  <2> QED
    BY <2>1
<1>2. k * b \in Nat /\ d * b \in Nat /\ (k + d) * b = k * b + d * b
  OBVIOUS
<1> QED
  BY <1>1, <1>2

\* The sizes of a message's packets, each a full one but the last.
LEMMA Portions ==
  ASSUME NEW size \in Nat
  PROVE  LET n == PacketCount(size)
         IN  /\ n \in Nat \ {0}
             /\ \A i \in 1 .. n - 1 : PayloadSize(size, i - 1) = MaxPayloadSize
             /\ PayloadSize(size, n - 1) = size - (n - 1) * MaxPayloadSize
             /\ PayloadSize(size, n - 1) \in 0 .. MaxPayloadSize
             /\ (n - 1) * MaxPayloadSize \in Nat
<1> DEFINE b == MaxPayloadSize
           k == size \div b
<1>1. b \in Nat \ {0}
  BY BoundsPositive
<1>2. k \in Nat /\ k * b <= size /\ size < (k + 1) * b
  BY <1>1, Divided
<1>3. k * b \in Nat /\ (k + 1) * b = k * b + b
  BY <1>1, <1>2
<1>4. ASSUME NEW i \in 1 .. k PROVE size - (i - 1) * b >= b /\ (i - 1) * b \in Nat
  <2>1. i * b \in Nat /\ i * b <= k * b
    BY <1>1, <1>2, Multiples
  <2>2. (i - 1) * b = i * b - b
    BY <1>1, <1>2
  <2>3. (i - 1) * b \in Nat
    BY <1>1, <1>2, Multiples
  <2> QED
    BY <1>1, <1>2, <1>3, <2>1, <2>2, <2>3
<1>5. size - k * b \in 0 .. b /\ size - k * b < b
  BY <1>1, <1>2, <1>3
<1> HIDE DEF k, b
<1>6. PacketCount(size) = k + 1
  BY DEF PacketCount, k, b
<1>7. \A i \in 1 .. k : PayloadSize(size, i - 1) = b
  BY <1>1, <1>4 DEF PayloadSize, b
<1>8. PayloadSize(size, k) = size - k * b
  BY <1>1, <1>5 DEF PayloadSize, b
<1>9. k + 1 \in Nat \ {0} /\ (k + 1) - 1 = k
  BY <1>2
<1> HIDE DEF PacketCount, PayloadSize
<1> QED
  BY <1>3, <1>5, <1>6, <1>7, <1>8, <1>9 DEF b

\* Each packet of a message.
LEMMA PacketTypes ==
  ASSUME NEW m \in Message
  PROVE  LET q == MessageToPackets(m)
             n == PacketCount(m.size)
         IN  /\ n \in Nat \ {0} /\ q \in Seq(Packet) /\ Len(q) = n /\ DOMAIN q = 1 .. n
             /\ \A i \in 1 .. n :
                  /\ q[i].msg = m /\ q[i].index = i - 1 /\ q[i].count = n
                  /\ q[i].payloadSize = PayloadSize(m.size, i - 1)
<1> DEFINE q == MessageToPackets(m)
           n == PacketCount(m.size)
<1>1. m.size \in Nat /\ MaxPayloadSize \in Nat
  BY BoundsPositive DEF Message
<1>2. /\ n \in Nat \ {0}
      /\ \A i \in 1 .. n : PayloadSize(m.size, i - 1) \in 0 .. MaxPayloadSize
  <2>1. /\ n \in Nat \ {0}
        /\ \A i \in 1 .. n - 1 : PayloadSize(m.size, i - 1) = MaxPayloadSize
        /\ PayloadSize(m.size, n - 1) \in 0 .. MaxPayloadSize
    BY <1>1, Portions
  <2>2. \A i \in 1 .. n : i \in 1 .. n - 1 \/ i - 1 = n - 1
    BY <2>1
  <2> HIDE DEF n
  <2>3. ASSUME NEW i \in 1 .. n PROVE PayloadSize(m.size, i - 1) \in 0 .. MaxPayloadSize
    <3>1. CASE i \in 1 .. n - 1
      BY <1>1, <2>1, <3>1
    <3>2. CASE i - 1 = n - 1
      BY <2>1, <3>2
    <3> QED
      BY <2>2, <3>1, <3>2
  <2> QED
    BY <2>1, <2>3
<1> HIDE DEF n
<1>3. q = [i \in 1 .. n |-> [msg |-> m, index |-> i - 1, count |-> n,
                             payloadSize |-> PayloadSize(m.size, i - 1)]]
  BY DEF MessageToPackets, n
<1> HIDE DEF q
<1>4. ASSUME NEW i \in 1 .. n
      PROVE  /\ q[i] \in Packet /\ q[i].msg = m /\ q[i].index = i - 1 /\ q[i].count = n
             /\ q[i].payloadSize = PayloadSize(m.size, i - 1)
  <2>1. i - 1 \in Nat /\ n \in Nat /\ i - 1 < n
    BY <1>2
  <2>2. PayloadSize(m.size, i - 1) \in 0 .. MaxPayloadSize
    BY <1>2
  <2> HIDE DEF PayloadSize, Message
  <2> QED
    BY <1>3, <2>1, <2>2 DEF Packet
<1>5. q \in Seq(Packet) /\ Len(q) = n /\ DOMAIN q = 1 .. n
  BY <1>2, <1>3, <1>4
<1> QED
  BY <1>2, <1>4, <1>5 DEF q, n

\* Their payloads add up to the message's size.
LEMMA PacketsAddUp ==
  ASSUME NEW m \in Message
  PROVE  PayloadOf(MessageToPackets(m)) = m.size
<1> DEFINE q == MessageToPackets(m)
           n == PacketCount(m.size)
           f == [i \in 0 .. n |-> IF i = n THEN m.size ELSE i * MaxPayloadSize]
<1>0. m.size \in Nat /\ MaxPayloadSize \in Nat
  BY BoundsPositive DEF Message
<1>1. /\ n \in Nat \ {0} /\ Len(q) = n
      /\ \A i \in 1 .. n : q[i].payloadSize = PayloadSize(m.size, i - 1)
  BY PacketTypes
<1>2. /\ \A i \in 1 .. n - 1 : PayloadSize(m.size, i - 1) = MaxPayloadSize
      /\ PayloadSize(m.size, n - 1) = m.size - (n - 1) * MaxPayloadSize
      /\ (n - 1) * MaxPayloadSize \in Nat
  BY <1>0, Portions
<1> HIDE DEF q, n
<1>3. f \in [0 .. n -> Nat] /\ f[0] = 0
  <2>1. \A i \in 0 .. n : i * MaxPayloadSize \in Nat
    BY <1>0, <1>1, Multiples
  <2>2. 0 * MaxPayloadSize = 0
    BY <1>0
  <2> QED
    BY <1>0, <1>1, <2>1, <2>2
<1>4. ASSUME NEW i \in 1 .. n PROVE f[i] = f[i - 1] + q[i].payloadSize
  <2>1. i - 1 \in 0 .. n /\ i - 1 # n /\ i \in 0 .. n
    BY <1>1
  <2>2. f[i - 1] = (i - 1) * MaxPayloadSize
    BY <2>1
  <2>3. CASE i = n
    BY <1>0, <1>1, <1>2, <2>1, <2>2, <2>3
  <2>4. CASE i # n
    <3>1. i \in 1 .. n - 1 /\ q[i].payloadSize = MaxPayloadSize
      BY <1>1, <1>2, <2>4
    <3>2. i * MaxPayloadSize = (i - 1) * MaxPayloadSize + MaxPayloadSize
      BY <1>0, <1>1, <3>1
    <3> QED
      BY <2>1, <2>2, <2>4, <3>1, <3>2
  <2> QED
    BY <2>3, <2>4
<1>5. SumsUp(q, n, f)
  <2> HIDE DEF f
  <2> QED
    BY <1>3, <1>4 DEF SumsUp
<1>6. f[n] = m.size
  BY <1>1
<1> HIDE DEF f
<1>7. PayloadOf(q) = f[n]
  BY <1>1, <1>5, PayloadAddsUp
<1> QED
  BY <1>6, <1>7 DEF q

\* Any packets' payloads add up to a size.
LEMMA PayloadIsSize ==
  ASSUME NEW ps \in Seq(Packet)
  PROVE  PayloadOf(ps) \in Nat
<1> DEFINE n == Len(ps)
           T == {k \in 0 .. n : \A f : ~SumsUp(ps, k, f)}
<1>1. n \in Nat /\ \A i \in 1 .. n : ps[i].payloadSize \in Nat
  <2>1. \A i \in 1 .. n : ps[i] \in Packet
    OBVIOUS
  <2> QED
    BY <2>1, BoundsPositive DEF Packet
<1> HIDE DEF n
<1>2. T = {}
  <2>1. SUFFICES ASSUME T # {} PROVE FALSE
    OBVIOUS
  <2>2. PICK k \in T : \A y \in T : k <= y
    <3>1. T \subseteq Nat
      BY <1>1
    <3> HIDE DEF T
    <3> QED
      BY <2>1, <3>1, Least
  <2>3. k # 0
    <3>1. SumsUp(ps, 0, [i \in 0 .. 0 |-> 0])
      BY DEF SumsUp
    <3> QED
      BY <2>2, <3>1
  <2>4. k - 1 \in 0 .. n /\ k - 1 \notin T
    BY <1>1, <2>2, <2>3
  <2>5. PICK f : SumsUp(ps, k - 1, f)
    BY <2>4
  <2> DEFINE g == [i \in 0 .. k |-> IF i = k THEN f[k - 1] + ps[k].payloadSize ELSE f[i]]
  <2>6. SumsUp(ps, k, g)
    <3>1. k \in 1 .. n /\ ps[k].payloadSize \in Nat
      BY <1>1, <2>3, <2>4
    <3>2. f \in [0 .. k - 1 -> Nat] /\ f[0] = 0
          /\ \A i \in 1 .. k - 1 : f[i] = f[i - 1] + ps[i].payloadSize
      BY <2>5 DEF SumsUp
    <3>3. g \in [0 .. k -> Nat] /\ g[0] = 0
      BY <1>1, <3>1, <3>2
    <3>4. ASSUME NEW i \in 1 .. k PROVE g[i] = g[i - 1] + ps[i].payloadSize
      <4>1. i \in 0 .. k /\ i - 1 \in 0 .. k /\ i - 1 # k
        BY <1>1, <3>1
      <4>2. g[i - 1] = f[i - 1]
        BY <4>1
      <4>3. CASE i = k
        BY <4>1, <4>2, <4>3
      <4>4. CASE i # k
        BY <1>1, <3>1, <3>2, <4>1, <4>2, <4>4
      <4> QED
        BY <4>3, <4>4
    <3> HIDE DEF g
    <3> QED
      BY <3>3, <3>4 DEF SumsUp
  <2> HIDE DEF g
  <2> QED
    BY <2>2, <2>6
<1>3. PICK f : SumsUp(ps, n, f)
  BY <1>1, <1>2
<1>4. PayloadOf(ps) = f[n]
  BY <1>1, <1>3, PayloadAddsUp DEF n
<1> QED
  BY <1>1, <1>3, <1>4 DEF SumsUp

\* Whatever is read, a message is made of it.
LEMMA AssembledType ==
  ASSUME NEW ps \in Seq(Packet), ps # << >>
  PROVE  PacketsToMessage(ps) \in Message
<1>1. ps[1] \in Packet /\ ps[1].msg \in Message
  <2>1. ps[1] \in Packet
    OBVIOUS
  <2> QED
    BY <2>1 DEF Packet
<1>2. PayloadOf(ps) \in Nat
  BY PayloadIsSize
<1> DEFINE m == ps[1].msg
           size == PayloadOf(ps)
           whole == \A i \in DOMAIN ps : ps[i].msg = m /\ ps[i].index = i - 1
<1>3. PacketsToMessage(ps) =
        IF ps[1].index = 0
        THEN [m EXCEPT !.size = size, !.intact = /\ @ /\ size = m.size /\ whole]
        ELSE [m EXCEPT !.type = "Undefined", !.intact = FALSE]
  BY DEF PacketsToMessage
<1> HIDE DEF m, size, whole
<1>4. m \in Message /\ size \in Nat
  BY <1>1, <1>2 DEF m, size
<1>5. [m EXCEPT !.size = size, !.intact = /\ @ /\ size = m.size /\ whole] \in Message
  BY <1>4 DEF Message
<1>6. [m EXCEPT !.type = "Undefined", !.intact = FALSE] \in Message
  BY <1>4 DEF Message, MessageType
<1> QED
  BY <1>3, <1>5, <1>6

\* A request processor that works has a message to work on.
TypeInv ==
    /\ TypeOK
    /\ \A r \in RequestProcessors : pc[r] = "process" \/ Inside(r) => work[r] \in Message

LEMMA TypesStart == Init => TypeInv
  BY BoundsPositive DEF Init, TypeInv, TypeOK, Inside, RequestProcessors, Threads, Callers

LEMMA TypesKept ==
  ASSUME TypeInv, FormInv, ThreadInv, [Next]_vars
  PROVE  TypeInv'
<1>0. /\ TypeOK
      /\ \A r \in RequestProcessors : pc[r] = "process" \/ Inside(r) => work[r] \in Message
      /\ \A s \in Side : Peer(s) \in Side
      /\ \A t \in Threads : SideOf(t) \in Side
      /\ Callers \subseteq Threads /\ RequestProcessors \subseteq Threads
  BY ThreadsOf DEF TypeInv
<1> DEFINE Working == \A r \in RequestProcessors :
                        pc'[r] = "process" \/ Inside(r)' => work'[r] \in Message
<1>1. ASSUME NEW t \in Callers, StartCall(t) PROVE TypeInv'
  <2>1. PICK n \in Sizes :
          out' = [out EXCEPT ![t] = MessageToPackets(
                    [type |-> "Request", id |-> <<t, calls'[t]>>, size |-> n, intact |-> TRUE])]
    BY <1>1 DEF StartCall
  <2>2. /\ calls' = [calls EXCEPT ![t] = (@ + 1) % CallIds]
        /\ pc[t] = Base(t) /\ pc' = [pc EXCEPT ![t] = "write"]
        /\ mutex' = IF t \in AgentCallers THEN t ELSE mutex
        /\ UNCHANGED <<work, sideVars>>
    BY <1>1 DEF StartCall
  <2>3. calls' \in [Callers -> 0 .. CallIds - 1]
    <3>1. \A k \in Nat : (k + 1) % CallIds \in 0 .. CallIds - 1
      BY BoundsPositive
    <3> QED
      BY <1>0, <2>2, <3>1 DEF TypeOK
  <2>4. [type |-> "Request", id |-> <<t, calls'[t]>>, size |-> n, intact |-> TRUE] \in Message
    BY <2>3, BoundsPositive DEF Message, MessageType
  <2>5. out' \in [Threads -> Seq(Packet)]
    BY <1>0, <2>1, <2>4, PacketTypes DEF TypeOK
  <2>6. Working
    BY <1>0, <2>2, ThreadsDistinct DEF TypeOK, Inside, Base, Callers, RequestProcessors
  <2>7. mutex' \in AgentCallers \cup {NoThread}
    BY <1>0, <2>2 DEF TypeOK
  <2> QED
    BY <1>0, <2>2, <2>3, <2>5, <2>6, <2>7 DEF TypeOK, TypeInv, sideVars
<1>2. ASSUME NEW t \in Threads, WritePacket(t) PROVE TypeInv'
  <2> DEFINE s == Peer(SideOf(t))
  <2>1. /\ pc[t] \in {"write", "answer"} /\ s \in Side
        /\ pipe' = [pipe EXCEPT ![s] = Append(@, Head(out[t]))]
        /\ out' = [out EXCEPT ![t] = Tail(@)]
        /\ pc' = IF Len(out[t]) > 1 THEN pc
                 ELSE [pc EXCEPT ![t] = IF @ = "write" THEN "wait" ELSE "listen"]
        /\ UNCHANGED <<calls, work, mutex, partial, raise, requestQueue, responseQueue,
                       requestNotification, responseNotification>>
    BY <1>0, <1>2 DEF WritePacket
  <2>2. out[t] # << >> /\ out[t] \in Seq(Packet)
    BY <1>0, <2>1 DEF ThreadInv, TypeOK
  <2> HIDE DEF s
  <2>3. pipe' \in [Side -> Seq(Packet)] /\ out' \in [Threads -> Seq(Packet)]
    <3>1. Head(out[t]) \in Packet /\ Tail(out[t]) \in Seq(Packet)
      BY <2>2
    <3> QED
      BY <1>0, <2>1, <3>1 DEF TypeOK
  <2>4. Working
    BY <1>0, <2>1 DEF TypeOK, Inside
  <2>5. pc' \in [Threads -> {"idle", "write", "wait", "pop", "listen", "take", "process",
                             "answer"}]
    BY <1>0, <2>1 DEF TypeOK
  <2> QED
    BY <1>0, <2>1, <2>3, <2>4, <2>5 DEF TypeOK, TypeInv
<1>3. ASSUME NEW s \in Side, ReadPacket(s) PROVE TypeInv'
  <2> DEFINE ps == Append(partial[s], Head(pipe[s]))
             m == PacketsToMessage(ps)
             done == LastPacket(Head(pipe[s]))
  <2>1. /\ pipe[s] # << >> /\ pipe' = [pipe EXCEPT ![s] = Tail(@)]
        /\ partial' = [partial EXCEPT ![s] = IF done THEN << >> ELSE ps]
        /\ raise' = [raise EXCEPT ![s] = IF done /\ m.type # "Undefined" THEN m.type ELSE "none"]
        /\ requestQueue' = IF done /\ m.type = "Request"
                           THEN [requestQueue EXCEPT ![s] = Append(@, m)] ELSE requestQueue
        /\ responseQueue' = IF done /\ m.type = "Response"
                            THEN [responseQueue EXCEPT ![s] = Append(@, m)] ELSE responseQueue
        /\ UNCHANGED <<threadVars, requestNotification, responseNotification>>
    BY <1>3 DEF ReadPacket
  <2>2. /\ Head(pipe[s]) \in Packet /\ Tail(pipe[s]) \in Seq(Packet)
        /\ ps \in Seq(Packet) /\ ps # << >>
    <3>1. pipe[s] \in Seq(Packet) /\ partial[s] \in Seq(Packet)
      BY <1>0 DEF TypeOK
    <3>2. Head(pipe[s]) \in Packet /\ Tail(pipe[s]) \in Seq(Packet)
      BY <2>1, <3>1
    <3> QED
      BY <3>1, <3>2, AppendProperties
  <2> HIDE DEF ps, done
  <2>3. m \in Message
    BY <2>2, AssembledType
  <2> HIDE DEF m
  <2>4. pipe' \in [Side -> Seq(Packet)] /\ partial' \in [Side -> Seq(Packet)]
    BY <1>0, <2>1, <2>2 DEF TypeOK
  <2>5. raise' \in [Side -> {"none", "Request", "Response"}]
    BY <1>0, <2>1, <2>3 DEF TypeOK, Message, MessageType
  <2>6. requestQueue' \in [Side -> Seq(Message)] /\ responseQueue' \in [Side -> Seq(Message)]
    BY <1>0, <2>1, <2>3 DEF TypeOK
  <2> QED
    BY <1>0, <2>1, <2>4, <2>5, <2>6 DEF TypeOK, TypeInv, threadVars, Inside
<1>4. ASSUME NEW t \in Callers, PopResponse(t) PROVE TypeInv'
  <2> DEFINE s == SideOf(t)
  <2>1. /\ pc[t] = "pop" /\ s \in Side
        /\ responseQueue' = [responseQueue EXCEPT ![s] = Rest(@)]
        /\ mutex' = IF t \in AgentCallers THEN NoThread ELSE mutex
        /\ pc' = [pc EXCEPT ![t] = Base(t)]
        /\ UNCHANGED <<out, calls, work, pipe, partial, raise, requestQueue,
                       requestNotification, responseNotification>>
    BY <1>0, <1>4 DEF PopResponse
  <2> HIDE DEF s
  <2>2. responseQueue' \in [Side -> Seq(Message)]
    BY <1>0, <2>1 DEF TypeOK, Rest
  <2>3. Working
    BY <1>0, <2>1 DEF TypeOK, Inside, Base
  <2>4. mutex' \in AgentCallers \cup {NoThread}
    BY <1>0, <2>1 DEF TypeOK
  <2> QED
    BY <1>0, <2>1, <2>2, <2>3, <2>4 DEF TypeOK, TypeInv, Base
<1>5. ASSUME NEW r \in RequestProcessors, TakeRequest(r) PROVE TypeInv'
  <2> DEFINE s == SideOf(r)
             q == requestQueue[s]
  <2>1. /\ s \in Side /\ work' = [work EXCEPT ![r] = Front(q)]
        /\ requestQueue' = [requestQueue EXCEPT ![s] = Rest(q)]
        /\ pc' = [pc EXCEPT ![r] = IF q = << >> THEN "listen" ELSE "process"]
        /\ UNCHANGED <<out, calls, mutex, pipe, partial, raise,
                       responseQueue, requestNotification, responseNotification>>
    BY <1>0, <1>5 DEF TakeRequest
  <2>2. q \in Seq(Message)
    BY <1>0, <2>1 DEF TypeOK
  <2> HIDE DEF s, q
  <2>3. requestQueue' \in [Side -> Seq(Message)]
    BY <1>0, <2>1, <2>2 DEF TypeOK, Rest
  <2>4. Front(q) \in Message \cup {NoMessage} /\ (q # << >> => Front(q) \in Message)
    BY <2>2 DEF Front
  <2>5. work' \in [RequestProcessors -> Message \cup {NoMessage}] /\ Working
    BY <1>0, <2>1, <2>4 DEF TypeOK, Inside
  <2> QED
    BY <1>0, <2>1, <2>3, <2>5 DEF TypeOK, TypeInv
<1>6. ASSUME NEW r \in RequestProcessors, ProcessRequestMessage(r) PROVE TypeInv'
  <2>1. PICK n \in Sizes :
          out' = [out EXCEPT ![r] =
                    MessageToPackets([work[r] EXCEPT !.type = "Response", !.size = n])]
    BY <1>6 DEF ProcessRequestMessage
  <2>2. /\ pc[r] = "process" /\ pc' = [pc EXCEPT ![r] = "answer"]
        /\ UNCHANGED <<calls, work, mutex, sideVars>>
    BY <1>6 DEF ProcessRequestMessage
  <2>3. [work[r] EXCEPT !.type = "Response", !.size = n] \in Message
    <3>1. work[r] \in Message /\ n \in Nat
      BY <1>0, <2>2, BoundsPositive
    <3> QED
      BY <3>1 DEF Message, MessageType
  <2>4. out' \in [Threads -> Seq(Packet)]
    BY <1>0, <2>1, <2>3, PacketTypes DEF TypeOK
  <2>5. Working
    BY <1>0, <2>2 DEF TypeOK, Inside
  <2> QED
    BY <1>0, <2>2, <2>4, <2>5 DEF TypeOK, TypeInv, sideVars
<1>7. ASSUME \/ \E t \in Callers : WaitResponse(t)
             \/ \E v \in Side : SetNotification(v)
             \/ \E r \in RequestProcessors : WaitRequest(r)
             \/ UNCHANGED vars
      PROVE  TypeInv'
  <2>1. /\ UNCHANGED <<out, calls, work, mutex, pipe, partial, requestQueue, responseQueue>>
        /\ \A u \in Threads : (Inside(u)' <=> Inside(u)) /\ (pc'[u] = "process" <=> pc[u] = "process")
    BY <1>7, WaitForm
  <2>2. Working
    BY <1>0, <2>1
  <2>3. /\ pc' \in [Threads -> {"idle", "write", "wait", "pop", "listen", "take", "process",
                                "answer"}]
        /\ raise' \in [Side -> {"none", "Request", "Response"}]
        /\ requestNotification' \in [Side -> BOOLEAN] /\ responseNotification' \in [Side -> BOOLEAN]
    BY <1>0, <1>7 DEF WaitResponse, SetNotification, WaitRequest, TypeOK, vars, threadVars, sideVars
  <2> QED
    BY <1>0, <2>1, <2>2, <2>3 DEF TypeOK, TypeInv
<1>8. QED
  BY <1>1, <1>2, <1>3, <1>4, <1>5, <1>6, <1>7, Zenon DEF Next, MessageHandler, RequestMonitor

\* Every variable of the exchange keeps its type.
THEOREM TransportTypes == Spec => []TypeOK
<1> DEFINE I == BackedInv /\ Exchange("agent") /\ TypeInv
<1>1. Sole("agent") /\ "agent" \in Side
  BY DEF Sole, Side
<1>2. Init => I
  BY <1>1, BackedInit, ExchangeInit, TypesStart
<1>3. I /\ [Next]_vars => I'
  BY <1>1, BackedStep, ExchangeStep, TypesKept DEF Exchange
<1>4. I => TypeOK
  BY DEF TypeInv
<1>5. QED
  BY <1>2, <1>3, <1>4, PTL DEF Spec

-----------------------------------------------------------------------------
(* The request processors' wake-ups *)

\* A request processor that has been woken finds the request it was woken for.
RequestsBacked ==
    \A r \in RequestProcessors :
        Bit(pc[r] = "take") + Bit(requestNotification[SideOf(r)])
          + Bit(raise[SideOf(r)] = "Request") <= Len(requestQueue[SideOf(r)])

RequestsInv ==
    /\ raise = [s \in Side |-> raise[s]]
    /\ requestNotification \in [Side -> BOOLEAN]
    /\ RequestsBacked

\* The terms of the count are numbers.
LEMMA RequestsTerms ==
  ASSUME FormInv, NEW r \in RequestProcessors
  PROVE  /\ SideOf(r) \in Side /\ r \in Threads
         /\ Bit(pc[r] = "take") \in {0, 1} /\ Bit(requestNotification[SideOf(r)]) \in {0, 1}
         /\ Bit(raise[SideOf(r)] = "Request") \in {0, 1}
         /\ Len(requestQueue[SideOf(r)]) \in Nat
<1>1. SideOf(r) \in Side /\ r \in Threads
  BY ThreadsOf
<1>2. IsQueue(requestQueue[SideOf(r)])
  BY <1>1 DEF FormInv, IsMessages
<1>3. QED
  BY <1>1, <1>2 DEF Bit, IsQueue

\* Steps that neither wake a request processor nor feed it.
LEMMA RequestsUnmoved ==
  ASSUME RequestsInv, UNCHANGED <<raise, requestNotification, requestQueue>>,
         \A r \in RequestProcessors : pc'[r] = "take" <=> pc[r] = "take"
  PROVE  RequestsInv'
<1>1. \A r \in RequestProcessors : Bit(pc'[r] = "take") = Bit(pc[r] = "take")
  BY DEF Bit
<1>2. RequestsBacked'
  BY <1>1 DEF RequestsInv, RequestsBacked
<1>3. QED
  BY <1>2 DEF RequestsInv

\* Every step keeps the request processors' wake-ups backed.
LEMMA RequestsStep ==
  ASSUME FormInv, ThreadInv, BackedInv, RequestsInv, [Next]_vars
  PROVE  RequestsInv'
<1>1. ASSUME NEW t \in Callers, StartCall(t) PROVE RequestsInv'
  <2>1. \A r \in RequestProcessors : pc'[r] = "take" <=> pc[r] = "take"
    BY <1>1, StartCallForm, ThreadsOf DEF Base
  <2>2. UNCHANGED <<raise, requestNotification, requestQueue>>
    BY <1>1 DEF StartCall, sideVars
  <2>3. QED
    BY <2>1, <2>2, RequestsUnmoved
<1>2. ASSUME NEW t \in Callers, WaitResponse(t) \/ PopResponse(t) PROVE RequestsInv'
  <2>1. /\ t \in Threads /\ pc[t] # "take"
        /\ \E l \in Points \ {"take"} : pc' = [pc EXCEPT ![t] = l]
        /\ UNCHANGED <<raise, requestNotification, requestQueue>>
    BY <1>2, ThreadsOf DEF WaitResponse, PopResponse, Points, Base
  <2>2. \A r \in RequestProcessors : pc'[r] = "take" <=> pc[r] = "take"
    BY <2>1, ThreadsOf DEF FormInv
  <2>3. QED
    BY <2>1, <2>2, RequestsUnmoved
<1>3. ASSUME NEW t \in Threads, WritePacket(t) PROVE RequestsInv'
  <2>1. /\ pc[t] # "take" /\ \/ pc' = pc
                             \/ \E l \in Points \ {"take"} : pc' = [pc EXCEPT ![t] = l]
        /\ UNCHANGED <<raise, requestNotification, requestQueue>>
    BY <1>3 DEF WritePacket, Points
  <2>2. \A r \in RequestProcessors : pc'[r] = "take" <=> pc[r] = "take"
    BY <2>1, ThreadsOf DEF FormInv
  <2>3. QED
    BY <2>1, <2>2, RequestsUnmoved
<1>4. ASSUME NEW s \in Side, ReadPacket(s) PROVE RequestsInv'
  <2> DEFINE m == PacketsToMessage(Append(partial[s], Head(pipe[s])))
             b == LastPacket(Head(pipe[s]))
  <2>1. /\ raise[s] = "none" /\ UNCHANGED <<pc, requestNotification>>
        /\ raise' = [raise EXCEPT ![s] = IF b /\ m.type # "Undefined" THEN m.type ELSE "none"]
        /\ requestQueue' = IF b /\ m.type = "Request"
                           THEN [requestQueue EXCEPT ![s] = Append(@, m)] ELSE requestQueue
    BY <1>4 DEF ReadPacket, threadVars
  <2> HIDE DEF m, b
  <2>2. \A u \in Side \ {s} : raise'[u] = raise[u] /\ requestQueue'[u] = requestQueue[u]
    BY <2>1 DEF RequestsInv, FormInv
  <2>3. raise'[s] = "Request" <=> b /\ m.type = "Request"
    BY <2>1 DEF RequestsInv
  <2>4. requestQueue'[s] = IF b /\ m.type = "Request"
                           THEN Append(requestQueue[s], m) ELSE requestQueue[s]
    BY <2>1 DEF FormInv
  <2>5. /\ Len(requestQueue[s]) \in Nat
        /\ Len(requestQueue'[s]) = Len(requestQueue[s]) + Bit(raise'[s] = "Request")
    <3>1. IsQueue(requestQueue[s])
      BY DEF FormInv, IsMessages
    <3>2. CASE raise'[s] = "Request"
      BY <2>3, <2>4, <3>1, <3>2, QueuePushed DEF Bit
    <3>3. CASE raise'[s] # "Request"
      BY <2>3, <2>4, <3>1, <3>3, QueuePushed DEF Bit
    <3>4. QED
      BY <3>2, <3>3
  <2>6. Bit(raise[s] = "Request") = 0
    BY <2>1 DEF Bit
  <2>7. ASSUME NEW r \in RequestProcessors
        PROVE  Bit(pc[r] = "take") + Bit(requestNotification[SideOf(r)])
                 + Bit(raise'[SideOf(r)] = "Request") <= Len(requestQueue'[SideOf(r)])
    <3>1. Bit(pc[r] = "take") + Bit(requestNotification[SideOf(r)])
            + Bit(raise[SideOf(r)] = "Request") <= Len(requestQueue[SideOf(r)])
      BY DEF RequestsInv, RequestsBacked
    <3>2. CASE SideOf(r) = s
      <4>1. PICK a, c, d, n : /\ a = Bit(pc[r] = "take") /\ c = Bit(requestNotification[s])
                              /\ d = Bit(raise'[s] = "Request") /\ n = Len(requestQueue[s])
        OBVIOUS
      <4>2. a \in Nat /\ c \in Nat /\ d \in Nat /\ n \in Nat /\ a + c + 0 <= n
        BY <2>6, <3>1, <3>2, <4>1, RequestsTerms DEF Bit
      <4>3. a + c + d <= n + d
        BY <4>2
      <4>4. QED
        BY <2>5, <3>2, <4>1, <4>3
    <3>3. CASE SideOf(r) # s
      BY <2>2, <3>1, <3>3, RequestsTerms
    <3>4. QED
      BY <3>2, <3>3
  <2>8. raise' = [u \in Side |-> raise'[u]]
    BY <2>1 DEF RequestsInv
  <2>9. QED
    BY <2>1, <2>7, <2>8 DEF RequestsInv, RequestsBacked
<1>5. ASSUME NEW s \in Side, SetNotification(s) PROVE RequestsInv'
  <2>1. /\ raise' = [raise EXCEPT ![s] = "none"]
        /\ requestNotification' = [requestNotification EXCEPT ![s] = @ \/ raise[s] = "Request"]
        /\ UNCHANGED <<pc, requestQueue>>
    BY <1>5 DEF SetNotification, threadVars
  <2>2. /\ raise'[s] = "none"
        /\ requestNotification'[s] <=> requestNotification[s] \/ raise[s] = "Request"
        /\ \A u \in Side \ {s} : /\ raise'[u] = raise[u]
                                 /\ requestNotification'[u] = requestNotification[u]
    BY <2>1 DEF RequestsInv
  <2>3. ASSUME NEW r \in RequestProcessors
        PROVE  Bit(pc[r] = "take") + Bit(requestNotification'[SideOf(r)])
                 + Bit(raise'[SideOf(r)] = "Request") <= Len(requestQueue[SideOf(r)])
    <3>1. Bit(pc[r] = "take") + Bit(requestNotification[SideOf(r)])
            + Bit(raise[SideOf(r)] = "Request") <= Len(requestQueue[SideOf(r)])
      BY DEF RequestsInv, RequestsBacked
    <3>2. CASE SideOf(r) = s
      <4>1. Bit(raise'[s] = "Request") = 0
        BY <2>2 DEF Bit
      <4>2. Bit(requestNotification'[s]) <=
              Bit(requestNotification[s]) + Bit(raise[s] = "Request")
        BY <2>2 DEF Bit
      <4>3. PICK a, c, c2, d, n :
              /\ a = Bit(pc[r] = "take") /\ c = Bit(requestNotification[s])
              /\ c2 = Bit(requestNotification'[s])
              /\ d = Bit(raise[s] = "Request") /\ n = Len(requestQueue[s])
        OBVIOUS
      <4>4. /\ a \in Nat /\ c \in Nat /\ d \in Nat /\ n \in Nat /\ c2 \in Nat
            /\ a + c + d <= n /\ c2 <= c + d
        <5>1. c2 \in Nat
          BY <4>3 DEF Bit
        <5>2. a \in Nat /\ c \in Nat /\ d \in Nat /\ n \in Nat
          BY <3>2, <4>3, RequestsTerms
        <5>3. a + c + d <= n
          BY <3>1, <3>2, <4>3
        <5>4. c2 <= c + d
          BY <4>2, <4>3
        <5>5. QED
          BY <5>1, <5>2, <5>3, <5>4
      <4>5. a + c2 + 0 <= n
        BY <4>4
      <4>6. QED
        BY <3>2, <4>1, <4>3, <4>5
    <3>3. CASE SideOf(r) # s
      BY <2>2, <3>1, <3>3, RequestsTerms
    <3>4. QED
      BY <3>2, <3>3
  <2>4. raise' = [u \in Side |-> raise'[u]] /\ requestNotification' \in [Side -> BOOLEAN]
    BY <2>1 DEF RequestsInv
  <2>5. QED
    BY <2>1, <2>3, <2>4 DEF RequestsInv, RequestsBacked
<1>6. ASSUME NEW q \in RequestProcessors, WaitRequest(q) PROVE RequestsInv'
  <2>1. /\ pc[q] = "listen" /\ requestNotification[SideOf(q)]
        /\ requestNotification' = [requestNotification EXCEPT ![SideOf(q)] = FALSE]
        /\ pc' = [pc EXCEPT ![q] = "take"]
        /\ UNCHANGED <<raise, requestQueue>>
    BY <1>6 DEF WaitRequest
  <2>2. /\ pc'[q] = "take" /\ \A u \in Threads \ {q} : pc'[u] = pc[u]
        /\ ~requestNotification'[SideOf(q)]
        /\ \A u \in Side \ {SideOf(q)} : requestNotification'[u] = requestNotification[u]
    BY <2>1, RequestsTerms DEF RequestsInv, FormInv
  <2>3. ASSUME NEW r \in RequestProcessors
        PROVE  Bit(pc'[r] = "take") + Bit(requestNotification'[SideOf(r)])
                 + Bit(raise[SideOf(r)] = "Request") <= Len(requestQueue[SideOf(r)])
    <3>1. Bit(pc[r] = "take") + Bit(requestNotification[SideOf(r)])
            + Bit(raise[SideOf(r)] = "Request") <= Len(requestQueue[SideOf(r)])
      BY DEF RequestsInv, RequestsBacked
    <3>2. CASE r = q
      <4>1. /\ Bit(pc[r] = "take") = 0 /\ Bit(requestNotification[SideOf(r)]) = 1
            /\ Bit(pc'[r] = "take") = 1 /\ Bit(requestNotification'[SideOf(r)]) = 0
        BY <2>1, <2>2, <3>2 DEF Bit
      <4>2. QED
        BY <3>1, <4>1
    <3>3. CASE r # q
      <4>1. SideOf(r) # SideOf(q)
        BY <3>3, ThreadsDistinct DEF RequestProcessors, SideOf
      <4>2. QED
        BY <2>2, <3>1, <3>3, <4>1, RequestsTerms
    <3>4. QED
      BY <3>2, <3>3
  <2>4. requestNotification' \in [Side -> BOOLEAN]
    BY <2>1 DEF RequestsInv
  <2>5. QED
    BY <2>1, <2>3, <2>4 DEF RequestsInv, RequestsBacked
<1>7. ASSUME NEW q \in RequestProcessors, TakeRequest(q) PROVE RequestsInv'
  <2>1. /\ pc[q] = "take" /\ pc'[q] # "take" /\ \A u \in Threads \ {q} : pc'[u] = pc[u]
        /\ requestQueue[SideOf(q)] # << >> =>
             requestQueue'[SideOf(q)] = Tail(requestQueue[SideOf(q)])
        /\ \A u \in Side \ {SideOf(q)} : requestQueue'[u] = requestQueue[u]
    BY <1>7, TakeRequestForm
  <2>2. UNCHANGED <<raise, requestNotification>>
    BY <1>7 DEF TakeRequest
  <2>3. ASSUME NEW r \in RequestProcessors
        PROVE  Bit(pc'[r] = "take") + Bit(requestNotification[SideOf(r)])
                 + Bit(raise[SideOf(r)] = "Request") <= Len(requestQueue'[SideOf(r)])
    <3>1. Bit(pc[r] = "take") + Bit(requestNotification[SideOf(r)])
            + Bit(raise[SideOf(r)] = "Request") <= Len(requestQueue[SideOf(r)])
      BY DEF RequestsInv, RequestsBacked
    <3>2. CASE r = q
      <4>1. Bit(pc[r] = "take") = 1 /\ Bit(pc'[r] = "take") = 0
        BY <2>1, <3>2 DEF Bit
      <4>2. PICK c, d, n : /\ c = Bit(requestNotification[SideOf(r)])
                           /\ d = Bit(raise[SideOf(r)] = "Request")
                           /\ n = Len(requestQueue[SideOf(r)])
        OBVIOUS
      <4>3. c \in Nat /\ d \in Nat /\ n \in Nat /\ 1 + c + d <= n
        BY <3>1, <4>1, <4>2, RequestsTerms
      <4>4. n >= 1 /\ 0 + c + d <= n - 1
        BY <4>3
      <4>5. IsQueue(requestQueue[SideOf(r)]) /\ requestQueue[SideOf(r)] # << >>
        BY <4>2, <4>4, RequestsTerms DEF FormInv, IsMessages
      <4>6. Len(requestQueue'[SideOf(r)]) = n - 1
        BY <2>1, <3>2, <4>2, <4>5, QueuePopped
      <4>7. QED
        BY <4>1, <4>2, <4>4, <4>6
    <3>3. CASE r # q
      <4>1. SideOf(r) # SideOf(q)
        BY <3>3, ThreadsDistinct DEF RequestProcessors, SideOf
      <4>2. QED
        BY <2>1, <3>1, <3>3, <4>1, RequestsTerms
    <3>4. QED
      BY <3>2, <3>3
  <2>4. QED
    BY <2>2, <2>3 DEF RequestsInv, RequestsBacked
<1>8. ASSUME NEW q \in RequestProcessors, ProcessRequestMessage(q) PROVE RequestsInv'
  <2>1. \A r \in RequestProcessors : pc'[r] = "take" <=> pc[r] = "take"
    BY <1>8, ProcessForm, ThreadsOf
  <2>2. UNCHANGED <<raise, requestNotification, requestQueue>>
    BY <1>8 DEF ProcessRequestMessage, sideVars
  <2>3. QED
    BY <2>1, <2>2, RequestsUnmoved
<1>9. CASE UNCHANGED vars
  BY <1>9, RequestsUnmoved DEF vars, threadVars, sideVars
<1>10. QED
  BY <1>1, <1>2, <1>3, <1>4, <1>5, <1>6, <1>7, <1>8, <1>9, Zenon
     DEF Next, MessageHandler, RequestMonitor

\* The request processor that has been woken finds a request.
LEMMA TakeFinds ==
  ASSUME FormInv, RequestsInv, NEW r \in RequestProcessors, pc[r] = "take"
  PROVE  requestQueue[SideOf(r)] # << >>
<1>1. Bit(pc[r] = "take") + Bit(requestNotification[SideOf(r)])
        + Bit(raise[SideOf(r)] = "Request") <= Len(requestQueue[SideOf(r)])
  BY DEF RequestsInv, RequestsBacked
<1>2. Bit(pc[r] = "take") = 1
  BY DEF Bit
<1>3. Len(requestQueue[SideOf(r)]) # 0
  BY <1>1, <1>2, RequestsTerms
<1>4. QED
  BY <1>3

-----------------------------------------------------------------------------
(* The synchronous call *)

CallsInv == calls \in [Callers -> 0 .. CallIds - 1]

\* What a request processor still holds of the call it last answered.
WorkInv(s) ==
    LET w == work[Answerer(s)]
    IN  /\ Caller(s) = NoThread =>
             w = NoMessage \/ \E u \in Callers : SideOf(u) = s /\ w.id = IdOf(u)
        /\ Going(s) >= 1 => w = NoMessage \/ w.id # IdOf(Caller(s))
        /\ Coming(s) >= 1 => w # NoMessage /\ w.id = IdOf(Caller(s))
        /\ Serving(s) => w # NoMessage

CallInv ==
    /\ BackedInv /\ TypeInv /\ RequestsInv /\ CallsInv
    /\ \A s \in Side : Exchange(s) /\ WorkInv(s)

PhaseAt(s) ==
    IF work[Answerer(s)] = NoMessage \/ work[Answerer(s)].id # IdOf(Caller(s)) THEN "asked"
    ELSE IF Serving(s) THEN "running" ELSE "answered"

\* The phase says where the message is.
LEMMA PhaseIs ==
  ASSUME HostCallers = {}, ThreadInv, NEW t \in Callers
  PROVE  Phase(t) = IF Caller(SideOf(t)) = t THEN PhaseAt(SideOf(t)) ELSE "idle"
<1> DEFINE s == SideOf(t)
           r == Server(t)
           mine == work[r] # NoMessage /\ work[r].id = IdOf(t)
           runs == pc[r] = "process" \/ (r = HostRP /\ Inside(r))
<1>1. s \in Side /\ Sole(s)
  BY ThreadsOf DEF Sole
<1>2. r = Answerer(s)
  BY ThreadsDistinct DEF Server, Answerer, SideOf, Callers, RequestProcessors
<1>3. Inside(t) <=> Caller(s) = t
  BY <1>1, CallerInside
<1>4. runs <=> Serving(s)
  BY <1>2 DEF Serving, ThreadInv, Inside, Answerer
<1>5. Phase(t) = CASE ~Inside(t) -> "idle"
                   [] Inside(t) /\ ~mine -> "asked"
                   [] Inside(t) /\ mine /\ runs -> "running"
                   [] OTHER -> "answered"
  BY DEF Phase
<1>6. Caller(s) = t =>
        PhaseAt(s) = IF ~mine THEN "asked" ELSE IF runs THEN "running" ELSE "answered"
  BY <1>2, <1>4 DEF PhaseAt
<1> HIDE DEF mine, runs
<1>7. QED
  BY <1>3, <1>5, <1>6

PhasesInv ==
    \A s \in Side :
        /\ Going(s) >= 1 => Caller(s) # NoThread /\ PhaseAt(s) = "asked"
        /\ Serving(s) => Caller(s) # NoThread /\ PhaseAt(s) = "running"
        /\ Coming(s) >= 1 => Caller(s) # NoThread /\ PhaseAt(s) = "answered"

\* One message at a time: the parts of the way exclude each other.
LEMMA Exclusive ==
  ASSUME FormInv, ThreadInv, NEW s \in Side, OneMessage(s)
  PROVE  /\ Going(s) \in Nat /\ Coming(s) \in Nat
         /\ Going(s) >= 1 => Caller(s) # NoThread /\ ~Serving(s) /\ Coming(s) = 0
         /\ Serving(s) => Caller(s) # NoThread /\ Going(s) = 0 /\ Coming(s) = 0
         /\ Coming(s) >= 1 => Caller(s) # NoThread /\ ~Serving(s) /\ Going(s) = 0
<1>1. PICK a, b, c, k : /\ a = Going(s) /\ b = Bit(Serving(s)) /\ c = Coming(s)
                        /\ k = Bit(Caller(s) # NoThread)
  OBVIOUS
<1>2. a \in Nat /\ b \in Nat /\ c \in Nat /\ k \in {0, 1} /\ a + b + c <= k
  BY <1>1, CountsOf DEF CountsInv, OneMessage
<1>3. /\ a >= 1 => k = 1 /\ b = 0 /\ c = 0
      /\ b >= 1 => k = 1 /\ a = 0 /\ c = 0
      /\ c >= 1 => k = 1 /\ a = 0 /\ b = 0
  BY <1>2
<1>4. /\ k = 1 <=> Caller(s) # NoThread
      /\ b = 0 <=> ~Serving(s)
      /\ b >= 1 <=> Serving(s)
  BY <1>1 DEF Bit
<1>5. QED
  BY <1>1, <1>2, <1>3, <1>4

\* Where the message is, the call is in that phase.
LEMMA PhasesOf == CallInv => PhasesInv
<1> SUFFICES ASSUME CallInv, NEW s \in Side
             PROVE  /\ Going(s) >= 1 => Caller(s) # NoThread /\ PhaseAt(s) = "asked"
                    /\ Serving(s) => Caller(s) # NoThread /\ PhaseAt(s) = "running"
                    /\ Coming(s) >= 1 => Caller(s) # NoThread /\ PhaseAt(s) = "answered"
  BY DEF PhasesInv
<1>1. Exchange(s) /\ WorkInv(s) /\ FormInv /\ ThreadInv
  BY DEF CallInv, Exchange
<1>2. Serving(s) => work[Answerer(s)].id = IdOf(Caller(s))
  BY <1>1 DEF Exchange, OwnMessage
<1>3. QED
  BY <1>1, <1>2, Exclusive DEF Exchange, WorkInv, PhaseAt

\* The steps, as moves of the two directions.
AsksBy(s, t) == /\ SideOf(t) = s /\ pc[t] = Base(t) /\ Asks(s, t)
                /\ calls' = [calls EXCEPT ![t] = (@ + 1) % CallIds]
RunsNext(s) == Runs(s) /\ work'[Answerer(s)] # NoMessage /\ calls' = calls
AnswersNext(s) == Answers(s) /\ pc[Answerer(s)] = "process" /\ calls' = calls
ReturnsTo(s, t) == SideOf(t) = s /\ Returns(s, t) /\ calls' = calls

Moves(s) == \/ \E t \in Callers : AsksBy(s, t)
            \/ RunsNext(s)
            \/ AnswersNext(s)
            \/ \E t \in Callers : ReturnsTo(s, t)

\* Every step of the transport leaves both directions alone or moves one.
LEMMA StepMoves ==
  ASSUME HostCallers = {}, CallInv, [Next]_vars
  PROVE  \/ calls' = calls /\ \A s \in Side : Keeps(s)
         \/ \E s \in Side : Moves(s) /\ Keeps(Peer(s))
<1> DEFINE Goal == \/ calls' = calls /\ \A s \in Side : Keeps(s)
                   \/ \E s \in Side : Moves(s) /\ Keeps(Peer(s))
<1>0. /\ FormInv /\ ThreadInv /\ BackedInv /\ RequestsInv /\ TypeInv
      /\ \A s \in Side : Exchange(s) /\ Sole(s) /\ Peer(s) \in Side /\ Peer(s) # s
  BY ThreadsOf DEF CallInv, Exchange, Sole, Side
<1>1. ASSUME NEW t \in Callers, StartCall(t) PROVE Goal
  <2>1. SideOf(t) \in Side
    BY ThreadsOf
  <2>2. Asks(SideOf(t), t) /\ Keeps(Peer(SideOf(t)))
    BY <1>0, <1>1, <2>1, StartExchange
  <2>3. AsksBy(SideOf(t), t)
    BY <1>1, <2>2 DEF AsksBy, StartCall
  <2>4. QED
    BY <2>1, <2>2, <2>3 DEF Moves
<1>2. ASSUME NEW t \in Callers, PopResponse(t) PROVE Goal
  <2>1. SideOf(t) \in Side /\ responseQueue[SideOf(t)] # << >>
    BY <1>0, <1>2, PopFinds, ThreadsOf DEF PopResponse
  <2>2. Returns(SideOf(t), t) /\ Keeps(Peer(SideOf(t)))
    BY <1>0, <1>2, <2>1, PopExchange
  <2>3. ReturnsTo(SideOf(t), t)
    BY <1>2, <2>2 DEF ReturnsTo, PopResponse
  <2>4. QED
    BY <2>1, <2>2, <2>3 DEF Moves
<1>3. ASSUME NEW t \in Threads, WritePacket(t) PROVE Goal
  <2>1. calls' = calls
    BY <1>3 DEF WritePacket
  <2>2. \A s \in Side : Keeps(s)
    BY <1>0, <1>3, WriteExchange
  <2>3. QED
    BY <2>1, <2>2
<1>4. ASSUME NEW v \in Side, ReadPacket(v) PROVE Goal
  <2>1. calls' = calls
    BY <1>4 DEF ReadPacket, threadVars
  <2>2. \A s \in Side : Keeps(s)
    BY <1>0, <1>4, ReadExchange
  <2>3. QED
    BY <2>1, <2>2
<1>5. ASSUME NEW q \in RequestProcessors, TakeRequest(q) PROVE Goal
  <2>1. PICK s \in Side : q = Answerer(s) /\ SideOf(q) = Peer(s) /\ q # Answerer(Peer(s))
    BY ThreadsDistinct DEF RequestProcessors, Answerer, SideOf, Peer, Side, Callers
  <2>2. requestQueue[Peer(s)] # << >>
    BY <1>0, <1>5, <2>1, TakeFinds DEF TakeRequest
  <2>3. Runs(s) /\ work'[q] = Head(requestQueue[Peer(s)])
    BY <1>0, <1>5, <2>1, <2>2, TakeExchange
  <2>4. Keeps(Peer(s))
    BY <1>0, <1>5, <2>1, TakeExchange
  <2>5. work'[q] # NoMessage
    <3>1. requestQueue[Peer(s)] \in Seq(Message)
      BY <1>0 DEF TypeInv, TypeOK
    <3>2. work'[q] \in Message
      BY <2>2, <2>3, <3>1
    <3> QED
      BY <3>2, NoMessageAssumption
  <2>6. calls' = calls
    BY <1>5 DEF TakeRequest
  <2>7. QED
    BY <2>1, <2>3, <2>4, <2>5, <2>6 DEF Moves, RunsNext
<1>6. ASSUME NEW q \in RequestProcessors, ProcessRequestMessage(q) PROVE Goal
  <2>1. PICK s \in Side : q = Answerer(s) /\ q # Answerer(Peer(s))
    BY ThreadsDistinct DEF RequestProcessors, Answerer, SideOf, Peer, Side, Callers
  <2>2. Answers(s)
    BY <1>0, <1>6, <2>1, ProcessExchange
  <2>3. Keeps(Peer(s))
    BY <1>0, <1>6, <2>1, ProcessExchange
  <2>4. calls' = calls /\ pc[q] = "process"
    BY <1>6 DEF ProcessRequestMessage
  <2>5. QED
    BY <2>1, <2>2, <2>3, <2>4 DEF Moves, AnswersNext
<1>7. ASSUME \/ \E t \in Callers : WaitResponse(t)
             \/ \E v \in Side : SetNotification(v)
             \/ \E r \in RequestProcessors : WaitRequest(r)
             \/ UNCHANGED vars
      PROVE  Goal
  <2>1. calls' = calls
    BY <1>0, <1>7, WaitForm
  <2>2. \A s \in Side : Keeps(s)
    BY <1>0, <1>7, WaitExchange
  <2>3. QED
    BY <2>1, <2>2
<1>8. Goal
  <2> HIDE DEF Goal
  <2>1. QED
    BY <1>1, <1>2, <1>3, <1>4, <1>5, <1>6, <1>7, Zenon DEF Next, MessageHandler, RequestMonitor
<1>9. QED
  BY <1>8

ExclusiveInv ==
    \A s \in Side :
        /\ Going(s) \in Nat /\ Coming(s) \in Nat
        /\ Going(s) >= 1 => Caller(s) # NoThread /\ ~Serving(s) /\ Coming(s) = 0
        /\ Serving(s) => Caller(s) # NoThread /\ Going(s) = 0 /\ Coming(s) = 0
        /\ Coming(s) >= 1 => Caller(s) # NoThread /\ ~Serving(s) /\ Going(s) = 0

ExchangesInv == \A s \in Side : Exchange(s)

\* The same as a fact about states.
LEMMA ExclusiveOf == ExchangesInv => ExclusiveInv
  BY Exclusive DEF Exchange, ExchangesInv, ExclusiveInv

\* The invariant holds initially,
LEMMA CallInit ==
  ASSUME HostCallers = {}, Init
  PROVE  CallInv
<1>1. BackedInv /\ \A s \in Side : Exchange(s)
  BY BackedInit, ExchangeInit
<1>2. RequestsInv
  <2>1. raise = [s \in Side |-> raise[s]] /\ requestNotification \in [Side -> BOOLEAN]
    BY DEF Init
  <2>2. ASSUME NEW r \in RequestProcessors
        PROVE  Bit(pc[r] = "take") + Bit(requestNotification[SideOf(r)])
                 + Bit(raise[SideOf(r)] = "Request") <= Len(requestQueue[SideOf(r)])
    BY ThreadsOf DEF Init, Bit
  <2>3. QED
    BY <2>1, <2>2 DEF RequestsInv, RequestsBacked
<1>3. CallsInv
  BY BoundsPositive DEF Init, CallsInv
<1>4. ASSUME NEW s \in Side PROVE WorkInv(s)
  <2>1. Caller(s) = NoThread /\ work[Answerer(s)] = NoMessage
    BY DEF Init, Caller, Inside, Answerer, RequestProcessors, Threads, Callers
  <2>2. ~(Going(s) >= 1) /\ ~(Coming(s) >= 1) /\ ~Serving(s)
    BY <1>1, <2>1, ExclusiveOf DEF ExchangesInv, ExclusiveInv
  <2>3. QED
    BY <2>1, <2>2 DEF WorkInv
<1>5. QED
  BY <1>1, <1>2, <1>3, <1>4, TypesStart DEF CallInv

\* The next call of a thread has another number than the last one.
LEMMA NextCall ==
  ASSUME CallIds > 1, CallsInv, NEW t \in Callers,
         calls' = [calls EXCEPT ![t] = (@ + 1) % CallIds]
  PROVE  /\ CallsInv' /\ calls'[t] # calls[t]
         /\ \A u \in Callers \ {t} : calls'[u] = calls[u]
<1>1. \A k \in Nat : \A n \in 0 .. k - 1 :
        k > 1 => (n + 1) % k \in 0 .. k - 1 /\ (n + 1) % k # n
  OBVIOUS
<1>2. CallIds \in Nat /\ calls[t] \in 0 .. CallIds - 1
  BY BoundsPositive DEF CallsInv
<1>3. (calls[t] + 1) % CallIds \in 0 .. CallIds - 1 /\ (calls[t] + 1) % CallIds # calls[t]
  BY <1>1, <1>2
<1>4. QED
  BY <1>3 DEF CallsInv

\* A direction that a step leaves alone, whatever the other one does.
LEMMA WorkKept ==
  ASSUME NEW s \in Side, Keeps(s), WorkInv(s), ExclusiveInv, ExclusiveInv',
         \A u \in Callers : SideOf(u) = s => IdOf(u)' = IdOf(u)
  PROVE  WorkInv(s)'
<1> DEFINE w == work[Answerer(s)]
<1>1. w' = w /\ Caller(s)' = Caller(s) /\ (Serving(s)' <=> Serving(s))
  BY DEF Keeps, SameCaller
<1>2. ASSUME Caller(s)' = NoThread
      PROVE  w' = NoMessage \/ \E u \in Callers : SideOf(u) = s /\ w'.id = IdOf(u)'
  BY <1>1, <1>2 DEF WorkInv
<1>3. /\ Going(s)' >= 1 => Going(s) >= 1 /\ Caller(s) # NoThread
      /\ Coming(s)' >= 1 => Coming(s) >= 1 /\ Caller(s) # NoThread
  BY DEF Keeps, ExclusiveInv
<1>4. Caller(s) # NoThread => IdOf(Caller(s))' = IdOf(Caller(s))
  BY DEF Keeps, SameCaller
<1>5. Going(s)' >= 1 => w' = NoMessage \/ w'.id # IdOf(Caller(s))'
  BY <1>1, <1>3, <1>4 DEF WorkInv
<1>6. Coming(s)' >= 1 => w' # NoMessage /\ w'.id = IdOf(Caller(s))'
  BY <1>1, <1>3, <1>4 DEF WorkInv
<1>7. Serving(s)' => w' # NoMessage
  BY <1>1 DEF WorkInv
<1>8. QED
  BY <1>2, <1>5, <1>6, <1>7 DEF WorkInv

\* The direction that moves.
LEMMA WorkMoves ==
  ASSUME CallIds > 1, CallsInv,
         NEW s \in Side, Moves(s), Exchange(s), WorkInv(s), ExclusiveInv, ExclusiveInv'
  PROVE  WorkInv(s)'
<1> DEFINE w == work[Answerer(s)]
           Goal == /\ Caller(s)' = NoThread =>
                        w' = NoMessage \/ \E u \in Callers : SideOf(u) = s /\ w'.id = IdOf(u)'
                   /\ Going(s)' >= 1 => w' = NoMessage \/ w'.id # IdOf(Caller(s))'
                   /\ Coming(s)' >= 1 => w' # NoMessage /\ w'.id = IdOf(Caller(s))'
                   /\ Serving(s)' => w' # NoMessage
<1>1. ASSUME NEW t \in Callers, AsksBy(s, t) PROVE Goal
  <2>1. /\ w' = w /\ Caller(s) = NoThread /\ Caller(s)' = t
        /\ Coming(s)' = 0 /\ ~Serving(s)'
    BY <1>1 DEF AsksBy, Asks, ExclusiveInv
  <2>2. calls'[t] # calls[t]
    BY <1>1, NextCall DEF AsksBy
  <2>3. IdOf(Caller(s))' = <<t, calls'[t]>>
    BY <2>1 DEF IdOf
  <2>4. w = NoMessage \/ w.id # <<t, calls'[t]>>
    BY <2>1, <2>2 DEF WorkInv, IdOf
  <2>5. t # NoThread
    BY ThreadsDistinct, ThreadsOf
  <2>6. QED
    BY <2>1, <2>3, <2>4, <2>5
<1>2. ASSUME RunsNext(s) PROVE Goal
  <2>1. /\ w' # NoMessage /\ Caller(s)' # NoThread
        /\ ~(Going(s)' >= 1) /\ ~(Coming(s)' >= 1)
    BY <1>2 DEF RunsNext, Runs, ExclusiveInv
  <2>2. QED
    BY <2>1
<1>3. ASSUME AnswersNext(s) PROVE Goal
  <2>1. /\ w' = w /\ Caller(s)' = Caller(s) /\ Serving(s) /\ ~Serving(s)'
        /\ Caller(s) # NoThread /\ Going(s)' <= Going(s) /\ Going(s) = 0
    BY <1>3 DEF AnswersNext, Answers, SameCaller, ExclusiveInv
  <2>2. ~(Going(s)' >= 1)
    BY <2>1 DEF ExclusiveInv
  <2>3. IdOf(Caller(s))' = IdOf(Caller(s))
    BY <1>3, <2>1 DEF AnswersNext, Answers, SameCaller
  <2>4. w # NoMessage /\ w.id = IdOf(Caller(s))
    BY <2>1 DEF WorkInv, Exchange, OwnMessage
  <2>5. QED
    BY <2>1, <2>2, <2>3, <2>4
<1>4. ASSUME NEW t \in Callers, ReturnsTo(s, t) PROVE Goal
  <2>1. /\ w' = w /\ Caller(s) = t /\ Coming(s) >= 1 /\ SideOf(t) = s /\ calls' = calls
        /\ ~(Going(s)' >= 1) /\ ~(Coming(s)' >= 1) /\ ~Serving(s)'
    BY <1>4 DEF ReturnsTo, Returns
  <2>2. w'.id = IdOf(t)'
    BY <2>1 DEF WorkInv, IdOf
  <2>3. QED
    BY <2>1, <2>2
<1>5. Goal
  <2> HIDE DEF Goal
  <2>1. QED
    BY <1>1, <1>2, <1>3, <1>4 DEF Moves
<1>6. QED
  BY <1>5 DEF WorkInv

\* and every step keeps it.
LEMMA CallStep ==
  ASSUME HostCallers = {}, CallIds > 1, CallInv, [Next]_vars
  PROVE  CallInv'
<1>0. /\ FormInv /\ ThreadInv /\ BackedInv /\ RequestsInv /\ CallsInv
      /\ \A s \in Side : Exchange(s) /\ WorkInv(s) /\ Sole(s)
  <2>1. "agent" \in Side
    BY DEF Side
  <2>2. QED
    BY <2>1 DEF CallInv, Exchange, Sole
<1>1. BackedInv' /\ RequestsInv' /\ TypeInv'
  BY <1>0, BackedStep, RequestsStep, TypesKept DEF CallInv
<1>2. \A s \in Side : Exchange(s)'
  BY <1>0, ExchangeStep
<1>3. ExclusiveInv /\ ExclusiveInv'
  <2>1. ExchangesInv /\ ExchangesInv'
    BY <1>0, <1>2 DEF ExchangesInv
  <2>2. ExclusiveInv'
    BY <2>1, ExclusiveOf, PTL
  <2>3. QED
    BY <2>1, <2>2, ExclusiveOf
<1>4. CASE calls' = calls /\ \A s \in Side : Keeps(s)
  <2>1. \A s \in Side : WorkInv(s)'
    BY <1>0, <1>3, <1>4, WorkKept DEF IdOf
  <2>2. CallsInv'
    BY <1>0, <1>4 DEF CallsInv
  <2>3. QED
    BY <1>1, <1>2, <2>1, <2>2 DEF CallInv
<1>5. ASSUME NEW s \in Side, Moves(s), Keeps(Peer(s)) PROVE CallInv'
  <2>1. WorkInv(s)'
    BY <1>0, <1>3, <1>5, WorkMoves
  <2>2. CallsInv' /\ \A u \in Callers : SideOf(u) = Peer(s) => IdOf(u)' = IdOf(u)
    <3>1. CASE calls' = calls
      BY <1>0, <3>1 DEF CallsInv, IdOf
    <3>2. ASSUME NEW t \in Callers, AsksBy(s, t)
          PROVE  CallsInv' /\ \A u \in Callers : SideOf(u) = Peer(s) => IdOf(u)' = IdOf(u)
      <4>1. CallsInv' /\ \A u \in Callers \ {t} : calls'[u] = calls[u]
        BY <1>0, <3>2, NextCall DEF AsksBy
      <4>2. \A u \in Callers : SideOf(u) = Peer(s) => u # t
        BY <3>2, ThreadsOf DEF AsksBy
      <4>3. QED
        BY <4>1, <4>2 DEF IdOf
    <3>3. calls' = calls \/ \E t \in Callers : AsksBy(s, t)
      BY <1>5 DEF Moves, RunsNext, AnswersNext, ReturnsTo
    <3>4. QED
      BY <3>1, <3>2, <3>3
  <2>3. WorkInv(Peer(s))'
    BY <1>0, <1>3, <1>5, <2>2, WorkKept, ThreadsOf
  <2>4. \A u \in Side : u = s \/ u = Peer(s)
    BY DEF Side, Peer
  <2>5. \A u \in Side : WorkInv(u)'
    BY <2>1, <2>3, <2>4
  <2>6. QED
    BY <1>1, <1>2, <2>2, <2>5 DEF CallInv
<1>6. QED
  BY <1>4, <1>5, StepMoves

-----------------------------------------------------------------------------
(* The refinement *)

CallPhase == [t \in Callers |-> Phase(t)]

PhasesAre ==
    \A t \in Callers :
        Phase(t) = IF Caller(SideOf(t)) = t THEN PhaseAt(SideOf(t)) ELSE "idle"

\* The same as a fact about states.
LEMMA PhasesAreSo == HostCallers = {} /\ ThreadInv => PhasesAre
  BY PhaseIs DEF PhasesAre

\* Initially every call is idle.
LEMMA RefinesInit ==
  ASSUME HostCallers = {}, Init
  PROVE  Call!Init
<1>1. \A t \in Callers : ~Inside(t)
  BY ThreadsOf, ThreadsDistinct DEF Init, Inside
<1>2. \A t \in Callers : Phase(t) = "idle"
  BY <1>1 DEF Phase
<1>3. QED
  BY <1>2 DEF Call!Init, Call!Callers, Callers

\* A direction that a step leaves alone.
LEMMA PhaseKept ==
  ASSUME NEW s \in Side, Keeps(s), PhasesAre, PhasesAre', NEW t \in Callers, SideOf(t) = s,
         ThreadInv
  PROVE  Phase(t)' = Phase(t)
<1>1. /\ Phase(t) = IF Caller(s) = t THEN PhaseAt(s) ELSE "idle"
      /\ Phase(t)' = IF Caller(s)' = t THEN PhaseAt(s)' ELSE "idle"
  BY DEF PhasesAre
<1>2. Caller(s)' = Caller(s)
  BY DEF Keeps, SameCaller
<1>3. ASSUME Caller(s) = t PROVE PhaseAt(s)' = PhaseAt(s)
  <2>1. t # NoThread
    BY ThreadsDistinct, ThreadsOf
  <2>2. /\ IdOf(Caller(s))' = IdOf(Caller(s)) /\ work'[Answerer(s)] = work[Answerer(s)]
        /\ (Serving(s)' <=> Serving(s))
    BY <1>3, <2>1 DEF Keeps, SameCaller
  <2>3. QED
    BY <2>2 DEF PhaseAt
<1>4. QED
  BY <1>1, <1>2, <1>3

\* A step that changes one call's phase.
LEMMA PhaseSet ==
  ASSUME NEW c \in Callers, NEW x, Phase(c)' = x,
         \A t \in Callers \ {c} : Phase(t)' = Phase(t)
  PROVE  CallPhase' = [CallPhase EXCEPT ![c] = x]
BY DEF CallPhase

\* A step of one direction is a step of its caller's call.
LEMMA RefinesMove ==
  ASSUME HostCallers = {}, CallInv, CallInv', NEW s \in Side, Moves(s), Keeps(Peer(s))
  PROVE  Call!Next
<1> DEFINE p == Peer(s)
<1>0. /\ FormInv /\ ThreadInv /\ ThreadInv' /\ Exchange(s) /\ WorkInv(s)
      /\ p \in Side /\ Answerer(s) \in Threads
  <2>1. "agent" \in Side /\ p \in Side
    BY ThreadsOf DEF Side
  <2>2. FormInv /\ ThreadInv /\ ThreadInv'
    BY <2>1 DEF CallInv, Exchange
  <2>3. QED
    BY <2>1, <2>2, Parties DEF CallInv
<1>1. PhasesInv /\ PhasesInv' /\ PhasesAre /\ PhasesAre'
  <2>1. PhasesInv'
    BY PhasesOf, PTL
  <2>2. PhasesAre'
    BY <1>0, PhasesAreSo, PTL
  <2>3. QED
    BY <1>0, <2>1, <2>2, PhasesOf, PhasesAreSo
<1>2. \A t \in Callers : t # NoThread /\ SideOf(t) \in {s, p}
  BY ThreadsDistinct, ThreadsOf DEF Side, Peer
<1>3. \A t \in Callers : SideOf(t) = p => Phase(t)' = Phase(t)
  BY <1>0, <1>1, PhaseKept
<1>4. \A t \in Callers : SideOf(t) = s =>
        /\ Caller(s) = t => Phase(t) = PhaseAt(s)
        /\ Caller(s) # t => Phase(t) = "idle"
        /\ Caller(s)' = t => Phase(t)' = PhaseAt(s)'
        /\ Caller(s)' # t => Phase(t)' = "idle"
  BY <1>1 DEF PhasesAre
<1>5. \A u, t \in Callers : (u \in AgentCallers <=> t \in AgentCallers) <=> SideOf(u) = SideOf(t)
  BY ThreadsDistinct DEF Callers, SideOf, RequestProcessors
<1>6. Caller(s) # NoThread => Caller(s) \in Callers /\ SideOf(Caller(s)) = s
  BY <1>0, Parties
<1>7. \A t \in Callers : CallPhase[t] = Phase(t)
  BY DEF CallPhase
<1>8. ASSUME NEW t \in Callers, AsksBy(s, t) PROVE Call!Ask(t)
  <2>1. SideOf(t) = s /\ Caller(s) = NoThread /\ Caller(s)' = t /\ Going(s)' >= 1
    BY <1>8 DEF AsksBy, Asks
  <2>2. Phase(t) = "idle" /\ Phase(t)' = "asked"
    BY <1>1, <1>2, <1>4, <2>1 DEF PhasesInv
  <2>3. \A u \in Callers \ {t} : Phase(u)' = Phase(u)
    BY <1>2, <1>3, <1>4, <2>1
  <2>4. CallPhase' = [CallPhase EXCEPT ![t] = "asked"]
    BY <2>2, <2>3, PhaseSet
  <2>5. ASSUME t \in AgentCallers, NEW u \in AgentCallers PROVE CallPhase[u] = "idle"
    <3>1. u \in Callers /\ SideOf(u) = s
      BY <2>1, <2>5 DEF Callers, SideOf
    <3>2. QED
      BY <1>2, <1>4, <1>7, <2>1, <3>1
  <2>6. ASSUME t = HostRP PROVE \E u \in AgentCallers : CallPhase[u] = "running"
    <3>1. "agent" \in Side /\ Answerer("agent") = HostRP /\ pc[HostRP] = "process"
      BY <1>8, <2>6 DEF Side, Answerer, AsksBy, Base
    <3>2. Caller("agent") # NoThread /\ PhaseAt("agent") = "running"
      BY <1>1, <3>1 DEF PhasesInv, Serving
    <3>3. Caller("agent") \in AgentCallers
      BY <1>0, <3>2 DEF Caller, ThreadInv
    <3>4. Caller("agent") \in Callers /\ SideOf(Caller("agent")) = "agent"
      BY <3>3 DEF Callers, SideOf
    <3>5. CallPhase[Caller("agent")] = "running"
      BY <1>1, <1>7, <3>2, <3>4 DEF PhasesAre
    <3>6. QED
      BY <3>3, <3>5
  <2>7. CallPhase[t] = "idle"
    BY <1>7, <2>2
  <2>8. QED
    BY <2>4, <2>5, <2>6, <2>7 DEF Call!Ask, Call!MayAsk, CallPhase
<1>9. ASSUME RunsNext(s) PROVE Caller(s) \in Callers /\ Call!Run(Caller(s))
  <2>1. PICK t \in Callers : t = Caller(s) /\ SideOf(t) = s /\ Caller(s)' = t
    BY <1>1, <1>6, <1>9 DEF RunsNext, Runs, SameCaller, PhasesInv
  <2>2. Phase(t) = "asked" /\ Phase(t)' = "running"
    BY <1>1, <1>4, <1>9, <2>1 DEF PhasesInv, RunsNext, Runs
  <2>3. \A u \in Callers \ {t} : Phase(u)' = Phase(u)
    BY <1>2, <1>3, <1>4, <2>1
  <2>4. CallPhase' = [CallPhase EXCEPT ![t] = "running"]
    BY <2>2, <2>3, PhaseSet
  <2>5. ASSUME NEW u \in Callers, u \in AgentCallers <=> t \in AgentCallers
        PROVE  CallPhase[u] # "running"
    <3>1. SideOf(u) = s
      BY <1>5, <2>1, <2>5
    <3>2. QED
      BY <1>4, <1>7, <2>1, <2>2, <3>1
  <2>6. CallPhase[t] = "asked"
    BY <1>7, <2>2
  <2>7. Call!Run(t)
    BY <2>4, <2>5, <2>6 DEF Call!Run, Call!Callers, CallPhase, Callers
  <2>8. QED
    BY <2>1, <2>7
<1>10. ASSUME AnswersNext(s) PROVE Caller(s) \in Callers /\ Call!Answer(Caller(s))
  <2>1. PICK t \in Callers : t = Caller(s) /\ SideOf(t) = s /\ Caller(s)' = t
    BY <1>1, <1>6, <1>10 DEF AnswersNext, Answers, SameCaller, PhasesInv
  <2>2. Phase(t) = "running"
    BY <1>1, <1>4, <1>10, <2>1 DEF PhasesInv, AnswersNext, Answers
  <2>3. Phase(t)' = "answered"
    <3>1. /\ IdOf(Caller(s))' = IdOf(Caller(s)) /\ work'[Answerer(s)] = work[Answerer(s)]
          /\ Serving(s) /\ ~Serving(s)'
      BY <1>2, <1>10, <2>1 DEF AnswersNext, Answers, SameCaller
    <3>2. work[Answerer(s)] # NoMessage /\ work[Answerer(s)].id = IdOf(Caller(s))
      BY <1>0, <3>1 DEF WorkInv, Exchange, OwnMessage
    <3>3. PhaseAt(s)' = "answered"
      BY <3>1, <3>2 DEF PhaseAt
    <3>4. QED
      BY <1>4, <2>1, <3>3
  <2>4. \A u \in Callers \ {t} : Phase(u)' = Phase(u)
    BY <1>2, <1>3, <1>4, <2>1
  <2>5. CallPhase' = [CallPhase EXCEPT ![t] = "answered"]
    BY <2>3, <2>4, PhaseSet
  <2>6. ASSUME t \in AgentCallers PROVE CallPhase[HostRP] = "idle"
    <3>1. s = "agent" /\ pc[HostRP] = "process"
      BY <1>10, <2>1, <2>6 DEF SideOf, AnswersNext, Answerer
    <3>2. HostRP \in Callers /\ SideOf(HostRP) = "host" /\ Caller("host") = NoThread
      BY <3>1, ThreadsDistinct DEF Callers, SideOf, RequestProcessors, Caller, Inside
    <3>3. Phase(HostRP) = "idle"
      BY <1>1, <1>2, <3>2 DEF PhasesAre
    <3>4. QED
      BY <1>7, <3>2, <3>3
  <2>7. CallPhase[t] = "running"
    BY <1>7, <2>2
  <2>8. Call!Answer(t)
    BY <2>5, <2>6, <2>7 DEF Call!Answer, CallPhase
  <2>9. QED
    BY <2>1, <2>8
<1>11. ASSUME NEW t \in Callers, ReturnsTo(s, t) PROVE Call!Return(t)
  <2>1. SideOf(t) = s /\ Caller(s) = t /\ Caller(s)' = NoThread /\ Coming(s) >= 1
    BY <1>11 DEF ReturnsTo, Returns
  <2>2. Phase(t) = "answered" /\ Phase(t)' = "idle"
    BY <1>1, <1>2, <1>4, <2>1 DEF PhasesInv
  <2>3. \A u \in Callers \ {t} : Phase(u)' = Phase(u)
    BY <1>2, <1>3, <1>4, <2>1
  <2>4. CallPhase' = [CallPhase EXCEPT ![t] = "idle"] /\ CallPhase[t] = "answered"
    BY <1>7, <2>2, <2>3, PhaseSet
  <2>5. QED
    BY <2>4 DEF Call!Return, CallPhase
<1>12. Call!Callers = Callers
  BY DEF Call!Callers, Callers
<1>13. QED
  BY <1>8, <1>9, <1>10, <1>11, <1>12 DEF Moves, Call!Next

\* Every step maps to a step of the synchronous call or to a stutter.
LEMMA RefinesStep ==
  ASSUME HostCallers = {}, CallInv, CallInv', [Next]_vars
  PROVE  [Call!Next]_CallPhase
<1>1. CASE \A s \in Side : Keeps(s)
  <2>1. ThreadInv /\ ThreadInv'
    <3>1. "agent" \in Side
      BY DEF Side
    <3>2. QED
      BY <3>1 DEF CallInv, Exchange
  <2>2. PhasesAre /\ PhasesAre'
    <3>1. PhasesAre'
      BY <2>1, PhasesAreSo, PTL
    <3>2. QED
      BY <2>1, <3>1, PhasesAreSo
  <2>3. \A t \in Callers : Phase(t)' = Phase(t)
    BY <1>1, <2>1, <2>2, PhaseKept, ThreadsOf
  <2>4. CallPhase' = CallPhase
    BY <2>3 DEF CallPhase
  <2>5. QED
    BY <2>4
<1>2. ASSUME NEW s \in Side, Moves(s), Keeps(Peer(s)) PROVE Call!Next
  BY <1>2, RefinesMove
<1>3. QED
  BY <1>1, <1>2, StepMoves

(***************************************************************************)
(* SendAndGetResponse, the message handlers and the request processors     *)
(* implement a synchronous procedure call in each direction, for any       *)
(* number of agent threads and any sizes of messages, packets and pipes,   *)
(* when nothing on the host but the running Invoke calls the agent.        *)
(* CallIds > 1 lets the ghost ids tell a thread's call from its last one.  *)
(***************************************************************************)
THEOREM CallsAreSynchronous ==
  ASSUME HostCallers = {}, CallIds > 1
  PROVE  Spec => ImplementsSynchronousCall
<1>1. Init => CallInv /\ Call!Init
  BY CallInit, RefinesInit
<1>2. CallInv /\ [Next]_vars => CallInv'
  BY CallStep
<1>3. CallInv /\ CallInv' /\ [Next]_vars => [Call!Next]_CallPhase
  BY RefinesStep
<1>4. QED
  BY <1>1, <1>2, <1>3, PTL DEF Spec, ImplementsSynchronousCall, Call!Spec, CallPhase

-----------------------------------------------------------------------------
(* One message in a pipe *)

\* As its sender wrote it.
Sound(m) == m \in Message /\ m.size \in Sizes /\ m.intact /\ m.type \in KnownTypes

Writers(s) == {t \in Threads : SideOf(t) = Peer(s)}

\* The packets of a message from the one with number k on.
PacketsFrom(q, m, k) == \A i \in 1 .. Len(q) : q[i] = MessageToPackets(m)[k + i]

\* The packets read, those in the pipe and those still to be written make one
\* message, and nobody but its sender has any.
OneStream(s, m, w) ==
    /\ Len(partial[s]) + Len(pipe[s]) + Len(out[w]) = PacketCount(m.size)
    /\ PacketsFrom(partial[s], m, 0)
    /\ PacketsFrom(pipe[s], m, Len(partial[s]))
    /\ PacketsFrom(out[w], m, Len(partial[s]) + Len(pipe[s]))
    /\ \A t \in Writers(s) \ {w} : out[t] = << >>

Nothing(s) == /\ partial[s] = << >> /\ pipe[s] = << >>
              /\ \A t \in Writers(s) : out[t] = << >>

StreamInv(s) == Nothing(s) \/ \E m, w : Sound(m) /\ w \in Writers(s) /\ OneStream(s, m, w)

IntactInv ==
    /\ TypeInv
    /\ \A s \in Side :
         /\ StreamInv(s)
         /\ \A i \in 1 .. Len(requestQueue[s]) : Sound(requestQueue[s][i])
         /\ \A i \in 1 .. Len(responseQueue[s]) : Sound(responseQueue[s][i])
    /\ \A r \in RequestProcessors : pc[r] = "process" \/ Inside(r) => Sound(work[r])

\* The first packet of a message is somewhere if the message is.
LEMMA StreamCounted ==
  ASSUME TypeInv, ThreadInv, NEW s \in Side, StreamInv(s),
         \A type \in KnownTypes : Leg(s, type) = 0,
         \A t \in Writers(s) : Count(out[t], IF pc[t] = "write" THEN "Request" ELSE "Response") = 0
  PROVE  Nothing(s)
<1> SUFFICES ASSUME NEW m, NEW w \in Writers(s), Sound(m), OneStream(s, m, w)
             PROVE  FALSE
  BY DEF StreamInv
<1>0. /\ partial[s] \in Seq(Packet) /\ pipe[s] \in Seq(Packet) /\ out[w] \in Seq(Packet)
      /\ w \in Threads
  BY DEF TypeInv, TypeOK, Writers
<1>1. /\ PacketCount(m.size) \in Nat \ {0}
      /\ MessageToPackets(m)[1].msg = m /\ MessageToPackets(m)[1].index = 0
  BY PacketTypes DEF Sound
<1>2. m.type \in KnownTypes /\ Leg(s, m.type) = 0
  BY DEF Sound
<1>3. /\ IsQueue(pipe[s]) /\ IsQueue(partial[s]) /\ IsQueue(out[w])
      /\ IsQueue(QueueOf(s, m.type))
  BY <1>0 DEF IsQueue, QueueOf, TypeInv, TypeOK
<1>4. Count(pipe[s], m.type) = 0 /\ Bit(Opens(partial[s], m.type)) = 0
  <2> DEFINE a == Count(pipe[s], m.type)
             b == Bit(Opens(partial[s], m.type))
             c == Len(QueueOf(s, m.type))
  <2>1. a \in Nat /\ b \in Nat /\ c \in Nat /\ (a + b) + c = 0
    <3>1. Len(QueueOf(s, m.type)) \in Nat
      BY <1>3, Popped
    <3> QED
      BY <1>2, <1>3, <3>1, CountType DEF Leg, Bit
  <2> HIDE DEF a, b, c
  <2>2. a = 0 /\ b = 0
    BY <2>1
  <2> QED
    BY <2>2 DEF a, b
<1>5. CASE Len(partial[s]) > 0
  <2>1. partial[s][1] = MessageToPackets(m)[1] /\ partial[s] # << >>
    BY <1>0, <1>5 DEF OneStream, PacketsFrom
  <2>2. Opens(partial[s], m.type)
    BY <1>1, <2>1 DEF Opens, Starts
  <2> QED
    BY <1>4, <2>2 DEF Bit
<1>6. CASE Len(partial[s]) = 0 /\ Len(pipe[s]) > 0
  <2>1. 1 \in 1 .. Len(pipe[s]) /\ pipe[s][1] = MessageToPackets(m)[1]
    BY <1>0, <1>6 DEF OneStream, PacketsFrom
  <2>2. Starts(pipe[s][1], m.type)
    BY <1>1, <2>1 DEF Starts
  <2> QED
    BY <1>3, <1>4, <2>1, <2>2, CountType
<1>7. CASE Len(partial[s]) = 0 /\ Len(pipe[s]) = 0
  <2>1. Len(out[w]) > 0
    BY <1>0, <1>1, <1>7 DEF OneStream
  <2>2. 1 \in 1 .. Len(out[w]) /\ out[w][1] = MessageToPackets(m)[1]
    BY <1>0, <1>7, <2>1 DEF OneStream, PacketsFrom
  <2>3. out[w][1].msg.type = IF pc[w] = "write" THEN "Request" ELSE "Response"
    BY <1>0, <2>2 DEF ThreadInv
  <2>4. Starts(out[w][1], m.type)
    BY <1>1, <2>2 DEF Starts
  <2> QED
    BY <1>1, <1>3, <2>2, <2>3, <2>4, CountType
<1>8. Len(partial[s]) \in Nat /\ Len(pipe[s]) \in Nat
  BY <1>0
<1> QED
  BY <1>5, <1>6, <1>7, <1>8

\* No message is on its way to a side when another is about to be sent there.
LEMMA StreamFree ==
  ASSUME TypeInv, ExchangesInv, HostCallers = {}, \A s \in Side : StreamInv(s)
  PROVE  /\ mutex = NoThread \/ pc[AgentRP] = "process" => Nothing("host")
         /\ pc[HostRP] = "process" => Nothing("agent")
<1>0. /\ "agent" \in Side /\ "host" \in Side /\ Peer("agent") = "host" /\ Peer("host") = "agent"
      /\ FormInv /\ ThreadInv
  BY DEF Side, Peer, ExchangesInv, Exchange
<1>1. /\ Caller("agent") = mutex /\ Answerer("agent") = HostRP /\ Answerer("host") = AgentRP
      /\ Caller("host") = IF Inside(HostRP) THEN HostRP ELSE NoThread
      /\ Serving("agent") <=> pc[HostRP] = "process" \/ Inside(HostRP)
      /\ Serving("host") <=> pc[AgentRP] = "process" \/ Inside(AgentRP)
      /\ AgentRP \in Threads /\ HostRP \in Threads /\ AgentRP # NoThread /\ HostRP # NoThread
  BY ThreadsDistinct DEF Caller, Answerer, Serving, Threads, Callers, RequestProcessors
<1>2. ExclusiveInv /\ CountsInv
  BY <1>0, ExclusiveOf, CountsOf
<1>3. ASSUME NEW s \in Side, Going(s) = 0
      PROVE  Asking(s) = 0 /\ Leg(Peer(s), "Request") = 0
  <2>1. PICK a, b : a = Asking(s) /\ b = Leg(Peer(s), "Request")
    OBVIOUS
  <2>2. a \in Nat /\ b \in Nat /\ a + b = 0
    BY <1>2, <1>3, <2>1 DEF CountsInv, Going
  <2>3. a = 0 /\ b = 0
    BY <2>2
  <2> QED
    BY <2>1, <2>3
<1>4. ASSUME NEW s \in Side, Coming(s) = 0
      PROVE  Count(out[Answerer(s)], "Response") = 0 /\ Leg(s, "Response") = 0
  <2>1. PICK a, b : a = Count(out[Answerer(s)], "Response") /\ b = Leg(s, "Response")
    OBVIOUS
  <2>2. a \in Nat /\ b \in Nat /\ a + b = 0
    BY <1>2, <1>4, <2>1 DEF CountsInv, Coming
  <2>3. a = 0 /\ b = 0
    BY <2>2
  <2> QED
    BY <2>1, <2>3
<1>5. /\ \A t \in Writers("host") : t \in AgentCallers \cup {AgentRP}
      /\ \A t \in Writers("agent") : t = HostRP
  BY <1>0, ThreadsDistinct DEF Writers, SideOf, Threads, Callers
<1>6. \A t \in Threads : out[t] = << >> =>
        \A type : Count(out[t], type) = 0
  <2>1. IsQueue(<< >>)
    BY NoPackets DEF IsPackets
  <2>2. Len(<< >>) = 0
    OBVIOUS
  <2> QED
    BY <2>1, <2>2, CountType
<1>7. \A s \in Side : Caller(s) = NoThread => Going(s) = 0 /\ Coming(s) = 0 /\ ~Serving(s)
  <2>1. \A n \in Nat : ~(n >= 1) => n = 0
    OBVIOUS
  <2> QED
    BY <1>2, <2>1 DEF ExclusiveInv
<1>8. ASSUME mutex = NoThread \/ pc[AgentRP] = "process" PROVE Nothing("host")
  <2>1. Going("agent") = 0 /\ Going("host") = 0 /\ Coming("host") = 0
    <3>1. CASE mutex = NoThread
      BY <1>0, <1>1, <1>7, <3>1
    <3>2. CASE pc[AgentRP] = "process"
      <4>1. Going("host") = 0 /\ Coming("host") = 0 /\ Caller("host") # NoThread
        BY <1>0, <1>1, <1>2, <3>2 DEF ExclusiveInv
      <4>2. Serving("agent")
        BY <1>1, <4>1
      <4> QED
        BY <1>0, <1>2, <4>1, <4>2 DEF ExclusiveInv
    <3> QED
      BY <1>8, <3>1, <3>2
  <2>2. Leg("host", "Request") = 0 /\ Leg("host", "Response") = 0 /\ Asking("agent") = 0
        /\ Count(out[AgentRP], "Response") = 0
    BY <1>0, <1>1, <1>3, <1>4, <2>1
  <2>3. ASSUME NEW t \in Writers("host")
        PROVE  Count(out[t], IF pc[t] = "write" THEN "Request" ELSE "Response") = 0
    <3>1. t \in Threads
      BY DEF Writers
    <3>2. CASE pc[t] = "write"
      <4>1. t \in AgentCallers /\ mutex = t /\ t # NoThread
        BY <1>0, <1>5, <3>1, <3>2, ThreadsDistinct DEF ThreadInv, Inside
      <4>2. Asking("agent") = Count(out[t], "Request")
        BY <1>1, <4>1 DEF Asking
      <4> QED
        BY <2>2, <3>2, <4>2
    <3>3. CASE pc[t] = "answer"
      <4>1. t = AgentRP
        BY <1>0, <1>5, <3>3 DEF ThreadInv
      <4> QED
        BY <2>2, <3>3, <4>1
    <3>4. CASE pc[t] \notin {"write", "answer"}
      BY <1>0, <1>6, <3>1, <3>4 DEF ThreadInv
    <3> QED
      BY <3>2, <3>3, <3>4
  <2> QED
    BY <1>0, <2>2, <2>3, StreamCounted DEF KnownTypes
<1>9. ASSUME pc[HostRP] = "process" PROVE Nothing("agent")
  <2>1. Going("agent") = 0 /\ Coming("agent") = 0
    BY <1>0, <1>1, <1>2, <1>9 DEF ExclusiveInv
  <2>2. Going("host") = 0
    BY <1>0, <1>1, <1>7, <1>9 DEF Inside
  <2>3. Leg("agent", "Request") = 0 /\ Leg("agent", "Response") = 0
    BY <1>0, <1>1, <1>3, <1>4, <2>1, <2>2
  <2>4. out[HostRP] = << >>
    BY <1>0, <1>1, <1>9 DEF ThreadInv
  <2>5. \A t \in Writers("agent") : \A type : Count(out[t], type) = 0
    BY <1>1, <1>5, <1>6, <2>4
  <2> QED
    BY <1>0, <2>3, <2>5, StreamCounted DEF KnownTypes
<1> QED
  BY <1>8, <1>9

\* A message is sent into an empty stream.
LEMMA StreamOpened ==
  ASSUME TypeInv, TypeInv', NEW s \in Side, NEW t \in Writers(s), NEW m, Sound(m), Nothing(s),
         out' = [out EXCEPT ![t] = MessageToPackets(m)], UNCHANGED <<pipe, partial>>
  PROVE  StreamInv(s)'
<1>1. /\ out'[t] = MessageToPackets(m) /\ t \in Threads
      /\ \A u \in Writers(s) \ {t} : out'[u] = << >>
  BY DEF TypeInv, TypeOK, Writers, Nothing
<1>2. /\ PacketCount(m.size) \in Nat /\ Len(MessageToPackets(m)) = PacketCount(m.size)
      /\ Len(partial[s]) = 0 /\ Len(pipe[s]) = 0
  BY PacketTypes DEF Sound, Nothing
<1>3. PacketsFrom(<< >>, m, 0) /\ PacketsFrom(MessageToPackets(m), m, 0)
  BY <1>2 DEF PacketsFrom
<1>4. /\ partial'[s] = << >> /\ pipe'[s] = << >>
      /\ Len(partial'[s]) + Len(pipe'[s]) + Len(out'[t]) = PacketCount(m.size)
      /\ Len(partial'[s]) = 0 /\ Len(partial'[s]) + Len(pipe'[s]) = 0
  <2>1. partial'[s] = << >> /\ pipe'[s] = << >> /\ Len(<< >>) = 0
    BY DEF Nothing
  <2>2. Len(out'[t]) = PacketCount(m.size)
    BY <1>1, <1>2
  <2> QED
    BY <1>2, <2>1, <2>2
<1>5. /\ PacketsFrom(partial'[s], m, 0)
      /\ PacketsFrom(pipe'[s], m, Len(partial'[s]))
      /\ PacketsFrom(out'[t], m, Len(partial'[s]) + Len(pipe'[s]))
  BY <1>1, <1>3, <1>4
<1>6. OneStream(s, m, t)'
  BY <1>1, <1>4, <1>5 DEF OneStream, PacketsFrom, Writers
<1> QED
  BY <1>6 DEF StreamInv, Writers, Sound

\* What happens elsewhere.
LEMMA StreamKept ==
  ASSUME NEW s \in Side, StreamInv(s), pipe'[s] = pipe[s], partial'[s] = partial[s],
         \A t \in Writers(s) : out'[t] = out[t]
  PROVE  StreamInv(s)'
<1>1. CASE Nothing(s)
  BY <1>1 DEF StreamInv, Nothing, Writers
<1>2. ASSUME NEW m, NEW w, Sound(m), w \in Writers(s), OneStream(s, m, w)
      PROVE  StreamInv(s)'
  <2>1. OneStream(s, m, w)'
    BY <1>2 DEF OneStream, PacketsFrom, Writers
  <2> QED
    BY <1>2, <2>1 DEF StreamInv, Writers, Sound
<1> QED
  BY <1>1, <1>2 DEF StreamInv

\* A packet goes from the writer to the pipe.
LEMMA StreamWritten ==
  ASSUME TypeInv, NEW s \in Side, StreamInv(s), NEW t \in Writers(s), out[t] # << >>,
         pipe'[s] = Append(pipe[s], Head(out[t])), out'[t] = Tail(out[t]),
         \A u \in Writers(s) \ {t} : out'[u] = out[u], partial'[s] = partial[s]
  PROVE  StreamInv(s)'
<1>1. PICK m, w : Sound(m) /\ w \in Writers(s) /\ OneStream(s, m, w)
  BY DEF StreamInv, Nothing
<1>2. w = t
  BY <1>1 DEF OneStream
<1>3. /\ partial[s] \in Seq(Packet) /\ pipe[s] \in Seq(Packet) /\ out[t] \in Seq(Packet)
  BY DEF TypeInv, TypeOK, Writers
<1> DEFINE k == Len(partial[s])
           l == Len(pipe[s])
           j == Len(out[t])
           q == MessageToPackets(m)
           p == Head(out[t])
<1>4. /\ k \in Nat /\ l \in Nat /\ j \in Nat \ {0} /\ p = out[t][1] /\ p \in Packet
      /\ Len(Tail(out[t])) = j - 1 /\ \A i \in 1 .. j - 1 : Tail(out[t])[i] = out[t][i + 1]
  BY <1>3, EmptySeq, HeadTailProperties
<1>5. /\ Len(Append(pipe[s], p)) = l + 1 /\ Append(pipe[s], p)[l + 1] = p
      /\ \A i \in 1 .. l : Append(pipe[s], p)[i] = pipe[s][i]
  BY <1>3, <1>4, AppendProperties
<1>6. /\ k + l + j = PacketCount(m.size)
      /\ \A i \in 1 .. k : partial[s][i] = q[0 + i]
      /\ \A i \in 1 .. l : pipe[s][i] = q[k + i]
      /\ \A i \in 1 .. j : out[t][i] = q[k + l + i]
      /\ \A u \in Writers(s) \ {t} : out[u] = << >>
  BY <1>1, <1>2 DEF OneStream, PacketsFrom
<1> HIDE DEF k, l, j, q, p
<1>7. \A i \in 1 .. l + 1 : Append(pipe[s], p)[i] = q[k + i]
  <2>1. p = q[k + l + 1] /\ k + (l + 1) = k + l + 1
    BY <1>4, <1>6
  <2>2. \A i \in 1 .. l + 1 : i \in 1 .. l \/ i = l + 1
    BY <1>4
  <2> QED
    BY <1>5, <1>6, <2>1, <2>2
<1>8. \A i \in 1 .. j - 1 : Tail(out[t])[i] = q[k + (l + 1) + i]
  <2>1. ASSUME NEW i \in 1 .. j - 1 PROVE i + 1 \in 1 .. j /\ k + l + (i + 1) = k + (l + 1) + i
    BY <1>4
  <2> QED
    BY <1>4, <1>6, <2>1
<1>9. k + (l + 1) + (j - 1) = PacketCount(m.size)
  BY <1>4, <1>6
<1>10. /\ Len(partial'[s]) = k /\ Len(pipe'[s]) = l + 1 /\ Len(out'[t]) = j - 1
  BY <1>4, <1>5 DEF k, p
<1>11. /\ PacketsFrom(partial'[s], m, 0)
       /\ PacketsFrom(pipe'[s], m, k)
       /\ PacketsFrom(out'[t], m, k + (l + 1))
  BY <1>6, <1>7, <1>8, <1>10 DEF PacketsFrom, q, p
<1>12. OneStream(s, m, t)'
  BY <1>6, <1>9, <1>10, <1>11 DEF OneStream, PacketsFrom, Writers
<1> QED
  BY <1>1, <1>12 DEF StreamInv, Writers, Sound

\* A packet is read; the last one makes the message its sender wrote.
LEMMA StreamRead ==
  ASSUME TypeInv, NEW s \in Side, StreamInv(s), pipe[s] # << >>,
         pipe'[s] = Tail(pipe[s]),
         NEW ps, ps = Append(partial[s], Head(pipe[s])),
         partial'[s] = IF LastPacket(Head(pipe[s])) THEN << >> ELSE ps,
         UNCHANGED out
  PROVE  StreamInv(s)' /\ (LastPacket(Head(pipe[s])) => Sound(PacketsToMessage(ps)))
<1>1. PICK m, w : Sound(m) /\ w \in Writers(s) /\ OneStream(s, m, w)
  BY DEF StreamInv, Nothing
<1>3. /\ partial[s] \in Seq(Packet) /\ pipe[s] \in Seq(Packet) /\ out[w] \in Seq(Packet)
  BY <1>1 DEF TypeInv, TypeOK, Writers
<1> DEFINE k == Len(partial[s])
           l == Len(pipe[s])
           j == Len(out[w])
           q == MessageToPackets(m)
           n == PacketCount(m.size)
           p == Head(pipe[s])
<1>4. /\ k \in Nat /\ l \in Nat \ {0} /\ j \in Nat /\ p = pipe[s][1] /\ p \in Packet
      /\ Len(Tail(pipe[s])) = l - 1 /\ \A i \in 1 .. l - 1 : Tail(pipe[s])[i] = pipe[s][i + 1]
  BY <1>3, EmptySeq, HeadTailProperties
<1>5. /\ Len(ps) = k + 1 /\ ps[k + 1] = p /\ ps \in Seq(Packet)
      /\ \A i \in 1 .. k : ps[i] = partial[s][i]
  BY <1>3, <1>4, AppendProperties
<1>6. /\ k + l + j = n
      /\ \A i \in 1 .. k : partial[s][i] = q[0 + i]
      /\ \A i \in 1 .. l : pipe[s][i] = q[k + i]
      /\ \A i \in 1 .. j : out[w][i] = q[k + l + i]
      /\ \A u \in Writers(s) \ {w} : out[u] = << >>
  BY <1>1 DEF OneStream, PacketsFrom
<1>7. /\ n \in Nat \ {0} /\ q \in Seq(Packet) /\ Len(q) = n
      /\ \A i \in 1 .. n : q[i].msg = m /\ q[i].index = i - 1 /\ q[i].count = n
      /\ PayloadOf(q) = m.size
  BY <1>1, PacketTypes, PacketsAddUp DEF Sound
<1> HIDE DEF k, l, j, q, n, p
<1>8. \A i \in 1 .. k + 1 : ps[i] = q[i]
  <2>1. p = q[k + 1]
    BY <1>4, <1>6
  <2>2. \A i \in 1 .. k + 1 : i \in 1 .. k \/ i = k + 1
    BY <1>4
  <2>3. \A i \in 1 .. k : 0 + i = i
    BY <1>4
  <2> QED
    BY <1>5, <1>6, <2>1, <2>2, <2>3
<1>9. k + 1 \in 1 .. n
  BY <1>4, <1>6, <1>7
<1>10. LastPacket(p) <=> k + 1 = n
  <2>1. p.index = k /\ p.count = n
    BY <1>4, <1>5, <1>7, <1>8, <1>9
  <2> QED
    BY <1>4, <1>7, <2>1 DEF LastPacket
<1>11. CASE k + 1 = n
  <2>1. l = 1 /\ j = 0
    BY <1>4, <1>6, <1>7, <1>11
  <2>2. pipe'[s] = << >> /\ partial'[s] = << >>
    <3>1. Tail(pipe[s]) \in Seq(Packet) /\ Len(Tail(pipe[s])) = 0
      BY <1>3, <1>4, <2>1
    <3> QED
      BY <1>10, <1>11, <3>1, EmptySeq DEF p
  <2>3. out[w] = << >>
    BY <1>3, <2>1, EmptySeq DEF j
  <2>4. StreamInv(s)'
    BY <1>6, <2>2, <2>3 DEF StreamInv, Nothing, Writers
  <2>5. ps = q
    <3>1. Len(ps) = Len(q)
      BY <1>5, <1>7, <1>11
    <3> QED
      BY <1>5, <1>7, <1>8, <1>11, <3>1, SeqEqual
  <2>6. PacketsToMessage(ps) = m
    <3>1. ps[1].msg = m /\ ps[1].index = 0 /\ PayloadOf(ps) = m.size
          /\ DOMAIN ps = 1 .. n
      <4>1. DOMAIN ps = 1 .. n
        BY <1>5, <1>11
      <4>2. 1 \in 1 .. n
        BY <1>7
      <4>3. q[1].msg = m /\ q[1].index = 0
        BY <1>7, <4>2
      <4> QED
        BY <1>7, <2>5, <4>1, <4>3
    <3>2. \A i \in DOMAIN ps : ps[i].msg = m /\ ps[i].index = i - 1
      BY <1>7, <2>5, <3>1
    <3>3. PacketsToMessage(ps) = [m EXCEPT !.size = m.size, !.intact = @ /\ TRUE]
      BY <3>1, <3>2 DEF PacketsToMessage
    <3>4. m \in Message /\ m.intact
      BY <1>1 DEF Sound
    <3> QED
      BY <3>3, <3>4 DEF Message
  <2> QED
    BY <1>1, <2>4, <2>6
<1>12. CASE k + 1 # n
  <2>1. ~LastPacket(p) /\ partial'[s] = ps
    BY <1>10, <1>12 DEF p
  <2>2. \A i \in 1 .. l - 1 : Tail(pipe[s])[i] = q[(k + 1) + i]
    <3>1. ASSUME NEW i \in 1 .. l - 1 PROVE i + 1 \in 1 .. l /\ k + (i + 1) = (k + 1) + i
      BY <1>4
    <3> QED
      BY <1>4, <1>6, <3>1
  <2>3. /\ (k + 1) + (l - 1) = k + l /\ (k + 1) + (l - 1) + j = n
        /\ \A i \in 1 .. k + 1 : 0 + i = i
    <3>1. (k + 1) + (l - 1) = k + l
      BY <1>4
    <3>2. \A i \in 1 .. k + 1 : 0 + i = i
      BY <1>4
    <3> QED
      BY <1>6, <3>1, <3>2
  <2>4. Len(partial'[s]) = k + 1 /\ Len(pipe'[s]) = l - 1 /\ Len(out'[w]) = j
    BY <1>4, <1>5, <2>1 DEF j
  <2>5. /\ PacketsFrom(partial'[s], m, 0)
        /\ PacketsFrom(pipe'[s], m, k + 1)
        /\ PacketsFrom(out'[w], m, (k + 1) + (l - 1))
    BY <1>6, <1>8, <2>1, <2>2, <2>3, <2>4 DEF PacketsFrom, q
  <2>6. OneStream(s, m, w)'
    BY <1>6, <2>3, <2>4, <2>5 DEF OneStream, PacketsFrom, Writers, n
  <2> QED
    BY <1>1, <2>1, <2>6 DEF StreamInv, Writers, Sound, p
<1> QED
  BY <1>11, <1>12

LEMMA IntactStart == Init => IntactInv
<1> SUFFICES ASSUME Init PROVE IntactInv
  OBVIOUS
<1>1. TypeInv
  BY TypesStart
<1>2. \A s \in Side : Nothing(s) /\ requestQueue[s] = << >> /\ responseQueue[s] = << >>
  BY DEF Init, Nothing, Writers
<1>3. \A r \in RequestProcessors : pc[r] = "listen"
  BY DEF Init, RequestProcessors, Threads, Callers
<1> QED
  BY <1>1, <1>2, <1>3 DEF IntactInv, StreamInv, Inside

\* The messages of a queue.
SoundQueue(q) == \A i \in 1 .. Len(q) : Sound(q[i])

LEMMA SoundPushed ==
  ASSUME NEW q \in Seq(Message), SoundQueue(q), NEW m, Sound(m)
  PROVE  SoundQueue(Append(q, m))
<1>1. /\ Len(q) \in Nat /\ Len(Append(q, m)) = Len(q) + 1
      /\ \A i \in 1 .. Len(q) : Append(q, m)[i] = q[i]
      /\ Append(q, m)[Len(q) + 1] = m
  BY AppendProperties DEF Sound
<1> QED
  BY <1>1 DEF SoundQueue

LEMMA SoundPopped ==
  ASSUME NEW q \in Seq(Message), SoundQueue(q)
  PROVE  SoundQueue(Rest(q)) /\ (q # << >> => Sound(Front(q)))
<1>1. CASE q = << >>
  BY <1>1 DEF Rest, SoundQueue
<1>2. CASE q # << >>
  <2>1. /\ Len(q) \in Nat \ {0} /\ Head(q) = q[1] /\ Len(Tail(q)) = Len(q) - 1
        /\ \A i \in 1 .. Len(q) - 1 : Tail(q)[i] = q[i + 1]
    BY <1>2, EmptySeq, HeadTailProperties
  <2> QED
    BY <1>2, <2>1 DEF Rest, Front, SoundQueue
<1> QED
  BY <1>1, <1>2

LEMMA IntactKept ==
  ASSUME HostCallers = {}, IntactInv, ExchangesInv, TypeInv', [Next]_vars
  PROVE  IntactInv'
<1>0. /\ FormInv /\ ThreadInv /\ TypeInv /\ TypeOK
      /\ \A s \in Side : /\ StreamInv(s)
                         /\ SoundQueue(requestQueue[s]) /\ SoundQueue(responseQueue[s])
      /\ \A r \in RequestProcessors : pc[r] = "process" \/ Inside(r) => Sound(work[r])
  BY DEF IntactInv, ExchangesInv, Exchange, Side, TypeInv, SoundQueue
<1>1. /\ Callers \subseteq Threads /\ RequestProcessors \subseteq Threads
      /\ \A t \in Threads : SideOf(t) \in Side /\ Peer(SideOf(t)) \in Side /\ t \in Writers(Peer(SideOf(t)))
      /\ \A s \in Side : \A t \in Writers(s) : t \in Threads /\ s = Peer(SideOf(t))
  BY ThreadsOf DEF Writers, SideOf, Peer, Side
<1> DEFINE Streams == \A s \in Side : StreamInv(s)'
           Queues == \A s \in Side : SoundQueue(requestQueue'[s]) /\ SoundQueue(responseQueue'[s])
           Working == \A r \in RequestProcessors :
                        pc'[r] = "process" \/ Inside(r)' => Sound(work'[r])
<1>2. SUFFICES Streams /\ Queues /\ Working
  BY DEF IntactInv, SoundQueue, Sound
<1>3. ASSUME NEW t \in Threads, NEW m, Sound(m), Nothing(Peer(SideOf(t))),
             out' = [out EXCEPT ![t] = MessageToPackets(m)], UNCHANGED <<pipe, partial>>
      PROVE  Streams
  <2> DEFINE v == Peer(SideOf(t))
  <2>1. StreamInv(v)'
    BY <1>0, <1>1, <1>3, StreamOpened
  <2>2. ASSUME NEW s \in Side, s # v PROVE StreamInv(s)'
    <3>1. \A u \in Writers(s) : out'[u] = out[u]
      BY <1>0, <1>1, <1>3, <2>2 DEF TypeOK
    <3> QED
      BY <1>0, <1>3, <3>1, StreamKept
  <2> QED
    BY <2>1, <2>2
<1>4. ASSUME NEW t \in Callers, StartCall(t) PROVE Streams /\ Queues /\ Working
  <2>1. PICK n \in Sizes :
          out' = [out EXCEPT ![t] = MessageToPackets(
                    [type |-> "Request", id |-> <<t, calls'[t]>>, size |-> n, intact |-> TRUE])]
    BY <1>4 DEF StartCall
  <2>2. /\ calls' = [calls EXCEPT ![t] = (@ + 1) % CallIds]
        /\ pc[t] = Base(t) /\ pc' = [pc EXCEPT ![t] = "write"] /\ MayEnter(t)
        /\ UNCHANGED <<work, pipe, partial, requestQueue, responseQueue>>
    BY <1>4 DEF StartCall, sideVars
  <2>3. Sound([type |-> "Request", id |-> <<t, calls'[t]>>, size |-> n, intact |-> TRUE])
    <3>1. calls'[t] \in 0 .. CallIds - 1
      BY DEF TypeInv, TypeOK
    <3> QED
      BY <3>1, BoundsPositive DEF Sound, Message, MessageType, KnownTypes
  <2>4. Nothing(Peer(SideOf(t)))
    <3>1. CASE t \in AgentCallers
      BY <1>0, <2>2, <3>1, StreamFree DEF MayEnter, SideOf, Peer
    <3>2. CASE t = HostRP
      BY <1>0, <2>2, <3>2, StreamFree, ThreadsDistinct DEF Base, SideOf, Peer, RequestProcessors
    <3> QED
      BY <3>1, <3>2 DEF Callers
  <2>5. Streams
    BY <1>1, <1>3, <2>1, <2>2, <2>3, <2>4
  <2>6. Working
    BY <1>0, <1>1, <2>2, ThreadsDistinct DEF TypeOK, Inside, Base, Callers, RequestProcessors
  <2> QED
    BY <1>0, <2>2, <2>5, <2>6
<1>5. ASSUME NEW t \in Threads, WritePacket(t) PROVE Streams /\ Queues /\ Working
  <2> DEFINE v == Peer(SideOf(t))
  <2>1. /\ out[t] # << >> /\ out'[t] = Tail(out[t])
        /\ \A u \in Threads \ {t} : out'[u] = out[u]
        /\ pipe'[v] = Append(pipe[v], Head(out[t])) /\ \A u \in Side \ {v} : pipe'[u] = pipe[u]
        /\ \A u \in Threads : (Inside(u)' <=> Inside(u)) /\ (pc'[u] = "process" <=> pc[u] = "process")
        /\ UNCHANGED <<work, partial, requestQueue, responseQueue>>
    BY <1>0, <1>5, WritePacketForm
  <2>2. StreamInv(v)'
    BY <1>0, <1>1, <2>1, StreamWritten
  <2>3. ASSUME NEW s \in Side, s # v PROVE StreamInv(s)'
    <3>1. \A u \in Writers(s) : out'[u] = out[u]
      BY <1>1, <2>1, <2>3
    <3> QED
      BY <1>0, <2>1, <2>3, <3>1, StreamKept
  <2>4. Working
    BY <1>0, <1>1, <2>1
  <2> QED
    BY <1>0, <2>1, <2>2, <2>3, <2>4
<1>6. ASSUME NEW v \in Side, ReadPacket(v) PROVE Streams /\ Queues /\ Working
  <2> DEFINE x == Head(pipe[v])
             ps == Append(partial[v], x)
             m == PacketsToMessage(ps)
             done == LastPacket(x)
  <2>1. /\ pipe[v] # << >> /\ pipe'[v] = Tail(pipe[v])
        /\ partial'[v] = (IF done THEN << >> ELSE ps)
        /\ requestQueue'[v] = IF done /\ m.type = "Request"
                              THEN Append(requestQueue[v], m) ELSE requestQueue[v]
        /\ responseQueue'[v] = IF done /\ m.type = "Response"
                               THEN Append(responseQueue[v], m) ELSE responseQueue[v]
        /\ \A u \in Side \ {v} : /\ pipe'[u] = pipe[u] /\ partial'[u] = partial[u]
                                 /\ requestQueue'[u] = requestQueue[u]
                                 /\ responseQueue'[u] = responseQueue[u]
        /\ UNCHANGED threadVars
    BY <1>0, <1>6, ReadPacketForm
  <2>2. UNCHANGED <<pc, out, work>>
    BY <2>1 DEF threadVars
  <2>3. StreamInv(v)' /\ (done => Sound(m))
    <3> HIDE DEF ps, x
    <3>1. ps = Append(partial[v], Head(pipe[v])) /\ x = Head(pipe[v])
      BY DEF ps, x
    <3> QED
      BY <1>0, <2>1, <2>2, <3>1, StreamRead
  <2>4. \A s \in Side : s # v => StreamInv(s)'
    BY <1>0, <2>1, <2>2, StreamKept
  <2> HIDE DEF m, done
  <2>5. Queues
    <3>1. SoundQueue(requestQueue'[v]) /\ SoundQueue(responseQueue'[v])
      BY <1>0, <2>1, <2>3, SoundPushed DEF TypeOK
    <3> QED
      BY <1>0, <2>1, <3>1
  <2>6. Working
    BY <1>0, <2>2 DEF Inside
  <2> QED
    BY <2>3, <2>4, <2>5, <2>6
<1>7. ASSUME NEW t \in Callers, PopResponse(t) PROVE Streams /\ Queues /\ Working
  <2> DEFINE v == SideOf(t)
  <2>1. /\ pc[t] = "pop" /\ v \in Side
        /\ responseQueue' = [responseQueue EXCEPT ![v] = Rest(@)]
        /\ pc' = [pc EXCEPT ![t] = Base(t)]
        /\ UNCHANGED <<out, work, pipe, partial, requestQueue>>
    BY <1>1, <1>7 DEF PopResponse
  <2>2. Streams
    BY <1>0, <2>1, StreamKept
  <2> HIDE DEF v
  <2>3. Queues
    <3>1. responseQueue[v] \in Seq(Message)
      BY <1>0, <2>1 DEF TypeOK
    <3>2. SoundQueue(Rest(responseQueue[v]))
      BY <1>0, <2>1, <3>1, SoundPopped
    <3> QED
      BY <1>0, <2>1, <3>2 DEF TypeOK
  <2>4. Working
    BY <1>0, <1>1, <2>1 DEF TypeOK, Inside, Base
  <2> QED
    BY <2>2, <2>3, <2>4
<1>8. ASSUME NEW r \in RequestProcessors, TakeRequest(r) PROVE Streams /\ Queues /\ Working
  <2> DEFINE v == SideOf(r)
             q == requestQueue[v]
  <2>1. /\ v \in Side /\ work' = [work EXCEPT ![r] = Front(q)]
        /\ requestQueue' = [requestQueue EXCEPT ![v] = Rest(q)]
        /\ pc[r] = "take" /\ pc' = [pc EXCEPT ![r] = IF q = << >> THEN "listen" ELSE "process"]
        /\ UNCHANGED <<out, pipe, partial, responseQueue>>
    BY <1>1, <1>8 DEF TakeRequest
  <2>2. Streams
    BY <1>0, <2>1, StreamKept
  <2>3. SoundQueue(Rest(q)) /\ (q # << >> => Sound(Front(q)))
    <3>1. q \in Seq(Message) /\ SoundQueue(q)
      BY <1>0, <2>1 DEF TypeOK
    <3> QED
      BY <3>1, SoundPopped
  <2> HIDE DEF v, q
  <2>4. Queues
    BY <1>0, <2>1, <2>3 DEF TypeOK
  <2>5. Working
    BY <1>0, <1>1, <2>1, <2>3 DEF TypeOK, Inside
  <2> QED
    BY <2>2, <2>4, <2>5
<1>9. ASSUME NEW r \in RequestProcessors, ProcessRequestMessage(r)
      PROVE  Streams /\ Queues /\ Working
  <2>1. PICK n \in Sizes :
          out' = [out EXCEPT ![r] =
                    MessageToPackets([work[r] EXCEPT !.type = "Response", !.size = n])]
    BY <1>9 DEF ProcessRequestMessage
  <2>2. /\ pc[r] = "process" /\ pc' = [pc EXCEPT ![r] = "answer"]
        /\ UNCHANGED <<work, pipe, partial, requestQueue, responseQueue>>
    BY <1>9 DEF ProcessRequestMessage, sideVars
  <2>3. Sound([work[r] EXCEPT !.type = "Response", !.size = n])
    <3>1. work[r] \in Message /\ work[r].intact /\ n \in Nat
      BY <1>0, <2>2, BoundsPositive DEF Sound
    <3> QED
      BY <3>1 DEF Sound, Message, MessageType, KnownTypes
  <2>4. Nothing(Peer(SideOf(r)))
    BY <1>0, <2>2, StreamFree, ThreadsDistinct
       DEF RequestProcessors, SideOf, Peer
  <2>5. Streams
    BY <1>1, <1>3, <2>1, <2>2, <2>3, <2>4
  <2>6. Working
    BY <1>0, <1>1, <2>2 DEF TypeOK, Inside
  <2> QED
    BY <1>0, <2>2, <2>5, <2>6
<1>10. ASSUME \/ \E t \in Callers : WaitResponse(t)
              \/ \E v \in Side : SetNotification(v)
              \/ \E r \in RequestProcessors : WaitRequest(r)
              \/ UNCHANGED vars
       PROVE  Streams /\ Queues /\ Working
  <2>1. /\ UNCHANGED <<out, calls, work, mutex, pipe, partial, requestQueue, responseQueue>>
        /\ \A u \in Threads : (Inside(u)' <=> Inside(u)) /\ (pc'[u] = "process" <=> pc[u] = "process")
    BY <1>0, <1>10, WaitForm
  <2>2. Working
    BY <1>0, <1>1, <2>1
  <2> QED
    BY <1>0, <2>1, <2>2, StreamKept
<1>11. QED
  <2> HIDE DEF Streams, Queues, Working
  <2> QED
    BY <1>4, <1>5, <1>6, <1>7, <1>8, <1>9, <1>10, Zenon DEF Next, MessageHandler, RequestMonitor

(***************************************************************************)
(* When only a running Invoke calls the agent, a message is read as it was *)
(* written, for any sizes of messages, packets and pipes: WriteMessage's   *)
(* loop has no lock, but nobody else writes to the same pipe before the    *)
(* message has been read, be it the agent's request processor or a caller. *)
(***************************************************************************)
THEOREM MessagesArriveIntact ==
  ASSUME HostCallers = {}
  PROVE  Spec => []QueuedMessagesIntact
<1> DEFINE I == BackedInv /\ ExchangesInv /\ IntactInv
<1>1. \A s \in Side : Sole(s)
  BY DEF Sole
<1>2. Init => I
  BY BackedInit, ExchangeInit, IntactStart DEF ExchangesInv
<1>3. I /\ [Next]_vars => I'
  <2> SUFFICES ASSUME I, [Next]_vars PROVE I'
    OBVIOUS
  <2>1. BackedInv'
    BY BackedStep
  <2>2. ExchangesInv'
    BY <1>1, ExchangeStep DEF ExchangesInv
  <2>3. TypeInv'
    BY TypesKept DEF IntactInv, ExchangesInv, Exchange, Side
  <2> QED
    BY <2>1, <2>2, <2>3, IntactKept
<1>4. I => QueuedMessagesIntact
  BY DEF IntactInv, QueuedMessagesIntact, Sound
<1>5. QED
  BY <1>2, <1>3, <1>4, PTL DEF Spec
===============================================================================
