----------------------- MODULE HandlerStateReplayProofs -----------------------
(***************************************************************************)
(* A running host agrees with the agent's record of the handlers, for any  *)
(* number of handlers, whichever of them are inactive or throw, however    *)
(* often the host ends, and whatever the main thread records while the     *)
(* client's thread replays.                                                *)
(***************************************************************************)
EXTENDS HandlerStateReplay, TLAPS

(***************************************************************************)
(* The inductive invariant.                                                *)
(***************************************************************************)
\* Who is told of what: the active ones are registered, and while handlers are
\* created, those before the next one are.  A thread replays within a call.
RegisteredInv ==
    /\ active \subseteq registered
    /\ signal = "create" => active = {} /\ \A h \in registered : h < next
    /\ sending => next \in Handlers /\ Reached(next)
    /\ invoking # {} => signal \notin {"create", "start"}
    /\ replayer = "main" => sending
    /\ replayer = "client" => invoking # {}

\* The record has the registered handlers, and in it the call in flight.
RecordInv ==
    /\ \A h \in registered : cache[h].created
    /\ signal = "create" =>
         \A h \in Handlers : h > next \/ (h = next /\ ~sending) => cache[h] = Absent
    /\ sending /\ signal = "create" => cache[next] = Created
    /\ sending => cache[next].created
    /\ sending /\ signal = "start" => cache[next].started
    /\ sending /\ signal \in ConnectionSignals => cache[next].conn = Status

\* What the replay has read is what the record has, but that a stop may have
\* been recorded since.
StartsInv ==
    replayer # "none" /\ at <= N /\ point = "start" =>
        /\ cache[at].started => starts
        /\ Stopping \/ (starts => cache[at].started)

\* A handler in the host as it will be when the call in flight was made.  The
\* main thread's own replay starts from a record that has its call already.
InFlight(h) == sending /\ next = h /\ replayer # "main"

EndsStarted(h) ==
    /\ instances[h].started \/ (InFlight(h) /\ signal = "start")
    /\ ~(InFlight(h) /\ signal = "stop")

EndsConn(h) ==
    IF InFlight(h) /\ signal \in ConnectionSignals THEN Status ELSE instances[h].conn

StartedAgrees(h) ==
    /\ EndsStarted(h) => cache[h].started
    /\ Stopping \/ (cache[h].started => EndsStarted(h))

\* The handlers that the last replay reached, or the present one so far.
Told(h) == IF replayer = "none" THEN h \in restored ELSE h < at

HostInv ==
    host = "up" =>
        \A h \in registered \ Failing :
            Told(h) => /\ instances[h].created
                       /\ EndsConn(h) = cache[h].conn
                       /\ StartedAgrees(h)

ReplayInv ==
    host = "up" /\ replayer # "none" /\ at <= N =>
        /\ point # "create" => instances[at].created
        /\ point = "connect" => StartedAgrees(at)

IInv == TypeOK /\ RegisteredInv /\ RecordInv /\ StartsInv /\ HostInv /\ ReplayInv

(***************************************************************************)
(* What a call sets.                                                       *)
(***************************************************************************)
LEMMA EffectOK ==
    ASSUME NEW s \in HandlerState
    PROVE  /\ Effect(s) \in HandlerState
           /\ Effect(s).created
           /\ signal = "create" => Effect(Absent) = Created
           /\ signal = "start" => Effect(s).started /\ Effect(s).conn = s.conn
           /\ signal = "stop" => ~Effect(s).started /\ Effect(s).conn = s.conn
           /\ signal \in ConnectionSignals =>
                Effect(s).conn = Status /\ Effect(s).started = s.started
  BY DEF Effect, HandlerState, Created, Absent, Status, ConnectionSignals

LEMMA CreatedOK ==
    /\ Created \in HandlerState /\ Absent \in HandlerState
    /\ Created.created /\ ~Created.started /\ Created.conn = "unset"
  BY DEF HandlerState, Created, Absent

\* Only a stop can have been recorded between the replay's reading of the
\* record and its writing.
LEMMA RecordAgainOK ==
    ASSUME TypeOK, StartsInv, RecordAgain, replayer # "none", at <= N, point = "start"
    PROVE  /\ cache' \in [Handlers -> HandlerState]
           /\ cache'[at].started = starts
           /\ cache'[at].created = cache[at].created
           /\ cache'[at].conn = cache[at].conn
           /\ \A h \in Handlers : h # at => cache'[h] = cache[h]
           /\ ~Stopping => cache' = cache
  <1>1. at \in Handlers /\ cache \in [Handlers -> HandlerState] /\ starts \in BOOLEAN
    BY ParametersOK DEF TypeOK, Handlers
  <1>2. cache' = [cache EXCEPT ![at] = [cache[at] EXCEPT !.started = starts]]
    BY <1>1 DEF RecordAgain
  <1>3. [cache[at] EXCEPT !.started = starts] \in HandlerState
    BY <1>1 DEF HandlerState
  <1>4. ASSUME ~Stopping PROVE cache' = cache
    <2>1. cache[at].started = starts
      BY <1>1, <1>4 DEF StartsInv, HandlerState
    <2>2. [cache[at] EXCEPT !.started = starts] = cache[at]
      BY <1>1, <2>1 DEF HandlerState
    <2> QED
      BY <1>1, <1>2, <2>2
  <1> QED
    BY <1>1, <1>2, <1>3, <1>4 DEF HandlerState

\* The main thread's call that failed.
LEMMA MainFailsOK ==
    ASSUME TypeOK, RegisteredInv, sending, MainFails
    PROVE  /\ sending' = FALSE /\ next' \in 1 .. (N + 1) /\ signal' \in Signals
           /\ registered' = registered /\ active' = active
           /\ Stopping => Stopping'
           /\ signal' = "create" <=> signal = "create"
           /\ signal' = "create" => next' = next + 1
           /\ signal' = "start" => signal = "start"
  BY ParametersOK DEF TypeOK, RegisteredInv, MainFails, Signals, Stopping, agentVars, Handlers

-----------------------------------------------------------------------------
(* Type correctness *)

LEMMA InitOK == Init => IInv
  <1> SUFFICES ASSUME Init PROVE IInv
    OBVIOUS
  <1>1. 1 \in 1 .. (N + 1) /\ Absent \in HandlerState
    BY ParametersOK, CreatedOK
  <1>2. TypeOK
    BY <1>1 DEF Init, TypeOK, Signals
  <1>3. RegisteredInv /\ RecordInv /\ StartsInv /\ HostInv /\ ReplayInv
    BY DEF Init, RegisteredInv, RecordInv, StartsInv, HostInv, ReplayInv, Handlers
  <1> QED
    BY <1>2, <1>3 DEF IInv

\* What a call that fails during a replay leaves of the agent's state.
LEMMA CallThrowsOK ==
    ASSUME TypeOK, RegisteredInv, CallThrows, replayer # "none"
    PROVE  /\ replayer' = "none" /\ restored' \subseteq Handlers
           /\ UNCHANGED <<at, point, starts, host, instances, registered, active>>
           /\ signal' \in Signals /\ next' \in 1 .. (N + 1) /\ sending' \in BOOLEAN
           /\ invoking' \subseteq invoking
           /\ sending' => /\ sending /\ replayer = "client"
           /\ sending' \/ replayer = "client" => UNCHANGED mainVars
           /\ replayer = "main" => sending /\ ~sending' /\ MainFails
           /\ Stopping => Stopping'
           /\ signal' = "create" <=> signal = "create"
           /\ signal' = "start" => signal = "start"
           /\ signal' = "create" => next' = next \/ (next' = next + 1 /\ replayer = "main")
           /\ host = "up" => \A h \in Handlers : h \in restored' => h < at
  <1>1. replayer' = "none" /\ UNCHANGED <<at, point, starts, host, instances>>
    BY DEF CallThrows
  <1>2. restored' \subseteq Handlers /\ (host = "up" => \A h \in Handlers : h \in restored' => h < at)
    BY ParametersOK DEF CallThrows, TypeOK, Handlers
  <1>3. CASE replayer = "main"
    <2>1. sending /\ MainFails /\ invoking' = invoking
      BY <1>3 DEF CallThrows, RegisteredInv
    <2> QED
      BY <1>1, <1>2, <1>3, <2>1, MainFailsOK
  <1>4. CASE replayer = "client"
    <2>1. UNCHANGED <<mainVars, agentVars>> /\ invoking' = {}
      BY <1>4 DEF CallThrows
    <2> QED
      BY <1>1, <1>2, <1>4, <2>1 DEF mainVars, agentVars, TypeOK, Stopping
  <1> QED
    BY <1>3, <1>4 DEF TypeOK

LEMMA LosesRecordOK ==
    ASSUME TypeOK, StartsInv, ReplayStartThrows \/ ReplayConnectionThrows \/ ReplayLosesHost
    PROVE  /\ replayer # "none" /\ CallThrows
           /\ cache' \in [Handlers -> HandlerState]
           /\ ~Stopping => cache' = cache
           /\ \A h \in Handlers : /\ cache'[h].created = cache[h].created
                                  /\ cache'[h].conn = cache[h].conn
                                  /\ h < at => cache'[h] = cache[h]
  <1>1. replayer # "none" /\ CallThrows
    BY DEF ReplayStartThrows, ReplayConnectionThrows, ReplayLosesHost, Replaying
  <1>2. \/ cache' = cache
        \/ RecordAgain /\ at <= N /\ point = "start"
    BY DEF ReplayStartThrows, ReplayConnectionThrows, ReplayLosesHost, Replaying
  <1>3. CASE RecordAgain /\ at <= N /\ point = "start"
    <2>1. \A h \in Handlers : h \in Int
      BY ParametersOK DEF Handlers
    <2>2. at \in Int
      BY ParametersOK DEF TypeOK
    <2> QED
      BY <1>1, <1>3, <2>1, <2>2, RecordAgainOK
  <1>4. CASE cache' = cache
    BY <1>1, <1>4 DEF TypeOK
  <1> QED
    BY <1>2, <1>3, <1>4

LEMMA TypeStep ==
    ASSUME TypeOK, RegisteredInv, StartsInv, [Next]_vars
    PROVE  TypeOK'
  <1>0. Created \in HandlerState /\ Absent \in HandlerState
    BY CreatedOK
  <1>1. CASE CacheHandlerState
    <2>1. next \in Handlers /\ cache[next] \in HandlerState
      BY <1>1, ParametersOK DEF CacheHandlerState, TypeOK, Handlers
    <2>2. Effect(cache[next]) \in HandlerState
      BY <2>1, EffectOK
    <2>3. cache' \in [Handlers -> HandlerState]
      BY <1>1, <2>1, <2>2 DEF CacheHandlerState, TypeOK
    <2> QED
      BY <1>1, <2>3 DEF CacheHandlerState, TypeOK, agentVars, replayVars, hostVars
  <1>2. CASE Skip
    BY <1>2, ParametersOK DEF Skip, TypeOK, agentVars, replayVars, hostVars
  <1>3. CASE NextSignal
    <2>1. signal' \in Signals
      BY <1>3 DEF NextSignal, TypeOK, Signals, ConnectionSignals
    <2>2. next' \in 1 .. (N + 1)
      BY <1>3, ParametersOK DEF NextSignal, TypeOK
    <2> QED
      BY <1>3, <2>1, <2>2 DEF NextSignal, TypeOK, agentVars, replayVars, hostVars
  <1>4. CASE Send
    <2>1. next \in Handlers /\ sending
      BY <1>4 DEF Send, RegisteredInv
    <2>2. instances' \in [Handlers -> HandlerState]
      <3>1. Effect(instances[next]) \in HandlerState
        BY <2>1, EffectOK DEF TypeOK
      <3>2. Delivered(next) \in [Handlers -> HandlerState]
        BY <1>0, <2>1, <3>1 DEF Delivered, TypeOK
      <3> QED
        BY <1>4, <3>2 DEF Send, TypeOK
    <2>3. /\ next' \in 1 .. (N + 1) /\ signal' \in Signals /\ sending' \in BOOLEAN
          /\ registered' \subseteq Handlers /\ active' \subseteq Handlers
      <3>1. CASE MainSucceeds
        <4>1. next + 1 \in 1 .. (N + 1)
          BY <2>1, ParametersOK DEF Handlers
        <4>2. registered' \subseteq Handlers
          BY <2>1, <3>1 DEF MainSucceeds, TypeOK
        <4>3. active' \subseteq Handlers
          BY <2>1, <3>1 DEF MainSucceeds, TypeOK
        <4> QED
          BY <3>1, <4>1, <4>2, <4>3 DEF MainSucceeds, TypeOK
      <3>2. CASE MainFails
        BY <2>1, <3>2, MainFailsOK DEF TypeOK
      <3> QED
        BY <1>4, <3>1, <3>2 DEF Send
    <2>4. /\ replayer' = "none" /\ restored' \subseteq Handlers
          /\ UNCHANGED <<at, point, starts, host>>
      BY <1>4 DEF Send, Exchanged, TypeOK
    <2> QED
      BY <1>4, <2>2, <2>3, <2>4 DEF Send, TypeOK
  <1>5. CASE \E t \in {"main", "client"} : Launch(t)
    <2>1. PICK t \in {"main", "client"} : Launch(t)
      BY <1>5
    <2> QED
      BY <2>1, ParametersOK DEF Launch, TypeOK, mainVars, agentVars
  <1>6. CASE ReplayCreate
    <2>1. at \in Handlers
      BY <1>6, ParametersOK DEF ReplayCreate, Replaying, TypeOK, Handlers
    <2>2. starts' \in BOOLEAN
      BY <1>6, <2>1 DEF ReplayCreate, TypeOK, HandlerState
    <2>3. instances' \in [Handlers -> HandlerState]
      BY <1>0, <1>6, <2>1 DEF ReplayCreate, TypeOK
    <2> QED
      BY <1>6, <2>2, <2>3 DEF ReplayCreate, TypeOK, mainVars, agentVars
  <1>7. CASE ReplayStart
    <2>1. at \in Handlers /\ replayer # "none" /\ at <= N /\ point = "start" /\ RecordAgain
      BY <1>7, ParametersOK DEF ReplayStart, Replaying, TypeOK, Handlers
    <2>2. cache' \in [Handlers -> HandlerState]
      BY <2>1, RecordAgainOK
    <2>3. [instances[at] EXCEPT !.started = starts] \in HandlerState
      BY <2>1 DEF TypeOK, HandlerState
    <2>4. instances' \in [Handlers -> HandlerState]
      BY <1>7, <2>1, <2>3 DEF ReplayStart, TypeOK
    <2> QED
      BY <1>7, <2>2, <2>4 DEF ReplayStart, TypeOK, mainVars, agentVars
  <1>8. CASE ReplayConnection
    <2>1. at \in Handlers /\ at + 1 \in 1 .. (N + 1)
      BY <1>8, ParametersOK DEF ReplayConnection, Replaying, TypeOK, Handlers
    <2>2. [instances[at] EXCEPT !.conn = cache[at].conn] \in HandlerState
      BY <2>1 DEF TypeOK, HandlerState
    <2>3. instances' \in [Handlers -> HandlerState]
      BY <1>8, <2>1, <2>2 DEF ReplayConnection, TypeOK
    <2> QED
      BY <1>8, <2>1, <2>3 DEF ReplayConnection, TypeOK, mainVars, agentVars
  <1>9. CASE ReplayStartThrows \/ ReplayConnectionThrows \/ ReplayLosesHost
    BY <1>9, LosesRecordOK, CallThrowsOK DEF TypeOK
  <1>10. ASSUME NEW h \in Handlers, FindHandler(h) PROVE TypeOK'
    BY <1>10 DEF FindHandler, TypeOK, mainVars, agentVars, replayVars, hostVars
  <1>11. ASSUME NEW h \in Handlers, InvokeHandler(h) PROVE TypeOK'
    <2>1. /\ replayer' = "none" /\ restored' \subseteq Handlers
          /\ UNCHANGED <<at, point, starts, host>>
      BY <1>11 DEF InvokeHandler, Exchanged, TypeOK
    <2> QED
      BY <1>11, <2>1 DEF InvokeHandler, TypeOK, mainVars, agentVars
  <1>12. CASE HostEnds
    BY <1>0, <1>12 DEF HostEnds, TypeOK, mainVars, agentVars, replayVars
  <1>13. CASE UNCHANGED vars
    BY <1>13 DEF vars, mainVars, agentVars, replayVars, hostVars, TypeOK
  <1> QED
    BY <1>1, <1>2, <1>3, <1>4, <1>5, <1>6, <1>7, <1>8, <1>9, <1>10, <1>11, <1>12, <1>13
       DEF Next, MainThread, Replay

-----------------------------------------------------------------------------
(* The agent's calls and the record *)

LEMMA RegisteredStep ==
    ASSUME TypeOK, RegisteredInv, StartsInv, [Next]_vars
    PROVE  RegisteredInv'
  <1> USE DEF Handlers
  <1>1. CASE CacheHandlerState
    BY <1>1, ParametersOK DEF CacheHandlerState, TypeOK, RegisteredInv, Reached, agentVars, replayVars
  <1>2. CASE Skip
    BY <1>2, ParametersOK DEF Skip, TypeOK, RegisteredInv, Reached, agentVars, replayVars
  <1>3. CASE NextSignal
    <2>1. ~sending /\ signal' # "create"
      BY <1>3, ParametersOK DEF NextSignal, TypeOK, Signals, ConnectionSignals, RegisteredInv
    <2>2. signal' = "start" => signal = "create"
      BY <1>3 DEF NextSignal, TypeOK, Signals, ConnectionSignals
    <2> QED
      BY <1>3, <2>1, <2>2 DEF NextSignal, RegisteredInv, agentVars, replayVars
  <1>4. CASE Send
    <2>1. next \in 1 .. N /\ Reached(next) /\ ~sending' /\ sending
      BY <1>4 DEF Send, MainSucceeds, MainFails, RegisteredInv
    <2>2. /\ active' \subseteq registered'
          /\ signal' \in {"create", "start"} => signal' = signal
          /\ signal' = "create" =>
               /\ signal = "create" /\ next' = next + 1
               /\ registered' \subseteq registered \cup {next}
               /\ active' = active
      <3>1. CASE MainSucceeds
        BY <2>1, <3>1 DEF MainSucceeds, RegisteredInv, Reached
      <3>2. CASE MainFails
        BY <3>2 DEF MainFails, RegisteredInv, agentVars
      <3> QED
        BY <1>4, <3>1, <3>2 DEF Send
    <2>3. next \in Int /\ \A h \in registered : h \in Int
      BY <2>1, ParametersOK DEF TypeOK
    <2>4. signal' = "create" => \A h \in registered' : h < next'
      BY <2>2, <2>3 DEF RegisteredInv
    <2>5. replayer' = "none" /\ invoking' = invoking
      BY <1>4 DEF Send, Exchanged
    <2> QED
      BY <2>1, <2>2, <2>4, <2>5 DEF RegisteredInv
  <1>5. CASE \E t \in {"main", "client"} : Launch(t)
    BY <1>5 DEF Launch, Calling, RegisteredInv, Reached, mainVars, agentVars
  <1>6. CASE ReplayCreate \/ ReplayStart \/ ReplayConnection
    BY <1>6 DEF ReplayCreate, ReplayStart, ReplayConnection, RegisteredInv, Reached, mainVars,
                agentVars
  <1>7. CASE ReplayStartThrows \/ ReplayConnectionThrows \/ ReplayLosesHost
    <2>1. replayer # "none" /\ CallThrows
      BY <1>7, LosesRecordOK
    <2>2. /\ registered' = registered /\ active' = active /\ replayer' = "none"
          /\ invoking' \subseteq invoking
          /\ sending' => UNCHANGED mainVars
          /\ signal' = "create" <=> signal = "create"
          /\ signal' = "start" => signal = "start"
          /\ signal' = "create" => next' = next \/ next' = next + 1
      BY <2>1, CallThrowsOK
    <2>3. next \in Int /\ \A h \in registered : h \in Int
      BY ParametersOK DEF TypeOK
    <2>4. sending' => next' \in 1 .. N /\ Reached(next)'
      BY <2>2 DEF RegisteredInv, Reached, mainVars
    <2>5. signal' = "create" => \A h \in registered' : h < next'
      BY <2>2, <2>3 DEF RegisteredInv
    <2> QED
      BY <2>2, <2>4, <2>5 DEF RegisteredInv
  <1>8. ASSUME NEW h \in Handlers, FindHandler(h) PROVE RegisteredInv'
    BY <1>8 DEF FindHandler, RegisteredInv, Reached, ConnectionSignals, mainVars, agentVars,
                replayVars
  <1>9. ASSUME NEW h \in Handlers, InvokeHandler(h) PROVE RegisteredInv'
    BY <1>9 DEF InvokeHandler, Exchanged, RegisteredInv, Reached, mainVars, agentVars
  <1>10. CASE HostEnds
    BY <1>10 DEF HostEnds, RegisteredInv, Reached, mainVars, agentVars, replayVars
  <1>11. CASE UNCHANGED vars
    BY <1>11 DEF vars, RegisteredInv, Reached, mainVars, agentVars, replayVars
  <1> QED
    BY <1>1, <1>2, <1>3, <1>4, <1>5, <1>6, <1>7, <1>8, <1>9, <1>10, <1>11
       DEF Next, MainThread, Replay

LEMMA RecordStep ==
    ASSUME TypeOK, RegisteredInv, RecordInv, StartsInv, [Next]_vars
    PROVE  RecordInv'
  <1>0. /\ \A h \in Handlers : h \in Int /\ h <= N
        /\ cache \in [Handlers -> HandlerState]
        /\ next \in Int /\ at \in Int
    BY ParametersOK DEF TypeOK, Handlers
  <1>1. CASE CacheHandlerState
    <2>1. next \in Handlers /\ cache[next] \in HandlerState
      BY <1>1, ParametersOK DEF CacheHandlerState, TypeOK, Handlers
    <2>2. /\ cache'[next] = Effect(cache[next])
          /\ \A h \in Handlers : h # next => cache'[h] = cache[h]
          /\ signal' = signal /\ next' = next /\ registered' = registered /\ ~sending
      BY <1>0, <1>1, <2>1 DEF CacheHandlerState, agentVars
    <2>3. /\ cache'[next].created
          /\ signal = "start" => cache'[next].started
          /\ signal \in ConnectionSignals => cache'[next].conn = Status
      BY <2>1, <2>2, EffectOK
    <2>4. signal = "create" => cache'[next] = Created
      <3>1. signal = "create" => cache[next] = Absent
        BY <2>1, <2>2 DEF RecordInv
      <3> QED
        BY <2>1, <2>2, <3>1, EffectOK
    <2>5. signal = "create" => \A h \in Handlers : h > next => cache'[h] = Absent
      BY <1>0, <2>2 DEF RecordInv
    <2>6. \A h \in registered : cache'[h].created
      BY <2>2, <2>3 DEF RecordInv, TypeOK
    <2>7. Status' = Status
      BY <2>2 DEF Status
    <2>8. sending' = TRUE
      BY <1>1 DEF CacheHandlerState
    <2> QED
      BY <2>2, <2>3, <2>4, <2>5, <2>6, <2>7, <2>8 DEF RecordInv
  <1>2. CASE Skip
    <2>1. signal = "create" => Reached(next)
      BY DEF Reached, ConnectionSignals
    <2>2. signal # "create"
      BY <1>2, <2>1 DEF Skip
    <2> QED
      BY <1>2, <2>2 DEF Skip, RecordInv, agentVars
  <1>3. CASE NextSignal
    <2>1. ~sending /\ signal' # "create"
      BY <1>3, ParametersOK DEF NextSignal, TypeOK, Signals, ConnectionSignals, RegisteredInv,
                                Handlers
    <2> QED
      BY <1>3, <2>1 DEF NextSignal, RecordInv, agentVars
  <1>4. CASE Send
    <2>1. next \in Handlers /\ sending /\ sending' = FALSE /\ cache' = cache
      BY <1>4 DEF Send, MainSucceeds, MainFails, RegisteredInv
    <2>2. /\ registered' \subseteq registered \cup {next}
          /\ signal' = "create" => signal = "create" /\ next' = next + 1
      BY <1>4 DEF Send, MainSucceeds, MainFails, agentVars
    <2>3. \A h \in registered' : cache'[h].created
      BY <2>1, <2>2 DEF RecordInv
    <2>4. signal' = "create" => \A h \in Handlers : h > next' \/ h = next' => cache'[h] = Absent
      BY <1>0, <2>1, <2>2 DEF RecordInv
    <2> QED
      BY <2>1, <2>3, <2>4 DEF RecordInv
  <1>5. CASE \E t \in {"main", "client"} : Launch(t)
    BY <1>5 DEF Launch, RecordInv, Status, mainVars, agentVars
  <1>6. CASE ReplayCreate \/ ReplayConnection
    BY <1>6 DEF ReplayCreate, ReplayConnection, RecordInv, Status, mainVars, agentVars
  <1>7. CASE ReplayStart
    <2>1. at \in Handlers /\ replayer # "none" /\ at <= N /\ point = "start" /\ RecordAgain
      BY <1>7, ParametersOK DEF ReplayStart, Replaying, TypeOK, Handlers
    <2>2. /\ \A h \in Handlers : /\ cache'[h].created = cache[h].created
                                 /\ cache'[h].conn = cache[h].conn
          /\ ~Stopping => cache' = cache
      BY <2>1, RecordAgainOK
    <2>3. registered' = registered /\ signal' = signal /\ next' = next /\ sending' = sending
      BY <1>7 DEF ReplayStart, mainVars, agentVars
    <2>4. signal \in {"create", "start"} => ~Stopping
      BY DEF Stopping
    <2>5. registered \subseteq Handlers /\ (sending => next \in Handlers)
      BY DEF TypeOK, RegisteredInv
    <2>6. Status' = Status
      BY <2>3 DEF Status
    <2> QED
      BY <2>2, <2>3, <2>4, <2>5, <2>6 DEF RecordInv
  <1>8. CASE ReplayStartThrows \/ ReplayConnectionThrows \/ ReplayLosesHost
    <2>1. /\ replayer # "none" /\ CallThrows
          /\ ~Stopping => cache' = cache
          /\ \A h \in Handlers : /\ cache'[h].created = cache[h].created
                                 /\ cache'[h].conn = cache[h].conn
      BY <1>8, LosesRecordOK
    <2>2. /\ registered' = registered
          /\ sending' => sending
          /\ sending' \/ replayer = "client" => UNCHANGED mainVars
          /\ replayer = "main" => sending
          /\ signal' = "create" <=> signal = "create"
          /\ signal' = "create" => next' = next \/ (next' = next + 1 /\ replayer = "main")
      BY <2>1, CallThrowsOK
    <2>3. signal \in {"create", "start"} => ~Stopping
      BY DEF Stopping
    <2>4. registered \subseteq Handlers /\ (sending => next \in Handlers)
      BY DEF TypeOK, RegisteredInv
    <2>5. \A h \in registered' : cache'[h].created
      BY <2>1, <2>2, <2>4 DEF RecordInv
    <2>6. ASSUME sending'
          PROVE  /\ signal' = "create" => cache'[next'] = Created
                 /\ cache'[next'].created
                 /\ signal' = "start" => cache'[next'].started
                 /\ signal' \in ConnectionSignals => cache'[next'].conn = Status'
      <3>1. UNCHANGED mainVars /\ sending
        BY <2>2, <2>6
      <3>2. Status' = Status
        BY <3>1 DEF Status, mainVars
      <3> QED
        BY <2>1, <2>3, <2>4, <3>1, <3>2 DEF RecordInv, mainVars
    <2>7. ASSUME signal' = "create", NEW h \in Handlers, h > next' \/ (h = next' /\ ~sending')
          PROVE  cache'[h] = Absent
      <3>1. cache' = cache /\ signal = "create"
        BY <2>1, <2>2, <2>3, <2>7
      <3>2. h > next \/ (h = next /\ ~sending)
        <4>1. CASE replayer = "main"
          <5>1. replayer # "client"
            BY <4>1
          <5>2. CASE next' = next + 1
            BY <1>0, <2>7, <5>2
          <5>3. CASE next' = next
            BY <2>1, <4>1, <5>3, <2>7, CallThrowsOK, <1>0, MainFailsOK DEF MainFails
          <5> QED
            BY <2>2, <2>7, <5>2, <5>3
        <4>2. CASE replayer # "main"
          <5>1. UNCHANGED mainVars
            BY <2>1, <2>2, <4>2 DEF TypeOK
          <5> QED
            BY <2>7, <5>1 DEF mainVars
        <4> QED
          BY <4>1, <4>2
      <3> QED
        BY <3>1, <3>2 DEF RecordInv
    <2> QED
      BY <2>5, <2>6, <2>7 DEF RecordInv
  <1>9. ASSUME NEW h \in Handlers, FindHandler(h) PROVE RecordInv'
    BY <1>9 DEF FindHandler, RecordInv, Status, mainVars, agentVars
  <1>10. ASSUME NEW h \in Handlers, InvokeHandler(h) PROVE RecordInv'
    BY <1>10 DEF InvokeHandler, RecordInv, Status, mainVars, agentVars
  <1>11. CASE HostEnds
    BY <1>11 DEF HostEnds, RecordInv, Status, mainVars, agentVars
  <1>12. CASE UNCHANGED vars
    BY <1>12 DEF vars, RecordInv, Status, mainVars, agentVars
  <1> QED
    BY <1>1, <1>2, <1>3, <1>4, <1>5, <1>6, <1>7, <1>8, <1>9, <1>10, <1>11, <1>12
       DEF Next, MainThread, Replay

LEMMA StartsStep ==
    ASSUME TypeOK, RegisteredInv, StartsInv, [Next]_vars
    PROVE  StartsInv'
  <1>0. /\ cache \in [Handlers -> HandlerState] /\ starts \in BOOLEAN /\ at \in Int
        /\ at <= N => at \in Handlers
    BY ParametersOK DEF TypeOK, Handlers
  <1>1. CASE CacheHandlerState
    <2>1. next \in Handlers /\ cache[next] \in HandlerState
      BY <1>1, ParametersOK DEF CacheHandlerState, TypeOK, Handlers
    <2>2. /\ cache'[next] = Effect(cache[next])
          /\ \A h \in Handlers : h # next => cache'[h] = cache[h]
          /\ ~sending /\ signal' = signal /\ replayVars' = replayVars
      BY <1>0, <1>1, <2>1 DEF CacheHandlerState
    <2>3. CASE replayer = "none"
      BY <2>2, <2>3 DEF StartsInv, replayVars
    <2>4. CASE replayer # "none"
      <3>1. signal \in ConnectionSignals \cup {"stop"} \/ signal = "done"
        BY <2>2, <2>4 DEF RegisteredInv, TypeOK, Signals, ConnectionSignals
      <3>2. signal # "done"
        BY <1>1 DEF CacheHandlerState, Reached, ConnectionSignals
      <3>3. CASE signal = "stop"
        <4>1. ~Effect(cache[next]).started
          BY <2>1, <3>3, EffectOK
        <4> QED
          BY <1>0, <2>2, <3>3, <4>1 DEF StartsInv, Stopping, replayVars
      <3>4. CASE signal \in ConnectionSignals
        <4>1. Effect(cache[next]).started = cache[next].started
          BY <2>1, <3>4, EffectOK
        <4>2. \A h \in Handlers : cache'[h].started = cache[h].started
          BY <2>2, <4>1
        <4> QED
          BY <1>0, <2>2, <4>2 DEF StartsInv, Stopping, replayVars
      <3> QED
        BY <3>1, <3>2, <3>3, <3>4
    <2> QED
      BY <2>3, <2>4
  <1>2. CASE Skip
    BY <1>2 DEF Skip, StartsInv, Stopping, replayVars
  <1>3. CASE NextSignal
    <2>1. Stopping => Stopping'
      BY <1>3 DEF NextSignal, Stopping
    <2> QED
      BY <1>3, <2>1 DEF NextSignal, StartsInv, replayVars
  <1>4. CASE Send
    BY <1>4 DEF Send, Exchanged, StartsInv
  <1>5. CASE \E t \in {"main", "client"} : Launch(t)
    BY <1>5 DEF Launch, StartsInv
  <1>6. CASE ReplayCreate
    <2>1. cache' = cache /\ starts' = cache[at].started /\ at' = at
      BY <1>6 DEF ReplayCreate
    <2> QED
      BY <2>1 DEF StartsInv
  <1>7. CASE ReplayStart \/ ReplayConnection
    BY <1>7 DEF ReplayStart, ReplayConnection, StartsInv
  <1>8. CASE ReplayStartThrows \/ ReplayConnectionThrows \/ ReplayLosesHost
    BY <1>8, LosesRecordOK, CallThrowsOK DEF StartsInv
  <1>9. ASSUME NEW h \in Handlers, FindHandler(h) PROVE StartsInv'
    BY <1>9 DEF FindHandler, StartsInv, Stopping, mainVars, replayVars
  <1>10. ASSUME NEW h \in Handlers, InvokeHandler(h) PROVE StartsInv'
    BY <1>10 DEF InvokeHandler, Exchanged, StartsInv
  <1>11. CASE HostEnds
    BY <1>11 DEF HostEnds, StartsInv, Stopping, mainVars, replayVars
  <1>12. CASE UNCHANGED vars
    BY <1>12 DEF vars, StartsInv, Stopping, mainVars, replayVars
  <1> QED
    BY <1>1, <1>2, <1>3, <1>4, <1>5, <1>6, <1>7, <1>8, <1>9, <1>10, <1>11, <1>12
       DEF Next, MainThread, Replay

-----------------------------------------------------------------------------
(* The host *)

\* Recording a call changes a handler in the record as making it will change
\* the one in the host.
LEMMA CacheKeepsAgreement ==
    ASSUME TypeOK, RegisteredInv, CacheHandlerState, NEW h \in Handlers,
           signal = "create" => h # next
    PROVE  /\ StartedAgrees(h) => StartedAgrees(h)'
           /\ EndsConn(h) = cache[h].conn => (EndsConn(h) = cache[h].conn)'
  <1>1. /\ next \in Handlers /\ cache[next] \in HandlerState /\ cache[h] \in HandlerState
        /\ instances[h] \in HandlerState
    BY ParametersOK DEF CacheHandlerState, TypeOK, Handlers
  <1>2. /\ cache' = [cache EXCEPT ![next] = Effect(cache[next])]
        /\ sending' = TRUE /\ ~sending /\ replayer # "main"
        /\ UNCHANGED <<signal, next, replayer, instances>>
    BY DEF CacheHandlerState, RegisteredInv, replayVars, hostVars
  <1>3. ~InFlight(h) /\ (InFlight(h)' <=> next = h)
    BY <1>2 DEF InFlight
  <1>4. Status' = Status /\ Stopping' = Stopping
    BY <1>2 DEF Status, Stopping
  <1>5. CASE h # next
    <2>1. cache'[h] = cache[h]
      BY <1>1, <1>2, <1>5 DEF TypeOK
    <2> QED
      BY <1>2, <1>3, <1>4, <1>5, <2>1 DEF StartedAgrees, EndsStarted, EndsConn
  <1>6. CASE h = next
    <2>1. cache'[h] = Effect(cache[h])
      BY <1>1, <1>2, <1>6 DEF TypeOK
    <2>2. signal \in {"start", "stop"} \cup ConnectionSignals
      BY <1>6 DEF CacheHandlerState, Reached, TypeOK, Signals, ConnectionSignals
    <2>3. CASE signal = "start"
      <3>1. Effect(cache[h]).started /\ Effect(cache[h]).conn = cache[h].conn
        BY <1>1, <2>3, EffectOK
      <3> QED
        BY <1>2, <1>3, <1>4, <1>6, <2>1, <2>3, <3>1
           DEF StartedAgrees, EndsStarted, EndsConn, ConnectionSignals
    <2>4. CASE signal = "stop"
      <3>1. ~Effect(cache[h]).started /\ Effect(cache[h]).conn = cache[h].conn
        BY <1>1, <2>4, EffectOK
      <3> QED
        BY <1>2, <1>3, <1>4, <1>6, <2>1, <2>4, <3>1
           DEF StartedAgrees, EndsStarted, EndsConn, ConnectionSignals, Stopping
    <2>5. CASE signal \in ConnectionSignals
      <3>1. Effect(cache[h]).conn = Status /\ Effect(cache[h]).started = cache[h].started
        BY <1>1, <2>5, EffectOK
      <3> QED
        BY <1>2, <1>3, <1>4, <1>6, <2>1, <2>5, <3>1
           DEF StartedAgrees, EndsStarted, EndsConn, ConnectionSignals
    <2> QED
      BY <2>2, <2>3, <2>4, <2>5
  <1> QED
    BY <1>5, <1>6

\* Nothing else that leaves the host and the record alone disturbs it.
LEMMA KeepsAgreement ==
    ASSUME NEW h \in Handlers,
           UNCHANGED <<instances, cache>>, Stopping => Stopping',
           InFlight(h)' <=> InFlight(h), InFlight(h) => signal' = signal
    PROVE  /\ StartedAgrees(h) => StartedAgrees(h)'
           /\ EndsConn(h) = cache[h].conn => (EndsConn(h) = cache[h].conn)'
  BY DEF StartedAgrees, EndsStarted, EndsConn, Status

\* What the call finds in the host: the old one, or one that was told the whole
\* record.
LEMMA FoundHeld ==
    ASSUME TypeOK, RegisteredInv, HostInv, NEW t \in {"main", "client"}, MayExchange(t), Exchanged,
           NEW h \in registered \ Failing, h \in restored'
    PROVE  /\ instances[h].created
           /\ EndsConn(h) = cache[h].conn
           /\ StartedAgrees(h)
  <1>1. Told(h)
    BY ParametersOK DEF MayExchange, Exchanged, Told, TypeOK, Handlers
  <1> QED
    BY <1>1 DEF MayExchange, HostInv

LEMMA SendKeepsHost ==
    ASSUME TypeOK, RegisteredInv, RecordInv, HostInv, Send
    PROVE  HostInv'
  <1> SUFFICES ASSUME NEW h \in registered' \ Failing, h \in restored'
               PROVE  /\ instances'[h].created
                      /\ EndsConn(h)' = cache'[h].conn
                      /\ StartedAgrees(h)'
    BY DEF Send, Exchanged, HostInv, Told
  <1>1. /\ next \in Handlers /\ sending /\ sending' = FALSE /\ cache' = cache
        /\ registered' \subseteq registered \cup {next}
        /\ Stopping => Stopping'
        /\ signal # "create" => registered' = registered
        /\ MayExchange("main") /\ Exchanged
    BY DEF Send, MainSucceeds, MainFails, RegisteredInv, agentVars, Stopping
  <1>2. h \in Handlers /\ cache[h] \in HandlerState /\ instances[h] \in HandlerState
    BY <1>1 DEF TypeOK
  <1>3. ~InFlight(h)'
    BY <1>1 DEF InFlight
  <1>4. CASE h = next /\ signal = "create"
    <2>1. instances' = Delivered(next)
      BY <1>4 DEF Send, Obeys, MayThrow
    <2>2. instances'[h] = Created
      BY <1>1, <1>4, <2>1 DEF Delivered, TypeOK
    <2>3. cache'[h] = Created
      BY <1>1, <1>4 DEF RecordInv
    <2>4. EndsStarted(h)' <=> Created.started
      BY <1>3, <2>2 DEF EndsStarted
    <2>5. EndsConn(h)' = Created.conn
      BY <1>3, <2>2 DEF EndsConn
    <2> QED
      BY <2>2, <2>3, <2>4, <2>5, CreatedOK DEF StartedAgrees
  <1>5. CASE h # next
    <2>1. h \in registered
      BY <1>1, <1>5
    <2>2. instances[h].created /\ EndsConn(h) = cache[h].conn /\ StartedAgrees(h)
      BY <1>1, <2>1, FoundHeld
    <2>3. instances'[h] = instances[h]
      BY <1>1, <1>2, <1>5 DEF Send, Delivered, TypeOK
    <2>4. ~InFlight(h)
      BY <1>5 DEF InFlight
    <2> QED
      BY <1>1, <1>3, <2>2, <2>3, <2>4 DEF StartedAgrees, EndsStarted, EndsConn
  <1>6. CASE h = next /\ signal # "create"
    <2>1. instances[h].created /\ EndsConn(h) = cache[h].conn /\ StartedAgrees(h)
      BY <1>1, <1>6, FoundHeld
    <2>2. \/ instances' = Delivered(next)
          \/ instances' = instances /\ signal = "start" /\ next \in Failing
      BY <1>6, <2>1 DEF Send, MayThrow, Obeys
    <2>3. instances'[h] = Effect(instances[h])
      BY <1>1, <1>2, <1>6, <2>2 DEF Delivered, TypeOK
    <2>4. signal \in {"start", "stop"} \cup ConnectionSignals
      BY <1>1, <1>6 DEF RegisteredInv, Reached, TypeOK, Signals, ConnectionSignals
    <2>5. Effect(instances[h]).created
      BY <1>2, EffectOK
    <2>6. CASE signal = "start"
      <3>1. Effect(instances[h]).started /\ Effect(instances[h]).conn = instances[h].conn
        BY <1>2, <2>6, EffectOK
      <3>2. cache[h].started
        BY <1>1, <1>6, <2>6 DEF RecordInv
      <3> QED
        BY <1>1, <1>3, <2>1, <2>3, <2>5, <2>6, <3>1, <3>2
           DEF StartedAgrees, EndsStarted, EndsConn, ConnectionSignals
    <2>7. CASE signal = "stop"
      <3>1. ~Effect(instances[h]).started /\ Effect(instances[h]).conn = instances[h].conn
        BY <1>2, <2>7, EffectOK
      <3> QED
        BY <1>1, <1>3, <2>1, <2>3, <2>5, <2>7, <3>1
           DEF StartedAgrees, EndsStarted, EndsConn, ConnectionSignals, Stopping
    <2>8. CASE signal \in ConnectionSignals
      <3>1. /\ Effect(instances[h]).conn = Status
            /\ Effect(instances[h]).started = instances[h].started
        BY <1>2, <2>8, EffectOK
      <3>2. cache[h].conn = Status
        BY <1>1, <1>6, <2>8 DEF RecordInv
      <3>3. EndsStarted(h) <=> instances[h].started
        BY <2>8 DEF EndsStarted, ConnectionSignals
      <3> QED
        BY <1>1, <1>3, <2>1, <2>3, <2>5, <3>1, <3>2, <3>3
           DEF StartedAgrees, EndsStarted, EndsConn
    <2> QED
      BY <2>4, <2>6, <2>7, <2>8
  <1> QED
    BY <1>4, <1>5, <1>6

\* The replay tells the host of one handler after the other what the record has
\* of it then.
LEMMA ReplayKeepsHost ==
    ASSUME TypeOK, RegisteredInv, RecordInv, StartsInv, HostInv, ReplayInv,
           ReplayCreate \/ ReplayStart \/ ReplayConnection
    PROVE  HostInv' /\ ReplayInv'
  <1>1. /\ at \in Handlers /\ at <= N /\ replayer # "none" /\ replayer' = replayer
        /\ host = "up"
        /\ UNCHANGED <<signal, next, sending, registered, host>>
    BY ParametersOK DEF ReplayCreate, ReplayStart, ReplayConnection, Replaying, TypeOK, Handlers,
                        mainVars, agentVars
  <1>2. /\ instances \in [Handlers -> HandlerState] /\ cache \in [Handlers -> HandlerState]
        /\ \A h \in Handlers : h \in Int
        /\ registered \subseteq Handlers
    BY ParametersOK DEF TypeOK, Handlers
  <1>3. \A h \in Handlers : InFlight(h)' <=> InFlight(h)
    BY <1>1 DEF InFlight
  <1>4. Status' = Status /\ Stopping' = Stopping
    BY <1>1 DEF Status, Stopping
  \* Handlers before the present one are left alone.
  <1>5. ASSUME NEW h \in registered \ Failing, h < at,
               instances'[h] = instances[h], cache'[h] = cache[h]
        PROVE  /\ instances'[h].created
               /\ EndsConn(h)' = cache'[h].conn
               /\ StartedAgrees(h)'
    <2>1. instances[h].created /\ EndsConn(h) = cache[h].conn /\ StartedAgrees(h)
      BY <1>1, <1>5 DEF HostInv, Told
    <2> QED
      BY <1>1, <1>2, <1>3, <1>4, <1>5, <2>1 DEF StartedAgrees, EndsStarted, EndsConn
  <1>6. CASE ReplayCreate
    <2>1. at' = at /\ cache' = cache /\ point' = "start"
          /\ instances' = [instances EXCEPT ![at] = Created]
      BY <1>6 DEF ReplayCreate
    <2>2. instances'[at].created /\ \A h \in Handlers : h # at => instances'[h] = instances[h]
      BY <1>1, <1>2, <2>1, CreatedOK
    <2>3. ReplayInv'
      BY <1>1, <2>1, <2>2 DEF ReplayInv
    <2>4. HostInv'
      BY <1>1, <1>2, <1>5, <2>1, <2>2 DEF HostInv, Told
    <2> QED
      BY <2>3, <2>4
  <1>7. CASE ReplayStart
    <2>1. /\ at' = at /\ point' = "connect" /\ RecordAgain /\ point = "start"
          /\ instances' = [instances EXCEPT ![at].started = starts]
      BY <1>7 DEF ReplayStart, Replaying
    <2>2. /\ cache'[at].started = starts
          /\ \A h \in Handlers : h # at => cache'[h] = cache[h]
      BY <1>1, <2>1, RecordAgainOK
    <2>3. /\ instances'[at].started = starts
          /\ instances'[at].created = instances[at].created
          /\ \A h \in Handlers : h # at => instances'[h] = instances[h]
      BY <1>1, <1>2, <2>1 DEF HandlerState
    <2>4. instances[at].created
      BY <1>1, <2>1 DEF ReplayInv
    <2>5. StartedAgrees(at)'
      <3>1. ~(InFlight(at) /\ signal = "start")
        BY <1>1 DEF InFlight, RegisteredInv, TypeOK
      <3>2. EndsStarted(at)' <=> starts /\ ~(InFlight(at) /\ signal = "stop")
        BY <1>1, <1>3, <2>1, <2>3, <3>1 DEF EndsStarted
      <3> QED
        BY <1>1, <1>4, <2>1, <2>2, <3>2 DEF StartedAgrees, Stopping
    <2>6. ReplayInv'
      BY <1>1, <2>1, <2>3, <2>4, <2>5 DEF ReplayInv
    <2>7. HostInv'
      BY <1>1, <1>2, <1>5, <2>1, <2>2, <2>3 DEF HostInv, Told
    <2> QED
      BY <2>6, <2>7
  <1>8. CASE ReplayConnection
    <2>1. /\ at' = at + 1 /\ point' = "create" /\ cache' = cache /\ point = "connect"
          /\ instances' = [instances EXCEPT ![at].conn = cache[at].conn]
      BY <1>8 DEF ReplayConnection, Replaying
    <2>2. /\ instances'[at].conn = cache[at].conn
          /\ instances'[at].started = instances[at].started
          /\ instances'[at].created = instances[at].created
          /\ \A h \in Handlers : h # at => instances'[h] = instances[h]
      BY <1>1, <1>2, <2>1 DEF HandlerState
    <2>3. instances[at].created /\ StartedAgrees(at)
      BY <1>1, <2>1 DEF ReplayInv
    <2>0. PICK a \in Handlers : a = at
      BY <1>1
    <2>4. StartedAgrees(a)'
      BY <1>1, <2>0, <1>3, <1>4, <2>1, <2>2, <2>3 DEF StartedAgrees, EndsStarted
    <2>5. EndsConn(a)' = cache'[a].conn
      <3>1. InFlight(at) /\ signal \in ConnectionSignals => cache[at].conn = Status
        BY DEF InFlight, RecordInv
      <3> QED
        BY <1>1, <1>3, <1>4, <2>0, <2>1, <2>2, <3>1 DEF EndsConn
    <2>6. \A h \in Handlers : h < at' => h < at \/ h = a
      BY <1>1, <1>2, <2>0, <2>1
    <2>7. HostInv'
      BY <1>1, <1>2, <1>5, <2>0, <2>1, <2>2, <2>3, <2>4, <2>5, <2>6 DEF HostInv, Told
    <2>8. ReplayInv'
      BY <2>1 DEF ReplayInv
    <2> QED
      BY <2>7, <2>8
  <1> QED
    BY <1>6, <1>7, <1>8

LEMMA HostStep ==
    ASSUME TypeOK, RegisteredInv, RecordInv, StartsInv, HostInv, ReplayInv, [Next]_vars
    PROVE  HostInv' /\ ReplayInv'
  <1>0. registered \subseteq Handlers /\ (at <= N => at \in Handlers)
    BY ParametersOK DEF TypeOK, Handlers
  <1>1. CASE CacheHandlerState
    <2>1. /\ UNCHANGED <<signal, next, host, replayer, at, point, instances, restored, registered>>
          /\ \A h \in Handlers : Told(h)' <=> Told(h)
      BY <1>1 DEF CacheHandlerState, agentVars, replayVars, hostVars, Told
    <2>2. signal = "create" => \A h \in registered : h # next
      BY ParametersOK DEF RegisteredInv, TypeOK
    <2>3. signal = "create" => replayer = "none"
      BY <1>1 DEF CacheHandlerState, RegisteredInv, TypeOK
    <2>4. HostInv'
      BY <1>0, <1>1, <2>1, <2>2, CacheKeepsAgreement DEF HostInv
    <2>5. ReplayInv'
      BY <1>0, <1>1, <2>1, <2>3, CacheKeepsAgreement DEF ReplayInv
    <2> QED
      BY <2>4, <2>5
  <1>2. CASE Skip \/ NextSignal \/ \E h \in Handlers : FindHandler(h)
    <2>1. /\ UNCHANGED <<host, replayer, at, point, instances, restored, registered, cache, sending>>
          /\ sending => UNCHANGED <<signal, next>>
          /\ Stopping => Stopping'
          /\ \A h \in Handlers : Told(h)' <=> Told(h)
      <3>1. CASE Skip
        BY <3>1 DEF Skip, agentVars, replayVars, hostVars, Told, Stopping
      <3>2. CASE NextSignal
        <4>1. ~sending
          BY <3>2, ParametersOK DEF NextSignal, TypeOK, RegisteredInv, Handlers
        <4>2. Stopping => Stopping'
          BY <3>2 DEF NextSignal, Stopping
        <4> QED
          BY <3>2, <4>1, <4>2 DEF NextSignal, agentVars, replayVars, hostVars, Told
      <3>3. CASE \E h \in Handlers : FindHandler(h)
        BY <3>3 DEF FindHandler, mainVars, agentVars, replayVars, hostVars, Told, Stopping
      <3> QED
        BY <1>2, <3>1, <3>2, <3>3
    <2>2. \A h \in Handlers : /\ InFlight(h)' <=> InFlight(h)
                              /\ InFlight(h) => signal' = signal
      BY <2>1 DEF InFlight
    <2>3. HostInv'
      BY <1>0, <2>1, <2>2, KeepsAgreement DEF HostInv
    <2>4. ReplayInv'
      BY <1>0, <2>1, <2>2, KeepsAgreement DEF ReplayInv
    <2> QED
      BY <2>3, <2>4
  <1>3. CASE Send
    <2>1. replayer' = "none"
      BY <1>3 DEF Send, Exchanged
    <2> QED
      BY <1>3, <2>1, SendKeepsHost DEF ReplayInv
  <1>4. CASE \E t \in {"main", "client"} : Launch(t)
    <2>1. PICK t \in {"main", "client"} : Launch(t)
      BY <1>4
    <2>2. replayer' # "none" /\ at' = 1 /\ point' = "create" /\ registered' = registered
      BY <2>1 DEF Launch, agentVars
    <2>3. \A h \in Handlers : ~(h < 1)
      BY ParametersOK DEF Handlers
    <2> QED
      BY <1>0, <2>2, <2>3 DEF HostInv, ReplayInv, Told
  <1>5. CASE ReplayCreate \/ ReplayStart \/ ReplayConnection
    BY <1>5, ReplayKeepsHost
  <1>6. CASE ReplayStartThrows \/ ReplayConnectionThrows \/ ReplayLosesHost
    <2>1. /\ replayer # "none" /\ CallThrows
          /\ \A h \in Handlers : h < at => cache'[h] = cache[h]
      BY <1>6, LosesRecordOK
    <2>2. /\ replayer' = "none"
          /\ UNCHANGED <<at, host, instances, registered>>
          /\ sending' \/ replayer = "client" => UNCHANGED mainVars
          /\ replayer = "main" => sending'= FALSE
          /\ Stopping => Stopping'
          /\ host = "up" => \A h \in Handlers : h \in restored' => h < at
      BY <2>1, CallThrowsOK, MainFailsOK
    <2>3. \A h \in Handlers : /\ InFlight(h)' <=> InFlight(h)
                              /\ InFlight(h) => signal' = signal
      BY <2>1, <2>2 DEF InFlight, mainVars, TypeOK
    <2>4. ASSUME host' = "up", NEW h \in registered' \ Failing, Told(h)'
          PROVE  /\ instances'[h].created
                 /\ EndsConn(h)' = cache'[h].conn
                 /\ StartedAgrees(h)'
      <3>1. h \in Handlers /\ h < at /\ host = "up" /\ h \in registered
        BY <1>0, <2>2, <2>4 DEF Told
      <3>2. instances[h].created /\ EndsConn(h) = cache[h].conn /\ StartedAgrees(h)
        BY <2>1, <2>4, <3>1 DEF HostInv, Told
      <3>3. cache'[h] = cache[h] /\ instances' = instances
        BY <2>1, <2>2, <3>1
      <3> QED
        BY <2>2, <2>3, <3>1, <3>2, <3>3 DEF StartedAgrees, EndsStarted, EndsConn, Status
    <2> QED
      BY <2>2, <2>4 DEF HostInv, ReplayInv
  <1>7. ASSUME NEW g \in Handlers, InvokeHandler(g) PROVE HostInv' /\ ReplayInv'
    <2>1. /\ UNCHANGED <<signal, next, sending, registered, cache, instances, host>>
          /\ replayer' = "none" /\ MayExchange("client") /\ Exchanged
      BY <1>7 DEF InvokeHandler, mainVars, agentVars, Exchanged
    <2>2. replayer # "main"
      BY <2>1 DEF MayExchange
    <2>3. \A h \in Handlers : InFlight(h)' <=> InFlight(h)
      BY <2>1, <2>2 DEF InFlight
    <2>4. Stopping' = Stopping
      BY <2>1 DEF Stopping
    <2>5. HostInv'
      BY <1>0, <2>1, <2>3, <2>4, FoundHeld, KeepsAgreement DEF HostInv, Told
    <2> QED
      BY <2>1, <2>5 DEF ReplayInv
  <1>8. CASE HostEnds
    BY <1>8 DEF HostEnds, HostInv, ReplayInv
  <1>9. CASE UNCHANGED vars
    <2>1. /\ UNCHANGED <<signal, next, sending, registered, cache, host, instances>>
          /\ UNCHANGED <<replayer, at, point, restored>>
      BY <1>9 DEF vars, mainVars, agentVars, replayVars, hostVars
    <2>2. \A h \in Handlers : InFlight(h)' <=> InFlight(h)
      BY <2>1 DEF InFlight
    <2>3. Stopping' = Stopping /\ \A h \in Handlers : Told(h)' <=> Told(h)
      BY <2>1 DEF Stopping, Told
    <2> QED
      BY <1>0, <2>1, <2>2, <2>3, KeepsAgreement DEF HostInv, ReplayInv
  <1> QED
    BY <1>1, <1>2, <1>3, <1>4, <1>5, <1>6, <1>7, <1>8, <1>9 DEF Next, MainThread, Replay

-----------------------------------------------------------------------------
(* The theorems *)

(***************************************************************************)
(* The inductive invariant: the record and a running host differ by the    *)
(* effect of the call in flight and, while handlers are being stopped, by  *)
(* a "started" that the replay wrote back; and the replay, which reads the *)
(* record in one step and writes it in another, keeps them so for the      *)
(* handlers it has reached.  (CacheHandlerState before SendAndGetResponse, *)
(* and SendCachedHandlerState for a new host.)                             *)
(***************************************************************************)
THEOREM Invariant == Spec => []IInv
  <1>1. IInv /\ [Next]_vars => IInv'
    BY TypeStep, RegisteredStep, RecordStep, StartsStep, HostStep DEF IInv
  <1> QED
    BY InitOK, <1>1, PTL DEF Spec

(***************************************************************************)
(* A running host agrees with the agent's record of every handler that     *)
(* the last replay reached, for any number of handlers, any of which may   *)
(* be inactive or throw, whatever is recorded while a replay is under way: *)
(* a stop that the replay overwrites is the one difference, and then the   *)
(* record says "started" of a stopped handler and never the opposite.      *)
(* (OutOfProcPluginBinaryProxy::OnPluginLoaded.)                           *)
(***************************************************************************)
THEOREM RecordReplayed == Spec => []HostAgreesWithRecord
  <1>1. IInv => HostAgreesWithRecord
    <2> SUFFICES ASSUME IInv, host = "up", replayer = "none",
                        NEW h \in (registered \cap restored) \ Failing, ~(sending /\ next = h)
                 PROVE  /\ instances[h].created
                        /\ instances[h].conn = cache[h].conn
                        /\ instances[h].started => cache[h].started
                        /\ Stopping \/ instances[h].started = cache[h].started
      BY DEF HostAgreesWithRecord
    <2>1. instances[h].created /\ EndsConn(h) = cache[h].conn /\ StartedAgrees(h)
      BY DEF IInv, HostInv, Told
    <2>2. ~InFlight(h)
      BY DEF InFlight
    <2>3. instances[h].started \in BOOLEAN /\ cache[h].started \in BOOLEAN
      BY DEF IInv, TypeOK, HandlerState
    <2> QED
      BY <2>1, <2>2, <2>3 DEF StartedAgrees, EndsStarted, EndsConn
  <1> QED
    BY Invariant, <1>1, PTL

===============================================================================
