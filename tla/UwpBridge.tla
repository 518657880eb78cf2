------------------------------- MODULE UwpBridge -------------------------------
(***************************************************************************)
(* The agent with its bridge to UWP apps.  Every Run starts a thread of    *)
(* its own that serves the apps' remote calls: SetScopeId, which the       *)
(* worker may be waiting for, a reboot, and reads of the TPM.  The         *)
(* interfaces are registered with RPC_IF_AUTOLISTEN, so a call can arrive  *)
(* at any time between their registration and their removal, whether the   *)
(* server listens or not, and it reaches the agent through one static      *)
(* pointer.                                                                *)
(*                                                                         *)
(* Each step of the worker is AgentService's, together with what it does   *)
(* to the bridge and to ServiceParameters.                                 *)
(***************************************************************************)
EXTENDS AgentService, Sequences

CONSTANTS
    Apps,           \* UWP apps, each with at most one call under way
    ScopeIds        \* what they set: any string, the empty one too

Interfaces == <<"dps", "reboot", "tpm">>

\* The configuration file holds a string or cannot be read.
ASSUME BridgeParametersOK == "broken" \notin ScopeIds

VARIABLES
    bridge,         \* control point of the run's bridge thread
    localDmAccess,  \* DMBridgeServer's static pointer: "none" or "set"
    exposed,        \* how many of the Interfaces are registered
    listening,      \* RpcServerListen has begun and was not told to stop
    waiting,        \* the worker is in WaitDpsScopeId
    dpsScopeId,     \* ServiceParameters: the scope id
    validDpsScopeId,\* ... and its manual-reset event
    configFile,     \* the scope id in the configuration file, or "broken"
    callPc,         \* for each app, where its call is
    callOf,         \* the interface it calls
    argument,       \* the scope id it sets, or the one it is about to save
    given           \* what apps did since the last Load: "nothing", one was told
                    \* that its id is set ("accepted"), one set the empty id
                    \* ("emptied"), and at the same time as another set one that
                    \* is not ("crossing") (ghost)

scopeVars == <<dpsScopeId, validDpsScopeId, configFile, given>>
callVars == <<callPc, callOf, argument>>
rpcVars == <<bridge, localDmAccess, exposed, listening>>
bridgeVars == <<rpcVars, waiting, scopeVars, callVars>>
bridgedVars == <<vars, bridgeVars>>

BridgedInit ==
    /\ Init
    /\ bridge = "none"
    /\ localDmAccess = "none"
    /\ exposed = 0
    /\ listening = FALSE
    /\ waiting = FALSE
    /\ configFile \in ScopeIds \cup {"", "broken"}
    /\ dpsScopeId = IF configFile = "broken" THEN "" ELSE configFile
    /\ validDpsScopeId = (dpsScopeId # "")
    /\ given = "nothing"
    /\ callPc = [a \in Apps |-> "idle"]
    /\ callOf = [a \in Apps |-> "tpm"]
    /\ argument = [a \in Apps |-> ""]

UnchangedButPc ==
    UNCHANGED <<serviceVars, stopEvent, dps, triedDps, connected, hubVars, handlerVars, late>>

Crash == pc' = "crashed" /\ UnchangedButPc

-----------------------------------------------------------------------------
(* The bridge's thread.  A DMException leaves its function, which ends the *)
(* process.                                                                *)

BridgeGoto(from, to) == Up /\ bridge = from /\ bridge' = to /\ UNCHANGED vars

UnchangedButRpc == UNCHANGED <<waiting, scopeVars, callVars>>

\* The pointer, then the security descriptor and the endpoint, which may be
\* there from the run before.
Setup ==
    /\ BridgeGoto("setup", "register")
    /\ localDmAccess' = "set"
    /\ UNCHANGED <<exposed, listening>>
    /\ UnchangedButRpc

RegisterInterfaces ==
    /\ BridgeGoto("register", IF exposed + 1 = Len(Interfaces) THEN "listen" ELSE "register")
    /\ exposed' = exposed + 1
    /\ UNCHANGED <<localDmAccess, listening>>
    /\ UnchangedButRpc

Listen ==
    /\ BridgeGoto("listen", "listening")
    /\ listening' = TRUE
    /\ UNCHANGED <<localDmAccess, exposed>>
    /\ UnchangedButRpc

SetupFails ==
    /\ Up
    /\ bridge \in {"setup", "register", "listen"}
    /\ Crash
    /\ UNCHANGED bridgeVars

ListenReturns ==
    /\ BridgeGoto("listening", "unregister")
    /\ ~listening
    /\ UNCHANGED <<localDmAccess, exposed, listening>>
    /\ UnchangedButRpc

CallsOf(i) == {a \in Apps : callPc[a] # "idle" /\ callOf[a] = i}

\* Mutant: the interfaces are removed without waiting for their calls.
UnregisterAtOnce ==
    /\ BridgeGoto("unregister", IF exposed = 1 THEN "unset" ELSE "unregister")
    /\ exposed' = exposed - 1
    /\ UNCHANGED <<localDmAccess, listening>>
    /\ UnchangedButRpc

\* An interface at a time, in the order of their registration, each once its
\* calls have completed.  New ones still arrive at the others.
UnregisterInterfaces ==
    /\ BridgeGoto("unregister", IF exposed = 1 THEN "unset" ELSE "unregister")
    /\ CallsOf(Interfaces[Len(Interfaces) + 1 - exposed]) = {}
    /\ exposed' = exposed - 1
    /\ UNCHANGED <<localDmAccess, listening>>
    /\ UnchangedButRpc

EndListening ==
    /\ BridgeGoto("unset", "ended")
    /\ localDmAccess' = "none"
    /\ UNCHANGED <<exposed, listening>>
    /\ UnchangedButRpc

BridgeThread ==
    \/ Setup \/ RegisterInterfaces \/ Listen \/ SetupFails
    \/ ListenReturns \/ UnregisterInterfaces \/ EndListening

\* The interfaces that take calls: the first ones while they are registered,
\* the last ones while they are removed.
Exposed ==
    IF bridge = "unregister" THEN {Interfaces[i] : i \in 4 - exposed .. 3}
                             ELSE {Interfaces[i] : i \in 1 .. exposed}

-----------------------------------------------------------------------------
(* A call of an app, in a thread of the RPC runtime *)

CallGoto(a, from, to) ==
    /\ Up
    /\ callPc[a] = from
    /\ callPc' = [callPc EXCEPT ![a] = to]
    /\ UNCHANGED <<vars, rpcVars, waiting>>

\* The call's locals are gone.
Returns(a, from) ==
    /\ CallGoto(a, from, "idle")
    /\ callOf' = [callOf EXCEPT ![a] = "tpm"]
    /\ argument' = [argument EXCEPT ![a] = ""]

Arrives(a) ==
    /\ CallGoto(a, "idle", "access")
    /\ \E i \in Exposed :
         /\ callOf' = [callOf EXCEPT ![a] = i]
         /\ \E s \in IF i = "dps" THEN ScopeIds ELSE {""} :
              argument' = [argument EXCEPT ![a] = s]
    /\ UNCHANGED scopeVars

\* GetLocalDmAccess and a call through the pointer, null or not.
Accesses(a) ==
    /\ Up
    /\ callPc[a] = "access"
    /\ callPc' = [callPc EXCEPT ![a] = callOf[a]]
    /\ pc' = IF localDmAccess = "set" THEN pc ELSE "crashed"
    /\ UnchangedButPc
    /\ UNCHANGED <<rpcVars, waiting, callOf, argument, scopeVars>>

\* The endorsement key, the registration id or a token, in a string which is
\* copied to memory of the runtime's.
ReadsTpm(a) ==
    /\ CallGoto(a, "tpm", "copy")
    /\ UNCHANGED <<callOf, argument, scopeVars>>

CopiesResults(a) == Returns(a, "copy") /\ UNCHANGED scopeVars

\* A DMException becomes a HRESULT, never S_OK.
FailsToRead(a) == Returns(a, "tpm") /\ UNCHANGED scopeVars

\* Destroy takes the handlers out of the host's map and leaves them active, so
\* that an end of Run or a failure of it may be met by a call into nothing.
HostDestroyed == pc \in {"destroyClient", "recover"}

InvokesReboot(a) == Returns(a, "reboot") /\ UNCHANGED scopeVars

InvokesRebootOfNothing(a) ==
    /\ Up
    /\ callPc[a] = "reboot"
    /\ HostDestroyed
    /\ Crash
    /\ UNCHANGED bridgeVars

\* ServiceParameters::SetDpsScopeId has no lock: it assigns the member...
AtEvent == {"check", "set", "reset"}

Crosses(a) ==
    \E b \in Apps : callPc[b] \in AtEvent /\ ~(argument[b] = "" <=> argument[a] = "")

AssignsScopeId(a) ==
    /\ CallGoto(a, "dps", "check")
    /\ dpsScopeId' = argument[a]
    /\ given' =
         IF Crosses(a) \/ given = "crossing" THEN "crossing"
         ELSE IF argument[a] = "" THEN "emptied" ELSE given
    /\ UNCHANGED <<callOf, argument, validDpsScopeId, configFile>>

\* ... reads its size again...
ChecksScopeId(a) ==
    /\ CallGoto(a, "check", IF dpsScopeId # "" THEN "set" ELSE "reset")
    /\ UNCHANGED <<callOf, argument, scopeVars>>

\* Mutant: the event is left to the next Load.
SavesOnly(a) ==
    /\ \/ CallGoto(a, "set", "save")
       \/ CallGoto(a, "reset", "save")
    /\ UNCHANGED <<callOf, argument, scopeVars>>

\* ... and sets the event, or resets it.
SignalsScopeId(a) ==
    /\ \/ CallGoto(a, "set", "save") /\ validDpsScopeId' = TRUE
       \/ CallGoto(a, "reset", "save") /\ validDpsScopeId' = FALSE
    /\ UNCHANGED <<callOf, argument, dpsScopeId, configFile, given>>

Accepted == given' = IF given = "nothing" THEN "accepted" ELSE given

\* Save gives up, and tells nobody, if it cannot read the file.
CannotSave(a) ==
    /\ Returns(a, "save")
    /\ Accepted
    /\ UNCHANGED <<dpsScopeId, validDpsScopeId, configFile>>

\* Opening the file for writing empties it.
OpensFile(a) ==
    /\ configFile # "broken"
    /\ CallGoto(a, "save", "write")
    /\ argument' = [argument EXCEPT ![a] = dpsScopeId]
    /\ configFile' = "broken"
    /\ UNCHANGED <<callOf, dpsScopeId, validDpsScopeId, given>>

WritesFile(a) ==
    /\ Returns(a, "write")
    /\ configFile' = argument[a]
    /\ Accepted
    /\ UNCHANGED <<dpsScopeId, validDpsScopeId>>

AppCall(a) ==
    \/ Arrives(a) \/ Accesses(a)
    \/ ReadsTpm(a) \/ CopiesResults(a) \/ FailsToRead(a)
    \/ InvokesReboot(a) \/ InvokesRebootOfNothing(a)
    \/ AssignsScopeId(a) \/ ChecksScopeId(a) \/ SignalsScopeId(a)
    \/ CannotSave(a) \/ OpensFile(a) \/ WritesFile(a)

-----------------------------------------------------------------------------
(* The worker *)

\* Run starts the bridge before it registers the handlers.
SetUpWithBridge ==
    /\ SetUp
    /\ bridge' = "setup"
    /\ UNCHANGED <<localDmAccess, exposed, listening, waiting, scopeVars, callVars>>

\* ProvisionDevice waits for the scope id and for nothing else.
WaitDpsScopeId ==
    /\ pc = "token"
    /\ dps /\ ~triedDps
    /\ ~waiting
    /\ waiting' = TRUE
    /\ UNCHANGED <<vars, rpcVars, scopeVars, callVars>>

TokenMissingWithBridge ==
    /\ TokenMissing
    /\ triedDps \/ (waiting /\ validDpsScopeId)
    /\ waiting' = FALSE
    /\ UNCHANGED <<rpcVars, scopeVars, callVars>>

TokenFoundWithBridge ==
    /\ TokenFound
    /\ ~waiting
    /\ UNCHANGED bridgeVars

\* StopListening only asks the server to stop.  It fails when it does not
\* listen, and its exception ends the process: thrown by the destructor that
\* unwinds, or by Run's end, after which the destructor finds no host.
StopListening ==
    /\ Unwind \/ EndRun
    /\ listening
    /\ listening' = FALSE
    /\ UNCHANGED <<bridge, localDmAccess, exposed, waiting, scopeVars, callVars>>

StopListeningFails ==
    /\ pc \in {"unwind", "deinitialize"}
    /\ ~listening
    /\ Crash
    /\ UNCHANGED bridgeVars

ReadDPSScopeId ==
    /\ dpsScopeId' = configFile
    /\ validDpsScopeId' = (configFile # "")

\* A setting the file does not have, or not with its type, gets its default.
ReadOtherSettings == dps' \in DpsSettings

\* A file that cannot be read changes nothing.
Load ==
    IF configFile = "broken"
      THEN dps' = dps /\ UNCHANGED scopeVars
      ELSE /\ ReadDPSScopeId
           /\ ReadOtherSettings
           /\ given' = "nothing"
           /\ UNCHANGED configFile

\* The bridge is taken to end within RecoveryInterval.
RecoverWithBridge ==
    /\ bridge = "ended"
    /\ Recover
    /\ Load
    /\ UNCHANGED <<rpcVars, waiting, callVars>>

OtherSteps ==
    \/ Service \/ CreateStopEvent \/ CheckStop \/ Disable \/ Disconnect \/ Connect
    \/ Leave \/ SignalStop \/ DestroyClient

Worker ==
    \/ SetUpWithBridge \/ WaitDpsScopeId \/ TokenMissingWithBridge \/ TokenFoundWithBridge
    \/ StopListening \/ StopListeningFails \/ RecoverWithBridge
    \/ (OtherSteps /\ UNCHANGED bridgeVars)

BridgedNext == Worker \/ BridgeThread \/ (\E a \in Apps : AppCall(a))

BridgedSpec == BridgedInit /\ [][BridgedNext]_bridgedVars

-----------------------------------------------------------------------------
(* Properties *)

CallPoints == {"idle", "access", "dps", "reboot", "tpm", "copy", "save", "write"} \cup AtEvent

\* The bridge's variables keep their types, the agent's too.
BridgedTypeOK ==
    /\ TypeOK
    /\ bridge \in {"none", "setup", "register", "listen", "listening", "unregister", "unset",
                   "ended"}
    /\ localDmAccess \in {"none", "set"}
    /\ exposed \in 0 .. Len(Interfaces)
    /\ listening \in BOOLEAN /\ waiting \in BOOLEAN
    /\ dpsScopeId \in ScopeIds \cup {""}
    /\ validDpsScopeId \in BOOLEAN
    /\ configFile \in ScopeIds \cup {"", "broken"}
    /\ given \in {"nothing", "accepted", "emptied", "crossing"}
    /\ callPc \in [Apps -> CallPoints]
    /\ callOf \in [Apps -> {"dps", "reboot", "tpm"}]
    /\ argument \in [Apps -> ScopeIds \cup {""}]

(***************************************************************************)
(* No remote call finds the static pointer null, though calls are taken    *)
(* before the server listens and after it was told to stop, and the        *)
(* pointer is set and unset by the bridge's thread with no lock.  (Setup   *)
(* and Listen order the pointer and the interfaces, and the removal of an  *)
(* interface waits for its calls.)                                         *)
(***************************************************************************)
CallsFindAccess == \A a \in Apps : callPc[a] = "access" => localDmAccess = "set"

(***************************************************************************)
(* The worker waits as long as the scope id is empty and no longer, though *)
(* the id and its event are set in several steps with no lock, by any      *)
(* number of calls, also after a failed run.  As long as no app has set    *)
(* the empty one, which takes the id back, the worker is not left to wait  *)
(* when an app was told that its id is set, or when the configuration file *)
(* holds one.  (WaitDpsScopeId, SetDpsScopeId, Load and Save.)             *)
(*                                                                         *)
(* The exception is an empty id set at the same time as another one: of    *)
(* the two calls one may assign last and the other signal last.            *)
(***************************************************************************)
ScopeIdEndsWait ==
    waiting /\ (\A a \in Apps : callPc[a] \notin AtEvent) =>
        /\ given # "crossing" => (validDpsScopeId <=> dpsScopeId # "")
        /\ given \in {"nothing", "accepted"} /\ ~validDpsScopeId =>
             given = "nothing" /\ configFile \in {"", "broken"}

=============================================================================
