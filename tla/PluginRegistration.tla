-------------------------- MODULE PluginRegistration --------------------------
(***************************************************************************)
(* What the agent does with its plug-ins before it connects and when it    *)
(* ends.  AzureDMClient::EnumeratePlugins goes through the manifests: it   *)
(* loads each plug-in, in its own process or in a host's, asks it for its  *)
(* handlers and registers those whose id is new.  Then the handlers are    *)
(* put in order (DependencySort).  An exception for one manifest, or for   *)
(* one handler, is logged, and the rest goes on.                           *)
(***************************************************************************)
EXTENDS DependencySort

CONSTANTS
    Manifests,      \* 1 .. Manifests, in the order of the directory
    Static          \* the agent's own handlers, with no dependencies

ASSUME RegistrationParametersOK == Manifests \in Nat /\ Static \subseteq Names

Plugins == 1 .. Manifests

Kinds == {"direct", "inProc", "outOfProc"}

\* The functions a plug-in exports, in the order they are looked up.
EntryPoints(kind) ==
    IF kind = "direct"
      THEN <<"Create", "GetHandlersInfo", "CreateRawHandler", "DestroyRawHandler">>
      ELSE <<"Create", "Invoke", "DeleteBuffer", "SetReverseInvoke", "SetReverseDeleteBuffer">>

VARIABLES
    step,           \* control point of the agent
    manifest,       \* the manifest being processed
    kindOf,         \* for each plug-in, its kind
    found,          \* ... how many of its entry points are known
    offered,        \* handlers the plug-in reported, still to register
    pluginsMap,     \* _pluginsMap: the plug-ins to unload at the end
    owner           \* for each handler, the plug-in that created it, or 0

registrationVars == <<step, manifest, kindOf, found, offered, pluginsMap, owner>>
startupVars == <<registeredVars, sortVars, registrationVars>>

StartupInit ==
    /\ SortInit
    /\ handlers = {}
    /\ dependencyMap = [h \in Names |-> << >>]
    /\ step = "static"
    /\ manifest = 0
    /\ kindOf = [p \in Plugins |-> "none"]
    /\ found = [p \in Plugins |-> 0]
    /\ offered = << >>
    /\ pluginsMap = {}
    /\ owner = [h \in Names |-> 0]

-----------------------------------------------------------------------------
RegisterStaticHandlers ==
    /\ step = "static"
    /\ step' = "next"
    /\ handlers' = Static
    /\ UNCHANGED <<dependencyMap, sortVars, manifest, kindOf, found, offered, pluginsMap, owner>>

\* A file that is not a valid manifest, or one of another major version of the
\* protocol, is skipped.
SkipManifest ==
    /\ step = "next"
    /\ manifest < Manifests
    /\ manifest' = manifest + 1
    /\ UNCHANGED <<registeredVars, sortVars, step, kindOf, found, offered, pluginsMap, owner>>

\* FromJsonFile.  The entry for a handler that the plug-in will not report is
\* never looked at, so the lists are chosen with the handlers.
ReadManifest ==
    /\ step = "next"
    /\ manifest < Manifests
    /\ manifest' = manifest + 1
    /\ \E kind \in Kinds :
         /\ kindOf' = [kindOf EXCEPT ![manifest + 1] = kind]
         /\ step' = IF kind = "outOfProc" THEN "launch" ELSE "load"
    /\ UNCHANGED <<registeredVars, sortVars, found, offered, pluginsMap, owner>>

\* An exception drops the plug-in's proxy, and the manifest is done with.
PluginDropped ==
    /\ step' = "next"
    /\ kindOf' = [kindOf EXCEPT ![manifest] = "none"]
    /\ found' = [found EXCEPT ![manifest] = 0]

\* Mutant: a missing function is not noticed.
LoadUnchecked ==
    /\ step = "load"
    /\ \E n \in 0 .. Len(EntryPoints(kindOf[manifest])) :
         found' = [found EXCEPT ![manifest] = n]
    /\ step' = "info"
    /\ UNCHANGED <<registeredVars, sortVars, manifest, kindOf, offered, pluginsMap, owner>>

\* Load throws at the first function the library does not export; with all of
\* them the plug-in is created.
Load ==
    /\ step = "load"
    /\ \E n \in 0 .. Len(EntryPoints(kindOf[manifest])) :
         IF n = Len(EntryPoints(kindOf[manifest]))
           THEN step' = "info" /\ found' = [found EXCEPT ![manifest] = n] /\ UNCHANGED kindOf
           ELSE PluginDropped
    /\ UNCHANGED <<registeredVars, sortVars, manifest, offered, pluginsMap, owner>>

\* OutOfProcPluginBinaryProxy::Load starts the host process and waits, without
\* a limit, for it to open the pipes.
LaunchHost ==
    /\ step = "launch"
    /\ (step' = "host" /\ UNCHANGED <<kindOf, found>>) \/ PluginDropped
    /\ UNCHANGED <<registeredVars, sortVars, manifest, offered, pluginsMap, owner>>

\* wmain of the host: it needs its arguments and the agent's process.
HostEndsAtOnce ==
    /\ step = "host"
    /\ step' = "hung"
    /\ UNCHANGED <<registeredVars, sortVars, manifest, kindOf, found, offered, pluginsMap, owner>>

\* PluginLoader::Load; if it throws, the host ends before it opens the pipes.
HostLoads ==
    /\ step = "host"
    /\ \E n \in 0 .. Len(EntryPoints("outOfProc")) :
         /\ found' = [found EXCEPT ![manifest] = n]
         /\ step' = IF n = Len(EntryPoints("outOfProc")) THEN "hostLoaded" ELSE "hung"
    /\ UNCHANGED <<registeredVars, sortVars, manifest, kindOf, offered, pluginsMap, owner>>

\* Once the pipes are open the plug-in is told to create itself.
HostConnects ==
    /\ step = "hostLoaded"
    /\ (step' = "info" /\ UNCHANGED <<kindOf, found>>) \/ PluginDropped
    /\ UNCHANGED <<registeredVars, sortVars, manifest, offered, pluginsMap, owner>>

\* GetHandlersInfo, of the library or through the boundary.
GetHandlersInfo ==
    /\ step = "info"
    /\ \E ids \in UNION {[1 .. n -> Names] : n \in 0 .. 2} :
         /\ offered' = ids
         /\ step' = "register"
    /\ UNCHANGED <<registeredVars, sortVars, manifest, kindOf, found, pluginsMap, owner>>

GetHandlersInfoFails ==
    /\ step = "info"
    /\ PluginDropped
    /\ UNCHANGED <<registeredVars, sortVars, manifest, offered, pluginsMap, owner>>

\* A handler whose id is there already is left alone and not created.
RegisterKnown ==
    /\ step = "register"
    /\ offered # << >>
    /\ Head(offered) \in handlers
    /\ offered' = Tail(offered)
    /\ UNCHANGED <<registeredVars, sortVars, step, manifest, kindOf, found, pluginsMap, owner>>

\* The dependencies are the manifest's; a handler it does not mention has none.
RegisterDynamicHandler ==
    /\ step = "register"
    /\ offered # << >>
    /\ LET h == Head(offered)
       IN  /\ h \notin handlers
           /\ handlers' = handlers \cup {h}
           /\ owner' = [owner EXCEPT ![h] = manifest]
           /\ \E list \in Lists : dependencyMap' = [dependencyMap EXCEPT ![h] = list]
    /\ offered' = Tail(offered)
    /\ UNCHANGED <<sortVars, step, manifest, kindOf, found, pluginsMap>>

\* CreateRawHandler throws.
RegistrationFails ==
    /\ step = "register"
    /\ offered # << >>
    /\ Head(offered) \notin handlers
    /\ offered' = Tail(offered)
    /\ UNCHANGED <<registeredVars, sortVars, step, manifest, kindOf, found, pluginsMap, owner>>

PluginRegistered ==
    /\ step = "register"
    /\ offered = << >>
    /\ step' = "next"
    /\ pluginsMap' = pluginsMap \cup {manifest}
    /\ UNCHANGED <<registeredVars, sortVars, manifest, kindOf, found, offered, owner>>

EnumeratePlugins ==
    \/ SkipManifest \/ ReadManifest \/ Load
    \/ LaunchHost \/ HostEndsAtOnce \/ HostLoads \/ HostConnects
    \/ GetHandlersInfo \/ GetHandlersInfoFails
    \/ RegisterKnown \/ RegisterDynamicHandler \/ RegistrationFails \/ PluginRegistered

-----------------------------------------------------------------------------
\* The sort's exception is logged; the sequence then is empty.
HandlerInvokeSequence ==
    /\ step = "next"
    /\ manifest = Manifests
    /\ step' = "sort"
    /\ outcome' = "giving"
    /\ UNCHANGED <<registeredVars, dMap, given, dependencies, q, todo, result,
                   manifest, kindOf, found, offered, pluginsMap, owner>>

Sequence == IF outcome = "sorted" THEN result ELSE << >>

\* Run's end takes the handlers out of the map, and an exception from Run
\* leaves that to the destructor, which unloads the plug-ins first.
EndOfRun ==
    /\ step = "sort"
    /\ outcome \in {"sorted", "thrown"}
    /\ step' = "unload"
    /\ handlers' \in {{}, handlers}
    /\ outcome' = "ended"
    /\ UNCHANGED <<dependencyMap, dMap, given, dependencies, q, todo, result,
                   manifest, kindOf, found, offered, pluginsMap, owner>>

Unload ==
    /\ step = "unload"
    /\ \E p \in pluginsMap :
         /\ pluginsMap' = pluginsMap \ {p}
         /\ found' = [found EXCEPT ![p] = 0]
    /\ UNCHANGED <<registeredVars, sortVars, step, manifest, kindOf, offered, owner>>

\* Destroy calls every handler that is left: for the code of a direct plug-in,
\* which is no longer there.
DestroyHandlers ==
    /\ step = "unload"
    /\ pluginsMap = {}
    /\ handlers # {}
    /\ step' = IF \E h \in handlers \ Static : kindOf[owner[h]] = "direct"
                 THEN "crashed" ELSE "ended"
    /\ handlers' = {}
    /\ UNCHANGED <<dependencyMap, sortVars, manifest, kindOf, found, offered, pluginsMap, owner>>

StartupStep ==
    \/ RegisterStaticHandlers \/ EnumeratePlugins
    \/ HandlerInvokeSequence \/ (SortStep /\ UNCHANGED registrationVars)
    \/ EndOfRun \/ Unload \/ DestroyHandlers

StartupSpec == StartupInit /\ [][StartupStep]_startupVars

-----------------------------------------------------------------------------
(* Properties *)

\* The registration's variables keep their types.
RegistrationTypeOK ==
    /\ step \in {"static", "next", "launch", "load", "host", "hostLoaded", "hung", "info",
                 "register", "sort", "unload", "ended", "crashed"}
    /\ manifest \in 0 .. Manifests
    /\ kindOf \in [Plugins -> Kinds \cup {"none"}]
    /\ found \in [Plugins -> 0 .. 5]
    /\ offered \in Seq(Names) /\ Len(offered) <= 2
    /\ pluginsMap \subseteq Plugins
    /\ owner \in [Names -> 0 .. Manifests]

(***************************************************************************)
(* Whatever the manifests and the plug-ins are, and whatever fails while   *)
(* they are read, loaded and asked, the sequence that a device twin is     *)
(* applied in is an order of all the registered handlers, each after those *)
(* its manifest lists, or empty if there is no such order; and a handler   *)
(* in the map is the agent's own or has a plug-in that will be unloaded,   *)
(* all of whose functions can be called.  (EnumeratePlugins,               *)
(* RegisterDynamicHandler and DependencySort.)                             *)
(***************************************************************************)
SequenceServesHandlers ==
    step \notin {"unload", "ended", "crashed"} =>
      /\ SortIsCorrect
      /\ Sequence # << >> => {Sequence[i] : i \in 1 .. Len(Sequence)} = handlers
      /\ \A h \in handlers :
           \/ h \in Static /\ owner[h] = 0
           \/ LET p == owner[h]
              IN  /\ found[p] = Len(EntryPoints(kindOf[p]))
                  /\ p \in pluginsMap \/ (p = manifest /\ step = "register")

=============================================================================
