# Azure client tools: TLA+ models and proofs

This directory holds TLA+ specifications of the Windows device agent of the
Azure client tools (`code/device-agent`), configurations that check them with
TLC, and proofs checked by TLAPS. It is kept beside the code: each definition
names in `PROJECT.json` ("map") the lines it stands for, and the same file
lists the components, the runs, the mutations that each property is known to
catch, the disagreements found, the hazards and the theorems. Paths below are
relative to `code/device-agent/` unless they start with `docs/` or `code/`.

## 1. Inventory

### What the agent is

The agent is a Windows service that connects a device to an Azure IoT Hub.
It reads the desired properties of the device twin, and passes each section to
the *handler* registered for it; a handler applies its section and reports the
result, which the agent merges into the reported properties. Direct methods go
the same way. Handlers live in plugin DLLs, loaded into the agent or, by
default, into a *plugin host* process of their own, with which the agent
exchanges messages over two named pipes.

| component | state | operations | speaks to |
|---|---|---|---|
| agent main loop, `agent/AzureDMClient.cpp` | connection string and its expiry, the IoT Hub handle, the stop event | `Run`, `GetConnectionString`, `InitializeIoTHubConnection`, `Deinitialize` | the service (stop event), the handler host (signals), provisioning |
| Windows service, `agent/DMService.cpp` | service status, the worker thread, the stop event | `Start`, `Stop`, `Pause`, `Continue`, `Shutdown`, `RunClient` | the service control manager, the main loop |
| handler host, `agent/Raw/AzureRawHost.cpp` | `_rawHandlerMap` with each handler's state, the dependency sort, the reported properties | `RegisterDynamicHandler`, `SignalStart`, `SignalStop`, `SignalConnectionStatusChanged`, `OnDeviceTwinReceived`, `OnDirectMethodInvoked`, `MarkStatus`, `Report` | handler proxies (calls), the IoT Hub client's thread (callbacks) |
| handler order, `code/Utilities/DependencySort.cpp` | `_dependencyMap`, `_dMap` | `SetDependenciesMap`, `SortDependency` | the handler host |
| plugin proxy, `agent/Plugins/OutOfProcPluginBinaryProxy.cpp` | `_rawHandlersStates`, what every handler has been told | `Load`, `Invoke`, `Unload`, `OnPluginLoaded` | the transport, the handler stub in the host |
| handler stub, `plugin-common/RawHandlersStub.cpp` | the handler instances in the host | `CreateHandler`, `RouteToHandler` | the plugin's handlers |
| plugin transport, `common/Plugins/PluginNamedPipe*.cpp`, `MessageQueue.cpp` | pipes, queues, events, `_mutex`, `_pluginHostInitialized`, three threads | `SendAndGetResponse`, `RunMessageMonitor`, `RunRequestMonitor`, `Initialize`, `RunPluginHostMonitor`, `CloseTransport` | the plugin host process, both ways |
| plugin host process, `plugin-host/` | the loaded plugin | start, wait for the shutdown event or the parent's end | the transport |
| handler base classes, `common/` | deployment status, the counters of the reported summary | set and merge | handlers, the handler host |
| MDM server, `agent/Mdm/MdmServer.cpp`, and `code/Utilities/TaskQueue.cpp` | a lock, a queue of tasks with futures, one worker | `RunSyncML`, `Enqueue`, `Dequeue` | handlers that give MDM commands |
| MDM commands, `common/CSPs/MdmProxy.cpp`, `common/CSPs/SyncMLHelpers.cpp` | none between commands; the readers' path, stack and values within one answer | `RunSet`, `RunGet...`, `RunAdd...`, `RunExec`, `RunDelete`, `ReadXml...` | the MDM server |
| plug-in registration, `agent/AzureDMClient.cpp`, `agent/Plugins/` | `_pluginsMap`, the proxies' function pointers | `EnumeratePlugins`, `LoadPlugin`, `Load`, `GetHandlersInfo`, `UnloadPlugins` | the plugins, the handler host |
| plug-in boundary, `agent/Plugins/RawHandlerProxy.cpp`, `plugin-common/` | the stub's handlers by id; a call in flight | `RouteRequest`, each method of `IRawHandler`, the calls back to the agent | handlers on both sides |
| device schemas, `agent/Handlers/DeviceSchemasHandler.cpp` | the desired groups, types and tags, merged over time | `Invoke`, `OnConnectionStatusChanged` | every handler: configured? which schema? |
| plugins, `code/device-agent-plugins` | what Windows is set to; of the handlers only time keeps a section in memory | `Invoke`: check, apply, report; direct methods | the agent (reports), MDM, package manager, registry, storage account |
| device provisioning client, `code/AzureDeviceProvisioningClient` | the registration in progress | `DpsRegisterDevice`, `create_modules` | the main loop, the service, the credentials |
| TPM access, `code/LimpetApi`, `code/Utilities/TpmSupport.cpp` | a key and a URI per slot, in the TPM or the registry; which of the two, latched | store, read, destroy, import, sign | every process that links the library |
| identity certificates, `code/LimpetApi`, and the tool `code/Limpet` | identity keys, the certificates they carry, the certificate store, challenges, import keys; files | create, destroy, issue, activate, import, encrypt the payload | an operator, an authority |
| UWP bridge, `uwp-bridge-lib/DMBridge/`, `agent/LocalDMClient.cpp`, `agent/ServiceParameters.cpp` | a static pointer to the agent, three RPC interfaces, the scope id with its event and file | `Setup`, `Listen`, `StopListening`; `SetScopeId`, reboot, TPM reads; `WaitDpsScopeId` | UWP apps, the main loop |
| utilities, tools, samples | none of the protocol's | wrappers and test programs | |

### What is hard

* **Threads.** The main thread, the IoT Hub client's thread and, for each
  plugin, a message handler, a request processor and a monitor thread run in
  the agent; the host has two of them and the plugin's own. They meet on
  auto-reset events, on queues with a lock per operation, and on one recursive
  mutex that only the agent's side of the transport takes.
* **Calls in both directions.** While the host answers an `Invoke` it may call
  the agent back (`ReverseInvoke`), so both sides wait for each other.
* **A process that comes and goes.** The host is ended after a keep-alive
  time, may crash, is relaunched by whichever call needs it, and has to be
  told everything the previous one knew. Relaunch, shutdown and close are done
  by different threads that join one another.
* **Partial failure.** A launch fails half-way; a handler throws in the middle
  of a replay; one handler's failure must not affect another; an exception
  crosses two processes as JSON, in either direction.
* **Plugin manifests as input.** Dependency lists may repeat, be cyclic or
  name handlers that do not exist.
* **Processes that share credentials.** The agent, applications and
  provisioning services go through one library that makes several TPM or
  registry calls per function, with no lock; any of them may fail, and a process
  may die between two.
* **Sections that are applied in part.** A handler applies its section command
  by command, reports one status, and gets only the changed leaves the next time.
* **The main loop.** Renewal arithmetic in 32 bits, waits that no stop
  interrupts, the service's worker restarted after a failure, and a bridge
  thread per run that is detached and that apps may call at any time.
* **Answers read event by event.** The MDM answers are parsed by readers that
  keep a path and the last value across elements, some of them empty.

`PROJECT.json` ("hazards") has each of these at its line.

### What makes each part correct

* *Transport, exchange*: a call returns with the answer to that call; no
  wake-up finds an empty queue; messages are rebuilt as they were written;
  each call returns.
* *Transport, host's life*: the monitor never takes down a live host's pipes
  and events; no call is cut off by a keep-alive shutdown; nothing is closed
  under a thread that waits on it; one host at a time; operations end.
* *Proxy*: after any number of relaunches the host holds what the record says, and a
  handler that was stopped stays stopped (which a race can undo: see Disagreements).
* *Order*: dependencies come first, and the sort gives up only when it must.
* *Main loop and service*: no connection is left behind by a failure or a
  renewal; reports reach the live connection; a stop is seen before the next
  connection, and ends the worker.
* *Twin dispatch*: a section marked pending is marked otherwise once its handler
  has run; no old outcome is shown of a section about to be applied;
  dependencies go first; the last outcome stays.
* *Credentials*: a URI never stands without its key, across failures and
  crashes; a token is signed with the key of the hub it names; the device
  connects in the end.
* *Handlers*: success means that the device is as the section says.
* *MDM server*: each command is answered, with its own answer, and returns what
  the tree holds or throws.
* *Registration*: every handler in the sequence belongs to a plug-in that is
  loaded, and the sequence serves all handlers or is empty.
* *Boundary*: a call through it comes out as if the handler were in the agent.
* *Reports*: a handler's report answers the latest request.
* *Identity keys*: a certificate names a key that is there; what was destroyed
  leaves nothing; a payload is encrypted only under a secret that was saved.
* *UWP bridge*: no call meets a null pointer; the worker waits for the scope id as long
  as it is empty and no longer.

## 2. Modules

| module | models |
|---|---|
| `PluginTransport`, `...Proofs` | the exchange of messages on two connected pipes |
| `SynchronousCall` | what that exchange, and an MDM command, promise: the abstract specification |
| `PluginHostLifecycle`, `...Proofs` | launch, keep-alive, relaunch, close of the host |
| `HandlerStateReplay`, `...Proofs` | the handlers of one plugin across the lives of its host |
| `DependencySort` | the order in which handlers are invoked |
| `PluginRegistration`, `...Proofs` | manifests, plug-ins and handlers from start-up to the end; extends `DependencySort` |
| `AgentService` | the Windows service and the agent's main loop |
| `UwpBridge`, `...Proofs` | the same with the bridge to UWP apps and the service's parameters; the proofs are of both |
| `TwinDispatch`, `...Proofs` | device twin updates, direct methods and reports in the agent |
| `LimpetStore` | the library that keeps keys and URIs, call by call |
| `DeviceIdentity` | the agent, an application and a provisioner that use it, and the registration |
| `IdentityCertificates` | identity keys, their certificates, challenges and import keys |
| `LimpetTool` | the operator's commands, over the two before |
| `HandlerInvocation` | the frame of every handler's `Invoke` |
| `CertificateManagement`, `UwpAppManagement`, `DiagnosticLogs`, `TimeSettings`, `PolicySettings`, `DirectMethods`, `DeviceInfo` | what each handler does within it |
| `PluginBoundary` | a call of a handler through its proxy and the plug-in's stub |
| `DeviceSchemas` | the agent's handler that asks all the others |
| `SyncML` | each MDM command, its answer and the readers of it |
| `MdmServer`, `...Proofs` | the commands' way to the one MDM worker |
| `PluginHandlers`, `...Proofs` | composes the handlers, the boundary and MDM for checking, one at a time |
| `MC...` | small instances for TLC: one per run's module |

`PluginTransport`, `PluginHostLifecycle` and `HandlerStateReplay` are views of
the same classes at three grains.
`PluginTransport` takes the pipes as connected and looks at packets, queues
and events; `PluginHostLifecycle` takes an exchange as one message and its
response, and looks at mutex, handles, threads and the process;
`HandlerStateReplay` takes an exchange as one step, but not the replay it may cause,
and looks at what the agent and the host each know of the handlers. What justifies each of these larger steps is a property of the finer
module: `ImplementsSynchronousCall` (proved) and `CallsReturn` for the first,
`ShutdownWaitsForCalls` and `OneHostAtATime` for the second.

### PluginTransport

A thread in `SendAndGetResponse` is at `write`, `wait` or `pop`; a request
processor is at `listen`, `take`, `process` or `answer`. `WritePacket` is one
turn of `WriteMessage`'s loop, so packets of two threads can alternate.
`ReadPacket` is one turn of `ReadMessage`, with `PacketsToMessage` and `Push`
when it was the last packet; `SetNotification` is the `SetEvent` after it, a
step of its own, because a reader can run between the two. The two events are
Booleans that a satisfied wait resets, and setting a set event does nothing.
The agent's `SendAndGetResponse` takes `_mutex`, the host's does not. The
host's request processor may start a call of its own while at `process`.

Messages have no identity in the code. The ghosts `id`, `calls` and `intact`
give them one so that properties can speak of it; no guard reads them. A
packet whose message was started by another packet is kept as it is: the
rebuilt message takes its type from the bytes of the first packet read, and is
of neither known type when these were not the first of a message. Sizes are
those of header and payload: `PacketCount` and `PayloadSize` are the arithmetic of
`MessageToPackets`, and `PacketsToMessage` adds the sizes up again.

### SynchronousCall

Four phases per caller: idle, asked, running, answered. The agent has one call
in progress; the host's request processor calls only while it runs one, and
that one is not answered before the callback has returned. The refinement
mapping `Phase` reads a caller's phase off its control point and the message
the other side's request processor is working on.

### PluginHostLifecycle

Callers load, invoke and unload; `Monitor` is the thread that waits for the
process, for the shutdown event or for the keep-alive time. Control points
follow the code between its blocking calls: taking `_mutex`, joining a thread,
`ConnectNamedPipe`, the write, the wait for the response. `pending` is the
stack of messages a caller has still to exchange, for `Initialize` runs
`OnPluginLoaded`, which itself calls `SendAndGetResponse` with the recursive
mutex held by the outer call. `shutdownEvent` stands for all events
`InitializeDequeEvents` makes and `CloseDequeEvents` closes. `pipes` are "listening"
from `CreateNamedPipe` on and "connected" once a host has opened their other ends,
whether or not it is still there. `Connect` needs no more than that they are no
longer listening: `ConnectNamedPipe` also returns when the host that opened them is gone,
and `Initialize` looks at neither result, so `_pluginHostInitialized` may be set for a
dead host. A host that ends before it opens them leaves `Connect` waiting for ever. `cause` is which
of the monitor's waits was satisfied; what it does next, and that it clears
`_pluginHostInitialized` before it closes in one case and after it in the
other, follows the branches of `RunPluginHostMonitor`. A `Load` that throws
drops the plugin.

The constants `MayCrash`, `MayTimeOut`, `MayUnload`, `MayFailLaunch` say what
may go wrong. `QuietLoad` says that the host survives `Load`: see
Disagreements.

### HandlerStateReplay

The main thread goes through create, start, online and offline rounds, stop;
each round visits the handlers in turn (a renewal is an offline and an online
round, and the end, which may come before the first connection, is the offline
round `leave` and stop), recording the call
(`CacheHandlerState`) before making it (`Send`). Another thread finds an active
handler and later invokes it. `HostEnds` may come between any two exchanges, those of
a replay included.

Whichever thread's exchange finds no host launches one (`Launch`) and then holds
`_mutex` through `SendCachedHandlerState`, which is a step per call: `ReplayCreate`
creates the handler `at` and reads its `started`, `ReplayStart` starts or stops it and,
since it goes through `Invoke`, writes what it read into the record again
(`RecordAgain`), `ReplayConnection` sends the connection status. The record has no
lock, so the other thread's `CacheHandlerState` may come between any two of these. The
create and the connection status are recorded again with what the record holds anyway.
An exception ends the replay and the call that caused it, and `restored` (a ghost) keeps
the handlers it had reached. Where the monitor has already cleared
`_pluginHostInitialized` the code tries to launch inside the launch and waits for a
monitor that waits for `_mutex`: a thread that stands still, which needs no step here.
The concurrent reads and writes of one `HandlerState` are undefined behaviour in C++;
`started` is a byte, and a copy of the parameters in the middle of an assignment is not
modelled.

### DependencySort

`SetDependenciesMap` once per registered handler, in the map's order, then
`SortDependency`: counters, the queue of handlers whose counter is zero, and
one step per dependent visited. The manifests' lists are any sequences of
handler names and unknown names up to a length, repetitions included.

### PluginRegistration

The agent registers its own handlers, then goes through the manifests:
`Load` finds some number of the entry points in their order, because each may be
missing, and a plug-in that loads is asked for its handlers. A handler is
registered unless its id is taken, and the exception for a bad manifest or
handler is logged. Then `SetDependenciesMap` and the sort, which is
`DependencySort`, and at the end everything is undone. A plug-in is in the
agent's process with or without the stub (`direct`, `inProc`), or in a host's. What
is missing in the host's case is not an error but an end of the host before it
opens its pipes, for which the agent waits: `agent_startup` has no liveness
property because of that. Two manifests are taken to name different files.

### AgentService

Two parties: `svc`, the service's own threads (`ServiceMain` starts the worker,
the control handler stops it, `wmain` destroys the service once the dispatcher
has returned), and `pc`, the worker in `RunClient` and `AzureDMClient::Run`.
They share `stopEvent`. The worker creates the event, a member of `DMService`
owns it, and members are destroyed in reverse order of declaration, so
`Destruct` closes the event before `Join` waits for the worker.

The handle of the connection is kept twice: `clientHandle` by `AzureDMClient`
and `hostHandle` by `AzureRawHost`, for the callbacks and the handlers'
reports. `live` is what the IoT Hub client library holds. A disconnection
clears the first only; the end of a run destroys both. Each call that may throw
has a branch to `unwind`, the destruction of the client by the exception;
`Failures` says which may. What a second destroy of one handle does is
undefined: the worker goes on or crashes. `DestroyClient` always crashes: see
Disagreements.

Time is abstracted: a renewal may be due whenever the loop looks, and the
rounds of the loop in which it is not change nothing. That a token appears is a
step of nobody's. The two kinds of client, device and module, are one.

### UwpBridge

Extends `AgentService`: each step of the worker there is a step here, together
with what it does to the bridge and to `ServiceParameters`. `bridge` is the
control point of the detached thread that each run starts, `localDmAccess` the
static pointer it sets and nulls, `exposed` how many of the three interfaces
are registered. With `RPC_IF_AUTOLISTEN` a call can arrive as soon as its
interface is registered, so apps call before `Listen` and after
`StopListening`; unregistering waits for the calls under way. `SetScopeId`
assigns the value, reads it again, sets the event or, for an empty value, resets it, and
saves the file, all in separate steps with no lock. An app may set any string, the empty
one too, which takes the scope id back. `given` is a ghost: what apps did since the last
load. While an app sets an empty id and another one an id that is not, either may
assign last and the other signal last, so that the event is set for an empty id or
reset for one that is there (`crossing`): `ScopeIdEndsWait` excepts that case, which a lock
would exclude (`Dps::_setScopeIdMutex` is declared for it and never used). Two
assignments of the `std::string` that overlap are undefined behaviour; the model has one of the two
values afterwards.

The model ends the process where the code does: an exception of `Setup` or
`Listen` in the detached thread, of `StopListening` before `Listen` in the
destructor, or a manifests path that cannot be read right after the bridge was
started. It takes a bridge to end within the 60 seconds between two runs of the
client (a remote call that lasts longer would let the old thread null the new
run's pointer).

### TwinDispatch

Two threads: `sdk`, the IoT Hub client's callback thread, and `main`, which
starts the handlers, sequences them and lets some report on connect. An update
is marked section by section (`MarkSection`, `SetDeploymentStatus`), the marks
are sent in one patch, and the handlers are invoked in dependency order. A loop
over handlers is the set of those still to be visited (`todo`) and the order it
goes by (`Order`: the map's, or for an update's dispatch the sequence); `Turn`
says whose turn it is. `Report`
is three steps, the entry in the summary, the composition of the patch, and
sending it, because the other thread can come between any two. What the hub
holds (`twin`, `twinSummary`) is the merge of the patches in the order sent.
`outcome` is a ghost: what the last invocation of a handler came to.

### LimpetStore and DeviceIdentity

No function of the library is atomic, so a process is a stack of calls. A
function at the top is replaced by the calls it makes (`LimpetReadURI`,
`LimpetImportHostageKey`, ...); a TPM command or registry access takes effect in
one step (`Single`), or fails, and a failure drops the calls above the place that
handles it (`Unwound`, `FinallyDeleteBlob`, `Rethrow`). A URI whose NV index cannot be
opened, for whatever reason, is looked for in the slot's RSA and then ECDSA identity
certificate (`LooksFurther`, `GetLogicalDeviceCert`): the subject of one that an authority
issued names a hub. Only the device's slot has such certificates here, as only the tool makes
them, for the slot it is told. Keys and URIs are the hub
they are for, so that "the key of this URI" is equality. `DeviceIdentity` adds
the users: `GetConnectionString` of the agent with `DpsRegisterDevice` and
`create_modules`, an application that polls for a token, and a provisioner that
imports credentials. A `Scenario` is an initial configuration: which store was
latched, which slots are filled, whether the device has a certificate that names a hub
(`certificate`), whether provisioning is on, how many faults and
crashes there may be. `GetModule` is refused by a hub whose key did not sign the token,
and may be by one to which the URI and the token do not both belong.

What such a certificate changes is in the properties as exceptions (`Certified`): a device
slot without a URI counts as provisioned and is not registered (`IsDeviceProvisioned`), so the
device may never connect; its token names the certificate's hub and is signed with the
slot's key, if any; and a module may be given the certificate's hub. Without a
certificate the properties except nothing.

### IdentityCertificates and LimpetTool

The same stacks of calls, over the key storage provider (`ksp`, a container per
algorithm and storage root key), the certificate store, the authority that
issues certificates and challenges (`activation`), and import keys. Keys and
secrets are numbers in the order they are made, so that two of them can be told
apart; clearing the TPM changes the storage root key and with it the names of
all containers. `LimpetTool` is one operator who runs command after command on
one device and carries the files (`files`) between it and the authority; each
half of the payload file has the secret it is encrypted under, and a payload is
encrypted in place before its secret is written out.

### The handlers and the MDM server

`HandlerInvocation` is the frame: refuse or accept the section, apply it, and
report success exactly when the error list is empty. `step` is where the handler
is in between. A command fails (`FailTo`: the exception leaves the enclosing
`RunOperation` with an entry in the error list) or the host process ends
(`HostEnds`), up to `MaxFaults` times. Each handler's module keeps what the
device holds (`certStores`, `appVersion`, `collectorNodes`, `timeDevice`,
`policies`) and the locals of `Invoke` that live across commands.
In `DiagnosticLogs` a collector's settings and those of each provider are written one after
the other, and a failure half-way leaves "mixed" ones; providers of earlier sections stay; the
file belongs to the section's names and not to the collector, so that two logs may go
to one file; and a file that cannot be opened or written is nobody's error
(`CreateEtlFile`).
`DirectMethods` does the same for the methods, whose answer has a code, and
`DeviceInfo` for the one handler that applies nothing and may report on connect. There
and in `DeviceSchemas` the SDK may refuse a report: "refreshing" in `Invoke` is then an error
of the section, on connect an exception that leaves the handler; and the final report's
exception leaves the handler on connect, or ends the host, as `Invoke` is `noexcept`. In
the other handlers a refused "refreshing" is a section that fails before its first command
and a refused final report the end of the host, both of which their modules have.

`PluginBoundary` follows one call: the proxy writes a request, the stub looks
the handler up and calls it, the handler may call the agent back for an MDM
command, a report or an event (`back`), and a value or an exception returns
(`Outcome`s of a type or a kind), which the proxy checks. `DeviceSchemas` asks
each handler in turn, those of plug-ins through the same operators.

`MdmServer` has the callers of `RunSyncML` before, in and after the lock, the
queue, its condition variable with spurious wake-ups, and the futures.
`SyncML` gives one command after another to a tree of settings. The
server answers in every form it may choose: statuses and results with or without
a value, and an empty value written in three ways. Each of the three readers
is a fold over the document's nodes, element by element, with the same stack,
path and values as the code. Answers are taken to have no white space between
elements, and CDATA is left out.

`PluginHandlers` composes all of these by choosing one part at the start: the
handlers share nothing but the frame, and the threads of different handlers
meet only in the MDM server, which has its own part.

## 3. Checks

| run | question | result |
|---|---|---|
| `transport_nested` | two agent threads, callbacks from the host: own answers (`HostReplyIsOwn`), messages intact, calls return, synchronous call implemented | holds (65119 states) |
| `transport_threads` | the same with a plugin thread that calls the agent on its own: no empty queue is popped (`WakeupsAreBacked`), the agent's answers are its own | holds (615796 states, threads symmetric) |
| `lifecycle` | crash, keep-alive, failed launch, unload, all together: safety, and that operations end as long as the host neither crashes nor is unloaded (`UndisturbedOperationsEnd`) | holds (16286 states) |
| `lifecycle_crash_hang` | do they end when the host may crash (`OperationsEnd`)? | **no** |
| `lifecycle_stale_flag` | is `_pluginHostInitialized` off once a host has exited and nothing is under way? | **no** |
| `replay_any_time` | the record and the host agree, host ending at any time, replays by both threads, an inactive and a throwing handler among three | holds (33792 states) |
| `agent_startup` | manifests and lists of every kind, failures at every step: does the sequence serve the handlers (`SequenceServesHandlers`)? | holds (187886 states) |
| `agent_connection` | handles, failures anywhere, restarts, renewals, stop and destruction of the service, two apps that call through the bridge and set scope ids, the empty one too: connections held and used, stop seen, no null pointer (`CallsFindAccess`), no wait for a scope id that is there (`ScopeIdEndsWait`) | holds (1653234 states, handles and apps symmetric) |
| `twin_dispatch` | two updates or methods, reports from two threads, a failing call, dependencies or a cycle: what the twin shows | holds (749060 states) |
| `device_identity` | three processes on two slots, with or without an issued certificate, or an operator with the tool; one failing call or one restart: keys, URIs, tokens, connection, certificates, payload | holds (1466029 states) |
| `plugin_handlers` | three sections, methods or calls per handler with two faults; three threads at the MDM server; MDM commands with every answer: success means applied, reports answer, the boundary is transparent, commands mean what they return | holds (581684 states) |
| `apps_foreground` | is the foreground app ever uninstalled without another one set? | **yes** |

What the composite properties say: `ConnectionHeldAndUsed`, that the worker has
the handle of every live client and that in the loop's waits the handler host
has the live one; `TokenIsConsistent`, that a token is signed with the key of the
hub it names, and never made of the test URI; `ReportsAnswerRequest`, that what
the twin shows of the device's information and of the schemas is a report on the
latest request, unless that one was left unanswered; `CollectorsApplied`, that success means
settings, providers and state as asked, and in each file the log of a collector stopped
for it, unless one of these could not be read or written; `SettingsApplied`, time and the independent settings;
`CommandsMeanWhatTheyReturn`, that a command that returns has been carried out and
returns what the tree holds, and that it throws otherwise.

### Bounds

* `transport_nested`: messages of sizes 1, 2 and 5 in packets of two: one packet,
  an exact fit with an empty last packet, and three packets, through pipes of two, so
  that a writer blocks in the middle of a message and a message is assembled
  from a first, a middle and a last packet. Three call numbers, reused
  cyclically, tell an answer from the previous one; two agent threads contend
  for `_mutex`.
  Of the host's threads only the request processor calls the agent
  (`HostCallers = {}`): with others the host's answers are swapped (see Disagreements).
  `transport_threads` has one, for what stays true with it.
* `transport_threads`: one or two packets, two agent threads, one plugin thread beside
  the request processor. Two call numbers are enough because the properties
  only compare a response with the current call.
* `lifecycle` and the two runs beside it: two callers and the monitor are all the parties
  that can meet at a join or at `_mutex`; two replayed messages, so that there is a first
  and a last. The theorems lift both bounds. `MCPluginHostLifecycle` chooses at the start
  whether the behaviour is `undisturbed`: only then do operations have to end, while the
  safety properties are checked of both.
* `replay_any_time`: three handlers, so that there is one before, at and after the place where a
  replay is when the other thread records a call or the host ends; one of them may be
  inactive and one may throw. Hosts and replays are not bounded.
* `agent_connection`: three handles, so that a renewal finds one that is neither the last
  nor live. `late` counts connections begun after a stop up to two, one more
  than the property allows. The theorems lift the bound on handles.
  Two apps and one scope id beside the empty one, so that an empty id can cross another.
  `SettersTogether` is a bound: two calls are under way together only while both set
  scope ids, of a service that is running. The theorems about the bridge, for any
  number of apps, do not have it.
* `agent_startup`: two manifests, so that one can fail with the other loaded and
  both can name the same handler; three handlers, one of them the agent's own,
  one unknown name and lists of two give chains, diamonds, self-dependencies,
  cycles of two and three and repetitions.
* `twin_dispatch`: two callbacks, so that there is an earlier outcome to be
  shown wrongly; one built-in and two plugin handlers, which give a dependency
  against the map's order, a cycle, a handler that reports on connect and the
  one that clears the others; updates with all sections, with one that is not
  an object, and with one alone; one failing call.
* `device_identity`: the device's slot and one module's; two hubs, so that a
  new assignment differs from an old credential; one fault or one crash, from
  each of the initial configurations that the first access can find. Two faults
  together leave the test URI to be read as the device's (see Disagreements). A
  certificate, where there is one, names the first hub; then both slots are filled, the
  module's is empty, or both are. A first access is made by the agent or by the tool with
  no other process about; an application starts once the choice is latched. For the
  operator: two algorithms, two keys, so that there is one that another has replaced,
  two secrets, and one clearing of the TPM.
* `plugin_handlers`: three invocations, so that a section comes after one that
  stopped half-way; two faults; per handler the smallest lists in which two
  entries can disturb each other (two blobs with one file name, a collector
  whose name is part of another's, two foreground apps). Three threads with two
  commands each contend for the MDM lock while the worker is awake or asleep.
  One plug-in handler beside the id that has none, and one call back per call
  (`MaxCallbacks`), since they do not nest in one another. Four handlers for the
  schemas: this one, two in plug-ins, one configured. For `SyncML` an interior node
  with two leaves, so that a value can be taken for the other's; the values are a
  number, one above `INT_MAX`, and a text that is none; codes are one of success and
  the first that is none; an empty value has its three forms. The logs' sections have two collectors
  with two providers each, which share a file or have one each.

### Fairness

Weak fairness of every step of a thread that the operating system will run once
it is enabled: taking a free mutex, returning from a satisfied wait, joining an
ended thread, writing to a pipe with room, reading a packet. `HostAnswers` and
`HostConnects` are fair because a live plugin is expected to answer; without
that no call could be shown to return. `ProcessRequestMessage` is strongly fair:
a plugin's `Invoke` makes finitely many callbacks, but each one disables the
step in between. Nothing obliges anyone to start a call, to unload, to crash or
to time out. In `TwinDispatch` each of the two
threads goes on, and nothing obliges the hub to call back. In `DeviceIdentity`
the agent and the provisioner go on and the services they ask answer; `Connects`
excuses the behaviours with a fault or a crash. In `PluginHandlers` the MDM
worker and each caller that is past the lock go on, since an MDM command returns;
taking the lock is not fair, for a Windows critical section is not, and
`CommandsAnswered` starts where a thread has it.

## 4. Proofs

`PluginHostLifecycleProofs` proves, for any number of threads and replayed
messages and any choice of what may go wrong (`ThreadsDistinct`,
`ParametersOK` are the only assumptions):

* `TypeCorrect`: `Spec => []TypeOK`;
* `MonitorSafe`: the monitor closes only a dead host's transport;
* `ShutdownSafe`: a host is never terminated under a call;
* `NoSecondHost`: `OneHostAtATime`, an action property.

None of the three is inductive. That the monitor, having cleared
`_pluginHostInitialized` without the mutex, finds the host dead when it closes
depends on nobody having relaunched it meanwhile, which depends on what the
relaunching thread does first: it joins the monitor (`LaunchPluginHost` waits
for the old monitor thread). So the invariant `Invariant` proves, `IInv`, has
four parts besides the types:

* `LockInv`: which control points imply the possession of `_mutex`;
* `LoadInv`: only `Load` runs `Initialize` without it, and alone;
* `HostInv`: a live host is announced by `_pluginHostInitialized` or is being
  connected to by the thread that launched it. The converse is false, for an announced host
  may be dead, and stay announced (`lifecycle_stale_flag`);
* `MonitorInv`: for each point of the monitor what it says of the flag, of the
  host and of a thread waiting to join it.

Each part has its step lemma (`LockStep`, `LoadStep`, `HostStep`,
`MonitorStep`), by cases on the actions, under the parts before it. The lemmas
`...Moves` say where an action takes the threads and keep the case analyses
short. `ShutdownSafe` then is `LockInv` alone, and the other two follow from
`HostInv` and `MonitorInv`. These theorems do not need `QuietLoad`.

The module also proves `WaitsOnOpenEvents` (`WaitsOpen`) under the same
assumptions. To `IInv` it adds `EventInv`, that pipes and events are made and closed
together and a host that has not opened its pipes is not announced; `UnloadInv`, that an unload runs
alone; `ReaderInv`, that an announced host that can be written to has a message handler's
thread, or the thread that connected to it is about to start one; and `WaitInv`,
the property with its counterpart one step earlier, at the write. `ExchangeIsAlone` is the
reason none of it breaks: with `_mutex` held by a thread that exchanges, nobody is
in `Initialize` or past the lock of `CloseTransport`.

`PluginTransportProofs` proves `WakeupsAreBacked` (`WakeupsBacked`) for any finite
number of threads on both sides (`ThreadsFinite`), sizes and capacities. The property
counts, and each step moves one unit between the threads about to pop, the event, the
message handler and the queue, so it is inductive; what takes the work is to do this
with cardinalities, and with queues of whatever the packets add up to. It then follows a
call through both pipes:

* `AgentRepliesAreOwn` (`AgentReplyIsOwn`), with any number of threads on both sides;
* `HostRepliesAreOwn` (`HostReplyIsOwn`), when only a running `Invoke` calls the agent
  (`HostCallers = {}`; with other host threads it is false, see Disagreements);
* `CallsAreSynchronous`: under the same condition the exchange implements
  `SynchronousCall` (`ImplementsSynchronousCall`).

The reply's owner is not inductive: it depends on every packet on the way.
`Exchange(s)` speaks of one direction, from a side that makes one call at a time.
A message is where its first packet is, so `Going(s)` counts the places between
the caller's `WriteMessage` and the answerer's queue, `Coming(s)` those on the way
back, and `Serving(s)` is the answerer's turn. `OneMessage`: together they are at
most one, and none without a call in progress. `OwnMessage`: what is there is of
the current call. `ThreadInv` has what the threads hold while they write, and `FormInv`
that everything is made of packets and messages. Packets that do not start a message are
not counted, and may alternate with anything: that the other writer's packets get
between them changes neither count nor owner. The lemmas `Leg...` follow one pipe,
message handler and queue; `Keeps`, `Asks`, `Runs`, `Answers` and `Returns` are all
that a step can do to a direction. For the refinement three things are
added: a request processor that wakes finds its request (`RequestsInv`, the counterpart of
`WakeupsAreBacked`), what `work` still holds of the last call (`WorkInv`), and
that the next call has another number. There the phase of a call is
where its message is (`PhasesOf`), and each of the four moves is the abstract
action. One hypothesis is about a ghost only: `CallIds > 1`, so that two calls in
succession have different numbers.

`TransportTypes` is the types, and `MessagesArriveIntact` is
`QueuedMessagesIntact`, under `HostCallers = {}` again. What `PacketsToMessage` makes of
packets has the sum of their sizes, a recursive function (`PayloadOf`), and it is a
message only if the sum is that of a size that was written. The library's induction
theorems take an operator, which no prover here can instantiate, but `WFMin` takes a
set: the places at which a claim fails have a first one (`Least`), and this is enough
for `PayloadAddsUp`, the sum of any number of full packets and a last one. That no
message is mixed with another is `StreamInv`: the packets a message handler has read, those in
the pipe and those the writer has still to write are, in this order, the packets of one
message, of one sender (`OneStream`). Only `WriteMessage` opens a stream, and does so when
there is none: that is `OneMessage` of both directions, as a pipe carries the
calls of one and the answers of the other, together with whose turn it is.

`TwinDispatchProofs` proves, for any handlers, dependencies, updates, methods and
failures and with two threads reporting at once, the four invariants `twin_dispatch`
checks: `PendingOnlyWhileUnfinished`, `OldOutcomesAreMarked`, `LastOutcomeStays` and
`SummaryAgrees`. All are consequences of `TwinInv` (`TwinInvariant`). Three of the
properties speak only of moments at which no thread is at work, so the invariant says what they
become in between: `Under(h)` is that a handler's invocation is under way or to come,
and `PendingOK` and `ShownOK` are the properties for all others; `Newer(h)` is
that the summary has a status that the hub has not got yet, and `SummaryOK` compares
the rest. `MarksOK` and `ReportOK` say what is in the patches on their way, and
`Control` what the loops are about: in particular that a round of marks as failed is one without a
sequence, and that a handler in progress is not also to come. `NoOldOutcomeShown` needs that
all marks are in the patch before the first handler is invoked.

`PluginRegistrationProofs` proves `SequenceServesHandlers` (`SequenceAlwaysServes`) and
the types (`StartupTypes`: no counter of the sort goes below zero) for any number of
handlers, manifests and entries in their lists (`ParametersOK`,
`RegistrationParametersOK`). The centre of it is Kahn's algorithm as `DependencySort`
writes it. `OrderInv`, which is `OrderRespectsDependencies`, holds of the result followed
by the queue; that a handler is queued only after all that it lists follows from
`CounterInv`: its counter is the number of the entries of its list that are not in the
result, plus the visits still due to it for the handler dequeued last, and it is in the
line exactly when its counter is zero. A list may name a handler twice, so both are
counts of places and not of names, and `DependentsInv` says that `_dMap` holds a handler
once for each of them. That the sort throws only when it must (`ThrowsOnlyIfImpossible`) is
`FinishingKeepsSortInv`: the handlers that are left block each other; that it does not
succeed by leaving one out is a pigeonhole, as the result has no repetitions; and
`BlockedInv`, that no member of a blocked set ever joins the line, is what makes the two cases
exclude each other without any induction over the order. `RegistrationInv` has the
rest: `StepInv`, that handlers and lists stay as they are from the start of the sort;
`PluginInv`, how many entry points are known at each step of a manifest; `OwnerInv`, that a
registered handler's plug-in is in the map or about to be put there.

`UwpBridgeProofs` has the agent's proofs first. It proves of `AgentService`, for any set of handles (at least three), any
configuration and any failures:

* `TypeCorrect`: `Spec => []TypeOK`;
* `HeldAndUsed`: `ConnectionHeldAndUsed`;
* `StopSeen`: at most one connection is begun with the event set.

The invariant, `IInv`, says for each point of the worker what it holds there:
`HubInv` the handles and the platform, `HandlersInv` what the handlers have
been told, `StopInv` how late the event can have been set, and `BeginInv` that
the worker starts after the service and creates the event once. None of the
properties is inductive: that a new connection replaces nothing live depends on
what disconnection, failure and restart have each left behind. There is a lemma
for each part of the worker's cycle, with one step per conjunct of `IInv`.

Of `UwpBridge` it proves, for any apps and scope ids, that no call finds the
pointer null (`FindsAccess`) and that the worker waits for no scope id that is
there (`WaitEnds`), and carries the two theorems above over to the agent with
its bridge (`BridgedHeldAndUsed`, `BridgedStopSeen`): a step of the composition
is one of the agent's or leaves its variables, except for the ends of the process.
The invariant adds to `IInv`: `RunInv`, a run's bridge is gone before the next
one's; `PointerInv`, the pointer is set around the time in which interfaces are
registered; `CallsInv`, a call is under way only at a registered interface;
`ScopeInv`, how the scope id, its event, its file and the calls under way go together.
Of the last, `EventInv` says that as long as no two calls crossed the event is set exactly
when there is an id, but for the calls that are about to set or reset it, which all have
an id as empty as the member is; and `GivenInv` that the id is there once an app was told
so or the file has one, as long as no app set the empty id.

`HandlerStateReplayProofs` proves `HostAgreesWithRecord` for any number of
handlers, any of them inactive or failing (`RecordReplayed`). It is not inductive, because
between `CacheHandlerState` and `Send` the record is ahead of the host, and in a replay
the host behind the record: `RegisteredInv` says how far registration has come,
`RecordInv` what the record holds at each point of the round, `HostInv` that a running
host's handlers differ from the record by the effect of the call in flight and by nothing
else, for those that the last or the present replay has reached (`Told`), and `ReplayInv`
what has been sent of the handler it is at. `StartsInv` is about the race: what the replay
has read of `started` and is about to write back may be what a recorded stop has
replaced, but is never less than the record says, and is the same before
handlers are stopped.

`PluginHandlersProofs` ends with the MDM server: for any number of threads and
commands, the lock is held from the queueing of a task to its answer, so that the queue holds
no more than the task of the lock's holder, which is at one place
(`OneTaskAtATime`), and from this that the server implements `SynchronousCall`
under the mapping `CallPhase` (`CommandsRefine`, which is
`CommandIsSynchronousCall`).

`PluginHandlersProofs` proves eight of the handlers' properties for any
sections, orders, schemas, invocations, answers and failures; the one thing assumed
besides the modules' own assumptions is a finite set of thumbprints:

* `CrossesUnchanged`: `BoundaryIsTransparent`;
* `SuccessMeansSet`: `SettingsApplied`, of the time and of the independent settings;
* `ReportsShowWhatWasAsked`: `ReportsAnswerRequest`;
* `MethodsDoAsAnswered`: `MethodsKeepPromise`, an action property;
* `SuccessMeansCollected`: `CollectorsApplied`;
* `SuccessMeansInstalled`: `AppsApplied`, and `ForegroundGoesLast`:
  `ForegroundRemovedLast`, an action property;
* `SuccessMeansInStores`: `CertificatesConsistent`.

Each part has an invariant of its own, which says of the frame they share only what
holds while that part is followed. None of the properties is inductive, since
a section is reported only at its end, and what it says of the device
has come about entry by entry, past failures that are noted and passed over. So each
invariant says, for every point in between, what is done, what is left, and what is
noted as failed:

* `BoundaryInv`: what a call that is back, and the callback it waits for, have
  become (`Faithful`); `ExceptionComesBack` and the lemmas on `AcrossBoundary` are
  its facts about the conversions.
* `TimeInv` and `PolicyInv`: what each step of the sequence has set, or that an error
  has been noted; `MemoryInv`, of the section the handler merges into.
* `InfoInv`: every property that is missing from the report has failed or was not asked
  for, and "refreshing" stands in the twin of a handler at rest only if a connection without
  report on connect or a refused report has left it unanswered; `SchemasInv`:
  what is collected is of the handlers already asked, under the same filter.
* `MethodsInv`: what a method has done is told by the steps it has left (`StepsInv`).
* `LogsInv`: a collector not to come is as asked, with the listed providers
  (`ProvidersDone`), or has an error (`LogsDone`); the file of one that was stopped has
  its log, or that of another with the same file, or one of these could not be saved
  (`Saved`); and the head of the list is at the state its step implies (`HeadInv`).
* `AppsInv`: each app comes once, with an action that is still the right one,
  and after the first none is the foreground app (`TodoInv`, `ForegroundInv`);
  apps not to come are as asked or have an error (`AppsDone`). That the
  foreground app is removed last rests on `Reordered`, which puts it there.
* `CertsInv`: what is left to do makes every visited entry true unless an
  error is noted, although an entry's blob may bring in certificates that another
  entry names (`Delivered`).

The work on these proofs changed the model in three places. The sections a handler has
before its first invocation are absent, and not any section: otherwise the success of
a section nobody sent would have counted. Alternatives of a `CASE` are disjoint:
where they overlap TLA+ leaves open which is taken, and only TLC takes the first.
And a set in the order of a list is `InOrderOf`, a function from places, in the place of a
fold, of which the prover knows nothing.

`LimpetToolProofs` proves three properties of the tool for any slots, hubs, scenarios,
crashes, clears and orders of the operator's commands, each started at any time and
ended by any exception: `CertificatesNameTheirKey` (`CertificatesKeepTheirKey`), which
speaks of behaviours in which no call has failed by itself; `EncryptsUnderSavedSecret`
(`NothingEncryptedForNobody`), an action property, whatever fails; and
`DestroyedLeavesNothing` (`DestroyLeavesNothing`), again while no call has failed by
itself, though calls on what is not there are refused all the time. Of `None` they assume that it is no number, no algorithm and, for the second,
no challenge (`NoneIsNoChallenge`, a hypothesis of the theorem, as TLC cannot enumerate
it); and of the algorithms that they are RSA and ECDSA, as in the tool's syntax.

While a function is under way each property is about to be made true: the key is
made, then certified, then its container recorded; the challenge is made, then written,
then the payload encrypted; the URI is destroyed, then the key, then each certificate. So
the invariants speak of the stack of calls, which is what is left of one function, with
what holds at that point, above calls that are no part of one:

* `KeyInv` consists of `StackInv`, what a stack is; `KeyFacts`, the property itself with
  what it needs of the store, the containers and the locals; and `KeyStack`, where
  `KeyWork` lists what can be left of a function on keys: the container in hand is
  the certificate's (`Bound`), or is what the store has for it (`Found`), or is still empty.
* `SecretInv` consists of `StackInv`, `SecretFields`, that the locals and the files have
  their fields, and `SecretStack`, where `SecretWork` lists the calls from the payload
  key or the first file to the second half of the payload: from the challenge on the
  local secret is the challenge's (`Challenged`), and before an `encrypt` it is typed
  in, in the key file, or in the challenge's file (`Saved`).
* `DestroyInv` consists of `StoreFields`, that a slot has its fields; `OthersQuiet`,
  that next to the tool only an application runs, which reads and never writes once
  credentials are in the TPM; `OneTrial`, that the trial of the token is made at most
  once at a time and only before the choice; and `DestroyStack`, where `DestroyWork`
  lists the calls of the command and of the library functions below it: past the
  removal of the URI the slot has none (`NoUri`), past the eviction no key
  (`NoHmacKey`), past each destroyed identity no certificate (`NoCert`). A refused call
  keeps the invariant because it is refused only where its object is gone already, and
  the failure is seen at the `ignore` that follows its part (`Sees`, `Thrown`); with the
  trial still to make, the stack has the trial in front. It uses `KeyInv` for the
  containers.

In the first two, an exception removes calls down to a handler (`Dropped`), and no handler is inside such a
function, so nothing of it stays (`NoWork`, `CallReturns`). The lemmas on stacks and the
effects of each component's steps on the tool's stack (`DeviceEffect`, `ToolEffect`,
`IdentityEffect`, `WmainEffect`) serve all three proofs.

The work on these proofs changed the model in one place: the calls of the tool's listing
of the devices are a function from places, and no longer a fold.

Only model-checked:

* liveness (`CallsReturn`, `UndisturbedOperationsEnd`, `CallbacksReturn`, `Connects`,
  `CommandsAnswered`), out of reach of the prover;
* `CommandsMeanWhatTheyReturn`: the readers are folds over a document's nodes;
* `UriHasKey`, `RegisteredMeansUsable` and `TokenIsConsistent`, which hold for the
  scenarios' one fault only: a second one, in the clean-up after the first (for the
  token, with a crash as well), breaks them, so they are not theorems of any bound.

## 5. Disagreements with comments and documentation

Shown by a run:

* **A crash hangs the agent's thread** (`lifecycle_crash_hang`): a caller whose
  host dies waits for ever on the response event with `_mutex` held, and the
  monitor for ever on `_mutex`.
  `docs/device-agent/extensibility-and-discovery-model.md`
  promises that crashes of an out-of-process plugin do not affect the agent.
* **The flag of a dead host stays set** (`lifecycle_stale_flag`): a host opens its
  pipes and dies. The monitor sees it, clears `_pluginHostInitialized` without `_mutex`
  ("If the process exited, uninitialize the plugin") and waits for `_mutex` to close the
  transport; `Initialize`, which has it, does not look at what `ConnectNamedPipe`
  returned and sets the flag. From then on no call launches a host, and each fails.
* **The foreground app is uninstalled** (`apps_foreground`): when the new
  foreground app fails to install, that is an error of its entry, and the next
  entry uninstalls the old one, which is still in the foreground.

Found with the models, and not kept as runs of their own:

* *Answers swapped in the host*: two threads of the host wait on one event and
  pop one queue, so a plugin thread that reports while the request processor
  calls back gets the other's answer (`HostReplyIsOwn` with `HostCallers = {h1}`).
* *A spurious failure*: after a keep-alive shutdown `_pluginHostInitialized` is
  cleared last; a call in between finds it set and no pipe.
* *A stop that the replay takes back*: the replay reads that a handler is started, the
  main thread records and makes its `Stop`, and the replay, which goes through `Invoke`,
  records what it read. The next host starts the stopped handler
  (`HostAgreesWithRecord` without the exception `Stopping`).
* *A scope id without its event*: an app sets an empty id while another one sets one that
  is not; of one the value stays and of the other the event, so that the worker waits
  though there is an id, or goes on with none (`ScopeIdEndsWait` without `crossing`).
* *A log that is lost*: `CreateEtlFile` does not look at whether the file could be opened
  or written; the log is in no other place by then, and the section is reported as
  succeeded, where `docs/device-agent/schema/configuration-groups/diagnostic-log-configuration.md`
  says that a file will be saved (`CollectorsApplied` without `unsaved`).
* *"refreshing" that stays*: on every connection `DeviceInfo` reports "refreshing"; unless
  it is configured to report on connect that stays in the twin, and it also stays when the SDK
  refuses the report that follows (`ReportsAnswerRequest` without `unanswered`).
* *A slot that counts as provisioned and is empty*: an identity certificate that an
  authority issued names a hub and answers for the URI the device's slot does not have
  (`code/LimpetApi/LimpetApi.cpp:1253-1292`), so `IsDeviceProvisioned` holds, the device is not
  registered, and without a key it never connects (the properties without `Certified`).
* *Handlers lost by the replay*: the replay sends a connection status for an
  inactive handler that never had one, the stub throws, and the handlers after
  it are not recreated.
* *A stop that is lost*: a stop that comes before the worker has created the
  event calls `SetEvent` on a null handle. One that comes later is lost if
  `~DMService` closes the event before the worker next looks at it. The service
  has reported STOPPED, the join never returns, and the process stays.
* *A summary that is behind*: the main loop's report and the callback's are each
  composed and sent without a lock, so the summary that arrives last may be the
  older one (`SummaryMatchesTwin` without its condition on `ReportOnConnect`).
* *A slot that counts as provisioned and is not*: a key that fails to load once
  is evicted, the URI stays, and `IsDeviceProvisioned` looks only at the URI.
* *A section that is not rebuilt*: after the end of the host process a change of
  one time zone field finds no other field to be merged into, and fails
  (`docs/device-agent/incremental-updates-merging.md` has the handler re-construct
  the section).

Seen while modelling; where a run would show it, the change of constants is
named:

* On a normal end `AzureRawHost::Destroy` and `DeinitializeIoTHubConnection`
  both destroy the one client, and then `~AzureDMClient` calls `Deinitialize`
  again, whose `_activeHandlerHost` is null. In the model a normal end is a
  crash of the worker (`DestroyedTwice`, `DestroyClient`).
* A renewal that fails after the disconnection unwinds with the destroyed
  handle still in `AzureRawHost`, which destroys it again. In the same window a
  handler's report uses it.
* A handler whose `Stop` throws makes `RunClient` build the client anew and
  start all handlers, though the service is stopping; `StopSeenBeforeConnecting`
  shows that it goes no further than that.
* `SERVICE_CONTROL_SHUTDOWN` reports STOPPED and never sets the event.
* A worker that waits for a token without provisioning, or whose set-up fails
  again and again, never looks at the event.

* Two requests that arrive before the request processor wakes share one wake-up,
  and one stays queued.
* Packets of two host threads alternate and the message rebuilt is neither
  (`QueuedMessagesIntact` with `HostCallers = {h1}` and two packets).
* An unload joins, under `_mutex`, threads that end only when the host ends or
  when they get `_mutex` (`UndisturbedOperationsEnd`, if unloads were left undisturbed).
* `Load` starts the two threads without the mutex; if the host dies meanwhile,
  the monitor may have closed the events that they use. A caller still waits on
  open events only (`WaitsOnOpenEvents`, checked with `QuietLoad = FALSE`).
* No call restarts the keep-alive wait, which the manifest reference describes
  as a time without activity. A call in progress is still safe
  (`ShutdownWaitsForCalls`): the monitor waits for `_mutex`.
* A handler that is not active is never told of a connection change, though the
  plugin guide says that `OnConnectionStatusChanged` is called every time.
* A renewal of the connection signals only the connection status, where
  `docs/device-agent/connectivity-management.md` describes handlers being stopped
  and started again.
* The exception for a circular dependency is thrown for an unknown name too.

Registration and start-up:

* An out-of-process plug-in whose binary is missing or lacks a function makes the agent
  hang at start-up: its host ends before it opens the pipes, and
  `ConnectNamedPipe` has no limit.
* One manifest that depends on a handler nobody registers empties the sequence of
  all handlers.
* Unwinding unloads direct plug-ins before `Destroy` calls their handlers. A
  plug-in whose load failed leaves its library loaded.
* `docs/device-agent/reference/plugin-manifest-file.md`: the largest keep-alive
  time is refused (`isInt`), and the extension of a manifest is not checked.

UWP bridge:

* An app's reboot that comes after `Destroy` calls a null pointer. `InvokeReboot`
  ignores its result, so an app is told S_OK though nothing rebooted.
* The worker waits for a scope id with no regard to the stop event.
* Saving the scope id truncates the file, fails
  silently, and after a crash in between the file can neither be loaded nor saved.

Twin dispatch:

* A report that the SDK refuses throws out of the SDK's C callback; from a
  built-in handler's `noexcept` `Invoke` it ends the agent. A direct method whose
  handler throws leaves no answer to return.
* `ClearReported` removes the sections and leaves their entries in the summary.
* A section of a handler that is not active is marked pending and stays so.
* `IsConfigured` through the boundary always throws (`agent/Plugins/RawHandlerProxy.cpp:83`
  wants a number of a Boolean), so the group "configured" of the device schemas always
  fails when a plug-in has a handler. A status that was never set has no string, and
  `GetDeploymentStatus` throws. `ReportedSchema::FromJsonValue` drops the tags.
* The device schemas list handlers that are not active, and merge a section before
  they look at its version; reports are patches, so earlier entries stay.

Credentials:

* The first access of any process stores and erases a test URI in the slot it
  was asked for: a provisioned slot loses its URI. Two processes at their first
  access, which no run has, may each latch another choice, and with two faults the test URI stays
  to be read as the device's.
* `LimpetStoreURIInRegistry` returns success when the write of the URI failed,
  `register_device_callback` ignores the result of storing the URI, and
  `EmptyTpmSlot` always returns success.
* After a crash between a module's key and its URI the slot is not provisioned
  and is filled anew only by a registration of the device. Modules keep the old
  hub's credential when the device is assigned to another.

Identity keys and the tool:

* A key without its certificate property, left by a crash or a failure, can be
  neither read nor destroyed. Opening a key that fails for any reason
  creates another in its place.
* With an empty credential a given activation secret is ignored; a wrong storage root
  key makes `CreateHostageKeyEx` throw "success".
* `ForceClear` reports success though nothing was cleared; `-pcs` stores the URI
  before the key; a crash in the encryption of a payload leaves one half encrypted.

Handlers:

* Certificates: the report for `My_System` lists `My_User`'s; a file that cannot
  be read aborts the remaining stores; downloads share a file by the last part
  of the blob's path; what a blob holds is not checked against the thumbprint.
* Apps: a downgrade uninstalls before the missing connection string is noticed;
  an installed package that is not found again for the report is a null pointer
  and ends the host; one comparison of names is case-sensitive, the other not.
* Diagnostic logs: whether a collector is configured is a search for its name in
  the list of names, so a name that is part of another's is taken for it; a block
  count that cannot be read makes an empty log file.
* Time: a change is merged before its version is checked; the daylight date is
  parsed from the standard date; a leaf removed while the device was offline
  stays; the memory is lost with the host process.
* Windows Update reports an uninitialised integer when a value cannot be read.
* Methods: `ClearTpm` returns S_OK whatever the TPM said; a factory reset that
  fails at its restart leaves the boot sequence set; `DeleteLogFile` ignores the
  result of the deletion; a certificate's details that cannot be read are answered
  with null.

MDM commands:

* White space after an item's data would be taken for its value, since the readers
  do not rebuild the path at an end tag. Statuses after the results are not read.
* `RunGetUInt` uses `std::stoi`: a value above `INT_MAX` throws
  `std::out_of_range`, which `TryGetNumber` lets through. `<Data/>` is a missing
  path for `RunGetString`, `<Data></Data>` an empty value. Values are not escaped
  in requests.

## 6. Not modelled

* What most messages say: JSON, error codes, parameter lists, the methods' answers.
* The arithmetic of renewal times; the shutdown message, which is written as a raw
  object and not as packets: in the model the host ends in any case, as
  `TerminateProcess` has it.
* The destructor of a transport whose `Load` threw; the host's own end on a
  shutdown call; the host's wait for the end of the agent's process.
* Torn values: the record of a handler's state while another thread copies its parameters
  (`Json::Value`), and the scope id while two calls assign it (`std::string`), which are
  undefined behaviour. Each is one of the values written.
* Two processes that make their first access to the TPM at the same time.
* A bridge that outlives the 60 seconds between two runs; the RPC runtime, which
  is what its flags say; data races between an app's call and `Load` of the
  service's parameters, or the registration of handlers in the map.
* `DMService::Install` and `Uninstall`, which only call the service control
  manager (`Uninstall` deletes the service whether it stopped or not).
* Logging, JSON, registry and file helpers: calls without protocol state.
* The HTTP exchange with the provisioning service (`HttpConnection.cpp` is not built),
  PFX import, platform attestation, and the commands of the tool that only print.
* Vendored code (jsoncpp), which is most of what the map does not cover, with the
  test clients and the samples.

## 7. Plan

1. Proofs: `CommandsMeanWhatTheyReturn`, for which the readers would have to be written
   as steps over a document.
2. The renewal times of `AzureDMClient::Run` in 32-bit unsigned arithmetic.
3. `Install` and `Uninstall` of the service; the provisioning client's polling.
