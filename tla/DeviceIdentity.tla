---------------------------- MODULE DeviceIdentity ----------------------------
(***************************************************************************)
(* How a device gets its identities: the agent asks the slot it is told to *)
(* use for a connection string; if there is none it registers the device   *)
(* with the provisioning service and creates its modules, or waits for     *)
(* another process to import a credential.  An application polls the       *)
(* device's slot for its own connection string meanwhile.                  *)
(*                                                                         *)
(* The SDK's TPM client persists the key it receives under the fixed       *)
(* handle that is the one of slot 0; the hub is whichever the service      *)
(* assigns.                                                                *)
(***************************************************************************)
EXTENDS LimpetStore

CONSTANTS
    DmSlot,      \* dmModuleSlotNumber
    Modules      \* the slots of the modules to create, in the order of the map

ASSUME IdentityParametersOK ==
    /\ IsFiniteSet(Slots) /\ DeviceSlot \in Slots /\ DmSlot \in Slots
    /\ ToSet(Modules) \subseteq Slots \ {DeviceSlot}
    /\ Processes = {"agent", "app", "provisioner", "tool"}
    /\ None \notin Hubs \cup {"blank", "test"}
    /\ \A s \in Scenarios :
          /\ s.mode \in {"unset", "no", "yes"} /\ s.provisioned \subseteq Slots
          /\ s.certificate \in Credentials
          /\ s.faults \in Nat /\ s.crashes \in Nat
          /\ {s.lazy, s.dps, s.app} \subseteq BOOLEAN

VARIABLES
    status,     \* of the agent: "running", "connected" or "threw"
    triedDps,   \* the local of GetConnectionString
    token,      \* per process: the URI and key of the last SAS token
    toImport,   \* slots the provisioner has still to fill
    crashes     \* crashes so far

library == <<scenario, useRegistry, store, calls, failed, held, faults>>
driver == <<status, triedDps, token, toImport, crashes>>
vars == <<library, driver>>

NoCredential == [uri |-> None, key |-> None]

TypeOK ==
    /\ scenario \in Scenarios
    /\ useRegistry \in {"unset", "no", "yes"}
    /\ store \in [Slots -> SlotType]
    /\ \A p \in Processes \ {"tool"} : \A i \in 1 .. Len(calls[p]) :
          /\ calls[p][i].slot \in Slots
          /\ calls[p][i].hub \in Wrapped \cup {"test", "RSA", "ECDSA"}
          /\ calls[p][i].op \in SingleCalls \cup Functions \cup Handlers \cup
                {"token", "DpsRegisterDevice", "Prov_Device_LL_Register_Device",
                 "register_device_callback", "create_modules", "create_module",
                 "device uri", "GetModule", "EmptyTpmSlot"}
    /\ failed \in [Processes -> BOOLEAN]
    /\ \A p \in Processes : failed[p] /\ calls[p] # << >> => Top(p).op \in Handlers
    /\ held \in [Processes -> [uri : Uris, key : Credentials]]
    /\ faults \in 0 .. scenario.faults
    /\ status \in {"running", "connected", "threw"}
    /\ triedDps \in BOOLEAN
    /\ token \in [Processes -> [uri : Uris, key : Credentials]]
    /\ toImport \subseteq Slots
    /\ crashes \in 0 .. scenario.crashes

Init ==
    /\ scenario \in Scenarios
    /\ useRegistry = scenario.mode
    /\ \E h \in Hubs :
          store = [s \in Slots |->
                     IF s \in scenario.provisioned THEN Slot(h, h, scenario.mode = "yes")
                     ELSE Slot(None, None, FALSE)]
    /\ calls = [p \in Processes |-> << >>]
    /\ failed = [p \in Processes |-> FALSE]
    /\ held = [p \in Processes |-> NoCredential]
    /\ faults = 0
    /\ status = "running"
    /\ triedDps = FALSE
    /\ token = [p \in Processes |-> NoCredential]
    /\ toImport = IF scenario.dps \/ scenario.commands # {} THEN {}
                  ELSE Slots \ scenario.provisioned
    /\ crashes = 0

\* A call of the agent that stands for the calls it makes.
Expand(p, op, body) ==
    /\ At(p, op)
    /\ calls' = [calls EXCEPT ![p] = body \o Tail(@)]
    /\ UNCHANGED <<scenario, useRegistry, store, failed, held, faults, driver>>

(***************************************************************************)
(* The SAS token, for whoever asked for it.                                *)
(***************************************************************************)

Token(p) ==
    /\ At(p, "token")
    /\ token' = [token EXCEPT ![p] = held[p]]
    /\ Returned(p, TRUE)
    /\ UNCHANGED <<scenario, useRegistry, store, held, faults, status, triedDps,
                   toImport, crashes>>

\* EmptyTpmSlot ignores whether its two calls work.
Ignore(p) ==
    /\ At(p, "ignore")
    /\ Returned(p, TRUE)
    /\ UNCHANGED <<scenario, useRegistry, store, held, faults, driver>>

\* The slot is emptied URI first.
EmptyTpmSlot(p) ==
    Expand(p, "EmptyTpmSlot",
           LET s == Top(p).slot
           IN  <<Do("LimpetDestroyURI", s), Do("ignore", s),
                 Do("LimpetEvictHmacKey", s), Do("ignore", s)>>)

(***************************************************************************)
(* The agent: AzureDMClient::GetConnectionString.                          *)
(***************************************************************************)

GetConnectionString ==
    /\ status = "running" /\ calls["agent"] = << >> /\ ~failed["agent"]
    /\ scenario.commands = {}
    /\ calls' = [calls EXCEPT !["agent"] = <<Do("LimpetGenerateSASToken", DmSlot),
                                             Do("tried token", DmSlot)>>]
    /\ UNCHANGED <<scenario, useRegistry, store, failed, held, faults, driver>>

GotConnectionString ==
    /\ At("agent", "tried token")
    /\ ~failed["agent"]
    /\ status' = "connected"
    /\ Returned("agent", TRUE)
    /\ UNCHANGED <<scenario, useRegistry, store, held, faults, triedDps, token,
                   toImport, crashes>>

\* No connection string: register, or wait ten seconds and try again.
NoConnectionString ==
    /\ At("agent", "tried token")
    /\ failed["agent"]
    /\ ~(scenario.dps /\ triedDps)
    /\ triedDps' = scenario.dps
    /\ calls' = [calls EXCEPT !["agent"] =
                    IF scenario.dps
                    THEN <<Do("DpsRegisterDevice", DeviceSlot),
                           Do("create_modules", DeviceSlot),
                           Do("registered", DeviceSlot)>>
                    ELSE << >>]
    /\ failed' = [failed EXCEPT !["agent"] = FALSE]
    /\ UNCHANGED <<scenario, useRegistry, store, held, faults, status, token,
                   toImport, crashes>>

GivesUp ==
    /\ At("agent", "tried token")
    /\ failed["agent"]
    /\ scenario.dps /\ triedDps
    /\ status' = "threw"
    /\ Returned("agent", TRUE)
    /\ UNCHANGED <<scenario, useRegistry, store, held, faults, triedDps, token,
                   toImport, crashes>>

\* ProvisionDevice throws if the registration failed.
Registered ==
    /\ At("agent", "registered")
    /\ status' = IF failed["agent"] THEN "threw" ELSE status
    /\ Returned("agent", TRUE)
    /\ UNCHANGED <<scenario, useRegistry, store, held, faults, triedDps, token,
                   toImport, crashes>>

\* The token is renewed in the same way.
RenewSASToken ==
    /\ status = "connected" /\ calls["agent"] = << >>
    /\ status' = "running"
    /\ triedDps' = FALSE
    /\ UNCHANGED <<library, token, toImport, crashes>>

(***************************************************************************)
(* Registration of the device.                                             *)
(***************************************************************************)

DpsRegisterDevice ==
    Expand("agent", "DpsRegisterDevice",
           <<Do("LimpetReadURI", DeviceSlot), Do("checked device", DeviceSlot)>>)

\* Mutant: the device is registered again although it is provisioned.
CheckedDeviceAlways ==
    /\ At("agent", "checked device")
    /\ calls' = [calls EXCEPT !["agent"] =
                    <<Do("EmptyTpmSlot", DeviceSlot),
                      Do("Prov_Device_LL_Register_Device", DeviceSlot)>> \o Tail(@)]
    /\ failed' = [failed EXCEPT !["agent"] = FALSE]
    /\ UNCHANGED <<scenario, useRegistry, store, held, faults, driver>>

\* A slot with a URI counts as provisioned, an error as not provisioned.
CheckedDevice ==
    /\ At("agent", "checked device")
    /\ calls' = [calls EXCEPT !["agent"] =
                    (IF failed["agent"]
                     THEN <<Do("EmptyTpmSlot", DeviceSlot),
                            Do("Prov_Device_LL_Register_Device", DeviceSlot)>>
                     ELSE << >>) \o Tail(@)]
    /\ failed' = [failed EXCEPT !["agent"] = FALSE]
    /\ UNCHANGED <<scenario, useRegistry, store, held, faults, driver>>

\* The SDK replaces the key under its handle and calls back.
ProvDeviceLLRegisterDevice ==
    /\ At("agent", "Prov_Device_LL_Register_Device")
    /\ \E h \in Hubs :
          /\ store' = [store EXCEPT ![DeviceSlot].key = h]
          /\ calls' = [calls EXCEPT !["agent"] =
                          <<Call("LimpetStoreURI", DeviceSlot, h),
                            Do("ignore", DeviceSlot)>> \o Tail(@)]
    /\ UNCHANGED <<scenario, useRegistry, failed, held, faults, status, triedDps, token,
                   toImport, crashes>>

\* A registration that fails is tried again after five seconds; one that cannot
\* be begun, for want of COM, a network, the platform, TPM or handle, ends it.
RegistrationFails ==
    /\ At("agent", "Prov_Device_LL_Register_Device")
    /\ Fault
    /\ \/ UNCHANGED <<calls, failed>>
       \/ Returned("agent", FALSE)
    /\ UNCHANGED <<scenario, useRegistry, store, held, driver>>

(***************************************************************************)
(* The modules.                                                            *)
(***************************************************************************)

\* The URI that is read here names the hub of the modules, the token for the
\* device, which reads it again, the hub they are created in.
CreateModules ==
    Expand("agent", "create_modules",
           <<Do("LimpetReadURI", DeviceSlot), Do("device uri", DeviceSlot)>>)

CreateEachModule ==
    Expand("agent", "device uri",
           <<Do("LimpetGenerateSASToken", DeviceSlot)>>
              \o [i \in 1 .. Len(Modules) |->
                     Call("create_module", Modules[i], held["agent"].uri)])

CreateModule ==
    Expand("agent", "create_module",
           <<Do("LimpetReadURI", Top("agent").slot),
             Call("checked module", Top("agent").slot, Top("agent").hub)>>)

\* Mutant: the module's URI is stored before its key.
CheckedModuleUriFirst ==
    /\ At("agent", "checked module")
    /\ calls' = [calls EXCEPT !["agent"] =
                    (IF failed["agent"]
                     THEN <<Call("GetModule", Top("agent").slot, Top("agent").hub),
                            Call("LimpetStoreURI", Top("agent").slot, Top("agent").hub),
                            Call("LimpetCreateHmacKey", Top("agent").slot, token["agent"].uri)>>
                     ELSE << >>) \o Tail(@)]
    /\ failed' = [failed EXCEPT !["agent"] = FALSE]
    /\ UNCHANGED <<scenario, useRegistry, store, held, faults, driver>>

\* Only a module without a URI is looked up or created in the hub.
CheckedModule ==
    /\ At("agent", "checked module")
    /\ calls' = [calls EXCEPT !["agent"] =
                    (IF failed["agent"]
                     THEN <<Call("GetModule", Top("agent").slot, Top("agent").hub),
                            Call("LimpetCreateHmacKey", Top("agent").slot, token["agent"].uri),
                            Call("LimpetStoreURI", Top("agent").slot, Top("agent").hub)>>
                     ELSE << >>) \o Tail(@)]
    /\ failed' = [failed EXCEPT !["agent"] = FALSE]
    /\ UNCHANGED <<scenario, useRegistry, store, held, faults, driver>>

\* A hub takes only tokens signed with its own key, and need not know the
\* device that another hub's URI names.
HubAnswers == token["agent"].uri = token["agent"].key
HubRefuses == ~HubAnswers \/ Top("agent").hub # token["agent"].uri

GetModule ==
    /\ At("agent", "GetModule")
    /\ \/ HubAnswers /\ Returned("agent", TRUE) /\ UNCHANGED faults
       \/ HubRefuses /\ Returned("agent", FALSE) /\ UNCHANGED faults
       \/ Fault /\ Returned("agent", FALSE)
    /\ UNCHANGED <<scenario, useRegistry, store, held, driver>>

(***************************************************************************)
(* The other processes, and crashes.                                       *)
(***************************************************************************)

\* An application keeps trying until the device's slot has its credential.
AppGetConnectionString ==
    /\ scenario.app /\ useRegistry # "unset"
    /\ calls["app"] = << >>
    /\ calls' = [calls EXCEPT !["app"] = <<Do("LimpetGenerateSASToken", DeviceSlot),
                                           Do("ignore", DeviceSlot)>>]
    /\ failed' = [failed EXCEPT !["app"] = FALSE]
    /\ UNCHANGED <<scenario, useRegistry, store, held, faults, driver>>

\* Without DPS another service fills each slot once; it empties it first.
Provision ==
    /\ calls["provisioner"] = << >>
    /\ \E s \in toImport, h \in Hubs :
          calls' = [calls EXCEPT !["provisioner"] =
                       <<Do("EmptyTpmSlot", s), Call("LimpetImportHostageKey", s, h),
                         Do("imported", s)>>]
    /\ UNCHANGED <<scenario, useRegistry, store, failed, held, faults, driver>>

Imported ==
    /\ At("provisioner", "imported")
    /\ toImport' = IF failed["provisioner"] THEN toImport ELSE toImport \ {Top("provisioner").slot}
    /\ Returned("provisioner", TRUE)
    /\ UNCHANGED <<scenario, useRegistry, store, held, faults, status, triedDps, token,
                   crashes>>

\* The agent dies, or gave up, and its service is started again.
Restart ==
    /\ crashes < scenario.crashes /\ scenario.commands = {}
    /\ crashes' = crashes + 1
    /\ calls' = [calls EXCEPT !["agent"] = << >>]
    /\ failed' = [failed EXCEPT !["agent"] = FALSE]
    /\ held' = [held EXCEPT !["agent"] = NoCredential]
    /\ token' = [token EXCEPT !["agent"] = NoCredential]
    /\ status' = "running"
    /\ triedDps' = FALSE
    /\ UNCHANGED <<scenario, useRegistry, store, faults, toImport>>

InLibrary(p) == Library(p) /\ UNCHANGED driver

Agent ==
    \/ GetConnectionString
    \/ GotConnectionString
    \/ NoConnectionString
    \/ GivesUp
    \/ Registered
    \/ DpsRegisterDevice
    \/ CheckedDevice
    \/ ProvDeviceLLRegisterDevice
    \/ RegistrationFails
    \/ CreateModules
    \/ CreateEachModule
    \/ CreateModule
    \/ CheckedModule
    \/ GetModule

Shared(p) ==
    \/ InLibrary(p)
    \/ Token(p)
    \/ Ignore(p)
    \/ EmptyTpmSlot(p)

Next ==
    \/ Agent
    \/ RenewSASToken
    \/ AppGetConnectionString
    \/ Provision
    \/ Imported
    \/ Restart
    \/ \E p \in Processes : Shared(p)

Spec == Init /\ [][Next]_vars

\* Every process runs; what it calls for returns.
FairSpec ==
    /\ Spec
    /\ WF_vars(Agent \/ Shared("agent"))
    /\ WF_vars(Provision \/ Imported \/ Shared("provisioner"))

(***************************************************************************)
(* Properties.                                                             *)
(***************************************************************************)

\* The device's identity certificate names a hub, so that one is read where
\* the slot has no URI.
Certified == scenario.certificate # None

\* In the TPM, a URI that is stored never stands without the key of the same
\* identity, whatever step of emptying, importing, registering or creating a
\* module fails or is cut off by a crash.  (An operator can set one without
\* the other, see LimpetTool; and where a failed call makes the certificate
\* answer for the device's URI, a module may get that hub with another's key.)
UriHasKey ==
    useRegistry = "no" /\ scenario.commands = {} =>
        \A s \in Slots :
            store[s].nv \in Hubs =>
                \/ store[s].key = store[s].nv
                \/ Certified /\ faults > 0 /\ s # DeviceSlot

\* A SAS token names the hub its key was issued for, or the one of the
\* device's certificate (LimpetGenerateSASToken reads the URI and signs in
\* separate steps), and the URI that the trial stores is never read as a
\* device's (TryTpmNvOperations, UseRegistry).
TokenIsConsistent ==
    /\ scenario.commands = {} =>
          \A p \in Processes :
              \/ token[p].uri = token[p].key
              \/ Certified /\ token[p].uri = scenario.certificate
    /\ \A p \in Processes : held[p].uri # "test"

\* When the registration returns S_OK every slot of the configuration has
\* a URI and a key for it (DpsRegisterDeviceAndModules): of the device, whose
\* registration is skipped where a URI is read, that of the slot or that of
\* the certificate.
RegisteredMeansUsable ==
    At("agent", "registered") /\ ~failed["agent"] =>
        \A s \in {DeviceSlot} \cup ToSet(Modules) :
            /\ store[s].key \in Hubs
            /\ \/ store[s].nv = store[s].key
               \/ /\ Certified
                  /\ IF s = DeviceSlot THEN store[s].nv = None
                     ELSE store[s].nv = scenario.certificate

\* As long as nothing fails, the agent gets its connection string, by
\* registering or from another service: unless the device's certificate makes
\* its empty slot count as provisioned (IsDeviceProvisioned), so that it is
\* never registered.
Connects ==
    scenario.commands = {} =>
        \/ Certified /\ scenario.dps /\ DeviceSlot \notin scenario.provisioned
        \/ <>(status = "connected" \/ faults > 0 \/ crashes > 0)

===============================================================================
