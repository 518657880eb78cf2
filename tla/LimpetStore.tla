----------------------------- MODULE LimpetStore ------------------------------
(***************************************************************************)
(* The credentials of the logical devices ("slots") as the Limpet library  *)
(* keeps them: a HMAC key and the URI of the hub it is for.  They are in   *)
(* the TPM (a persisted key handle and an NV index per slot) or, where NV  *)
(* does not work, in the registry (values of a key per slot); which of the *)
(* two is found out by a trial at the first access and latched in the      *)
(* registry value "useregistry".  A URI that is not in the TPM is looked    *)
(* for in the identity certificates, see IdentityCertificates.             *)
(*                                                                         *)
(* No function of the library is atomic: each makes TPM and registry calls *)
(* one after the other, each of which may fail, and the process may die    *)
(* between two of them.  A process is therefore a stack of calls still to  *)
(* make.  A library function at the top is replaced by the calls it makes; *)
(* a failed call drops what follows up to the first place that handles it. *)
(***************************************************************************)
EXTENDS Integers, Sequences, FiniteSets, SequencesExt

CONSTANTS
    Slots,      \* the logical devices in use
    Hubs,       \* the hubs, or enrolments, a credential may be for
    None,       \* no value
    DeviceSlot, \* deviceSlotNumber of the configuration file
    Processes,  \* the processes that link the library
    Scenarios   \* the initial configurations, see DeviceIdentity

Credentials == Hubs \cup {None}
Uris == Hubs \cup {None, "blank", "test"}   \* "blank": defined, not written

VARIABLES
    scenario,     \* the configuration of this behaviour; never changes
    useRegistry,  \* the latched choice: "unset", "no" or "yes"
    store,        \* the slots: registry values, TPM key handle, NV index
    srk,          \* the storage root key: how often the TPM was cleared
    ksp,          \* per key container of the device the key and its certificate
    calls,        \* per process: the calls it has still to make
    failed,       \* per process: whether the last call failed
    held,         \* per process: the URI and key it has read
    faults        \* calls that were made to fail so far

Call(op, s, h) == [op |-> op, slot |-> s, hub |-> h]
Do(op, s) == Call(op, s, None)

Slot(key, uri, inRegistry) ==
    IF inRegistry
    THEN [public |-> key, private |-> key, name |-> key, uri |-> uri, blob |-> None,
          key |-> None, nv |-> None]
    ELSE [public |-> None, private |-> None, name |-> None, uri |-> None, blob |-> None,
          key |-> key, nv |-> uri]

\* "stale": wrapped under a storage root key that was cleared since.
Wrapped == Credentials \cup {"stale"}

SlotType == [public : Credentials, private : Wrapped, name : Credentials,
             uri : Credentials, blob : Wrapped, key : Credentials, nv : Uris]

InRegistry == useRegistry = "yes"

\* A container is named after the slot, the storage root key and the algorithm,
\* so that none is found again once that key is cleared.
LimpetReadDeviceId(a) == <<srk, a>>

GetLogicalDeviceCert(s, a) ==
    IF s = DeviceSlot THEN ksp[LimpetReadDeviceId(a)].cert ELSE None

(***************************************************************************)
(* The single calls: when one succeeds, and what it leaves in the slot.    *)
(***************************************************************************)

\* The subject of a certificate that an authority issued names a hub.
NamesHub(cert) == cert # None /\ cert.uri # None

\* A registry value can always be set, and deleted only if it is there.
Works(c, slot, mine) ==
    CASE c.op = "delete public"  -> slot.public # None
      [] c.op = "delete private" -> slot.private # None
      [] c.op = "delete name"    -> slot.name # None
      [] c.op = "delete uri"     -> slot.uri # None
      [] c.op = "read uri"       -> slot.uri # None
      [] c.op = "read public"    -> slot.public # None
      [] c.op = "read private"   -> slot.private # None
      [] c.op = "load"           -> slot.private = mine.key
      [] c.op = "import hostage" -> c.hub # "stale"
      [] c.op = "persist key"    -> slot.key = None
      [] c.op = "evict"          -> slot.key # None
      [] c.op = "sign"           -> slot.key # None
      [] c.op = "define nv"      -> slot.nv = None
      [] c.op = "undefine nv"    -> slot.nv # None
      [] c.op \in {"read nv", "verify nv"} -> slot.nv \notin {None, "blank"}
      [] c.op = "read certificate" -> NamesHub(GetLogicalDeviceCert(c.slot, c.hub))
      [] OTHER                   -> TRUE

\* The trial first destroys the URI it finds in the slot.
After(c, slot) ==
    CASE c.op = "set public"     -> [slot EXCEPT !.public = c.hub]
      [] c.op = "set private"    -> [slot EXCEPT !.private = c.hub]
      [] c.op = "set name"       -> [slot EXCEPT !.name = c.hub]
      [] c.op = "set uri"        -> [slot EXCEPT !.uri = c.hub]
      [] c.op = "set blob"       -> [slot EXCEPT !.blob = c.hub]
      [] c.op = "delete public"  -> [slot EXCEPT !.public = None]
      [] c.op = "delete private" -> [slot EXCEPT !.private = None]
      [] c.op = "delete name"    -> [slot EXCEPT !.name = None]
      [] c.op = "delete uri"     -> [slot EXCEPT !.uri = None]
      [] c.op = "delete blob"    -> [slot EXCEPT !.blob = None]
      [] c.op = "persist key"    -> [slot EXCEPT !.key = c.hub]
      [] c.op = "evict"          -> [slot EXCEPT !.key = None]
      [] c.op = "define nv"      -> [slot EXCEPT !.nv = "blank"]
      [] c.op = "write nv"       -> [slot EXCEPT !.nv = c.hub]
      [] c.op \in {"undefine nv", "clear nv"} -> [slot EXCEPT !.nv = None]
      [] OTHER                   -> slot

\* What the process knows after the call.
Learnt(c, slot, mine) ==
    CASE c.op = "read uri"    -> [mine EXCEPT !.uri = slot.uri]
      [] c.op = "read nv"     -> [mine EXCEPT !.uri = slot.nv]
      [] c.op = "read certificate" ->
            [mine EXCEPT !.uri = GetLogicalDeviceCert(c.slot, c.hub).uri]
      [] c.op = "read public" -> [mine EXCEPT !.key = slot.public]
      [] c.op = "sign"        -> [mine EXCEPT !.key = slot.key]
      [] OTHER                -> mine

SingleCalls == {"set public", "set private", "set name", "set uri", "set blob",
                "delete public", "delete private", "delete name", "delete uri",
                "delete blob", "read uri", "read public", "read private", "load",
                "import hostage", "persist key", "evict", "sign", "define nv",
                "write nv", "undefine nv", "clear nv", "read nv", "verify nv",
                "read certificate", "read name"}

(***************************************************************************)
(* The functions of the library, as the calls they make.                   *)
(***************************************************************************)

TryTpmNvOperations(s) ==
    <<Do("clear nv", s), Do("define nv", s), Call("write nv", s, "test"),
      Do("verify nv", s), Do("undefine nv", s)>>

\* In the registry a URI is one value; in the TPM the space is defined first.
LimpetStoreURI(s, h) ==
    IF InRegistry THEN <<Call("set uri", s, h)>>
    ELSE <<Do("define nv", s), Call("write nv", s, h)>>

WaitingBlob(s) == InRegistry /\ scenario.lazy /\ store[s].blob # None

DestoryHostageBlobIfPresent(s) == IF WaitingBlob(s) THEN <<Do("delete blob", s)>> ELSE << >>

LimpetReadURI(s) ==
    IF InRegistry THEN <<Do("ImportHostageBlobIfPresent", s), Do("read uri", s)>>
    ELSE <<Do("read nv", s)>>

\* Mutant: only a URI that can be read is destroyed.
LimpetDestroyURIReadsFirst(s) ==
    IF InRegistry THEN DestoryHostageBlobIfPresent(s) \o <<Do("delete uri", s)>>
    ELSE <<Do("read nv", s), Do("undefine nv", s)>>

LimpetDestroyURI(s) ==
    IF InRegistry THEN DestoryHostageBlobIfPresent(s) \o <<Do("delete uri", s)>>
    ELSE <<Do("undefine nv", s)>>

\* The two halves of a key are set one after the other in the registry.
WriteKey(s, h) ==
    IF InRegistry
    THEN <<Call("set public", s, h), Call("set private", s, h), Call("set name", s, h)>>
    ELSE <<Call("persist key", s, h)>>

LimpetCreateHmacKey(s, h) == WriteKey(s, h)

LimpetEvictHmacKey(s) ==
    IF InRegistry
    THEN DestoryHostageBlobIfPresent(s)
            \o <<Do("delete public", s), Do("delete private", s), Do("delete name", s)>>
    ELSE <<Do("evict", s)>>

\* Mutant: the URI is stored before the key it goes with.
LimpetImportHostageKeyExUriFirst(s, h) ==
    <<Call("import hostage", s, h), Call("LimpetStoreURI", s, h)>> \o WriteKey(s, h)

\* The TPM unwraps the key and the URI first; they are for one TPM only.
LimpetImportHostageKeyEx(s, h) ==
    <<Call("import hostage", s, h)>> \o WriteKey(s, h) \o <<Call("LimpetStoreURI", s, h)>>

LimpetImportHostageKey(s, h) ==
    IF InRegistry /\ scenario.lazy THEN <<Call("set blob", s, h)>>
    ELSE LimpetImportHostageKeyEx(s, h)

\* The blob is deleted whether or not it could be imported.
ImportHostageBlobIfPresent(s) ==
    IF WaitingBlob(s)
    THEN LimpetImportHostageKeyEx(s, store[s].blob) \o <<Do("finally delete blob", s)>>
    ELSE << >>

LimpetSignWithIdentityHmacKeyEx(s) ==
    IF InRegistry THEN <<Do("read public", s), Do("read private", s), Do("load", s)>>
    ELSE <<Do("sign", s)>>

LimpetSignWithIdentityHmacKey(s) ==
    <<Do("ImportHostageBlobIfPresent", s), Do("LimpetSignWithIdentityHmacKeyEx", s)>>

\* The names of what a slot holds: only that somebody asks for them matters.
LimpetReadUriName(s) == <<Do("read name", s)>>
LimpetReadHmacName(s) == <<Do("read name", s)>>

LimpetGenerateSASToken(s) ==
    <<Do("ImportHostageBlobIfPresent", s), Do("LimpetReadURI", s),
      Do("LimpetSignWithIdentityHmacKeyEx", s), Do("token", s)>>

Functions == {"LimpetStoreURI", "LimpetReadURI", "LimpetDestroyURI", "LimpetCreateHmacKey",
              "LimpetEvictHmacKey", "LimpetImportHostageKey", "ImportHostageBlobIfPresent",
              "LimpetSignWithIdentityHmacKeyEx", "LimpetGenerateSASToken",
              "LimpetSignWithIdentityHmacKey", "LimpetReadUriName", "LimpetReadHmacName"}

Body(c) ==
    CASE c.op = "LimpetStoreURI"             -> LimpetStoreURI(c.slot, c.hub)
      [] c.op = "LimpetReadURI"              -> LimpetReadURI(c.slot)
      [] c.op = "LimpetDestroyURI"           -> LimpetDestroyURI(c.slot)
      [] c.op = "LimpetCreateHmacKey"        -> LimpetCreateHmacKey(c.slot, c.hub)
      [] c.op = "LimpetEvictHmacKey"         -> LimpetEvictHmacKey(c.slot)
      [] c.op = "LimpetImportHostageKey"     -> LimpetImportHostageKey(c.slot, c.hub)
      [] c.op = "ImportHostageBlobIfPresent" -> ImportHostageBlobIfPresent(c.slot)
      [] c.op = "LimpetSignWithIdentityHmacKeyEx" -> LimpetSignWithIdentityHmacKeyEx(c.slot)
      [] c.op = "LimpetSignWithIdentityHmacKey" -> LimpetSignWithIdentityHmacKey(c.slot)
      [] c.op = "LimpetReadUriName"          -> LimpetReadUriName(c.slot)
      [] c.op = "LimpetReadHmacName"         -> LimpetReadHmacName(c.slot)
      [] c.op = "LimpetGenerateSASToken"     -> LimpetGenerateSASToken(c.slot)

(***************************************************************************)
(* The steps of a process inside the library.                              *)
(***************************************************************************)

\* Places that see a failure: the library's own, and those of its callers.
LibraryHandlers == {"latch", "finally delete blob", "rethrow"}
Handlers == LibraryHandlers \cup
            {"ignore", "checked device", "checked module", "registered", "tried token", "imported",
             "output"}

At(p, op) == calls[p] # << >> /\ Head(calls[p]).op = op
Top(p) == Head(calls[p])

From(stack, places) ==
    LET i == SelectInSeq(stack, LAMBDA c : c.op \in places)
    IN  IF i = 0 THEN << >> ELSE SubSeq(stack, i, Len(stack))

Unwound(stack) == From(stack, Handlers)

\* The call at the top has returned, with success or not.
Returned(p, success) ==
    /\ calls' = [calls EXCEPT ![p] = IF success THEN Tail(@) ELSE Unwound(Tail(@))]
    /\ failed' = [failed EXCEPT ![p] = ~success]

Fault == faults < scenario.faults /\ faults' = faults + 1

\* The first access to any slot makes the trial in that slot.
UseRegistry(p) ==
    /\ calls[p] # << >> /\ Top(p).op \in Functions
    /\ useRegistry = "unset"
    /\ calls' = [calls EXCEPT ![p] = TryTpmNvOperations(Top(p).slot)
                                        \o <<Do("latch", Top(p).slot)>> \o @]
    /\ UNCHANGED <<scenario, useRegistry, store, failed, held, faults>>

\* Mutant: the choice is the opposite of what the trial found.
LatchOpposite(p) ==
    /\ At(p, "latch")
    /\ useRegistry' = IF failed[p] THEN "no" ELSE "yes"
    /\ Returned(p, TRUE)
    /\ UNCHANGED <<scenario, store, held, faults>>

\* The trial's result is recorded for ever, for all slots.
Latch(p) ==
    /\ At(p, "latch")
    /\ useRegistry' = IF failed[p] THEN "yes" ELSE "no"
    /\ Returned(p, TRUE)
    /\ UNCHANGED <<scenario, store, held, faults>>

\* The value could not be set: UseRegistry throws, past who only ignores results.
LatchFails(p) ==
    /\ At(p, "latch")
    /\ Fault
    /\ calls' = [calls EXCEPT ![p] = From(Tail(@), Handlers \ {"ignore"})]
    /\ failed' = [failed EXCEPT ![p] = TRUE]
    /\ UNCHANGED <<scenario, useRegistry, store, held>>

Enter(p) ==
    /\ calls[p] # << >> /\ Top(p).op \in Functions
    /\ useRegistry # "unset"
    /\ calls' = [calls EXCEPT ![p] = Body(Top(p)) \o Tail(@)]
    /\ UNCHANGED <<scenario, useRegistry, store, failed, held, faults>>

Single(p) ==
    /\ calls[p] # << >> /\ Top(p).op \in SingleCalls
    /\ LET c == Top(p)
           s == c.slot
       IN  /\ Works(c, store[s], held[p])
           /\ store' = [store EXCEPT ![s] = After(c, @)]
           /\ held' = [held EXCEPT ![p] = Learnt(c, store[s], @)]
           /\ Returned(p, TRUE)
    /\ UNCHANGED <<scenario, useRegistry, faults>>

\* A key that does not load is evicted before the error is passed on.
LoadFails(p) ==
    /\ At(p, "load")
    /\ \/ ~Works(Top(p), store[Top(p).slot], held[p]) /\ UNCHANGED faults
       \/ Fault
    /\ calls' = [calls EXCEPT ![p] = <<Do("LimpetEvictHmacKey", Top(p).slot),
                                       Do("rethrow", Top(p).slot)>> \o Tail(@)]
    /\ UNCHANGED <<scenario, useRegistry, store, failed, held>>

\* Where a URI may be if the NV index, or the certificate, is not there.
NextPlace(c) ==
    CASE c.op \in {"read nv", "verify nv"}            -> "RSA"
      [] c.op = "read certificate" /\ c.hub = "RSA" -> "ECDSA"
      [] OTHER                                      -> None

Missing(c) ==
    IF c.op = "read certificate" THEN GetLogicalDeviceCert(c.slot, c.hub) = None
    ELSE store[c.slot].nv = None

\* Whatever was the reason that the index or the key could not be opened.
LooksFurther(p) ==
    /\ calls[p] # << >> /\ Top(p).op \in SingleCalls
    /\ NextPlace(Top(p)) # None
    /\ \/ Missing(Top(p)) /\ UNCHANGED faults
       \/ Fault
    /\ calls' = [calls EXCEPT ![p] = <<Call("read certificate", Top(p).slot, NextPlace(Top(p)))>>
                                        \o Tail(@)]
    /\ UNCHANGED <<scenario, useRegistry, store, failed, held>>

\* The write of the URI to the registry is taken to have worked even if not,
\* and a name that cannot be read is not shown.
SingleFails(p) ==
    /\ calls[p] # << >> /\ Top(p).op \in SingleCalls \ {"load"}
    /\ \/ /\ ~Works(Top(p), store[Top(p).slot], held[p])
          /\ NextPlace(Top(p)) # None => ~Missing(Top(p))
          /\ UNCHANGED faults
       \/ Fault
    /\ Returned(p, Top(p).op \in {"set uri", "read name"})
    /\ UNCHANGED <<scenario, useRegistry, store, held>>

FinallyDeleteBlob(p) ==
    /\ At(p, "finally delete blob")
    /\ \/ store' = [store EXCEPT ![Top(p).slot].blob = None] /\ UNCHANGED faults
       \/ Fault /\ UNCHANGED store
    /\ Returned(p, ~failed[p])
    /\ UNCHANGED <<scenario, useRegistry, held>>

Rethrow(p) ==
    /\ At(p, "rethrow")
    /\ Returned(p, FALSE)
    /\ UNCHANGED <<scenario, useRegistry, store, held, faults>>

Library(p) ==
    \/ UseRegistry(p)
    \/ Latch(p)
    \/ LatchFails(p)
    \/ Enter(p)
    \/ Single(p)
    \/ LoadFails(p)
    \/ LooksFurther(p)
    \/ SingleFails(p)
    \/ FinallyDeleteBlob(p)
    \/ Rethrow(p)
===============================================================================
