------------------------------ MODULE LimpetTool ------------------------------
(***************************************************************************)
(* The limpet command line tool, with which an operator gives a device its *)
(* credentials, certificates and secrets.  A run of it is one command; a   *)
(* command calls the library and reads and writes files, which are carried *)
(* between the device and the authority.  It may die at any call, and what *)
(* it had done until then stays.                                           *)
(*                                                                         *)
(* What a command prints is left out, and the commands that only print.    *)
(***************************************************************************)
EXTENDS DeviceIdentity, IdentityCertificates

\* A file that is absent or empty is None; it cannot be read.
ToolFiles == {"rek", "srk", "cert", "activation", "secret", "import"}

\* The switches of the command line.
CommandNames ==
    {"epl", "dpl", "sic", "iic", "aic", "cai", "csi", "ics", "fct", "lld", "srk", "erk",
     "pcs", "sur", "rur", "dur", "chk", "shk", "ast", "ehk", "read", "delete", "activate",
     "dld", "isi"}

ASSUME ToolParametersOK ==
    /\ Algorithms = {"RSA", "ECDSA"} /\ None \notin Algorithms
    /\ MaxKeys \in Nat /\ MaxSecrets \in Nat /\ MaxClears \in Nat
    /\ None \notin Int
    /\ \A s \in Scenarios : \A c \in s.commands :
          /\ c.name \in CommandNames /\ c.slot \in Slots
          /\ c.name \in {"read", "delete", "activate"} => c.alg \in Algorithms

VARIABLES
    files,        \* the operator's files
    payload,      \* the secret each half of the payload file is encrypted under
    pendingClear  \* the firmware will clear the TPM at the next start

toolVars == <<identity, files, payload, pendingClear>>
allVars == <<vars, toolVars>>

OwnKey == MaxSecrets + 1   \* a payload key that the operator types in
Garbled == -1              \* encrypted twice, or decrypted with a wrong key

ToolInit ==
    /\ IdentityInit
    /\ files = [f \in ToolFiles |-> None]
    /\ payload = [half \in 1 .. 2 |-> None]
    /\ pendingClear = FALSE

File(op, f) == [op |-> op, file |-> f]

(***************************************************************************)
(* What commands have in common.                                           *)
(***************************************************************************)

ReadFromDisk(f) == <<File("read file", f)>>

\* The file is created, or emptied, before it is written.
WriteToDisk(f) == <<File("empty file", f), File("fill file", f)>>

WriteIfRequested(f) == <<File("write if requested", f)>>

\* The file is encrypted in place, block by block.
LimpetSymmetricPayloadProtection(op) ==
    <<[op |-> op, half |-> 1], [op |-> op, half |-> 2]>>

GetPlatformKey2BPub(f) == <<File("LimpetGetTpmKey2BPub", f)>> \o WriteIfRequested(f)

(***************************************************************************)
(* The commands without a logical device: the authority's and the store's. *)
(***************************************************************************)

EncryptPayload == <<On("payload key", None)>> \o LimpetSymmetricPayloadProtection("encrypt")

DecryptPayload == <<On("payload key", None)>> \o LimpetSymmetricPayloadProtection("decrypt")

SignWithCert == ReadFromDisk("cert") \o <<On("LimpetSignWithIdentityCert", None)>>

ImportAuthCert == ReadFromDisk("cert") \o <<On("LimpetImportIdentityCert", None)>>

\* The certificate that was read is overwritten with the one issued for it.
AuthIssueCert(s, h) ==
    ReadFromDisk("cert") \o <<Call("LimpetIssueCertificate", s, h)>> \o WriteToDisk("cert")

\* Mutant: the payload is encrypted before the challenge is written.
ChallengeAsymIdEncryptFirst ==
    ReadFromDisk("rek") \o ReadFromDisk("cert")
        \o <<On("LimpetGetTpmKey2BPubFromCert", None),
             On("LimpetChallengeIdentityCert", None), On("encrypt if requested", None)>>
        \o WriteToDisk("activation") \o WriteIfRequested("secret")

ChallengeAsymId ==
    ReadFromDisk("rek") \o ReadFromDisk("cert")
        \o <<On("LimpetGetTpmKey2BPubFromCert", None),
             On("LimpetChallengeIdentityCert", None)>>
        \o WriteToDisk("activation") \o <<On("encrypt if requested", None)>>
        \o WriteIfRequested("secret")

CreateBoundSymId(s, h) ==
    ReadFromDisk("rek") \o ReadFromDisk("srk") \o <<Call("LimpetCreateHostageKeyEx", s, h)>>
        \o WriteToDisk("import") \o WriteIfRequested("secret")

ImportCertificate == ReadFromDisk("cert") \o <<On("add plain certificate", None)>>

ForceClearTpm == <<On("LimpetForceClearTpm", None)>>

\* Both names of each slot in turn.
ListLogicalDevices ==
    [n \in 1 .. 2 * Cardinality(Slots) |->
       Do(IF n % 2 = 1 THEN "LimpetReadUriName" ELSE "LimpetReadHmacName",
          SetToSeq(Slots)[(n + 1) \div 2])]

(***************************************************************************)
(* The commands of one logical device.                                     *)
(***************************************************************************)

\* Here the URI comes first.
ProvConnectionStr(s, h) == <<Call("LimpetStoreURI", s, h), Call("LimpetCreateHmacKey", s, h)>>

StoreDeviceUri(s, h) == <<Call("LimpetStoreURI", s, h)>>
ReadDeviceUri(s) == <<Do("LimpetReadURI", s)>>
DestroyDeviceUri(s) == <<Do("LimpetDestroyURI", s)>>
CreateHmacKey(s, h) == <<Call("LimpetCreateHmacKey", s, h)>>
SignWithHmacKey(s) == <<Do("LimpetSignWithIdentityHmacKey", s)>>
GenerateAzureToken(s) == <<Do("LimpetGenerateSASToken", s)>>
EvictHmacKey(s) == <<Do("LimpetEvictHmacKey", s)>>

ReadCert(a) == <<On("LimpetReadOrCreateIdentityKeyCert", a)>> \o WriteIfRequested("cert")
DeleteCert(a) == <<On("LimpetDestroyIdentityCert", a)>>

ActivateId(a) ==
    ReadFromDisk("activation")
        \o <<On("LimpetActivateIdentityCert", a), On("decrypt if requested", a)>>
        \o WriteIfRequested("secret")

\* Whether one of the four works is not looked at before the next.
DestroyLogicalDev(s) ==
    <<Do("LimpetDestroyURI", s), Do("ignore", s), Do("LimpetEvictHmacKey", s), Do("ignore", s),
      On("LimpetDestroyIdentityCert", "RSA"), Do("ignore", s),
      On("LimpetDestroyIdentityCert", "ECDSA"), Do("ignore", s), Do("destroyed", s)>>

ImportHostage(s) ==
    ReadFromDisk("import") \o <<Do("hostage", s), Do("got secret", s)>>
        \o WriteIfRequested("secret")

Commands(c) ==
    CASE c.name = "epl" -> EncryptPayload
      [] c.name = "dpl" -> DecryptPayload
      [] c.name = "sic" -> SignWithCert
      [] c.name = "iic" -> ImportAuthCert
      [] c.name = "aic" -> AuthIssueCert(c.slot, c.hub)
      [] c.name = "cai" -> ChallengeAsymId
      [] c.name = "csi" -> CreateBoundSymId(c.slot, c.hub)
      [] c.name = "ics" -> ImportCertificate
      [] c.name = "fct" -> ForceClearTpm
      [] c.name = "lld" -> ListLogicalDevices
      [] c.name = "srk" -> GetPlatformKey2BPub("srk")
      [] c.name = "erk" -> GetPlatformKey2BPub("rek")
      [] c.name = "pcs" -> ProvConnectionStr(c.slot, c.hub)
      [] c.name = "sur" -> StoreDeviceUri(c.slot, c.hub)
      [] c.name = "rur" -> ReadDeviceUri(c.slot)
      [] c.name = "dur" -> DestroyDeviceUri(c.slot)
      [] c.name = "chk" -> CreateHmacKey(c.slot, c.hub)
      [] c.name = "shk" -> SignWithHmacKey(c.slot)
      [] c.name = "ast" -> GenerateAzureToken(c.slot)
      [] c.name = "ehk" -> EvictHmacKey(c.slot)
      [] c.name = "read" -> ReadCert(c.alg)
      [] c.name = "delete" -> DeleteCert(c.alg)
      [] c.name = "activate" -> ActivateId(c.alg)
      [] c.name = "dld" -> DestroyLogicalDev(c.slot)
      [] c.name = "isi" -> ImportHostage(c.slot)

\* A command that throws prints that it failed; a run ends with its output.
Wmain ==
    /\ calls["tool"] = << >>
    /\ \E c \in scenario.commands :
          calls' = [calls EXCEPT !["tool"] = Commands(c) \o <<On("output", None)>>]
    /\ UNCHANGED <<scenario, useRegistry, store, failed, held, faults, driver, toolVars>>

(***************************************************************************)
(* The calls.                                                              *)
(***************************************************************************)

unlessFiles == <<scenario, useRegistry, store, held, faults, driver,
                 srk, keys, secrets, ksp, certStore, pendingClear>>

ReadFile ==
    /\ At("tool", "read file")
    /\ LET f == Top("tool").file
       IN  files[f] # None /\ seen' = [seen EXCEPT !["tool"][f] = files[f]]
    /\ Returned("tool", TRUE)
    /\ UNCHANGED <<unlessFiles, files, payload>>

\* A payload key is the name of a file or the key itself.
ReadPayloadKey ==
    /\ At("tool", "payload key")
    /\ \E k \in {files["secret"], OwnKey} \ {None} :
          seen' = [seen EXCEPT !["tool"].secret = k]
    /\ Returned("tool", TRUE)
    /\ UNCHANGED <<unlessFiles, files, payload>>

ReadPublicKey ==
    /\ At("tool", "LimpetGetTpmKey2BPub")
    /\ LET f == Top("tool").file
       IN  seen' = [seen EXCEPT !["tool"][f] = IF f = "srk" THEN srk ELSE 0]
    /\ Returned("tool", TRUE)
    /\ UNCHANGED <<unlessFiles, files, payload>>

EmptyFile ==
    /\ At("tool", "empty file")
    /\ files' = [files EXCEPT ![Top("tool").file] = None]
    /\ Returned("tool", TRUE)
    /\ UNCHANGED <<unlessFiles, seen, payload>>

FillFile ==
    /\ At("tool", "fill file")
    /\ files' = [files EXCEPT ![Top("tool").file] = seen["tool"][Top("tool").file]]
    /\ Returned("tool", TRUE)
    /\ UNCHANGED <<unlessFiles, seen, payload>>

\* File names at the end of the command line may be left out.
IfRequested ==
    /\ calls["tool"] # << >>
    /\ LET body == CASE At("tool", "write if requested")   -> WriteToDisk(Top("tool").file)
                     [] At("tool", "encrypt if requested") ->
                            LimpetSymmetricPayloadProtection("encrypt")
                     [] At("tool", "decrypt if requested") ->
                            LimpetSymmetricPayloadProtection("decrypt")
                     [] OTHER -> << >>
       IN  /\ body # << >>
           /\ \E requested \in BOOLEAN :
                 calls' = [calls EXCEPT !["tool"] =
                              (IF requested THEN body ELSE << >>) \o Tail(@)]
    /\ UNCHANGED <<unlessFiles, failed, seen, files, payload>>

EncryptHalf ==
    /\ At("tool", "encrypt")
    /\ payload' = [payload EXCEPT ![Top("tool").half] =
                      IF @ = None THEN seen["tool"].secret ELSE Garbled]
    /\ Returned("tool", TRUE)
    /\ UNCHANGED <<unlessFiles, seen, files>>

DecryptHalf ==
    /\ At("tool", "decrypt")
    /\ payload' = [payload EXCEPT ![Top("tool").half] =
                      IF @ = seen["tool"].secret THEN None ELSE Garbled]
    /\ Returned("tool", TRUE)
    /\ UNCHANGED <<unlessFiles, seen, files>>

\* Without a key of this machine's a certificate gets no container.
AddPlainCertificate ==
    /\ At("tool", "add plain certificate")
    /\ certStore' = certStore \cup {[cert |-> seen["tool"].cert, container |-> None]}
    /\ Returned("tool", TRUE)
    /\ UNCHANGED <<scenario, useRegistry, store, held, faults, driver,
                   srk, keys, secrets, ksp, seen, files, payload, pendingClear>>

\* The library is given what was made for one storage root key.
HandHostageOver ==
    /\ At("tool", "hostage")
    /\ LET i == seen["tool"].import
           h == IF i.srk = srk THEN i.hub ELSE "stale"
       IN  calls' = [calls EXCEPT !["tool"] =
                        <<Call("LimpetImportHostageKey", Top("tool").slot, h)>> \o Tail(@)]
    /\ UNCHANGED <<unlessFiles, failed, seen, files, payload>>

\* A blob that is only put aside yields no secret: the buffer stays zero.
GotSecret ==
    /\ At("tool", "got secret")
    /\ seen' = [seen EXCEPT !["tool"].secret =
                   IF InRegistry /\ scenario.lazy THEN 0 ELSE seen["tool"].import.secret]
    /\ Returned("tool", TRUE)
    /\ UNCHANGED <<unlessFiles, files, payload>>

\* Everything kept by, or wrapped under, the storage hierarchy is lost.
Cleared ==
    /\ srk < MaxClears
    /\ srk' = srk + 1
    /\ ksp' = [c \in Containers |-> EmptyContainer]
    /\ store' = [s \in Slots |->
                   [store[s] EXCEPT !.key = None, !.nv = None,
                                    !.private = IF @ = None THEN None ELSE "stale",
                                    !.blob = IF @ = None THEN None ELSE "stale"]]
    /\ UNCHANGED <<scenario, useRegistry, held, faults, driver,
                   keys, secrets, certStore, seen, files, payload>>

\* Cleared, left to the firmware, or, where clearing is disabled, not at all.
LimpetForceClearTpm ==
    /\ At("tool", "LimpetForceClearTpm")
    /\ Returned("tool", TRUE)
    /\ \/ Cleared /\ UNCHANGED pendingClear
       \/ /\ pendingClear' \in {TRUE, pendingClear}
          /\ UNCHANGED <<scenario, useRegistry, store, held, faults, driver,
                         identity, files, payload>>

Reboot ==
    /\ pendingClear /\ calls["tool"] = << >>
    /\ Cleared
    /\ pendingClear' = FALSE
    /\ UNCHANGED <<calls, failed>>

Destroyed ==
    /\ At("tool", "destroyed")
    /\ Returned("tool", TRUE)
    /\ UNCHANGED <<unlessFiles, seen, files, payload>>

Forgets ==
    /\ held' = [held EXCEPT !["tool"] = NoCredential]
    /\ token' = [token EXCEPT !["tool"] = NoCredential]
    /\ seen' = [seen EXCEPT !["tool"] = NothingSeen]
    /\ UNCHANGED <<scenario, useRegistry, store, faults, status, triedDps, toImport,
                   srk, keys, secrets, ksp, certStore, files, payload, pendingClear>>

Output ==
    /\ At("tool", "output")
    /\ Returned("tool", TRUE)
    /\ Forgets
    /\ UNCHANGED crashes

ToolEnds ==
    /\ calls["tool"] # << >> /\ crashes < scenario.crashes
    /\ crashes' = crashes + 1
    /\ calls' = [calls EXCEPT !["tool"] = << >>]
    /\ failed' = [failed EXCEPT !["tool"] = FALSE]
    /\ Forgets

FileCalls == {"read file", "payload key", "LimpetGetTpmKey2BPub", "empty file", "fill file",
              "encrypt", "decrypt", "add plain certificate", "LimpetForceClearTpm"}

FileCallFails ==
    /\ calls["tool"] # << >> /\ Top("tool").op \in FileCalls
    /\ \/ At("tool", "read file") /\ files[Top("tool").file] = None /\ UNCHANGED faults
       \/ Fault
    /\ Returned("tool", FALSE)
    /\ UNCHANGED <<scenario, useRegistry, store, held, driver, toolVars>>

Tool ==
    \/ Wmain
    \/ ReadFile
    \/ ReadPayloadKey
    \/ ReadPublicKey
    \/ EmptyFile
    \/ FillFile
    \/ IfRequested
    \/ EncryptHalf
    \/ DecryptHalf
    \/ AddPlainCertificate
    \/ HandHostageOver
    \/ GotSecret
    \/ LimpetForceClearTpm
    \/ Reboot
    \/ Destroyed
    \/ Output
    \/ ToolEnds
    \/ FileCallFails
    \/ IdentityCall("tool") /\ UNCHANGED <<driver, files, payload, pendingClear>>

AllNext ==
    \/ Next /\ UNCHANGED toolVars
    \/ Tool

AllInit == Init /\ ToolInit

AllSpec == AllInit /\ [][AllNext]_allVars

\* The processes of DeviceIdentity run, as there; the operator is free.
FairAllSpec ==
    /\ AllSpec
    /\ WF_allVars((Agent \/ Shared("agent")) /\ UNCHANGED toolVars)
    /\ WF_allVars((Provision \/ Imported \/ Shared("provisioner")) /\ UNCHANGED toolVars)

(***************************************************************************)
(* Properties.                                                             *)
(***************************************************************************)

\* The payload is never encrypted under a secret that is in neither the
\* challenge nor the key file by then: a tool that dies or fails at any call
\* leaves no payload behind that nobody can decrypt (the order of the steps
\* of the challenge command).
EncryptsUnderSavedSecret ==
    [][\A half \in 1 .. 2 :
          payload'[half] # payload[half] /\ payload'[half] \in 1 .. MaxSecrets =>
              \/ payload'[half] = files["secret"]
              \/ files["activation"] # None /\ payload'[half] = files["activation"].secret]_allVars

\* Where credentials are in the TPM, a "destroy logical device" that runs to
\* its end without a failing call leaves neither URI nor key in the slot and
\* no identity key with a certificate, whatever earlier commands, cut off at
\* any call, had left there.
DestroyedLeavesNothing ==
    At("tool", "destroyed") /\ faults = 0 /\ useRegistry = "no" =>
        /\ store[Top("tool").slot].key = None /\ store[Top("tool").slot].nv = None
        /\ \A a \in Algorithms : ksp[LimpetReadDeviceId(a)].cert = None

===============================================================================
