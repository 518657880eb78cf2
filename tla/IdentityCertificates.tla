------------------------- MODULE IdentityCertificates -------------------------
(***************************************************************************)
(* The identity keys of a logical device: a key per algorithm in the       *)
(* platform's key storage provider, in a container named after the slot    *)
(* and the storage root key; the certificate a key carries as a property;  *)
(* the machine's certificate store, where a certificate names the          *)
(* container, not the key, that it belongs to; the authority that issues a *)
(* certificate in place of the self-signed one and makes challenges for a  *)
(* key; and the import keys ("hostages") bound to a storage root key.      *)
(*                                                                         *)
(* The functions are stacks of calls as in LimpetStore.  They undo         *)
(* nothing, so a call that fails and a process that dies there leave the   *)
(* same behind.                                                            *)
(***************************************************************************)
EXTENDS LimpetStore

CONSTANTS
    Algorithms,  \* of the identity keys: RSA and ECDSA
    MaxKeys,     \* bound: keys created
    MaxSecrets,  \* bound: activation secrets made
    MaxClears    \* bound: times the TPM is cleared

NoKey == 0

\* The containers of one logical device.
Containers == (0 .. MaxClears) \X Algorithms

VARIABLES
    keys,       \* number of keys created; a key is its number
    secrets,    \* number of secrets made; a secret is its number
    certStore,  \* the certificates of the store, with their containers
    seen        \* per process: what its command has read or made

identity == <<srk, keys, secrets, ksp, certStore, seen>>

On(op, a) == [op |-> op, alg |-> a]

NothingSeen == [cert |-> None, container |-> None, rek |-> None, srk |-> None,
                activation |-> None, import |-> None, secret |-> None]

EmptyContainer == [key |-> NoKey, cert |-> None]

\* The certificate that the device may have to begin with: of key 1.
IssuedCertificate == [key |-> 1, uri |-> scenario.certificate]

IdentityInit ==
    /\ srk = 0
    /\ secrets = 0
    /\ \/ /\ scenario.certificate = None
          /\ keys = 0
          /\ ksp = [c \in Containers |-> EmptyContainer]
          /\ certStore = {}
       \/ /\ scenario.certificate # None
          /\ keys = 1
          /\ \E a \in Algorithms :
                /\ ksp = [[c \in Containers |-> EmptyContainer] EXCEPT
                             ![<<0, a>>] = [key |-> 1, cert |-> IssuedCertificate]]
                /\ certStore = {[cert |-> IssuedCertificate, container |-> <<0, a>>]}
    /\ seen = [p \in Processes |-> NothingSeen]

(***************************************************************************)
(* The functions, as the calls they make.                                  *)
(***************************************************************************)

LimpetReadOrCreateIdentityKeyCert(a) == <<On("open key", a), On("get property", a)>>

CreateIdentityKey(a) ==
    <<On("create key", a), On("add certificate", a), On("set property", a)>>

\* Mutant: the key is deleted before its certificates.
LimpetDestroyIdentityCertKeyFirst(a) ==
    <<On("get property", a), On("delete key", a), On("delete certificates", a)>>

LimpetDestroyIdentityCert(a) ==
    <<On("get property", a), On("delete certificates", a), On("delete key", a)>>

\* The new certificate takes over the container of one with the same key.
LimpetImportIdentityCert ==
    <<On("find by key", None), On("acquire key", None), On("add certificate", None),
      On("set property", None)>>

LimpetSignWithIdentityCert == <<On("find by hash", None), On("acquire key", None)>>

IdentityFunctions == {"LimpetReadOrCreateIdentityKeyCert", "LimpetDestroyIdentityCert",
                      "LimpetImportIdentityCert", "LimpetSignWithIdentityCert"}

EnterIdentity(p) ==
    /\ calls[p] # << >> /\ Top(p).op \in IdentityFunctions
    /\ LET c == Top(p)
           body == CASE c.op = "LimpetReadOrCreateIdentityKeyCert" ->
                           LimpetReadOrCreateIdentityKeyCert(c.alg)
                     [] c.op = "LimpetDestroyIdentityCert"  -> LimpetDestroyIdentityCert(c.alg)
                     [] c.op = "LimpetImportIdentityCert"   -> LimpetImportIdentityCert
                     [] c.op = "LimpetSignWithIdentityCert" -> LimpetSignWithIdentityCert
       IN  calls' = [calls EXCEPT ![p] = body \o Tail(@)]
    /\ UNCHANGED <<scenario, useRegistry, store, failed, held, faults, identity>>

(***************************************************************************)
(* The single calls.                                                       *)
(***************************************************************************)

\* A key that cannot be opened, for whatever reason, is created anew.
OpenKey(p) ==
    /\ At(p, "open key")
    /\ LET there == ksp[LimpetReadDeviceId(Top(p).alg)].key # NoKey
       IN  \/ /\ there
              /\ Returned(p, TRUE)
              /\ UNCHANGED faults
           \/ /\ \/ there /\ Fault
                 \/ ~there /\ UNCHANGED faults
              /\ calls' = [calls EXCEPT ![p] = CreateIdentityKey(Top(p).alg) \o Tail(@)]
              /\ UNCHANGED failed
    /\ UNCHANGED <<scenario, useRegistry, store, held, identity>>

\* NCryptFinalizeKey: from here on the key can be opened.
CreateKey(p) ==
    /\ At(p, "create key")
    /\ keys < MaxKeys
    /\ LET c == LimpetReadDeviceId(Top(p).alg)
       IN  /\ keys' = keys + 1
           /\ ksp' = [ksp EXCEPT ![c] = [key |-> keys', cert |-> None]]
           /\ seen' = [seen EXCEPT ![p].cert = [key |-> keys', uri |-> None],
                                   ![p].container = c]
    /\ Returned(p, TRUE)
    /\ UNCHANGED <<scenario, useRegistry, store, held, faults, srk, secrets, certStore>>

AddCertificate(p) ==
    /\ At(p, "add certificate")
    /\ certStore' = certStore \cup {[cert |-> seen[p].cert, container |-> seen[p].container]}
    /\ Returned(p, TRUE)
    /\ UNCHANGED <<scenario, useRegistry, store, held, faults, srk, keys, secrets, ksp, seen>>

SetCertificateProperty(p) ==
    /\ At(p, "set property")
    /\ ksp' = [ksp EXCEPT ![seen[p].container].cert = seen[p].cert]
    /\ Returned(p, TRUE)
    /\ UNCHANGED <<scenario, useRegistry, store, held, faults, srk, keys, secrets,
                   certStore, seen>>

GetCertificateProperty(p) ==
    /\ At(p, "get property")
    /\ LET c == LimpetReadDeviceId(Top(p).alg)
       IN  /\ ksp[c].cert # None
           /\ seen' = [seen EXCEPT ![p].cert = ksp[c].cert]
    /\ Returned(p, TRUE)
    /\ UNCHANGED <<scenario, useRegistry, store, held, faults, srk, keys, secrets, ksp,
                   certStore>>

\* One turn of the loop over the certificates with the key.
DeleteCertificates(p) ==
    /\ At(p, "delete certificates")
    /\ \/ /\ \E e \in certStore :
                e.cert.key = seen[p].cert.key /\ certStore' = certStore \ {e}
          /\ UNCHANGED <<calls, failed>>
       \/ /\ \A e \in certStore : e.cert.key # seen[p].cert.key
          /\ UNCHANGED certStore
          /\ Returned(p, TRUE)
    /\ UNCHANGED <<scenario, useRegistry, store, held, faults, srk, keys, secrets, ksp, seen>>

DeleteKey(p) ==
    /\ At(p, "delete key")
    /\ ksp' = [ksp EXCEPT ![LimpetReadDeviceId(Top(p).alg)] = EmptyContainer]
    /\ Returned(p, TRUE)
    /\ UNCHANGED <<scenario, useRegistry, store, held, faults, srk, keys, secrets,
                   certStore, seen>>

Matches(p, e) == IF At(p, "find by key") THEN e.cert.key = seen[p].cert.key
                                         ELSE e.cert = seen[p].cert

\* CERT_FIND_PUBLIC_KEY or, to sign, CERT_FIND_HASH.
FindCertificate(p) ==
    /\ calls[p] # << >> /\ Top(p).op \in {"find by key", "find by hash"}
    /\ \E e \in certStore :
          Matches(p, e) /\ seen' = [seen EXCEPT ![p].container = e.container]
    /\ Returned(p, TRUE)
    /\ UNCHANGED <<scenario, useRegistry, store, held, faults, srk, keys, secrets, ksp,
                   certStore>>

\* CryptAcquireCertificatePrivateKey opens whatever key the container has.
CanAcquire(c) == c # None /\ ksp[c].key # NoKey

AcquireKey(p) ==
    /\ At(p, "acquire key")
    /\ CanAcquire(seen[p].container)
    /\ Returned(p, TRUE)
    /\ UNCHANGED <<scenario, useRegistry, store, held, faults, identity>>

(***************************************************************************)
(* The authority's side, and the activation of what it made.               *)
(***************************************************************************)

\* The key that an extension of a certificate carries; it has to be the one
\* the certificate is for.
KeyInCertificate(cert) == cert.key

\* The new certificate is for the key in the old one; its subject is that of
\* the old one with a device and a hub added, of which the first is read.
LimpetIssueCertificate(p) ==
    /\ At(p, "LimpetIssueCertificate")
    /\ seen' = [seen EXCEPT ![p].cert = [key |-> KeyInCertificate(@),
                                             uri |-> IF @.uri = None THEN Top(p).hub ELSE @.uri]]
    /\ Returned(p, TRUE)
    /\ UNCHANGED <<scenario, useRegistry, store, held, faults, srk, keys, secrets, ksp,
                   certStore>>

\* What a challenge is bound to is the name of the certificate's key.
LimpetGetTpmKey2BPubFromCert(p) ==
    /\ At(p, "LimpetGetTpmKey2BPubFromCert")
    /\ seen' = [seen EXCEPT ![p].activation = [key |-> KeyInCertificate(seen[p].cert),
                                               secret |-> None]]
    /\ Returned(p, TRUE)
    /\ UNCHANGED <<scenario, useRegistry, store, held, faults, srk, keys, secrets, ksp,
                   certStore>>

LimpetChallengeIdentityCert(p) ==
    /\ At(p, "LimpetChallengeIdentityCert")
    /\ secrets < MaxSecrets
    /\ secrets' = secrets + 1
    /\ seen' = [seen EXCEPT ![p].activation.secret = secrets', ![p].secret = secrets']
    /\ Returned(p, TRUE)
    /\ UNCHANGED <<scenario, useRegistry, store, held, faults, srk, keys, ksp, certStore>>

\* The TPM gives the secret away only for the key the challenge was made for.
Activates(p) ==
    ksp[LimpetReadDeviceId(Top(p).alg)].key = seen[p].activation.key

LimpetActivateIdentityCert(p) ==
    /\ At(p, "LimpetActivateIdentityCert")
    /\ Activates(p)
    /\ seen' = [seen EXCEPT ![p].secret = seen[p].activation.secret]
    /\ Returned(p, TRUE)
    /\ UNCHANGED <<scenario, useRegistry, store, held, faults, srk, keys, secrets, ksp,
                   certStore>>

\* A credential for the TPM whose storage root key was handed over.
LimpetCreateHostageKeyEx(p) ==
    /\ At(p, "LimpetCreateHostageKeyEx")
    /\ secrets < MaxSecrets
    /\ secrets' = secrets + 1
    /\ seen' = [seen EXCEPT ![p].import = [srk |-> seen[p].srk, hub |-> Top(p).hub,
                                           secret |-> secrets'],
                            ![p].secret = secrets']
    /\ Returned(p, TRUE)
    /\ UNCHANGED <<scenario, useRegistry, store, held, faults, srk, keys, ksp, certStore>>

KeyCalls == {"create key", "add certificate", "set property", "get property",
             "delete certificates", "delete key", "find by key", "find by hash",
             "acquire key", "LimpetIssueCertificate", "LimpetGetTpmKey2BPubFromCert",
             "LimpetChallengeIdentityCert", "LimpetActivateIdentityCert",
             "LimpetCreateHostageKeyEx"}

\* A call that has to fail.
Refused(p, c) ==
    \/ c.op = "get property" /\ ksp[LimpetReadDeviceId(c.alg)].cert = None
    \/ c.op \in {"find by key", "find by hash"} /\ ~\E e \in certStore : Matches(p, e)
    \/ c.op = "acquire key" /\ ~CanAcquire(seen[p].container)
    \/ c.op = "LimpetActivateIdentityCert" /\ ~Activates(p)

KeyCallFails(p) ==
    /\ calls[p] # << >> /\ Top(p).op \in KeyCalls
    /\ \/ Refused(p, Top(p)) /\ UNCHANGED faults
       \/ Fault
    /\ Returned(p, FALSE)
    /\ UNCHANGED <<scenario, useRegistry, store, held, identity>>

IdentityCall(p) ==
    \/ EnterIdentity(p)
    \/ OpenKey(p)
    \/ CreateKey(p)
    \/ AddCertificate(p)
    \/ SetCertificateProperty(p)
    \/ GetCertificateProperty(p)
    \/ DeleteCertificates(p)
    \/ DeleteKey(p)
    \/ FindCertificate(p)
    \/ AcquireKey(p)
    \/ LimpetIssueCertificate(p)
    \/ LimpetGetTpmKey2BPubFromCert(p)
    \/ LimpetChallengeIdentityCert(p)
    \/ LimpetActivateIdentityCert(p)
    \/ LimpetCreateHostageKeyEx(p)
    \/ KeyCallFails(p)

\* A certificate of the store that names a container of this TPM's names the
\* one of its own key, so that CryptAcquireCertificatePrivateKey opens no
\* other; and a key carries a certificate for itself.  It holds across
\* crashes, as long as no call fails on its own: LimpetReadOrCreate... takes
\* every failure to open a key for its absence and overwrites the key.
CertificatesNameTheirKey ==
    faults = 0 =>
        /\ \A e \in certStore :
              e.container # None /\ e.container[1] = srk => ksp[e.container].key = e.cert.key
        /\ \A c \in Containers : ksp[c].cert # None => ksp[c].cert.key = ksp[c].key

===============================================================================
