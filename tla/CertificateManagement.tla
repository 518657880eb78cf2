------------------------ MODULE CertificateManagement ------------------------
(***************************************************************************)
(* CertificateManagementHandler: a section lists, per certificate store,   *)
(* thumbprints to install from a blob or to uninstall.  Store by store the *)
(* handler reads what is installed, downloads the missing certificates to  *)
(* temporary files, uninstalls, installs from the files, and at the end    *)
(* reports what is installed of what was asked for.                        *)
(*                                                                         *)
(* A certificate is its thumbprint.  A blob has the file name that the     *)
(* last part of its path gives and holds a certificate or "garbage", and   *)
(* nothing makes it hold the certificate that the section names.           *)
(***************************************************************************)
EXTENDS HandlerInvocation

CONSTANTS
    StoreOrder,           \* the stores in the order Invoke applies them
    MyUser, MySystem,     \* two of them: certificateStore_My_User, _My_System
    Thumbprints,          \* the certificates
    Blobs,                \* the blobs of the storage account
    FileNames,            \* their file names
    FileNameOf,           \* the file name of each blob
    HeldBy,               \* the certificate each blob holds, or "garbage"
    CertificateSections   \* the sections the cloud may send

Stores == ToSet(StoreOrder)

\* What a section says of a certificate in a store.
CertificateEntries == [state : {"installed", "uninstalled", "other", "unmentioned"},
                       blob : Blobs \cup {"none"}]

ASSUME CertificatesParametersOK ==
    /\ StoreOrder \in Seq(Stores) /\ IsInjective(StoreOrder)
    /\ {MyUser, MySystem} \subseteq Stores
    /\ IsFiniteSet(Thumbprints)
    /\ "garbage" \notin Thumbprints /\ "none" \notin Blobs
    /\ FileNameOf \in [Blobs -> FileNames]
    /\ HeldBy \in [Blobs -> Thumbprints \cup {"garbage"}]
    /\ \A s \in CertificateSections :
         s \in [kind : SectionKinds, connectionString : BOOLEAN, detailed : BOOLEAN,
                certs : [Stores -> [Thumbprints -> CertificateEntries]]]

VARIABLES
    certStores,     \* the certificates installed in each store
    certSection,    \* the section of the current or last invocation
    certFiles,      \* the temporary files: a certificate, "garbage" or "none"
    certStore,      \* the store being applied, an index of StoreOrder
    certTodo,       \* [visit, uninstall, install]: what is left to do for it
    certInstalled,  \* installedCertificates
    certReported    \* the lists of the last report, once FinalizeAndReport sent it

certs == <<certStores, certSection, certFiles, certStore, certTodo, certInstalled,
           certReported>>

NoCertificates == [s \in Stores |-> {}]
NoCertTodo == [visit |-> << >>, uninstall |-> << >>, install |-> << >>]
CertificateFile == [name : FileNames, thumbprint : Thumbprints]

\* Before the first invocation.
NoCertificateSection ==
    [kind |-> "none", connectionString |-> FALSE, detailed |-> FALSE,
     certs |-> [s \in Stores |-> [t \in Thumbprints |->
                  [state |-> "unmentioned", blob |-> "none"]]]]

CertificatesInit ==
    /\ certStores \in [Stores -> SUBSET Thumbprints]
    /\ certSection = NoCertificateSection
    /\ certFiles = [f \in FileNames |-> "none"]
    /\ certStore = 1
    /\ certTodo = NoCertTodo
    /\ certInstalled = NoCertificates
    /\ certReported = NoCertificates

CertificatesOK ==
    /\ certStores \in [Stores -> SUBSET Thumbprints]
    /\ certSection \in CertificateSections \cup {NoCertificateSection}
    /\ certFiles \in [FileNames -> Thumbprints \cup {"garbage", "none"}]
    /\ certStore \in DOMAIN StoreOrder
    /\ certTodo \in [visit : Seq(Thumbprints), uninstall : Seq(Thumbprints),
                     install : Seq(CertificateFile)]
    /\ certInstalled \in [Stores -> SUBSET Thumbprints]
    /\ certReported \in [Stores -> SUBSET Thumbprints]

\* Reporting "refreshing" replaces what the twin showed of the section.
InvokeCertificates ==
    \E s \in CertificateSections :
       /\ Invoke(s.kind, "readStore")
       /\ certSection' = s
       /\ certStore' = 1
       /\ certTodo' = NoCertTodo
       /\ certInstalled' = NoCertificates
       /\ certReported' = IF s.kind = "refreshing" THEN certReported ELSE NoCertificates
       /\ UNCHANGED <<certStores, certFiles>>

Store == StoreOrder[certStore]
Entries == certSection.certs[Store]
Mentioned == {t \in Thumbprints : Entries[t].state # "unmentioned"}

\* The thumbprints of the store are read once, before its first entry.
ReadStore ==
    /\ At("readStore")
    /\ \/ /\ certTodo' = [certTodo EXCEPT !.visit = SetToSeq(Mentioned)]
          /\ Go("visit")
       \/ FailTo("uninstall") /\ UNCHANGED certTodo
    /\ UNCHANGED <<certStores, certSection, certFiles, certStore, certInstalled,
                   certReported>>

Visited == Head(certTodo.visit)
Visiting == At("visit") /\ certTodo.visit # << >>
Skip == [certTodo EXCEPT !.visit = Tail(@)]

AlreadyInstalled ==
    /\ Visiting
    /\ Visited \in certStores[Store]
    /\ Entries[Visited].state = "installed"
    /\ certInstalled' = [certInstalled EXCEPT ![Store] = @ \cup {Visited}]
    /\ certTodo' = Skip
    /\ Go("visit")
    /\ UNCHANGED <<certStores, certSection, certFiles, certStore, certReported>>

AlreadyUninstalled ==
    /\ Visiting
    /\ Visited \notin certStores[Store]
    /\ Entries[Visited].state = "uninstalled"
    /\ certTodo' = Skip
    /\ Go("visit")
    /\ UNCHANGED <<certStores, certSection, certFiles, certStore, certInstalled,
                   certReported>>

ToUninstall ==
    /\ Visiting
    /\ Visited \in certStores[Store]
    /\ Entries[Visited].state = "uninstalled"
    /\ certTodo' = [Skip EXCEPT !.uninstall = Append(@, Visited)]
    /\ Go("visit")
    /\ UNCHANGED <<certStores, certSection, certFiles, certStore, certInstalled,
                   certReported>>

ToDownload == Visited \notin certStores[Store] /\ Entries[Visited].state = "installed"
CanDownload == certSection.connectionString /\ Entries[Visited].blob # "none"

\* A wrong state, or no connection string or blob for a certificate to install.
InvalidEntry ==
    /\ Visiting
    /\ Entries[Visited].state = "other" \/ (ToDownload /\ ~CanDownload)
    /\ certTodo' = Skip
    /\ Throw("visit")
    /\ UNCHANGED <<certStores, certSection, certFiles, certStore, certInstalled,
                   certReported>>

\* The thumbprint is taken from the file; the file is read again to install it.
DownloadCertificateFromBlob ==
    LET blob == Entries[Visited].blob
    IN  /\ Visiting
        /\ ToDownload /\ CanDownload
        /\ \/ /\ certFiles' = [certFiles EXCEPT ![FileNameOf[blob]] = HeldBy[blob]]
              /\ IF HeldBy[blob] = "garbage"
                 THEN certTodo' = Skip /\ Throw("visit")
                 ELSE /\ certTodo' = [Skip EXCEPT !.install = Append(@,
                                        [name |-> FileNameOf[blob],
                                         thumbprint |-> HeldBy[blob]])]
                      /\ Go("visit")
           \/ certTodo' = Skip /\ FailTo("visit") /\ UNCHANGED certFiles
        /\ UNCHANGED <<certStores, certSection, certStore, certInstalled, certReported>>

AllVisited ==
    /\ At("visit")
    /\ certTodo.visit = << >>
    /\ Go("uninstall")
    /\ UNCHANGED certs

\* Mutant: a command that fails is not an error of the section.
UninstallCertificateHandlerUnchecked ==
    /\ At("uninstall")
    /\ certTodo.uninstall # << >>
    /\ certTodo' = [certTodo EXCEPT !.uninstall = Tail(@)]
    /\ \/ /\ certStores' = [certStores EXCEPT ![Store] = @ \ {Head(certTodo.uninstall)}]
          /\ Go("uninstall")
       \/ Fault /\ Move("uninstall") /\ UNCHANGED <<errors, certStores>>
    /\ UNCHANGED <<certSection, certFiles, certStore, certInstalled, certReported>>

UninstallCertificateHandler ==
    /\ At("uninstall")
    /\ certTodo.uninstall # << >>
    /\ certTodo' = [certTodo EXCEPT !.uninstall = Tail(@)]
    /\ \/ /\ certStores' = [certStores EXCEPT ![Store] = @ \ {Head(certTodo.uninstall)}]
          /\ Go("uninstall")
       \/ FailTo("uninstall") /\ UNCHANGED certStores
    /\ UNCHANGED <<certSection, certFiles, certStore, certInstalled, certReported>>

AllUninstalled ==
    /\ At("uninstall")
    /\ certTodo.uninstall = << >>
    /\ Go("install")
    /\ UNCHANGED certs

\* The provider refuses a certificate that is not the node's, or is there.
Accepted(file) ==
    certFiles[file.name] = file.thumbprint /\ file.thumbprint \notin certStores[Store]

InstallCertificateHandler ==
    LET file == Head(certTodo.install)
    IN  /\ At("install")
        /\ certTodo.install # << >>
        /\ certFiles[file.name] # "none"
        /\ certFiles' = [certFiles EXCEPT ![file.name] = "none"]
        /\ certTodo' = [certTodo EXCEPT !.install = Tail(@)]
        /\ \/ /\ Accepted(file)
              /\ certStores' = [certStores EXCEPT ![Store] = @ \cup {file.thumbprint}]
              /\ certInstalled' = [certInstalled EXCEPT ![Store] = @ \cup {file.thumbprint}]
              /\ Go("install")
           \/ /\ ~Accepted(file)
              /\ Throw("install")
              /\ UNCHANGED <<certStores, certInstalled>>
           \/ FailTo("install") /\ UNCHANGED <<certStores, certInstalled>>
        /\ UNCHANGED <<certSection, certStore, certReported>>

\* FileToBase64 stands outside the nested operation: its exception ends the
\* whole section, and the files that are left stay.
InstallReadFails ==
    /\ At("install")
    /\ certTodo.install # << >>
    /\ \/ certFiles[Head(certTodo.install).name] = "none" /\ UNCHANGED spent
       \/ certFiles[Head(certTodo.install).name] # "none" /\ Fault
    /\ Leave(TRUE)
    /\ UNCHANGED certs

StoreApplied == At("install") /\ certTodo.install = << >>

NextStore ==
    /\ StoreApplied
    /\ certStore < Len(StoreOrder)
    /\ certStore' = certStore + 1
    /\ Go("readStore")
    /\ UNCHANGED <<certStores, certSection, certFiles, certTodo, certInstalled,
                   certReported>>

\* BuildReported takes the list of MySystem from the list of MyUser.
ReportedList(s) == certInstalled[IF s = MySystem THEN MyUser ELSE s]

\* BuildReported or EmptyReported, then FinalizeAndReport sends the object.
BuildReported ==
    /\ StoreApplied
    /\ certStore = Len(StoreOrder)
    /\ certReported' = IF certSection.detailed THEN [s \in Stores |-> ReportedList(s)]
                       ELSE NoCertificates
    /\ Leave(FALSE) /\ UNCHANGED spent
    /\ UNCHANGED <<certStores, certSection, certFiles, certStore, certTodo,
                   certInstalled>>

CertificatesStep ==
    \/ InvokeCertificates
    \/ ReadStore
    \/ AlreadyInstalled \/ AlreadyUninstalled \/ ToUninstall
    \/ InvalidEntry \/ DownloadCertificateFromBlob \/ AllVisited
    \/ UninstallCertificateHandler \/ AllUninstalled
    \/ InstallCertificateHandler \/ InstallReadFails
    \/ NextStore \/ BuildReported
    \/ (FinalizeAndReport \/ HostEnds) /\ UNCHANGED certs

(***************************************************************************)
(* When success is reported, each certificate that the section wants       *)
(* uninstalled is in no store it is listed for, and each one it wants      *)
(* installed is in its store, if its blob holds it: also when another      *)
(* blob's download overwrote its file in between.  (Blobs are not checked  *)
(* against the thumbprint: the handler installs what a blob holds.)        *)
(***************************************************************************)
CertificatesApplied ==
    (Applied /\ certSection.kind = "good") =>
       \A s \in Stores, t \in Thumbprints :
          LET e == certSection.certs[s][t]
          IN  /\ e.state = "uninstalled" =>
                   (t \notin certStores[s] \/ \E u \in Thumbprints :
                       LET w == certSection.certs[s][u]
                       IN  w.state = "installed" /\ w.blob # "none" /\ HeldBy[w.blob] = t)
              /\ (e.state = "installed" /\ e.blob # "none" /\ HeldBy[e.blob] = t)
                    => t \in certStores[s]

(***************************************************************************)
(* What the twin shows as installed is installed, after failed sections    *)
(* too; not claimed of My\System, whose list BuildReported takes from      *)
(* My\User.  (installedCertificates, InstallCertificateHandler.)           *)
(***************************************************************************)
ReportedCertificatesInstalled ==
    (at = "idle" /\ deployment # "pending") =>
       \A s \in Stores \ {MySystem} : certReported[s] \subseteq certStores[s]

(***************************************************************************)
(* Both: what success promises of the section, and what the twin's list    *)
(* promises after any section.  (CertificateManagementHandler::Invoke.)    *)
(***************************************************************************)
CertificatesConsistent == CertificatesApplied /\ ReportedCertificatesInstalled

=============================================================================
