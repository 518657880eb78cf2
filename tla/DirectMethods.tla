----------------------------- MODULE DirectMethods -----------------------------
(***************************************************************************)
(* The plugins' direct methods: reset, wipe and reboot of the device, the  *)
(* log files, the apps, a certificate's details.  Each runs its few steps  *)
(* in one RunOperation and answers success exactly when the error list is  *)
(* empty; the three on the device also report to the twin.                 *)
(***************************************************************************)
EXTENDS HandlerInvocation

CONSTANTS
    MethodCalls,     \* the calls the cloud may make
    FilesInUse       \* log files another program has open

LogFiles == {"log1", "log2"}

DeviceMethods == {"FactoryReset", "RemoteWipe", "Reboot"}

\* parameters: what the call must bring is there and has the right type.
ASSUME MethodsParametersOK ==
    /\ FilesInUse \subseteq LogFiles
    /\ \A c \in MethodCalls :
         c \in [method : DeviceMethods \cup {"UploadLogFile", "DeleteLogFile",
                          "EnumerateLogFiles", "EnumerateLogFolders", "StartApp",
                          "StopApp", "GetInstalledApps", "CertificateDetail"},
                kind : SectionKinds \ {"refreshing"}, parameters : BOOLEAN,
                clearTpm : BOOLEAN, file : LogFiles]

VARIABLES
    testMode,        \* the handlers' configuration: touch nothing
    methodCall,      \* the current or last call
    methodTodo,      \* its steps still to do
    device,          \* [tpm, boot, wiped, rebooting]
    logFolder,       \* the files in the folder of the logs
    container,       \* the files in the blob container
    appRuns,         \* the app the life cycle method starts and stops
    tpmUncleared,    \* the TPM's refusal to be cleared went unnoticed (ghost)
    methodAnswer     \* what the caller got: [code, payload]

methodVars == <<testMode, methodCall, methodTodo, device, logFolder, container,
                appRuns, tpmUncleared, methodAnswer>>

\* What a method works on.
target == <<device, logFolder, container, appRuns, tpmUncleared>>

NoAnswer == [code |-> "none", payload |-> {}]

MethodsInit ==
    /\ testMode \in BOOLEAN
    /\ methodCall = (CHOOSE c \in MethodCalls : TRUE)
    /\ methodTodo = << >>
    /\ device = [tpm |-> "owned", boot |-> "main", wiped |-> FALSE, rebooting |-> FALSE]
    /\ logFolder = LogFiles
    /\ container = {}
    /\ appRuns = FALSE
    /\ tpmUncleared = FALSE
    /\ methodAnswer = NoAnswer

MethodsOK ==
    /\ testMode \in BOOLEAN
    /\ methodCall \in MethodCalls
    /\ device \in [tpm : {"owned", "clear"}, boot : {"main", "recovery"},
                   wiped : BOOLEAN, rebooting : BOOLEAN]
    /\ logFolder \in SUBSET LogFiles
    /\ container \in SUBSET LogFiles
    /\ appRuns \in BOOLEAN
    /\ tpmUncleared \in BOOLEAN
    /\ methodAnswer \in [code : {"none", "success", "failure", "lost"}, payload : SUBSET LogFiles]

\* The commands each method gives, in order.
IfAsked(c) == IF c.clearTpm THEN <<"ClearTpm">> ELSE << >>
FactoryReset(c) == IfAsked(c) \o <<"bcdedit", "reboot">>
RemoteWipe(c) == IfAsked(c) \o <<"wipe", "reboot">>
Reboot == <<"reboot">>
UploadLogFile == <<"container", "upload">>
DeleteLogFile == <<"find", "delete">>
EnumerateLogFiles == <<"list">>
EnumerateLogFolders == <<"query">>
UwpManageAppLifeCycle == <<"iotstartup">>
UwpGetInstalledApps == <<"query">>
CertificateDetailedInfo == <<"query">>

StepsOf(c) ==
    CASE c.method \in DeviceMethods /\ testMode -> << >>
      [] c.method = "FactoryReset" /\ ~testMode -> FactoryReset(c)
      [] c.method = "RemoteWipe" /\ ~testMode -> RemoteWipe(c)
      [] c.method = "Reboot" /\ ~testMode -> Reboot
      [] c.method = "UploadLogFile" -> UploadLogFile
      [] c.method = "DeleteLogFile" -> DeleteLogFile
      [] c.method = "EnumerateLogFiles" -> EnumerateLogFiles
      [] c.method = "EnumerateLogFolders" -> EnumerateLogFolders
      [] c.method \in {"StartApp", "StopApp"} -> UwpManageAppLifeCycle
      [] c.method = "GetInstalledApps" -> UwpGetInstalledApps
      [] c.method = "CertificateDetail" -> CertificateDetailedInfo

\* Parameters are read before the first command.
InvokeMethod ==
    \E c \in MethodCalls :
       /\ Begin(IF c.parameters THEN c.kind ELSE "wrongVersion", "commands")
       /\ methodCall' = c
       /\ methodTodo' = StepsOf(c)
       /\ methodAnswer' = NoAnswer
       /\ tpmUncleared' = FALSE
       /\ UNCHANGED <<deployment, testMode, device, logFolder, container, appRuns>>

Doing(command) == At("commands") /\ methodTodo # << >> /\ Head(methodTodo) = command
Done == methodTodo' = Tail(methodTodo) /\ Go("commands")
Unchecked == methodTodo' = Tail(methodTodo) /\ Fault /\ Move("commands") /\ UNCHANGED errors
SameCall == UNCHANGED <<testMode, methodCall, methodAnswer>>

\* ClearTpm returns S_OK whatever LimpetForceClearTpm returned.
ClearTpm ==
    /\ Doing("ClearTpm")
    /\ \/ device' = [device EXCEPT !.tpm = "clear"] /\ Done /\ UNCHANGED tpmUncleared
       \/ tpmUncleared' = TRUE /\ Unchecked /\ UNCHANGED device
    /\ SameCall /\ UNCHANGED <<logFolder, container, appRuns>>

\* Mutant: the device is rebooted although the boot sequence was not set.
SetBootSequenceUnchecked ==
    /\ Doing("bcdedit")
    /\ \/ device' = [device EXCEPT !.boot = "recovery"] /\ Done
       \/ Unchecked /\ UNCHANGED device
    /\ SameCall /\ UNCHANGED <<logFolder, container, appRuns, tpmUncleared>>

SetBootSequence ==
    /\ Doing("bcdedit")
    /\ device' = [device EXCEPT !.boot = "recovery"]
    /\ Done
    /\ SameCall /\ UNCHANGED <<logFolder, container, appRuns, tpmUncleared>>

Wipe ==
    /\ Doing("wipe")
    /\ device' = [device EXCEPT !.wiped = TRUE]
    /\ Done
    /\ SameCall /\ UNCHANGED <<logFolder, container, appRuns, tpmUncleared>>

ImmediateReboot ==
    /\ Doing("reboot")
    /\ device' = [device EXCEPT !.rebooting = TRUE]
    /\ Done
    /\ SameCall /\ UNCHANGED <<logFolder, container, appRuns, tpmUncleared>>

CreateContainer ==
    /\ Doing("container")
    /\ Done
    /\ SameCall /\ UNCHANGED target

UploadFromStream ==
    /\ Doing("upload")
    /\ methodCall.file \in logFolder
    /\ container' = container \cup {methodCall.file}
    /\ Done
    /\ SameCall /\ UNCHANGED <<device, logFolder, appRuns, tpmUncleared>>

FindFile ==
    /\ Doing("find")
    /\ methodCall.file \in logFolder
    /\ Done
    /\ SameCall /\ UNCHANGED target

\* What DeleteFileA returns is not looked at.
DeleteFile ==
    /\ Doing("delete")
    /\ logFolder' = IF methodCall.file \in FilesInUse THEN logFolder
                    ELSE logFolder \ {methodCall.file}
    /\ Done
    /\ SameCall /\ UNCHANGED <<device, container, appRuns, tpmUncleared>>

GetFileSystemObjectNames ==
    /\ Doing("list")
    /\ Done
    /\ methodAnswer' = [methodAnswer EXCEPT !.payload = logFolder]
    /\ UNCHANGED <<testMode, methodCall, target>>

StartStopApp ==
    /\ Doing("iotstartup")
    /\ appRuns' = (methodCall.method = "StartApp")
    /\ Done
    /\ SameCall /\ UNCHANGED <<device, logFolder, container, tpmUncleared>>

\* The folders, the packages, or the six nodes of a certificate are read.
Query ==
    /\ Doing("query")
    /\ Done
    /\ SameCall /\ UNCHANGED target

\* A command throws: the rest of the method is left out.
CommandThrows ==
    /\ At("commands") /\ methodTodo # << >>
    /\ \/ /\ Head(methodTodo) \in {"upload", "find"} /\ methodCall.file \notin logFolder
          /\ UNCHANGED spent
       \/ Head(methodTodo) \notin {"ClearTpm", "delete"} /\ Fault
    /\ Leave(TRUE)
    /\ methodTodo' = << >>
    /\ SameCall /\ UNCHANGED target

AllDone ==
    /\ At("commands") /\ methodTodo = << >>
    /\ Leave(FALSE)
    /\ UNCHANGED <<spent, methodVars>>

\* The answer, and for the methods on the device the report.
AnswerMethod ==
    /\ Return
    /\ deployment' = IF methodCall.method \notin DeviceMethods THEN deployment
                     ELSE IF errors THEN "failed" ELSE "succeeded"
    /\ methodAnswer' = IF errors THEN [code |-> "failure", payload |-> {}]
                 ELSE [methodAnswer EXCEPT !.code = "success"]
    /\ UNCHANGED <<testMode, methodCall, methodTodo, target>>

\* The host process ends in the middle of a method, whose caller gets an error.
MethodLost ==
    /\ at # "terminated"
    /\ HostEnds
    /\ methodTodo' = << >>
    /\ methodAnswer' = IF at = "idle" THEN methodAnswer ELSE [NoAnswer EXCEPT !.code = "lost"]
    /\ UNCHANGED <<testMode, methodCall, target>>

\* The device restarts, at any moment after it was told to.  One that boots
\* from the recovery partition or was wiped is another device.
DeviceReboots ==
    /\ device.rebooting /\ at # "terminated"
    /\ device' = [device EXCEPT !.rebooting = FALSE]
    /\ at' = IF device.boot = "recovery" \/ device.wiped THEN "terminated" ELSE "idle"
    /\ step' = "none"
    /\ errors' = FALSE
    /\ methodTodo' = << >>
    /\ methodAnswer' = IF at = "idle" THEN methodAnswer ELSE [NoAnswer EXCEPT !.code = "lost"]
    /\ UNCHANGED <<deployment, spent, testMode, methodCall, logFolder, container,
                   appRuns, tpmUncleared>>

MethodsStep ==
    \/ InvokeMethod
    \/ ClearTpm \/ SetBootSequence \/ Wipe \/ ImmediateReboot
    \/ CreateContainer \/ UploadFromStream \/ FindFile \/ DeleteFile
    \/ GetFileSystemObjectNames \/ StartStopApp \/ Query
    \/ CommandThrows \/ AllDone \/ AnswerMethod
    \/ MethodLost \/ DeviceReboots

\* What a step may do: order a restart, or answer success.
StepKeepsPromise ==
    LET c == methodCall
    IN  /\ device'.rebooting /\ ~device.rebooting =>
             /\ c.method = "FactoryReset" => device.boot = "recovery"
             /\ c.method = "RemoteWipe" => device.wiped
             /\ c.clearTpm /\ c.method \in {"FactoryReset", "RemoteWipe"} =>
                  device.tpm = "clear" \/ tpmUncleared
        /\ methodAnswer'.code = "success" /\ methodAnswer.code # "success" =>
             /\ c.method = "UploadLogFile" => c.file \in container
             /\ c.method = "DeleteLogFile" => c.file \notin logFolder \ FilesInUse
             /\ c.method = "EnumerateLogFiles" => methodAnswer.payload = logFolder
             /\ c.method = "StartApp" => appRuns
             /\ c.method = "StopApp" => ~appRuns

(***************************************************************************)
(* A device is told to restart for a reset only with its boot sequence     *)
(* set, and for a wipe only when wiped, whatever steps of this call or of  *)
(* earlier, interrupted ones failed; in both the TPM was cleared if the    *)
(* call asked for it, unless the TPM refused, which nobody is told.  (The  *)
(* steps in FactoryResetCmdHandler::Invoke, RemoteWipeCmdHandler::Invoke.) *)
(* And a caller told of success finds what it asked for: the upload, the   *)
(* deletion but of a file in use, the app started or stopped.              *)
(***************************************************************************)
MethodsKeepPromise == [][StepKeepsPromise]_methodVars

================================================================================
