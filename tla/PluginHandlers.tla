---------------------------- MODULE PluginHandlers ----------------------------
(***************************************************************************)
(* The plugins' handlers side by side, and the MDM server they command.    *)
(* They share no state - each has its section, its host process and its    *)
(* part of the device - so a behaviour follows one of them, chosen at the  *)
(* start, and the others rest.                                             *)
(***************************************************************************)
EXTENDS CertificateManagement, UwpAppManagement, DiagnosticLogs, TimeSettings,
        PolicySettings, DirectMethods, DeviceInfo, DeviceSchemas,
        MdmServer, SyncML

CONSTANT Parts    \* which of them to follow

VARIABLE part

AllParts == {"certificates", "apps", "logs", "time", "policies", "methods", "info",
             "boundary", "schemas", "mdm", "syncml"}

ASSUME PartsOK == Parts \subseteq AllParts

handlerVars == <<certs, uwpApps, logs, timeVars, policyVars, methodVars, infoVars,
                 boundaryVars, schemasVars>>
pluginVars == <<part, frame, handlerVars, mdm, syncmlVars>>

Init ==
    /\ part \in Parts
    /\ FrameInit
    /\ CertificatesInit
    /\ part = "certificates" \/ certStores = NoCertificates
    /\ AppsInit
    /\ part = "apps" \/ (foregroundApp = AppOrder[1] /\ \A a \in Apps : appVersion[a] = 1)
    /\ LogsInit
    /\ part = "logs" \/ collectorNodes = {}
    /\ TimeInit
    /\ PoliciesInit
    /\ \/ part = "policies"
       \/ /\ policyHandler = (CHOOSE h \in PolicyHandlers : TRUE)
          /\ \A s \in Settings : policies[s] = "unset"
    /\ MethodsInit
    /\ part = "methods" \/ ~testMode
    /\ InfoInit
    /\ part = "info" \/ ~reportOnConnect
    /\ BoundaryInit
    /\ part = "boundary" \/ ~outOfProc
    /\ SchemasInit
    /\ part = "schemas" \/ ~schemasOnConnect
    /\ MdmInit
    /\ SyncMLInit

Next ==
    \/ /\ part = "certificates" /\ CertificatesStep
       /\ UNCHANGED <<part, uwpApps, logs, timeVars, policyVars, methodVars,
                      infoVars, boundaryVars, schemasVars, mdm, syncmlVars>>
    \/ /\ part = "apps" /\ AppsStep
       /\ UNCHANGED <<part, certs, logs, timeVars, policyVars, methodVars,
                      infoVars, boundaryVars, schemasVars, mdm, syncmlVars>>
    \/ /\ part = "logs" /\ LogsStep
       /\ UNCHANGED <<part, certs, uwpApps, timeVars, policyVars, methodVars,
                      infoVars, boundaryVars, schemasVars, mdm, syncmlVars>>
    \/ /\ part = "time" /\ TimeStep
       /\ UNCHANGED <<part, certs, uwpApps, logs, policyVars, methodVars,
                      infoVars, boundaryVars, schemasVars, mdm, syncmlVars>>
    \/ /\ part = "policies" /\ PoliciesStep
       /\ UNCHANGED <<part, certs, uwpApps, logs, timeVars, methodVars,
                      infoVars, boundaryVars, schemasVars, mdm, syncmlVars>>
    \/ /\ part = "methods" /\ MethodsStep
       /\ UNCHANGED <<part, certs, uwpApps, logs, timeVars, policyVars,
                      infoVars, boundaryVars, schemasVars, mdm, syncmlVars>>
    \/ /\ part = "info" /\ InfoStep
       /\ UNCHANGED <<part, certs, uwpApps, logs, timeVars, policyVars, methodVars,
                      boundaryVars, schemasVars, mdm, syncmlVars>>
    \/ /\ part = "boundary" /\ BoundaryStep
       /\ UNCHANGED <<part, certs, uwpApps, logs, timeVars, policyVars, methodVars,
                      infoVars, schemasVars, mdm, syncmlVars>>
    \/ /\ part = "schemas" /\ SchemasStep
       /\ UNCHANGED <<part, certs, uwpApps, logs, timeVars, policyVars, methodVars,
                      infoVars, boundaryVars, mdm, syncmlVars>>
    \/ /\ part = "mdm" /\ MdmStep
       /\ UNCHANGED <<part, frame, handlerVars, syncmlVars>>
    \/ /\ part = "syncml" /\ SyncMLStep
       /\ UNCHANGED <<part, frame, handlerVars, mdm>>

\* Each thread of the MDM server and its callers runs on, and a command of
\* Windows returns.  A thread that waits for the lock may wait for ever, and no
\* handler's invocation is assumed to come to an end.
MdmOnly(A) ==
    part = "mdm" /\ A /\ UNCHANGED <<part, frame, handlerVars, syncmlVars>>

Spec == Init /\ [][Next]_pluginVars

FairSpec ==
    /\ Spec
    /\ WF_pluginVars(MdmOnly(WorkerStep))
    /\ \A c \in MdmCallers : WF_pluginVars(MdmOnly(CallerStep(c)))

(***************************************************************************)
(* The types of all parts' variables.  (The handlers' members and locals,  *)
(* and what they keep on the device.)                                      *)
(***************************************************************************)
TypeOK ==
    /\ part \in Parts
    /\ FrameOK({"readStore", "visit", "uninstall", "install", "validate", "app",
                "startup", "parse", "mode", "lookup", "settings", "providers",
                "status", "etl", "ntpServer", "timeZone", "report", "set", "get",
                "commands", "read", "subGroup", "subGroupOnly", "schemas"})
    /\ CertificatesOK /\ AppsOK /\ LogsOK /\ TimeOK /\ PoliciesOK
    /\ MethodsOK /\ InfoOK /\ BoundaryOK /\ SchemasOK /\ MdmOK /\ SyncMLOK

(***************************************************************************)
(* A reported success of a handler that sets independent values means that *)
(* they are set.  (TimeStateHandler, and the policies' handlers.)          *)
(***************************************************************************)
SettingsApplied == TimeApplied /\ PoliciesApplied

(***************************************************************************)
(* The handlers that only report show what was asked for.                  *)
(* (DeviceInfoHandler, DeviceSchemaHandler: each failed read and each      *)
(* refused handler leaves the rest of the report as it is.)                *)
(***************************************************************************)
ReportsAnswerRequest == InfoComesBack /\ SchemasMatchRequest

=============================================================================
