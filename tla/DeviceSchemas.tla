------------------------------ MODULE DeviceSchemas ------------------------------
(***************************************************************************)
(* DeviceSchemasHandler, one of the agent's own handlers: it reports which *)
(* handlers there are, with the version and the tags of their interfaces.  *)
(* The cloud chooses them by their ids, whether they are configured, their *)
(* type and their tags.  It asks each handler in turn, those of a plug-in  *)
(* through the boundary, and the first that throws ends the list.          *)
(***************************************************************************)
EXTENDS PluginBoundary, Sequences, SequencesExt

CONSTANTS
    SchemaOrder,         \* the handlers in the order of the host's map
    SelfId,              \* this handler's own id
    InPlugin,            \* the handlers that are called through the boundary
    ConfiguredHandlers,  \* those of the others that received a configuration
    SchemaTags,          \* the tags of each
    SchemaSections       \* the sections the cloud may send

SchemaIds == ToSet(SchemaOrder)

ASSUME SchemaParametersOK ==
    /\ SchemaOrder \in Seq(SchemaIds) /\ IsInjective(SchemaOrder)
    /\ SelfId \in SchemaIds \ InPlugin
    /\ InPlugin \cup ConfiguredHandlers \subseteq SchemaIds
    /\ \A s \in SchemaSections : s.kind \in SectionKinds

VARIABLES
    schemasOnConnect,  \* the handler's configuration
    schemaConfig,      \* _groupDesiredConfigJson: [missing, groups, types, tags]
    reportingModel,    \* _reportingModel: [groups, types, tags]
    schemasConfigured, \* _isConfigured
    connecting,        \* the work is OnConnectionStatusChanged's
    schemasTodo,       \* handlers still to ask
    schemasFound,      \* reportedObject: the members set to a schema
    schemasMode,       \* what reportedObject is: nothing, a list, all null
    schemasReport,     \* the last report: [full, listed]
    schemasTwin        \* the handlers the twin lists

schemasVars == <<schemasOnConnect, schemaConfig, reportingModel, schemasConfigured, connecting,
                 schemasTodo, schemasFound, schemasMode, schemasReport, schemasTwin>>

Everything == [groups |-> {"all"}, types |-> {"all"}, tags |-> {}]
Members == {"groups", "types", "tags"}

SchemasInit ==
    /\ schemasOnConnect \in BOOLEAN
    /\ schemaConfig = [missing |-> Members, groups |-> {}, types |-> {}, tags |-> {}]
    /\ reportingModel = Everything
    /\ schemasConfigured = FALSE
    /\ connecting = FALSE
    /\ schemasTodo = << >>
    /\ schemasFound = {}
    /\ schemasMode = "nothing"
    /\ schemasReport = [full |-> FALSE, listed |-> {}]
    /\ schemasTwin = {}

SchemasOK ==
    /\ {schemasOnConnect, schemasConfigured, connecting} \subseteq BOOLEAN
    /\ schemasMode \in {"nothing", "list", "null"}
    /\ schemaConfig.missing \subseteq Members
    /\ schemasTodo \in Seq(SchemaIds)
    /\ {schemasFound, schemasReport.listed, schemasTwin} \subseteq SUBSET SchemaIds

\* JsonHelpers::Merge.
MergedWith(s) ==
    [missing |-> schemaConfig.missing \cap s.missing,
     groups  |-> IF "groups" \in s.missing THEN schemaConfig.groups ELSE s.groups,
     types   |-> IF "types" \in s.missing THEN schemaConfig.types ELSE s.types,
     tags    |-> IF "tags" \in s.missing THEN schemaConfig.tags ELSE s.tags]

\* The section is merged before its version is looked at.
InvokeSchemas ==
    \E s \in SchemaSections :
       /\ Begin(s.kind, IF s.detailed THEN "subGroup" ELSE "subGroupOnly")
       /\ schemaConfig' = IF s.kind = "refreshing" THEN schemaConfig ELSE MergedWith(s)
       /\ connecting' = FALSE
       /\ schemasFound' = {}
       /\ schemasMode' = "nothing"
       /\ UNCHANGED <<deployment, schemasOnConnect, reportingModel, schemasConfigured, schemasTodo,
                      schemasReport, schemasTwin>>

\* "all" stands alone.
Mixed(names) == "all" \in names /\ names # {"all"}

\* SetSubGroup: the model is replaced only when the whole of it was read.
SetReportingModel ==
    \E here \in {"subGroup", "subGroupOnly"} :
       /\ At(here)
       /\ IF schemaConfig.missing # {} \/ Mixed(schemaConfig.groups) \/ Mixed(schemaConfig.types)
          THEN /\ Leave(TRUE)
               /\ UNCHANGED <<reportingModel, schemasConfigured, schemasTodo, schemasMode>>
          ELSE /\ reportingModel' = [groups |-> schemaConfig.groups, types |-> schemaConfig.types,
                                     tags |-> schemaConfig.tags]
               /\ schemasConfigured' = TRUE
               /\ schemasMode' = IF here = "subGroup" THEN "list" ELSE "null"
               /\ schemasTodo' = IF here = "subGroup" THEN SchemaOrder ELSE << >>
               /\ Move("schemas") /\ UNCHANGED errors
       /\ UNCHANGED <<spent, schemasOnConnect, schemaConfig, connecting, schemasFound,
                      schemasReport, schemasTwin>>

\* OnConnectionStatusChanged(eOnline), with report on connect.
SchemasOnline ==
    /\ at = "idle"
    /\ schemasOnConnect
    /\ spent.invocations < MaxInvocations
    /\ spent' = [spent EXCEPT !.invocations = @ + 1]
    /\ at' = "apply" /\ step' = "schemas"
    /\ errors' = FALSE
    /\ connecting' = TRUE
    /\ schemasTodo' = SchemaOrder
    /\ schemasFound' = {}
    /\ schemasMode' = "list"
    /\ UNCHANGED <<deployment, schemasOnConnect, schemaConfig, reportingModel, schemasConfigured,
                   schemasReport, schemasTwin>>

IsHandlerConfigured(h) ==
    IF h = SelfId THEN schemasConfigured ELSE h \in ConfiguredHandlers

\* What the handler's object, or its proxy, returns.
Asked(method, h, o) == IF h \in InPlugin THEN AcrossBoundary(method, o) ELSE o

\* IsGroupIncluded
GroupAsked(h) ==
    IF "all" \in reportingModel.groups THEN Flag(TRUE)
    ELSE IF "configured" \in reportingModel.groups
            /\ Asked("IsConfigured", h, Flag(IsHandlerConfigured(h))) # Flag(FALSE)
    THEN Asked("IsConfigured", h, Flag(IsHandlerConfigured(h)))
    ELSE Flag(h \in reportingModel.groups)

\* The tags that GetReportedSchema returns.
TagsAsked(h) ==
    IF Asked("GetReportedSchema", h, JsonValue("object", "tagged")).value = "tagged"
    THEN SchemaTags[h] ELSE {}

IsTypeIncluded == reportingModel.types \cap {"all", "raw"} # {}

HasAnyTag(h) == reportingModel.tags = {} \/ TagsAsked(h) \cap reportingModel.tags # {}

\* An exception leaves BuildReported.  On connect it leaves the handler too.
BuildReportedThrows ==
    /\ IF connecting
       THEN at' = "idle" /\ step' = "none" /\ errors' = FALSE /\ UNCHANGED deployment
       ELSE Leave(TRUE)
    /\ schemasTodo' = << >>
    /\ UNCHANGED schemasFound

\* Mutant: the exceptions of one handler are caught, and the next one is asked.
ListSchemaOrSkip ==
    /\ At("schemas")
    /\ schemasTodo # << >>
    /\ schemasTodo' = Tail(schemasTodo)
    /\ schemasFound' = schemasFound \cup
          {h \in {Head(schemasTodo)} : GroupAsked(h) = Flag(TRUE) /\ IsTypeIncluded /\ HasAnyTag(h)}
    /\ Go("schemas")
    /\ UNCHANGED <<schemasOnConnect, schemaConfig, reportingModel, schemasConfigured,
                   connecting, schemasMode, schemasReport, schemasTwin>>

\* One handler of BuildReported; a call to a plug-in may fail.
ListSchema ==
    LET h == Head(schemasTodo)
        group == GroupAsked(h)
        included == group = Flag(TRUE) /\ IsTypeIncluded /\ HasAnyTag(h)
    IN  /\ At("schemas")
        /\ schemasTodo # << >>
        /\ \/ IsException(group) /\ BuildReportedThrows /\ UNCHANGED spent
           \/ h \in InPlugin /\ group = Flag(TRUE) /\ BuildReportedThrows /\ Fault
           \/ /\ ~IsException(group)
              /\ schemasTodo' = Tail(schemasTodo)
              /\ schemasFound' = schemasFound \cup (IF included THEN {h} ELSE {})
              /\ Go("schemas")
        /\ UNCHANGED <<schemasOnConnect, schemaConfig, reportingModel, schemasConfigured,
                       connecting, schemasMode, schemasReport, schemasTwin>>

AllAsked ==
    /\ At("schemas")
    /\ schemasTodo = << >>
    /\ Leave(FALSE)
    /\ UNCHANGED <<spent, schemasVars>>

\* The report is a patch of the twin's section: what it does not name stays.
ReportSchemas ==
    /\ FinalizeAndReport
    /\ schemasReport' = [full |-> ~errors /\ schemasMode = "list",
                         listed |-> schemasFound]
    /\ schemasTwin' = IF schemasMode = "null" THEN {} ELSE schemasTwin \cup schemasFound
    /\ UNCHANGED <<schemasOnConnect, schemaConfig, reportingModel, schemasConfigured, connecting,
                   schemasTodo, schemasFound, schemasMode>>

\* The SDK refuses the report: out of the noexcept Invoke the exception ends
\* the agent, and on connect the caller catches it.
ReportSchemasFails ==
    /\ at = "finalize"
    /\ Fault
    /\ at' = IF connecting THEN "idle" ELSE "terminated"
    /\ UNCHANGED <<step, errors, deployment, schemasVars>>

SchemasStep ==
    \/ InvokeSchemas \/ SetReportingModel \/ SchemasOnline
    \/ ListSchema \/ AllAsked \/ ReportSchemas \/ ReportSchemasFails

\* The handlers that the reporting model asks for.
AskedFor ==
    {h \in SchemaIds :
       /\ \/ "all" \in reportingModel.groups \/ h \in reportingModel.groups
          \/ "configured" \in reportingModel.groups /\ IsHandlerConfigured(h)
       /\ reportingModel.types \cap {"all", "raw"} # {}
       /\ reportingModel.tags = {} \/ SchemaTags[h] \cap reportingModel.tags # {}}

(***************************************************************************)
(* A list of schemas that is reported as a success holds handlers that     *)
(* were asked for and no other; all of them, if no tags were given; and    *)
(* all that the agent can ask without the boundary, in any case.  (The     *)
(* tags of a plug-in's handler are lost there.)  The twin lists all that   *)
(* the last such report did.  (IsGroupIncluded, IsTypeIncluded,            *)
(* BuildReported, ReportedSchema::FromJsonValue.)                          *)
(***************************************************************************)
SchemasMatchRequest ==
    (at = "idle" /\ schemasReport.full) =>
        LET listed == schemasReport.listed
        IN  /\ listed \subseteq AskedFor \cap schemasTwin
            /\ AskedFor \ InPlugin \subseteq listed
            /\ reportingModel.tags = {} => AskedFor \subseteq listed

=================================================================================
