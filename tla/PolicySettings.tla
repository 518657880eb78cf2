---------------------------- MODULE PolicySettings ----------------------------
(***************************************************************************)
(* The handlers that set independent settings one by one and read them     *)
(* back for the report: WindowsUpdateHandler, RebootStateHandler and       *)
(* WindowsTelemetryStateHandler.  They differ in whether a section must    *)
(* name the setting and in what a value that cannot be read does.          *)
(***************************************************************************)
EXTENDS HandlerInvocation

CONSTANTS
    SettingOrder,     \* the settings in the order they are set and read
    PolicyValues,     \* their valid values
    PolicyHandlers,   \* the handlers: [required, tryRead]
    PolicySections    \* the sections the cloud may send

Settings == ToSet(SettingOrder)

\* required: the section must have the setting (telemetry).  tryRead: a value
\* that cannot be read leaves an int uninitialised (Windows Update).
ASSUME PoliciesParametersOK ==
    /\ SettingOrder \in Seq(Settings) /\ IsInjective(SettingOrder)
    /\ PolicyValues \cap {"absent", "invalid", "unset"} = {}
    /\ PolicyHandlers \subseteq [required : BOOLEAN, tryRead : BOOLEAN]
    /\ \A s \in PolicySections :
         s \in [kind : SectionKinds, detailed : BOOLEAN,
                values : [Settings -> PolicyValues \cup {"absent", "invalid"}]]

VARIABLES
    policyHandler,    \* which of the handlers this is
    policies,         \* the values in force
    policySection,    \* the section of the current or last invocation
    policyTodo,       \* settings still to set, or to read
    policyReported    \* the values of the report

policyVars == <<policyHandler, policies, policySection, policyTodo, policyReported>>

NoPolicies == [s \in Settings |-> "absent"]

\* Before the first invocation.
NoPolicySection == [kind |-> "none", detailed |-> FALSE, values |-> NoPolicies]

PoliciesInit ==
    /\ policyHandler \in PolicyHandlers
    /\ policies \in [Settings -> PolicyValues \cup {"unset"}]
    /\ policySection = NoPolicySection
    /\ policyTodo = << >>
    /\ policyReported = NoPolicies

PoliciesOK ==
    /\ policyHandler \in PolicyHandlers
    /\ policies \in [Settings -> PolicyValues \cup {"unset"}]
    /\ policySection \in PolicySections \cup {NoPolicySection}
    /\ policyTodo \in Seq(Settings)
    /\ policyReported \in [Settings -> PolicyValues \cup {"absent", "unset"}]

InvokePolicies ==
    \E s \in PolicySections :
       /\ Invoke(s.kind, "set")
       /\ policySection' = s
       /\ policyTodo' = SettingOrder
       /\ policyReported' = NoPolicies
       /\ UNCHANGED <<policyHandler, policies>>

Setting == Head(policyTodo)
Value == policySection.values[Setting]

\* SetSubGroup, SetSubGroupLevel: an operation per setting.
SetSubGroup ==
    /\ At("set")
    /\ policyTodo # << >>
    /\ policyTodo' = Tail(policyTodo)
    /\ \/ /\ Value \in PolicyValues
          /\ policies' = [policies EXCEPT ![Setting] = Value]
          /\ Go("set")
       \/ Value = "absent" /\ ~policyHandler.required /\ Go("set") /\ UNCHANGED policies
       \/ /\ Value = "invalid" \/ (Value = "absent" /\ policyHandler.required)
          /\ Throw("set") /\ UNCHANGED policies
       \/ Value \in PolicyValues /\ FailTo("set") /\ UNCHANGED policies
    /\ UNCHANGED <<policyHandler, policySection, policyReported>>

AllSet ==
    /\ At("set")
    /\ policyTodo = << >>
    /\ policySection.detailed
    /\ policyTodo' = SettingOrder
    /\ Go("get")
    /\ UNCHANGED <<policyHandler, policies, policySection, policyReported>>

Reports(v) == policyReported' = [policyReported EXCEPT ![Setting] = v]

\* GetSubGroup, GetSubGroupLevel.  With TryGetNumber the report has whatever
\* the variable held.
GetSubGroup ==
    /\ At("get")
    /\ policyTodo # << >>
    /\ policyTodo' = Tail(policyTodo)
    /\ \/ policies[Setting] # "unset" /\ Reports(policies[Setting]) /\ Go("get")
       \/ /\ policyHandler.tryRead
          /\ \E v \in PolicyValues : Reports(v)
          /\ \/ policies[Setting] = "unset" /\ Go("get")
             \/ policies[Setting] # "unset" /\ Fault /\ Move("get") /\ UNCHANGED errors
       \/ /\ ~policyHandler.tryRead
          /\ \/ policies[Setting] = "unset" /\ Throw("get")
             \/ policies[Setting] # "unset" /\ FailTo("get")
          /\ UNCHANGED policyReported
    /\ UNCHANGED <<policyHandler, policies, policySection>>

ReportPolicies ==
    /\ policyTodo = << >>
    /\ IF policySection.detailed THEN At("get") ELSE At("set")
    /\ Leave(FALSE) /\ UNCHANGED spent
    /\ UNCHANGED policyVars

PoliciesStep ==
    \/ InvokePolicies
    \/ SetSubGroup \/ AllSet \/ GetSubGroup \/ ReportPolicies
    \/ (FinalizeAndReport \/ HostEnds) /\ UNCHANGED policyVars

(***************************************************************************)
(* When success is reported every setting the section names is in force,   *)
(* and the report, if it has a value, shows the value in force - except    *)
(* for Windows Update, whose report of a value that could not be read is   *)
(* arbitrary.  (SetSubGroup, GetSubGroup and the common error list.)       *)
(***************************************************************************)
PoliciesApplied ==
    (Applied /\ policySection.kind = "good") =>
       \A s \in Settings :
          /\ policySection.values[s] # "absent" => policies[s] = policySection.values[s]
          /\ (policySection.detailed /\ ~policyHandler.tryRead) => policyReported[s] = policies[s]

=============================================================================
