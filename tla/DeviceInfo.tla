------------------------------- MODULE DeviceInfo -------------------------------
(***************************************************************************)
(* DeviceInfoHandler: it applies nothing, and reports the device's         *)
(* properties, each read in an operation of its own, when the cloud sends  *)
(* its section and, if so configured, whenever the agent connects.  The    *)
(* SDK may refuse a report, which is an exception in the handler.          *)
(***************************************************************************)
EXTENDS HandlerInvocation

CONSTANTS
    InfoOrder,       \* the properties in the order they are read
    InfoSections     \* the sections the cloud may send

InfoProperties == ToSet(InfoOrder)

ASSUME InfoParametersOK ==
    /\ InfoOrder \in Seq(InfoProperties) /\ IsInjective(InfoOrder)
    /\ InfoSections \subseteq [kind : SectionKinds, detailed : BOOLEAN]

VARIABLES
    reportOnConnect,   \* the handler's configuration
    infoTodo,          \* properties still to read
    infoRead,          \* reportedObject: "absent", "value" or "null"
    infoTwin,          \* the handler's part of the twin: "none", "refreshing"
                       \* or "report"
    infoShown,         \* the values of that report
    infoAsked,         \* what the last section or connection asks for (ghost)
    unanswered         \* it got no report: a connection after which the handler
                       \* reports nothing, a refused report, a lost host (ghost)

infoVars == <<reportOnConnect, infoTodo, infoRead, infoTwin, infoShown, infoAsked, unanswered>>

NoInfo == [p \in InfoProperties |-> "absent"]
AllInfo == [p \in InfoProperties |-> "value"]

\* EmptyReported
EmptyInfo == [p \in InfoProperties |-> "null"]

InfoInit ==
    /\ reportOnConnect \in BOOLEAN
    /\ infoTodo = << >>
    /\ infoRead = NoInfo
    /\ infoTwin = "none"
    /\ infoShown = NoInfo
    /\ infoAsked = NoInfo
    /\ unanswered = FALSE

InfoOK ==
    /\ reportOnConnect \in BOOLEAN
    /\ infoTodo \in Seq(InfoProperties)
    /\ {infoRead, infoShown} \subseteq [InfoProperties -> {"absent", "value", "null"}]
    /\ infoTwin \in {"none", "refreshing", "report"}
    /\ infoAsked \in {NoInfo, EmptyInfo, AllInfo}
    /\ unanswered \in BOOLEAN

AskedBy(s) ==
    IF s.kind # "good" THEN NoInfo ELSE IF s.detailed THEN AllInfo ELSE EmptyInfo

InvokeInfo ==
    \E s \in InfoSections :
       /\ Invoke(s.kind, "read")
       /\ infoTodo' = IF s.kind = "good" /\ s.detailed THEN InfoOrder ELSE << >>
       /\ infoRead' = IF s.kind = "good" /\ ~s.detailed THEN EmptyInfo ELSE NoInfo
       /\ infoTwin' = IF s.kind = "refreshing" THEN infoTwin ELSE "refreshing"
       /\ infoAsked' = AskedBy(s)
       /\ UNCHANGED <<reportOnConnect, infoShown, unanswered>>

Requested ==
    /\ at = "idle"
    /\ spent.invocations < MaxInvocations
    /\ spent.faults < MaxFaults
    /\ spent' = [invocations |-> spent.invocations + 1, faults |-> spent.faults + 1]
    /\ UNCHANGED <<reportOnConnect, infoTwin, infoShown>>

\* The report of "refreshing" is refused.  In Invoke that is an error like any
\* other, and nothing is read; on connect the exception leaves the handler.
RefreshingRefused ==
    /\ Requested
    /\ \/ /\ \E s \in {t \in InfoSections : t.kind # "refreshing"} : infoAsked' = AskedBy(s)
          /\ at' = "finalize"
          /\ errors' = TRUE
          /\ infoTodo' = << >> /\ infoRead' = NoInfo
          /\ UNCHANGED <<step, deployment, unanswered>>
       \/ /\ infoAsked' = AllInfo
          /\ unanswered' = TRUE
          /\ UNCHANGED <<at, step, errors, deployment, infoTodo, infoRead>>

\* OnConnectionStatusChanged(eOnline).  The report on connect reads everything,
\* whatever the last section's reporting mode.
Online ==
    /\ at = "idle"
    /\ spent.invocations < MaxInvocations
    /\ spent' = [spent EXCEPT !.invocations = @ + 1]
    /\ deployment' = "pending"
    /\ infoTwin' = "refreshing"
    /\ infoRead' = NoInfo
    /\ IF reportOnConnect
       THEN at' = "apply" /\ step' = "read" /\ infoTodo' = InfoOrder
       ELSE UNCHANGED <<at, step, infoTodo>>
    /\ infoAsked' = AllInfo
    /\ errors' = FALSE
    /\ unanswered' = (unanswered \/ ~reportOnConnect)
    /\ UNCHANGED <<reportOnConnect, infoShown>>

\* Mutant: the first property that cannot be read ends the report.
ReadPropertyOrStop ==
    /\ At("read")
    /\ infoTodo # << >>
    /\ \/ /\ infoRead' = [infoRead EXCEPT ![Head(infoTodo)] = "value"] /\ Go("read")
          /\ infoTodo' = Tail(infoTodo)
       \/ FailTo("read") /\ infoTodo' = << >> /\ UNCHANGED infoRead
    /\ UNCHANGED <<reportOnConnect, infoTwin, infoShown, infoAsked, unanswered>>

\* ReadStringProperty, ReadNumberProperty
ReadProperty ==
    /\ At("read")
    /\ infoTodo # << >>
    /\ infoTodo' = Tail(infoTodo)
    /\ \/ infoRead' = [infoRead EXCEPT ![Head(infoTodo)] = "value"] /\ Go("read")
       \/ FailTo("read") /\ UNCHANGED infoRead
    /\ UNCHANGED <<reportOnConnect, infoTwin, infoShown, infoAsked, unanswered>>

AllRead ==
    /\ At("read")
    /\ infoTodo = << >>
    /\ Leave(FALSE)
    /\ UNCHANGED <<spent, infoVars>>

ReportInfo ==
    /\ FinalizeAndReport
    /\ infoTwin' = "report"
    /\ infoShown' = infoRead
    /\ unanswered' = FALSE
    /\ UNCHANGED <<reportOnConnect, infoTodo, infoRead, infoAsked>>

\* The final report is refused: on connect the exception leaves the handler and
\* the caller logs it; out of Invoke, which is noexcept, it ends the host.
ReportInfoRefused ==
    /\ at = "finalize"
    /\ at' = "idle"
    /\ Fault
    /\ unanswered' = TRUE
    /\ UNCHANGED <<step, errors, deployment, reportOnConnect, infoTodo, infoRead, infoTwin, infoShown,
                   infoAsked>>

InfoHostEnds ==
    /\ HostEnds
    /\ infoTodo' = << >>
    /\ infoRead' = NoInfo
    /\ unanswered' = (unanswered \/ at # "idle")
    /\ UNCHANGED <<reportOnConnect, infoTwin, infoShown, infoAsked>>

InfoStep ==
    \/ InvokeInfo \/ Online \/ RefreshingRefused
    \/ ReadProperty \/ AllRead \/ ReportInfo \/ ReportInfoRefused
    \/ InfoHostEnds

(***************************************************************************)
(* Between calls the twin does not say "refreshing", and a reported        *)
(* success shows what the last section or connection asked for - the value *)
(* of every property, null for each, or nothing - unless that one was      *)
(* never answered: for a connection without report on connect, for a       *)
(* report that the SDK refused, or for the host's end.  And a report that  *)
(* failed misses no more properties than could not be read.                *)
(* (OnConnectionStatusChanged, Invoke, BuildReported, EmptyReported.)      *)
(***************************************************************************)
InfoComesBack ==
    at = "idle" =>
      /\ infoTwin = "refreshing" => unanswered
      /\ deployment = "succeeded" /\ ~unanswered => infoShown = infoAsked
      /\ infoTwin = "report" =>
            Cardinality({p \in InfoProperties : infoShown[p] = "absent"})
              \in 0 .. spent.faults \cup {Len(InfoOrder)}

=================================================================================
