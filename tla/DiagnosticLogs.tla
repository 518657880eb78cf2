---------------------------- MODULE DiagnosticLogs ----------------------------
(***************************************************************************)
(* DiagnosticLogsManagementStateHandler: a section lists trace collectors  *)
(* with their settings and whether they run.  Each is applied in an        *)
(* operation of its own, by a series of MDM commands and registry writes;  *)
(* a collector that is stopped has its log read out of the MDM data        *)
(* channel, block by block, and written to the file the section names.     *)
(*                                                                         *)
(* A collector's file mode and size are one value, and so are a provider's *)
(* state, keywords and level; "mixed" is what a failure half-way through   *)
(* them leaves.  A file name of the section stands for folder and name (an *)
(* empty name is made from collector and time: a file of its own).         *)
(***************************************************************************)
EXTENDS HandlerInvocation

CONSTANTS
    CollectorOrder,  \* the collectors in the order of the section's keys
    NamePartOf,      \* pairs <<c, d>>: c's name is a part of d's
    TraceProviders,  \* the providers that events may come from
    EtlFiles,        \* the files the logs may be written to
    LogSettings,     \* the values of a collector's and of a provider's settings
    LogSections      \* the sections the cloud may send

Collectors == ToSet(CollectorOrder)

\* fields: the four required ones are there, or none, or only some.  A provider
\* that is not listed is "absent".
CollectorEntries == [fields : {"all", "none", "some", "unmentioned"},
                     validNames : BOOLEAN, settings : LogSettings,
                     providers : [TraceProviders -> LogSettings \cup {"absent"}],
                     file : EtlFiles, started : BOOLEAN]

ASSUME LogsParametersOK ==
    /\ CollectorOrder \in Seq(Collectors) /\ IsInjective(CollectorOrder)
    /\ NamePartOf \subseteq Collectors \X Collectors
    /\ LogSettings \cap {"default", "absent", "mixed"} = {}
    /\ Collectors \cap {"none", "empty", "broken"} = {}
    /\ \A s \in LogSections :
         s \in [kind : SectionKinds, collectors : [Collectors -> CollectorEntries]]

VARIABLES
    collectorNodes,     \* the collectors the MDM configuration has
    logFirst,           \* their size limit and file mode
    logProviders,       \* the settings of each one's providers
    tracing,            \* the collectors that run
    logFile,            \* what a file holds: a collector's log, or "none" (there
                        \* is no file), "empty" or "broken" (a part of a log)
    logSection,         \* the section of the current or last invocation
    logTodo,            \* collectorConfigurations still to apply
    stopped,            \* collectors this invocation stopped (ghost)
    unsaved             \* those of them whose log could not be read or written
                        \* without the handler's noticing (ghost)

logs == <<collectorNodes, logFirst, logProviders, tracing, logFile, logSection,
          logTodo, stopped, unsaved>>

\* Before the first invocation.
NoLogSection ==
    [kind |-> "none",
     collectors |-> [c \in Collectors |-> [fields |-> "unmentioned", validNames |-> FALSE,
                      settings |-> "default", started |-> FALSE]]]

LogsInit ==
    /\ collectorNodes \in SUBSET Collectors
    /\ logFirst = [c \in Collectors |-> "default"]
    /\ logProviders = [c \in Collectors |-> [p \in TraceProviders |-> "absent"]]
    /\ tracing \in SUBSET collectorNodes
    /\ logFile = [f \in EtlFiles |-> "none"]
    /\ logSection = NoLogSection
    /\ logTodo = << >>
    /\ stopped = {} /\ unsaved = {}

LogsOK ==
    /\ collectorNodes \in SUBSET Collectors
    /\ logFirst \in [Collectors -> LogSettings \cup {"default", "mixed"}]
    /\ logProviders \in
         [Collectors -> [TraceProviders -> LogSettings \cup {"absent", "mixed"}]]
    /\ tracing \in SUBSET collectorNodes
    /\ logFile \in [EtlFiles -> Collectors \cup {"none", "empty", "broken"}]
    /\ logSection \in LogSections \cup {NoLogSection}
    /\ logTodo \in Seq(Collectors)
    /\ stopped \in SUBSET Collectors
    /\ unsaved \in SUBSET stopped

InvokeLogs ==
    \E s \in LogSections :
       /\ Invoke(s.kind, "parse")
       /\ logSection' = s
       /\ logTodo' = << >>
       /\ stopped' = {} /\ unsaved' = {}
       /\ UNCHANGED <<collectorNodes, logFirst, logProviders, tracing, logFile>>

Desired(c) == logSection.collectors[c]

\* SetSubGroup: a collector with only some of its fields is an error and left
\* out; the others are applied one after another.
Parse ==
    /\ At("parse")
    /\ logTodo' \in InOrderOf(CollectorOrder,
                              {c \in Collectors : Desired(c).fields \in {"all", "none"}})
    /\ IF \E c \in Collectors : Desired(c).fields = "some" THEN Throw("mode") ELSE Go("mode")
    /\ UNCHANGED <<collectorNodes, logFirst, logProviders, tracing, logFile,
                   logSection, stopped, unsaved>>

Collector == Head(logTodo)
Applying(here) == At(here) /\ logTodo # << >>
NextCollector == logTodo' = Tail(logTodo)

\* The exception of any command ends this collector's operation.
CommandFails == FailTo("mode") /\ NextCollector

\* The reporting mode goes to the registry first, for every collector.
WriteReportingMode ==
    /\ Applying("mode")
    /\ \/ /\ Desired(Collector).fields = "none"
          /\ NextCollector /\ Go("mode")
       \/ /\ Desired(Collector).fields = "all" /\ ~Desired(Collector).validNames
          /\ NextCollector /\ Throw("mode")
       \/ /\ Desired(Collector).fields = "all" /\ Desired(Collector).validNames
          /\ UNCHANGED logTodo /\ Go("lookup")
       \/ CommandFails
    /\ UNCHANGED <<collectorNodes, logFirst, logProviders, tracing, logFile,
                   logSection, stopped, unsaved>>

\* The list of collectors is one string, searched for the name.
Listed(c) == \E d \in collectorNodes : c = d \/ <<c, d>> \in NamePartOf

AddCollector ==
    /\ Applying("lookup")
    /\ \/ /\ collectorNodes' = IF Listed(Collector) THEN collectorNodes
                               ELSE collectorNodes \cup {Collector}
          /\ UNCHANGED logTodo /\ Go("settings")
       \/ CommandFails /\ UNCHANGED collectorNodes
    /\ UNCHANGED <<logFirst, logProviders, tracing, logFile, logSection, stopped,
                   unsaved>>

\* A command on a collector that was taken for another one's name fails.
SetSettings ==
    /\ Applying("settings")
    /\ \/ /\ Collector \in collectorNodes
          /\ logFirst' = [logFirst EXCEPT ![Collector] = Desired(Collector).settings]
          /\ UNCHANGED logTodo /\ Go("providers")
       \/ /\ Collector \notin collectorNodes
          /\ NextCollector /\ Throw("mode") /\ UNCHANGED logFirst
       \/ /\ CommandFails
          /\ \/ UNCHANGED logFirst
             \/ /\ Collector \in collectorNodes
                /\ logFirst' = [logFirst EXCEPT ![Collector] = "mixed"]
    /\ UNCHANGED <<collectorNodes, logProviders, tracing, logFile, logSection, stopped,
                   unsaved>>

Wanted == {p \in TraceProviders : Desired(Collector).providers[p] # "absent"}

\* The listed providers are added or changed one after another, and no others.
ProvidersSet(done, half) ==
    logProviders' = [logProviders EXCEPT ![Collector] =
                       [p \in TraceProviders |->
                          IF p \in done THEN Desired(Collector).providers[p]
                          ELSE IF p \in half THEN "mixed" ELSE @[p]]]

\* Mutant: a provider that fails is passed over.
SetProvidersUnchecked ==
    /\ Applying("providers")
    /\ \E done \in SUBSET Wanted : ProvidersSet(done, {})
    /\ UNCHANGED logTodo /\ Go("status")
    /\ UNCHANGED <<collectorNodes, logFirst, tracing, logFile, logSection, stopped,
                   unsaved>>

SetProviders ==
    /\ Applying("providers")
    /\ \/ /\ ProvidersSet(Wanted, {})
          /\ UNCHANGED logTodo /\ Go("status")
       \/ /\ CommandFails
          /\ \/ UNCHANGED logProviders
             \/ \E p \in Wanted : \E done \in SUBSET (Wanted \ {p}) : ProvidersSet(done, {p})
    /\ UNCHANGED <<collectorNodes, logFirst, tracing, logFile, logSection, stopped,
                   unsaved>>

\* The status is read; START only if stopped, STOP only if started.
StartOrStop ==
    /\ Applying("status")
    /\ \/ /\ Desired(Collector).started
          /\ tracing' = tracing \cup {Collector}
          /\ NextCollector /\ Go("mode") /\ UNCHANGED stopped
       \/ /\ ~Desired(Collector).started /\ Collector \notin tracing
          /\ NextCollector /\ Go("mode") /\ UNCHANGED <<tracing, stopped>>
       \/ /\ ~Desired(Collector).started /\ Collector \in tracing
          /\ tracing' = tracing \ {Collector}
          /\ stopped' = stopped \cup {Collector}
          /\ UNCHANGED logTodo /\ Go("etl")
       \/ CommandFails /\ UNCHANGED <<tracing, stopped>>
    /\ UNCHANGED <<collectorNodes, logFirst, logProviders, logFile, logSection, unsaved>>

\* TryGetNumber takes a failure to read the block count for no blocks, and
\* nobody asks whether the file could be opened or written; a failure to read a
\* block, or to make the folder, is an error and no file.
CreateEtlFile ==
    /\ Applying("etl")
    /\ LET file == Desired(Collector).file
       IN  \/ /\ logFile' = [logFile EXCEPT ![file] = Collector]
              /\ NextCollector /\ Go("mode") /\ UNCHANGED unsaved
           \/ /\ \E content \in {"empty", "broken", logFile[file]} :
                    logFile' = [logFile EXCEPT ![file] = content]
              /\ unsaved' = unsaved \cup {Collector}
              /\ Fault /\ NextCollector /\ Move("mode") /\ UNCHANGED errors
           \/ CommandFails /\ UNCHANGED <<logFile, unsaved>>
    /\ UNCHANGED <<collectorNodes, logFirst, logProviders, tracing, logSection, stopped>>

\* The query of all collectors stands outside any nested operation.
GetCollectors ==
    \/ Leave(FALSE) /\ UNCHANGED spent
    \/ Leave(TRUE) /\ Fault

ReportLogs ==
    /\ At("mode")
    /\ logTodo = << >>
    /\ GetCollectors
    /\ UNCHANGED logs

LogsStep ==
    \/ InvokeLogs
    \/ Parse \/ WriteReportingMode \/ AddCollector \/ SetSettings \/ SetProviders
    \/ StartOrStop \/ CreateEtlFile \/ ReportLogs
    \/ (FinalizeAndReport \/ HostEnds) /\ UNCHANGED logs

(***************************************************************************)
(* When success is reported every collector with all its fields exists,    *)
(* has its settings and those of each provider listed, and runs or not as  *)
(* the section says: also for a name that is a part of another collector's *)
(* name, and after earlier sections stopped half-way                       *)
(* (ApplyCollectorConfiguration; providers of earlier sections stay as     *)
(* they are).  And each file that a stopped collector's log was to go to   *)
(* holds the log of a collector that this section stopped, unless one of   *)
(* those with that file could not be read or written (CreateEtlFile, which *)
(* reports neither).                                                       *)
(***************************************************************************)
CollectorsApplied ==
    (Applied /\ logSection.kind = "good") =>
       /\ \A c \in Collectors : Desired(c).fields = "all" =>
             /\ c \in collectorNodes
             /\ logFirst[c] = Desired(c).settings
             /\ \A p \in TraceProviders :
                   Desired(c).providers[p] # "absent" =>
                      logProviders[c][p] = Desired(c).providers[p]
             /\ c \in tracing <=> Desired(c).started
       /\ \A c \in stopped :
             \E d \in stopped : /\ Desired(d).file = Desired(c).file
                                /\ d \in unsaved \/ logFile[Desired(c).file] = d

=============================================================================
