----------------------------- MODULE TwinDispatch -----------------------------
(***************************************************************************)
(* AzureRawHost between the IoT Hub and the handlers: a device twin update *)
(* is marked pending and dispatched in dependency order, a direct method   *)
(* is routed to one handler, and every report carries the summary of all   *)
(* sections with it.  Two threads report without a lock between them: the  *)
(* IoT Hub SDK's callback thread ("sdk"), which runs updates and methods,  *)
(* and the agent's main loop ("main"), which tells the handlers that the   *)
(* device is online and lets them report on connect.                       *)
(*                                                                         *)
(* A handler behaves as HandlerBase and Operation make every handler       *)
(* behave: it may report "refreshing", then finalizes with one report of   *)
(* success or failure, or its invocation throws (a dead plugin host).      *)
(***************************************************************************)
EXTENDS Integers, Sequences, FiniteSets, SequencesExt

CONSTANTS
    MapOrder,         \* the registered handlers in the order of _rawHandlerMap
    ClearReported,    \* the built-in command that clears the reported sections
    Builtin,          \* handlers in the agent's own process
    ReportOnConnect,  \* handlers configured to report when the device connects
    DependencyMaps,   \* the dependency lists the manifests may hold
    Updates,          \* the twin updates the hub may send: [keys, objects]
    MaxCallbacks,     \* bound: twin updates and direct methods received
    MaxFailures       \* bound: calls that fail (to a plugin or to the SDK)

Handlers == ToSet(MapOrder)
Threads == {"sdk", "main"}

ASSUME ParametersOK ==
    /\ MapOrder \in Seq(Handlers) /\ IsInjective(MapOrder)
    /\ ClearReported \in Builtin
    /\ Builtin \subseteq Handlers
    /\ ReportOnConnect \subseteq Handlers \ {ClearReported}
    /\ \A d \in DependencyMaps : d \in [Handlers -> SUBSET Handlers]
    /\ \A u \in Updates : u.keys \subseteq Handlers /\ u.objects \subseteq u.keys
    /\ MaxCallbacks \in Nat /\ MaxFailures \in Nat

Statuses == {"pending", "succeeded", "failed", "unknown"}
Shown == Statuses \cup {"absent", "refreshing"}  \* a section as the twin shows it
Summaries == [failed : SUBSET Handlers, pending : SUBSET Handlers]
Patches == [sections : [Handlers -> Shown \cup {"none"}], summary : Summaries]
Reports == [handler : Handlers, status : {"none", "pending", "succeeded", "failed"},
            shown : Shown \cup {"none"}]
UnderWay == [keys : SUBSET Handlers, objects : SUBSET Handlers,
             status : Statuses \cup {"none"}, method : BOOLEAN]
Outcomes == {"none", "due", "succeeded", "failed", "skipped", "lost"}
Places == {"starting", "sequencing", "connecting", "idle", "mark", "ask", "sendMarks",
           "invoke", "run", "compose", "send", "clear", "terminated"}

VARIABLES
    active,         \* RawHandlerInfo::_state
    deps,           \* RawHandlerInfo::_dependencies
    sequence,       \* _rawHandlerSequence
    sectionStatus,  \* ReportedSummary::_sectionStatusMap
    twin,           \* the reported sections the IoT Hub holds
    twinSummary,    \* the summary object the IoT Hub holds
    at,             \* where each thread is
    todo,           \* handlers its current loop has still to visit
    patch,          \* the reported properties it is building
    report,         \* the Report call it is in
    update,         \* the update the sdk thread is dispatching
    outcome,        \* what a handler's last invocation came to
    received        \* [callbacks, failures] so far

state == <<active, deps, sequence, sectionStatus, twin, twinSummary, at, todo,
           patch, report, update, outcome, received>>

Nothing == [h \in Handlers |-> "none"]
NoUpdate == [keys |-> {}, objects |-> {}, status |-> "none", method |-> FALSE]
NoSummary == [failed |-> {}, pending |-> {}]
NoPatch == [sections |-> Nothing, summary |-> NoSummary]
NoReport == [handler |-> ClearReported, status |-> "none", shown |-> "none"]

TypeOK ==
    /\ active \in SUBSET Handlers
    /\ deps \in DependencyMaps
    /\ sequence \in Seq(Handlers)
    /\ sectionStatus \in [Handlers -> Statuses \cup {"none"}]
    /\ twin \in [Handlers -> Shown]
    /\ twinSummary \in Summaries
    /\ at \in [Threads -> Places]
    /\ todo \in [Threads -> SUBSET Handlers]
    /\ patch \in [Threads -> Patches]
    /\ report \in [Threads -> Reports]
    /\ update \in UnderWay
    /\ outcome \in [Handlers -> Outcomes]
    /\ received \in [callbacks : 0 .. MaxCallbacks, failures : 0 .. MaxFailures]

Init ==
    /\ active = {}
    /\ deps \in DependencyMaps
    /\ sequence = << >>
    /\ sectionStatus = [h \in Handlers |-> "none"]
    /\ twin = [h \in Handlers |-> "absent"]
    /\ twinSummary = NoSummary
    /\ at = [t \in Threads |-> IF t = "main" THEN "starting" ELSE "connecting"]
    /\ todo = [t \in Threads |-> {}]
    /\ patch = [t \in Threads |-> NoPatch]
    /\ report = [t \in Threads |-> NoReport]
    /\ update = NoUpdate
    /\ outcome = [h \in Handlers |-> "none"]
    /\ received = [callbacks |-> 0, failures |-> 0]

\* A loop over handlers goes by the map, but an update's dispatch by the sequence.
Order(t) ==
    IF t = "sdk" /\ at[t] = "invoke" /\ ~update.method THEN sequence ELSE MapOrder

\* Handler h is the next that thread t visits.
Turn(t, h) ==
    /\ h \in todo[t]
    /\ \E i \in DOMAIN Order(t) :
          /\ Order(t)[i] = h
          /\ \A j \in DOMAIN Order(t) : Order(t)[j] \in todo[t] => i <= j

Visited(t, h) == todo' = [todo EXCEPT ![t] = @ \ {h}]

Goto(t, place) == at' = [at EXCEPT ![t] = place]

Fails ==
    /\ received.failures < MaxFailures
    /\ received' = [received EXCEPT !.failures = @ + 1]

(***************************************************************************)
(* Start of the main loop: the handlers are started, then sequenced, then  *)
(* the callbacks are set and the handlers told that the device is online.  *)
(***************************************************************************)

\* A handler whose Start throws stays inactive; a built-in one never throws.
SignalStart ==
    /\ at["main"] = "starting"
    /\ \E A \in SUBSET (Handlers \ Builtin) : active' = Builtin \cup A
    /\ Goto("main", "sequencing")
    /\ UNCHANGED <<deps, sequence, sectionStatus, twin, twinSummary, todo, patch,
                   report, update, outcome, received>>

InvokeOrders ==
    {s \in SetToSeqs(Handlers) :
       \A i, j \in DOMAIN s : s[j] \in deps[s[i]] => j < i}

\* DependencySort throws on a cycle, and the sequence stays empty.
HandlerInvokeSequence ==
    /\ at["main"] = "sequencing"
    /\ IF InvokeOrders = {} THEN sequence' = << >>
       ELSE sequence' = CHOOSE s \in InvokeOrders : TRUE
    /\ Goto("main", "connecting")
    /\ UNCHANGED <<active, deps, sectionStatus, twin, twinSummary, todo, patch,
                   report, update, outcome, received>>

\* EnableIoTHubNotifications(true): from here on the SDK calls back.
Connect ==
    /\ at["main"] = "connecting"
    /\ at' = [at EXCEPT !["main"] = "invoke", !["sdk"] = "idle"]
    /\ todo' = [todo EXCEPT !["main"] = active]
    /\ UNCHANGED <<active, deps, sequence, sectionStatus, twin, twinSummary, patch,
                   report, update, outcome, received>>

(***************************************************************************)
(* Report: the section's status enters the summary, the summary and the    *)
(* section are put into one object, the object is sent.                    *)
(***************************************************************************)
\* Mutant: the section's object is built before its new status is set.
BeginReportEarly(t, h, status, shown) ==
    /\ sectionStatus' = [sectionStatus EXCEPT ![h] = status]
    /\ report' = [report EXCEPT ![t] =
                    [handler |-> h, status |-> status,
                     shown |-> IF shown = "refreshing" THEN shown
                               ELSE IF sectionStatus[h] = "none" THEN "unknown"
                               ELSE sectionStatus[h]]]
    /\ Goto(t, "compose")

\* Mutant: the section is reported without its entry in the summary.
BeginReportUnsummarized(t, h, status, shown) ==
    /\ report' = [report EXCEPT ![t] = [handler |-> h, status |-> status, shown |-> shown]]
    /\ Goto(t, "compose")
    /\ UNCHANGED sectionStatus

BeginReport(t, h, status, shown) ==
    /\ sectionStatus' = [sectionStatus EXCEPT ![h] = status]
    /\ report' = [report EXCEPT ![t] = [handler |-> h, status |-> status, shown |-> shown]]
    /\ Goto(t, "compose")

\* ReportedSummary::ToJsonObject names only failed and pending sections.
SummaryObject(status) == [failed  |-> {h \in Handlers : status[h] = "failed"},
                          pending |-> {h \in Handlers : status[h] = "pending"}]

Compose(t) ==
    /\ at[t] = "compose"
    /\ patch' = [patch EXCEPT ![t] =
                   [sections |-> [Nothing EXCEPT ![report[t].handler] = report[t].shown],
                    summary  |-> SummaryObject(sectionStatus)]]
    /\ Goto(t, "send")
    /\ UNCHANGED <<active, deps, sequence, sectionStatus, twin, twinSummary, todo,
                   report, update, outcome, received>>

\* The hub merges a patch into the reported properties; null removes a section.
Merged(sections) == [h \in Handlers |-> IF sections[h] = "none" THEN twin[h] ELSE sections[h]]

\* After "refreshing" the handler works on; otherwise its call returns and its
\* caller's loop moves on.
AfterReport(t) ==
    IF report[t].shown = "refreshing"
    THEN Goto(t, "run") /\ UNCHANGED report
    ELSE Goto(t, "invoke") /\ report' = [report EXCEPT ![t] = NoReport]

SendReport(t) ==
    /\ at[t] = "send"
    /\ twin' = Merged(patch[t].sections)
    /\ twinSummary' = patch[t].summary
    /\ outcome' = IF t = "main" \/ report[t].status = "pending" THEN outcome
                  ELSE [outcome EXCEPT ![report[t].handler] = report[t].status]
    /\ patch' = [patch EXCEPT ![t] = NoPatch]
    /\ AfterReport(t)
    /\ UNCHANGED <<active, deps, sequence, sectionStatus, todo, update, received>>

\* The SDK refuses the report: ReportAll throws.  The Invoke of a built-in
\* handler is noexcept, so the agent ends; SignalConnectionStatusChanged and
\* the caller of a plugin's Invoke catch it (the plugin's host is gone).
SendReportFails(t) ==
    /\ at[t] = "send"
    /\ Fails
    /\ IF t = "sdk" /\ report[t].handler \in Builtin
       THEN at' = [x \in Threads |-> "terminated"]
       ELSE Goto(t, "invoke")
    /\ outcome' = IF t = "main" THEN outcome
                  ELSE [outcome EXCEPT ![report[t].handler] = "lost"]
    /\ patch' = [patch EXCEPT ![t] = NoPatch]
    /\ report' = [report EXCEPT ![t] = NoReport]
    /\ UNCHANGED <<active, deps, sequence, sectionStatus, twin, twinSummary, todo, update>>

(***************************************************************************)
(* The main loop tells each active handler of the connection.              *)
(***************************************************************************)
OnConnectionStatusChanged(h) ==
    /\ at["main"] = "invoke"
    /\ Turn("main", h)
    /\ Visited("main", h)
    /\ IF h \in ReportOnConnect
       THEN \E s \in {"succeeded", "failed"} : BeginReport("main", h, s, s)
       ELSE UNCHANGED <<sectionStatus, report, at>>
    /\ UNCHANGED <<active, deps, sequence, twin, twinSummary, patch, update,
                   outcome, received>>

AllTold ==
    /\ at["main"] = "invoke"
    /\ todo["main"] = {}
    /\ Goto("main", "idle")
    /\ UNCHANGED <<active, deps, sequence, sectionStatus, twin, twinSummary, todo,
                   patch, report, update, outcome, received>>

(***************************************************************************)
(* A twin update on the SDK's thread.                                      *)
(***************************************************************************)

\* Mutant: a section that already succeeded is not marked again.
SectionsToMarkAnew(u) == {h \in u.objects : sectionStatus[h] # "succeeded"}

\* MarkStatus visits the desired keys that are handlers with an object value.
SectionsToMark(u) == u.objects

BeginMarks(u, status) ==
    /\ update' = [u EXCEPT !.status = status]
    /\ todo' = [todo EXCEPT !["sdk"] = SectionsToMark(u)]
    /\ patch' = [patch EXCEPT !["sdk"] = NoPatch]
    /\ Goto("sdk", "mark")

\* keys: the desired sections that are registered; objects: those whose value
\* is an object (the others are a string or null).
OnDeviceTwinReceived(keys, objects) ==
    /\ at["sdk"] = "idle"
    /\ received.callbacks < MaxCallbacks
    /\ received' = [received EXCEPT !.callbacks = @ + 1]
    /\ BeginMarks([keys |-> keys, objects |-> objects, status |-> "none", method |-> FALSE],
                  "pending")
    /\ outcome' = [h \in Handlers |-> IF h \in keys THEN "due" ELSE outcome[h]]
    /\ UNCHANGED <<active, deps, sequence, sectionStatus, twin, twinSummary, report>>

MarkSection(h) ==
    /\ at["sdk"] = "mark"
    /\ Turn("sdk", h)
    /\ sectionStatus' = [sectionStatus EXCEPT ![h] = update.status]
    /\ Goto("sdk", "ask")
    /\ UNCHANGED <<active, deps, sequence, twin, twinSummary, todo, patch, report,
                   update, outcome, received>>

\* SetDeploymentStatus, then GetDeploymentStatusJson, which a plugin's host answers.
SetDeploymentStatus(h) ==
    /\ at["sdk"] = "ask"
    /\ Turn("sdk", h)
    /\ patch' = [patch EXCEPT !["sdk"].sections[h] = update.status]
    /\ Visited("sdk", h)
    /\ Goto("sdk", "mark")
    /\ UNCHANGED <<active, deps, sequence, sectionStatus, twin, twinSummary, report,
                   update, outcome, received>>

SetDeploymentStatusFails(h) ==
    /\ at["sdk"] = "ask"
    /\ Turn("sdk", h)
    /\ h \notin Builtin
    /\ Fails
    /\ sectionStatus' = [sectionStatus EXCEPT ![h] = "unknown"]
    /\ patch' = [patch EXCEPT !["sdk"].sections[h] = "unknown"]
    /\ Visited("sdk", h)
    /\ Goto("sdk", "mark")
    /\ UNCHANGED <<active, deps, sequence, twin, twinSummary, report, update, outcome>>

AggregateMarks ==
    /\ at["sdk"] = "mark"
    /\ todo["sdk"] = {}
    /\ patch' = [patch EXCEPT !["sdk"].summary = SummaryObject(sectionStatus)]
    /\ Goto("sdk", "sendMarks")
    /\ UNCHANGED <<active, deps, sequence, sectionStatus, twin, twinSummary, todo,
                   report, update, outcome, received>>

\* Mutant: a handler waits for an update of its own if it depends on another.
ToInvokeIndependent(keys) ==
    {h \in keys \cap ToSet(sequence) : deps[h] \cap keys = {}}

ToInvoke(keys) == keys \cap ToSet(sequence)

\* Without a sequence a second round marks the sections failed.
MarksAgain == sequence = << >> /\ update.status = "pending"

AfterMarks ==
    IF MarksAgain THEN BeginMarks(update, "failed") /\ UNCHANGED outcome
    ELSE /\ patch' = [patch EXCEPT !["sdk"] = NoPatch]
         /\ IF sequence = << >>
            THEN /\ outcome' = [h \in Handlers |-> IF outcome[h] = "due" THEN "skipped"
                                                   ELSE outcome[h]]
                 /\ update' = NoUpdate
                 /\ Goto("sdk", "idle")
                 /\ UNCHANGED todo
            ELSE /\ todo' = [todo EXCEPT !["sdk"] = ToInvoke(update.keys)]
                 /\ Goto("sdk", "invoke")
                 /\ UNCHANGED <<update, outcome>>

SendMarks ==
    /\ at["sdk"] = "sendMarks"
    /\ twin' = Merged(patch["sdk"].sections)
    /\ twinSummary' = patch["sdk"].summary
    /\ AfterMarks
    /\ UNCHANGED <<active, deps, sequence, sectionStatus, report, received>>

\* ReportAll throws out of MarkStatus and of the callback: nothing catches it.
SendMarksFails ==
    /\ at["sdk"] = "sendMarks"
    /\ Fails
    /\ at' = [t \in Threads |-> "terminated"]
    /\ UNCHANGED <<active, deps, sequence, sectionStatus, twin, twinSummary, todo,
                   patch, report, update, outcome>>

(***************************************************************************)
(* InvokeHandler, for the next handler of an update or for a method.       *)
(***************************************************************************)
\* Mutant: the dispatch waits until the handler is active.
InvokeInactiveWaits(h) ==
    /\ at["sdk"] = "invoke"
    /\ Turn("sdk", h)
    /\ h \notin active
    /\ UNCHANGED state

InvokeInactive(h) ==
    /\ at["sdk"] = "invoke"
    /\ Turn("sdk", h)
    /\ h \notin active
    /\ outcome' = [outcome EXCEPT ![h] = "skipped"]
    /\ Visited("sdk", h)
    /\ UNCHANGED <<active, deps, sequence, sectionStatus, twin, twinSummary, at,
                   patch, report, update, received>>

InvokeActive(h) ==
    /\ at["sdk"] = "invoke"
    /\ Turn("sdk", h)
    /\ h \in active
    /\ report' = [report EXCEPT !["sdk"].handler = h]
    /\ Visited("sdk", h)
    /\ Goto("sdk", IF h = ClearReported THEN "clear" ELSE "run")
    /\ UNCHANGED <<active, deps, sequence, sectionStatus, twin, twinSummary,
                   patch, update, outcome, received>>

\* ReportRefreshing, once, before the work.
ReportRefreshing ==
    LET h == report["sdk"].handler
    IN  /\ at["sdk"] = "run"
        /\ h \notin Builtin
        /\ report["sdk"].status = "none"
        /\ BeginReport("sdk", h, "pending", "refreshing")
        /\ UNCHANGED <<active, deps, sequence, twin, twinSummary, todo, patch, update,
                       outcome, received>>

\* FinalizeAndReport: success exactly when the error list is empty.
FinalizeAndReport ==
    /\ at["sdk"] = "run"
    /\ \E s \in {"succeeded", "failed"} : BeginReport("sdk", report["sdk"].handler, s, s)
    /\ UNCHANGED <<active, deps, sequence, twin, twinSummary, todo, patch, update,
                   outcome, received>>

\* The proxy's Invoke throws (the plugin's host died); InvokeHandler catches.
InvokeThrows ==
    /\ at["sdk"] = "run"
    /\ report["sdk"].handler \notin Builtin
    /\ Fails
    /\ outcome' = [outcome EXCEPT ![report["sdk"].handler] = "lost"]
    /\ report' = [report EXCEPT !["sdk"] = NoReport]
    /\ Goto("sdk", "invoke")
    /\ UNCHANGED <<active, deps, sequence, sectionStatus, twin, twinSummary, todo,
                   patch, update>>

\* ClearReportedCmdHandler::Invoke with the right interface version: null for
\* every other section.  The summary is not part of the object, nor reset.
ClearOthers ==
    /\ at["sdk"] = "clear"
    /\ twin' = [h \in Handlers |-> IF h = ClearReported THEN twin[h] ELSE "absent"]
    /\ BeginReport("sdk", ClearReported, "succeeded", "succeeded")
    /\ UNCHANGED <<active, deps, sequence, twinSummary, todo, patch, update, outcome,
                   received>>

\* A wrong version, or a failure to send the nulls, is the operation's error.
ClearFails ==
    /\ at["sdk"] = "clear"
    /\ BeginReport("sdk", ClearReported, "failed", "failed")
    /\ UNCHANGED <<active, deps, sequence, twin, twinSummary, todo, patch, update,
                   outcome, received>>

AllInvoked ==
    /\ at["sdk"] = "invoke"
    /\ todo["sdk"] = {}
    /\ update' = NoUpdate
    /\ Goto("sdk", "idle")
    /\ UNCHANGED <<active, deps, sequence, sectionStatus, twin, twinSummary, todo,
                   patch, report, outcome, received>>

\* A method's name is a handler's; an unknown name changes nothing.
OnDirectMethodInvoked(h) ==
    /\ at["sdk"] = "idle"
    /\ received.callbacks < MaxCallbacks
    /\ received' = [received EXCEPT !.callbacks = @ + 1]
    /\ update' = [NoUpdate EXCEPT !.method = TRUE]
    /\ todo' = [todo EXCEPT !["sdk"] = {h}]
    /\ Goto("sdk", "invoke")
    /\ UNCHANGED <<active, deps, sequence, sectionStatus, twin, twinSummary, patch,
                   report, outcome>>

ReportStep(t) == Compose(t) \/ SendReport(t) \/ SendReportFails(t)

MainStep ==
    \/ SignalStart \/ HandlerInvokeSequence \/ Connect
    \/ \E h \in Handlers : OnConnectionStatusChanged(h)
    \/ AllTold \/ ReportStep("main")

SdkStep ==
    \/ \E h \in Handlers :
          MarkSection(h) \/ SetDeploymentStatus(h) \/ SetDeploymentStatusFails(h)
    \/ AggregateMarks \/ SendMarks \/ SendMarksFails
    \/ \E h \in Handlers : InvokeInactive(h) \/ InvokeActive(h)
    \/ ReportRefreshing \/ FinalizeAndReport
    \/ InvokeThrows \/ ClearOthers \/ ClearFails \/ AllInvoked \/ ReportStep("sdk")

Callback ==
    \/ \E u \in Updates : OnDeviceTwinReceived(u.keys, u.objects)
    \/ \E h \in Handlers : OnDirectMethodInvoked(h)

Next == MainStep \/ SdkStep \/ Callback

Spec == Init /\ [][Next]_state

\* Each thread runs on; the IoT Hub need not call back.
FairSpec == Spec /\ WF_state(MainStep) /\ WF_state(SdkStep)

-----------------------------------------------------------------------------

Quiet == at["sdk"] = "idle" /\ at["main"] = "idle"

(***************************************************************************)
(* A desired section that is still shown pending when no thread works on   *)
(* it belongs to a handler that was inactive, or whose invocation threw or *)
(* could not report: a handler that ran to its end is never left pending.  *)
(* (OnDeviceTwinReceived, InvokeHandler, HandlerBase::FinalizeAndReport.)  *)
(***************************************************************************)
PendingOnlyIfUnfinished ==
    Quiet => \A h \in Handlers :
               twin[h] \in {"pending", "refreshing"} => outcome[h] \in {"skipped", "lost"}

(***************************************************************************)
(* While a handler waits for its turn in an update, the twin does not show *)
(* an outcome of its earlier configuration: all marks reach the hub before *)
(* the first handler is invoked.  Not claimed for a handler that reports   *)
(* on connect, which the main loop may do in between.                      *)
(***************************************************************************)
NoOldOutcomeShown ==
    (at["sdk"] \in {"invoke", "run", "clear", "compose", "send"} /\ ~update.method)
       => \A h \in todo["sdk"] \cap (update.objects \ ReportOnConnect) :
            twin[h] \in {"pending", "unknown", "absent"}

(***************************************************************************)
(* With nothing under way, a handler that does not report on connect shows *)
(* the outcome of its last invocation, unless ClearReported removed it     *)
(* since: no report of another thread or an earlier update overwrites it.  *)
(***************************************************************************)
LastOutcomeShown ==
    Quiet => \A h \in Handlers \ ReportOnConnect :
               outcome[h] \in {"succeeded", "failed"} => twin[h] \in {outcome[h], "absent"}

(***************************************************************************)
(* As long as only the callback thread reports and every report arrives,   *)
(* the summary agrees with the sections it sums up whenever no thread is   *)
(* at work: a section marked by one step, reported by a later one or by    *)
(* another handler's report leaves no stale entry.  (Sections removed by   *)
(* ClearReported are left aside: it does not reset the summary.)           *)
(***************************************************************************)
SummaryMatchesTwin ==
    (Quiet /\ received.failures = 0 /\ ReportOnConnect \cap active = {}) =>
       \A h \in Handlers : twin[h] # "absent" =>
          /\ h \in twinSummary.failed <=> twin[h] = "failed"
          /\ h \in twinSummary.pending <=> twin[h] \in {"pending", "refreshing"}

(***************************************************************************)
(* Every update and every method is carried to its end: the callback       *)
(* thread comes back for the next one, unless the agent ended.             *)
(***************************************************************************)
CallbacksReturn ==
    at["sdk"] \notin {"connecting", "idle"} ~> at["sdk"] \in {"idle", "terminated"}

=============================================================================
